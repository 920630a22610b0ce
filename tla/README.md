# Verification of Unified-Archiver

TLA+ modules, TLC configurations and TLAPS proofs for the archive library in
`src/src/` (Rust). Everything is translated from the source; comments, the
manual and the tests are used where a property states what they promise.
`PROJECT.json` holds the index: components, runs, mutants, the map from each
definition to the lines it models, findings, hazards, theorems.

## 1. The system

The library opens, lists, extracts, creates and modifies archives behind one
facade, `Archive`, over several backends (libarchive, UnRAR, the zip crate, a 7z
crate). It has no threads of its own. What is concurrent is around it: other
processes and threads using the same files, the file system under it, and the
callbacks it calls. What is hard is that its operations are long sequences of
file-system calls, each of which may fail, between which the files may change,
and after which the caller must be told the truth.

| Component (source) | State it keeps | Operations | Interacts with |
|---|---|---|---|
| Modify session (`modification.rs`, `archive/mode_split.rs`, `fs_identity.rs`) | lock descriptor and the identity it had, format, queued adds and removals, source listing | `modify`, `add_entry*`, `remove_entry*`, `replace_entry`, `clear_operations`, `commit_changes`, `try_commit_changes`, drop | other sessions through an advisory lock on the inode; writers that ignore it; the reader backend; a nested Write handle |
| Write handle (`creation.rs`, `archive.rs`) | the backend writer, namespace tracker, `finalized`, `write_poisoned` | `create`, `add_*`, `add_directory_recursive`, `finish`, `close`, three drops | the source tree (others change it), the progress callback |
| Recursive add (`creation/manifest.rs`, `ffi/common.rs`) | source manifest, undo journal | walk, verify, write | namespace tracker, writer |
| Write namespace (`write_namespace.rs`) | files, dirs | `record_file`, `record_dir`, `contains_*`, undo | both of the above |
| ZIP and libarchive writers (`ffi/zip_writer.rs`, `ffi/libarchive_wrapper/writer.rs`) | raw writer, poisoned, entries written, close failure | entry writes, finish/close, drop | output file |
| libarchive reader (`ffi/libarchive_wrapper/reader.rs`) | bound identity, entry cache | list, extract, test; every one re-opens the pathname | the file system |
| ZIP and 7z readers (`ffi/zip_wrapper.rs`, `ffi/sevenz_wrapper.rs`) | cached descriptor, listing memo, raw directory | same | the file system |
| UnRAR adapter (`ffi/wrapper.rs`, `ffi/unrar.rs`) | process-wide lock, thread-local re-entry flag, callback state | list, extract, test | the SDK, which calls back |
| Extraction (`extraction.rs`) | per call: files and directories seen, budgets | preflight of conflicts, selection, dispatch | readers, output tree |
| Staged outputs (`ffi/common.rs`) | temporary file, final name, overwrite policy | create, commit, drop | output tree |
| Limits and path safety (`security.rs`) | byte and entry budgets | sanitize, account, refuse | extraction, readers |
| Byte sources (`volume_chain.rs`, `payload_window.rs`) | one cursor per volume, `synced` index, window position | read, seek | readers |
| Bounded readers (`streaming.rs`) | remaining bytes, sticky verdict | read | extraction to streams |
| SFX opening and detection (`archive.rs`, `sfx/`) | staged payload copy | detect, stage, open | readers |
| Inspection (`inspection.rs`), dispatch (`backend.rs`) | none | list, find, test integrity | readers |
| Format and volume sets (`format.rs`, `format/multipart.rs`) | none | detection, volume-set report | opening |
| Stream checksums (`stream_crc*`) | scan position | trailer scan, digest | inspection |
| External RAR creation (`external/`) | probe result, exit status | check, probe, check, run, verify | the `rar` program |
| Options, rate limiting, entries, errors, passwords | plain data; one timestamp | builders | everything |

What makes each component correct, and where it is hard to test, is the list of
hazards in `PROJECT.json`, each at its line. The ones a running test meets least:
a rename by a stranger between two of the re-opens of a commit; a power loss
between backup, rename and directory sync; a failure half-way through a
reservation; an archive whose queue of edits is legal one by one and not
together; a file that another program puts where an extraction is about to
install; a payload that is not what its listing declares; a name that two records
of a ZIP directory share; a file replaced between the detection of its payload
and the open of it; a pipe put where a source file was checked; a progress callback that
enters UnRAR again.

## 2. The modules

| Module | Models | Run |
|---|---|---|
| `AtomicArchive` | abstract: an archive is a register; the edits of a session enter it in one step or not at all | `modify_cooperating` |
| `ModifySession` | `modify` to `commit_changes` and drop, step by step, for several sessions on one pathname, with crashes, power losses and a stranger | `modify_cooperating`, `modify_hostile` |
| `WriteNamespace` | the namespace tracker and its undo journal, as operators | through the two below |
| `CreateArchive` | a Write handle over either writer, the recursive add against a changing tree, and the three drops | `create` |
| `ArchiveRewrite` | what a commit does to the entries: the queue, the gate, the replay, session after session | `rewrite` |
| `ReaderEntry` | how the bytes of a queued reader become an entry: the drain, the copy and the length check of both writers | `entry_stream` |
| `Extraction` | one extraction to disk over ZIP, 7z or libarchive, from the listing to the answer | `extraction` |
| `ByteSlice` | abstract: a reader over one byte string | `byte_source` |
| `VolumeSet` | volume names and the report on a set of them, as operators | through `ByteSource` |
| `ByteSource` | the volume chain under the payload window, as a 7z handle opens, reads and seeks it | `byte_source` |
| `EntryStream` | one entry read to memory, as a stream or for a digest, under every bound | `entry_stream` |
| `RecoveryRecord` | the walk over the raw blocks of a RAR file, as operators | through `UnrarHandle` |
| `UnrarHandle` | every operation of a RAR handle over the SDK, its lock and its callbacks | `unrar` |
| `RawDirectory` | a ZIP directory against the zip crate's view of it, as operators | through `ReadHandle` |
| `ReadHandle` | what a ZIP, 7z or libarchive handle keeps between calls; tests and digests | `read_handle` |
| `SfxDetection` | formats, stubs and payload offsets, as operators over the cells of a file | through `Opening` |
| `Opening` | how a path becomes a handle: detection, staging, in-place payloads, re-opens | `opening`, `nested_sfx` |
| `ContentDigest` | the content digest and size total of a listing, as operators | an assumption of `entry_stream` |
| `NumberSets` | finite sets of numbers in order and sums over them, as operators the provers can expand | through `Extraction`, `EntryStream`, `VolumeSet`, `ArchiveRewrite`, `UnrarHandle` |
| `ExternalRar` | RAR creation through the installed program | `external_rar` |
| `MC*` | constants of the instances; `MCByteSource` and `MCEntryStream` hold assumptions that TLC evaluates for every bounded input of a pure algorithm; `MCEntryStream` checks `EntryStream` and `ReaderEntry` beside each other, an instance having a call or a reader | |
| `NumberSetsProofs` | lemmas about least and last elements, ascending lists and sums over finite sets | |
| `ModifyProofs` | theorems about `ModifySession` and `ArchiveRewrite` | |
| `RarProofs` | theorems about `UnrarHandle`, `RecoveryRecord` and `ExternalRar` | |
| `StreamProofs` | theorems about `EntryStream` and `ByteSource` | |
| other `*Proofs` | theorems about the module of the same name | |

`ArchiveRewrite`, `ReaderEntry`, `ExternalRar` and `ByteSource` qualify the names of
their own parts (`RewriteSpec`, `RarSpec`, `SourceSpec`, ...), so that one module can
extend them beside another specification.

How they compose. `ModifySession` and `ArchiveRewrite` are the two halves of
`modification.rs`: the first knows files and not entries, the second entries and
not files. `WriteNamespace` is extended by `CreateArchive` and `ArchiveRewrite`,
as the tracker is used by both. Reading is cut along the layers of the code:
`Opening` ends with a handle; `ReadHandle` is what ZIP, 7z and libarchive handles
keep and answer, `UnrarHandle` the same for RAR; `ByteSource` is what lies under
a 7z handle; `EntryStream` is one entry on its way to the caller, and
`Extraction` all of them on their way to disk. A module takes from the layer
below only what that layer's properties state: `Extraction` reads bytes that the
decoder produces for a declared size (`EntryStream` says when these are
refused), and `ReadHandle` a file that is the one its identity names.

### ModifySession

One session is one `modify()` handle, used once; a retry is another session. A
file is named by who created it, so `s` is also the staging file of session `s`.
`dir` is the directory that processes see, `ddir` the one on disk. `pc[s]` names
the step a call is at; each value stands between two system calls of the code.

| Actions | Code |
|---|---|
| `OpenLockFile`, `TryLock`, `GateProbe`, `Probe`, `GateBind` | `Archive::modify`: open, `try_lock`, gates, encryption probe |
| `ReadBegin`, `ReadOpen`, `ReadEnd`, `ReadFails` | `bound_read_handle`: stat, native open, stat, for the first open, for the listing, for each retained entry |
| `Queue`, `ClearOperations`, `Discard`, `CommitChanges`, `TryCommitReturns` | calls on the open handle |
| `GateExtras`, `LoadSourceExtras` | `validate_pending_commit`, the ZIP directory read |
| `CreateStaging`, `GateReplay`, `FinishStaging`, `CarryMode` | `commit_session` |
| `GateSwap`, `ClaimBackup`, `ChmodBackup`, `CopyBackup`, `Rename`, `SyncParent` | `commit_swap` |
| `Fail`, `DropBackup`, `RemoveStaging`, `Close` | the error paths and their one cleanup |
| `Crash`, `PowerLoss`, `Writeback`, `Replace` | the environment |

A gate (`NamesLocked`) compares the pathname with the locked file. It is one
atomic look, and every other action may come right after it: the model has every
window between check and use that the code has.

`Atomic` is the refinement mapping: the register holds `edits[dir.path]`, and the
outcome of a session is read off its answer.

Left out, and why: rewrites in place that keep length and times (a residual that
`fs_identity.rs` documents); a stranger that swaps the original file back between
two stats (documented at `reader.rs:1147`); `remove_file` failing in the cleanup;
re-use of an inode number, which the lock descriptor prevents. Directory changes
reach the disk in the order they were made.

### CreateArchive

A path is the key `normalize_dup_check_path` makes. `w` is the writer: the
entries written, the poison flag, the count, whether the raw writer is still
there, whether a close has failed, whether the end of the archive was written
and synced. The ways in which an entry write or a close can end are operators
over `w` (`Wrote`, `Failures`, `Finalized`), with what differs between the two
backends in `Refused`, `DirFailures` and `DropWriter`. `ver` is the index of the
change to the tree that made an object, so it stands for identity and mtime.

The recursive add is cut at every system call that meets the tree: the walk, the check
of an object (`Unchanged`), and for a file the calls of `open_file_no_follow_symlinks`,
which are a look that refuses links (`LookAtSource`), a plain open that follows links
and asks no type (`OpenSource`), another look and a stat of what was opened
(`RecheckSource`), and the copy. An object of the tree is a file, a directory, a link or
a special file. The open of a pipe may sleep until its other end is opened, and so may a
read of it (`CopyWaits`); nothing ends that sleep, and no fairness is claimed for it. A
directory in the place of a file opens, and fails in the copy, after the header: the
writer is then poisoned. Single adds are one action, the tracker and the writer being
behind `&mut self`; the open of their source has the same window as the recursive one,
and is not cut there. The tree may change at any point of a recursive add; a copy in
progress may read what was opened or, after a rewrite in place, what is there now
(`Readable`). `saved`, `base`, `checked` and `torn` are history variables; no guard
reads them except `checked`, which stands for the directory listings a walk has taken.

Left out: option validation, the encryption gate, timestamps and permissions;
rewrites that fit in the granularity of a timestamp. That the output file lies in
the source tree is one of the reasons for which `WalkFails`.

### ArchiveRewrite

An entry has a path, a type and a payload that identifies it. `odd` marks an entry
of which the two ZIP readers report different sizes or checksums; `Wild` holds
the paths the name gate refuses. A source of bytes is a snapshot; a source path
is opened during the replay (`live` counts its rewrites); `fits` says whether a
reader delivers what it declared and stays below the cap (`ReaderEntry` says what
becomes of one that does and of one that does not).

`Refusal` is the gate of a commit, and `RetainSkipped` ... `WriteMismatch` the
replay: retained files and readers go to the raw writer, directories, bytes and
paths through the facade and its namespace. `Install` makes the result the
archive of the next session.

Left out: the lock and the swap (they are `ModifySession`); backslash spellings;
the wording of refusals and which of two is given; the format-override options.
The zip crate's map of names, in which equal
names collapse, is taken from the use the code and its tests make of it.

### ReaderEntry

A queued reader has a length or no end, and a declared size or none; each read of it
gives any number of bytes up to the buffer's. `DrainChunk` and the other two are
`drain_into_tempfile`; `WriteHeader` and `CopyChunk` to `CopyFails` are the two writers,
which differ: ZIP writes what it reads and compares at the end (`stream_reader_exact`,
and no bound at all on a temporary file), libarchive has the size in the header and
refuses the surplus byte before it writes it. Left out: a third writer
(`buffered_ingest_reader`), which no Modify session has; what a reader gives besides
bytes.

### Extraction

A record of an archive has a path, a kind, a declared size (or none) and the
`data` the decoder will in fact produce. The gates and the preflight look at the
listing, the walk at what it reads; `dest` is what stands at each path of the
destination, with who put it there.

| Actions | Code |
|---|---|
| `Call`, `GatesRefuse`, `GatesPass` | the entry of `extract_all`/`extract_one`, count, size and ratio gates |
| `PreflightEntry`, `PreflightRefuses`, `PreflightEnds` | `check_overwrite_conflicts` |
| `StatArchive`, `OpenRefuses`, `OpenWalk`, `StartWalk`, `BracketRefuses` | the second open and the identity bracket around it |
| `HeadDrifts`, `HeadSkips`, `HeadUnplaceable`, `HeadDirectory`, `HeadFile`, `HeadEnds`, the `Single*` ones | pairing of the walk with the listing |
| `PrepareRefuses`, `Prepare`, `CopyChunk`, `CopyOverruns`, `CopyFails`, `CopyEnds` | `AtomicOutputFile::create`, the bounded copy, sync |
| `InstallFails`, `Install`, `InstallSingle`, `Finish` | `commit` and the answer |
| `Meddle`, `ReplaceArchive`, `RewriteArchive` | other programs |

Left out: whether a ratio is exceeded or a name unsafe is a free choice; CRCs,
metadata and links; a replaced archive never has the identity of the old one; a
rewrite in place comes before the open; staging names never collide; the
Windows rename variants. Only the bulk walk of libarchive keeps a cumulative budget
at run time; ZIP, 7z and libarchive's one-entry calls rest on their gates, and ZIP's
gates are about the very records it reads. For an archive that is rewritten in place
after its gates have passed the code therefore promises what the declared sizes of
the new records allow and no more; `SizesAreGated` is that exception in `BudgetHolds`.

### ByteSource

A byte is a pair of the file it is in and its offset there, so that a byte of the
wrong volume is told from the right one. `Begin`, `Scan`, `OpenPart`,
`OpenWindow`, `Parse` and `Close` are `SevenZArchive::open_reader`, `ReadSource` and the
three seeks those of `PayloadWindow` over `VolumeChain` with its `synced` index.
`U64Max` is 6, so that sums of positions and offsets do overflow. The volumes are
found by `VolumeSet`'s report on the names of the directory. Others replace, delete,
shorten or lengthen files. `ReadsAsOneSlice` is the refinement of `ByteSlice`.

Left out: the scan of the directory is one look; bytes are not rewritten in
place. The first open of a handle over a single file binds it to what it found
after the open, which the property therefore does not speak of.

### EntryStream

A payload is the blocks a decoder hands over (a hole before each, or an offset that
goes backwards) and whether it then ends or fails. ZIP and 7z buffer it, RAR stages
it, libarchive assembles its blocks or reads on demand; the caller reads through
up to two `HardCapReader`s (`RawRead`, `InnerRead`, `OuterRead`), stacked as
`extract_to_stream_with_limit` and `extract_to_stream_impl` stack them. Bounds are
sets of at most one number, `{}` for the code's `None`. The digest of a RAR entry
takes the same pushes as its extraction (`RarPushes`). A checksum mismatch is one
of the ways in which a payload fails; failed allocations are left out.

### ContentDigest

What is made of a listing once its payloads have been read: which CRC32s are taken
as listed, in which order the others are asked for, what ends the call, and the join
of `(crc, size)` pairs into a digest that does not depend on the order of the entries.
The module has no state. `EntryStream` owns the reads; here a payload is its CRC32
and its length, and a listed CRC32 is taken to be true, as the code takes it. The
last fold to 32 bits is left out.

### UnrarHandle

An operation stats, opens and compares, walks headers and gives each to
`RARProcessFile`. A header is one part of an entry; `before` and `after` join the parts
over volumes. `lock` and `in_unrar` are the process-wide lock and the thread's sentinel,
`exit_code` the SDK's global error code, which another thread (`OtherTakes`,
`OtherReturns`) sets or cleans. `Reenter` is a progress callback that calls the library.
What the SDK does is external, read off how `wrapper.rs` uses it and off the C++ in
`src/src/ffi/native`. `RecoveryRecord` is the one place where the adapter parses bytes
itself: `Walk` is the code's walk over offsets, `Truthful` what may be said of a file by
who knows its blocks and where it was cut. A percentage is a number of any size, since
RAR5 stores one and RAR4 divides two counts.

A middle volume that is opened by itself begins with the rest of an entry; the SDK lists
that entry and refuses its data (`NeedsPrevious`). `left` holds the inodes of the
files that were at the path before.

Left out: solid archives, passwords, staging and installing (they are
`Extraction`'s), a swap of a continuation volume, decoding of names, a callback
that panics; a file that comes back, or another of the same inode, between the stat
and the native open, a window the comment at `wrapper.rs:515` accepts.

### ReadHandle

`identity`, `cached`, `listing` and `raw_directory` are the number of the file each was
filled from, 0 when it is not. Files come to stand at the path one by one; one of them
may be unfinished. An entry's payload is a run of units that ends well, corrupt or with
an I/O error, and after a corrupt end the decoder may give more units, without end in
the case of a damaged LZMA2 block. `lost` says that the cursor of a solid block does not
stand where the next entry starts.

Left out: a file that comes back; rewriting in place; a libarchive handle that could
not bind; mixed encodings of one name (see section 4); the mutexes, which a callback
may not enter.

### Opening

A file is a sequence of cells: the header of a stub, the first bytes of an archive, or
filling. `SfxDetection` says what a scan finds in it, within `Scan` cells, and where
each backend would find an archive when handed the whole file: UnRAR searches by itself,
ZIP counts from the end. Every open and every stat of the path by an open is an action,
the backends' among them: UnRAR and libarchive open the file in their constructor,
between two looks at its identity (`OpenNative`, `StatAfter`), ZIP and 7z keep the path
and look for the first time when they list (`Lazy`). `looks` is the history of the files
met since the detection. `Meddle` puts another file at the path, puts an earlier one
back (`put_back`), or lengthens or shortens the file in between. gzip stands for every
format read through libarchive. `List` is one step: `ReadHandle` and `ByteSource` take
the later opens of a handle apart.

What a handle of ZIP or 7z reads is compared with the verdict by nobody, and an exchange
that is undone between two looks goes unseen; the code documents both
(`archive.rs:590-600`, `1254-1262`). `DetectedIsRead` therefore stops there, and
`VerdictIsRead` in section 4 is the same without these provisos.

Left out: the fallback to the file's extension beyond the suffixes used, changes that
keep length and identity, the header checks that tell installers apart.

### ExternalRar

`New`, `vet_program`, `Add`, `set_password`, `build`, `OutputFree`, `probe_binary`,
`OutputStillFree`, `run`, `Classify` and `Verify` are the steps of `external/`;
`ChildAdds` and `ChildEnds` those of rar, which adds to an archive that exists and ends
with 0 only when every named source went in. `out` is the file at the output path: who
made it, what it holds and whether others' content was added to. `Meddle` changes
programs, deletes sources, and puts files at the output path or takes them away;
`touched` says that this was after the last look at it, where no check can help. Left
out: a child that hangs, wording and redaction.

## 3. What is checked

Each property of a passing run has a mutant: a plausible error in the code, as an
operator beside the right one, with which TLC finds the property violated. Some
properties are conjunctions, named for what they say together (`Recoverable`,
`ReplaySound`, `InstalledWhole`, `VerdictsTrue`, ...); the modules define and
comment each part by its own name.

| Run | Question | Bounds | States |
|---|---|---|---|
| `modify_cooperating` | do sessions that obey the lock lose no edit, release the lock, and implement `AtomicArchive`? | 2 sessions, a crash of each, 1 re-open in the replay | 107 264 |
| `modify_hostile` | does a commit come from the locked file only, is there always a complete archive and its backup, no wider permission, and nothing left by an error? | 2 sessions (symmetric), 1 stranger, 1 power loss, 1 re-open | 1.5 M |
| `create` | are claims consistent and exactly undone by failures, does Ok mean sealed, and is a recursive add answered unless it sleeps on a pipe that came after the check? | 3 nested paths, a call starts below 3 entries, 1 change of the tree, both backends | 939 384 |
| `rewrite` | does the gate refuse exactly what could not be extracted, does the replay never collide, and is the result an archive the next session can modify? | all listings of up to 2 entries over 2 nested paths and some to refuse with 1 session, 3 longer ones with 2 sessions, 2 operations | 1.1 M |
| `extraction` | is nothing replaced, nothing partial, nothing over the limits, and a success complete? | 3 paths, one above another, archives that are honest, lie about sizes or clash, 1 interference in the destination, 1 at the archive | 1.1 M |
| `byte_source` | does the chain read as one slice of the bound file? | up to 3 volumes, positions to 6, any sequence of reads and seeks, 1 interference | 61 730 |
| `entry_stream` | on the way out, are bounds kept and verdicts true and final; on the way in, is an entry its reader, to the byte, and what can a reader that lies or has no end fill? | payloads of up to 3 blocks, every combination of declared size, limits and stream bound around them; readers of up to 6 bytes or without end, of known, wrong or unknown size, a buffer of 2, a cap of 4, both writers | 41 038 |
| `unrar` | is what is written what was listed, is an all-clear honest, is what is said of a recovery record so, does every call return? | plain, split, damaged, over-long, cut archives and a middle volume, 1 replacement or lost volume, 1 other thread, 1 re-entry | 257 192 |
| `read_handle` | is all of one file, do answers cover every record, does every call return? | files of up to 3 entries, up to 3 files in turn, 1 failure of the scan | 26 378 |
| `opening` | is the file that is read the one detected, at the offset detected? | files of up to 6 cells, 2 changes by others | 3.2 M |
| `external_rar` | is the file at the output path whole when Ok is said, and is another's file left alone? | 2 places for programs, 2 sources, 2 changes by others | 265 156 |

The bounds are enough for the cases. A lost update or a broken lock needs two sessions;
a mixed staging file needs one stranger; a conflict of names needs one path above
another, and the third gives an ancestor of an ancestor; a half-undone journal needs a
walk of three; a collision needs two entries. A stale cursor needs two volumes and a
seek back; an ambiguous name two records; a collapse that is explained by the wrong name
three. A check that is separated from its use is passed by one interference; an exchange
that is undone before the next look takes two, and `opening` has two and lets an earlier
file come back. A bound of a count needs a read that ends at it and one that passes it.
What the proofs of section 5 cover holds without bounds.

`ReportOfAnyMember`, `LayoutOfAnyMember` and `DominantIsLargest` in `MCByteSource` are
assumptions that TLC evaluates for every subset of eight names: the report on a
volume set and the layout made of it do not depend on the member that was opened,
the report is complete exactly when the numbers run from 1 without gap or repeat,
and the set found without an opened member is the largest.

`SummaryIsContent` in `MCEntryStream` is one for every listing of up to 3 entries on
each backend, with 2 names, 2 contents, a largest total of 4, CRC32s modulo 4 and a
default ceiling of 1: the digest is that of the contents, whatever the order, a total is
exact or refused, and a refusal has a cause. Reading a payload by its path instead of
its id, or letting the total overflow by one, makes it false.

The types of a `ModifySession` and of a `ByteSource` state are proved (`TypeCorrect`,
`SourceTypeCorrect`) and no longer an invariant of their runs; the other modules state
theirs in the first invariant of their runs.

`unrar` was also checked with `MaxMeddles = 2` (1.7 M states, no violation), which is
too long for a run of the index. `create` was also checked with `MaxChanges = 2`,
`MaxEntries = 1` and `FlatWalk` (98 540 states, no violation).

Deadlock checking is off where the system may rightly stop: when all handles are
closed, or the one call of the instance has returned. `ByteSource` and `ReadHandle`
are checked for deadlock.

Fairness. `ModifySession!FairSpec` has weak fairness of `Library(s)`: a call in
progress goes on to its next step, as straight-line code does. Nothing makes a
caller call or commit, a process crash, or the kernel write back; a handle that
is never used again keeps its lock, and no property says otherwise.
`CreateArchive!FairSpec` has the same for started calls and drops,
`ReadHandle!FairSpec` for the steps of a call, and `UnrarHandle!FairSpec` for the
walk, the SDK's decode loop and the return of another thread from its call, which
the operating system's scheduling gives it. Interference is not fair: it may
happen at most so often, and never has to.

### Further properties

Defined in the modules and not part of the index. Each can be put in the place of the
properties of a configuration; the result is the one TLC then gives.

| Property | Configuration | Result |
|---|---|---|
| `LockExcludes` | `ModifySessionCoop` | holds (and is proved) |
| `StagingSettles` | `ModifySessionCoop` | holds |
| `BackupNoClobber` | `ModifySessionHostile` | holds (and is proved) |
| `OutputExtracts`, `TreeAsPlanned`, `SourceAsChecked`, `WriterReleased` | `CreateArchive` | hold |
| `RemovedStaysGone` | `ArchiveRewrite` | holds |
| `ProgressMonotone` | `Extraction` | holds |
| those of section 4 | as given there | violated |

## 4. Where documentation and code part

`nested_sfx` is the disagreement the index lists as a finding: a payload that is
itself an installer is staged twice, and the handle keeps the temporary file it
does not read (`archive.rs:1420`), so every lazy open by name fails. The field's
doc says that the file is dropped with the `Archive`.

The other disagreements TLC shows, each when the property replaces those of the run's
configuration. The property states the sentence.

| Property, run | Sentence | What happens |
|---|---|---|
| `FinishBlockedByPoison`, `create` | after a failed add, `finish()` is blocked (manual, `create-an-archive.md:308`) | only the writer is poisoned; `finish` (`archive.rs:2603`) closes the file and may return Ok |
| `DirectoryOnce`, `create` | a directory path is emitted at most once (`creation.rs:357`) | an explicit add followed by a recursive add writes it twice (`manifest.rs:352`) |
| `FailurePoisons`, `create` | a failed backend add poisons the writer (`creation.rs:471`) | a recursive add that stops at a changed source leaves its entries in a healthy writer (`creation.rs:541`) |
| `TreeSizesRecorded`, `create` | a change between check and stat fails loudly (`manifest.rs:35`) | the new size is archived, and the add answers Ok (`zip_writer.rs:495`) |
| `TreeAlwaysAnswered`, `create` | a change after the check fails loudly (`manifest.rs:36-44`) | a pipe put there in the place of a file makes the add wait in the open (`ffi/common.rs:99`), before any guard, for somebody to open its other end |
| `DuplicatesRemovable`, `rewrite` | `remove_entry_by_id` serves archives with duplicate paths (`modification.rs:699`) | the commit is refused (`modification.rs:1330`) |
| `RetainedDirsKept`, `rewrite` | retained entries are copied, except links (`modification.rs:977`) | a directory listed after its content is not written, without a warning (`modification.rs:1303`) |
| `SnapshotIsWhatIsRead`, `byte_source` | the snapshot and every later read provably describe one file (`sevenz_wrapper.rs:238`) | of a set only the opened volume's identity is compared; another may be swapped |
| `EmptyReadKeepsVerdict`, `entry_stream` | an empty read is no way past the verdict (`streaming.rs:502`) | of two stacked readers the outer does not latch the inner's overrun (`streaming.rs:510`) and answers `Ok(0)` |
| `NoCrossContamination`, `unrar` | no cross-contamination between threads (`wrapper.rs:60`) | the SDK's error code is one global (`dll.cpp:431`): another thread's failure fails a sound archive |
| `DamageIsListed`, `unrar` | a list of the files that failed (`wrapper.rs:1646`) | the skip after a damaged file returns the error left behind, or skips the next file (`wrapper.rs:1701`) |
| `RecordReported`, `unrar` | a huge service header, of a comment say, is skipped (`wrapper.rs:3356`) | the first service header ends the walk whatever it is (`wrapper.rs:3106`, `3127`): a record behind a comment is answered as none |
| `FlagsAndRecordAgree`, `unrar` | the percentage cannot describe a different file than the flags (`wrapper.rs:864`) | the file is opened by name after the check (`wrapper.rs:885`) and not compared again |
| `NeverZeroPercent`, `unrar` | a positive value, never 0 (`tests/recovery_percentage_edge_cases.rs:86-88`) | a RAR4 record of less than one block in a hundred is 0 (`wrapper.rs:3281`) |
| `NameMeansOneRecord`, `read_handle` with `MixedWorlds` | ambiguity is confined to names whose reads are refused (`zip_wrapper.rs:751`) | a spelling read in two ways pays for a collapse of another name (`zip_wrapper.rs:916`) |
| `ReopenReadsOffset`, `nested_sfx` | a re-open reaches the embedded payload (`extraction.rs:377`) | at a caller's offset behind another payload, the password re-open detects the other |
| `VerdictIsRead`, `opening` | a replacement between the detection open and the backend open is refused (`archive.rs:586`; `590` grants that the check shrinks the window and does not close it) | a handle of ZIP or 7z lists whatever stands at the path by then; with UnRAR and libarchive it takes an exchange that is undone between two looks |
| `StubIsVerified`, `opening` | the stub is of the verified file | `extract_stub` stats the path anew; a file put there before is taken |

`RecoveryTruthful`, which `unrar` checks, is what holds beside the three sentences about
recovery records: a percentage is that of a sound record nothing hides, and "none" is
not said of a record in a file that was cut inside a block. A file cut exactly between
two blocks has no end the walk could miss, and is answered as one that ends there.

Met while modelling, and neither modelled nor run: the libarchive reader latches the end
after a read error, so a retry reads a clean end; under `DeclaredSize` a RAR entry that
over-produces is reported as a limit; a digest reports an overrun of unknown size as
corruption; `test_integrity` and the uncapped `extract_file` of RAR lose the
missing-volume diagnostic; a digest of a ZIP with an attributable duplicate whose
entries all list a CRC32 does not ask about the collapse; a 7z integrity test reports a
wrong password file by file; a fatal decode error ends libarchive's test without the
verdicts it has; the comment at `archive.rs:1203` has a `.exe` around a `.tar.gz`
re-detect as a tar where the suffix gives gzip; `MAX_STUB_SIZE` cannot be exceeded; a
chain keeps `synced` after a failed read, where the window drops it.

## 5. What is proved

All by TLAPS, for every value of the constants, the number of sessions, files, entries,
records, readers and interferences among them. The assumptions are those of the modules
(named `...Assumption`): sessions, strangers and the special names are distinct;
ancestors are transitive and irreflexive; a walk is not empty; records, payloads, calls
and bounds have the types the code gives them; the headers of a RAR file are those of
parts that follow one another; the path of a 7z handle is a name of its directory, whose
names stand for files made before the others'. TLC evaluates each of them on the
instances. Two theorems assume more, and say so in their statement.

Each proof has an inductive invariant: what the property needs to know of the steps
before. The parts named below are definitions of the proof module; every step lemma
shows that one part is kept by every action.

`ModifyProofs`, about `ModifySession`:

- `TypeCorrect`: `Spec => []TypeOK`. Inductive with `FileKnown`, which says that a
  session past its open has a file.
- `LockSafe`: `[]LockExcludes`. Inductive strengthening `Owns`: a session past
  `TryLock` is the registered holder of its file. Exclusion follows because a file
  has one holder.
- `SourceSafe`: `[]StagedFromLocked`. `SourceInv` adds that a file that is not
  born yet has been seen by nobody (`UnbornUnseen`), that closed handles have
  read nothing (`ClosedUnread`), that a re-open in progress has found either
  the bound file or one the pathname can never leave and come back from
  (`BracketHolds`), that all bytes used so far come from one file as long as the
  pathname names it (`OneSource`), that who has come far enough has read
  (`HasRead`), and what a finished staging file carries (`Made`). It is the
  argument the code's comments make for the position of each gate.
- `UpdateSafe`: `Spec => NoLostUpdate`. On top of these, `LockedIsCurrent`: without
  strangers, a session past its gates has locked the file that is at the pathname.
- `PermissionsSafe`: `[]NoWidening`. A staging file has the mode of the locked file from
  the step before the last gate on, and a backup before its first byte (`ModeCarried`,
  `BackupPrivate`). That the mode of the locked file itself stays is `UnbornUnseen`:
  the only file a session changes is one nobody has locked.
- `RecoverSafe`: `[]Recoverable`, with any number of power losses and strangers. What is
  named, in memory or on disk, is whole and synced, and so is a staging file that may
  be named next (`NamedAreWhole`); a claimed backup name stays its session's until the
  swap, with the copy in it by then (`BackupHeld`).
- `BackupSafe`: `Spec => BackupNoClobber`, from the same invariant.
- `ErrorsAreClean`: `[]ErrorLeavesNothing`. An answer is given once and at the rename,
  an error or an empty queue (`AnswerInv`), and until a power loss what a session has
  put under a shared name goes with its answer (`OwnTraces`).
- `SessionsImplementRegister`: without strangers and power losses (its two hypotheses,
  the setting of `modify_cooperating`) `Spec => ImplementsAtomicArchive`. The rename is
  `Apply`, by `StagedFromLocked` and `LockedIsCurrent`; every other end of a session is
  `Drop`; all other steps stutter (`OneSession`). The refinement holds for any number of
  sessions, with crashes of any of them.

`ModifyProofs`, about `ArchiveRewrite`, all from `ReplayInv`. A replay goes through one
list of items, the retained entries, then the directories, then the adds, although the
code has three loops; `Reached` is the place in that list.

- `ReplayIsSound`: `[]ReplaySound`. What was written is of items passed (`OutIsPassed`),
  and so is what the new archive's namespace knows (`NamespaceIsPassed`), a namespace
  the retained files and the readers never enter. The gate looked at the claims of all
  items in the order of the replay, so what was written cannot be in the way of the next
  item (`GateHeld`, `NewIsFree`), and the writer's own namespace refuses nothing the
  gate let through (`GateCovers`). That the gate is exact, `GateIsExact`, is about the
  operators alone.
- `FilesAreAsQueued`: `RewriteSpec => FilesAsQueued`. The files written are the first of
  the file items, in their order, with their payloads (`FilesInOrder`). At the end they
  are all of them.
- `NothingIsLost`: `RewriteSpec => NothingLostSilently`. Each retained entry that was
  passed was written, was a link and warned about, or is a directory above something
  written (`Accounted`). The two together are `CommitIsAsQueued`.
- `RemovedIsGone`: `RewriteSpec => RemovedStaysGone`, with `GoneIsRemoved`.
- `RewriteIsReopened`: `RewriteSpec => RewriteReopens`. A result has no two entries of
  one path, none in the way of another and none the gates refuse (`MadeIsClean`), so the
  next session is not refused for what the last one made.

`CreateArchiveProofs`:

- `TypeCorrect`.
- `NamespaceSafe`: `[]NamespaceConsistent` (types included). The invariant says besides
  that what is journalled, taken away from the live tracker, is what the call found, and
  that this was consistent. It rests on two facts about the operators:
  `RecordConsistent`, a reservation that fits keeps consistency, and
  `UndoneExactly`, any reservation, also one rejected among its own ancestors,
  is undone by its journal.
- `UndoSafe`: `Spec => FailedAddUndone`, from the same invariant.
- `SealSafe`: `[]OkMeansSealed`, with: a raw writer that was taken and has not
  failed is sealed.
- `CountSafe`: `[]ProgressHonest`, with: the first `count` entries are whole, at
  most one more follows, and then only in a poisoned writer.
- `SleepSafe`: `[]SleepsOnNewcomer`, the safety half of `TreeAnswered`. A file of the
  plan was a file when it was checked, so a pipe that the open meets came later
  (`SleepInv`).

`ExtractionProofs`:

- `NothingIsReplaced`: `Spec => NothingReplaced`. `BaseInv` relates the records of the
  file the handle is bound to with the listing (`SourceInv`), and what is staged with
  the record at hand (`FileInv`); `NoLinkInv` is the rest.
- `InstalledWasGated` and `SuccessIsComplete`: `CompleteInv` adds that what was
  installed is of the records passed so far, and that no selected record was passed
  without being installed or answered for (`TurnInv`).
- `WhateverIsInstalledIsWhole`: `[]InstalledWhole`. `OwnInv` says of which record each
  installed file is. The budget needs sums: what is written is at most what was counted
  (`WrittenInv`), what was counted is at most the declared sizes of the records
  passed (`DoneInv`), and these are part of what the gates added up (`GatedSums`).
- `PreflightIsRight`: `[]PreflightPredicts`. Where nobody interferes, the records still
  to come are compatible in pairs (`PairInv`) and free of what is there (`FreeInv`);
  each install keeps both.

`StreamProofs`, about `EntryStream`:

- `VerdictsAreTrue`, `NothingPastBudget`, `VerdictsStick`. The heart is a contract of a
  stack of readers (`Contract`): what a read of `want` bytes returns, how the position
  of the source and the count `seen` of every layer move with it, and that an end or a
  verdict means what it says. The source honours it, and a `HardCapReader` over
  something that honours it honours it again, so it holds for the code's stacks of two.
  `EntryInv` ties the three phases (buffering, streaming, digest) to it.

`StreamProofs`, about `ByteSource`, all from `SourceInv`: the parts follow each other
without a gap (`Contiguous`), window, chain and descriptor stand where they take each
other to stand (`Synced`), and `Course` says what is there at which step.

- `SourceTypeCorrect`: `[]SourceTypeOK`. What is opened is named in the directory, as
  the report on a set lists names it was given (`ReportedAreListed`, `SortedLists`).
- `SourceIsBound`: `SourceSpec => ReaderIsBound`. A file that was replaced under the
  handle's name never comes back, so a part opened under that name is the bound file as
  long as the name still stands for it (`BoundHolds`).
- `SourceImplementsSlice`: `SourceSpec => ReadsAsOneSlice`, for any number of volumes,
  empty ones among them. Every position before the end is in one part (`PartAtPosition`)
  and in no other (`PartIsItsOwn`); the bytes measured, joined by recursion over the
  parts, are the byte at each position (`MeasuredBytes`, with an explicit witness); a
  read finds the bytes of that part from there on (`ReadFinds`, `FoundIsOfSlice`). A
  short read is a `Read`, one that finds nothing a `Fail`; opening steps and others
  stutter.

`ReadHandleProofs`:

- `HandleSafe`: `[]HandleInv`. Files come to stand at the path in one order, so the file
  an open meets lies between what the stats around it found (`BracketInv`); equal stats
  leave one.
- `AnswersAreExact`: `[]AnswersExact`. What is tested and what is left are all there is
  (`WalkInv`, `DigestInv`), and a ZIP call about every entry has passed the gate of the
  scan (`GateInv`).
- `NamesMeanRecords`: `NamesDecodeAlike` implies `[]NameMeansOneRecord`. Section 4 shows
  the property violated where the same bytes decode in two ways, so the hypothesis
  cannot be dropped.

`OpeningProofs`, all from `IInvariant`:

- `ReadsWhatItDetected`: `[]DetectedIsRead`. As long as no earlier file comes back, the
  identity that is kept is of a file no later than the one the verdict was reached on,
  and no look meets an earlier one (`OrderInv`); the last stat finding the kept identity
  leaves one file for all of them. The identity a native handle keeps is that of its
  first look, so its listing meets the same file.
- `StagingIsBounded`: `[]StagingBounded`. A copy never outgrows the size it was begun
  with, which the ceiling and the identity allowed (`CopyInv`).
- `HandleHasOnePayload`: `[]HandleKeepsPayload`. As long as nobody changes the file, the
  verdict is what detection finds in it (`VerdictInv`), and what a gate lets through
  names one payload, where the backend will look for it (`PayloadInv`). `Signature`
  and `detect_sfx` yield at most one answer (`SignatureIsOne`, `DetectSfxIsOne`).

`RarProofs`, about `UnrarHandle`. `Course` is the common part: the types, where the walk
may stand in each phase of a call, and what an operation has done by then. Every action
is first classified by what it does to the walk (`StepKinds`: opens, binds, reads a
header, collects, begins or ends a decode, ...), and the parts below are shown kept by
each kind.

- `InstalledIsAsListed`: `[]InstalledAsListed`. A file that was open between two equal
  looks at the inode is the one looked at, since what is gone does not come back
  (`Opened`); a piece has the name its entry has in the listing (`AsListed`); and a
  decode under a cap stops before the block that exceeds it, what is left of the
  archive's limit being the limit less the sum of what was written (`Capped`).
- `CleanVerdictIsHonest`: `[]CleanVerdictHonest`. A walk that has noted no file has
  passed none that is damaged: the decode that would have passed it ended in an error,
  whatever another thread had put into the shared code (`Verdicts`).
- `RecoveryIsTruthful`: `[]RecoveryTruthful`. The answer about recovery is `Walk`, a
  function the code computes by recursion over offsets. That such a function exists is
  proved from an explicit witness (`WalkedLooks`); that each look ahead of the stopping
  block goes on to the next block is `LookAnswers`; so the walk answers what the first
  block says at which a look stops (`AnsweredWhereItStops`), and that is truthful
  (`WalkIsTruthful`) by the layout of the blocks alone, for any blocks and wherever the
  file is cut.
- `OkIsComplete`: `[]CompleteOnOk`. The entries a walk has met are those that start
  before the header it is at (`Entries`, `EntriesGrow`), so the memo is a listing of a
  bound file (`Gathered`), and the pieces written are the selected entries up to the
  count, in order, each with the sum of its parts (`Marching`).

The last proof found a fault in the model. Until then a middle volume opened by itself
extracted the entry it begins with as if it were whole; the SDK refuses it
(`extract.cpp:481`), and the model now does. It also showed that a success promises the
very entries of the listing only while the file is not rewritten in place, and
`CompleteOnOk` says so (`OnlyReplaced`).

`RarProofs`, about `ExternalRar`:

- `OkIsWhole` and `RarRunIsSound`. `RarInv` says which program each step may hold: the
  one at its place that named itself rar 5 or later, unless it was swapped
  (`Identified`); that a success was said of an archive with every source in it
  (`Succeeded`); and that the file at the output path is what this child made, unless
  somebody came after the last look (`IsOutput`, `Window`).

`NumberSetsProofs` holds the lemmas these share. Induction over numbers works through
least counterexamples (`HasLeast`: a non-empty set of naturals has a least element), and
gives existence and uniqueness of ascending lists and partial sums, hence `SumPutsIn`,
`SumGrows` and the rest. No theorem of a library with an operator parameter is used.

Only model-checked:

- liveness (`LockReleased`, `TreeAnswered`, both `EveryCallReturns`), which is out of
  the prover's reach;
- what the algorithms of `VolumeSet` and `ContentDigest` compute (the report of any
  member, the dominant set, the digest of any order): `ContentDigest` folds sequences,
  and what a fold computes for every input needs an induction principle with an operator
  parameter; of `VolumeSet` only what `ByteSource` needs is proved;
- `ReaderEntry`;
- `nested_sfx` and the properties of section 4, which do not hold.

## 6. Not modelled, and the plan

Components that no module covers have status `not_modelled` in `PROJECT.json`, with
the reason: stream checksums (a decoder read front to back), options and entries
(plain data). Of the others, what a module leaves out is said above. Of inspection,
`find_entry` and `check_symlinks` are filters of a listing and left out. Outside the
scope: codecs and AES (their crates), magic-number tables, message texts,
compression levels and timestamps.

What is planned next:

1. `ReaderEntry`: `EntryIsReader` as a theorem; it is nearly inductive.
2. `VolumeSet`: `ReportOfAnyMember` as a theorem, which `SortedLists` is the first step of.
3. `CreateArchive`: the open of a single add's source call by call, as that of the recursive add.
