----------------------------- MODULE ReadHandle -----------------------------
(* A read handle over a ZIP, a 7z or a libarchive file: what it keeps from  *)
(* one call to the next, and the calls that look at every entry.            *)
(* (src/ffi/zip_wrapper.rs, src/ffi/sevenz_wrapper.rs,                      *)
(* src/ffi/libarchive_wrapper/reader.rs, src/inspection.rs)                 *)
(*                                                                          *)
(* The ZIP handle keeps a descriptor with its parsed view, the listing, the *)
(* scan of the raw directory and the identity of the file, each filled when *)
(* it is first wanted.  The others open the file for every call, or for     *)
(* every entry of a digest, and compare its identity around the open.  The  *)
(* files are numbered in the order they come to stand at the path.          *)
(*                                                                          *)
(* An entry's payload is a run of `makes` units that ends as `then` says;   *)
(* after a corrupt one the decoder gives `rest` more and ends as `last`     *)
(* says.  A solid 7z block has one cursor for all of its entries.           *)
EXTENDS RawDirectory

CONSTANTS
    Worlds,    \* [backend, files]: what may stand at the path, one by one
    Calls,     \* what a caller may ask of the handle
    Buf,       \* units per read
    MaxFaults  \* I/O failures of the scan and of the rebuild after it

\* An entry has one declared size or none, and always one in a 7z file.
IsEntry(e, b) ==
    /\ e.kind \in {"file", "dir", "unseen"}
    /\ e.declared \subseteq Nat /\ \A c, d \in e.declared : c = d
    /\ (b = "sevenz" /\ e.kind = "file") => e.declared # {}
    /\ e.makes \in Nat /\ e.rest \in Nat /\ e.sum \in BOOLEAN
    /\ e.then \in {"eof", "corrupt", "io", "locked", "endless"}
    /\ e.last \in {"eof", "fails"}

\* A directory that parses declares no more records than it has.
IsFile(a, b) ==
    /\ Len(a.recs) \in Nat /\ DOMAIN a.recs = 1..Len(a.recs)
    /\ \A k \in DOMAIN a.recs : IsEntry(a.recs[k], b)
    /\ a.toc \in 0..Len(a.recs)

ASSUME WorldAssumption ==
    \A w \in Worlds :
        /\ w.backend \in {"zip", "sevenz", "libarchive"}
        /\ Len(w.files) \in Nat \ {0} /\ DOMAIN w.files = 1..Len(w.files)
        /\ \A n \in DOMAIN w.files : IsFile(w.files[n], w.backend)

ASSUME CallAssumption ==
    \A c \in Calls : c.op \in {"list", "test", "digest", "byname"}

ASSUME BoundAssumption == Buf \in Nat \ {0} /\ MaxFaults \in Nat

VARIABLES
    backend, files,
    path,       \* the number of the file at the path
    identity, cached, listing, raw_directory,  \* files, 0 when not filled
    call, phase, result,
    found,      \* the file of the stat before an open
    reader,     \* the file the reader of this call reads
    todo,       \* what is left: ids of a digest, positions of a test
    got, left,  \* units read of the entry, units left of its drain
    lost,       \* the cursor of the block is not where it should be
    failed, tested, resolved,
    faults

memos == <<identity, cached, listing, raw_directory>>
world == <<backend, files, path>>
walk == <<todo, got, left, lost, failed, tested>>
vars == <<world, memos, call, phase, result, found, reader, walk, resolved,
          faults>>

NoCall == [op |-> "none"]
zip == backend = "zip"

Absent(n) == files[n].recs = <<>>

\* A decoded entry's place among the records, by its listing id.
View(n) ==
    IF zip THEN Crate(files[n])
    ELSE Ascending({k \in DOMAIN files[n].recs :
                      files[n].recs[k].kind # "unseen"})

Entry(n, id) == files[n].recs[View(n)[id]]

\* The entries a digest has to decode.
Needs(n) ==
    {id \in DOMAIN View(n) : Entry(n, id).kind = "file" /\ ~Entry(n, id).crc}

-----------------------------------------------------------------------------
\* 7z: the order in which the entries of the blocks are met.

visit_order(a) ==
    LET Run(b) == [k \in 1..b.count |-> b.first + k - 1]
        streams == FlattenSeq([k \in DOMAIN a.blocks |-> Run(a.blocks[k])])
        Empty == {k \in DOMAIN a.recs : a.recs[k].block = 0}
    IN streams \o Ascending(Empty)

\* Every entry once, or the stream map is refused.
IsCensus(a) ==
    /\ \A b \in Range(a.blocks) : b.first + b.count - 1 <= Len(a.recs)
    /\ visit_order(a) \in [DOMAIN a.recs -> DOMAIN a.recs]
    /\ Range(visit_order(a)) = DOMAIN a.recs

\* Positions of the records, in the order a test meets them.
Order(n) ==
    CASE backend = "sevenz" -> visit_order(files[n])
      [] zip -> View(n)
      [] OTHER -> [k \in DOMAIN files[n].recs |-> k]

-----------------------------------------------------------------------------
Init ==
    /\ \E w \in Worlds : backend = w.backend /\ files = w.files
    /\ path = 1
    /\ identity = 0
    /\ cached = 0 /\ listing = 0 /\ raw_directory = 0
    /\ phase = IF backend = "libarchive" THEN "unopened" ELSE "idle"
    /\ call = NoCall /\ result = "none"
    /\ found = 0 /\ reader = 0
    /\ todo = <<>> /\ got = 0 /\ left = 0 /\ lost = FALSE
    /\ failed = {} /\ tested = {} /\ resolved = {}
    /\ faults = 0

Return(r) ==
    /\ phase' = "done" /\ result' = r /\ reader' = 0
    /\ UNCHANGED <<world, memos, call, found, walk, resolved, faults>>

\* The constructor of ZIP and of 7z looks at nothing; that of libarchive
\* stats the file, opens it, stats it again and reads its first header.
Opens == call = NoCall

CaptureIdentity ==
    /\ phase = "unopened"
    /\ found' = IF Absent(path) THEN 0 ELSE path
    /\ phase' = "opening"
    /\ UNCHANGED <<world, memos, call, result, reader, walk, resolved,
                   faults>>

\* No handle, and the caller may try again; or the call has failed.
OpenFails ==
    IF Opens
    THEN /\ phase' = "unopened" /\ reader' = 0
         /\ UNCHANGED <<world, memos, call, result, found, walk, resolved,
                        faults>>
    ELSE Return("err")

Call ==
    /\ phase \in {"idle", "done"}
    /\ \E c \in Calls : call' = c
    /\ phase' = IF listing # 0 THEN "listed" ELSE "open"
    /\ result' = "none" /\ found' = 0 /\ reader' = 0
    /\ todo' = <<>> /\ got' = 0 /\ left' = 0 /\ lost' = FALSE
    /\ failed' = {} /\ tested' = {} /\ resolved' = {}
    /\ UNCHANGED <<world, memos, faults>>

\* Where a call goes on once it has its reader.
Opened == IF listing = 0 THEN "list" ELSE "use"

\* The phases in which the ZIP handle wants its descriptor.
WantsZip == phase = "open" \/ (phase = "listed" /\ raw_directory = 0)

\* Mutant: the handle is bound before the directory is parsed.
BoundToEarly(n) == IF identity = 0 /\ ~Absent(n) THEN n ELSE identity

\* The first file that parses is the handle's.
BoundTo(n) ==
    IF identity = 0 /\ ~Absent(n) /\ files[n].sound THEN n ELSE identity

open_zip_bound ==
    /\ zip /\ WantsZip /\ cached = 0
    /\ identity' = IF identity \in {0, path} THEN BoundTo(path) ELSE identity
    /\ IF identity \in {0, path} /\ ~Absent(path) /\ files[path].sound
         THEN /\ cached' = path
              /\ UNCHANGED <<phase, result>>
         ELSE /\ phase' = "done" /\ result' = "err"
              /\ UNCHANGED cached
    /\ UNCHANGED <<world, listing, raw_directory, call, found, reader, walk,
                   resolved, faults>>

with_zip ==
    /\ zip /\ phase = "open" /\ cached # 0
    /\ reader' = cached /\ phase' = Opened
    /\ UNCHANGED <<world, memos, call, result, found, walk, resolved, faults>>

check_identity(n) == identity \in {0, n}

StatBefore ==
    /\ ~zip /\ phase = "open"
    /\ \/ /\ ~Absent(path) /\ check_identity(path)
          /\ phase' = "opening" /\ found' = path
          /\ UNCHANGED <<world, memos, call, result, reader, walk, resolved,
                         faults>>
       \/ (Absent(path) \/ ~check_identity(path)) /\ Return("err")

OpenNative ==
    /\ phase = "opening"
    /\ \/ /\ ~Absent(path) /\ files[path].sound
          /\ phase' = "opened" /\ reader' = path
          /\ UNCHANGED <<world, memos, call, result, found, walk, resolved,
                         faults>>
       \/ (Absent(path) \/ ~files[path].sound) /\ OpenFails

\* The other half of the bracket: the identity the constructor captured, or
\* the handle's, which a 7z handle is given here, the first time.
Revalidated ==
    ~Absent(path) /\ (IF Opens THEN found = path ELSE check_identity(path))

StatAfter ==
    /\ phase = "opened"
    /\ \/ /\ Revalidated
          /\ identity' = IF identity = 0 THEN path ELSE identity
          /\ phase' = IF Opens THEN "idle" ELSE Opened
          /\ reader' = IF Opens THEN 0 ELSE reader
          /\ UNCHANGED <<world, cached, listing, raw_directory, call, result,
                         found, walk, resolved, faults>>
       \/ ~Revalidated /\ OpenFails

-----------------------------------------------------------------------------
\* The listing, and the scan it is followed by.

OverBudget == call.budget # {} /\ Len(View(reader)) > Max(call.budget)

ReadListing ==
    /\ phase = "list"
    /\ \/ /\ ~OverBudget
          /\ listing' = reader /\ phase' = "listed" /\ reader' = 0
          /\ UNCHANGED <<world, identity, cached, raw_directory, call, result,
                         found, walk, resolved, faults>>
       \/ OverBudget /\ Return("err")

Scans == zip /\ phase = "listed" /\ raw_directory = 0 /\ cached # 0

scan_raw_central_directory ==
    /\ Scans /\ files[cached].tail = "ends"
    /\ raw_directory' = cached
    /\ UNCHANGED <<world, identity, cached, listing, call, phase, result,
                   found, reader, walk, resolved, faults>>

\* The directory is cut or odd, or its file cannot be read.
ScanFails ==
    /\ Scans
    /\ \/ files[cached].tail # "ends" /\ UNCHANGED faults
       \/ faults < MaxFaults /\ faults' = faults + 1
    /\ phase' = "done" /\ result' = "err"
    /\ UNCHANGED <<world, memos, call, found, reader, walk, resolved>>

\* The descriptor cannot be parsed again after the scan: it is dropped, and
\* so is what the scan found.
RebuildFails ==
    /\ Scans /\ faults < MaxFaults
    /\ cached' = 0 /\ faults' = faults + 1
    /\ phase' = "done" /\ result' = "err"
    /\ UNCHANGED <<world, identity, listing, raw_directory, call, found,
                   reader, walk, resolved>>

Guarded == phase = "listed" /\ (zip => raw_directory # 0)
Raw == files[raw_directory]

Matching == {id \in DOMAIN View(listing) : Entry(listing, id).path = call.path}

validate_single_entry ==
    /\ Cardinality(Matching) = 1
    /\ \A id \in Matching : Entry(listing, id).kind = "file"

Refused ==
    \/ zip /\ any_undetected(Raw)
    \/ call.op = "byname" /\ ~validate_single_entry
    \/ call.op = "byname" /\ zip /\ Ambiguous(Raw, call.path)
    \/ call.op = "test" /\ zip /\ is_collapsed(Raw)
    \/ call.op = "digest" /\ zip /\ Needs(listing) # {} /\ is_collapsed(Raw)

\* The listing is all the call needs.
Answered ==
    call.op = "list" \/ (call.op = "digest" /\ Needs(listing) = {})

Gate ==
    /\ Guarded
    /\ \/ Refused /\ Return("err")
       \/ ~Refused /\ Answered /\ Return("ok")
       \/ /\ ~Refused /\ ~Answered
          /\ phase' = "open"
          /\ todo' = IF call.op = "digest"
                       THEN Ascending(Needs(listing)) ELSE <<>>
          /\ UNCHANGED <<world, memos, call, result, found, reader, got, left,
                         lost, failed, tested, resolved, faults>>

-----------------------------------------------------------------------------
\* One entry, by its listing id.

InRange(id) == id \in DOMAIN View(reader)
check_listing_drift(id) ==
    InRange(id) /\ Entry(reader, id).path = Entry(listing, id).path

Sound(e) ==
    /\ e.then = "eof" /\ e.sum
    /\ \A d \in e.declared : e.makes = d

Readable(id) ==
    /\ backend = "sevenz" => IsCensus(files[reader])
    /\ check_listing_drift(id)
    /\ Sound(Entry(reader, id))

ReadByName ==
    /\ phase = "use" /\ call.op = "byname"
    /\ \E id \in Matching : Return(IF Readable(id) THEN "ok" ELSE "err")

\* The next entry of a digest.  ZIP and 7z go back for a reader; libarchive
\* goes on with the headers after it.
DigestEntry ==
    /\ phase = "use" /\ call.op = "digest"
    /\ \/ ~Readable(Head(todo)) /\ Return("err")
       \/ /\ Readable(Head(todo))
          /\ resolved' = resolved \union
               {[id |-> Head(todo), file |-> reader,
                 rec |-> View(reader)[Head(todo)]]}
          /\ todo' = Tail(todo)
          /\ phase' = IF Tail(todo) = <<>> THEN "done"
                      ELSE IF backend = "libarchive" THEN "use" ELSE "open"
          /\ result' = IF Tail(todo) = <<>> THEN "ok" ELSE "none"
          /\ UNCHANGED <<world, memos, call, found, reader, got, left, lost,
                         failed, tested, faults>>

-----------------------------------------------------------------------------
\* The integrity walk.

StartTest ==
    /\ phase = "use" /\ call.op = "test"
    /\ \/ backend = "sevenz" /\ ~IsCensus(files[reader]) /\ Return("err")
       \/ /\ (backend = "sevenz" => IsCensus(files[reader]))
          /\ todo' = Order(reader) /\ phase' = "test"
          /\ UNCHANGED <<world, memos, call, result, found, reader, got, left,
                         lost, failed, tested, resolved, faults>>

This == files[reader].recs[Head(todo)]

\* A block of 7z has its own decoder, and it starts at its first entry.
FirstOfBlock ==
    backend = "sevenz" /\ \E b \in Range(files[reader].blocks) :
                              b.first = Head(todo)

\* What comes when the entry is read from where the cursor is: any entry
\* but the first of a block is garbage once the cursor is lost.
Garbled == lost /\ ~FirstOfBlock
then == IF Garbled THEN "corrupt" ELSE This.then
makes == IF Garbled THEN 0 ELSE This.makes

Declared == Max(This.declared \union {0})

\* Go to the next entry, this one failed or not.
NextEntry(bad, astray) ==
    /\ failed' = IF bad THEN failed \union {Head(todo)} ELSE failed
    /\ tested' = IF This.kind = "file" THEN tested \union {Head(todo)}
                 ELSE tested
    /\ todo' = Tail(todo) /\ got' = 0 /\ left' = 0 /\ phase' = "test"
    /\ lost' = (astray \/ Garbled)
    /\ UNCHANGED <<world, memos, call, result, found, reader, resolved,
                   faults>>

Abort(bad) ==
    /\ failed' = IF bad THEN failed \union {Head(todo)} ELSE failed
    /\ phase' = "done" /\ result' = "err" /\ reader' = 0
    /\ UNCHANGED <<world, memos, call, found, todo, got, left, lost, tested,
                   resolved, faults>>

Testing == phase = "test" /\ todo # <<>>

SkipEntry ==
    /\ Testing /\ This.kind # "file"
    /\ NextEntry(FALSE, FALSE)

\* A 7z entry is read up to one unit past its size, the others until they
\* end.
Want ==
    IF backend = "sevenz" THEN Min({Buf, Max({0, Declared - got}) + 1})
    ELSE Buf

\* Units there are to read; an endless decoder never runs out.
Available == IF then = "endless" THEN Want ELSE Min({Want, makes - got})

\* Mutant: the entry is read until it ends.
OverproducesNever == FALSE

Overproduces == backend = "sevenz" /\ got > Declared

ReadUnits ==
    /\ Testing /\ This.kind = "file" /\ ~Overproduces
    /\ \E n \in 1..Available :
         got' = Min({got + n, Max({makes, Declared + 1})})
    /\ UNCHANGED <<world, memos, call, phase, result, found, reader, todo,
                   left, lost, failed, tested, resolved, faults>>

StopLong ==
    /\ Testing /\ This.kind = "file" /\ Overproduces
    /\ Abort(TRUE)

\* Too few units, too many, or the wrong sum; for libarchive, `sum` says
\* that no block lies before the start of the file.
Short ==
    \/ ~This.sum
    \/ This.declared # {} /\ got # Declared

Read == Testing /\ This.kind = "file" /\ got = makes /\ ~Overproduces

EndEntry ==
    /\ Read /\ then = "eof"
    /\ NextEntry(Short, FALSE)

\* A missing or wrong password, which 7z cannot tell from damage.
NeedsPassword == then = "locked" /\ backend # "sevenz"

\* A failing disk or a password says nothing of the entry and ends the test.
Operational == then = "io" \/ NeedsPassword

StopOperational == Read /\ Operational /\ Abort(FALSE)

\* ZIP has a reader per entry; the others must get to the end of this one.
EntryFails ==
    /\ Read /\ then \in {"corrupt", "locked"} /\ ~Operational
    /\ \/ zip /\ NextEntry(TRUE, FALSE)
       \/ /\ ~zip
          /\ phase' = "drain"
          /\ got' = 0
          /\ left' = IF backend = "sevenz" THEN Declared - got ELSE 0
          /\ UNCHANGED <<world, memos, call, result, found, reader, todo,
                         lost, failed, tested, resolved, faults>>

\* Where the drain of this entry ends: what is left of it, and how.
Rest == IF Garbled THEN 0 ELSE This.rest
last == IF Garbled THEN "fails" ELSE This.last

\* Units that come before the drain is answered otherwise.
drain_to_realign ==
    /\ phase = "drain" /\ got < Rest
    /\ \E n \in 1..(IF backend = "sevenz"
                      THEN Min({Buf, left - got, Rest - got})
                      ELSE Min({Buf, Rest - got})) : got' = got + n
    /\ UNCHANGED <<world, memos, call, phase, result, found, reader, todo,
                   left, lost, failed, tested, resolved, faults>>

\* Mutant: a drain that failed has realigned the cursor.
LosesCursorNever == FALSE

\* The entry goes on past its size, or the drain meets an error of its own.
LosesCursor ==
    \/ backend = "sevenz" /\ got = left /\ Rest > left
    \/ got = Rest /\ last = "fails"

DrainEnds ==
    /\ phase = "drain"
    /\ \/ LosesCursor /\ Abort(backend = "sevenz")
       \/ /\ ~LosesCursor
          /\ (got = Rest \/ (backend = "sevenz" /\ got = left))
          /\ NextEntry(TRUE, Rest > got \/ last = "fails")

\* The library ends the walk before its last entry.
WalkCut ==
    /\ Testing /\ got = 0 /\ files[reader].cut
    /\ Return("err")

\* The facade's census of what may fail.
FileCount ==
    Cardinality({id \in DOMAIN View(listing) :
                   Entry(listing, id).kind = "file"})

EndTest ==
    /\ phase = "test" /\ todo = <<>>
    /\ Return(IF Cardinality(failed) > FileCount THEN "err" ELSE "ok")

-----------------------------------------------------------------------------
\* Another file comes to stand at the path.  What a 7z handle is bound to by
\* its first open is the matter of ByteSource.
Replace ==
    /\ path < Len(files)
    /\ backend # "sevenz" \/ identity # 0 \/ phase \in {"idle", "done"}
    /\ path' = path + 1
    /\ UNCHANGED <<backend, files, memos, call, phase, result, found, reader,
                   walk, resolved, faults>>

Handle ==
    \/ open_zip_bound \/ with_zip \/ CaptureIdentity \/ StatBefore
    \/ OpenNative \/ StatAfter
    \/ ReadListing \/ scan_raw_central_directory \/ ScanFails
    \/ RebuildFails \/ Gate \/ ReadByName \/ DigestEntry
    \/ StartTest \/ SkipEntry \/ ReadUnits \/ StopLong \/ EndEntry
    \/ StopOperational \/ EntryFails \/ drain_to_realign \/ DrainEnds
    \/ WalkCut \/ EndTest

Next == Call \/ Handle \/ Replace

Spec == Init /\ [][Next]_vars
FairSpec == Spec /\ WF_vars(Handle)

-----------------------------------------------------------------------------
\* Properties.

Files == 0..Len(files)

MemosOK ==
    /\ path \in 1..Len(files)
    /\ identity \in Files /\ cached \in Files /\ listing \in Files
    /\ raw_directory \in Files /\ (raw_directory # 0 => zip)
    /\ faults \in 0..MaxFaults

PhasesOK ==
    /\ phase \in {"unopened", "idle", "open", "opening", "opened", "list",
                  "listed", "use", "test", "drain", "done"}
    /\ result \in {"none", "ok", "err"} /\ (phase = "done" <=> result # "none")
    /\ found \in Files /\ reader \in Files
    /\ phase \in {"list", "use", "test", "drain"} => reader # 0
    /\ phase \in {"listed", "use", "test", "drain"} => listing # 0

WalkOK ==
    /\ got \in Nat /\ left \in Nat /\ lost \in BOOLEAN
    /\ todo \in Seq(Nat) /\ tested \subseteq Nat /\ failed \subseteq Nat

\* The types, and what a phase implies: a reader is at hand while entries are
\* read, and the listing is there before any of them is.
TypeOK == MemosOK /\ PhasesOK /\ WalkOK

\* Whatever the handle keeps, and whatever a call reads, is of one file: the
\* first that could be parsed.  An attempt on a file still being written
\* binds the handle to nothing, so that the finished file can be read.
BoundToOneFile ==
    /\ identity # 0 => files[identity].sound
    /\ {cached, listing, raw_directory} \subseteq {0, identity}
    /\ phase \in {"list", "use", "test", "drain"} => reader = identity

\* An answer about the whole archive leaves no record out, however the names
\* of the records decode and collapse.
NothingShadowed ==
    (/\ zip /\ phase = "done" /\ result = "ok"
     /\ call.op = "test" \/ resolved # {}) =>
        Range(View(identity)) = DOMAIN files[identity].recs

\* An entry that was read by its name is the only one of that name on the
\* disk: the guard counts bytes, and the caller means a path.
NameMeansOneRecord ==
    (zip /\ phase = "done" /\ result = "ok" /\ call.op = "byname") =>
        IsTheOnlyRecord(files[identity], call.path)

FileRecs(n) == {k \in Range(Order(n)) : files[n].recs[k].kind = "file"}
Damaged(n) == {k \in FileRecs(n) : ~Sound(files[n].recs[k])}

\* An integrity test that answers has tested every file and names exactly
\* the damaged ones; one that gives up blames no sound entry for a cursor
\* that was lost before it.
VerdictsExact ==
    (phase = "done" /\ call.op = "test" /\ identity # 0) =>
        /\ failed \subseteq Damaged(identity)
        /\ result = "ok" =>
             tested = FileRecs(identity) /\ failed = Damaged(identity)

\* A digest has resolved every entry whose sum the listing lacks, once, from
\* the record the listing shows under that id, all of them from one file.
DigestOfOneFile ==
    (phase = "done" /\ call.op = "digest" /\ result = "ok") =>
        resolved = {[id |-> id, file |-> listing, rec |-> View(listing)[id]] :
                      id \in Needs(listing)}

\* Every call returns, also from an entry whose decoder never ends.
EveryCallReturns == (phase = "open") ~> (phase = "done")

\* The handle keeps its promise between calls and within one.
HandleInv == TypeOK /\ BoundToOneFile

\* An answer about every entry is about every record, and exact: that of the
\* integrity test, that of the digest.
AnswersExact == NothingShadowed /\ VerdictsExact /\ DigestOfOneFile
=============================================================================
