----------------------------- MODULE ByteSource -----------------------------
(***************************************************************************)
(* The source a 7z handle reads from: volume_chain.rs under                *)
(* payload_window.rs, opened by SevenZArchive::open_reader.  Every         *)
(* operation scans the directory for the volumes of its archive, opens     *)
(* each of them by name, puts a window over their concatenation, and       *)
(* brackets all of that between two looks at the identity of its path.     *)
(*                                                                         *)
(* The directory belongs to others as well: a name may be replaced or      *)
(* deleted and a file shortened or lengthened between any two steps.       *)
(* A byte is a pair of the file it is in and its offset there.             *)
(***************************************************************************)
EXTENDS VolumeSet

CONSTANTS Starts,     \* the handles: path, payload_offset, disk, size
          FirstFresh, \* files are numbered; the ones others make from here on
          U64Max,     \* the largest position, scaled down
          Deltas,     \* the offsets of relative seeks
          Buffers,    \* the buffer lengths of a read
          Meddles     \* how often others interfere

Absent == 0
Files == 1..(FirstFresh + Meddles)

ASSUME WidthAssumption ==
  U64Max \in Nat /\ Meddles \in Nat /\ FirstFresh \in Nat \ {0}

\* An empty buffer gets an empty answer, and changes nothing.
ASSUME BufferAssumption == Buffers \subseteq Nat \ {0}

FileNames == [base : Nat, tag : STRING, value : Nat, width : Nat]

\* A handle over a path of a directory, whose names stand for files that are
\* there or were.
ASSUME StartAssumption ==
  \A s \in Starts :
    /\ DOMAIN s.disk \subseteq FileNames /\ IsFiniteSet(DOMAIN s.disk)
    /\ s.path \in DOMAIN s.disk
    /\ s.disk \in [DOMAIN s.disk -> 0..(FirstFresh - 1)]
    /\ s.size \in [Files -> Nat]
    /\ s.payload_offset \in Nat

VARIABLES
  handle,     \* path, payload_offset and the names of the directory
  disk,       \* name -> the file it names
  size,       \* file -> its length now
  bound,      \* the handle's OnceCell<FileIdentity>
  listing,    \* the files the memoised listing was read from
  op,         \* the running operation
  pc,         \* its step
  volumes,    \* the names the chain is opened over
  parts,      \* the chain's parts: file, start, len
  cursor,     \* the position of each part's descriptor
  chain,      \* the chain's pos and synced
  window,     \* the window's start, len, pos and inner_synced
  answered,   \* what the last read or seek answered
  refused,    \* why the last open was refused
  meddled     \* how often others interfered

layered == <<volumes, parts, cursor, chain, window>>
world == <<handle, disk, size, meddled>>
memo == <<bound, listing>>
sourceVars == <<layered, world, memo, op, pc, answered, refused>>

Nothing == [kind |-> "none", bytes |-> <<>>]
Failed == [kind |-> "error", bytes |-> <<>>]
AtEnd == [kind |-> "end", bytes |-> <<>>]
NoneSynced == 0
Unset == <<>>
ClosedChain == [pos |-> 0, synced |-> NoneSynced]
ClosedWindow == [start |-> 0, len |-> 0, pos |-> 0, inner_synced |-> FALSE]

SourceInit ==
  /\ handle \in Starts
  /\ disk = handle.disk
  /\ size = handle.size
  /\ bound = Absent /\ listing = Unset
  /\ op = "none" /\ pc = "idle"
  /\ volumes = <<>> /\ parts = <<>> /\ cursor = <<>>
  /\ chain = ClosedChain /\ window = ClosedWindow
  /\ answered = Nothing /\ refused = "no" /\ meddled = 0

-----------------------------------------------------------------------------
(* Opening: SevenZArchive::open_reader *)

Names == DOMAIN disk
Present == {n \in Names : disk[n] # Absent}
FileIdentity == disk[handle.path]    \* Absent when the stat fails

RefuseOpen(why) ==
  /\ pc' = "idle" /\ op' = "none" /\ refused' = why
  /\ volumes' = <<>> /\ parts' = <<>> /\ cursor' = <<>>
  /\ chain' = ClosedChain /\ window' = ClosedWindow
  /\ answered' = Nothing
  /\ UNCHANGED <<world, memo>>

\* check_identity_if_bound compares, and never binds.
Drifted == bound # Absent /\ FileIdentity # bound

Begin(o) ==
  /\ pc = "idle"
  /\ IF Drifted THEN RefuseOpen("drift")
     ELSE /\ op' = o /\ pc' = "scan" /\ refused' = "no"
          /\ UNCHANGED <<layered, world, memo, answered>>

\* The numeric set the path belongs to, once two of its names are there.
Report == parse_volume_set_for(handle.path, SetToSeq(Present))
IsNumericMember == parse_volume_name(handle.path).scheme = "Numeric"
IsSet == /\ IsNumericMember
         /\ Report.kind # "Unvolumed"
         /\ Len(PathsOf(Report.set)) > 1

ScanRefuses ==
  /\ pc = "scan" /\ IsSet /\ Report.kind # "Complete"
  /\ RefuseOpen("incomplete")

Scan ==
  /\ pc = "scan"
  /\ IsSet => Report.kind = "Complete"
  /\ volumes' = IF IsSet THEN PathsOf(Report.set) ELSE <<handle.path>>
  /\ pc' = "open"
  /\ UNCHANGED <<parts, cursor, chain, window, world, memo, op, answered,
                 refused>>

TotalLen == IF parts = <<>> THEN 0
            ELSE parts[Len(parts)].start + parts[Len(parts)].len

\* VolumeChain::open and ::single: each file is opened, measured and kept.
OpenPart ==
  /\ pc = "open" /\ Len(parts) < Len(volumes)
  /\ LET file == disk[volumes[Len(parts) + 1]]
     IN IF file = Absent THEN RefuseOpen("io")
        ELSE IF TotalLen + size[file] > U64Max THEN RefuseOpen("too large")
        ELSE /\ parts' = Append(parts, [file |-> file, start |-> TotalLen,
                                        len |-> size[file]])
             /\ cursor' = Append(cursor, 0)
             /\ UNCHANGED <<volumes, chain, window, world, memo,
                            op, pc, answered, refused>>

\* PayloadWindow::from_sized.
OpenWindow ==
  /\ pc = "open" /\ parts # <<>> /\ Len(parts) = Len(volumes)
  /\ IF handle.payload_offset > TotalLen THEN RefuseOpen("past the end")
     ELSE /\ window' = [start |-> handle.payload_offset,
                        len |-> TotalLen - handle.payload_offset,
                        pos |-> 0, inner_synced |-> FALSE]
          /\ pc' = "parse"
          /\ UNCHANGED <<volumes, parts, cursor, chain, world, memo,
                         op, answered, refused>>

\* The library does not find an archive there.  Nothing is bound.
ParseRefuses == pc = "parse" /\ RefuseOpen("format")

\* bind_or_check_identity: the first success binds, a later one compares.
BoundAnew == FileIdentity
Bound == IF bound = Absent THEN FileIdentity ELSE bound

Parse ==
  /\ pc = "parse"
  /\ IF FileIdentity # Bound THEN RefuseOpen("drift")
     ELSE /\ bound' = Bound
          /\ listing' = IF op = "list" /\ listing = Unset
                        THEN [i \in DOMAIN parts |-> parts[i].file]
                        ELSE listing
          /\ pc' = "read"
          /\ UNCHANGED <<layered, world, op, answered, refused>>

Close ==
  /\ pc = "read"
  /\ RefuseOpen("no")

-----------------------------------------------------------------------------
(* Reading: PayloadWindow over VolumeChain *)

\* A zero-length part holds no position.
part_at(pos) ==
  IF pos >= TotalLen THEN NoneSynced
  ELSE CHOOSE i \in DOMAIN parts :
         /\ parts[i].len > 0
         /\ pos >= parts[i].start
         /\ pos < parts[i].start + parts[i].len

Smaller(m, n) == IF m <= n THEN m ELSE n

\* VolumeChain::seek from the start, the only seek the window makes.
ChainAt(target) ==
  IF target = chain.pos THEN chain ELSE [pos |-> target, synced |-> NoneSynced]
SeekInner == IF window.inner_synced THEN chain
             ELSE ChainAt(window.start + window.pos)

\* The descriptor of the part, where the next read of it starts.
CursorAt(c, idx) == IF c.synced = idx THEN cursor[idx]
                    ELSE c.pos - parts[idx].start

\* File::read returns some of what is there.
Delivers(c, idx, want, at) ==
  LET file == parts[idx].file
  IN \E k \in 1..Smaller(want, size[file] - at) :
       /\ answered' = [kind |-> "bytes",
                  bytes |-> [i \in 1..k |-> <<file, at + i - 1>>]]
       /\ cursor' = [cursor EXCEPT ![idx] = at + k]
       /\ chain' = [pos |-> c.pos + k, synced |-> idx]
       /\ window' = [window EXCEPT !.pos = @ + k, !.inner_synced = TRUE]

\* The read fails, or nothing is there: the part was shortened since it was
\* measured.  The descriptor stays where it was.
FailsQuietly(c, idx, at) ==
  /\ answered' = IF at >= size[parts[idx].file] THEN AtEnd ELSE Failed
  /\ cursor' = [cursor EXCEPT ![idx] = at]
  /\ chain' = [pos |-> c.pos, synced |-> idx]
  /\ window' = [window EXCEPT !.inner_synced = FALSE]
Fails(c, idx, at) ==
  /\ answered' = Failed
  /\ cursor' = [cursor EXCEPT ![idx] = at]
  /\ chain' = [pos |-> c.pos, synced |-> idx]
  /\ window' = [window EXCEPT !.inner_synced = FALSE]

ReadSource(n) ==
  /\ pc = "read"
  /\ IF window.pos >= window.len
     THEN /\ answered' = AtEnd
          /\ UNCHANGED <<cursor, chain, window>>
     ELSE LET c == SeekInner
              idx == part_at(c.pos)
              rest == Smaller(n, window.len - window.pos)
              want == Smaller(rest, parts[idx].start + parts[idx].len - c.pos)
              at == CursorAt(c, idx)
          IN Delivers(c, idx, want, at) \/ Fails(c, idx, at)
  /\ UNCHANGED <<volumes, parts, world, memo, op, pc, refused>>

set_pos(target) ==
  /\ window' = [window EXCEPT !.pos = target,
                  !.inner_synced = @ /\ target = window.pos]
  /\ answered' = Nothing
unmoved == <<volumes, parts, cursor, chain, world, memo, op, pc, refused>>

SeekStart(offset) == pc = "read" /\ set_pos(offset) /\ UNCHANGED unmoved

\* checked_offset: no position below zero or beyond the width.  The end is
\* the window's.
SeekFrom(base, delta) ==
  /\ pc = "read"
  /\ IF base + delta \in 0..U64Max THEN set_pos(base + delta)
     ELSE answered' = Failed /\ UNCHANGED window
  /\ UNCHANGED unmoved
SeekCurrent(delta) == SeekFrom(window.pos, delta)
SeekEnd(delta) == SeekFrom(window.len, delta)

-----------------------------------------------------------------------------
(* Others in the same directory *)

Meddle == /\ meddled < Meddles
          /\ meddled' = meddled + 1
          /\ UNCHANGED <<handle, layered, memo, op, pc, answered, refused>>
\* A name is given to a file of its own, as a rename or a copy does.
Replace ==
  /\ Meddle
  /\ LET fresh == FirstFresh + meddled
     IN \E n \in Names :
          /\ disk' = [disk EXCEPT ![n] = fresh]
          /\ size' = [size EXCEPT ![fresh] = IF handle.disk[n] = Absent THEN 1
                                          ELSE handle.size[handle.disk[n]]]
Delete ==
  /\ Meddle
  /\ \E n \in Present : disk' = [disk EXCEPT ![n] = Absent]
  /\ UNCHANGED size
Shorten ==
  /\ Meddle
  /\ \E n \in Present : size[disk[n]] > 0
       /\ size' = [size EXCEPT ![disk[n]] = @ - 1]
  /\ UNCHANGED disk
Lengthen ==
  /\ Meddle
  /\ \E n \in Present : size' = [size EXCEPT ![disk[n]] = @ + 1]
  /\ UNCHANGED disk

SourceNext ==
  \/ \E o \in {"list", "extract"} : Begin(o)
  \/ ScanRefuses \/ Scan \/ OpenPart \/ OpenWindow
  \/ ParseRefuses \/ Parse \/ Close
  \/ \E n \in Buffers : ReadSource(n)
  \/ \E offset \in 0..U64Max : SeekStart(offset)
  \/ \E delta \in Deltas : SeekCurrent(delta) \/ SeekEnd(delta)
  \/ Replace \/ Delete \/ Shorten \/ Lengthen

SourceSpec == SourceInit /\ [][SourceNext]_sourceVars

-----------------------------------------------------------------------------
(* Properties *)

PcValues == {"idle", "scan", "open", "parse", "read"}

\* The types, and what the two positions always are to each other: while the
\* window believes the chain to stand where it stands, it does, and the
\* descriptor of the part the chain calls synced stands where the chain does
\* (PayloadWindow::inner_synced, VolumeChain::synced).
SourceTypeOK ==
  /\ handle \in Starts /\ pc \in PcValues
  /\ disk \in [Names -> Files \union {Absent}]
  /\ size \in [Files -> Nat]
  /\ bound \in Files \union {Absent}
  /\ Len(parts) <= Len(volumes) /\ Len(cursor) = Len(parts)
  /\ chain.synced \in DOMAIN parts \union {NoneSynced}
  /\ window.pos \in 0..U64Max /\ chain.pos \in 0..TotalLen
  /\ window.inner_synced => chain.pos = window.start + window.pos
  /\ (chain.synced # NoneSynced /\ chain.synced = part_at(chain.pos)) =>
       cursor[chain.synced] = chain.pos - parts[chain.synced].start

\* The bytes the source stood for when it was opened.
Measured ==
  LET upto[n \in 0..Len(parts)] ==
        IF n = 0 THEN <<>>
        ELSE upto[n - 1] \o [i \in 1..parts[n].len |-> <<parts[n].file, i - 1>>]
  IN upto[Len(parts)]
Slice == IF pc = "read"
         THEN SubSeq(Measured, window.start + 1, window.start + window.len)
         ELSE <<>>

\* However seeks and reads follow each other, whatever is done to the files
\* meanwhile, the window over the chain reads as the one slice that was
\* measured: no byte of another volume or of the stub, no early end.
Abstract == INSTANCE ByteSlice WITH
              slice <- Slice, open <- pc = "read", pos <- window.pos,
              got <- answered
ReadsAsOneSlice == Abstract!Spec

\* "the reader is built from the file this handle is bound to": once a first
\* operation has bound the handle, whatever is renamed while the source is
\* opened again, a reader is handed out only when the part under the handle's
\* own name is the bound file.
ReaderIsBound ==
  [][pc = "parse" /\ pc' = "read" /\ bound # Absent =>
       \A i \in DOMAIN volumes :
         volumes[i] = handle.path => parts[i].file = bound]_sourceVars

\* "the snapshot and every later read provably describe one file".
SnapshotIsWhatIsRead ==
  pc = "read" /\ op = "extract" /\ listing # Unset =>
    [i \in DOMAIN parts |-> parts[i].file] = listing
=============================================================================
