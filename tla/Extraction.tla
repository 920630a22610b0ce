----------------------------- MODULE Extraction -----------------------------
(***************************************************************************)
(* One extraction call to disk (src/src/extraction.rs) over the ZIP, 7z    *)
(* and libarchive read backends (src/src/ffi), from the cached listing to  *)
(* the answer, while other programs write in the destination and replace   *)
(* or rewrite the archive file.                                            *)
(*                                                                         *)
(* The gates and the preflight look at the listing; the walk looks at what *)
(* it reads from the archive.  A size is a small number, Undeclared where  *)
(* the format carries none; `data` is what the decoder will produce.       *)
(***************************************************************************)
EXTENDS NumberSets, SequencesExt

CONSTANTS Paths,        \* output paths, relative to the destination
          Above,        \* Above[p]: the proper ancestors of p
          Archives,     \* what an archive file may hold: sequences of records
          MaxCount, MaxFile, MaxTotal,   \* ExtractionLimits
          MaxMeddling   \* bound: what others do in the destination

ASSUME LimitAssumption ==
  /\ MaxCount \in Nat /\ MaxFile \in Nat /\ MaxTotal \in Nat
  /\ MaxMeddling \in Nat

Undeclared == -1
Records == [name : Paths, kind : {"file", "dir", "link", "nameless"},
            size : Nat \cup {Undeclared}, data : Nat]

ASSUME PathAssumption ==
  Above \in [Paths -> SUBSET Paths] /\ \A p \in Paths : p \notin Above[p]

ASSUME ArchiveAssumption == Archives \subseteq Seq(Records)

Least(m, n) == IF m < n THEN m ELSE n

VARIABLES
  backend,   \* "zip", "sevenzip" or "libarchive"
  listing,   \* the cached listing, of the file the handle is bound to
  disk,      \* the archive file: its identity and its records
  source,    \* what the walk reads
  call,      \* the call and its options
  phase,     \* where it is
  at,        \* the entry at hand: of the preflight, then of the walk
  stage,     \* the staging file
  processed, \* bytes decoded so far: the cumulative budget
  counted,   \* progress numerator
  total,     \* progress denominator
  reported,  \* the last progress sample
  result,
  dest,      \* what is at each path of the destination
  root,      \* whether the destination exists
  installed, \* history: files installed, with the identity they came from
  meddled,   \* how often others wrote in the destination
  swapped    \* what became of the archive file

callVars == <<backend, listing, call>>
barVars == <<counted, total, reported>>
world == <<callVars, disk, meddled, swapped>>   \* what the walk leaves alone
out == <<dest, root, installed>>
vars == <<world, source, phase, at, stage, processed, barVars, result, out>>

Absent == [kind |-> "none", own |-> FALSE, size |-> 0]
Foreign(k) == [kind |-> k, own |-> FALSE, size |-> 0]
NoStage == [on |-> FALSE, size |-> 0]

\* parse_entry returns nothing for a record without a pathname.
Named(r) == r.kind # "nameless"
Listed(s) ==
  LET order == Ascending({n \in DOMAIN s : Named(s[n])})
  IN  [k \in DOMAIN order |-> s[order[k]]]

\* A 7z table of contents names every entry and sizes it, and so does a ZIP
\* central directory.
Stated(r) == Named(r) /\ r.size # Undeclared

Init ==
  /\ backend \in {"zip", "sevenzip", "libarchive"}
  /\ disk \in [id : {1}, records : Archives]
  /\ backend # "libarchive" => \A r \in Range(disk.records) : Stated(r)
  /\ listing = Listed(disk.records)
  /\ source = [id |-> 0, records |-> << >>]
  /\ call = [op |-> "none", sel |-> {}, overwrite |-> FALSE]
  /\ phase = "idle"
  /\ at = 1
  /\ stage = NoStage
  /\ processed = 0
  /\ counted = 0 /\ total = 0 /\ reported = 0
  /\ result = "none"
  /\ root \in BOOLEAN
  /\ dest \in {[p \in Paths |-> IF p = q THEN Foreign(k) ELSE Absent] :
                 q \in {p \in Paths : Above[p] = {}},
                 k \in {"file", "dir", "link"}}
              \cup {[p \in Paths |-> Absent]}
  /\ ~root => \A p \in Paths : dest[p] = Absent
  /\ installed = {}
  /\ meddled = 0
  /\ swapped = "no"

ArchiveOK ==
  /\ listing \in Seq(Records)
  /\ disk \in [id : {1, 2}, records : Archives]
  /\ source \in [id : {0, 1, 2}, records : Seq(Records)]
  /\ call.op \in {"none", "bulk", "one"}
  /\ call.sel \subseteq DOMAIN listing
  /\ call.overwrite \in BOOLEAN

PhaseOK ==
  /\ phase \in {"idle", "gates", "preflight", "open", "opening", "bracket",
                "head", "prepare", "copy", "install", "final", "done"}
  /\ at \in Nat \ {0}
  /\ stage \in [on : BOOLEAN, size : Nat]
  /\ {processed, counted, total, reported} \subseteq Nat
  /\ (result = "none") = (phase # "done")

TreeOK ==
  /\ dest \in [Paths -> [kind : {"none", "file", "dir", "link"},
                         own : BOOLEAN, size : Nat]]
  /\ \A m \in installed : m.idx \in Nat /\ m.id \in 1..2 /\ m.name \in Paths
  /\ meddled \in 0..MaxMeddling

\* The types of the state.
TypeOK == ArchiveOK /\ PhaseOK /\ TreeOK

-----------------------------------------------------------------------------
(* The destination.                                                        *)

\* sanitize_entry_path_with_base: the deepest existing ancestor must lie
\* inside, the leaf must not be a link, and neither stat may fail (ENOTDIR).
Placeable(p) ==
  /\ \A a \in Above[p] : dest[a].kind \in {"none", "dir"}
  /\ dest[p].kind # "link"

Occupied(p) == dest[p].kind # "none"

\* create_dir_all of every ancestor.
WithParents(d, p) ==
  [q \in Paths |-> IF q \in Above[p] /\ d[q].kind = "none"
                   THEN Foreign("dir") ELSE d[q]]

\* create_dir_all for the staged backends; archive_write_header of libarchive
\* keeps what it finds when it may not overwrite, and unlinks it when it may.
WithDirectory(d, p) ==
  IF \/ d[p].kind = "none"
     \/ d[p].kind = "file" /\ backend = "libarchive" /\ call.overwrite
  THEN [d EXCEPT ![p] = Foreign("dir")] ELSE d

DirectoryFits(p) == dest[p].kind \in {"none", "dir"} \/ backend = "libarchive"

OwnFile(n) == [kind |-> "file", own |-> TRUE, size |-> n]
WithFile(d, p, n) == [d EXCEPT ![p] = OwnFile(n)]

-----------------------------------------------------------------------------
(* Answers.                                                                *)

\* Every error path drops or removes the staging file.
Cleanup == stage' = NoStage

Answer(r) ==
  /\ phase' = "done"
  /\ result' = r
  /\ Cleanup

Refuse(r) ==
  /\ Answer(r)
  /\ UNCHANGED <<world, source, at, processed, barVars, out>>

-----------------------------------------------------------------------------
(* The facade.                                                             *)

Alone(i) ==
  \A j \in DOMAIN listing : listing[j].name = listing[i].name => j = i

\* What each operation may select.  extract_all without a filter: everything.
SelectAll == {DOMAIN listing}

\* extract_some, extract_filtered and a filter of extract_all: what a
\* predicate holds of; nothing selected is nothing done.
SelectSome == SUBSET DOMAIN listing \ {{}}

\* extract_files: paths, of which none may be missing or listed twice.
SelectFiles == {s \in SelectSome : \A i \in s : Alone(i)}

\* extract_by_ids: positions of the listing; two of them may share a path.
SelectByIds == SelectSome

\* extract_file: one path, listed once, of a regular file.
SelectOne ==
  {{i} : i \in {k \in DOMAIN listing : listing[k].kind = "file" /\ Alone(k)}}

\* The refusals that leave no trace, of missing or ambiguous paths and of
\* positions past the end, are left out.
Call ==
  /\ phase = "idle"
  /\ \E overwrite \in BOOLEAN :
       \/ \E s \in SelectAll \cup SelectSome \cup SelectFiles \cup SelectByIds :
            call' = [op |-> "bulk", sel |-> s, overwrite |-> overwrite]
       \/ \E s \in SelectOne :
            call' = [op |-> "one", sel |-> s, overwrite |-> overwrite]
  /\ phase' = "gates"
  /\ UNCHANGED <<backend, listing, disk, source, at, stage, processed,
                 barVars, result, meddled, swapped, out>>

Files(s) == {i \in s : listing[i].kind = "file"}
Sizes(s) == {i \in Files(s) : listing[i].size # Undeclared}
Declared(s) == SumOver([i \in Sizes(s) |-> listing[i].size], Sizes(s))

\* The whole archive is counted, also when a part of it is selected.
FewEnough == Len(listing) <= MaxCount

\* check_extraction_safe.
Safe(s) ==
  /\ FewEnough
  /\ \A i \in Sizes(s) : listing[i].size <= MaxFile
  /\ Declared(s) <= MaxTotal

\* The ratio of declared to stored bytes and the policy on unsafe names may
\* refuse as well; neither is modelled.
GatesRefuse == phase = "gates" /\ Refuse("unsafe")

\* ensure_destination comes after the gates and before the preflight.
GatesPass ==
  /\ phase = "gates"
  /\ Safe(call.sel)
  /\ root' = TRUE
  /\ phase' = "preflight"
  /\ UNCHANGED <<world, source, at, stage, processed, barVars, result, dest,
                 installed>>

-----------------------------------------------------------------------------
(* check_overwrite_conflicts: one entry of the selection at a time.        *)

Earlier(kinds) ==
  LET before == {i \in call.sel : i < at /\ listing[i].kind \in kinds}
  IN  {listing[i].name : i \in before}
Required(ps) == UNION {Above[p] : p \in ps}

\* Mutant: the ancestors that deeper entries need are not registered.
ClashBySpelling(e) ==
  \/ e.kind = "file" /\ e.name \in Earlier({"file", "dir"})
  \/ e.kind = "dir" /\ e.name \in Earlier({"file"})

\* Two entries of the selection cannot both be placed.
Clash(e) ==
  \/ e.kind = "file" /\ e.name \in Earlier({"file", "dir"})
  \/ e.kind = "file" /\ e.name \in Required(Earlier({"file", "dir"}))
  \/ e.kind = "dir" /\ e.name \in Earlier({"file"})
  \/ Above[e.name] \cap Earlier({"file"}) # {}

\* What is there already cannot be replaced.
Taken(e) ==
  IF e.kind = "file"
  THEN dest[e.name].kind = "dir" \/ (~call.overwrite /\ Occupied(e.name))
  ELSE Occupied(e.name) /\ dest[e.name].kind # "dir"

Unfit(e) == ~Placeable(e.name) \/ Clash(e) \/ Taken(e)
Checked(i) == i \in call.sel /\ listing[i].kind # "link"

PreflightEntry ==
  /\ phase = "preflight"
  /\ at \in DOMAIN listing
  /\ Checked(at) => ~Unfit(listing[at])
  /\ at' = at + 1
  /\ UNCHANGED <<world, source, phase, stage, processed, barVars, result,
                 out>>

PreflightRefuses ==
  /\ phase = "preflight"
  /\ at \in DOMAIN listing
  /\ Checked(at)
  /\ Unfit(listing[at])
  /\ Refuse("conflict")

PreflightEnds ==
  /\ phase = "preflight"
  /\ at = Len(listing) + 1
  /\ phase' = "open"
  /\ UNCHANGED <<world, source, at, stage, processed, barVars, result, out>>

-----------------------------------------------------------------------------
(* The walk.                                                               *)

\* for_each_entries of 7z: the files with a stream first, in block order.
HasStream(r) == r.kind = "file" /\ r.data > 0
VisitOrder(s) ==
  LET Streams == {i \in DOMAIN s : HasStream(s[i])}
  IN  Ascending(Streams) \o Ascending(DOMAIN s \ Streams)

\* The listing index of the record at position n of the walk.
IndexFor(n) ==
  IF backend = "sevenzip" THEN VisitOrder(source.records)[n]
  ELSE Cardinality({m \in 1..n : Named(source.records[m])})

RecordAt(n) ==
  source.records[IF backend = "sevenzip" THEN IndexFor(n) ELSE n]

\* What counts for the denominator: the selected regular files that declare
\* a size.
Weighs(s) ==
  {i \in call.sel \cap DOMAIN s :
     s[i].kind = "file" /\ s[i].size # Undeclared}

\* A bulk walk of 7z weighs the table of contents it has just read, every
\* other call the listing.
Table ==
  IF backend = "sevenzip" /\ call.op = "bulk" THEN source.records ELSE listing

Denominator ==
  SumOver([i \in Weighs(Table) |-> Table[i].size], Weighs(Table))

\* The stat before the open, where there is one.
StatArchive ==
  /\ phase = "open"
  /\ backend # "zip" => disk.id = 1
  /\ phase' = "opening"
  /\ UNCHANGED <<world, source, at, stage, processed, barVars, result, out>>

\* ZIP may find that its directory holds collapsed records.
OpenRefuses ==
  /\ phase = "open"
  /\ \/ backend = "zip" /\ Refuse("collapsed")
     \/ backend # "zip" /\ disk.id # 1 /\ Refuse("identity")

\* ZIP reads the descriptor it holds, the others open the path again.
OpenWalk ==
  /\ phase = "opening"
  /\ source' = IF backend = "zip" THEN [id |-> 1, records |-> listing] ELSE disk
  /\ phase' = "bracket"
  /\ at' = 1
  /\ UNCHANGED <<world, stage, processed, barVars, result, out>>

\* Mutant: nothing compares the file that was opened with the bound one.
BoundUnchecked == TRUE

\* The stat after the open: is the path still the file the handle is bound to?
Bound == backend = "zip" \/ disk.id = 1

StartWalk ==
  /\ phase = "bracket"
  /\ Bound
  /\ total' = Denominator
  /\ phase' = "head"
  /\ UNCHANGED <<world, source, at, stage, processed, counted, reported,
                 result, out>>

BracketRefuses ==
  /\ phase = "bracket"
  /\ ~Bound
  /\ Refuse("identity")

\* A poll of the callback that answers Break: between records, after a
\* chunk, or at the last sample.
Cancel ==
  /\ call.op = "bulk"
  /\ phase \in {"head", "copy", "final"}
  /\ Refuse("cancelled")

\* extract_file polls before the backend opens anything, and when it is done.
CancelSingle ==
  /\ call.op = "one"
  /\ phase \in {"open", "final"}
  /\ Refuse("cancelled")

AtEnd == at > Len(source.records)

\* The name at this index is not the listed one.
Drifts(n) ==
  LET i == IndexFor(n)
  IN  /\ Named(RecordAt(n))
      /\ i \in DOMAIN listing => RecordAt(n).name # listing[i].name

Chosen(n) == Named(RecordAt(n)) /\ IndexFor(n) \in call.sel
Wanted(n) == Chosen(n) /\ ~Drifts(n)

HeadDrifts ==
  /\ phase = "head"
  /\ call.op = "bulk"
  /\ IF AtEnd THEN Len(Listed(source.records)) # Len(listing) ELSE Drifts(at)
  /\ Refuse("drift")

\* extract_file compares its target only, which ZIP opens by its index and
\* the others walk to.
SingleSeeks ==
  /\ phase = "head"
  /\ call.op = "one"
  /\ ~AtEnd
  /\ ~Chosen(at)
  /\ at' = IF backend = "zip" THEN CHOOSE i \in call.sel : TRUE ELSE at + 1
  /\ UNCHANGED <<world, source, phase, stage, processed, barVars, result,
                 out>>

SingleDrifts ==
  /\ phase = "head"
  /\ call.op = "one"
  /\ ~AtEnd => Chosen(at) /\ Drifts(at)
  /\ Refuse("drift")

\* A record that is not selected, or a link, which is reported instead.
HeadSkips ==
  /\ phase = "head"
  /\ call.op = "bulk"
  /\ ~AtEnd
  /\ ~Drifts(at)
  /\ Wanted(at) => RecordAt(at).kind = "link"
  /\ at' = at + 1
  /\ reported' = Least(counted, total)
  /\ UNCHANGED <<world, source, phase, stage, processed, counted, total,
                 result, out>>

HeadUnplaceable ==
  /\ phase = "head"
  /\ ~AtEnd
  /\ Wanted(at)
  /\ LET r == RecordAt(at)
     IN  \/ r.kind # "link" /\ ~Placeable(r.name)
         \/ r.kind = "dir" /\ ~DirectoryFits(r.name)
  /\ Refuse("unplaceable")

HeadDirectory ==
  /\ phase = "head"
  /\ call.op = "bulk"
  /\ ~AtEnd
  /\ Wanted(at)
  /\ LET r == RecordAt(at)
     IN  /\ r.kind = "dir"
         /\ Placeable(r.name)
         /\ DirectoryFits(r.name)
         /\ dest' = WithDirectory(WithParents(dest, r.name), r.name)
  /\ at' = at + 1
  /\ reported' = Least(counted, total)
  /\ UNCHANGED <<world, source, phase, stage, processed, counted, total,
                 result, root, installed>>

HeadFile ==
  /\ phase = "head"
  /\ call.op = "bulk"
  /\ ~AtEnd
  /\ Wanted(at)
  /\ RecordAt(at).kind = "file"
  /\ Placeable(RecordAt(at).name)
  /\ phase' = "prepare"
  /\ reported' = Least(counted, total)
  /\ UNCHANGED <<world, source, at, stage, processed, counted, total, result,
                 out>>

\* The target; the gates have seen to it that it is a regular file.
SingleFile ==
  /\ phase = "head"
  /\ call.op = "one"
  /\ ~AtEnd
  /\ Wanted(at)
  /\ Placeable(RecordAt(at).name)
  /\ phase' = "prepare"
  /\ UNCHANGED <<world, source, at, stage, processed, barVars, result, out>>

\* Mutant: a walk that ends early is taken for a complete one.
HeadEndsShort ==
  /\ phase = "head"
  /\ AtEnd
  /\ call.op = "bulk"
  /\ phase' = "final"
  /\ UNCHANGED <<world, source, at, stage, processed, barVars, result, out>>

HeadEnds ==
  /\ phase = "head"
  /\ AtEnd
  /\ call.op = "bulk"
  /\ Len(Listed(source.records)) = Len(listing)
  /\ phase' = "final"
  /\ UNCHANGED <<world, source, at, stage, processed, barVars, result, out>>

-----------------------------------------------------------------------------
(* One file: AtomicOutputFile, or the staging path of libarchive.          *)

\* The check that is racy by design; only the staged backends have made
\* the parents by then.
PrepareRefuses ==
  /\ phase = "prepare"
  /\ LET p == RecordAt(at).name
     IN  /\ (~call.overwrite /\ Occupied(p)) \/ ~Placeable(p)
         /\ dest' = IF backend = "libarchive" \/ ~Placeable(p) THEN dest
                    ELSE WithParents(dest, p)
  /\ Answer("exists")
  /\ UNCHANGED <<world, source, at, processed, barVars, root, installed>>

Prepare ==
  /\ phase = "prepare"
  /\ LET p == RecordAt(at).name
     IN  /\ call.overwrite \/ ~Occupied(p)
         /\ Placeable(p)
         /\ dest' = WithParents(dest, p)
  /\ stage' = [on |-> TRUE, size |-> 0]
  /\ phase' = "copy"
  /\ UNCHANGED <<world, source, at, processed, barVars, result, root,
                 installed>>

\* Mutant: what is left of the total budget does not tighten the ceiling.
CeilingPerFile(r) ==
  IF r.size # Undeclared THEN r.size ELSE MaxFile

\* What extract_file hands to libarchive, which takes one number.
SingleCap == Least(MaxFile, MaxTotal)

\* The declared size where there is one, else the caller's ceiling; libarchive
\* tightens it by what is left of the total.
Ceiling(r) ==
  LET cap == IF call.op = "one" THEN SingleCap ELSE MaxFile
      own == IF r.size # Undeclared THEN r.size ELSE cap
      left == IF processed < MaxTotal THEN MaxTotal - processed ELSE 0
  IN  IF backend = "libarchive" /\ call.op = "bulk" THEN Least(own, left)
      ELSE own

\* The sample voted on inside a file of the bulk walks: an entry that is not
\* in the denominator adds nothing to it.
SampleIn(r, size) ==
  LET inside == IF call.op = "bulk" /\ r.size # Undeclared THEN size ELSE 0
  IN  Least(counted + inside, total)

\* copy_data and copy_with_optional_crc_bounded: a chunk is checked against
\* the ceiling before it is written.
CopyChunk ==
  /\ phase = "copy"
  /\ LET r == RecordAt(at)
     IN  /\ stage.size < r.data
         /\ stage.size + 1 <= Ceiling(r)
         /\ stage' = [stage EXCEPT !.size = @ + 1]
         /\ reported' = SampleIn(r, stage.size + 1)
  /\ UNCHANGED <<world, source, phase, at, processed, counted, total, result,
                 out>>

CopyOverruns ==
  /\ phase = "copy"
  /\ stage.size < RecordAt(at).data
  /\ stage.size + 1 > Ceiling(RecordAt(at))
  /\ Refuse("overrun")

\* A clean end of the stream must be where the archive declared it.
Whole(r) == r.size # Undeclared => stage.size = r.size

CopyFails == phase = "copy" /\ Refuse("corrupt")

CopyEnds ==
  /\ phase = "copy"
  /\ LET r == RecordAt(at)
     IN  /\ stage.size = r.data
         /\ Whole(r)
         /\ processed' = processed + stage.size
         /\ counted' = counted
                        + (IF r.size # Undeclared THEN stage.size ELSE 0)
  /\ phase' = "install"
  /\ UNCHANGED <<world, source, at, stage, total, reported, result, out>>

\* rename_with_overwrite replaces a file, never a directory.
Replaceable(p) == dest[p].kind # "dir"

\* Mutant: the noclobber install is a plain rename.
Renamed(p) == Replaceable(p)

\* persist_noclobber and rename_noclobber replace nothing.
Installable(p) == IF call.overwrite THEN Replaceable(p) ELSE ~Occupied(p)

OverTotal == backend = "libarchive" /\ call.op = "bulk" /\ processed > MaxTotal

InstallFails ==
  /\ phase = "install"
  /\ \/ OverTotal /\ Refuse("overrun")
     \/ ~OverTotal /\ ~Installable(RecordAt(at).name) /\ Refuse("exists")
     \/ ~OverTotal /\ Refuse("corrupt")

PutFile ==
  /\ phase = "install"
  /\ ~OverTotal
  /\ LET r == RecordAt(at)
     IN  /\ Installable(r.name)
         /\ dest' = WithFile(dest, r.name, stage.size)
         /\ installed' = installed \cup
              {[idx |-> IndexFor(at), id |-> source.id, name |-> r.name]}
  /\ Cleanup
  /\ at' = at + 1
  /\ UNCHANGED <<world, source, processed, barVars, result, root>>

Install == call.op = "bulk" /\ PutFile /\ phase' = "head"
InstallSingle == call.op = "one" /\ PutFile /\ phase' = "final"

Finish ==
  /\ phase = "final"
  /\ reported' = total
  /\ Answer("ok")
  /\ UNCHANGED <<world, source, at, processed, counted, total, out>>

-----------------------------------------------------------------------------
(* Other programs.                                                         *)

Meddle ==
  /\ phase # "done"
  /\ meddled < MaxMeddling
  /\ root
  /\ \E p \in Paths :
       /\ \A a \in Above[p] : dest[a].kind = "dir"
       /\ \/ dest[p].kind = "none" /\ \E k \in {"file", "dir"} :
               dest' = [dest EXCEPT ![p] = Foreign(k)]
          \/ dest[p].kind = "file" /\ dest' = [dest EXCEPT ![p] = Absent]
  /\ meddled' = meddled + 1
  /\ UNCHANGED <<callVars, disk, source, phase, at, stage, processed,
                 barVars, result, root, installed, swapped>>

\* Another file under the archive's name; the first one does not come back.
ReplaceArchive ==
  /\ phase \in {"preflight", "open", "opening", "bracket"}
  /\ swapped = "no"
  /\ \E s \in Archives : disk' = [id |-> 2, records |-> s]
  /\ swapped' = "replaced"
  /\ UNCHANGED <<callVars, source, phase, at, stage, processed, barVars,
                 result, meddled, out>>

\* The same file with other contents; an entry that keeps its name and its
\* place keeps its kind.
RewriteArchive ==
  /\ phase \in {"preflight", "open", "opening"}
  /\ swapped = "no"
  /\ \E s \in Archives :
       /\ \A i \in DOMAIN Listed(s) \cap DOMAIN listing :
            Listed(s)[i].name = listing[i].name =>
              Listed(s)[i].kind = listing[i].kind
       /\ backend # "libarchive" => \A r \in Range(s) : Stated(r)
       /\ disk' = [id |-> 1, records |-> s]
  /\ swapped' = "rewritten"
  /\ UNCHANGED <<callVars, source, phase, at, stage, processed, barVars,
                 result, meddled, out>>

Walk ==
  \/ StatArchive \/ OpenRefuses \/ OpenWalk \/ StartWalk \/ BracketRefuses
  \/ Cancel \/ CancelSingle
  \/ HeadDrifts \/ SingleSeeks \/ SingleDrifts \/ HeadSkips
  \/ HeadUnplaceable \/ HeadDirectory \/ HeadFile \/ SingleFile
  \/ HeadEnds
  \/ PrepareRefuses \/ Prepare
  \/ CopyChunk \/ CopyOverruns \/ CopyFails \/ CopyEnds
  \/ InstallFails \/ Install \/ InstallSingle \/ Finish

Next ==
  \/ Call \/ GatesRefuse \/ GatesPass
  \/ PreflightEntry \/ PreflightRefuses \/ PreflightEnds
  \/ Walk
  \/ Meddle \/ ReplaceArchive \/ RewriteArchive

Spec == Init /\ [][Next]_vars

-----------------------------------------------------------------------------
(* Properties.                                                             *)

Own == {p \in Paths : dest[p].own}

\* Nothing the caller did not let go is replaced, however late it appeared:
\* between the preflight, the early existence check and the install, another
\* program may have created what the extraction is about to write.
NothingReplaced ==
  [][\A p \in Paths : dest[p].kind # "none" /\ dest'[p] # dest[p] =>
       meddled' # meddled \/ (call.overwrite /\ dest[p].kind = "file")]_vars

\* A file that bears a final name is the whole of what the archive declares,
\* and no staging file survives the call, whichever way it ended.
NoPartialFile ==
  /\ \A p \in Own : \E r \in Range(source.records) :
       /\ r.name = p /\ r.data = dest[p].size
       /\ r.size # Undeclared => r.size = r.data
  /\ phase = "done" => ~stage.on

\* The bytes under final names.
Written == SumOver([p \in Own |-> dest[p].size], Own)

\* Where a budget is kept, or what was gated is what is read.  A call for one
\* entry and a walk of a 7z archive rest on the gates alone: an archive that
\* was rewritten in place since is bounded by what it declares itself.
SizesAreGated ==
  \/ backend = "zip"
  \/ backend = "libarchive" /\ call.op = "bulk"
  \/ swapped # "rewritten"

\* Installed files and the staging file never exceed the total limit.
BudgetHolds == SizesAreGated => Written + stage.size <= MaxTotal

\* What was installed is what the gates and the preflight looked at: the
\* selected entry, under its listed name, from the file the handle is bound to.
WhatWasGated ==
  \A m \in installed :
    /\ m.idx \in call.sel
    /\ listing[m.idx].name = m.name
    /\ m.id = 1

\* An extraction that reports success has installed every selected file:
\* a shorter walk than the listing, or a walk in another order, is no success.
CompleteOnOk ==
  result = "ok" => Files(call.sel) \subseteq {m.idx : m \in installed}

\* Where nobody else interferes, what the preflight accepted is neither
\* refused half-way because of what is there nor mistaken for a drift.
PreflightPredicts ==
  meddled = 0 /\ swapped = "no" =>
    result \notin {"exists", "unplaceable", "drift", "identity"}

\* The progress bar never goes back, never passes its end, and a success
\* leaves it there.
ProgressMonotone ==
  [][/\ reported' >= reported
     /\ reported' <= total'
     /\ result' = "ok" => reported' = total']_vars

\* Whatever has a final name is whole, and all of it within the limits.
InstalledWhole == TypeOK /\ NoPartialFile /\ BudgetHolds
=============================================================================
