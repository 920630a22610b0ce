---------------------------- MODULE CreateArchive ----------------------------
(***************************************************************************)
(* A Write-mode handle from create to drop (src/src/creation.rs,           *)
(* src/src/creation/manifest.rs) over the two writers it may own, the ZIP  *)
(* writer and the libarchive writer (src/src/ffi), while the source tree   *)
(* of a recursive add is being changed by others.                          *)
(*                                                                         *)
(* The facade reserves each path in a namespace transaction, then writes.  *)
(* The recursive add walks the tree once, records what it saw, and checks  *)
(* every source against the record just before it is written.  The ways in *)
(* which a writer can fail are operators over the writer's state.          *)
(***************************************************************************)
EXTENDS WriteNamespace, Sequences, Naturals, FiniteSets, Functions

CONSTANTS WalkOrder,    \* the paths of the source tree, as a walk meets them
          MaxEntries,   \* bound: no call starts once this much is written
          MaxChanges    \* bound: changes to the source tree

ASSUME WalkAssumption ==
  /\ WalkOrder \in Seq(Paths)
  /\ WalkOrder # << >>
  /\ MaxEntries \in Nat
  /\ MaxChanges \in Nat

TreePaths == Range(WalkOrder)
Sizes == {0, 1, 2}

\* A "special" is a pipe, a socket or a device.
Objects == [kind : {"none", "file", "dir", "link", "special"}, ver : Nat, size : Sizes]
Nothing == [kind |-> "none", ver |-> 0, size |-> 0]
Entries == [path : Paths, kind : Kinds, ver : Nat, size : Sizes, whole : BOOLEAN]
Recorded == [path : TreePaths, kind : Kinds, ver : Nat, size : Sizes]
Calls == [op : {"none", "file", "dir", "tree", "finish", "drop_typed"},
          path : Paths \cup {<< >>}, ok : BOOLEAN]

VARIABLES
  backend,   \* which writer the format chose
  w,         \* the writer: see Writers
  ns,        \* write_namespace
  journal,   \* the transaction's undo journal
  handle,    \* "open", "finalized" (the facade's flag), "dropped", "gone"
  call       \* the last call that was answered

VARIABLES
  phase,     \* of a recursive add
  walked,    \* how much of WalkOrder the walk has passed
  plan,      \* SourceManifest: what the walk recorded
  at,        \* the entry being written
  opened,    \* the source the backend has opened, as its own stat found it
  saved,     \* history: the namespace before the call
  base,      \* history: entries written before the call
  checked,   \* history: when the entry at hand was verified, the walk begun
  torn,      \* history: a recursive add failed with entries written
  tree,      \* the source tree
  changes    \* how often it has changed

walkVars == <<walked, plan, at, opened, saved, base, checked>>
treeVars == <<tree, changes>>
vars == <<backend, w, ns, journal, handle, call, phase, walkVars, torn, treeVars>>

Writers == [out : Seq(Entries), poisoned : BOOLEAN, count : Nat,
            raw : {"open", "taken"}, failed : BOOLEAN, sealed : BOOLEAN]

Init ==
  /\ backend \in {"zip", "libarchive"}
  /\ w = [out |-> << >>, poisoned |-> FALSE, count |-> 0,
          raw |-> "open", failed |-> FALSE, sealed |-> FALSE]
  /\ ns = NoPaths
  /\ journal = NoPaths
  /\ handle = "open"
  /\ call = [op |-> "none", path |-> << >>, ok |-> TRUE]
  /\ phase = "idle"
  /\ walked = 0
  /\ plan = << >>
  /\ at = 1
  /\ opened = Nothing
  /\ saved = NoPaths
  /\ base = 0
  /\ checked = 0
  /\ torn = FALSE
  /\ tree \in {t \in [TreePaths -> {Nothing,
                                    [kind |-> "file", ver |-> 0, size |-> 1],
                                    [kind |-> "dir", ver |-> 0, size |-> 0]}] :
                 \A p \in TreePaths : t[p].kind # "none" =>
                   \A a \in Above[p] \cap TreePaths : t[a].kind = "dir"}
  /\ changes = 0

\* Where a recursive add stands with the file it has checked: at each call of
\* the open, at the copy, or asleep in one of them until another program acts.
Waiting == {"wait_open", "wait_read"}
Writing == {"look", "open", "recheck", "copy"} \cup Waiting

\* The types of the state; while a recursive add writes, it stands at an entry
\* of its plan.
TypeOK ==
  /\ backend \in {"zip", "libarchive"}
  /\ w \in Writers
  /\ ns \in Namespaces
  /\ journal \in Namespaces
  /\ handle \in {"open", "finalized", "dropped", "gone"}
  /\ call \in Calls
  /\ phase \in {"idle", "walk", "verify"} \cup Writing
  /\ walked \in 0..Len(WalkOrder)
  /\ plan \in Seq(Recorded)
  /\ at \in Nat \ {0}
  /\ phase \in Writing => at \in DOMAIN plan
  /\ opened \in Objects
  /\ saved \in Namespaces
  /\ base \in Nat
  /\ checked \in Nat
  /\ torn \in BOOLEAN
  /\ tree \in [TreePaths -> Objects]
  /\ changes \in Nat

-----------------------------------------------------------------------------
(* The writers.                                                            *)

Entry(r, whole) ==
  [path |-> r.path, kind |-> r.kind, ver |-> r.ver, size |-> r.size, whole |-> whole]

Put(wr, e) == [wr EXCEPT !.out = Append(@, e)]
Poison(wr) == [wr EXCEPT !.poisoned = TRUE]
Count(wr) == [wr EXCEPT !.count = @ + 1]
Take(wr) == [wr EXCEPT !.raw = "taken"]
Seal(wr) == [wr EXCEPT !.sealed = TRUE]
GiveUp(wr) == [wr EXCEPT !.failed = TRUE]

Wrote(wr, r) == Count(Put(wr, Entry(r, TRUE)))

\* An error before or after the header went out, or a callback that breaks
\* when the last chunk is already written.
Broken(wr, r) ==
  {Poison(wr)} \cup {Poison(Put(wr, Entry(r, whole))) : whole \in BOOLEAN}

\* The zip crate takes a name once; libarchive takes whatever it is given.
Refused(wr, r) ==
  /\ backend = "zip"
  /\ \E e \in Range(wr.out) : e.path = r.path /\ e.kind = r.kind

\* libarchive asks the callback before it writes a directory, ZIP after.
DirFailures(wr, r) ==
  IF backend = "libarchive" THEN {wr} \cup Broken(wr, r)
  ELSE {Poison(wr), Poison(Put(wr, Entry(r, TRUE)))}

\* Mutant: a failed entry write does not poison.
FailuresForgiven(wr, r) == {wr, Put(wr, Entry(r, FALSE))}

\* with_writer, write_entry: every failure of an entry write poisons.
Failures(wr, r) ==
  IF wr.poisoned \/ wr.raw = "taken" THEN {wr}
  ELSE IF Refused(wr, r) THEN {Poison(wr)}
  ELSE IF r.kind = "dir" THEN DirFailures(wr, r) ELSE Broken(wr, r)

CanWrite(wr, r) == ~wr.poisoned /\ wr.raw = "open" /\ ~Refused(wr, r)

\* Mutant: a finalize that could not sync is reported as a success.
FinalizedAnyway(wr) ==
  {[w |-> Seal(Take(wr)), ok |-> TRUE], [w |-> Take(wr), ok |-> TRUE]}

\* ZipWriter::finish, close_write: one attempt, and its failure sticks.
Finalized(wr) ==
  IF wr.failed THEN {[w |-> wr, ok |-> FALSE]}
  ELSE IF wr.raw = "taken" THEN {[w |-> wr, ok |-> TRUE]}
  ELSE {[w |-> Seal(Take(wr)), ok |-> TRUE],
        [w |-> GiveUp(Take(wr)), ok |-> FALSE]}

\* The facade's write_poisoned: only a failed commit sets it, and that is a
\* Modify handle, which the commit consumes.
WritePoisoned == FALSE

FacadeFinalized(wr) ==
  IF WritePoisoned THEN {[w |-> wr, ok |-> FALSE]} ELSE Finalized(wr)

-----------------------------------------------------------------------------
(* Single adds: staged_add.  A source that cannot be opened fails before   *)
(* the writer is asked and leaves it as it was.                            *)

Answer(op, p, ok) == call' = [op |-> op, path |-> p, ok |-> ok]

Ready == handle = "open" /\ phase = "idle" /\ ~WritePoisoned

Plain(kind, p) == [path |-> p, kind |-> kind, ver |-> 0, size |-> 1]

StagedAdd(kind, p) ==
  LET claimed == Record(ns, kind, p)
      undone  == Undo(claimed, Journal(NoPaths, ns, kind, p))
  IN  \/ /\ ~Fits(ns, kind, p)
         /\ ns' = undone
         /\ Answer(kind, p, FALSE)
         /\ UNCHANGED w
      \/ /\ Fits(ns, kind, p)
         /\ CanWrite(w, Plain(kind, p))
         /\ ns' = claimed
         /\ w' = Wrote(w, Plain(kind, p))
         /\ Answer(kind, p, TRUE)
      \/ /\ Fits(ns, kind, p)
         /\ ns' = undone
         /\ w' \in Failures(w, Plain(kind, p))
                   \cup (IF kind = "file" THEN {w} ELSE {})
         /\ Answer(kind, p, FALSE)

AddFile(p) ==
  /\ Ready
  /\ Len(w.out) < MaxEntries
  /\ StagedAdd("file", p)
  /\ UNCHANGED <<backend, journal, handle, phase, walkVars, torn, treeVars>>

\* A directory the namespace already holds is not written again.
AddDirectory(p) ==
  /\ Ready
  /\ Len(w.out) < MaxEntries
  /\ \/ /\ p \in ns.dirs
        /\ Answer("dir", p, TRUE)
        /\ UNCHANGED <<w, ns>>
     \/ /\ p \notin ns.dirs
        /\ StagedAdd("dir", p)
  /\ UNCHANGED <<backend, journal, handle, phase, walkVars, torn, treeVars>>

-----------------------------------------------------------------------------
(* add_directory_recursive                                                 *)

StartTree ==
  /\ Ready
  /\ Len(w.out) < MaxEntries
  /\ phase' = "walk"
  /\ saved' = ns
  /\ base' = Len(w.out)
  /\ checked' = changes
  /\ UNCHANGED <<backend, w, ns, journal, handle, call, walked, plan, at, opened,
                 torn, treeVars>>

\* The call returns, and what it kept on its stack is gone.
Return(ok) ==
  /\ phase' = "idle"
  /\ call' = [op |-> "tree", path |-> WalkOrder[1], ok |-> ok]
  /\ journal' = NoPaths
  /\ walked' = 0
  /\ plan' = << >>
  /\ at' = 1
  /\ opened' = Nothing
  /\ saved' = NoPaths
  /\ base' = 0
  /\ checked' = 0

Seen(p) == [path |-> p, kind |-> tree[p].kind, ver |-> tree[p].ver,
            size |-> IF tree[p].kind = "dir" THEN 0 ELSE tree[p].size]

\* A symlink or special file ends the walk, a path that does not fit too.
Observe(p) ==
  /\ tree[p].kind \in Kinds
  /\ p = WalkOrder[1] => tree[p].kind = "dir"
  /\ Fits(ns, tree[p].kind, p)
  /\ journal' = Journal(journal, ns, tree[p].kind, p)
  /\ ns' = Record(ns, tree[p].kind, p)
  /\ plan' = Append(plan, Seen(p))

\* What is absent, or came after its directory was listed, is passed over.
WalkStep ==
  /\ phase = "walk"
  /\ walked < Len(WalkOrder)
  /\ walked' = walked + 1
  /\ LET p == WalkOrder[walked + 1]
     IN  \/ Observe(p)
         \/ /\ tree[p].kind = "none" \/ tree[p].ver > checked
            /\ walked > 0
            /\ UNCHANGED <<ns, journal, plan>>
  /\ UNCHANGED <<backend, w, handle, call, phase, at, opened, saved, base, checked,
                 torn, treeVars>>

\* A rejected reservation may have put keys into the tracker first.
WalkFails ==
  /\ phase = "walk"
  /\ \/ ns' = Undo(ns, journal)
     \/ /\ walked < Len(WalkOrder)
        /\ \E k \in Kinds :
             LET p == WalkOrder[walked + 1]
             IN  /\ ~Fits(ns, k, p)
                 /\ ns' = Undo(Record(ns, k, p), Journal(journal, ns, k, p))
  /\ Return(FALSE)
  /\ UNCHANGED <<backend, w, handle, torn, treeVars>>

WalkEnds ==
  /\ phase = "walk"
  /\ walked = Len(WalkOrder)
  /\ phase' = "verify"
  /\ UNCHANGED <<backend, w, ns, journal, handle, call, walkVars, torn, treeVars>>

\* Mutant: the check asks no more than that something other than a link is
\* still there.
UnchangedByName(r) == tree[r.path].kind \notin {"none", "link"}

\* verify_unchanged: kind and identity, and for a file its size and mtime.
Unchanged(r) ==
  /\ tree[r.path].kind = r.kind
  /\ tree[r.path].ver = r.ver
  /\ r.kind = "file" => tree[r.path].size = r.size

\* The next entry has not drifted: a directory is written from the record.
VerifyDir ==
  /\ phase = "verify" /\ at <= Len(plan)
  /\ plan[at].kind = "dir" /\ Unchanged(plan[at])
  /\ CanWrite(w, plan[at])
  /\ w' = Wrote(w, plan[at])
  /\ at' = at + 1
  /\ checked' = changes
  /\ UNCHANGED <<backend, ns, journal, handle, call, phase, walked, plan, opened, saved,
                 base, torn, treeVars>>

VerifyFile ==
  /\ phase = "verify" /\ at <= Len(plan)
  /\ plan[at].kind = "file" /\ Unchanged(plan[at])
  /\ phase' = "look"
  /\ checked' = changes
  /\ UNCHANGED <<backend, w, ns, journal, handle, call, walked, plan, at, opened, saved,
                 base, torn, treeVars>>

(* open_file_no_follow_symlinks, call by call: a look at the path, an open   *)
(* that follows links and asks for no type, a look again, a stat of what was *)
(* opened.  Nothing but a link is refused.                                   *)

Source == tree[plan[at].path]

LookAtSource ==
  /\ phase = "look"
  /\ Source.kind \notin {"none", "link"}
  /\ phase' = "open"
  /\ UNCHANGED <<backend, w, ns, journal, handle, call, walkVars, torn, treeVars>>

\* What can stand at a path at the moment `v`; a link may lead to any of it.
Targets(v) ==
  {[kind |-> "file", ver |-> v, size |-> size] : size \in {1, 2}}
    \cup {[kind |-> k, ver |-> v, size |-> 0] : k \in {"dir", "special"}}

Reached == CASE Source.kind = "none" -> {}
             [] Source.kind = "link" -> Targets(Source.ver)
             [] OTHER -> {Source}

\* The open of a pipe sleeps until its other end is opened.
OpenSource ==
  /\ phase = "open"
  /\ \E o \in Reached :
       /\ opened' = o
       /\ \/ phase' = "recheck"
          \/ o.kind = "special" /\ phase' = "wait_open"
  /\ UNCHANGED <<backend, w, ns, journal, handle, call, walked, plan, at, saved, base,
                 checked, torn, treeVars>>

\* The open file, or what a rewrite in place has made of it since.
AsOpenNow == {o \in {opened, Source} : o.kind = opened.kind}

RecheckSource ==
  /\ phase = "recheck"
  /\ Source.kind \notin {"none", "link"}
  /\ opened' \in AsOpenNow
  /\ phase' = "copy"
  /\ UNCHANGED <<backend, w, ns, journal, handle, call, walked, plan, at, saved, base,
                 checked, torn, treeVars>>

\* A pipe with nothing in it puts the copy to sleep.
CopyWaits ==
  /\ phase = "copy"
  /\ opened.kind = "special"
  /\ phase' = "wait_read"
  /\ UNCHANGED <<backend, w, ns, journal, handle, call, walkVars, torn, treeVars>>

\* A directory opens too, but no read of it succeeds.
Readable == {o \in AsOpenNow : o.kind \in {"file", "special"}}

Copied(o) ==
  /\ CanWrite(w, plan[at])
  /\ w' = Wrote(w, [plan[at] EXCEPT !.ver = o.ver, !.size = o.size])
  /\ at' = at + 1
  /\ phase' = "verify"
  /\ UNCHANGED <<backend, ns, journal, handle, call, walked, plan, opened,
                 saved, base, checked, torn, treeVars>>

\* Only a source that yields exactly the declared length makes an entry.
CopySource ==
  /\ phase = "copy"
  /\ \E o \in Readable : o.size = opened.size /\ Copied(o)

\* Drift and an open that fails leave the writer alone; a failed write does
\* not.  Either way the reservations go, the entries written stay.
TreeFails ==
  /\ \/ /\ phase = "verify" /\ at <= Len(plan)
        /\ \/ ~Unchanged(plan[at]) /\ UNCHANGED w
           \/ plan[at].kind = "dir" /\ w' \in Failures(w, plan[at])
     \/ phase \in {"look", "open", "recheck"} /\ UNCHANGED w
     \/ phase = "copy" /\ w' \in Failures(w, plan[at])
  /\ ns' = Undo(ns, journal)
  /\ torn' = (torn \/ Len(w'.out) > base)
  /\ Return(FALSE)
  /\ UNCHANGED <<backend, handle, treeVars>>

TreeEnds ==
  /\ phase = "verify" /\ at > Len(plan)
  /\ Return(TRUE)
  /\ UNCHANGED <<backend, w, ns, handle, torn, treeVars>>

-----------------------------------------------------------------------------
(* The end of the handle.                                                  *)

\* Archive::finish consumes the handle, so its drop follows.
Finish ==
  /\ handle = "open" /\ phase = "idle"
  /\ handle' = "finalized"
  /\ \E f \in FacadeFinalized(w) : w' = f.w /\ Answer("finish", << >>, f.ok)
  /\ UNCHANGED <<backend, ns, journal, phase, walkVars, torn, treeVars>>

\* A typed WriteArchive dropped without finish: finalize_write_on_drop.
DropTyped ==
  /\ handle = "open" /\ phase = "idle"
  /\ handle' = "finalized"
  /\ \E f \in FacadeFinalized(w) :
       w' = f.w /\ Answer("drop_typed", << >>, f.ok)
  /\ UNCHANGED <<backend, ns, journal, phase, walkVars, torn, treeVars>>

\* Archive's Drop finalizes what nobody has, and can only print a failure.
DropArchive ==
  /\ handle \in {"open", "finalized"} /\ phase = "idle"
  /\ handle' = "dropped"
  /\ IF handle = "open" THEN \E f \in FacadeFinalized(w) : w' = f.w
     ELSE UNCHANGED w
  /\ UNCHANGED <<backend, ns, journal, call, phase, walkVars, torn, treeVars>>

\* The ZIP writer's own Drop; the libarchive writer has none.
DropWriter ==
  /\ handle = "dropped"
  /\ handle' = "gone"
  /\ IF backend = "zip" /\ ~w.failed THEN \E f \in Finalized(w) : w' = f.w
     ELSE UNCHANGED w
  /\ UNCHANGED <<backend, ns, journal, call, phase, walkVars, torn, treeVars>>

-----------------------------------------------------------------------------
\* Someone replaces, rewrites, creates or removes an object of the tree.
Change(p) ==
  /\ changes < MaxChanges
  /\ changes' = changes + 1
  /\ \E o \in Targets(changes')
              \cup {[kind |-> k, ver |-> changes', size |-> 0] : k \in {"none", "link"}} :
       tree' = [q \in TreePaths |->
                  IF q = p THEN o
                  ELSE IF p \in Above[q] /\ o.kind # "dir" THEN Nothing
                  ELSE tree[q]]
  /\ \A a \in Above[p] \cap TreePaths : tree[a].kind = "dir"
  /\ UNCHANGED <<backend, w, ns, journal, handle, call, phase, walkVars, torn>>

\* The other end of a pipe is opened, written to or closed.
OtherEnd ==
  /\ \/ phase = "wait_open" /\ phase' = "recheck"
     \/ phase = "wait_read" /\ phase' = "copy"
  /\ UNCHANGED <<backend, w, ns, journal, handle, call, walkVars, torn, treeVars>>

Library ==
  \/ WalkStep \/ WalkFails \/ WalkEnds
  \/ VerifyDir \/ VerifyFile
  \/ LookAtSource \/ OpenSource \/ RecheckSource \/ CopyWaits \/ CopySource
  \/ TreeFails \/ TreeEnds
  \/ handle = "finalized" /\ DropArchive
  \/ DropWriter

Caller ==
  \/ \E p \in Paths : AddFile(p) \/ AddDirectory(p)
  \/ StartTree \/ Finish \/ DropTyped
  \/ handle = "open" /\ DropArchive

Next == Library \/ Caller \/ OtherEnd \/ \E p \in TreePaths : Change(p)

Spec == Init /\ [][Next]_vars

\* A call that was made runs to its end, and so does a drop.
FairSpec == Spec /\ WF_vars(Library)

-----------------------------------------------------------------------------
(* Properties                                                              *)

\* No path is claimed as a file and as a directory, and everything above a
\* claimed path is a claimed directory: what record_file and record_dir are
\* for (R0069-0062, R0001-0011), also in the middle of a walk.
NamespaceConsistent == TypeOK /\ Consistent(ns)

\* What the answered calls have claimed.
Settled == IF phase = "idle" THEN ns ELSE saved

\* Claims change by a call that answers Ok, never by one that fails: the
\* undo restores exactly the tracker the earlier adds left
\* (staged_add_planned, R0080-0031, R0080-0032, R0001-0042).
ClaimsByOk ==
  Settled' # Settled =>
    phase' = "idle" /\ call'.ok /\ call'.op \in {"file", "dir", "tree"}

FailedAddUndone == [][ClaimsByOk]_vars

\* Only the last entry can be half written, and then the writer takes no
\* more; entries_written never counts it (R0069-0053).
ProgressHonest ==
  /\ \A i \in DOMAIN w.out :
       ~w.out[i].whole => i = Len(w.out) /\ w.poisoned
  /\ w.count <= Cardinality({i \in DOMAIN w.out : w.out[i].whole})
  /\ ~w.poisoned => w.count = Len(w.out)

\* Unless a recursive add failed midway, no file is written twice and
\* nothing is written beneath a file, whatever mix of adds succeeded.
OutputExtracts ==
  ~torn => \A i, j \in DOMAIN w.out :
    i # j /\ w.out[i].kind = "file" =>
      w.out[i].path \notin Above[w.out[j].path] \cup {w.out[j].path}

\* A recursive add that answers Ok has written exactly what its walk
\* recorded, in that order and whole (SourceManifest::write_into).
TreeAsPlanned ==
  [][phase = "verify" /\ phase' = "idle" /\ call'.ok =>
       /\ Len(w.out) = base + Len(plan)
       /\ \A i \in DOMAIN plan :
            LET e == w.out[base + i]
            IN  e.whole /\ e.path = plan[i].path /\ e.kind = plan[i].kind]_vars

\* A source file that was already different when it was checked is never
\* written, and what is written has the length its header declares
\* (verify_unchanged, stream_reader_exact, write_entry_inner).
SourceAsChecked ==
  [][phase = "copy" /\ w'.count > w.count =>
       LET e == w'.out[Len(w'.out)]
       IN  /\ e.ver = plan[at].ver \/ e.ver > checked
           /\ e.size = opened.size]_vars

\* finish, and the typed handle's drop, answer Ok only for an archive whose
\* end was written and synced (R0001-0018).
OkMeansSealed ==
  call.op \in {"finish", "drop_typed"} /\ call.ok => w.sealed

\* A recursive add sleeps only on a pipe put in the place of a file after the
\* check of that file; the walk and verify_unchanged refuse all others.
Asleep == phase \in Waiting
NewPipe == opened.kind = "special" /\ opened.ver > checked
SleepsOnNewcomer == Asleep => NewPipe

\* A recursive add is answered, unless it sleeps in the open or a read of such
\* a pipe: open_file_no_follow_symlinks asks for no type and opens without
\* O_NONBLOCK.
TreeAnswered == []<>(phase = "idle" \/ (Asleep /\ NewPipe))

\* A handle that was finished or dropped has its writer closed in the end;
\* the libarchive writer has no Drop that would do it (R0076-0088).
WriterReleased == handle # "open" ~> w.raw = "taken"

-----------------------------------------------------------------------------
(* What comments and the manual say, and the code does not do.             *)

\* "Poisoning happens when an add_* call fails partway through the backend
\* write. After that, every further add_* and finish() returns
\* OperationBlocked" (manual/how-to/user/en/create-an-archive.md).
FinishBlockedByPoison == call.op = "finish" /\ call.ok => ~w.poisoned

\* "A directory path is emitted at most once" (Archive::add_directory).
DirectoryOnce ==
  \A i, j \in DOMAIN w.out :
    w.out[i].kind = "dir" /\ w.out[j].kind = "dir"
      /\ w.out[i].path = w.out[j].path => i = j

\* "A failed backend add self-poisons the writer" (Archive::staged_add): a
\* recursive add that leaves entries behind must not be followed by others.
FailurePoisons == torn => w.poisoned

\* The window between verify_unchanged and the backend's own stat "is
\* covered by the writers' declared-size guards" (creation/manifest.rs).
TreeSizesRecorded ==
  [][phase = "verify" /\ phase' = "idle" /\ call'.ok =>
       \A i \in DOMAIN plan : w.out[base + i].size = plan[i].size]_vars

\* "so it fails loudly" (there too): the add would then always be answered.
TreeAlwaysAnswered == []<>(phase = "idle")
=============================================================================
