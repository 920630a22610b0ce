------------------------ MODULE CreateArchiveProofs ------------------------
(***************************************************************************)
(* Theorems about CreateArchive, for any set of paths, any source tree and *)
(* any bounds.                                                             *)
(***************************************************************************)
EXTENDS CreateArchive, FiniteSetTheorems, SequenceTheorems, TLAPS

-----------------------------------------------------------------------------
(* The namespace's operations.                                             *)

\* A reservation, accepted or not, keeps the sets sets of paths.
LEMMA RecordType ==
  ASSUME NEW n \in Namespaces, NEW k \in Kinds, NEW p \in Paths
  PROVE  Record(n, k, p) \in Namespaces
  BY PathAssumption
     DEF Record, RecordFile, RecordDir, Swept, Namespaces, Kinds

\* The journal of a reservation is a pair of sets of paths.
LEMMA JournalType ==
  ASSUME NEW j \in Namespaces, NEW n \in Namespaces, NEW k \in Kinds,
         NEW p \in Paths
  PROVE  Journal(j, n, k, p) \in Namespaces
  BY PathAssumption DEF Journal, Namespaces, Kinds

\* Undoing gives a pair of sets of paths.
LEMMA UndoType ==
  ASSUME NEW n \in Namespaces, NEW j \in Namespaces
  PROVE  Undo(n, j) \in Namespaces
  BY DEF Undo, Namespaces

\* Undoing nothing changes nothing.
LEMMA UndoNothing ==
  ASSUME NEW n \in Namespaces
  PROVE  Undo(n, NoPaths) = n
  BY DEF Undo, NoPaths, Namespaces

\* A reservation, accepted or rejected half way, is exactly undone by its
\* journal, whatever the journal already held.
LEMMA UndoneExactly ==
  ASSUME NEW n \in Namespaces, NEW j \in Namespaces, NEW k \in Kinds,
         NEW p \in Paths
  PROVE  Undo(Record(n, k, p), Journal(j, n, k, p)) = Undo(n, j)
<1> DEFINE m == Record(n, k, p)
           u == Journal(j, n, k, p)
<1>1. m.files \ u.files = n.files \ j.files
  BY DEF Record, RecordFile, RecordDir, Journal, Namespaces, Kinds
<1>2. m.dirs \ u.dirs = n.dirs \ j.dirs
  BY DEF Record, RecordFile, RecordDir, Journal, Swept, Namespaces, Kinds
<1>. QED
  BY <1>1, <1>2 DEF Undo

\* A reservation that fits keeps the namespace consistent.
LEMMA RecordConsistent ==
  ASSUME NEW n \in Namespaces, NEW k \in Kinds, NEW p \in Paths,
         Consistent(n), Fits(n, k, p)
  PROVE  Consistent(Record(n, k, p))
<1>1. CASE k = "file"
  <2>1. Record(n, k, p) =
          [files |-> n.files \cup {p}, dirs |-> n.dirs \cup Above[p]]
    <3>1. Swept(n, p) = Above[p]
      BY <1>1, PathAssumption DEF Swept, Fits, FileFits, UnderFile
    <3>. QED
      BY <1>1, <3>1 DEF Record, RecordFile, Fits, FileFits
  <2>2. Above[p] \cap (n.files \cup {p}) = {}
    BY <1>1, PathAssumption DEF Fits, FileFits, UnderFile
  <2>. QED
    BY <1>1, <2>1, <2>2, PathAssumption
       DEF Consistent, Fits, FileFits, Namespaces
<1>2. CASE k = "dir"
  <2>1. Record(n, k, p) =
          [files |-> n.files, dirs |-> n.dirs \cup Above[p] \cup {p}]
    <3>1. Swept(n, p) = Above[p]
      BY <1>2, PathAssumption DEF Swept, Fits, DirFits, UnderFile
    <3>. QED
      BY <1>2, <3>1 DEF Record, RecordDir, Fits, DirFits, Namespaces
  <2>2. Above[p] \cap n.files = {}
    BY <1>2 DEF Fits, DirFits, UnderFile
  <2>. QED
    BY <1>2, <2>1, <2>2, PathAssumption
       DEF Consistent, Fits, DirFits, Namespaces
<1>. QED
  BY <1>1, <1>2 DEF Kinds

-----------------------------------------------------------------------------
(* Type correctness.                                                       *)

\* What a writer can be asked to write: a single add or a recorded source.
Sources == [path : Paths, kind : Kinds, ver : Nat, size : Sizes]

\* The paths of the walk are paths, and there is a first one.
LEMMA TreeIsPaths ==
  /\ TreePaths \subseteq Paths
  /\ Len(WalkOrder) \in Nat \ {0}
  /\ \A i \in 1..Len(WalkOrder) : WalkOrder[i] \in TreePaths
<1>1. WalkOrder \in Seq(Paths) /\ WalkOrder # << >>
  BY WalkAssumption
<1>2. Len(WalkOrder) \in Nat \ {0} /\ DOMAIN WalkOrder = 1..Len(WalkOrder)
  BY <1>1
<1>3. \A i \in 1..Len(WalkOrder) : WalkOrder[i] \in Paths
  BY <1>1
<1>. QED
  BY <1>2, <1>3 DEF TreePaths, Range

\* Recorded sources are sources.
LEMMA RecordedSources == Recorded \subseteq Sources
  BY TreeIsPaths DEF Recorded, Sources

\* The steps of a writer, field by field.
LEMMA WriterFields ==
  ASSUME NEW wr \in Writers, NEW e \in Entries
  PROVE  /\ Put(wr, e) \in Writers
         /\ Put(wr, e).out = Append(wr.out, e)
         /\ Put(wr, e).count = wr.count /\ Put(wr, e).poisoned = wr.poisoned
         /\ Put(wr, e).raw = wr.raw /\ Put(wr, e).failed = wr.failed
         /\ Put(wr, e).sealed = wr.sealed
  BY SMTT(30) DEF Put, Writers

\* Poisoning a writer writes nothing.
LEMMA PoisonFields ==
  ASSUME NEW wr \in Writers
  PROVE  /\ Poison(wr) \in Writers
         /\ Poison(wr).out = wr.out /\ Poison(wr).count = wr.count
         /\ Poison(wr).poisoned
         /\ Poison(wr).raw = wr.raw /\ Poison(wr).failed = wr.failed
         /\ Poison(wr).sealed = wr.sealed
  BY DEF Poison, Writers

\* Counting an entry writes nothing.
LEMMA CountFields ==
  ASSUME NEW wr \in Writers
  PROVE  /\ Count(wr) \in Writers
         /\ Count(wr).out = wr.out /\ Count(wr).count = wr.count + 1
         /\ Count(wr).poisoned = wr.poisoned /\ Count(wr).raw = wr.raw
         /\ Count(wr).failed = wr.failed /\ Count(wr).sealed = wr.sealed
  BY DEF Count, Writers

\* Taking the raw writer leaves what it wrote.
LEMMA TakeFields ==
  ASSUME NEW wr \in Writers
  PROVE  /\ Take(wr) \in Writers
         /\ Take(wr).out = wr.out /\ Take(wr).count = wr.count
         /\ Take(wr).poisoned = wr.poisoned /\ Take(wr).raw = "taken"
         /\ Take(wr).failed = wr.failed /\ Take(wr).sealed = wr.sealed
  BY DEF Take, Writers

\* Sealing an archive leaves what was written.
LEMMA SealFields ==
  ASSUME NEW wr \in Writers
  PROVE  /\ Seal(wr) \in Writers
         /\ Seal(wr).out = wr.out /\ Seal(wr).count = wr.count
         /\ Seal(wr).poisoned = wr.poisoned /\ Seal(wr).raw = wr.raw
         /\ Seal(wr).failed = wr.failed /\ Seal(wr).sealed
  BY DEF Seal, Writers

\* A close that failed leaves what was written.
LEMMA GiveUpFields ==
  ASSUME NEW wr \in Writers
  PROVE  /\ GiveUp(wr) \in Writers
         /\ GiveUp(wr).out = wr.out /\ GiveUp(wr).count = wr.count
         /\ GiveUp(wr).poisoned = wr.poisoned /\ GiveUp(wr).raw = wr.raw
         /\ GiveUp(wr).failed /\ GiveUp(wr).sealed = wr.sealed
  BY DEF GiveUp, Writers

\* A successful write adds one whole entry and counts it.
LEMMA WroteFields ==
  ASSUME NEW wr \in Writers, NEW r \in Sources
  PROVE  /\ Entry(r, TRUE) \in Entries
         /\ Wrote(wr, r) \in Writers
         /\ Wrote(wr, r).out = Append(wr.out, Entry(r, TRUE))
         /\ Wrote(wr, r).count = wr.count + 1
         /\ Wrote(wr, r).poisoned = wr.poisoned /\ Wrote(wr, r).raw = wr.raw
         /\ Wrote(wr, r).failed = wr.failed /\ Wrote(wr, r).sealed = wr.sealed
<1>1. Entry(r, TRUE) \in Entries
  BY DEF Entry, Entries, Sources
<1>. QED
  <2> DEFINE x == Put(wr, Entry(r, TRUE))
  <2>1. /\ x \in Writers /\ x.out = Append(wr.out, Entry(r, TRUE))
        /\ x.count = wr.count /\ x.poisoned = wr.poisoned
        /\ x.raw = wr.raw /\ x.failed = wr.failed /\ x.sealed = wr.sealed
    BY <1>1, WriterFields
  <2>2. Wrote(wr, r) = Count(x)
    BY DEF Wrote
  <2> HIDE DEF x
  <2>. QED
    BY <1>1, <2>1, <2>2, CountFields, ZenonT(30)

\* A failed write adds at most one entry, counts nothing and, unless it
\* was refused before it began, poisons a writer that was usable.
LEMMA FailureFields ==
  ASSUME NEW wr \in Writers, NEW r \in Sources, NEW x \in Failures(wr, r)
  PROVE  /\ x \in Writers
         /\ x.count = wr.count
         /\ x.raw = wr.raw /\ x.failed = wr.failed /\ x.sealed = wr.sealed
         /\ \/ x = wr
            \/ ~wr.poisoned /\ x.poisoned /\ x.out = wr.out
            \/ /\ ~wr.poisoned /\ x.poisoned
               /\ \E b \in BOOLEAN : x.out = Append(wr.out, Entry(r, b))
<1>1. \A b \in BOOLEAN : Entry(r, b) \in Entries
  BY DEF Entry, Entries, Sources
<1>2. CASE x = wr
  BY <1>2
<1>3. CASE x = Poison(wr) /\ ~wr.poisoned
  BY <1>3, PoisonFields
<1>4. ASSUME NEW b \in BOOLEAN, x = Poison(Put(wr, Entry(r, b))), ~wr.poisoned
      PROVE  /\ x \in Writers /\ x.poisoned
             /\ x.count = wr.count /\ x.raw = wr.raw
             /\ x.failed = wr.failed /\ x.sealed = wr.sealed
             /\ x.out = Append(wr.out, Entry(r, b))
  BY <1>1, <1>4, WriterFields, PoisonFields
<1>5. \/ x = wr
      \/ x = Poison(wr) /\ ~wr.poisoned
      \/ ~wr.poisoned /\ \E b \in BOOLEAN : x = Poison(Put(wr, Entry(r, b)))
  BY DEF Failures, DirFailures, Broken
<1>. QED
  BY <1>2, <1>3, <1>4, <1>5

\* Finalizing writes no entry; it is Ok when it seals, or was done before.
LEMMA FinalizedFields ==
  ASSUME NEW wr \in Writers, NEW f \in Finalized(wr)
  PROVE  /\ f.w \in Writers /\ f.ok \in BOOLEAN
         /\ f.w.out = wr.out /\ f.w.count = wr.count
         /\ wr.poisoned => f.w.poisoned
         /\ f.w.poisoned => wr.poisoned
         /\ wr.sealed => f.w.sealed
         /\ \/ f.w = wr /\ (f.ok => wr.raw = "taken" /\ ~wr.failed)
            \/ f.w.raw = "taken" /\ f.w.sealed
            \/ ~f.ok /\ f.w.raw = "taken" /\ f.w.failed
<1>1. CASE f = [w |-> wr, ok |-> FALSE]
  BY <1>1
<1>2. CASE wr.raw = "taken" /\ ~wr.failed /\ f = [w |-> wr, ok |-> TRUE]
  BY <1>2
<1>3. CASE f = [w |-> Seal(Take(wr)), ok |-> TRUE]
  <2>1. f.w = Seal(Take(wr)) /\ f.ok
    BY <1>3
  <2>. QED
    BY <2>1, TakeFields, SealFields
<1>4. CASE f = [w |-> GiveUp(Take(wr)), ok |-> FALSE]
  <2>1. f.w = GiveUp(Take(wr)) /\ ~f.ok /\ f.ok \in BOOLEAN
    BY <1>4
  <2>. QED
    BY <2>1, TakeFields, GiveUpFields
<1>. QED
  BY <1>1, <1>2, <1>3, <1>4 DEF Finalized

\* What a single add asks the writer for is a source.
LEMMA PlainSource ==
  ASSUME NEW k \in Kinds, NEW p \in Paths
  PROVE  Plain(k, p) \in Sources
  BY DEF Plain, Sources, Sizes

\* A single add leaves everything typed.
LEMMA StagedAddType ==
  ASSUME TypeOK, NEW k \in Kinds, NEW p \in Paths, StagedAdd(k, p)
  PROVE  w' \in Writers /\ ns' \in Namespaces /\ call' \in Calls
<1> DEFINE m == Record(ns, k, p)
           u == Undo(m, Journal(NoPaths, ns, k, p))
<1>1. ns \in Namespaces /\ w \in Writers
  BY DEF TypeOK
<1>2. NoPaths \in Namespaces
  BY DEF NoPaths, Namespaces
<1>3. m \in Namespaces /\ u \in Namespaces
  BY <1>1, <1>2, RecordType, JournalType, UndoType
<1>4. ns' = m \/ ns' = u
  BY DEF StagedAdd
<1>5. \/ w' = w
      \/ w' = Wrote(w, Plain(k, p))
      \/ w' \in Failures(w, Plain(k, p))
  BY DEF StagedAdd
<1>6. w' \in Writers
  BY <1>1, <1>5, PlainSource, WroteFields, FailureFields
<1>7. \E b \in BOOLEAN : call' = [op |-> k, path |-> p, ok |-> b]
  BY DEF StagedAdd, Answer
<1>8. call' \in Calls
  BY <1>7 DEF Calls, Kinds
<1>. QED
  BY <1>3, <1>4, <1>6, <1>8

\* A new handle is typed.
LEMMA TypeInit == Init => TypeOK
<1> SUFFICES ASSUME Init PROVE TypeOK
  OBVIOUS
<1>1. w \in Writers
  BY DEF Init, Writers
<1>2. tree \in [TreePaths -> Objects] /\ opened \in Objects
  BY DEF Init, Objects, Nothing, Sizes
<1>3. call \in Calls
  BY DEF Init, Calls
<1>4. NoPaths \in Namespaces
  BY DEF NoPaths, Namespaces
<1>5. ns \in Namespaces /\ journal \in Namespaces /\ saved \in Namespaces
  BY <1>4 DEF Init
<1>6. /\ plan \in Seq(Recorded) /\ at \in Nat \ {0}
      /\ walked \in 0..Len(WalkOrder)
      /\ base \in Nat /\ checked \in Nat /\ changes \in Nat
  BY TreeIsPaths DEF Init
<1>7. /\ backend \in {"zip", "libarchive"}
      /\ handle = "open" /\ phase = "idle" /\ torn = FALSE
  BY DEF Init
<1>. QED
  BY <1>1, <1>2, <1>3, <1>5, <1>6, <1>7 DEF TypeOK, Writing, Waiting

\* What a walk records is a source of the tree, and nothing else changes.
LEMMA ObserveType ==
  ASSUME TypeOK, NEW p \in TreePaths, Observe(p)
  PROVE  ns' \in Namespaces /\ journal' \in Namespaces /\ plan' \in Seq(Recorded)
<1>1. p \in Paths /\ tree[p] \in Objects /\ tree[p].kind \in Kinds
  BY TreeIsPaths DEF TypeOK, Observe
<1>2. Seen(p) \in Recorded
  BY <1>1 DEF Seen, Recorded, Objects, Sizes
<1>. QED
  BY <1>1, <1>2, RecordType, JournalType DEF Observe, TypeOK

\* The source that is being written is one of the plan.
LEMMA PlannedSource ==
  ASSUME TypeOK, at <= Len(plan) \/ phase \in Writing
  PROVE  /\ at \in DOMAIN plan
         /\ plan[at] \in Recorded /\ plan[at] \in Sources
         /\ plan[at].path \in TreePaths
<1>1. plan \in Seq(Recorded) /\ at \in DOMAIN plan
  BY DEF TypeOK
<1>2. plan[at] \in Recorded
  BY <1>1
<1>. QED
  BY <1>1, <1>2, RecordedSources DEF Recorded

\* What stands at the path of the entry, what an open reaches there and what
\* the open file has become are objects.
LEMMA SourceIsObject ==
  ASSUME TypeOK, phase \in Writing
  PROVE  /\ Source \in Objects
         /\ Reached \subseteq Objects
         /\ AsOpenNow \subseteq Objects /\ Readable \subseteq Objects
<1>1. Source \in Objects
  BY PlannedSource DEF Source, TypeOK
<1>2. \A v \in Nat : Targets(v) \subseteq Objects
  BY DEF Targets, Objects, Sizes
<1>3. Source.ver \in Nat
  BY <1>1 DEF Objects
<1>4. Reached \subseteq Objects
  BY <1>1, <1>2, <1>3 DEF Reached
<1>5. AsOpenNow \subseteq Objects
  BY <1>1 DEF AsOpenNow, TypeOK
<1>. QED
  BY <1>1, <1>4, <1>5 DEF Readable

\* What a copy may write is a source.
LEMMA CopiedSource ==
  ASSUME TypeOK, phase = "copy", NEW o \in Readable
  PROVE  [plan[at] EXCEPT !.ver = o.ver, !.size = o.size] \in Sources
<1> DEFINE q == [plan[at] EXCEPT !.ver = o.ver]
<1>0. phase \in Writing
  BY DEF Writing
<1>1. plan[at] \in Recorded /\ plan[at].path \in TreePaths
  BY <1>0, PlannedSource
<1>2. o \in Objects
  BY <1>0, SourceIsObject
<1>3. q \in Recorded
  BY <1>1, <1>2 DEF Recorded, Objects
<1>4. [q EXCEPT !.size = o.size] \in Recorded
  <2> HIDE DEF q
  <2>. QED
    BY <1>2, <1>3 DEF Recorded, Objects
<1>. QED
  BY <1>4, RecordedSources

\* A call that returns leaves everything typed.
LEMMA ReturnType ==
  ASSUME TypeOK, NEW ok \in BOOLEAN, Return(ok)
  PROVE  /\ phase' = "idle" /\ call' \in Calls /\ journal' \in Namespaces
         /\ walked' \in 0..Len(WalkOrder) /\ plan' \in Seq(Recorded)
         /\ at' \in Nat \ {0} /\ opened' \in Objects /\ saved' \in Namespaces
         /\ base' \in Nat /\ checked' \in Nat
<1>1. WalkOrder[1] \in Paths
  BY TreeIsPaths
<1>2. call' \in Calls
  BY <1>1 DEF Return, Calls
<1>3. NoPaths \in Namespaces /\ Nothing \in Objects
  BY DEF NoPaths, Namespaces, Nothing, Objects, Sizes
<1>. QED
  BY <1>2, <1>3, TreeIsPaths DEF Return

\* Every step keeps the types.
LEMMA TypeStep == TypeOK /\ [Next]_vars => TypeOK'
<1> SUFFICES ASSUME TypeOK, [Next]_vars PROVE TypeOK'
  OBVIOUS
<1> USE DEF TypeOK, walkVars, treeVars, Writing, Waiting
<1>1. ASSUME NEW p \in Paths, AddFile(p) PROVE TypeOK'
  <2>1. "file" \in Kinds /\ StagedAdd("file", p)
    BY <1>1 DEF AddFile, Kinds
  <2>. QED
    BY <1>1, <2>1, StagedAddType DEF AddFile
<1>2. ASSUME NEW p \in Paths, AddDirectory(p) PROVE TypeOK'
  <2>1. CASE Answer("dir", p, TRUE) /\ UNCHANGED <<w, ns>>
    <3>1. call' \in Calls
      BY <2>1 DEF Answer, Calls
    <3>. QED
      BY <1>2, <2>1, <3>1 DEF AddDirectory
  <2>2. CASE StagedAdd("dir", p)
    <3>1. "dir" \in Kinds
      BY DEF Kinds
    <3>. QED
      BY <1>2, <2>2, <3>1, StagedAddType DEF AddDirectory
  <2>. QED
    BY <1>2, <2>1, <2>2 DEF AddDirectory
<1>3. CASE StartTree
  <2>1. Len(w.out) \in Nat
    BY DEF Writers
  <2>. QED
    BY <1>3, <2>1 DEF StartTree
<1>4. CASE WalkStep
  <2> DEFINE p == WalkOrder[walked + 1]
  <2>1. p \in TreePaths /\ walked' \in 0..Len(WalkOrder)
    BY <1>4, TreeIsPaths DEF WalkStep
  <2>2. CASE Observe(p)
    BY <1>4, <2>1, <2>2, ObserveType DEF WalkStep
  <2>3. CASE UNCHANGED <<ns, journal, plan>>
    BY <1>4, <2>1, <2>3 DEF WalkStep
  <2>. QED
    BY <1>4, <2>2, <2>3 DEF WalkStep
<1>5. CASE WalkFails
  <2>1. ns' \in Namespaces
    <3>1. CASE ns' = Undo(ns, journal)
      BY <3>1, UndoType
    <3>2. ASSUME walked < Len(WalkOrder), NEW k \in Kinds,
                 ns' = Undo(Record(ns, k, WalkOrder[walked + 1]),
                            Journal(journal, ns, k, WalkOrder[walked + 1]))
          PROVE  ns' \in Namespaces
      <4>1. WalkOrder[walked + 1] \in Paths
        BY <3>2, TreeIsPaths
      <4>. QED
        BY <3>2, <4>1, RecordType, JournalType, UndoType
    <3>. QED
      BY <1>5, <3>1, <3>2 DEF WalkFails
  <2>. QED
    BY <1>5, <2>1, ReturnType DEF WalkFails
<1>6. CASE WalkEnds
  BY <1>6 DEF WalkEnds
<1>7. CASE VerifyDir
  <2>1. w' \in Writers
    BY <1>7, PlannedSource, WroteFields DEF VerifyDir
  <2>. QED
    BY <1>7, <2>1 DEF VerifyDir
<1>8. CASE VerifyFile
  BY <1>8, PlannedSource DEF VerifyFile
<1>9. CASE LookAtSource \/ CopyWaits \/ OtherEnd
  BY <1>9 DEF LookAtSource, CopyWaits, OtherEnd
<1>20. CASE OpenSource
  <2>1. opened' \in Objects
    BY <1>20, SourceIsObject DEF OpenSource
  <2>. QED
    BY <1>20, <2>1 DEF OpenSource
<1>21. CASE RecheckSource
  <2>1. opened' \in Objects
    BY <1>21, SourceIsObject DEF RecheckSource
  <2>. QED
    BY <1>21, <2>1 DEF RecheckSource
<1>10. CASE CopySource
  <2>1. PICK o \in Readable : Copied(o)
    BY <1>10 DEF CopySource
  <2> DEFINE r == [plan[at] EXCEPT !.ver = o.ver, !.size = o.size]
  <2>2. r \in Sources
    BY <1>10, <2>1, CopiedSource DEF CopySource
  <2>3. w' = Wrote(w, r)
    BY <2>1 DEF Copied
  <2>4. w' \in Writers
    <3> HIDE DEF r
    <3>. QED
      BY <2>2, <2>3, WroteFields
  <2>. QED
    BY <2>1, <2>4 DEF Copied
<1>11. CASE TreeFails
  <2>1. ns' \in Namespaces
    BY <1>11, UndoType DEF TreeFails
  <2>2. w' \in Writers
    BY <1>11, PlannedSource, FailureFields DEF TreeFails
  <2>3. torn' \in BOOLEAN
    BY <1>11 DEF TreeFails
  <2>. QED
    BY <1>11, <2>1, <2>2, <2>3, ReturnType DEF TreeFails
<1>12. CASE TreeEnds
  BY <1>12, ReturnType DEF TreeEnds
<1>13. ASSUME NEW op \in {"finish", "drop_typed"},
              \E f \in FacadeFinalized(w) : w' = f.w /\ Answer(op, << >>, f.ok)
       PROVE  w' \in Writers /\ call' \in Calls
  <2>1. PICK f \in Finalized(w) : w' = f.w /\ Answer(op, << >>, f.ok)
    BY <1>13 DEF FacadeFinalized, WritePoisoned
  <2>2. f.w \in Writers /\ f.ok \in BOOLEAN
    BY <2>1, FinalizedFields
  <2>3. call' \in Calls
    BY <1>13, <2>1, <2>2 DEF Answer, Calls
  <2>. QED
    BY <2>1, <2>2, <2>3
<1>14. CASE Finish
  BY <1>13, <1>14 DEF Finish
<1>15. CASE DropTyped
  BY <1>13, <1>15 DEF DropTyped
<1>16. CASE DropArchive
  <2>1. w' \in Writers
    BY <1>16, FinalizedFields DEF DropArchive, FacadeFinalized, WritePoisoned
  <2>. QED
    BY <1>16, <2>1 DEF DropArchive
<1>17. CASE DropWriter
  <2>1. w' \in Writers
    BY <1>17, FinalizedFields DEF DropWriter
  <2>. QED
    BY <1>17, <2>1 DEF DropWriter
<1>18. ASSUME NEW p \in TreePaths, Change(p) PROVE TypeOK'
  <2>1. Nothing \in Objects
    BY DEF Nothing, Objects, Sizes
  <2>2. Targets(changes')
          \cup {[kind |-> k, ver |-> changes', size |-> 0] : k \in {"none", "link"}}
          \subseteq Objects
    BY <1>18 DEF Change, Targets, Objects, Sizes
  <2>3. tree' \in [TreePaths -> Objects]
    BY <1>18, <2>1, <2>2 DEF Change
  <2>. QED
    BY <1>18, <2>3 DEF Change
<1>19. CASE UNCHANGED vars
  BY <1>19 DEF vars
<1>. QED
  BY <1>1, <1>2, <1>3, <1>4, <1>5, <1>6, <1>7, <1>8, <1>9, <1>10, <1>11,
     <1>12, <1>14, <1>15, <1>16, <1>17, <1>18, <1>19, <1>20, <1>21
     DEF Next, Library, Caller

\* A Write handle's state stays typed, for any tree and any bounds.
THEOREM TypeCorrect == Spec => []TypeOK
  BY TypeInit, TypeStep, PTL DEF Spec

-----------------------------------------------------------------------------
(* The namespace over a whole handle.                                      *)

\* Outside a recursive add there is nothing to undo; inside one the journal
\* leads back to the namespace the call started from.
NamespaceInv ==
  /\ ns \in Namespaces /\ journal \in Namespaces /\ saved \in Namespaces
  /\ Consistent(ns)
  /\ phase = "idle" => journal = NoPaths
  /\ phase # "idle" => Undo(ns, journal) = saved /\ Consistent(saved)

\* A new handle has claimed nothing.
LEMMA NamespaceInit == Init => NamespaceInv
  BY DEF Init, NamespaceInv, Namespaces, NoPaths, Consistent

\* A single add claims its path when it succeeds and nothing when it fails.
LEMMA StagedAddStep ==
  ASSUME NamespaceInv, NEW k \in Kinds, NEW p \in Paths, StagedAdd(k, p)
  PROVE  /\ ns' \in Namespaces /\ Consistent(ns')
         /\ ns' # ns => call' = [op |-> k, path |-> p, ok |-> TRUE]
<1> DEFINE m == Record(ns, k, p)
           u == Journal(NoPaths, ns, k, p)
<1>1. NoPaths \in Namespaces /\ ns \in Namespaces /\ Consistent(ns)
  BY DEF NamespaceInv, NoPaths, Namespaces
<1>2. Undo(m, u) = ns
  BY <1>1, UndoneExactly, UndoNothing
<1>3. m \in Namespaces /\ (Fits(ns, k, p) => Consistent(m))
  BY <1>1, RecordType, RecordConsistent
<1>4. CASE ns' = Undo(m, u)
  BY <1>1, <1>2, <1>4
<1>5. CASE Fits(ns, k, p) /\ ns' = m /\ Answer(k, p, TRUE)
  BY <1>3, <1>5 DEF Answer
<1>. QED
  BY <1>4, <1>5 DEF StagedAdd

\* A walk that goes on has journalled what it has claimed.
LEMMA ObserveStep ==
  ASSUME NamespaceInv, NEW p \in Paths, Observe(p)
  PROVE  /\ ns' \in Namespaces /\ journal' \in Namespaces
         /\ Consistent(ns') /\ Undo(ns', journal') = Undo(ns, journal)
  BY RecordType, JournalType, RecordConsistent, UndoneExactly
     DEF Observe, NamespaceInv

\* The paths of the walk are paths.
LEMMA WalkPath ==
  ASSUME NEW i \in 1..Len(WalkOrder)
  PROVE  WalkOrder[i] \in Paths
  BY WalkAssumption

\* A walk that fails takes back all it has claimed.
LEMMA WalkUndone ==
  ASSUME NamespaceInv, walked \in Nat, WalkFails
  PROVE  ns' = saved
<1>1. Undo(ns, journal) = saved
  BY DEF NamespaceInv, WalkFails
<1>2. CASE ns' = Undo(ns, journal)
  BY <1>1, <1>2
<1>3. ASSUME walked < Len(WalkOrder), NEW k \in Kinds,
             ns' = Undo(Record(ns, k, WalkOrder[walked + 1]),
                        Journal(journal, ns, k, WalkOrder[walked + 1]))
      PROVE  ns' = saved
  <2>1. WalkOrder[walked + 1] \in Paths
    BY <1>3, WalkAssumption, WalkPath
  <2>. QED
    BY <1>1, <1>3, <2>1, UndoneExactly DEF NamespaceInv
<1>. QED
  BY <1>2, <1>3 DEF WalkFails

\* Every step keeps the invariant.
LEMMA NamespaceStep ==
  NamespaceInv /\ walked \in Nat /\ [Next]_vars => NamespaceInv'
<1> SUFFICES ASSUME NamespaceInv, walked \in Nat, [Next]_vars
             PROVE  NamespaceInv'
  OBVIOUS
<1> USE DEF NamespaceInv, walkVars, treeVars
<1>0. NoPaths \in Namespaces /\ Consistent(NoPaths)
  BY DEF NoPaths, Namespaces, Consistent
<1>1. ASSUME NEW p \in Paths, AddFile(p) PROVE NamespaceInv'
  <2>1. "file" \in Kinds /\ StagedAdd("file", p)
    BY <1>1 DEF AddFile, Kinds
  <2>. QED
    BY <1>1, <2>1, StagedAddStep DEF AddFile, Ready
<1>2. ASSUME NEW p \in Paths, AddDirectory(p) PROVE NamespaceInv'
  <2>1. CASE p \in ns.dirs
    BY <1>2, <2>1 DEF AddDirectory
  <2>2. CASE p \notin ns.dirs
    <3>1. "dir" \in Kinds /\ StagedAdd("dir", p)
      BY <1>2, <2>2 DEF AddDirectory, Kinds
    <3>. QED
      BY <1>2, <3>1, StagedAddStep DEF AddDirectory, Ready
  <2>. QED
    BY <2>1, <2>2
<1>3. CASE StartTree
  BY <1>3, UndoNothing DEF StartTree, Ready
<1>4. CASE WalkStep
  <2> DEFINE p == WalkOrder[walked + 1]
  <2>1. CASE Observe(p)
    <3>1. p \in Paths
      BY <1>4, WalkAssumption, WalkPath DEF WalkStep
    <3>. QED
      BY <1>4, <2>1, <3>1, ObserveStep DEF WalkStep
  <2>2. CASE UNCHANGED <<ns, journal>>
    BY <1>4, <2>2 DEF WalkStep
  <2>. QED
    BY <1>4, <2>1, <2>2 DEF WalkStep
<1>5. CASE WalkFails
  <2>1. ns' = saved /\ Consistent(saved)
    BY <1>5, WalkUndone DEF WalkFails
  <2>. QED
    BY <1>0, <1>5, <2>1 DEF WalkFails, Return
<1>6. CASE WalkEnds
  BY <1>6 DEF WalkEnds
<1>7. CASE VerifyDir
  BY <1>7 DEF VerifyDir
<1>8. CASE VerifyFile
  BY <1>8 DEF VerifyFile
<1>9. CASE LookAtSource \/ OpenSource \/ RecheckSource \/ CopyWaits \/ OtherEnd
  BY <1>9 DEF LookAtSource, OpenSource, RecheckSource, CopyWaits, OtherEnd
<1>10. CASE CopySource
  BY <1>10 DEF CopySource, Copied
<1>11. CASE TreeFails
  <2>1. ns' = saved /\ Consistent(saved)
    BY <1>11 DEF TreeFails
  <2>. QED
    BY <1>0, <1>11, <2>1 DEF TreeFails, Return
<1>12. CASE TreeEnds
  BY <1>0, <1>12 DEF TreeEnds, Return
<1>13. CASE Finish
  BY <1>13 DEF Finish
<1>14. CASE DropTyped
  BY <1>14 DEF DropTyped
<1>15. CASE DropArchive
  BY <1>15 DEF DropArchive
<1>16. CASE DropWriter
  BY <1>16 DEF DropWriter
<1>17. ASSUME NEW p \in TreePaths, Change(p) PROVE NamespaceInv'
  BY <1>17 DEF Change
<1>18. CASE UNCHANGED vars
  BY <1>18 DEF vars
<1>. QED
  BY <1>1, <1>2, <1>3, <1>4, <1>5, <1>6, <1>7, <1>8, <1>9, <1>10, <1>11,
     <1>12, <1>13, <1>14, <1>15, <1>16, <1>17, <1>18
     DEF Next, Library, Caller

\* The namespace stays consistent whatever is added, fails or is undone.
THEOREM NamespaceSafe == Spec => []NamespaceConsistent
<1>1. TypeOK => walked \in Nat
  BY TreeIsPaths DEF TypeOK
<1>2. TypeOK /\ NamespaceInv => NamespaceConsistent
  BY DEF NamespaceInv, NamespaceConsistent
<1>. QED
  BY <1>1, <1>2, TypeCorrect, NamespaceInit, NamespaceStep, PTL DEF Spec

\* A step that changes what the answered calls have claimed answers Ok.
LEMMA ClaimsStep ==
  NamespaceInv /\ walked \in Nat /\ [Next]_vars => [ClaimsByOk]_vars
<1> SUFFICES ASSUME NamespaceInv, walked \in Nat, Next, Settled' # Settled
             PROVE  phase' = "idle" /\ call'.ok /\ call'.op \in {"file", "dir", "tree"}
  BY DEF ClaimsByOk
<1> USE DEF Settled, walkVars, treeVars
<1>1. ASSUME NEW k \in Kinds, NEW p \in Paths, StagedAdd(k, p), phase = "idle",
             UNCHANGED phase
      PROVE  phase' = "idle" /\ call'.ok /\ call'.op \in {"file", "dir", "tree"}
  BY <1>1, StagedAddStep DEF Kinds
<1>2. ASSUME NEW p \in Paths, AddFile(p) \/ AddDirectory(p)
      PROVE  phase' = "idle" /\ call'.ok /\ call'.op \in {"file", "dir", "tree"}
  <2>1. phase = "idle" /\ phase' = phase /\ ns' # ns
    BY <1>2 DEF AddFile, AddDirectory, Ready
  <2>2. StagedAdd("file", p) \/ StagedAdd("dir", p)
    BY <1>2, <2>1 DEF AddFile, AddDirectory
  <2>. QED
    BY <1>1, <2>1, <2>2 DEF Kinds
<1>3. ~StartTree
  BY DEF StartTree, Ready
<1>4. ~WalkStep /\ ~WalkEnds /\ ~VerifyDir /\ ~VerifyFile
  BY DEF WalkStep, WalkEnds, VerifyDir, VerifyFile
<1>5. /\ ~LookAtSource /\ ~OpenSource /\ ~RecheckSource
      /\ ~CopyWaits /\ ~CopySource /\ ~OtherEnd
  BY DEF LookAtSource, OpenSource, RecheckSource, CopyWaits, CopySource, Copied,
         OtherEnd
<1>6. ~WalkFails
  BY WalkUndone DEF WalkFails, Return
<1>7. ~TreeFails
  BY DEF TreeFails, Return, NamespaceInv
<1>8. CASE TreeEnds
  BY <1>8 DEF TreeEnds, Return
<1>9. ~Finish /\ ~DropTyped /\ ~DropArchive /\ ~DropWriter
  BY DEF Finish, DropTyped, DropArchive, DropWriter
<1>10. \A p \in TreePaths : ~Change(p)
  BY DEF Change
<1>. QED
  BY <1>2, <1>3, <1>4, <1>5, <1>6, <1>7, <1>8, <1>9, <1>10
     DEF Next, Library, Caller

\* A failed add leaves no claim behind and takes none away, whatever the
\* tree, the walk and the other adds.
THEOREM UndoSafe == Spec => FailedAddUndone
<1>1. TypeOK => walked \in Nat
  BY TreeIsPaths DEF TypeOK
<1>. QED
  BY <1>1, TypeCorrect, NamespaceInit, NamespaceStep, ClaimsStep, PTL
     DEF Spec, FailedAddUndone

-----------------------------------------------------------------------------
(* The writer.                                                             *)

\* A writer that is taken was sealed or has recorded that it failed.
SealInv ==
  /\ w.raw = "taken" /\ ~w.failed => w.sealed
  /\ OkMeansSealed

\* A writer counts the whole entries from the first on; only an entry that
\* failed can follow them, and it is the last one the writer takes.
CountInv ==
  /\ w.count <= Len(w.out) /\ Len(w.out) <= w.count + 1
  /\ \A i \in 1..w.count : w.out[i].whole
  /\ ~w.poisoned => w.count = Len(w.out)

\* What every step makes of the writer.
WriterStep ==
  \/ UNCHANGED w
  \/ \E r \in Sources : ~w.poisoned /\ w' = Wrote(w, r)
  \/ \E r \in Sources : w' \in Failures(w, r)
  \/ \E f \in Finalized(w) : w' = f.w

\* No step does anything else to it, and an Ok of finish is finalize's own.
LEMMA WriterSteps ==
  ASSUME TypeOK, [Next]_vars
  PROVE  /\ WriterStep
         /\ call' # call /\ call'.op \in {"finish", "drop_typed"} =>
              \E f \in Finalized(w) : w' = f.w /\ call'.ok = f.ok
<1> USE DEF walkVars, treeVars
<1> DEFINE Asked == call' # call /\ call'.op \in {"finish", "drop_typed"}
           Final == \E f \in Finalized(w) : w' = f.w /\ call'.ok = f.ok
<1>1. ASSUME NEW k \in Kinds, NEW p \in Paths, StagedAdd(k, p)
      PROVE  WriterStep /\ ~Asked
  <2>1. Plain(k, p) \in Sources
    BY PlainSource
  <2>2. WriterStep
    BY <1>1, <2>1 DEF StagedAdd, WriterStep, CanWrite
  <2>3. call'.op = k
    BY <1>1 DEF StagedAdd, Answer
  <2>. QED
    BY <2>2, <2>3 DEF Kinds
<1>2. ASSUME NEW p \in Paths, AddFile(p) \/ AddDirectory(p)
      PROVE  WriterStep /\ ~Asked
  <2>1. CASE StagedAdd("file", p) \/ StagedAdd("dir", p)
    BY <1>1, <2>1 DEF Kinds
  <2>2. CASE Answer("dir", p, TRUE) /\ UNCHANGED <<w, ns>>
    BY <2>2 DEF Answer, WriterStep
  <2>. QED
    BY <1>2, <2>1, <2>2 DEF AddFile, AddDirectory
<1>3. CASE StartTree \/ WalkStep \/ WalkEnds \/ VerifyFile
  BY <1>3 DEF StartTree, WalkStep, WalkEnds, VerifyFile, WriterStep
<1>12. CASE LookAtSource \/ OpenSource \/ RecheckSource \/ CopyWaits \/ OtherEnd
  BY <1>12 DEF LookAtSource, OpenSource, RecheckSource, CopyWaits, OtherEnd,
               WriterStep
<1>4. CASE WalkFails \/ TreeEnds
  BY <1>4 DEF WalkFails, TreeEnds, Return, WriterStep
<1>5. CASE VerifyDir
  <2>1. plan[at] \in Sources
    BY <1>5, PlannedSource DEF VerifyDir
  <2>. QED
    BY <1>5, <2>1 DEF VerifyDir, WriterStep, CanWrite
<1>6. CASE CopySource
  <2>1. PICK o \in Readable : Copied(o)
    BY <1>6 DEF CopySource
  <2>2. [plan[at] EXCEPT !.ver = o.ver, !.size = o.size] \in Sources
    BY <1>6, <2>1, CopiedSource DEF CopySource
  <2>. QED
    BY <2>1, <2>2 DEF Copied, WriterStep, CanWrite
<1>7. CASE TreeFails
  <2>1. WriterStep
    BY <1>7, PlannedSource DEF TreeFails, WriterStep, Writing
  <2>2. ~Asked
    BY <1>7 DEF TreeFails, Return
  <2>. QED
    BY <2>1, <2>2
<1>8. CASE Finish \/ DropTyped
  <2>1. PICK f \in Finalized(w), op \in {"finish", "drop_typed"} :
          w' = f.w /\ Answer(op, << >>, f.ok)
    BY <1>8 DEF Finish, DropTyped, FacadeFinalized, WritePoisoned
  <2>. QED
    BY <2>1 DEF Answer, WriterStep
<1>9. CASE DropArchive \/ DropWriter
  BY <1>9 DEF DropArchive, DropWriter, FacadeFinalized, WritePoisoned,
     WriterStep
<1>10. CASE \E p \in TreePaths : Change(p)
  BY <1>10 DEF Change, WriterStep
<1>11. CASE UNCHANGED vars
  BY <1>11 DEF vars, WriterStep
<1>. QED
  BY <1>2, <1>3, <1>4, <1>5, <1>6, <1>7, <1>8, <1>9, <1>10, <1>11, <1>12
     DEF Next, Library, Caller

\* Every step keeps what is known of a taken writer.
LEMMA SealStep == TypeOK /\ SealInv /\ [Next]_vars => SealInv'
<1> SUFFICES ASSUME TypeOK, SealInv, [Next]_vars PROVE SealInv'
  OBVIOUS
<1>1. w \in Writers
  BY DEF TypeOK
<1>2. /\ w.sealed => w'.sealed
      /\ w'.raw = "taken" /\ ~w'.failed => w'.sealed
  <2>1. CASE UNCHANGED w
    BY <2>1 DEF SealInv
  <2>2. ASSUME NEW r \in Sources, w' = Wrote(w, r)
        PROVE  /\ w.sealed => w'.sealed
               /\ w'.raw = "taken" /\ ~w'.failed => w'.sealed
    BY <1>1, <2>2, WroteFields DEF SealInv
  <2>3. ASSUME NEW r \in Sources, w' \in Failures(w, r)
        PROVE  /\ w.sealed => w'.sealed
               /\ w'.raw = "taken" /\ ~w'.failed => w'.sealed
    BY <1>1, <2>3, FailureFields DEF SealInv
  <2>4. ASSUME NEW f \in Finalized(w), w' = f.w
        PROVE  /\ w.sealed => w'.sealed
               /\ w'.raw = "taken" /\ ~w'.failed => w'.sealed
    BY <1>1, <2>4, FinalizedFields DEF SealInv
  <2>. QED
    BY <2>1, <2>2, <2>3, <2>4, WriterSteps DEF WriterStep
<1>3. OkMeansSealed'
  <2>1. CASE call' = call
    BY <1>2, <2>1 DEF SealInv, OkMeansSealed
  <2>2. ASSUME call' # call, call'.op \in {"finish", "drop_typed"}, call'.ok
        PROVE  w'.sealed
    <3>1. PICK f \in Finalized(w) : w' = f.w /\ call'.ok = f.ok
      BY <2>2, WriterSteps
    <3>2. f.ok
      BY <2>2, <3>1
    <3>. QED
      BY <1>1, <3>1, <3>2, FinalizedFields DEF SealInv
  <2>. QED
    BY <2>1, <2>2 DEF OkMeansSealed
<1>. QED
  BY <1>2, <1>3 DEF SealInv

\* Ok from finish or from the typed handle's drop means a sealed archive.
THEOREM SealSafe == Spec => []OkMeansSealed
<1>1. Init => SealInv
  BY DEF Init, SealInv, OkMeansSealed
<1>2. SealInv => OkMeansSealed
  BY DEF SealInv
<1>. QED
  BY <1>1, <1>2, TypeCorrect, SealStep, PTL DEF Spec

\* Every step keeps the count honest.
LEMMA CountStep == TypeOK /\ CountInv /\ [Next]_vars => CountInv'
<1> SUFFICES ASSUME TypeOK, CountInv, [Next]_vars PROVE CountInv'
  OBVIOUS
<1>1. w \in Writers /\ w.out \in Seq(Entries) /\ w.count \in Nat
  BY DEF TypeOK, Writers
<1>2. CASE UNCHANGED w
  BY <1>2 DEF CountInv
<1>3. ASSUME NEW r \in Sources, ~w.poisoned, w' = Wrote(w, r) PROVE CountInv'
  <2> DEFINE e == Entry(r, TRUE)
  <2>1. w'.out = Append(w.out, e) /\ e \in Entries /\ w'.count = w.count + 1
    BY <1>1, <1>3, WroteFields
  <2>2. w.count = Len(w.out)
    BY <1>3 DEF CountInv
  <2>3. e.whole
    BY DEF Entry
  <2> HIDE DEF e
  <2>4. /\ Len(w'.out) = Len(w.out) + 1 /\ w'.out[Len(w.out) + 1] = e
        /\ \A i \in 1..Len(w.out) : w'.out[i] = w.out[i]
    BY <1>1, <2>1, AppendProperties
  <2>5. Len(w'.out) = w'.count /\ Len(w.out) \in Nat
    BY <1>1, <2>1, <2>2, <2>4
  <2>6. \A i \in 1..w'.count : w'.out[i].whole
    <3> SUFFICES ASSUME NEW i \in 1..w'.count PROVE w'.out[i].whole
      OBVIOUS
    <3>1. CASE i \in 1..Len(w.out)
      BY <2>2, <2>4, <3>1 DEF CountInv
    <3>2. CASE i = Len(w.out) + 1
      BY <2>3, <2>4, <3>2
    <3>. QED
      BY <2>1, <2>2, <2>5, <3>1, <3>2
  <2>. QED
    BY <2>5, <2>6 DEF CountInv
<1>4. ASSUME NEW r \in Sources, w' \in Failures(w, r) PROVE CountInv'
  <2>1. w'.count = w.count
    BY <1>1, <1>4, FailureFields
  <2>2. CASE w' = w
    BY <2>2 DEF CountInv
  <2>3. CASE w'.poisoned /\ w'.out = w.out
    BY <2>1, <2>3 DEF CountInv
  <2>4. ASSUME ~w.poisoned, w'.poisoned, NEW b \in BOOLEAN,
               w'.out = Append(w.out, Entry(r, b))
        PROVE  CountInv'
    <3>1. w.count = Len(w.out)
      BY <2>4 DEF CountInv
    <3>2. Entry(r, b) \in Entries
      BY DEF Entry, Entries, Sources
    <3>3. /\ Len(w'.out) = Len(w.out) + 1
          /\ \A i \in 1..Len(w.out) : w'.out[i] = w.out[i]
      BY <1>1, <2>4, <3>2
    <3>. QED
      BY <1>1, <2>1, <2>4, <3>1, <3>3 DEF CountInv
  <2>. QED
    BY <1>1, <1>4, <2>2, <2>3, <2>4, FailureFields
<1>5. ASSUME NEW f \in Finalized(w), w' = f.w PROVE CountInv'
  <2>1. /\ w'.out = w.out /\ w'.count = w.count
        /\ w.poisoned => w'.poisoned
    BY <1>1, <1>5, FinalizedFields
  <2>. QED
    BY <2>1 DEF CountInv
<1>. QED
  BY <1>2, <1>3, <1>4, <1>5, WriterSteps DEF WriterStep

\* Only the last entry can be half written, the writer takes no more after
\* it, and entries_written does not count it.
THEOREM CountSafe == Spec => []ProgressHonest
<1>1. Init => CountInv
  BY DEF Init, CountInv
<1>2. ASSUME TypeOK, CountInv PROVE ProgressHonest
  <2> DEFINE Whole == {i \in DOMAIN w.out : w.out[i].whole}
  <2>1. w.out \in Seq(Entries) /\ w.count \in Nat /\ DOMAIN w.out = 1..Len(w.out)
    BY <1>2 DEF TypeOK, Writers
  <2>2. \A i \in DOMAIN w.out : ~w.out[i].whole => i = Len(w.out) /\ w.poisoned
    BY <1>2, <2>1 DEF CountInv
  <2>3. IsFiniteSet(Whole)
    <3>1. IsFiniteSet(1..Len(w.out))
      BY <2>1, FS_Interval
    <3>2. Whole \in SUBSET (1..Len(w.out))
      BY <2>1
    <3>. QED
      BY <3>1, <3>2, FS_Subset
  <2>4. 1..w.count \subseteq Whole
    BY <1>2, <2>1 DEF CountInv
  <2>5. Cardinality(1..w.count) = w.count
    BY <2>1, FS_Interval
  <2>6. w.count <= Cardinality(Whole)
    <3> HIDE DEF Whole
    <3>. QED
      BY <2>3, <2>4, <2>5, FS_Subset
  <2>. QED
    BY <1>2, <2>1, <2>2, <2>6 DEF ProgressHonest, CountInv
<1>. QED
  BY <1>1, <1>2, TypeCorrect, CountStep, PTL DEF Spec

-----------------------------------------------------------------------------
(* The source that is open.                                                *)

\* A file that passed its check stands there still, or nothing does, or what
\* stands there came after the check; and so did a pipe that was opened.
SleepInv ==
  /\ checked <= changes
  /\ phase \in Writing =>
       Source.kind \in {"none", "file"} \/ Source.ver > checked
  /\ phase \in {"recheck", "copy"} \cup Waiting /\ opened.kind = "special" =>
       opened.ver > checked
  /\ phase \in Waiting => opened.kind = "special"

\* What an open reaches is a file, or came after the check.
LEMMA ReachedIsNew ==
  ASSUME TypeOK, SleepInv, phase = "open", NEW o \in Reached
  PROVE  o.kind = "special" => o.ver > checked
<1>1. Source.kind \in {"none", "file"} \/ Source.ver > checked
  BY DEF SleepInv, Writing
<1>2. CASE Source.kind = "link"
  BY <1>1, <1>2 DEF Reached, Targets
<1>3. CASE Source.kind # "link"
  BY <1>1, <1>3 DEF Reached
<1>. QED
  BY <1>2, <1>3

\* A change of the tree leaves what stands at a path, takes it away, or puts
\* something newer there.
LEMMA ChangedSource ==
  ASSUME TypeOK, SleepInv, phase \in Writing, NEW p \in TreePaths, Change(p)
  PROVE  Source' = Source \/ Source'.kind = "none" \/ Source'.ver > checked
<1>1. plan[at].path \in TreePaths /\ checked \in Nat /\ changes \in Nat
  BY PlannedSource DEF TypeOK
<1>2. UNCHANGED <<plan, at>> /\ changes' > checked
  BY <1>1 DEF Change, walkVars, SleepInv
<1>3. Source' = tree'[plan[at].path]
  BY <1>2 DEF Source
<1>4. PICK o \in Targets(changes')
              \cup {[kind |-> k, ver |-> changes', size |-> 0] : k \in {"none", "link"}} :
        tree' = [q \in TreePaths |->
                   IF q = p THEN o
                   ELSE IF p \in Above[q] /\ o.kind # "dir" THEN Nothing
                   ELSE tree[q]]
  BY DEF Change
<1>5. o.ver = changes'
  BY DEF Targets
<1>. QED
  BY <1>1, <1>2, <1>3, <1>4, <1>5 DEF Source, Nothing

\* Every step keeps the invariant.
LEMMA SleepStep == TypeOK /\ SleepInv /\ [Next]_vars => SleepInv'
<1> SUFFICES ASSUME TypeOK, SleepInv, [Next]_vars PROVE SleepInv'
  OBVIOUS
<1> USE DEF walkVars, treeVars
<1>0. checked \in Nat /\ changes \in Nat
  BY DEF TypeOK
<1>1. ASSUME phase' = phase, phase = "idle",
             checked' = checked, changes' = changes
      PROVE  SleepInv'
  BY <1>1 DEF SleepInv, Writing, Waiting
<1>2. ASSUME NEW ok \in BOOLEAN, Return(ok), changes' = changes
      PROVE  SleepInv'
  BY <1>0, <1>2 DEF SleepInv, Return, Writing, Waiting
<1>3. CASE \E p \in Paths : AddFile(p) \/ AddDirectory(p)
  BY <1>1, <1>3 DEF AddFile, AddDirectory, Ready
<1>4. CASE Finish \/ DropTyped
  BY <1>1, <1>4 DEF Finish, DropTyped
<1>5. CASE DropArchive
  BY <1>1, <1>5 DEF DropArchive
<1>6. CASE StartTree
  BY <1>0, <1>6 DEF StartTree, SleepInv, Writing, Waiting
<1>7. CASE WalkStep \/ WalkEnds \/ VerifyDir
  BY <1>0, <1>7 DEF WalkStep, WalkEnds, VerifyDir, SleepInv, Writing, Waiting
<1>8. CASE WalkFails \/ TreeFails \/ TreeEnds
  BY <1>2, <1>8 DEF WalkFails, TreeFails, TreeEnds
<1>9. CASE VerifyFile
  <2>1. Source.kind = "file" /\ UNCHANGED <<plan, at, tree>>
    BY <1>9 DEF VerifyFile, Unchanged, Source
  <2>2. Source'.kind = "file"
    BY <2>1 DEF Source
  <2>. QED
    BY <1>0, <1>9, <2>2 DEF VerifyFile, SleepInv, Writing, Waiting
<1>10. CASE LookAtSource \/ CopyWaits \/ OtherEnd
  <2>1. UNCHANGED <<plan, at, tree, checked, changes, opened>>
    BY <1>10 DEF LookAtSource, CopyWaits, OtherEnd
  <2>2. Source' = Source
    BY <2>1 DEF Source
  <2>. QED
    BY <1>10, <2>1, <2>2
       DEF LookAtSource, CopyWaits, OtherEnd, SleepInv, Writing, Waiting
<1>11. CASE OpenSource
  <2>1. UNCHANGED <<plan, at, tree, checked, changes>>
    BY <1>11 DEF OpenSource
  <2>2. Source' = Source
    BY <2>1 DEF Source
  <2>3. opened'.kind = "special" => opened'.ver > checked
    BY <1>11, ReachedIsNew DEF OpenSource
  <2>. QED
    BY <1>11, <2>1, <2>2, <2>3 DEF OpenSource, SleepInv, Writing, Waiting
<1>12. CASE RecheckSource
  <2>1. UNCHANGED <<plan, at, tree, checked, changes>>
    BY <1>12 DEF RecheckSource
  <2>2. Source' = Source
    BY <2>1 DEF Source
  <2>3. opened'.kind = "special" => opened'.ver > checked
    BY <1>12 DEF RecheckSource, AsOpenNow, SleepInv, Writing
  <2>. QED
    BY <1>12, <2>1, <2>2, <2>3 DEF RecheckSource, SleepInv, Writing, Waiting
<1>13. CASE CopySource
  <2>1. phase' = "verify" /\ UNCHANGED <<checked, changes>>
    BY <1>13 DEF CopySource, Copied
  <2>. QED
    BY <2>1 DEF SleepInv, Writing, Waiting
<1>14. CASE DropWriter
  <2>1. UNCHANGED <<plan, at, tree, checked, changes, opened, phase>>
    BY <1>14 DEF DropWriter
  <2>2. Source' = Source
    BY <2>1 DEF Source
  <2>. QED
    BY <2>1, <2>2 DEF SleepInv
<1>15. ASSUME NEW p \in TreePaths, Change(p) PROVE SleepInv'
  <2>1. changes' = changes + 1 /\ UNCHANGED <<checked, opened, phase>>
    BY <1>15 DEF Change
  <2>2. phase \in Writing =>
          Source'.kind \in {"none", "file"} \/ Source'.ver > checked
    BY <1>15, ChangedSource DEF SleepInv
  <2>. QED
    BY <1>0, <2>1, <2>2 DEF SleepInv
<1>16. CASE UNCHANGED vars
  BY <1>16 DEF vars, SleepInv, Source
<1>. QED
  BY <1>3, <1>4, <1>5, <1>6, <1>7, <1>8, <1>9, <1>10, <1>11, <1>12, <1>13, <1>14,
     <1>15, <1>16
     DEF Next, Library, Caller

\* A recursive add can sleep only on a pipe that someone put in the place of
\* a file after that file was checked: the safety half of TreeAnswered.
THEOREM SleepSafe == Spec => []SleepsOnNewcomer
<1>1. Init => SleepInv
  BY DEF Init, SleepInv, Writing, Waiting
<1>2. SleepInv => SleepsOnNewcomer
  BY DEF SleepInv, SleepsOnNewcomer, Asleep, NewPipe, Waiting
<1>. QED
  BY <1>1, <1>2, TypeCorrect, SleepStep, PTL DEF Spec
=============================================================================
