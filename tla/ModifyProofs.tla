---------------------------- MODULE ModifyProofs ----------------------------
(***************************************************************************)
(* Theorems about the two halves of a modify session: ModifySession, for   *)
(* any number of sessions, outsiders, retained entries and power losses,   *)
(* and ArchiveRewrite, for any set of paths, any archive to start from and *)
(* any bounds.                                                             *)
(***************************************************************************)
EXTENDS ModifySession, ArchiveRewrite, NumberSetsProofs

-----------------------------------------------------------------------------
(* The swap: ModifySession.                                                *)

(* Type correctness.  It needs to know when a descriptor is there.         *)

FileKnown ==
  \A s \in Sessions :
    /\ pc[s] # "idle" => fd[s] \in Files
    /\ bracket[s] = "open" => seen[s] \in Files

TypeInv == TypeOK /\ FileKnown

\* Every session starts with typed, empty state.
LEMMA TypeInit == Init => TypeInv
  BY SessionAssumption
     DEF Init, TypeInv, TypeOK, FileKnown, Files, Writers, Modes, Directories,
         Steps

\* Every step keeps the types.
LEMMA TypeStep == TypeInv /\ [Next]_vars => TypeOK'
<1> SUFFICES ASSUME TypeInv, [Next]_vars PROVE TypeOK'
  OBVIOUS
<1> USE SessionAssumption
    DEF TypeInv, TypeOK, FileKnown, Files, Writers, Modes, Directories, Steps,
        Locking, Validating, Writing, Ended, Goto, Forget, fileVars, dirVars,
        dataVars, envVars, readVars, callVars
<1>1. ASSUME NEW s \in Sessions, OpenLockFile(s) PROVE TypeOK'
  BY <1>1, SMTT(40) DEF OpenLockFile
<1>2. ASSUME NEW s \in Sessions, TryLock(s) PROVE TypeOK'
  <2>1. UNCHANGED <<fileVars, fd, readVars, queued, wants>>
    BY <1>2 DEF TryLock, callVars
  <2>2. holder' \in [Files -> Sessions \cup {None}]
    BY <1>2 DEF TryLock
  <2>3. pc' \in [Sessions -> Steps]
    BY <1>2, SMTT(40) DEF TryLock
  <2>4. result' \in [Sessions -> {"none", "ok", "error"}]
    BY <1>2, ZenonT(60) DEF TryLock, callVars
  <2>. QED
    BY <2>1, <2>2, <2>3, <2>4
<1>3. ASSUME NEW s \in Sessions, GateProbe(s) PROVE TypeOK'
  BY <1>3 DEF GateProbe
<1>4. ASSUME NEW s \in Sessions, Probe(s) PROVE TypeOK'
  BY <1>4 DEF Probe
<1>5. ASSUME NEW s \in Sessions, GateBind(s) PROVE TypeOK'
  BY <1>5 DEF GateBind
<1>6. ASSUME NEW s \in Sessions, ReadBegin(s) PROVE TypeOK'
  BY <1>6, SMTT(30) DEF ReadBegin
<1>7. ASSUME NEW s \in Sessions, ReadOpen(s) PROVE TypeOK'
  BY <1>7 DEF ReadOpen
<1>8. ASSUME NEW s \in Sessions, ReadEnd(s) PROVE TypeOK'
  BY <1>8 DEF ReadEnd
<1>9. ASSUME NEW s \in Sessions, ReadFails(s) PROVE TypeOK'
  BY <1>9 DEF ReadFails
<1>10. ASSUME NEW s \in Sessions, Queue(s) PROVE TypeOK'
  BY <1>10 DEF Queue
<1>11. ASSUME NEW s \in Sessions, ClearOperations(s) PROVE TypeOK'
  BY <1>11 DEF ClearOperations
<1>12. ASSUME NEW s \in Sessions, Discard(s) PROVE TypeOK'
  BY <1>12 DEF Discard
<1>13. ASSUME NEW s \in Sessions, CommitChanges(s) PROVE TypeOK'
  <2>1. UNCHANGED <<fileVars, holder, fd, readVars, queued, wants>>
    BY <1>13 DEF CommitChanges, callVars
  <2>2. pc' \in [Sessions -> Steps]
    BY <1>13, SMTT(40) DEF CommitChanges
  <2>3. result' \in [Sessions -> {"none", "ok", "error"}]
    BY <1>13, ZenonT(60) DEF CommitChanges, callVars
  <2>. QED
    BY <2>1, <2>2, <2>3
<1>14. ASSUME NEW s \in Sessions, GateExtras(s) PROVE TypeOK'
  <2>1. UNCHANGED <<fileVars, holder, fd, readVars, callVars>>
    BY <1>14 DEF GateExtras
  <2>2. \E to \in {"extras", "planned"} : pc' = [pc EXCEPT ![s] = to]
    BY <1>14 DEF GateExtras
  <2>3. pc' \in [Sessions -> Steps]
    BY <2>2
  <2>. QED
    BY <2>1, <2>3
<1>15. ASSUME NEW s \in Sessions, LoadSourceExtras(s) PROVE TypeOK'
  BY <1>15 DEF LoadSourceExtras
<1>16. ASSUME NEW s \in Sessions, TryCommitReturns(s) PROVE TypeOK'
  BY <1>16 DEF TryCommitReturns
<1>17. ASSUME NEW s \in Sessions, CreateStaging(s) PROVE TypeOK'
  <2>1. dir' \in Directories
    BY <1>17, ZenonT(60) DEF CreateStaging
  <2>. QED
    BY <2>1, <1>17 DEF CreateStaging
<1>18. ASSUME NEW s \in Sessions, GateReplay(s) PROVE TypeOK'
  BY <1>18 DEF GateReplay
<1>19. ASSUME NEW s \in Sessions, FinishStaging(s) PROVE TypeOK'
  BY <1>19 DEF FinishStaging
<1>20. ASSUME NEW s \in Sessions, CarryMode(s) PROVE TypeOK'
  BY <1>20 DEF CarryMode
<1>21. ASSUME NEW s \in Sessions, GateSwap(s) PROVE TypeOK'
  BY <1>21 DEF GateSwap
<1>22. ASSUME NEW s \in Sessions, ClaimBackup(s) PROVE TypeOK'
  BY <1>22 DEF ClaimBackup
<1>23. ASSUME NEW s \in Sessions, ChmodBackup(s) PROVE TypeOK'
  BY <1>23 DEF ChmodBackup
<1>24. ASSUME NEW s \in Sessions, CopyBackup(s) PROVE TypeOK'
  BY <1>24 DEF CopyBackup
<1>25. ASSUME NEW s \in Sessions, Rename(s) PROVE TypeOK'
  BY <1>25 DEF Rename
<1>26. ASSUME NEW s \in Sessions, SyncParent(s) PROVE TypeOK'
  BY <1>26 DEF SyncParent
<1>27. ASSUME NEW s \in Sessions, Fail(s) PROVE TypeOK'
  BY <1>27, SMTT(30) DEF Fail
<1>28. ASSUME NEW s \in Sessions, DropBackup(s) PROVE TypeOK'
  BY <1>28 DEF DropBackup
<1>29. ASSUME NEW s \in Sessions, RemoveStaging(s) PROVE TypeOK'
  BY <1>29 DEF RemoveStaging
<1>30. ASSUME NEW s \in Sessions, Close(s) PROVE TypeOK'
  BY <1>30 DEF Close
<1>31. ASSUME NEW s \in Sessions, Crash(s) PROVE TypeOK'
  BY <1>31 DEF Crash
<1>32. ASSUME NEW w \in Outsiders, Replace(w) PROVE TypeOK'
  <2>1. dir' \in Directories
    BY <1>32 DEF Replace
  <2>2. arrived' \in SUBSET Outsiders
    BY <1>32 DEF Replace
  <2>. QED
    BY <2>1, <2>2, <1>32 DEF Replace
<1>33. CASE Writeback
  BY <1>33 DEF Writeback
<1>34. CASE PowerLoss
  BY <1>34 DEF PowerLoss
<1>35. CASE UNCHANGED vars
  BY <1>35 DEF vars
<1>. QED
  BY <1>1, <1>2, <1>3, <1>4, <1>5, <1>6, <1>7, <1>8, <1>9, <1>10, <1>11,
     <1>12, <1>13, <1>14, <1>15, <1>16, <1>17, <1>18, <1>19, <1>20, <1>21,
     <1>22, <1>23, <1>24, <1>25, <1>26, <1>27, <1>28, <1>29, <1>30, <1>31,
     <1>32, <1>33, <1>34, <1>35
     DEF Next, Library, Caller

\* A call that has begun has a lock descriptor; a re-open has found a file.
LEMMA FileStep == TypeInv /\ [Next]_vars => FileKnown'
<1> SUFFICES ASSUME TypeInv, [Next]_vars PROVE FileKnown'
  OBVIOUS
<1> USE SessionAssumption
    DEF TypeInv, TypeOK, FileKnown, Directories, Goto, Forget, fileVars,
        dirVars, dataVars, envVars, readVars, callVars
<1>1. ASSUME NEW s \in Sessions, OpenLockFile(s) PROVE FileKnown'
  BY <1>1 DEF OpenLockFile
<1>2. ASSUME NEW s \in Sessions, TryLock(s) PROVE FileKnown'
  BY <1>2 DEF TryLock
<1>3. ASSUME NEW s \in Sessions, GateProbe(s) PROVE FileKnown'
  BY <1>3 DEF GateProbe
<1>4. ASSUME NEW s \in Sessions, Probe(s) PROVE FileKnown'
  BY <1>4 DEF Probe
<1>5. ASSUME NEW s \in Sessions, GateBind(s) PROVE FileKnown'
  BY <1>5 DEF GateBind
<1>6. ASSUME NEW s \in Sessions, ReadBegin(s) PROVE FileKnown'
  BY <1>6 DEF ReadBegin
<1>7. ASSUME NEW s \in Sessions, ReadOpen(s) PROVE FileKnown'
  BY <1>7 DEF ReadOpen
<1>8. ASSUME NEW s \in Sessions, ReadEnd(s) PROVE FileKnown'
  BY <1>8 DEF ReadEnd
<1>9. ASSUME NEW s \in Sessions, ReadFails(s) PROVE FileKnown'
  BY <1>9 DEF ReadFails
<1>10. ASSUME NEW s \in Sessions, Queue(s) PROVE FileKnown'
  BY <1>10 DEF Queue
<1>11. ASSUME NEW s \in Sessions, ClearOperations(s) PROVE FileKnown'
  BY <1>11 DEF ClearOperations
<1>12. ASSUME NEW s \in Sessions, Discard(s) PROVE FileKnown'
  BY <1>12 DEF Discard
<1>13. ASSUME NEW s \in Sessions, CommitChanges(s) PROVE FileKnown'
  BY <1>13 DEF CommitChanges
<1>14. ASSUME NEW s \in Sessions, GateExtras(s) PROVE FileKnown'
  BY <1>14 DEF GateExtras
<1>15. ASSUME NEW s \in Sessions, LoadSourceExtras(s) PROVE FileKnown'
  BY <1>15 DEF LoadSourceExtras
<1>16. ASSUME NEW s \in Sessions, TryCommitReturns(s) PROVE FileKnown'
  BY <1>16 DEF TryCommitReturns, Validating
<1>17. ASSUME NEW s \in Sessions, CreateStaging(s) PROVE FileKnown'
  BY <1>17 DEF CreateStaging
<1>18. ASSUME NEW s \in Sessions, GateReplay(s) PROVE FileKnown'
  BY <1>18 DEF GateReplay
<1>19. ASSUME NEW s \in Sessions, FinishStaging(s) PROVE FileKnown'
  BY <1>19 DEF FinishStaging
<1>20. ASSUME NEW s \in Sessions, CarryMode(s) PROVE FileKnown'
  BY <1>20 DEF CarryMode
<1>21. ASSUME NEW s \in Sessions, GateSwap(s) PROVE FileKnown'
  BY <1>21 DEF GateSwap
<1>22. ASSUME NEW s \in Sessions, ClaimBackup(s) PROVE FileKnown'
  BY <1>22 DEF ClaimBackup
<1>23. ASSUME NEW s \in Sessions, ChmodBackup(s) PROVE FileKnown'
  BY <1>23 DEF ChmodBackup
<1>24. ASSUME NEW s \in Sessions, CopyBackup(s) PROVE FileKnown'
  BY <1>24 DEF CopyBackup
<1>25. ASSUME NEW s \in Sessions, Rename(s) PROVE FileKnown'
  BY <1>25 DEF Rename
<1>26. ASSUME NEW s \in Sessions, SyncParent(s) PROVE FileKnown'
  BY <1>26 DEF SyncParent
<1>27. ASSUME NEW s \in Sessions, Fail(s) PROVE FileKnown'
  BY <1>27 DEF Fail, Writing
<1>28. ASSUME NEW s \in Sessions, DropBackup(s) PROVE FileKnown'
  BY <1>28 DEF DropBackup
<1>29. ASSUME NEW s \in Sessions, RemoveStaging(s) PROVE FileKnown'
  BY <1>29 DEF RemoveStaging
<1>30. ASSUME NEW s \in Sessions, Close(s) PROVE FileKnown'
  BY <1>30 DEF Close
<1>31. ASSUME NEW s \in Sessions, Crash(s) PROVE FileKnown'
  BY <1>31 DEF Crash, Locking, Validating, Writing
<1>32. ASSUME NEW w \in Outsiders, Replace(w) PROVE FileKnown'
  BY <1>32 DEF Replace
<1>33. CASE Writeback
  BY <1>33 DEF Writeback
<1>34. CASE PowerLoss
  BY <1>34 DEF PowerLoss
<1>35. CASE UNCHANGED vars
  BY <1>35 DEF vars
<1>. QED
  BY <1>1, <1>2, <1>3, <1>4, <1>5, <1>6, <1>7, <1>8, <1>9, <1>10, <1>11,
     <1>12, <1>13, <1>14, <1>15, <1>16, <1>17, <1>18, <1>19, <1>20, <1>21,
     <1>22, <1>23, <1>24, <1>25, <1>26, <1>27, <1>28, <1>29, <1>30, <1>31,
     <1>32, <1>33, <1>34, <1>35
     DEF Next, Library, Caller

\* Every variable of a modify() session keeps its type, in any number of
\* concurrent sessions (Archive::modify ... commit_changes).
THEOREM TypeCorrect == Spec => []TypeOK
<1>1. TypeInv /\ [Next]_vars => TypeInv'
  BY TypeStep, FileStep DEF TypeInv
<1>2. TypeInv => TypeOK
  BY DEF TypeInv
<1>. QED
  BY TypeInit, <1>1, <1>2, PTL DEF Spec

-----------------------------------------------------------------------------
(* The lock.                                                               *)

\* try_lock registers the session on the file it opened, until it closes.
Owns ==
  \A s \in Sessions : pc[s] \in Locking => holder[fd[s]] = s

\* Nobody but the session itself gives up its lock.
LEMMA OwnsStep == TypeInv /\ Owns /\ [Next]_vars => Owns'
<1> SUFFICES ASSUME TypeInv, Owns, [Next]_vars PROVE Owns'
  OBVIOUS
<1> USE SessionAssumption
    DEF TypeInv, TypeOK, FileKnown, Owns, Locking, Validating, Writing, Ended,
        Goto, Forget, fileVars, dirVars, dataVars, envVars, readVars, callVars
<1>1. ASSUME NEW s \in Sessions, OpenLockFile(s) PROVE Owns'
  BY <1>1 DEF OpenLockFile
<1>2. ASSUME NEW s \in Sessions, TryLock(s) PROVE Owns'
  BY <1>2 DEF TryLock
<1>3. ASSUME NEW s \in Sessions, GateProbe(s) PROVE Owns'
  BY <1>3 DEF GateProbe
<1>4. ASSUME NEW s \in Sessions, Probe(s) PROVE Owns'
  BY <1>4 DEF Probe
<1>5. ASSUME NEW s \in Sessions, GateBind(s) PROVE Owns'
  BY <1>5 DEF GateBind
<1>6. ASSUME NEW s \in Sessions, ReadBegin(s) PROVE Owns'
  BY <1>6 DEF ReadBegin
<1>7. ASSUME NEW s \in Sessions, ReadOpen(s) PROVE Owns'
  BY <1>7 DEF ReadOpen
<1>8. ASSUME NEW s \in Sessions, ReadEnd(s) PROVE Owns'
  BY <1>8 DEF ReadEnd
<1>9. ASSUME NEW s \in Sessions, ReadFails(s) PROVE Owns'
  BY <1>9 DEF ReadFails
<1>10. ASSUME NEW s \in Sessions, Queue(s) PROVE Owns'
  BY <1>10 DEF Queue
<1>11. ASSUME NEW s \in Sessions, ClearOperations(s) PROVE Owns'
  BY <1>11 DEF ClearOperations
<1>12. ASSUME NEW s \in Sessions, Discard(s) PROVE Owns'
  BY <1>12 DEF Discard
<1>13. ASSUME NEW s \in Sessions, CommitChanges(s) PROVE Owns'
  BY <1>13 DEF CommitChanges
<1>14. ASSUME NEW s \in Sessions, GateExtras(s) PROVE Owns'
  BY <1>14 DEF GateExtras
<1>15. ASSUME NEW s \in Sessions, LoadSourceExtras(s) PROVE Owns'
  BY <1>15 DEF LoadSourceExtras
<1>16. ASSUME NEW s \in Sessions, TryCommitReturns(s) PROVE Owns'
  BY <1>16 DEF TryCommitReturns
<1>17. ASSUME NEW s \in Sessions, CreateStaging(s) PROVE Owns'
  BY <1>17 DEF CreateStaging
<1>18. ASSUME NEW s \in Sessions, GateReplay(s) PROVE Owns'
  BY <1>18 DEF GateReplay
<1>19. ASSUME NEW s \in Sessions, FinishStaging(s) PROVE Owns'
  BY <1>19 DEF FinishStaging
<1>20. ASSUME NEW s \in Sessions, CarryMode(s) PROVE Owns'
  BY <1>20 DEF CarryMode
<1>21. ASSUME NEW s \in Sessions, GateSwap(s) PROVE Owns'
  BY <1>21 DEF GateSwap
<1>22. ASSUME NEW s \in Sessions, ClaimBackup(s) PROVE Owns'
  BY <1>22 DEF ClaimBackup
<1>23. ASSUME NEW s \in Sessions, ChmodBackup(s) PROVE Owns'
  BY <1>23 DEF ChmodBackup
<1>24. ASSUME NEW s \in Sessions, CopyBackup(s) PROVE Owns'
  BY <1>24 DEF CopyBackup
<1>25. ASSUME NEW s \in Sessions, Rename(s) PROVE Owns'
  BY <1>25 DEF Rename
<1>26. ASSUME NEW s \in Sessions, SyncParent(s) PROVE Owns'
  BY <1>26 DEF SyncParent
<1>27. ASSUME NEW s \in Sessions, Fail(s) PROVE Owns'
  BY <1>27 DEF Fail
<1>28. ASSUME NEW s \in Sessions, DropBackup(s) PROVE Owns'
  BY <1>28 DEF DropBackup
<1>29. ASSUME NEW s \in Sessions, RemoveStaging(s) PROVE Owns'
  BY <1>29 DEF RemoveStaging
<1>30. ASSUME NEW s \in Sessions, Close(s) PROVE Owns'
  BY <1>30 DEF Close
<1>31. ASSUME NEW s \in Sessions, Crash(s) PROVE Owns'
  BY <1>31 DEF Crash
<1>32. ASSUME NEW w \in Outsiders, Replace(w) PROVE Owns'
  BY <1>32 DEF Replace
<1>33. CASE Writeback
  BY <1>33 DEF Writeback
<1>34. CASE PowerLoss
  BY <1>34 DEF PowerLoss
<1>35. CASE UNCHANGED vars
  BY <1>35 DEF vars
<1>. QED
  BY <1>1, <1>2, <1>3, <1>4, <1>5, <1>6, <1>7, <1>8, <1>9, <1>10, <1>11,
     <1>12, <1>13, <1>14, <1>15, <1>16, <1>17, <1>18, <1>19, <1>20, <1>21,
     <1>22, <1>23, <1>24, <1>25, <1>26, <1>27, <1>28, <1>29, <1>30, <1>31,
     <1>32, <1>33, <1>34, <1>35
     DEF Next, Library, Caller

\* Two sessions past try_lock never work on the same file (the advisory lock
\* of Archive::modify), whatever crashes, outages and outsiders do.
THEOREM LockSafe == Spec => []LockExcludes
<1> DEFINE Inv == TypeInv /\ Owns
<1>1. Init => Inv
  BY TypeInit DEF Init, Owns, Locking, Validating, Writing
<1>2. Inv /\ [Next]_vars => Inv'
  BY TypeStep, FileStep, OwnsStep DEF TypeInv
<1>3. Inv => LockExcludes
  BY DEF TypeInv, FileKnown, Owns, LockExcludes, Locking, Validating, Writing
<1>. QED
  BY <1>1, <1>2, <1>3, PTL DEF Spec

-----------------------------------------------------------------------------
(* Where the bytes of a staging file come from.                            *)

\* A staging file not yet installed, an outsider's file not yet renamed.
Unborn(f) ==
  \/ f \in Sessions /\ pc[f] \notin {"installed", "closing"} \cup Ended
  \/ f \in Outsiders \ arrived

\* Nobody can have met a file before it is born, so the pathname never
\* returns to a file it has left.
UnbornUnseen ==
  \A f \in Files : Unborn(f) =>
    /\ dir.path # f
    /\ ddir.path # f
    /\ \A s \in Sessions :
         fd[s] # f /\ bound[s] # f /\ seen[s] # f /\ f \notin got[s]

\* A handle that is not open has read nothing, and only four steps re-open.
ClosedUnread ==
  \A s \in Sessions :
    /\ pc[s] \in {"idle", "lockOpen"} \cup Ended => got[s] = {}
    /\ bracket[s] # "none" => pc[s] \in {"bind", "ready", "plan", "replay"}

\* A re-open whose two identity checks agree opened the bound file.
BracketHolds ==
  \A s \in Sessions :
    bracket[s] = "open" /\ dir.path = bound[s] => seen[s] = bound[s]

\* While the pathname names the locked file nothing else has been read.
OneSource ==
  \A s \in Sessions : dir.path = fd[s] => got[s] \subseteq {fd[s]}

\* The probe has read something by the time of a commit.
HasRead ==
  \A s \in Sessions :
    pc[s] \in {"probed", "bind", "ready"} \cup Validating \cup Writing =>
      got[s] # {}

\* A finished staging file carries what was read, and the session's edit.
Carried(s) == UNION {edits[f] : f \in got[s]}

Made ==
  \A s \in Sessions :
    pc[s] \in {"finished", "carried"} => edits[s] = Carried(s) \cup {s}

SourceInv ==
  /\ UnbornUnseen
  /\ ClosedUnread
  /\ BracketHolds
  /\ OneSource
  /\ HasRead
  /\ Made
  /\ StagedFromLocked

\* Most steps concern none of this: no byte is read, written or renamed, and
\* the call moves between steps that the invariant treats alike.
Past == {"installed", "closing"} \cup Ended
Closed == {"idle", "lockOpen"} \cup Ended
Informed == {"probed", "bind", "ready"} \cup Validating \cup Writing
Full == {"finished", "carried"}
Late == {"claim", "claimed", "filling", "swap", "installed"}

Quiet ==
  /\ dir'.path = dir.path
  /\ ddir'.path \in {ddir.path, dir.path}
  /\ UNCHANGED <<edits, arrived, fd, bound, seen, got>>
  /\ \A t \in Sessions :
       /\ bracket'[t] \in {bracket[t], "none"}
       /\ bracket'[t] # "none" => pc'[t] = pc[t]
       /\ pc[t] \in Past => pc'[t] \in Past
       /\ pc'[t] \in Closed => pc[t] \in Closed
       /\ pc'[t] \in Informed => pc[t] \in Informed
       /\ pc'[t] \in Full => pc[t] \in Full
       /\ pc'[t] = "installed" => pc[t] = "installed"
       /\ pc'[t] \in Late => pc[t] \in Late

Special(s) ==
  \/ OpenLockFile(s) \/ Probe(s)
  \/ ReadBegin(s) \/ ReadOpen(s) \/ ReadEnd(s) \/ LoadSourceExtras(s)
  \/ FinishStaging(s) \/ GateSwap(s) \/ Rename(s)
  \/ Close(s) \/ Crash(s)

\* The steps that are not quiet, named.
LEMMA StepKinds ==
  TypeInv /\ [Next]_vars =>
    \/ Quiet
    \/ \E s \in Sessions : Special(s)
    \/ \E w \in Outsiders : Replace(w)
    \/ PowerLoss
<1> SUFFICES ASSUME TypeInv, [Next]_vars,
                    ~ (\E s \in Sessions : Special(s)),
                    ~ (\E w \in Outsiders : Replace(w)),
                    ~ PowerLoss
             PROVE  Quiet
  OBVIOUS
<1> USE DEF TypeInv, TypeOK, Directories, Goto, fileVars, dirVars, dataVars,
            envVars, readVars, callVars, Quiet, Past, Closed, Informed, Full,
            Late, Ended, Validating, Writing
<1>1. ASSUME NEW s \in Sessions, TryLock(s) PROVE Quiet
  BY <1>1 DEF TryLock
<1>2. ASSUME NEW s \in Sessions, GateProbe(s) PROVE Quiet
  BY <1>2 DEF GateProbe
<1>3. ASSUME NEW s \in Sessions, GateBind(s) PROVE Quiet
  BY <1>3 DEF GateBind
<1>4. ASSUME NEW s \in Sessions, ReadFails(s) PROVE Quiet
  BY <1>4 DEF ReadFails
<1>5. ASSUME NEW s \in Sessions, Queue(s) PROVE Quiet
  BY <1>5 DEF Queue
<1>6. ASSUME NEW s \in Sessions, ClearOperations(s) PROVE Quiet
  BY <1>6 DEF ClearOperations
<1>7. ASSUME NEW s \in Sessions, Discard(s) PROVE Quiet
  BY <1>7 DEF Discard
<1>8. ASSUME NEW s \in Sessions, CommitChanges(s) PROVE Quiet
  BY <1>8 DEF CommitChanges
<1>9. ASSUME NEW s \in Sessions, GateExtras(s) PROVE Quiet
  BY <1>9 DEF GateExtras
<1>10. ASSUME NEW s \in Sessions, TryCommitReturns(s) PROVE Quiet
  BY <1>10 DEF TryCommitReturns
<1>11. ASSUME NEW s \in Sessions, CreateStaging(s) PROVE Quiet
  BY <1>11 DEF CreateStaging
<1>12. ASSUME NEW s \in Sessions, GateReplay(s) PROVE Quiet
  BY <1>12 DEF GateReplay
<1>13. ASSUME NEW s \in Sessions, CarryMode(s) PROVE Quiet
  BY <1>13 DEF CarryMode
<1>14. ASSUME NEW s \in Sessions, ClaimBackup(s) PROVE Quiet
  BY <1>14 DEF ClaimBackup
<1>15. ASSUME NEW s \in Sessions, ChmodBackup(s) PROVE Quiet
  BY <1>15 DEF ChmodBackup
<1>16. ASSUME NEW s \in Sessions, CopyBackup(s) PROVE Quiet
  BY <1>16 DEF CopyBackup
<1>17. ASSUME NEW s \in Sessions, SyncParent(s) PROVE Quiet
  BY <1>17 DEF SyncParent
<1>18. ASSUME NEW s \in Sessions, Fail(s) PROVE Quiet
  BY <1>18 DEF Fail
<1>19. ASSUME NEW s \in Sessions, DropBackup(s) PROVE Quiet
  BY <1>19 DEF DropBackup
<1>20. ASSUME NEW s \in Sessions, RemoveStaging(s) PROVE Quiet
  BY <1>20 DEF RemoveStaging
<1>21. CASE Writeback
  BY <1>21 DEF Writeback
<1>22. CASE UNCHANGED vars
  BY <1>22 DEF vars
<1>. QED
  BY <1>1, <1>2, <1>3, <1>4, <1>5, <1>6, <1>7, <1>8, <1>9, <1>10, <1>11,
     <1>12, <1>13, <1>14, <1>15, <1>16, <1>17, <1>18, <1>19, <1>20, <1>21,
     <1>22
     DEF Next, Library, Caller, Special

\* A rename is the only way for a file to be met.
LEMMA UnbornUnseenStep == TypeInv /\ SourceInv /\ [Next]_vars => UnbornUnseen'
<1> SUFFICES ASSUME TypeInv, SourceInv, [Next]_vars PROVE UnbornUnseen'
  OBVIOUS
<1> USE SessionAssumption DEF TypeInv, TypeOK, Goto, Forget, fileVars,
     dirVars, dataVars, envVars, readVars, callVars, Past, Closed, Informed,
     Full, Late, Ended, Validating, Writing, SourceInv, UnbornUnseen,
     Unborn, FileKnown, Directories, Files, Locking
<1>0. CASE Quiet
  BY <1>0 DEF Quiet
<1>1. ASSUME NEW s \in Sessions, OpenLockFile(s) PROVE UnbornUnseen'
  BY <1>1 DEF OpenLockFile
<1>2. ASSUME NEW s \in Sessions, Probe(s) PROVE UnbornUnseen'
  BY <1>2 DEF Probe
<1>3. ASSUME NEW s \in Sessions, ReadBegin(s) PROVE UnbornUnseen'
  BY <1>3 DEF ReadBegin
<1>4. ASSUME NEW s \in Sessions, ReadOpen(s) PROVE UnbornUnseen'
  BY <1>4 DEF ReadOpen
<1>5. ASSUME NEW s \in Sessions, ReadEnd(s) PROVE UnbornUnseen'
  BY <1>5 DEF ReadEnd
<1>6. ASSUME NEW s \in Sessions, LoadSourceExtras(s) PROVE UnbornUnseen'
  BY <1>6 DEF LoadSourceExtras
<1>7. ASSUME NEW s \in Sessions, FinishStaging(s) PROVE UnbornUnseen'
  BY <1>7, SMTT(30) DEF FinishStaging
<1>8. ASSUME NEW s \in Sessions, GateSwap(s) PROVE UnbornUnseen'
  BY <1>8, SMTT(30) DEF GateSwap
<1>9. ASSUME NEW s \in Sessions, Rename(s) PROVE UnbornUnseen'
  BY <1>9 DEF Rename
<1>10. ASSUME NEW s \in Sessions, Close(s) PROVE UnbornUnseen'
  BY <1>10 DEF Close
<1>11. ASSUME NEW s \in Sessions, Crash(s) PROVE UnbornUnseen'
  BY <1>11 DEF Crash
<1>12. ASSUME NEW w \in Outsiders, Replace(w) PROVE UnbornUnseen'
  BY <1>12 DEF Replace
<1>13. CASE PowerLoss
  BY <1>13 DEF PowerLoss
<1>. QED
  BY <1>0, <1>1, <1>2, <1>3, <1>4, <1>5, <1>6, <1>7, <1>8, <1>9, <1>10,
     <1>11, <1>12, <1>13, StepKinds DEF Special

\* Only an open handle reads.
LEMMA ClosedUnreadStep == TypeInv /\ SourceInv /\ [Next]_vars => ClosedUnread'
<1> SUFFICES ASSUME TypeInv, SourceInv, [Next]_vars PROVE ClosedUnread'
  OBVIOUS
<1> USE SessionAssumption DEF TypeInv, TypeOK, Goto, Forget, fileVars,
     dirVars, dataVars, envVars, readVars, callVars, Past, Closed, Informed,
     Full, Late, Ended, Validating, Writing, SourceInv, ClosedUnread, Locking
<1>0. CASE Quiet
  BY <1>0 DEF Quiet
<1>1. ASSUME NEW s \in Sessions, OpenLockFile(s) PROVE ClosedUnread'
  BY <1>1 DEF OpenLockFile
<1>2. ASSUME NEW s \in Sessions, Probe(s) PROVE ClosedUnread'
  BY <1>2 DEF Probe
<1>3. ASSUME NEW s \in Sessions, ReadBegin(s) PROVE ClosedUnread'
  BY <1>3 DEF ReadBegin
<1>4. ASSUME NEW s \in Sessions, ReadOpen(s) PROVE ClosedUnread'
  BY <1>4 DEF ReadOpen
<1>5. ASSUME NEW s \in Sessions, ReadEnd(s) PROVE ClosedUnread'
  BY <1>5 DEF ReadEnd
<1>6. ASSUME NEW s \in Sessions, LoadSourceExtras(s) PROVE ClosedUnread'
  BY <1>6 DEF LoadSourceExtras
<1>7. ASSUME NEW s \in Sessions, FinishStaging(s) PROVE ClosedUnread'
  BY <1>7 DEF FinishStaging
<1>8. ASSUME NEW s \in Sessions, GateSwap(s) PROVE ClosedUnread'
  BY <1>8 DEF GateSwap
<1>9. ASSUME NEW s \in Sessions, Rename(s) PROVE ClosedUnread'
  BY <1>9 DEF Rename
<1>10. ASSUME NEW s \in Sessions, Close(s) PROVE ClosedUnread'
  BY <1>10 DEF Close
<1>11. ASSUME NEW s \in Sessions, Crash(s) PROVE ClosedUnread'
  BY <1>11 DEF Crash
<1>12. ASSUME NEW w \in Outsiders, Replace(w) PROVE ClosedUnread'
  BY <1>12 DEF Replace
<1>13. CASE PowerLoss
  BY <1>13 DEF PowerLoss
<1>. QED
  BY <1>0, <1>1, <1>2, <1>3, <1>4, <1>5, <1>6, <1>7, <1>8, <1>9, <1>10,
     <1>11, <1>12, <1>13, StepKinds DEF Special

\* Between the second check and the first, the pathname cannot come back.
LEMMA BracketHoldsStep == TypeInv /\ SourceInv /\ [Next]_vars => BracketHolds'
<1> SUFFICES ASSUME TypeInv, SourceInv, [Next]_vars PROVE BracketHolds'
  OBVIOUS
<1> USE SessionAssumption DEF TypeInv, TypeOK, Goto, Forget, fileVars,
     dirVars, dataVars, envVars, readVars, callVars, Past, Closed, Informed,
     Full, Late, Ended, Validating, Writing, SourceInv, BracketHolds,
     UnbornUnseen, Unborn, Files, Directories
<1>0. CASE Quiet
  BY <1>0 DEF Quiet
<1>1. ASSUME NEW s \in Sessions, OpenLockFile(s) PROVE BracketHolds'
  BY <1>1 DEF OpenLockFile
<1>2. ASSUME NEW s \in Sessions, Probe(s) PROVE BracketHolds'
  BY <1>2 DEF Probe
<1>3. ASSUME NEW s \in Sessions, ReadBegin(s) PROVE BracketHolds'
  BY <1>3 DEF ReadBegin
<1>4. ASSUME NEW s \in Sessions, ReadOpen(s) PROVE BracketHolds'
  BY <1>4 DEF ReadOpen
<1>5. ASSUME NEW s \in Sessions, ReadEnd(s) PROVE BracketHolds'
  BY <1>5 DEF ReadEnd
<1>6. ASSUME NEW s \in Sessions, LoadSourceExtras(s) PROVE BracketHolds'
  BY <1>6 DEF LoadSourceExtras
<1>7. ASSUME NEW s \in Sessions, FinishStaging(s) PROVE BracketHolds'
  BY <1>7 DEF FinishStaging
<1>8. ASSUME NEW s \in Sessions, GateSwap(s) PROVE BracketHolds'
  BY <1>8 DEF GateSwap
<1>9. ASSUME NEW s \in Sessions, Rename(s) PROVE BracketHolds'
  BY <1>9, SMTT(30) DEF Rename
<1>10. ASSUME NEW s \in Sessions, Close(s) PROVE BracketHolds'
  BY <1>10 DEF Close
<1>11. ASSUME NEW s \in Sessions, Crash(s) PROVE BracketHolds'
  BY <1>11 DEF Crash
<1>12. ASSUME NEW w \in Outsiders, Replace(w) PROVE BracketHolds'
  BY <1>12 DEF Replace
<1>13. CASE PowerLoss
  BY <1>13 DEF PowerLoss
<1>. QED
  BY <1>0, <1>1, <1>2, <1>3, <1>4, <1>5, <1>6, <1>7, <1>8, <1>9, <1>10,
     <1>11, <1>12, <1>13, StepKinds DEF Special

\* A read while the pathname names the locked file reads that file.
LEMMA OneSourceStep == TypeInv /\ SourceInv /\ [Next]_vars => OneSource'
<1> SUFFICES ASSUME TypeInv, SourceInv, [Next]_vars PROVE OneSource'
  OBVIOUS
<1> USE SessionAssumption DEF TypeInv, TypeOK, Goto, Forget, fileVars,
     dirVars, dataVars, envVars, readVars, callVars, Past, Closed, Informed,
     Full, Late, Ended, Validating, Writing, SourceInv, OneSource,
     UnbornUnseen, Unborn, Files, Directories, ClosedUnread, BracketHolds
<1>0. CASE Quiet
  BY <1>0 DEF Quiet
<1>1. ASSUME NEW s \in Sessions, OpenLockFile(s) PROVE OneSource'
  BY <1>1 DEF OpenLockFile
<1>2. ASSUME NEW s \in Sessions, Probe(s) PROVE OneSource'
  BY <1>2 DEF Probe
<1>3. ASSUME NEW s \in Sessions, ReadBegin(s) PROVE OneSource'
  BY <1>3 DEF ReadBegin
<1>4. ASSUME NEW s \in Sessions, ReadOpen(s) PROVE OneSource'
  BY <1>4 DEF ReadOpen
<1>5. ASSUME NEW s \in Sessions, ReadEnd(s) PROVE OneSource'
  <2>1. seen[s] = dir.path
    BY <1>5 DEF ReadEnd
  <2>. QED
    BY <2>1, <1>5 DEF ReadEnd
<1>6. ASSUME NEW s \in Sessions, LoadSourceExtras(s) PROVE OneSource'
  BY <1>6 DEF LoadSourceExtras
<1>7. ASSUME NEW s \in Sessions, FinishStaging(s) PROVE OneSource'
  BY <1>7 DEF FinishStaging
<1>8. ASSUME NEW s \in Sessions, GateSwap(s) PROVE OneSource'
  BY <1>8 DEF GateSwap
<1>9. ASSUME NEW s \in Sessions, Rename(s) PROVE OneSource'
  BY <1>9, SMTT(30) DEF Rename
<1>10. ASSUME NEW s \in Sessions, Close(s) PROVE OneSource'
  BY <1>10 DEF Close
<1>11. ASSUME NEW s \in Sessions, Crash(s) PROVE OneSource'
  BY <1>11 DEF Crash
<1>12. ASSUME NEW w \in Outsiders, Replace(w) PROVE OneSource'
  BY <1>12 DEF Replace
<1>13. CASE PowerLoss
  BY <1>13 DEF PowerLoss
<1>. QED
  BY <1>0, <1>1, <1>2, <1>3, <1>4, <1>5, <1>6, <1>7, <1>8, <1>9, <1>10,
     <1>11, <1>12, <1>13, StepKinds DEF Special

\* The probe precedes everything else.
LEMMA HasReadStep == TypeInv /\ SourceInv /\ [Next]_vars => HasRead'
<1> SUFFICES ASSUME TypeInv, SourceInv, [Next]_vars PROVE HasRead'
  OBVIOUS
<1> USE SessionAssumption DEF TypeInv, TypeOK, Goto, Forget, fileVars,
     dirVars, dataVars, envVars, readVars, callVars, Past, Closed, Informed,
     Full, Late, Ended, Validating, Writing, SourceInv, HasRead
<1>0. CASE Quiet
  BY <1>0 DEF Quiet
<1>1. ASSUME NEW s \in Sessions, OpenLockFile(s) PROVE HasRead'
  BY <1>1 DEF OpenLockFile
<1>2. ASSUME NEW s \in Sessions, Probe(s) PROVE HasRead'
  BY <1>2 DEF Probe
<1>3. ASSUME NEW s \in Sessions, ReadBegin(s) PROVE HasRead'
  BY <1>3 DEF ReadBegin
<1>4. ASSUME NEW s \in Sessions, ReadOpen(s) PROVE HasRead'
  BY <1>4 DEF ReadOpen
<1>5. ASSUME NEW s \in Sessions, ReadEnd(s) PROVE HasRead'
  BY <1>5 DEF ReadEnd
<1>6. ASSUME NEW s \in Sessions, LoadSourceExtras(s) PROVE HasRead'
  BY <1>6 DEF LoadSourceExtras
<1>7. ASSUME NEW s \in Sessions, FinishStaging(s) PROVE HasRead'
  BY <1>7 DEF FinishStaging
<1>8. ASSUME NEW s \in Sessions, GateSwap(s) PROVE HasRead'
  BY <1>8 DEF GateSwap
<1>9. ASSUME NEW s \in Sessions, Rename(s) PROVE HasRead'
  BY <1>9 DEF Rename
<1>10. ASSUME NEW s \in Sessions, Close(s) PROVE HasRead'
  BY <1>10 DEF Close
<1>11. ASSUME NEW s \in Sessions, Crash(s) PROVE HasRead'
  BY <1>11 DEF Crash
<1>12. ASSUME NEW w \in Outsiders, Replace(w) PROVE HasRead'
  BY <1>12 DEF Replace
<1>13. CASE PowerLoss
  BY <1>13 DEF PowerLoss
<1>. QED
  BY <1>0, <1>1, <1>2, <1>3, <1>4, <1>5, <1>6, <1>7, <1>8, <1>9, <1>10,
     <1>11, <1>12, <1>13, StepKinds DEF Special

\* What is read later does not change what was written.
LEMMA MadeStep == TypeInv /\ SourceInv /\ [Next]_vars => Made'
<1> SUFFICES ASSUME TypeInv, SourceInv, [Next]_vars PROVE Made'
  OBVIOUS
<1> USE SessionAssumption DEF TypeInv, TypeOK, Goto, Forget, fileVars,
     dirVars, dataVars, envVars, readVars, callVars, Past, Closed, Informed,
     Full, Late, Ended, Validating, Writing, SourceInv, Made, Carried,
     ClosedUnread, UnbornUnseen, Unborn, Files
<1>0. CASE Quiet
  BY <1>0 DEF Quiet
<1>1. ASSUME NEW s \in Sessions, OpenLockFile(s) PROVE Made'
  <2>1. UNCHANGED <<edits, got>>
    BY <1>1 DEF OpenLockFile
  <2>2. \A t \in Sessions : pc'[t] \in Full => pc[t] \in Full
    BY <1>1 DEF OpenLockFile
  <2>. QED
    BY <2>1, <2>2
<1>2. ASSUME NEW s \in Sessions, Probe(s) PROVE Made'
  BY <1>2 DEF Probe
<1>3. ASSUME NEW s \in Sessions, ReadBegin(s) PROVE Made'
  BY <1>3 DEF ReadBegin
<1>4. ASSUME NEW s \in Sessions, ReadOpen(s) PROVE Made'
  BY <1>4 DEF ReadOpen
<1>5. ASSUME NEW s \in Sessions, ReadEnd(s) PROVE Made'
  <2>1. \A t \in Sessions \ {s} : got'[t] = got[t] /\ pc'[t] = pc[t]
    BY <1>5 DEF ReadEnd
  <2>2. pc[s] \notin Full /\ pc'[s] \notin Full /\ edits' = edits
    BY <1>5 DEF ReadEnd
  <2>. QED
    BY <2>1, <2>2
<1>6. ASSUME NEW s \in Sessions, LoadSourceExtras(s) PROVE Made'
  BY <1>6 DEF LoadSourceExtras
<1>7. ASSUME NEW s \in Sessions, FinishStaging(s) PROVE Made'
  <2>1. \A t \in Sessions : s \notin got[t]
    BY <1>7 DEF FinishStaging
  <2>2. \A t \in Sessions : Carried(t)' = Carried(t)
    BY <2>1, <1>7 DEF FinishStaging
  <2>3. edits'[s] = Carried(s) \cup {s}
    BY <1>7 DEF FinishStaging
  <2>4. \A t \in Sessions \ {s} : edits'[t] = edits[t] /\ pc'[t] = pc[t]
    BY <1>7 DEF FinishStaging
  <2>. HIDE DEF Carried
  <2>. QED
    BY <2>2, <2>3, <2>4
<1>8. ASSUME NEW s \in Sessions, GateSwap(s) PROVE Made'
  BY <1>8 DEF GateSwap
<1>9. ASSUME NEW s \in Sessions, Rename(s) PROVE Made'
  BY <1>9 DEF Rename
<1>10. ASSUME NEW s \in Sessions, Close(s) PROVE Made'
  BY <1>10 DEF Close
<1>11. ASSUME NEW s \in Sessions, Crash(s) PROVE Made'
  BY <1>11 DEF Crash
<1>12. ASSUME NEW w \in Outsiders, Replace(w) PROVE Made'
  BY <1>12 DEF Replace
<1>13. CASE PowerLoss
  BY <1>13 DEF PowerLoss
<1>. QED
  BY <1>0, <1>1, <1>2, <1>3, <1>4, <1>5, <1>6, <1>7, <1>8, <1>9, <1>10,
     <1>11, <1>12, <1>13, StepKinds DEF Special

\* The last gate turns what was read into the locked file.
LEMMA StagedFromLockedStep == TypeInv /\ SourceInv /\ [Next]_vars => StagedFromLocked'
<1> SUFFICES ASSUME TypeInv, SourceInv, [Next]_vars PROVE StagedFromLocked'
  OBVIOUS
<1> USE SessionAssumption DEF TypeInv, TypeOK, Goto, Forget, fileVars,
     dirVars, dataVars, envVars, readVars, callVars, Past, Closed, Informed,
     Full, Late, Ended, Validating, Writing, SourceInv, StagedFromLocked,
     Made, Carried, OneSource, HasRead, UnbornUnseen, Unborn, Files
<1>0. CASE Quiet
  BY <1>0 DEF Quiet
<1>1. ASSUME NEW s \in Sessions, OpenLockFile(s) PROVE StagedFromLocked'
  BY <1>1 DEF OpenLockFile
<1>2. ASSUME NEW s \in Sessions, Probe(s) PROVE StagedFromLocked'
  BY <1>2 DEF Probe
<1>3. ASSUME NEW s \in Sessions, ReadBegin(s) PROVE StagedFromLocked'
  BY <1>3 DEF ReadBegin
<1>4. ASSUME NEW s \in Sessions, ReadOpen(s) PROVE StagedFromLocked'
  BY <1>4 DEF ReadOpen
<1>5. ASSUME NEW s \in Sessions, ReadEnd(s) PROVE StagedFromLocked'
  BY <1>5 DEF ReadEnd
<1>6. ASSUME NEW s \in Sessions, LoadSourceExtras(s) PROVE StagedFromLocked'
  BY <1>6 DEF LoadSourceExtras
<1>7. ASSUME NEW s \in Sessions, FinishStaging(s) PROVE StagedFromLocked'
  BY <1>7, SMTT(30) DEF FinishStaging
<1>8. ASSUME NEW s \in Sessions, GateSwap(s) PROVE StagedFromLocked'
  <2>1. got[s] = {fd[s]}
    BY <1>8 DEF GateSwap, NamesLocked
  <2>2. Carried(s) = edits[fd[s]]
    BY <2>1
  <2>3. edits[s] = Carried(s) \cup {s}
    BY <1>8 DEF GateSwap
  <2>. QED
    BY <2>2, <2>3, <1>8 DEF GateSwap
<1>9. ASSUME NEW s \in Sessions, Rename(s) PROVE StagedFromLocked'
  BY <1>9 DEF Rename
<1>10. ASSUME NEW s \in Sessions, Close(s) PROVE StagedFromLocked'
  BY <1>10 DEF Close
<1>11. ASSUME NEW s \in Sessions, Crash(s) PROVE StagedFromLocked'
  BY <1>11 DEF Crash
<1>12. ASSUME NEW w \in Outsiders, Replace(w) PROVE StagedFromLocked'
  BY <1>12 DEF Replace
<1>13. CASE PowerLoss
  BY <1>13 DEF PowerLoss
<1>. QED
  BY <1>0, <1>1, <1>2, <1>3, <1>4, <1>5, <1>6, <1>7, <1>8, <1>9, <1>10,
     <1>11, <1>12, <1>13, StepKinds DEF Special

\* Nothing has been read or written at the start.
LEMMA SourceInit == Init => SourceInv
  BY SessionAssumption
     DEF Init, SourceInv, UnbornUnseen, Unborn, ClosedUnread, BracketHolds,
         OneSource, HasRead, Made, StagedFromLocked, Files, Directories,
         Validating, Writing, Ended

\* The parts of the source invariant together.
LEMMA SourceStep == TypeInv /\ SourceInv /\ [Next]_vars => SourceInv'
  BY UnbornUnseenStep, ClosedUnreadStep, BracketHoldsStep, OneSourceStep,
     HasReadStep, MadeStep, StagedFromLockedStep
     DEF SourceInv

\* Past the last gate, a staging file was made from the locked file alone: the
\* gates of commit_session and commit_swap do what their comments say.
THEOREM SourceSafe == Spec => []StagedFromLocked
<1>1. TypeInv /\ SourceInv /\ [Next]_vars => TypeInv' /\ SourceInv'
  BY TypeStep, FileStep, SourceStep DEF TypeInv
<1>2. SourceInv => StagedFromLocked
  BY DEF SourceInv
<1>. QED
  BY TypeInit, SourceInit, <1>1, <1>2, PTL DEF Spec

-----------------------------------------------------------------------------
(* No lost update.                                                         *)

\* Without outsiders only the holder of the archive can rename over it.
LockedIsCurrent ==
  Outsiders = {} =>
    \A s \in Sessions :
      pc[s] \in {"claim", "claimed", "filling", "swap"} => dir.path = fd[s]

\* A rename by another session needs the lock this one holds.
LEMMA LockedIsCurrentStep == TypeInv /\ Owns /\ LockedIsCurrent /\ [Next]_vars => LockedIsCurrent'
<1> SUFFICES ASSUME TypeInv, Owns, LockedIsCurrent, [Next]_vars
             PROVE  LockedIsCurrent'
  OBVIOUS
<1> USE SessionAssumption DEF TypeInv, TypeOK, Goto, Forget, fileVars,
     dirVars, dataVars, envVars, readVars, callVars, Past, Closed, Informed,
     Full, Late, Ended, Validating, Writing, FileKnown, Files, Owns,
     Locking, LockedIsCurrent, Directories, NamesLocked
<1>0. CASE Quiet
  BY <1>0 DEF Quiet
<1>1. ASSUME NEW s \in Sessions, OpenLockFile(s) PROVE LockedIsCurrent'
  BY <1>1 DEF OpenLockFile
<1>2. ASSUME NEW s \in Sessions, Probe(s) PROVE LockedIsCurrent'
  BY <1>2 DEF Probe
<1>3. ASSUME NEW s \in Sessions, ReadBegin(s) PROVE LockedIsCurrent'
  BY <1>3 DEF ReadBegin
<1>4. ASSUME NEW s \in Sessions, ReadOpen(s) PROVE LockedIsCurrent'
  BY <1>4 DEF ReadOpen
<1>5. ASSUME NEW s \in Sessions, ReadEnd(s) PROVE LockedIsCurrent'
  BY <1>5 DEF ReadEnd
<1>6. ASSUME NEW s \in Sessions, LoadSourceExtras(s) PROVE LockedIsCurrent'
  BY <1>6 DEF LoadSourceExtras
<1>7. ASSUME NEW s \in Sessions, FinishStaging(s) PROVE LockedIsCurrent'
  BY <1>7 DEF FinishStaging
<1>8. ASSUME NEW s \in Sessions, GateSwap(s) PROVE LockedIsCurrent'
  BY <1>8 DEF GateSwap
<1>9. ASSUME NEW s \in Sessions, Rename(s) PROVE LockedIsCurrent'
  BY <1>9 DEF Rename
<1>10. ASSUME NEW s \in Sessions, Close(s) PROVE LockedIsCurrent'
  BY <1>10 DEF Close
<1>11. ASSUME NEW s \in Sessions, Crash(s) PROVE LockedIsCurrent'
  BY <1>11 DEF Crash
<1>12. ASSUME NEW w \in Outsiders, Replace(w) PROVE LockedIsCurrent'
  BY <1>12 DEF Replace
<1>13. CASE PowerLoss
  BY <1>13 DEF PowerLoss
<1>. QED
  BY <1>0, <1>1, <1>2, <1>3, <1>4, <1>5, <1>6, <1>7, <1>8, <1>9, <1>10,
     <1>11, <1>12, <1>13, StepKinds DEF Special

\* The rename installs the locked archive's edits and the session's own.
LEMMA CommitStep == TypeInv /\ SourceInv /\ LockedIsCurrent /\ [Next]_vars => KeepsCommitted
<1> SUFFICES ASSUME TypeInv, SourceInv, LockedIsCurrent, [Next]_vars
             PROVE  KeepsCommitted
  OBVIOUS
<1> USE SessionAssumption DEF TypeInv, TypeOK, Goto, Forget, fileVars,
     dirVars, dataVars, envVars, readVars, callVars, Past, Closed, Informed,
     Full, Late, Ended, Validating, Writing, FileKnown, Files, SourceInv,
     StagedFromLocked, LockedIsCurrent, KeepsCommitted, Directories
<1>0. CASE Quiet
  BY <1>0 DEF Quiet
<1>1. ASSUME NEW s \in Sessions, OpenLockFile(s) PROVE KeepsCommitted
  BY <1>1 DEF OpenLockFile
<1>2. ASSUME NEW s \in Sessions, Probe(s) PROVE KeepsCommitted
  BY <1>2 DEF Probe
<1>3. ASSUME NEW s \in Sessions, ReadBegin(s) PROVE KeepsCommitted
  BY <1>3 DEF ReadBegin
<1>4. ASSUME NEW s \in Sessions, ReadOpen(s) PROVE KeepsCommitted
  BY <1>4 DEF ReadOpen
<1>5. ASSUME NEW s \in Sessions, ReadEnd(s) PROVE KeepsCommitted
  BY <1>5 DEF ReadEnd
<1>6. ASSUME NEW s \in Sessions, LoadSourceExtras(s) PROVE KeepsCommitted
  BY <1>6 DEF LoadSourceExtras
<1>7. ASSUME NEW s \in Sessions, FinishStaging(s) PROVE KeepsCommitted
  BY <1>7 DEF FinishStaging
<1>8. ASSUME NEW s \in Sessions, GateSwap(s) PROVE KeepsCommitted
  BY <1>8 DEF GateSwap
<1>9. ASSUME NEW s \in Sessions, Rename(s) PROVE KeepsCommitted
  BY <1>9 DEF Rename
<1>10. ASSUME NEW s \in Sessions, Close(s) PROVE KeepsCommitted
  BY <1>10 DEF Close
<1>11. ASSUME NEW s \in Sessions, Crash(s) PROVE KeepsCommitted
  BY <1>11 DEF Crash
<1>12. ASSUME NEW w \in Outsiders, Replace(w) PROVE KeepsCommitted
  BY <1>12 DEF Replace
<1>13. CASE PowerLoss
  BY <1>13 DEF PowerLoss
<1>. QED
  BY <1>0, <1>1, <1>2, <1>3, <1>4, <1>5, <1>6, <1>7, <1>8, <1>9, <1>10,
     <1>11, <1>12, <1>13, StepKinds DEF Special

\* Among cooperating sessions no committed edit is lost by a commit_swap.
THEOREM UpdateSafe == Spec => NoLostUpdate
<1> DEFINE Inv == TypeInv /\ Owns /\ SourceInv /\ LockedIsCurrent
<1>1. Init => Inv
  BY TypeInit, SourceInit
     DEF Init, Owns, LockedIsCurrent, Locking, Validating, Writing
<1>2. Inv /\ [Next]_vars => Inv'
  BY TypeStep, FileStep, OwnsStep, SourceStep, LockedIsCurrentStep DEF TypeInv
<1>3. Inv /\ [Next]_vars => [KeepsCommitted]_vars
  BY CommitStep
<1>. QED
  BY <1>1, <1>2, <1>3, PTL DEF Spec, NoLostUpdate

-----------------------------------------------------------------------------
(* What the directory names, and with which permissions.                   *)

\* Sessions still before their staging file, in the order of the calls.
Early == {"lockOpen", "locked", "probe", "probed", "bind", "ready"} \cup Validating

\* Most steps leave every file, descriptor and directory alone; the call goes
\* on towards its staging file, starts to replay, ends, or dies.
Calm ==
  /\ UNCHANGED <<fileVars, fd, wants>>
  /\ \A t \in Sessions :
       \/ pc'[t] = pc[t]
       \/ pc[t] \in Early /\ pc'[t] \in Early \cup {"closing", "done"}
       \/ pc[t] = "created" /\ pc'[t] = "replay"
       \/ pc[t] = "closing" /\ pc'[t] = "done"
       \/ pc[t] # "idle" /\ pc'[t] = "crashed"

Touches(s) ==
  \/ OpenLockFile(s) \/ CreateStaging(s) \/ FinishStaging(s) \/ CarryMode(s)
  \/ GateSwap(s) \/ ClaimBackup(s) \/ ChmodBackup(s) \/ CopyBackup(s)
  \/ Rename(s) \/ SyncParent(s) \/ Fail(s) \/ DropBackup(s) \/ RemoveStaging(s)

\* The steps that are not calm, named.
LEMMA FileKinds ==
  TypeInv /\ [Next]_vars =>
    \/ Calm
    \/ \E s \in Sessions : Touches(s)
    \/ \E w \in Outsiders : Replace(w)
    \/ Writeback
    \/ PowerLoss
<1> SUFFICES ASSUME TypeInv, [Next]_vars,
                    ~ (\E s \in Sessions : Touches(s)),
                    ~ (\E w \in Outsiders : Replace(w)),
                    ~ Writeback,
                    ~ PowerLoss
             PROVE  Calm
  OBVIOUS
<1> USE DEF TypeInv, TypeOK, Goto, fileVars, dirVars, dataVars, envVars,
            readVars, callVars, Calm, Early, Validating
<1>1. ASSUME NEW s \in Sessions, TryLock(s) PROVE Calm
  BY <1>1 DEF TryLock
<1>2. ASSUME NEW s \in Sessions, GateProbe(s) PROVE Calm
  BY <1>2 DEF GateProbe
<1>3. ASSUME NEW s \in Sessions, Probe(s) PROVE Calm
  BY <1>3 DEF Probe
<1>4. ASSUME NEW s \in Sessions, GateBind(s) PROVE Calm
  BY <1>4 DEF GateBind
<1>5. ASSUME NEW s \in Sessions, ReadBegin(s) PROVE Calm
  BY <1>5 DEF ReadBegin
<1>6. ASSUME NEW s \in Sessions, ReadOpen(s) PROVE Calm
  BY <1>6 DEF ReadOpen
<1>7. ASSUME NEW s \in Sessions, ReadEnd(s) PROVE Calm
  BY <1>7 DEF ReadEnd
<1>8. ASSUME NEW s \in Sessions, ReadFails(s) PROVE Calm
  BY <1>8 DEF ReadFails
<1>9. ASSUME NEW s \in Sessions, Queue(s) PROVE Calm
  BY <1>9 DEF Queue
<1>10. ASSUME NEW s \in Sessions, ClearOperations(s) PROVE Calm
  BY <1>10 DEF ClearOperations
<1>11. ASSUME NEW s \in Sessions, Discard(s) PROVE Calm
  BY <1>11 DEF Discard
<1>12. ASSUME NEW s \in Sessions, CommitChanges(s) PROVE Calm
  BY <1>12 DEF CommitChanges
<1>13. ASSUME NEW s \in Sessions, GateExtras(s) PROVE Calm
  BY <1>13 DEF GateExtras
<1>14. ASSUME NEW s \in Sessions, LoadSourceExtras(s) PROVE Calm
  BY <1>14 DEF LoadSourceExtras
<1>15. ASSUME NEW s \in Sessions, TryCommitReturns(s) PROVE Calm
  BY <1>15 DEF TryCommitReturns
<1>16. ASSUME NEW s \in Sessions, GateReplay(s) PROVE Calm
  BY <1>16 DEF GateReplay
<1>17. ASSUME NEW s \in Sessions, Close(s) PROVE Calm
  BY <1>17 DEF Close
<1>18. ASSUME NEW s \in Sessions, Crash(s) PROVE Calm
  BY <1>18 DEF Crash, Locking, Writing
<1>19. CASE UNCHANGED vars
  BY <1>19 DEF vars
<1>. QED
  BY <1>1, <1>2, <1>3, <1>4, <1>5, <1>6, <1>7, <1>8, <1>9, <1>10, <1>11,
     <1>12, <1>13, <1>14, <1>15, <1>16, <1>17, <1>18, <1>19 DEF Next,
     Library, Caller, Touches

\* A staging file gets the mode of the locked file before the last gate, and
\* keeps it under the archive's name.
ModeCarried ==
  \A s \in Sessions :
    (pc[s] \in {"carried", "claim", "claimed", "filling", "swap"}
       \/ s \in {dir.path, ddir.path}) => mode[s] = mode[fd[s]]

\* A backup gets its mode before its bytes.
BackupPrivate ==
  \A s \in Sessions :
    /\ pc[s] = "filling" \/ bakOf[s] # None => bakMode[s] = mode[fd[s]]
    /\ bakOf[s] # None => bakOf[s] = fd[s] /\ pc[s] # "idle"

\* No session's descriptor is a staging file: its mode stays.
LEMMA ModeCarriedStep == TypeInv /\ SourceInv /\ ModeCarried /\ [Next]_vars => ModeCarried'
<1> SUFFICES ASSUME TypeInv, SourceInv, ModeCarried, [Next]_vars PROVE ModeCarried'
  OBVIOUS
<1> USE SessionAssumption DEF TypeInv, TypeOK, FileKnown, Goto, fileVars,
     dirVars, dataVars, envVars, callVars, Early, Validating, Files,
     Directories, SourceInv, UnbornUnseen, Unborn, Ended, Writing,
     ModeCarried
<1>0. CASE Calm
  BY <1>0 DEF Calm
<1>1. ASSUME NEW s \in Sessions, OpenLockFile(s) PROVE ModeCarried'
  BY <1>1, SMTT(30) DEF OpenLockFile
<1>2. ASSUME NEW s \in Sessions, CreateStaging(s) PROVE ModeCarried'
  BY <1>2 DEF CreateStaging
<1>3. ASSUME NEW s \in Sessions, FinishStaging(s) PROVE ModeCarried'
  BY <1>3 DEF FinishStaging
<1>4. ASSUME NEW s \in Sessions, CarryMode(s) PROVE ModeCarried'
  BY <1>4, SMTT(30) DEF CarryMode
<1>5. ASSUME NEW s \in Sessions, GateSwap(s) PROVE ModeCarried'
  BY <1>5 DEF GateSwap
<1>6. ASSUME NEW s \in Sessions, ClaimBackup(s) PROVE ModeCarried'
  BY <1>6 DEF ClaimBackup
<1>7. ASSUME NEW s \in Sessions, ChmodBackup(s) PROVE ModeCarried'
  BY <1>7 DEF ChmodBackup
<1>8. ASSUME NEW s \in Sessions, CopyBackup(s) PROVE ModeCarried'
  BY <1>8 DEF CopyBackup
<1>9. ASSUME NEW s \in Sessions, Rename(s) PROVE ModeCarried'
  BY <1>9 DEF Rename
<1>10. ASSUME NEW s \in Sessions, SyncParent(s) PROVE ModeCarried'
  BY <1>10 DEF SyncParent
<1>11. ASSUME NEW s \in Sessions, Fail(s) PROVE ModeCarried'
  BY <1>11 DEF Fail
<1>12. ASSUME NEW s \in Sessions, DropBackup(s) PROVE ModeCarried'
  BY <1>12 DEF DropBackup
<1>13. ASSUME NEW s \in Sessions, RemoveStaging(s) PROVE ModeCarried'
  BY <1>13 DEF RemoveStaging
<1>14. ASSUME NEW w \in Outsiders, Replace(w) PROVE ModeCarried'
  BY <1>14 DEF Replace
<1>15. CASE Writeback
  BY <1>15 DEF Writeback
<1>16. CASE PowerLoss
  BY <1>16 DEF PowerLoss
<1>. QED
  BY <1>0, <1>1, <1>2, <1>3, <1>4, <1>5, <1>6, <1>7, <1>8, <1>9, <1>10,
     <1>11, <1>12, <1>13, <1>14, <1>15, <1>16, FileKinds DEF Touches

\* The descriptor a backup was copied from stays that of its session.
LEMMA BackupPrivateStep == TypeInv /\ SourceInv /\ BackupPrivate /\ [Next]_vars => BackupPrivate'
<1> SUFFICES ASSUME TypeInv, SourceInv, BackupPrivate, [Next]_vars PROVE BackupPrivate'
  OBVIOUS
<1> USE SessionAssumption DEF TypeInv, TypeOK, FileKnown, Goto, fileVars,
     dirVars, dataVars, envVars, callVars, Early, Validating, Files,
     SourceInv, UnbornUnseen, Unborn, Ended, Writing, BackupPrivate
<1>0. CASE Calm
  BY <1>0 DEF Calm
<1>1. ASSUME NEW s \in Sessions, OpenLockFile(s) PROVE BackupPrivate'
  BY <1>1 DEF OpenLockFile
<1>2. ASSUME NEW s \in Sessions, CreateStaging(s) PROVE BackupPrivate'
  BY <1>2 DEF CreateStaging
<1>3. ASSUME NEW s \in Sessions, FinishStaging(s) PROVE BackupPrivate'
  BY <1>3 DEF FinishStaging
<1>4. ASSUME NEW s \in Sessions, CarryMode(s) PROVE BackupPrivate'
  BY <1>4 DEF CarryMode
<1>5. ASSUME NEW s \in Sessions, GateSwap(s) PROVE BackupPrivate'
  BY <1>5 DEF GateSwap
<1>6. ASSUME NEW s \in Sessions, ClaimBackup(s) PROVE BackupPrivate'
  BY <1>6 DEF ClaimBackup
<1>7. ASSUME NEW s \in Sessions, ChmodBackup(s) PROVE BackupPrivate'
  BY <1>7 DEF ChmodBackup
<1>8. ASSUME NEW s \in Sessions, CopyBackup(s) PROVE BackupPrivate'
  BY <1>8 DEF CopyBackup
<1>9. ASSUME NEW s \in Sessions, Rename(s) PROVE BackupPrivate'
  BY <1>9 DEF Rename
<1>10. ASSUME NEW s \in Sessions, SyncParent(s) PROVE BackupPrivate'
  BY <1>10 DEF SyncParent
<1>11. ASSUME NEW s \in Sessions, Fail(s) PROVE BackupPrivate'
  BY <1>11 DEF Fail
<1>12. ASSUME NEW s \in Sessions, DropBackup(s) PROVE BackupPrivate'
  BY <1>12 DEF DropBackup
<1>13. ASSUME NEW s \in Sessions, RemoveStaging(s) PROVE BackupPrivate'
  BY <1>13 DEF RemoveStaging
<1>14. ASSUME NEW w \in Outsiders, Replace(w) PROVE BackupPrivate'
  BY <1>14 DEF Replace
<1>15. CASE Writeback
  BY <1>15 DEF Writeback
<1>16. CASE PowerLoss
  BY <1>16 DEF PowerLoss
<1>. QED
  BY <1>0, <1>1, <1>2, <1>3, <1>4, <1>5, <1>6, <1>7, <1>8, <1>9, <1>10,
     <1>11, <1>12, <1>13, <1>14, <1>15, <1>16, FileKinds DEF Touches

\* Neither the replacement nor a backup with content in it is readable by more
\* than the archive it was made from, at any moment, on disk or in memory
\* (commit_swap: the mode is carried before the rename, the backup's before
\* the copy).
THEOREM PermissionsSafe == Spec => []NoWidening
<1> DEFINE Inv == TypeInv /\ SourceInv /\ ModeCarried /\ BackupPrivate
<1>1. Init => Inv
  BY TypeInit, SourceInit, SessionAssumption
     DEF Init, ModeCarried, BackupPrivate, Files
<1>2. Inv /\ [Next]_vars => Inv'
  BY TypeStep, FileStep, SourceStep, ModeCarriedStep, BackupPrivateStep
     DEF TypeInv
<1>3. Inv => NoWidening
  BY DEF ModeCarried, BackupPrivate, NoWidening
<1>. QED
  BY <1>1, <1>2, <1>3, PTL DEF Spec

-----------------------------------------------------------------------------
(* What a crash leaves.                                                    *)

\* A finished staging file and an outsider's file are whole and on disk, and
\* only such files are named.
NamedAreWhole ==
  /\ \A s \in Sessions :
       pc[s] \in {"finished", "carried", "claim", "claimed", "filling", "swap"} =>
         s \in intact \cap synced
  /\ Outsiders \subseteq intact \cap synced
  /\ {dir.path, ddir.path} \subseteq intact \cap synced

\* A claimed backup name stays its session's until the swap, and the copy is
\* there before the swap.
BackupHeld ==
  \A s \in Sessions :
    /\ pc[s] \in {"claimed", "filling", "dropBackup"} => dir.backup = s
    /\ pc[s] = "claim" => wants[s]
    /\ pc[s] = "swap" /\ wants[s] => dir.backup = s /\ bakOf[s] = fd[s]

RecoverInv == NamedAreWhole /\ BackupHeld /\ BackupBeforeSwap /\ OrphansAreCrashes

\* Files are only ever completed and written back, never cut.
LEMMA NamedAreWholeStep == TypeInv /\ RecoverInv /\ [Next]_vars => NamedAreWhole'
<1> SUFFICES ASSUME TypeInv, RecoverInv, [Next]_vars PROVE NamedAreWhole'
  OBVIOUS
<1> USE SessionAssumption DEF TypeInv, TypeOK, FileKnown, Goto, fileVars,
     dirVars, dataVars, envVars, callVars, Early, Validating, Directories,
     Files, RecoverInv, NamedAreWhole
<1>0. CASE Calm
  BY <1>0 DEF Calm
<1>1. ASSUME NEW s \in Sessions, OpenLockFile(s) PROVE NamedAreWhole'
  BY <1>1 DEF OpenLockFile
<1>2. ASSUME NEW s \in Sessions, CreateStaging(s) PROVE NamedAreWhole'
  BY <1>2 DEF CreateStaging
<1>3. ASSUME NEW s \in Sessions, FinishStaging(s) PROVE NamedAreWhole'
  BY <1>3 DEF FinishStaging
<1>4. ASSUME NEW s \in Sessions, CarryMode(s) PROVE NamedAreWhole'
  BY <1>4 DEF CarryMode
<1>5. ASSUME NEW s \in Sessions, GateSwap(s) PROVE NamedAreWhole'
  BY <1>5 DEF GateSwap
<1>6. ASSUME NEW s \in Sessions, ClaimBackup(s) PROVE NamedAreWhole'
  BY <1>6 DEF ClaimBackup
<1>7. ASSUME NEW s \in Sessions, ChmodBackup(s) PROVE NamedAreWhole'
  BY <1>7 DEF ChmodBackup
<1>8. ASSUME NEW s \in Sessions, CopyBackup(s) PROVE NamedAreWhole'
  BY <1>8 DEF CopyBackup
<1>9. ASSUME NEW s \in Sessions, Rename(s) PROVE NamedAreWhole'
  BY <1>9 DEF Rename
<1>10. ASSUME NEW s \in Sessions, SyncParent(s) PROVE NamedAreWhole'
  BY <1>10 DEF SyncParent
<1>11. ASSUME NEW s \in Sessions, Fail(s) PROVE NamedAreWhole'
  BY <1>11 DEF Fail
<1>12. ASSUME NEW s \in Sessions, DropBackup(s) PROVE NamedAreWhole'
  BY <1>12 DEF DropBackup
<1>13. ASSUME NEW s \in Sessions, RemoveStaging(s) PROVE NamedAreWhole'
  BY <1>13 DEF RemoveStaging
<1>14. ASSUME NEW w \in Outsiders, Replace(w) PROVE NamedAreWhole'
  BY <1>14 DEF Replace
<1>15. CASE Writeback
  BY <1>15 DEF Writeback
<1>16. CASE PowerLoss
  BY <1>16 DEF PowerLoss
<1>. QED
  BY <1>0, <1>1, <1>2, <1>3, <1>4, <1>5, <1>6, <1>7, <1>8, <1>9, <1>10,
     <1>11, <1>12, <1>13, <1>14, <1>15, <1>16, FileKinds DEF Touches

\* A backup is dropped by the session that claimed it, before its rename.
LEMMA BackupHeldStep == TypeInv /\ RecoverInv /\ [Next]_vars => BackupHeld'
<1> SUFFICES ASSUME TypeInv, RecoverInv, [Next]_vars PROVE BackupHeld'
  OBVIOUS
<1> USE SessionAssumption DEF TypeInv, TypeOK, FileKnown, Goto, fileVars,
     dirVars, dataVars, envVars, callVars, Early, Validating, Directories,
     Ended, Writing, RecoverInv, BackupHeld
<1>0. CASE Calm
  BY <1>0 DEF Calm
<1>1. ASSUME NEW s \in Sessions, OpenLockFile(s) PROVE BackupHeld'
  BY <1>1 DEF OpenLockFile
<1>2. ASSUME NEW s \in Sessions, CreateStaging(s) PROVE BackupHeld'
  BY <1>2 DEF CreateStaging
<1>3. ASSUME NEW s \in Sessions, FinishStaging(s) PROVE BackupHeld'
  BY <1>3 DEF FinishStaging
<1>4. ASSUME NEW s \in Sessions, CarryMode(s) PROVE BackupHeld'
  BY <1>4 DEF CarryMode
<1>5. ASSUME NEW s \in Sessions, GateSwap(s) PROVE BackupHeld'
  BY <1>5 DEF GateSwap
<1>6. ASSUME NEW s \in Sessions, ClaimBackup(s) PROVE BackupHeld'
  BY <1>6 DEF ClaimBackup
<1>7. ASSUME NEW s \in Sessions, ChmodBackup(s) PROVE BackupHeld'
  BY <1>7 DEF ChmodBackup
<1>8. ASSUME NEW s \in Sessions, CopyBackup(s) PROVE BackupHeld'
  BY <1>8 DEF CopyBackup
<1>9. ASSUME NEW s \in Sessions, Rename(s) PROVE BackupHeld'
  BY <1>9 DEF Rename
<1>10. ASSUME NEW s \in Sessions, SyncParent(s) PROVE BackupHeld'
  BY <1>10 DEF SyncParent
<1>11. ASSUME NEW s \in Sessions, Fail(s) PROVE BackupHeld'
  BY <1>11 DEF Fail
<1>12. ASSUME NEW s \in Sessions, DropBackup(s) PROVE BackupHeld'
  BY <1>12 DEF DropBackup
<1>13. ASSUME NEW s \in Sessions, RemoveStaging(s) PROVE BackupHeld'
  BY <1>13 DEF RemoveStaging
<1>14. ASSUME NEW w \in Outsiders, Replace(w) PROVE BackupHeld'
  BY <1>14 DEF Replace
<1>15. CASE Writeback
  BY <1>15 DEF Writeback
<1>16. CASE PowerLoss
  BY <1>16 DEF PowerLoss
<1>. QED
  BY <1>0, <1>1, <1>2, <1>3, <1>4, <1>5, <1>6, <1>7, <1>8, <1>9, <1>10,
     <1>11, <1>12, <1>13, <1>14, <1>15, <1>16, FileKinds DEF Touches

\* The rename finds the backup, and the disk sees them in that order.
LEMMA BackupBeforeSwapStep == TypeInv /\ SourceInv /\ RecoverInv /\ [Next]_vars => BackupBeforeSwap'
<1> SUFFICES ASSUME TypeInv, SourceInv, RecoverInv, [Next]_vars PROVE BackupBeforeSwap'
  OBVIOUS
<1> USE SessionAssumption DEF TypeInv, TypeOK, FileKnown, Goto, fileVars,
     dirVars, dataVars, envVars, callVars, Early, Validating, Directories,
     Files, Ended, Writing, SourceInv, UnbornUnseen, Unborn, RecoverInv,
     BackupHeld, BackupBeforeSwap
<1>0. CASE Calm
  BY <1>0 DEF Calm
<1>1. ASSUME NEW s \in Sessions, OpenLockFile(s) PROVE BackupBeforeSwap'
  BY <1>1 DEF OpenLockFile
<1>2. ASSUME NEW s \in Sessions, CreateStaging(s) PROVE BackupBeforeSwap'
  BY <1>2 DEF CreateStaging
<1>3. ASSUME NEW s \in Sessions, FinishStaging(s) PROVE BackupBeforeSwap'
  BY <1>3 DEF FinishStaging
<1>4. ASSUME NEW s \in Sessions, CarryMode(s) PROVE BackupBeforeSwap'
  BY <1>4 DEF CarryMode
<1>5. ASSUME NEW s \in Sessions, GateSwap(s) PROVE BackupBeforeSwap'
  BY <1>5 DEF GateSwap
<1>6. ASSUME NEW s \in Sessions, ClaimBackup(s) PROVE BackupBeforeSwap'
  BY <1>6 DEF ClaimBackup
<1>7. ASSUME NEW s \in Sessions, ChmodBackup(s) PROVE BackupBeforeSwap'
  BY <1>7 DEF ChmodBackup
<1>8. ASSUME NEW s \in Sessions, CopyBackup(s) PROVE BackupBeforeSwap'
  BY <1>8 DEF CopyBackup
<1>9. ASSUME NEW s \in Sessions, Rename(s) PROVE BackupBeforeSwap'
  BY <1>9 DEF Rename
<1>10. ASSUME NEW s \in Sessions, SyncParent(s) PROVE BackupBeforeSwap'
  BY <1>10 DEF SyncParent
<1>11. ASSUME NEW s \in Sessions, Fail(s) PROVE BackupBeforeSwap'
  BY <1>11 DEF Fail
<1>12. ASSUME NEW s \in Sessions, DropBackup(s) PROVE BackupBeforeSwap'
  BY <1>12, SMTT(30) DEF DropBackup
<1>13. ASSUME NEW s \in Sessions, RemoveStaging(s) PROVE BackupBeforeSwap'
  BY <1>13 DEF RemoveStaging
<1>14. ASSUME NEW w \in Outsiders, Replace(w) PROVE BackupBeforeSwap'
  BY <1>14 DEF Replace
<1>15. CASE Writeback
  BY <1>15 DEF Writeback
<1>16. CASE PowerLoss
  BY <1>16 DEF PowerLoss
<1>. QED
  BY <1>0, <1>1, <1>2, <1>3, <1>4, <1>5, <1>6, <1>7, <1>8, <1>9, <1>10,
     <1>11, <1>12, <1>13, <1>14, <1>15, <1>16, FileKinds DEF Touches

\* Every way out of a commit passes the clean-up or the rename.
LEMMA OrphansStep == TypeInv /\ RecoverInv /\ [Next]_vars => OrphansAreCrashes'
<1> SUFFICES ASSUME TypeInv, RecoverInv, [Next]_vars PROVE OrphansAreCrashes'
  OBVIOUS
<1> USE SessionAssumption DEF TypeInv, TypeOK, FileKnown, Goto, fileVars,
     dirVars, dataVars, envVars, callVars, Early, Validating, Directories,
     Writing, Ended, RecoverInv, OrphansAreCrashes
<1>0. CASE Calm
  BY <1>0 DEF Calm
<1>1. ASSUME NEW s \in Sessions, OpenLockFile(s) PROVE OrphansAreCrashes'
  BY <1>1 DEF OpenLockFile
<1>2. ASSUME NEW s \in Sessions, CreateStaging(s) PROVE OrphansAreCrashes'
  BY <1>2 DEF CreateStaging
<1>3. ASSUME NEW s \in Sessions, FinishStaging(s) PROVE OrphansAreCrashes'
  BY <1>3 DEF FinishStaging
<1>4. ASSUME NEW s \in Sessions, CarryMode(s) PROVE OrphansAreCrashes'
  BY <1>4 DEF CarryMode
<1>5. ASSUME NEW s \in Sessions, GateSwap(s) PROVE OrphansAreCrashes'
  BY <1>5 DEF GateSwap
<1>6. ASSUME NEW s \in Sessions, ClaimBackup(s) PROVE OrphansAreCrashes'
  BY <1>6 DEF ClaimBackup
<1>7. ASSUME NEW s \in Sessions, ChmodBackup(s) PROVE OrphansAreCrashes'
  BY <1>7 DEF ChmodBackup
<1>8. ASSUME NEW s \in Sessions, CopyBackup(s) PROVE OrphansAreCrashes'
  BY <1>8 DEF CopyBackup
<1>9. ASSUME NEW s \in Sessions, Rename(s) PROVE OrphansAreCrashes'
  BY <1>9 DEF Rename
<1>10. ASSUME NEW s \in Sessions, SyncParent(s) PROVE OrphansAreCrashes'
  BY <1>10 DEF SyncParent
<1>11. ASSUME NEW s \in Sessions, Fail(s) PROVE OrphansAreCrashes'
  BY <1>11 DEF Fail
<1>12. ASSUME NEW s \in Sessions, DropBackup(s) PROVE OrphansAreCrashes'
  BY <1>12 DEF DropBackup
<1>13. ASSUME NEW s \in Sessions, RemoveStaging(s) PROVE OrphansAreCrashes'
  BY <1>13 DEF RemoveStaging
<1>14. ASSUME NEW w \in Outsiders, Replace(w) PROVE OrphansAreCrashes'
  BY <1>14 DEF Replace
<1>15. CASE Writeback
  BY <1>15 DEF Writeback
<1>16. CASE PowerLoss
  BY <1>16 DEF PowerLoss
<1>. QED
  BY <1>0, <1>1, <1>2, <1>3, <1>4, <1>5, <1>6, <1>7, <1>8, <1>9, <1>10,
     <1>11, <1>12, <1>13, <1>14, <1>15, <1>16, FileKinds DEF Touches

\* At the start the archive is alone.
LEMMA RecoverInit == Init => RecoverInv
  BY SessionAssumption
     DEF Init, RecoverInv, NamedAreWhole, BackupHeld, BackupBeforeSwap,
         OrphansAreCrashes, Files

\* The parts of the recovery invariant together.
LEMMA RecoverStep == TypeInv /\ SourceInv /\ RecoverInv /\ [Next]_vars => RecoverInv'
  BY NamedAreWholeStep, BackupHeldStep, BackupBeforeSwapStep, OrphansStep
     DEF RecoverInv

\* Killed, failed or powered off at any step, the commit leaves a whole archive
\* at the pathname, after the backup it was asked for, and a staging file only
\* if the process died (commit_changes, "Crash safety").
THEOREM RecoverSafe == Spec => []Recoverable
<1> DEFINE Inv == TypeInv /\ SourceInv /\ RecoverInv
<1>1. Init => Inv
  BY TypeInit, SourceInit, RecoverInit
<1>2. Inv /\ [Next]_vars => Inv'
  BY TypeStep, FileStep, SourceStep, RecoverStep DEF TypeInv
<1>3. Inv => Recoverable
  BY DEF RecoverInv, NamedAreWhole, Recoverable, ArchiveIntact
<1>. QED
  BY <1>1, <1>2, <1>3, PTL DEF Spec

\* No session overwrites or removes a backup it did not create: create_new
\* claims only a free name, and only the claimant removes it.
THEOREM BackupSafe == Spec => BackupNoClobber
<1> DEFINE Inv == TypeInv /\ SourceInv /\ RecoverInv
           Act == dir'.backup # dir.backup /\ outages' = outages =>
                    \E s \in Sessions :
                      \/ dir.backup = None /\ dir'.backup = s /\ pc[s] = "claim"
                      \/ dir.backup = s /\ dir'.backup = None /\ pc[s] = "dropBackup"
<1>1. Init => Inv
  BY TypeInit, SourceInit, RecoverInit
<1>2. Inv /\ [Next]_vars => Inv'
  BY TypeStep, FileStep, SourceStep, RecoverStep DEF TypeInv
<1>3. Inv /\ [Next]_vars => Act
  <2> SUFFICES ASSUME Inv, [Next]_vars, dir'.backup # dir.backup, outages' = outages
               PROVE  \E s \in Sessions :
                        \/ dir.backup = None /\ dir'.backup = s /\ pc[s] = "claim"
                        \/ dir.backup = s /\ dir'.backup = None /\ pc[s] = "dropBackup"
    OBVIOUS
  <2> USE DEF TypeInv, TypeOK, Directories, Goto, fileVars, dirVars, envVars
  <2>1. ASSUME NEW s \in Sessions, OpenLockFile(s) PROVE FALSE
    BY <2>1 DEF OpenLockFile
  <2>2. ASSUME NEW s \in Sessions, CreateStaging(s) PROVE FALSE
    BY <2>2 DEF CreateStaging
  <2>3. ASSUME NEW s \in Sessions, FinishStaging(s) PROVE FALSE
    BY <2>3 DEF FinishStaging
  <2>4. ASSUME NEW s \in Sessions, CarryMode(s) PROVE FALSE
    BY <2>4 DEF CarryMode
  <2>5. ASSUME NEW s \in Sessions, GateSwap(s) PROVE FALSE
    BY <2>5 DEF GateSwap
  <2>6. ASSUME NEW s \in Sessions, ClaimBackup(s)
        PROVE  dir.backup = None /\ dir'.backup = s /\ pc[s] = "claim"
    BY <2>6 DEF ClaimBackup
  <2>7. ASSUME NEW s \in Sessions, ChmodBackup(s) PROVE FALSE
    BY <2>7 DEF ChmodBackup
  <2>8. ASSUME NEW s \in Sessions, CopyBackup(s) PROVE FALSE
    BY <2>8 DEF CopyBackup
  <2>9. ASSUME NEW s \in Sessions, Rename(s) PROVE FALSE
    BY <2>9 DEF Rename
  <2>10. ASSUME NEW s \in Sessions, SyncParent(s) PROVE FALSE
    BY <2>10 DEF SyncParent
  <2>11. ASSUME NEW s \in Sessions, Fail(s) PROVE FALSE
    BY <2>11 DEF Fail
  <2>12. ASSUME NEW s \in Sessions, DropBackup(s)
        PROVE  dir.backup = s /\ dir'.backup = None /\ pc[s] = "dropBackup"
    BY <2>12 DEF DropBackup, RecoverInv, BackupHeld
  <2>13. ASSUME NEW s \in Sessions, RemoveStaging(s) PROVE FALSE
    BY <2>13 DEF RemoveStaging
  <2>14. ~ Calm
    BY DEF Calm
  <2>15. \A w \in Outsiders : ~ Replace(w)
    BY DEF Replace
  <2>16. ~ Writeback /\ ~ PowerLoss
    BY DEF Writeback, PowerLoss
  <2>. QED
    BY <2>1, <2>2, <2>3, <2>4, <2>5, <2>6, <2>7, <2>8, <2>9, <2>10, <2>11,
       <2>12, <2>13, <2>14, <2>15, <2>16, FileKinds
       DEF Touches
<1>4. Inv /\ [Next]_vars => [Act]_vars
  BY <1>3
<1>. QED
  BY <1>1, <1>2, <1>4, PTL DEF Spec, BackupNoClobber

-----------------------------------------------------------------------------
(* What the caller is told.                                                *)

\* The answer is given once: at the rename, at an error, or for an empty
\* queue.
AnswerInv ==
  \A s \in Sessions :
    /\ pc[s] \in {"idle"} \cup Early \cup Writing \cup {"claimed", "filling", "swap"} =>
         result[s] = "none"
    /\ pc[s] \in Validating \cup Writing \cup {"claimed", "filling", "swap", "installed"} =>
         queued[s]
    /\ pc[s] \in {"dropBackup", "cleanup"} => result[s] = "error"
    /\ pc[s] = "installed" => result[s] = "ok"

\* An answer is never taken back.
LEMMA AnswerStep == TypeInv /\ AnswerInv /\ [Next]_vars => AnswerInv'
<1> SUFFICES ASSUME TypeInv, AnswerInv, [Next]_vars PROVE AnswerInv'
  OBVIOUS
<1> USE SessionAssumption DEF TypeInv, TypeOK, FileKnown, Goto, fileVars,
     dirVars, dataVars, envVars, callVars, Early, Validating, Writing, Ended,
     AnswerInv, Locking
<1>1. ASSUME NEW s \in Sessions, OpenLockFile(s) PROVE AnswerInv'
  BY <1>1 DEF OpenLockFile
<1>2. ASSUME NEW s \in Sessions, TryLock(s) PROVE AnswerInv'
  BY <1>2 DEF TryLock
<1>3. ASSUME NEW s \in Sessions, GateProbe(s) PROVE AnswerInv'
  BY <1>3 DEF GateProbe
<1>4. ASSUME NEW s \in Sessions, Probe(s) PROVE AnswerInv'
  BY <1>4 DEF Probe
<1>5. ASSUME NEW s \in Sessions, GateBind(s) PROVE AnswerInv'
  BY <1>5 DEF GateBind
<1>6. ASSUME NEW s \in Sessions, ReadBegin(s) PROVE AnswerInv'
  BY <1>6 DEF ReadBegin
<1>7. ASSUME NEW s \in Sessions, ReadOpen(s) PROVE AnswerInv'
  BY <1>7 DEF ReadOpen
<1>8. ASSUME NEW s \in Sessions, ReadEnd(s) PROVE AnswerInv'
  BY <1>8 DEF ReadEnd
<1>9. ASSUME NEW s \in Sessions, ReadFails(s) PROVE AnswerInv'
  BY <1>9 DEF ReadFails
<1>10. ASSUME NEW s \in Sessions, Queue(s) PROVE AnswerInv'
  BY <1>10 DEF Queue
<1>11. ASSUME NEW s \in Sessions, ClearOperations(s) PROVE AnswerInv'
  BY <1>11 DEF ClearOperations
<1>12. ASSUME NEW s \in Sessions, Discard(s) PROVE AnswerInv'
  BY <1>12 DEF Discard
<1>13. ASSUME NEW s \in Sessions, CommitChanges(s) PROVE AnswerInv'
  BY <1>13 DEF CommitChanges
<1>14. ASSUME NEW s \in Sessions, GateExtras(s) PROVE AnswerInv'
  BY <1>14 DEF GateExtras
<1>15. ASSUME NEW s \in Sessions, LoadSourceExtras(s) PROVE AnswerInv'
  BY <1>15 DEF LoadSourceExtras
<1>16. ASSUME NEW s \in Sessions, TryCommitReturns(s) PROVE AnswerInv'
  BY <1>16 DEF TryCommitReturns
<1>17. ASSUME NEW s \in Sessions, CreateStaging(s) PROVE AnswerInv'
  BY <1>17 DEF CreateStaging
<1>18. ASSUME NEW s \in Sessions, GateReplay(s) PROVE AnswerInv'
  BY <1>18 DEF GateReplay
<1>19. ASSUME NEW s \in Sessions, FinishStaging(s) PROVE AnswerInv'
  BY <1>19 DEF FinishStaging
<1>20. ASSUME NEW s \in Sessions, CarryMode(s) PROVE AnswerInv'
  BY <1>20 DEF CarryMode
<1>21. ASSUME NEW s \in Sessions, GateSwap(s) PROVE AnswerInv'
  BY <1>21 DEF GateSwap
<1>22. ASSUME NEW s \in Sessions, ClaimBackup(s) PROVE AnswerInv'
  BY <1>22 DEF ClaimBackup
<1>23. ASSUME NEW s \in Sessions, ChmodBackup(s) PROVE AnswerInv'
  BY <1>23 DEF ChmodBackup
<1>24. ASSUME NEW s \in Sessions, CopyBackup(s) PROVE AnswerInv'
  BY <1>24 DEF CopyBackup
<1>25. ASSUME NEW s \in Sessions, Rename(s) PROVE AnswerInv'
  BY <1>25 DEF Rename
<1>26. ASSUME NEW s \in Sessions, SyncParent(s) PROVE AnswerInv'
  BY <1>26 DEF SyncParent
<1>27. ASSUME NEW s \in Sessions, Fail(s) PROVE AnswerInv'
  BY <1>27 DEF Fail
<1>28. ASSUME NEW s \in Sessions, DropBackup(s) PROVE AnswerInv'
  BY <1>28 DEF DropBackup
<1>29. ASSUME NEW s \in Sessions, RemoveStaging(s) PROVE AnswerInv'
  BY <1>29 DEF RemoveStaging
<1>30. ASSUME NEW s \in Sessions, Close(s) PROVE AnswerInv'
  BY <1>30 DEF Close
<1>31. ASSUME NEW s \in Sessions, Crash(s) PROVE AnswerInv'
  BY <1>31 DEF Crash
<1>32. ASSUME NEW w \in Outsiders, Replace(w) PROVE AnswerInv'
  BY <1>32 DEF Replace
<1>33. CASE Writeback
  BY <1>33 DEF Writeback
<1>34. CASE PowerLoss
  BY <1>34 DEF PowerLoss
<1>35. CASE UNCHANGED vars
  BY <1>35 DEF vars
<1>. QED
  BY <1>1, <1>2, <1>3, <1>4, <1>5, <1>6, <1>7, <1>8, <1>9, <1>10, <1>11,
     <1>12, <1>13, <1>14, <1>15, <1>16, <1>17, <1>18, <1>19, <1>20, <1>21,
     <1>22, <1>23, <1>24, <1>25, <1>26, <1>27, <1>28, <1>29, <1>30, <1>31,
     <1>32, <1>33, <1>34, <1>35 DEF Next, Library, Caller

\* Until a power loss, what a session has put under the shared names goes with
\* what it has answered.
OwnTraces ==
  outages = 0 =>
    \A s \in Sessions :
      /\ dir.backup = s =>
           /\ wants[s]
           /\ \/ pc[s] \in {"claimed", "filling", "swap", "dropBackup", "crashed"}
              \/ pc[s] \in {"installed", "closing", "done"} /\ result[s] = "ok"
      /\ dir.path = s =>
           \/ pc[s] = "crashed"
           \/ pc[s] \in {"installed", "closing", "done"} /\ result[s] = "ok"

\* Only its own commit puts a session's file or backup there.
LEMMA OwnTracesStep ==
  TypeInv /\ RecoverInv /\ AnswerInv /\ OwnTraces /\ [Next]_vars => OwnTraces'
<1> SUFFICES ASSUME TypeInv, RecoverInv, AnswerInv, OwnTraces, [Next]_vars
             PROVE  OwnTraces'
  OBVIOUS
<1> USE SessionAssumption DEF TypeInv, TypeOK, FileKnown, Goto, fileVars,
     dirVars, dataVars, envVars, callVars, Early, Validating, Directories,
     Writing, Ended, Locking, RecoverInv, BackupHeld, OwnTraces
<1>1. ASSUME NEW s \in Sessions, OpenLockFile(s) PROVE OwnTraces'
  BY <1>1 DEF OpenLockFile
<1>2. ASSUME NEW s \in Sessions, TryLock(s) PROVE OwnTraces'
  BY <1>2, SMTT(30) DEF TryLock
<1>3. ASSUME NEW s \in Sessions, GateProbe(s) PROVE OwnTraces'
  BY <1>3 DEF GateProbe
<1>4. ASSUME NEW s \in Sessions, Probe(s) PROVE OwnTraces'
  BY <1>4 DEF Probe
<1>5. ASSUME NEW s \in Sessions, GateBind(s) PROVE OwnTraces'
  BY <1>5 DEF GateBind
<1>6. ASSUME NEW s \in Sessions, ReadBegin(s) PROVE OwnTraces'
  BY <1>6 DEF ReadBegin
<1>7. ASSUME NEW s \in Sessions, ReadOpen(s) PROVE OwnTraces'
  BY <1>7 DEF ReadOpen
<1>8. ASSUME NEW s \in Sessions, ReadEnd(s) PROVE OwnTraces'
  BY <1>8 DEF ReadEnd
<1>9. ASSUME NEW s \in Sessions, ReadFails(s) PROVE OwnTraces'
  BY <1>9 DEF ReadFails
<1>10. ASSUME NEW s \in Sessions, Queue(s) PROVE OwnTraces'
  BY <1>10 DEF Queue
<1>11. ASSUME NEW s \in Sessions, ClearOperations(s) PROVE OwnTraces'
  BY <1>11 DEF ClearOperations
<1>12. ASSUME NEW s \in Sessions, Discard(s) PROVE OwnTraces'
  BY <1>12 DEF Discard
<1>13. ASSUME NEW s \in Sessions, CommitChanges(s) PROVE OwnTraces'
  BY <1>13 DEF CommitChanges
<1>14. ASSUME NEW s \in Sessions, GateExtras(s) PROVE OwnTraces'
  BY <1>14 DEF GateExtras
<1>15. ASSUME NEW s \in Sessions, LoadSourceExtras(s) PROVE OwnTraces'
  BY <1>15 DEF LoadSourceExtras
<1>16. ASSUME NEW s \in Sessions, TryCommitReturns(s) PROVE OwnTraces'
  BY <1>16 DEF TryCommitReturns
<1>17. ASSUME NEW s \in Sessions, CreateStaging(s) PROVE OwnTraces'
  BY <1>17 DEF CreateStaging
<1>18. ASSUME NEW s \in Sessions, GateReplay(s) PROVE OwnTraces'
  BY <1>18 DEF GateReplay
<1>19. ASSUME NEW s \in Sessions, FinishStaging(s) PROVE OwnTraces'
  BY <1>19 DEF FinishStaging
<1>20. ASSUME NEW s \in Sessions, CarryMode(s) PROVE OwnTraces'
  BY <1>20 DEF CarryMode
<1>21. ASSUME NEW s \in Sessions, GateSwap(s) PROVE OwnTraces'
  BY <1>21 DEF GateSwap
<1>22. ASSUME NEW s \in Sessions, ClaimBackup(s) PROVE OwnTraces'
  BY <1>22 DEF ClaimBackup
<1>23. ASSUME NEW s \in Sessions, ChmodBackup(s) PROVE OwnTraces'
  BY <1>23 DEF ChmodBackup
<1>24. ASSUME NEW s \in Sessions, CopyBackup(s) PROVE OwnTraces'
  BY <1>24 DEF CopyBackup
<1>25. ASSUME NEW s \in Sessions, Rename(s) PROVE OwnTraces'
  BY <1>25 DEF Rename
<1>26. ASSUME NEW s \in Sessions, SyncParent(s) PROVE OwnTraces'
  BY <1>26 DEF SyncParent
<1>27. ASSUME NEW s \in Sessions, Fail(s) PROVE OwnTraces'
  BY <1>27 DEF Fail
<1>28. ASSUME NEW s \in Sessions, DropBackup(s) PROVE OwnTraces'
  BY <1>28 DEF DropBackup
<1>29. ASSUME NEW s \in Sessions, RemoveStaging(s) PROVE OwnTraces'
  BY <1>29 DEF RemoveStaging
<1>30. ASSUME NEW s \in Sessions, Close(s) PROVE OwnTraces'
  BY <1>30 DEF Close
<1>31. ASSUME NEW s \in Sessions, Crash(s) PROVE OwnTraces'
  BY <1>31 DEF Crash
<1>32. ASSUME NEW w \in Outsiders, Replace(w) PROVE OwnTraces'
  BY <1>32 DEF Replace
<1>33. CASE Writeback
  BY <1>33 DEF Writeback
<1>34. CASE PowerLoss
  BY <1>34 DEF PowerLoss
<1>35. CASE UNCHANGED vars
  BY <1>35 DEF vars
<1>. QED
  BY <1>1, <1>2, <1>3, <1>4, <1>5, <1>6, <1>7, <1>8, <1>9, <1>10, <1>11,
     <1>12, <1>13, <1>14, <1>15, <1>16, <1>17, <1>18, <1>19, <1>20, <1>21,
     <1>22, <1>23, <1>24, <1>25, <1>26, <1>27, <1>28, <1>29, <1>30, <1>31,
     <1>32, <1>33, <1>34, <1>35 DEF Next, Library, Caller

\* A commit that returned an error left no staging file, no backup of its own
\* and not its own file as the archive, unless the power went (the clean-up of
\* commit_session and commit_swap).
THEOREM ErrorsAreClean == Spec => []ErrorLeavesNothing
<1> DEFINE Inv == TypeInv /\ SourceInv /\ RecoverInv /\ AnswerInv /\ OwnTraces
<1>1. Init => Inv
  BY TypeInit, SourceInit, RecoverInit, SessionAssumption
     DEF Init, AnswerInv, OwnTraces, Early, Validating, Writing
<1>2. Inv /\ [Next]_vars => Inv'
  BY TypeStep, FileStep, SourceStep, RecoverStep, AnswerStep, OwnTracesStep
     DEF TypeInv
<1>3. Inv => ErrorLeavesNothing
  BY DEF RecoverInv, OrphansAreCrashes, OwnTraces, ErrorLeavesNothing, Writing
<1>. QED
  BY <1>1, <1>2, <1>3, PTL DEF Spec

-----------------------------------------------------------------------------
(* The sessions implement the register.                                    *)

\* The outcome of one session is settled by a step of that session alone.
LEMMA SettlesOne ==
  ASSUME NEW s \in Sessions, NEW v,
         Outcome'[s] = v,
         \A t \in Sessions \ {s} : Outcome'[t] = Outcome[t]
  PROVE  Outcome' = [Outcome EXCEPT ![s] = v]
  BY DEF Outcome

\* A step of one session that leaves the archive's bytes alone is a stutter of
\* the register, or drops the session's edits.
LEMMA OneSession ==
  ASSUME NEW s \in Sessions,
         \A t \in Sessions \ {s} :
           pc'[t] = pc[t] /\ result'[t] = result[t] /\ queued'[t] = queued[t],
         edits'[dir'.path] = edits[dir.path],
         \/ Outcome'[s] = Outcome[s]
         \/ Outcome[s] = "pending" /\ Outcome'[s] = "dropped"
  PROVE  [Atomic!Next]_(Atomic!vars)
<1>1. \A t \in Sessions \ {s} : Outcome'[t] = Outcome[t]
  BY DEF Outcome
<1>2. CASE Outcome'[s] = Outcome[s]
  <2>1. \A t \in Sessions : Outcome'[t] = Outcome[t]
    BY <1>1, <1>2
  <2>2. Outcome' = Outcome
    BY <2>1 DEF Outcome
  <2>. QED
    BY <2>2 DEF Atomic!vars
<1>3. CASE Outcome[s] = "pending" /\ Outcome'[s] = "dropped"
  <2>1. Outcome' = [Outcome EXCEPT ![s] = "dropped"]
    BY <1>1, <1>3, SettlesOne
  <2>2. Atomic!Drop(s)
    BY <2>1, <1>3 DEF Atomic!Drop
  <2>. QED
    BY <2>2 DEF Atomic!Next
<1>. QED
  BY <1>2, <1>3


\* A rename applies the session's edits; any other end drops them.
LEMMA RegisterStep ==
  ASSUME Outsiders = {}, MaxOutages = 0
  PROVE  TypeInv /\ SourceInv /\ LockedIsCurrent /\ AnswerInv /\ [Next]_vars
           => [Atomic!Next]_(Atomic!vars)
<1> SUFFICES ASSUME TypeInv, SourceInv, LockedIsCurrent, AnswerInv, [Next]_vars
             PROVE  [Atomic!Next]_(Atomic!vars)
  OBVIOUS
<1> USE SessionAssumption DEF TypeInv, TypeOK, FileKnown, Goto, fileVars,
     dirVars, dataVars, envVars, callVars, Early, Validating, Writing, Ended,
     Locking, Files, Directories, SourceInv, StagedFromLocked, UnbornUnseen,
     Unborn, LockedIsCurrent, AnswerInv
<1>1. ASSUME NEW s \in Sessions, OpenLockFile(s) PROVE [Atomic!Next]_(Atomic!vars)
  BY <1>1, OneSession DEF OpenLockFile, Outcome
<1>2. ASSUME NEW s \in Sessions, TryLock(s) PROVE [Atomic!Next]_(Atomic!vars)
  BY <1>2, OneSession, SMTT(30) DEF TryLock, Outcome
<1>3. ASSUME NEW s \in Sessions, GateProbe(s) PROVE [Atomic!Next]_(Atomic!vars)
  BY <1>3, OneSession DEF GateProbe, Outcome
<1>4. ASSUME NEW s \in Sessions, Probe(s) PROVE [Atomic!Next]_(Atomic!vars)
  BY <1>4, OneSession DEF Probe, Outcome
<1>5. ASSUME NEW s \in Sessions, GateBind(s) PROVE [Atomic!Next]_(Atomic!vars)
  BY <1>5, OneSession DEF GateBind, Outcome
<1>6. ASSUME NEW s \in Sessions, ReadBegin(s) PROVE [Atomic!Next]_(Atomic!vars)
  BY <1>6, OneSession DEF ReadBegin, Outcome
<1>7. ASSUME NEW s \in Sessions, ReadOpen(s) PROVE [Atomic!Next]_(Atomic!vars)
  BY <1>7, OneSession DEF ReadOpen, Outcome
<1>8. ASSUME NEW s \in Sessions, ReadEnd(s) PROVE [Atomic!Next]_(Atomic!vars)
  BY <1>8, OneSession, SMTT(30) DEF ReadEnd, Outcome
<1>9. ASSUME NEW s \in Sessions, ReadFails(s) PROVE [Atomic!Next]_(Atomic!vars)
  BY <1>9, OneSession DEF ReadFails, Outcome
<1>10. ASSUME NEW s \in Sessions, Queue(s) PROVE [Atomic!Next]_(Atomic!vars)
  BY <1>10, OneSession DEF Queue, Outcome
<1>11. ASSUME NEW s \in Sessions, ClearOperations(s) PROVE [Atomic!Next]_(Atomic!vars)
  BY <1>11, OneSession DEF ClearOperations, Outcome
<1>12. ASSUME NEW s \in Sessions, Discard(s) PROVE [Atomic!Next]_(Atomic!vars)
  BY <1>12, OneSession DEF Discard, Outcome
<1>13. ASSUME NEW s \in Sessions, CommitChanges(s) PROVE [Atomic!Next]_(Atomic!vars)
  BY <1>13, OneSession, SMTT(30) DEF CommitChanges, Outcome
<1>14. ASSUME NEW s \in Sessions, GateExtras(s) PROVE [Atomic!Next]_(Atomic!vars)
  BY <1>14, OneSession, SMTT(30) DEF GateExtras, Outcome
<1>15. ASSUME NEW s \in Sessions, LoadSourceExtras(s) PROVE [Atomic!Next]_(Atomic!vars)
  BY <1>15, OneSession DEF LoadSourceExtras, Outcome
<1>16. ASSUME NEW s \in Sessions, TryCommitReturns(s) PROVE [Atomic!Next]_(Atomic!vars)
  <2>1. \A t \in Sessions \ {s} :
          pc'[t] = pc[t] /\ result'[t] = result[t] /\ queued'[t] = queued[t]
    BY <1>16 DEF TryCommitReturns
  <2>2. edits'[dir'.path] = edits[dir.path]
    BY <1>16 DEF TryCommitReturns
  <2>3. \/ Outcome'[s] = Outcome[s]
        \/ Outcome[s] = "pending" /\ Outcome'[s] = "dropped"
    BY <1>16 DEF TryCommitReturns, Outcome
  <2>. QED
    BY <2>1, <2>2, <2>3, OneSession
<1>17. ASSUME NEW s \in Sessions, CreateStaging(s) PROVE [Atomic!Next]_(Atomic!vars)
  BY <1>17, OneSession DEF CreateStaging, Outcome
<1>18. ASSUME NEW s \in Sessions, GateReplay(s) PROVE [Atomic!Next]_(Atomic!vars)
  BY <1>18, OneSession DEF GateReplay, Outcome
<1>19. ASSUME NEW s \in Sessions, FinishStaging(s) PROVE [Atomic!Next]_(Atomic!vars)
  <2>1. \A t \in Sessions \ {s} :
          pc'[t] = pc[t] /\ result'[t] = result[t] /\ queued'[t] = queued[t]
    BY <1>19 DEF FinishStaging
  <2>2. dir.path # s
    BY <1>19 DEF FinishStaging
  <2>3. edits'[dir'.path] = edits[dir.path]
    BY <2>2, <1>19 DEF FinishStaging
  <2>4. Outcome'[s] = Outcome[s]
    BY <1>19 DEF FinishStaging, Outcome
  <2>. QED
    BY <2>1, <2>3, <2>4, OneSession
<1>20. ASSUME NEW s \in Sessions, CarryMode(s) PROVE [Atomic!Next]_(Atomic!vars)
  BY <1>20, OneSession DEF CarryMode, Outcome
<1>21. ASSUME NEW s \in Sessions, GateSwap(s) PROVE [Atomic!Next]_(Atomic!vars)
  BY <1>21, OneSession DEF GateSwap, Outcome
<1>22. ASSUME NEW s \in Sessions, ClaimBackup(s) PROVE [Atomic!Next]_(Atomic!vars)
  BY <1>22, OneSession DEF ClaimBackup, Outcome
<1>23. ASSUME NEW s \in Sessions, ChmodBackup(s) PROVE [Atomic!Next]_(Atomic!vars)
  BY <1>23, OneSession DEF ChmodBackup, Outcome
<1>24. ASSUME NEW s \in Sessions, CopyBackup(s) PROVE [Atomic!Next]_(Atomic!vars)
  BY <1>24, OneSession DEF CopyBackup, Outcome
<1>25. ASSUME NEW s \in Sessions, Rename(s) PROVE [Atomic!Next]_(Atomic!vars)
  <2>1. edits'[dir'.path] = edits[dir.path] \cup {s}
    BY <1>25 DEF Rename
  <2>2. Outcome[s] = "pending"
    BY <1>25 DEF Rename, Outcome
  <2>3. Outcome'[s] = "applied"
    BY <1>25 DEF Rename, Outcome
  <2>4. \A t \in Sessions \ {s} : Outcome'[t] = Outcome[t]
    BY <1>25 DEF Rename, Outcome
  <2>5. Outcome' = [Outcome EXCEPT ![s] = "applied"]
    BY <2>3, <2>4, SettlesOne
  <2>6. Atomic!Apply(s)
    BY <2>1, <2>2, <2>5 DEF Atomic!Apply
  <2>. QED
    BY <2>6 DEF Atomic!Next
<1>26. ASSUME NEW s \in Sessions, SyncParent(s) PROVE [Atomic!Next]_(Atomic!vars)
  BY <1>26, OneSession DEF SyncParent, Outcome
<1>27. ASSUME NEW s \in Sessions, Fail(s) PROVE [Atomic!Next]_(Atomic!vars)
  BY <1>27, OneSession, SMTT(30) DEF Fail, Outcome
<1>28. ASSUME NEW s \in Sessions, DropBackup(s) PROVE [Atomic!Next]_(Atomic!vars)
  BY <1>28, OneSession DEF DropBackup, Outcome
<1>29. ASSUME NEW s \in Sessions, RemoveStaging(s) PROVE [Atomic!Next]_(Atomic!vars)
  BY <1>29, OneSession DEF RemoveStaging, Outcome
<1>30. ASSUME NEW s \in Sessions, Close(s) PROVE [Atomic!Next]_(Atomic!vars)
  BY <1>30, OneSession DEF Close, Outcome
<1>31. ASSUME NEW s \in Sessions, Crash(s) PROVE [Atomic!Next]_(Atomic!vars)
  BY <1>31, OneSession DEF Crash, Outcome
<1>32. ASSUME NEW w \in Outsiders, Replace(w) PROVE [Atomic!Next]_(Atomic!vars)
  BY <1>32 DEF Replace
<1>33. CASE Writeback
  BY <1>33 DEF Writeback, Outcome, Atomic!vars
<1>34. CASE PowerLoss
  BY <1>34 DEF PowerLoss
<1>35. CASE UNCHANGED vars
  BY <1>35 DEF vars, Outcome, Atomic!vars
<1>. QED
  BY <1>1, <1>2, <1>3, <1>4, <1>5, <1>6, <1>7, <1>8, <1>9, <1>10, <1>11,
     <1>12, <1>13, <1>14, <1>15, <1>16, <1>17, <1>18, <1>19, <1>20, <1>21,
     <1>22, <1>23, <1>24, <1>25, <1>26, <1>27, <1>28, <1>29, <1>30, <1>31,
     <1>32, <1>33, <1>34, <1>35 DEF Next, Library, Caller

\* Cooperating sessions on a machine that stays up implement the register: the
\* queued edits of a session enter the archive in one step or not at all, and
\* commit_changes answers which.
THEOREM SessionsImplementRegister ==
  ASSUME Outsiders = {}, MaxOutages = 0
  PROVE  Spec => ImplementsAtomicArchive
<1> DEFINE Inv == TypeInv /\ Owns /\ SourceInv /\ LockedIsCurrent /\ AnswerInv
<1>1. Init => Inv
  BY TypeInit, SourceInit
     DEF Init, Owns, LockedIsCurrent, AnswerInv, Early, Locking, Validating, Writing
<1>2. Inv /\ [Next]_vars => Inv'
  BY TypeStep, FileStep, OwnsStep, SourceStep, LockedIsCurrentStep, AnswerStep
     DEF TypeInv
<1>3. Init => Atomic!Init
  <2> SUFFICES ASSUME Init PROVE Atomic!Init
    OBVIOUS
  <2>1. edits[dir.path] = {}
    BY SessionAssumption DEF Init, Files
  <2>2. Outcome = [s \in Sessions |-> "pending"]
    BY DEF Init, Outcome, Ended
  <2>. QED
    BY <2>1, <2>2 DEF Atomic!Init
<1>4. Inv /\ [Next]_vars => [Atomic!Next]_(Atomic!vars)
  BY RegisterStep
<1>. QED
  BY <1>1, <1>2, <1>3, <1>4, PTL DEF Spec, Atomic!Spec, ImplementsAtomicArchive

-----------------------------------------------------------------------------
(* The replay: ArchiveRewrite.                                             *)

-----------------------------------------------------------------------------
(* The claims of the gate, one after another.                              *)

\* Two claims that stand in each other's way, as Collide says of entries.
Bars(kind, p, other, q) ==
  \/ p = q /\ "file" \in {kind, other}
  \/ kind = "file" /\ p \in Above[q]

\* One claim after another, as the gate records them.
After(claims, ns, n) ==
  IF n = 0 THEN NoPaths ELSE Record(ns[n - 1], claims[n].kind, claims[n].path)

Namespaced(claims) ==
  CHOOSE ns : ns = [n \in 0..Len(claims) |->
                      IF n = 0 THEN NoPaths
                      ELSE Record(ns[n - 1], claims[n].kind, claims[n].path)]

ClaimLists == Seq([kind : Kinds, path : Paths])

\* What a list is made of.
LEMMA InList ==
  ASSUME NEW S, NEW s \in Seq(S)
  PROVE  /\ Len(s) \in Nat /\ DOMAIN s = 1..Len(s)
         /\ \A n \in 1..Len(s) : s[n] \in S
  OBVIOUS

\* A record, accepted or not, leaves sets of paths.
LEMMA RecordTyped ==
  ASSUME NEW n \in Namespaces, NEW k \in Kinds, NEW p \in Paths
  PROVE  Record(n, k, p) \in Namespaces
  BY PathAssumption
     DEF Record, RecordFile, RecordDir, Swept, Namespaces, Kinds

\* The namespaces of a list of claims exist.
LEMMA NamespacesExist ==
  ASSUME NEW claims \in ClaimLists
  PROVE  /\ Namespaced(claims) \in [0..Len(claims) -> Namespaces]
         /\ \A n \in 0..Len(claims) :
              Namespaced(claims)[n] = After(claims, Namespaced(claims), n)
<1> DEFINE L == Len(claims)
           F == [0..L -> Namespaces]
           Good(g, n) == \A k \in 0..n : g[k] = After(claims, g, k)
           Bad == {n \in 0..L : \A g \in F : ~Good(g, n)}
<1>1. L \in Nat /\ \A n \in 1..L : claims[n].kind \in Kinds /\ claims[n].path \in Paths
  <2>1. L \in Nat /\ \A n \in 1..L : claims[n] \in [kind : Kinds, path : Paths]
    BY InList DEF ClaimLists
  <2>. QED
    BY <2>1
<1>2. Bad = {}
  <2> SUFFICES ASSUME Bad # {} PROVE FALSE
    OBVIOUS
  <2>1. Bad \in SUBSET Nat
    BY <1>1
  <2>2. PICK m \in Bad : \A y \in Bad : m <= y
    <3> HIDE DEF Bad
    <3>. QED
      BY <2>1, HasLeast
  <2>3. NoPaths \in Namespaces
    BY DEF NoPaths, Namespaces
  <2>4. m # 0
    <3>1. Good([n \in 0..L |-> NoPaths], 0)
      BY <1>1 DEF After
    <3>2. [n \in 0..L |-> NoPaths] \in F
      BY <2>3
    <3>. QED
      BY <3>1, <3>2
  <2>5. m \in 1..L /\ m - 1 \in 0..L /\ m - 1 \notin Bad
    <3>1. m \in 1..L /\ m - 1 \in 0..L
      BY <1>1, <2>2, <2>4
    <3>2. ~ (m <= m - 1)
      BY <3>1
    <3>. QED
      BY <2>2, <3>1, <3>2
  <2>6. PICK g \in F : Good(g, m - 1)
    BY <2>5
  <2> DEFINE x == Record(g[m - 1], claims[m].kind, claims[m].path)
             h == [g EXCEPT ![m] = x]
  <2>7. x \in Namespaces
    BY <1>1, <2>5, <2>6, RecordTyped
  <2>8. h \in F /\ h[m] = x /\ \A k \in 0..(m - 1) : h[k] = g[k]
    <3> HIDE DEF x
    <3>. QED
      BY <2>5, <2>6, <2>7
  <2>9. Good(h, m)
    <3> SUFFICES ASSUME NEW k \in 0..m PROVE h[k] = After(claims, h, k)
      OBVIOUS
    <3>1. CASE k = m
      <4>1. h[m - 1] = g[m - 1]
        BY <2>5, <2>8
      <4>. QED
        BY <2>5, <2>8, <3>1, <4>1 DEF After
    <3>2. CASE k # m
      <4>1. k \in 0..(m - 1) /\ (k # 0 => k - 1 \in 0..(m - 1))
        BY <2>5, <3>2
      <4>2. h[k] = g[k] /\ (k # 0 => h[k - 1] = g[k - 1])
        BY <2>8, <4>1
      <4>. QED
        BY <2>6, <4>1, <4>2 DEF After
    <3>. QED
      BY <3>1, <3>2
  <2>. QED
    BY <2>2, <2>8, <2>9
<1>3. PICK g \in F : Good(g, L)
  BY <1>1, <1>2
<1>4. g = [n \in 0..L |-> IF n = 0 THEN NoPaths
                         ELSE Record(g[n - 1], claims[n].kind, claims[n].path)]
  BY <1>3 DEF After
<1>5. Namespaced(claims)
        = [n \in 0..L |-> IF n = 0 THEN NoPaths
             ELSE Record(Namespaced(claims)[n - 1], claims[n].kind, claims[n].path)]
  BY <1>4 DEF Namespaced
<1> DEFINE ns == Namespaced(claims)
<1>6. \A n \in 0..L : ns[n] = After(claims, ns, n)
  BY <1>5 DEF After
<1>7. DOMAIN ns = 0..L /\ ns = [n \in 0..L |-> ns[n]]
  <2>1. \A e : DOMAIN [n \in 0..L |-> e] = 0..L
    OBVIOUS
  <2>. QED
    BY <1>5
<1> DEFINE Untyped == {n \in 0..L : ns[n] \notin Namespaces}
<1>8. Untyped = {}
  <2> SUFFICES ASSUME Untyped # {} PROVE FALSE
    OBVIOUS
  <2>1. Untyped \in SUBSET Nat
    BY <1>1
  <2>2. PICK m \in Untyped : \A y \in Untyped : m <= y
    <3> HIDE DEF Untyped
    <3>. QED
      BY <2>1, HasLeast
  <2>3. NoPaths \in Namespaces
    BY DEF NoPaths, Namespaces
  <2>4. m # 0
    BY <1>6, <2>2, <2>3 DEF After
  <2>5. m \in 1..L /\ m - 1 \in 0..L /\ ns[m - 1] \in Namespaces
    BY <1>1, <2>2, <2>4
  <2>6. ns[m] = Record(ns[m - 1], claims[m].kind, claims[m].path)
    BY <1>6, <2>5 DEF After
  <2>7. ns[m] \in Namespaces
    BY <1>1, <2>5, <2>6, RecordTyped
  <2>. QED
    BY <2>2, <2>7
<1>. QED
  BY <1>6, <1>7, <1>8

\* What a record that fits adds: the path, and whatever lies above it.
LEMMA RecordAdds ==
  ASSUME NEW n \in Namespaces, NEW k \in Kinds, NEW p \in Paths, Fits(n, k, p)
  PROVE  /\ Record(n, k, p).files = n.files \cup (IF k = "file" THEN {p} ELSE {})
         /\ Record(n, k, p).dirs
              = n.dirs \cup Above[p] \cup (IF k = "dir" THEN {p} ELSE {})
<1>1. Above[p] \cap n.files = {} /\ p \notin n.files
  BY DEF Fits, FileFits, DirFits, UnderFile, Kinds
<1>2. Swept(n, p) = Above[p]
  BY <1>1, PathAssumption DEF Swept
<1>3. CASE k = "file"
  <2>1. p \notin n.files \cup n.dirs
    BY <1>3 DEF Fits, FileFits
  <2>. QED
    BY <1>2, <1>3, <2>1 DEF Record, RecordFile, Namespaces
<1>4. CASE k = "dir"
  BY <1>1, <1>2, <1>4 DEF Record, RecordDir, Namespaces, UnderFile
<1>. QED
  BY <1>3, <1>4 DEF Kinds

\* The namespace of claims that fit holds their paths and what is above them.
LEMMA NamespaceOfFitting ==
  ASSUME NEW claims \in ClaimLists, NEW m \in 0..Len(claims),
         \A n \in 1..m : Fits(Namespaced(claims)[n - 1],
                              claims[n].kind, claims[n].path)
  PROVE  LET ns == Namespaced(claims)[m] IN
         \A p : /\ p \in ns.files <=>
                     \E n \in 1..m : claims[n].kind = "file" /\ claims[n].path = p
                /\ p \in ns.dirs <=>
                     \E n \in 1..m : \/ claims[n].kind = "dir" /\ claims[n].path = p
                                     \/ p \in Above[claims[n].path]
<1> DEFINE ns == Namespaced(claims)
           FileClaims(n, p) == p \in ns[n].files <=>
             \E i \in 1..n : claims[i].kind = "file" /\ claims[i].path = p
           Dirs(n, p) == p \in ns[n].dirs <=>
             \E i \in 1..n : \/ claims[i].kind = "dir" /\ claims[i].path = p
                             \/ p \in Above[claims[i].path]
           Bad == {n \in 0..m : ~ \A p : FileClaims(n, p) /\ Dirs(n, p)}
<1>1. /\ m \in Nat /\ Len(claims) \in Nat
      /\ \A n \in 1..Len(claims) : claims[n] \in [kind : Kinds, path : Paths]
  <2>1. /\ Len(claims) \in Nat
        /\ \A n \in 1..Len(claims) : claims[n] \in [kind : Kinds, path : Paths]
    BY InList DEF ClaimLists
  <2>. QED
    BY <2>1
<1>2. Bad = {}
  <2> SUFFICES ASSUME Bad # {} PROVE FALSE
    OBVIOUS
  <2>1. Bad \in SUBSET Nat
    BY <1>1
  <2>2. PICK t \in Bad : \A y \in Bad : t <= y
    <3> HIDE DEF Bad
    <3>. QED
      BY <2>1, HasLeast
  <2>3. t \in 0..m /\ t \in Nat
    BY <1>1, <2>2
  <2>4. t # 0
    <3>1. ns[0] = NoPaths
      BY <1>1, NamespacesExist DEF After
    <3>. QED
      BY <2>2, <3>1 DEF NoPaths
  <2>5. t \in 1..m /\ t - 1 \in 0..m /\ t \in 1..Len(claims)
        /\ t - 1 \in 0..Len(claims)
    BY <1>1, <2>3, <2>4
  <2>6. t - 1 \notin Bad
    <3>1. ~ (t <= t - 1)
      BY <2>3
    <3>. QED
      BY <2>2, <3>1
  <2>7. \A p : FileClaims(t - 1, p) /\ Dirs(t - 1, p)
    BY <2>5, <2>6
  <2> DEFINE k == claims[t].kind
             q == claims[t].path
  <2>8. k \in Kinds /\ q \in Paths
    BY <1>1, <2>5
  <2>9. ns[t] = Record(ns[t - 1], k, q) /\ ns[t - 1] \in Namespaces
    BY <2>4, <2>5, NamespacesExist DEF After
  <2>10. Fits(ns[t - 1], k, q)
    BY <2>5
  <2>11. /\ ns[t].files = ns[t - 1].files \cup (IF k = "file" THEN {q} ELSE {})
         /\ ns[t].dirs = ns[t - 1].dirs \cup Above[q]
                            \cup (IF k = "dir" THEN {q} ELSE {})
    BY <2>8, <2>9, <2>10, RecordAdds
  <2>12. 1..t = 1..(t - 1) \cup {t}
    BY <2>3, <2>5
  <2>13. ASSUME NEW p PROVE FileClaims(t, p)
    <3>1. p \in ns[t].files <=> p \in ns[t - 1].files \/ (k = "file" /\ p = q)
      BY <2>11
    <3>. QED
      BY <2>7, <2>12, <3>1
  <2>14. ASSUME NEW p PROVE Dirs(t, p)
    <3>1. p \in ns[t].dirs <=>
            p \in ns[t - 1].dirs \/ p \in Above[q] \/ (k = "dir" /\ p = q)
      BY <2>11
    <3>. QED
      BY <2>7, <2>12, <3>1
  <2>. QED
    BY <2>2, <2>13, <2>14
<1>3. m \in 0..m /\ m \notin Bad
  BY <1>1, <1>2
<1>. QED
  BY <1>3

\* All claims fit, each where those before it were recorded, exactly when no
\* two of them bar each other.
LEMMA FitsUnlessBarred ==
  ASSUME NEW claims \in ClaimLists
  PROVE  (\A n \in 1..Len(claims) :
            Fits(Namespaced(claims)[n - 1], claims[n].kind, claims[n].path))
         <=> \A n, m \in 1..Len(claims) : n # m =>
               ~Bars(claims[n].kind, claims[n].path, claims[m].kind, claims[m].path)
<1> DEFINE L == Len(claims)
           ns == Namespaced(claims)
           K(n) == claims[n].kind
           P(n) == claims[n].path
           Ok(n) == Fits(ns[n - 1], K(n), P(n))
           Free(n, m) == ~Bars(K(n), P(n), K(m), P(m))
<1>1. /\ L \in Nat
      /\ \A n \in 1..L : K(n) \in Kinds /\ P(n) \in Paths
  <2>1. L \in Nat /\ \A n \in 1..L : claims[n] \in [kind : Kinds, path : Paths]
    BY InList DEF ClaimLists
  <2>. QED
    BY <2>1
<1>2. ASSUME NEW t \in 1..L, \A n \in 1..(t - 1) : Ok(n)
      PROVE  Ok(t) <=> \A n \in 1..(t - 1) : Free(n, t) /\ Free(t, n)
  <2>1. t - 1 \in 0..L
    BY <1>1
  <2>2. \A p : /\ p \in ns[t - 1].files <=>
                    \E n \in 1..(t - 1) : K(n) = "file" /\ P(n) = p
               /\ p \in ns[t - 1].dirs <=>
                    \E n \in 1..(t - 1) : \/ K(n) = "dir" /\ P(n) = p
                                          \/ p \in Above[P(n)]
    BY <1>2, <2>1, NamespaceOfFitting
  <2>3. \A n \in 1..(t - 1) : n \in 1..L
    BY <1>1
  <2>4. K(t) \in Kinds /\ P(t) \in Paths /\ \A n \in 1..(t - 1) : K(n) \in Kinds
    BY <1>1, <2>3
  <2>5. CASE K(t) = "file"
    <3>1. Ok(t) <=> /\ P(t) \notin ns[t - 1].files /\ P(t) \notin ns[t - 1].dirs
                    /\ \A a \in Above[P(t)] : a \notin ns[t - 1].files
      BY <2>5 DEF Fits, FileFits, UnderFile
    <3>2. Ok(t) <=> \A n \in 1..(t - 1) :
            /\ ~(K(n) = "file" /\ P(n) = P(t))
            /\ ~(K(n) = "dir" /\ P(n) = P(t)) /\ P(t) \notin Above[P(n)]
            /\ ~(K(n) = "file" /\ P(n) \in Above[P(t)])
      <4> HIDE DEF ns, K, P
      <4>. QED
        BY <2>2, <3>1
    <3>. QED
      BY <2>4, <2>5, <3>2 DEF Bars, Kinds
  <2>6. CASE K(t) = "dir"
    <3>1. Ok(t) <=> /\ P(t) \notin ns[t - 1].files
                    /\ \A a \in Above[P(t)] : a \notin ns[t - 1].files
      BY <2>6 DEF Fits, DirFits, UnderFile
    <3>2. Ok(t) <=> \A n \in 1..(t - 1) :
            /\ ~(K(n) = "file" /\ P(n) = P(t))
            /\ ~(K(n) = "file" /\ P(n) \in Above[P(t)])
      <4> HIDE DEF ns, K, P
      <4>. QED
        BY <2>2, <3>1
    <3>. QED
      BY <2>4, <2>6, <3>2 DEF Bars, Kinds
  <2>. QED
    BY <2>4, <2>5, <2>6 DEF Kinds
<1> HIDE DEF Ok, Free, L
<1>3. ASSUME \A n \in 1..L : Ok(n), NEW n \in 1..L, NEW m \in 1..L, n # m
      PROVE  Free(n, m)
  <2>1. \/ n \in 1..(m - 1)
        \/ m \in 1..(n - 1)
    BY <1>1, <1>3
  <2>2. \A t \in 1..L : \A k \in 1..(t - 1) : Ok(k)
    BY <1>1, <1>3
  <2>. QED
    BY <1>2, <1>3, <2>1, <2>2
<1>4. ASSUME \A n, m \in 1..L : n # m => Free(n, m)
      PROVE  \A n \in 1..L : Ok(n)
  <2> DEFINE Bad == {n \in 1..L : ~Ok(n)}
  <2> SUFFICES ASSUME Bad # {} PROVE FALSE
    OBVIOUS
  <2>1. Bad \in SUBSET Nat
    BY <1>1
  <2>2. PICK t \in Bad : \A y \in Bad : t <= y
    <3> HIDE DEF Bad
    <3>. QED
      BY <2>1, HasLeast
  <2>3. \A n \in 1..(t - 1) : n \in 1..L /\ Ok(n) /\ n # t
    BY <1>1, <2>2
  <2>4. \A n \in 1..(t - 1) : Free(n, t) /\ Free(t, n)
    BY <1>4, <2>2, <2>3
  <2>5. Ok(t)
    BY <1>2, <2>2, <2>3, <2>4
  <2>. QED
    BY <2>2, <2>5
<1>5. (\A n \in 1..L : Ok(n)) <=> \A n, m \in 1..L : n # m => Free(n, m)
  BY <1>3, <1>4
<1>. QED
  BY <1>5 DEF Ok, Free, L

-----------------------------------------------------------------------------
(* What a commit would write, in one line: the entries of the archive, the *)
(* queued directories, the queued files.                                   *)

Places == 1..(Len(archive) + Len(addedDirs) + Len(added))

PathAt(k) ==
  IF k <= Len(archive) THEN archive[k].path
  ELSE IF k <= Len(archive) + Len(addedDirs) THEN addedDirs[k - Len(archive)]
  ELSE added[k - Len(archive) - Len(addedDirs)].path

TypeAt(k) ==
  IF k <= Len(archive) THEN archive[k].type
  ELSE IF k <= Len(archive) + Len(addedDirs) THEN "dir"
  ELSE "file"

\* Those the commit keeps.
Staying == {k \in Places : k <= Len(archive) => k \in Kept}

NothingBars ==
  \A k, l \in Staying : k # l => ~Bars(TypeAt(k), PathAt(k), TypeAt(l), PathAt(l))

\* The types of the entries and of the queue, one by one.
LEMMA ListTypes ==
  ASSUME RewriteTypeOK
  PROVE  /\ Len(archive) \in Nat /\ DOMAIN archive = 1..Len(archive)
         /\ \A i \in 1..Len(archive) : archive[i] \in Entries
         /\ Len(addedDirs) \in Nat /\ DOMAIN addedDirs = 1..Len(addedDirs)
         /\ \A i \in 1..Len(addedDirs) : addedDirs[i] \in Paths \ Wild
         /\ Len(added) \in Nat /\ DOMAIN added = 1..Len(added)
         /\ \A i \in 1..Len(added) : added[i] \in Adds
         /\ Len(out) \in Nat /\ DOMAIN out = 1..Len(out)
         /\ \A i \in 1..Len(out) : out[i] \in Entries
  BY InList DEF RewriteTypeOK

\* The items are claims.
LEMMA ItemTypes ==
  ASSUME RewriteTypeOK, NEW k \in Staying
  PROVE  TypeAt(k) \in Kinds /\ PathAt(k) \in Paths
<1>1. k \in Places /\ (k <= Len(archive) => k \in Kept)
  BY DEF Staying
<1>2. CASE k <= Len(archive)
  <2>1. k \in 1..Len(archive) /\ k \in Kept
    BY <1>1, <1>2, ListTypes DEF Places
  <2>2. archive[k] \in Entries /\ archive[k].type # "link"
    BY <2>1, ListTypes DEF Kept, Drops
  <2>. QED
    BY <1>2, <2>2 DEF TypeAt, PathAt, Entries, Types, Kinds
<1>3. CASE ~(k <= Len(archive)) /\ k <= Len(archive) + Len(addedDirs)
  <2>1. k - Len(archive) \in 1..Len(addedDirs)
    BY <1>1, <1>3, ListTypes DEF Places
  <2>. QED
    BY <1>3, <2>1, ListTypes DEF TypeAt, PathAt, Kinds
<1>4. CASE ~(k <= Len(archive)) /\ ~(k <= Len(archive) + Len(addedDirs))
  <2>1. k - Len(archive) - Len(addedDirs) \in 1..Len(added)
    BY <1>1, <1>4, ListTypes DEF Places
  <2>2. added[k - Len(archive) - Len(addedDirs)] \in Adds
    BY <2>1, ListTypes
  <2>. QED
    BY <1>4, <2>2 DEF TypeAt, PathAt, Kinds, Adds
<1>. QED
  BY <1>2, <1>3, <1>4

\* The gate's claims are the items that stay, each once.
LEMMA ClaimsAreItems ==
  ASSUME RewriteTypeOK
  PROVE  /\ Claims \in ClaimLists
         /\ \E pos \in [1..Len(Claims) -> Staying] :
              /\ \A n \in 1..Len(Claims) :
                   /\ Claims[n].kind = TypeAt(pos[n])
                   /\ Claims[n].path = PathAt(pos[n])
              /\ \A n, m \in 1..Len(Claims) : n # m => pos[n] # pos[m]
              /\ \A k \in Staying : \E n \in 1..Len(Claims) : pos[n] = k
<1> DEFINE T == [kind : Kinds, path : Paths]
           kept == Ascending(Kept)
           C == Cardinality(Kept)
           A == Len(archive)
           D == Len(addedDirs)
           B == Len(added)
           a == [n \in DOMAIN kept |-> Claim(archive[kept[n]].type, archive[kept[n]].path)]
           b == [n \in DOMAIN addedDirs |-> Claim("dir", addedDirs[n])]
           c == [n \in DOMAIN added |-> Claim("file", added[n].path)]
           pos == [n \in 1..Len(Claims) |-> IF n <= C THEN kept[n] ELSE n - C + A]
<1>1. /\ A \in Nat /\ D \in Nat /\ B \in Nat
      /\ DOMAIN archive = 1..A /\ DOMAIN addedDirs = 1..D /\ DOMAIN added = 1..B
  BY ListTypes
<1>2. Kept \in SUBSET (1..A) /\ IsFiniteSet(Kept) /\ Kept \in SUBSET Nat /\ C \in Nat
  <2>1. Kept \in SUBSET (1..A)
    BY <1>1 DEF Kept
  <2> HIDE DEF A
  <2>. QED
    BY <1>1, <2>1, PartOfRun
<1>3. /\ kept \in [1..C -> Kept] /\ Range(kept) = Kept
      /\ \A n \in 1..C : Cardinality({y \in Kept : y <= kept[n]}) = n
  BY <1>2, AscendingLists
<1>4. \A i \in Kept : archive[i].type \in Kinds /\ archive[i].path \in Paths
  <2>1. \A i \in Kept : archive[i] \in Entries /\ archive[i].type # "link"
    BY <1>2, ListTypes DEF Kept, Drops
  <2>. QED
    BY <2>1 DEF Entries, Types, Kinds
<1>5. a \in Seq(T) /\ Len(a) = C /\ DOMAIN a = 1..C
  <2>1. \A n \in 1..C : a[n] \in T
    BY <1>3, <1>4 DEF Claim
  <2>2. a \in [1..C -> T]
    BY <1>3, <2>1
  <2> HIDE DEF a, T
  <2>. QED
    BY <1>2, <2>2
<1>6. b \in Seq(T) /\ Len(b) = D /\ DOMAIN b = 1..D
  <2>1. \A n \in 1..D : b[n] \in T
    BY <1>1, ListTypes DEF Claim, Kinds
  <2>2. b \in [1..D -> T]
    BY <1>1, <2>1
  <2> HIDE DEF b, T
  <2>. QED
    BY <1>1, <2>2
<1>7. c \in Seq(T) /\ Len(c) = B /\ DOMAIN c = 1..B
  <2>1. \A n \in 1..B : c[n] \in T
    <3>1. \A n \in 1..B : added[n].path \in Paths
      BY <1>1, ListTypes DEF Adds
    <3>. QED
      BY <1>1, <3>1 DEF Claim, Kinds
  <2>2. c \in [1..B -> T]
    BY <1>1, <2>1
  <2> HIDE DEF c, T
  <2>. QED
    BY <1>1, <2>2
<1>8. Claims = a \o b \o c
  BY DEF Claims
<1>9. /\ Claims \in Seq(T) /\ Len(Claims) = C + D + B
      /\ \A n \in 1..Len(Claims) :
           Claims[n] = IF n <= C THEN a[n]
                       ELSE IF n <= C + D THEN b[n - C]
                       ELSE c[n - C - D]
  <2> HIDE DEF a, b, c, T, C, D, B
  <2>1. LET s == a \o b \o c IN
         /\ s \in Seq(T) /\ Len(s) = Len(a) + Len(b) + Len(c)
         /\ \A n \in 1..Len(s) :
              s[n] = IF n <= Len(a) THEN a[n]
                     ELSE IF n <= Len(a) + Len(b) THEN b[n - Len(a)]
                     ELSE c[n - Len(a) - Len(b)]
    BY <1>5, <1>6, <1>7
  <2>. QED
    BY <1>5, <1>6, <1>7, <1>8, <2>1
<1>10. ASSUME NEW n \in 1..Len(Claims)
       PROVE  /\ pos[n] \in Staying
              /\ Claims[n].kind = TypeAt(pos[n]) /\ Claims[n].path = PathAt(pos[n])
  <2>1. n \in Nat /\ n >= 1 /\ n <= C + D + B
    BY <1>1, <1>2, <1>9
  <2>2. CASE n <= C
    <3>1. n \in 1..C /\ pos[n] = kept[n]
      BY <2>1, <2>2
    <3>2. kept[n] \in Kept /\ kept[n] \in 1..A
      BY <1>2, <1>3, <3>1
    <3>3. kept[n] \in Staying /\ kept[n] <= A
      BY <1>1, <3>2 DEF Staying, Places
    <3>4. Claims[n] = Claim(archive[kept[n]].type, archive[kept[n]].path)
      BY <1>3, <1>9, <2>2, <3>1
    <3>. QED
      BY <3>1, <3>3, <3>4 DEF Claim, TypeAt, PathAt
  <2>3. CASE ~(n <= C) /\ n <= C + D
    <3>1. pos[n] = n - C + A /\ n - C \in 1..D
      BY <1>1, <1>2, <2>1, <2>3
    <3>2. pos[n] \in Staying /\ ~(pos[n] <= A) /\ pos[n] <= A + D /\ pos[n] - A = n - C
      BY <1>1, <1>2, <3>1 DEF Staying, Places
    <3>3. Claims[n] = Claim("dir", addedDirs[n - C])
      BY <1>1, <1>9, <2>3, <3>1
    <3>. QED
      BY <3>2, <3>3 DEF Claim, TypeAt, PathAt
  <2>4. CASE ~(n <= C) /\ ~(n <= C + D)
    <3>1. pos[n] = n - C + A /\ n - C - D \in 1..B
      BY <1>1, <1>2, <2>1, <2>4
    <3>2. /\ pos[n] \in Staying /\ ~(pos[n] <= A) /\ ~(pos[n] <= A + D)
          /\ pos[n] - A - D = n - C - D
      BY <1>1, <1>2, <3>1 DEF Staying, Places
    <3>3. Claims[n] = Claim("file", added[n - C - D].path)
      BY <1>1, <1>9, <2>4, <3>1
    <3>. QED
      BY <3>2, <3>3 DEF Claim, TypeAt, PathAt
  <2>. QED
    BY <2>2, <2>3, <2>4
<1>11. ASSUME NEW n \in 1..Len(Claims), NEW m \in 1..Len(Claims), n # m
       PROVE  pos[n] # pos[m]
  <2>0. ASSUME NEW i \in 1..Len(Claims)
        PROVE  /\ i \in Nat /\ i >= 1
               /\ i \in 1..C => kept[i] \in 1..A /\ pos[i] = kept[i]
               /\ i \notin 1..C => pos[i] = i - C + A /\ pos[i] > A
    <3>1. i \in Nat /\ i >= 1
      BY <1>1, <1>2, <1>9
    <3>2. i \in 1..C => kept[i] \in 1..A
      BY <1>2, <1>3
    <3>3. pos[i] = IF i <= C THEN kept[i] ELSE i - C + A
      OBVIOUS
    <3> HIDE DEF pos, kept, C
    <3>. QED
      BY <1>1, <1>2, <3>1, <3>2, <3>3
  <2>1. /\ n \in Nat /\ m \in Nat /\ n >= 1 /\ m >= 1
        /\ n \in 1..C => kept[n] \in 1..A /\ pos[n] = kept[n]
        /\ m \in 1..C => kept[m] \in 1..A /\ pos[m] = kept[m]
        /\ n \notin 1..C => pos[n] = n - C + A /\ pos[n] > A
        /\ m \notin 1..C => pos[m] = m - C + A /\ pos[m] > A
    BY <2>0
  <2>2. CASE n \in 1..C /\ m \in 1..C
    <3>1. kept[n] # kept[m]
      BY <1>3, <1>11, <2>2
    <3>. QED
      BY <2>1, <2>2, <3>1
  <2> HIDE DEF pos, kept, C
  <2>. QED
    BY <1>1, <1>2, <1>11, <2>1, <2>2
<1>12. ASSUME NEW k \in Staying
       PROVE  \E n \in 1..Len(Claims) : pos[n] = k
  <2>1. k \in Places /\ (k <= A => k \in Kept)
    BY DEF Staying
  <2>2. CASE k <= A
    <3>1. PICK n \in 1..C : kept[n] = k
      BY <1>3, <2>1, <2>2 DEF Range
    <3>2. n \in 1..Len(Claims) /\ n <= C
      BY <1>1, <1>2, <1>9
    <3>. QED
      BY <3>1, <3>2
  <2>3. CASE ~(k <= A)
    <3> DEFINE n == k - A + C
    <3>1. n \in 1..Len(Claims) /\ ~(n <= C) /\ n - C + A = k
      BY <1>1, <1>2, <1>9, <2>1, <2>3 DEF Places
    <3>. QED
      BY <3>1
  <2>. QED
    BY <2>2, <2>3
<1>13. Claims \in ClaimLists
  BY <1>9 DEF ClaimLists
<1> HIDE DEF pos
<1>14. pos \in [1..Len(Claims) -> Staying]
  <2>1. pos = [n \in 1..Len(Claims) |-> pos[n]]
    BY DEF pos
  <2>. QED
    BY <1>10, <2>1
<1>. QED
  BY <1>10, <1>11, <1>12, <1>13, <1>14

\* The claims all fit exactly if no two items of the commit bar each other.
LEMMA ClaimsFitExactly ==
  ASSUME RewriteTypeOK
  PROVE  ClaimsFit <=> NothingBars
<1> DEFINE L == Len(Claims)
           K(n) == Claims[n].kind
           P(n) == Claims[n].path
<1>1. PICK pos \in [1..L -> Staying] :
        /\ \A n \in 1..L : K(n) = TypeAt(pos[n]) /\ P(n) = PathAt(pos[n])
        /\ \A n, m \in 1..L : n # m => pos[n] # pos[m]
        /\ \A k \in Staying : \E n \in 1..L : pos[n] = k
  BY ClaimsAreItems
<1>2. Claims \in ClaimLists
  BY ClaimsAreItems
<1>3. ClaimsFit <=> \A n \in 1..L : Fits(Namespaced(Claims)[n - 1], K(n), P(n))
  <2>1. DOMAIN Claims = 1..L
    BY <1>2, InList DEF ClaimLists
  <2>. QED
    BY <2>1 DEF ClaimsFit, Namespaced
<1>4. ClaimsFit <=> \A n, m \in 1..L : n # m => ~Bars(K(n), P(n), K(m), P(m))
  BY <1>2, <1>3, FitsUnlessBarred
<1>5. ASSUME NothingBars, NEW n \in 1..L, NEW m \in 1..L, n # m
      PROVE  ~Bars(K(n), P(n), K(m), P(m))
  <2>1. pos[n] \in Staying /\ pos[m] \in Staying /\ pos[n] # pos[m]
    BY <1>1, <1>5
  <2>. QED
    BY <1>1, <1>5, <2>1 DEF NothingBars
<1>6. ASSUME \A n, m \in 1..L : n # m => ~Bars(K(n), P(n), K(m), P(m)),
             NEW k \in Staying, NEW l \in Staying, k # l
      PROVE  ~Bars(TypeAt(k), PathAt(k), TypeAt(l), PathAt(l))
  <2>1. PICK n \in 1..L : pos[n] = k
    BY <1>1
  <2>2. PICK m \in 1..L : pos[m] = l
    BY <1>1
  <2>. QED
    BY <1>1, <1>6, <2>1, <2>2
<1>. QED
  BY <1>4, <1>5, <1>6 DEF NothingBars

\* The gate is exact, in any state of the queue.
LEMMA GateIsExact == RewriteTypeOK => GateExact
<1> SUFFICES ASSUME RewriteTypeOK, phase = "open", Refusal # "shape"
             PROVE  GateExact
  BY DEF GateExact
<1> DEFINE A == Len(archive)
           D == Len(addedDirs)
           B == Len(added)
           kept == {j \in DOMAIN archive : j \notin removed /\ archive[j].type # "link"}
           entries == {<<i, [path |-> archive[i].path, type |-> archive[i].type]>> :
                         i \in kept}
                   \cup {<<Len(archive) + i, [path |-> addedDirs[i], type |-> "dir"]>> :
                      i \in DOMAIN addedDirs}
                   \cup {<<Len(archive) + Len(addedDirs) + i,
                          [path |-> added[i].path, type |-> "file"]>> :
                      i \in DOMAIN added}
           item(k) == <<k, [path |-> PathAt(k), type |-> TypeAt(k)]>>
<1>1. /\ A \in Nat /\ D \in Nat /\ B \in Nat
      /\ DOMAIN archive = 1..A /\ DOMAIN addedDirs = 1..D /\ DOMAIN added = 1..B
  BY ListTypes
<1>2. kept = Kept
  BY DEF Kept, Drops
<1>3. ASSUME NEW k \in Staying PROVE item(k) \in entries
  <2>1. k \in Places /\ (k <= A => k \in Kept)
    BY DEF Staying
  <2>2. CASE k <= A
    BY <1>2, <2>1, <2>2 DEF PathAt, TypeAt
  <2>3. CASE ~(k <= A) /\ k <= A + D
    <3>1. k - A \in 1..D /\ A + (k - A) = k
      BY <1>1, <2>1, <2>3 DEF Places
    <3>2. item(k) = <<A + (k - A), [path |-> addedDirs[k - A], type |-> "dir"]>>
      BY <2>3, <3>1 DEF PathAt, TypeAt
    <3>. QED
      BY <1>1, <3>1, <3>2
  <2>4. CASE ~(k <= A) /\ ~(k <= A + D)
    <3>1. k - A - D \in 1..B /\ A + D + (k - A - D) = k
      BY <1>1, <2>1, <2>4 DEF Places
    <3>2. item(k) = <<A + D + (k - A - D),
                      [path |-> added[k - A - D].path, type |-> "file"]>>
      BY <2>4, <3>1 DEF PathAt, TypeAt
    <3>. QED
      BY <1>1, <3>1, <3>2
  <2>. QED
    BY <2>2, <2>3, <2>4
<1>4. ASSUME NEW e \in entries PROVE \E k \in Staying : e = item(k)
  <2>1. CASE \E i \in kept :
               e = <<i, [path |-> archive[i].path, type |-> archive[i].type]>>
    <3>1. PICK i \in kept :
            e = <<i, [path |-> archive[i].path, type |-> archive[i].type]>>
      BY <2>1
    <3>2. i \in 1..A /\ i <= A /\ i \in Kept
      BY <1>1, <1>2
    <3>3. i \in Staying
      BY <1>1, <3>2 DEF Staying, Places
    <3>. QED
      BY <3>1, <3>2, <3>3 DEF PathAt, TypeAt
  <2>2. CASE \E i \in DOMAIN addedDirs :
               e = <<A + i, [path |-> addedDirs[i], type |-> "dir"]>>
    <3>1. PICK i \in 1..D : e = <<A + i, [path |-> addedDirs[i], type |-> "dir"]>>
      BY <1>1, <2>2
    <3>2. A + i \in Staying /\ ~(A + i <= A) /\ A + i <= A + D /\ (A + i) - A = i
      BY <1>1 DEF Staying, Places
    <3>3. e = item(A + i)
      BY <3>1, <3>2 DEF PathAt, TypeAt
    <3>. QED
      BY <3>2, <3>3
  <2>3. CASE \E i \in DOMAIN added :
               e = <<A + D + i, [path |-> added[i].path, type |-> "file"]>>
    <3>1. PICK i \in 1..B :
            e = <<A + D + i, [path |-> added[i].path, type |-> "file"]>>
      BY <1>1, <2>3
    <3>2. /\ A + D + i \in Staying /\ ~(A + D + i <= A) /\ ~(A + D + i <= A + D)
          /\ (A + D + i) - A - D = i
      BY <1>1 DEF Staying, Places
    <3>3. e = item(A + D + i)
      BY <3>1, <3>2 DEF PathAt, TypeAt
    <3>. QED
      BY <3>2, <3>3
  <2>. QED
    BY <2>1, <2>2, <2>3
<1>5. \A k, l \in Staying : Collide(item(k)[2], item(l)[2])
                              <=> Bars(TypeAt(k), PathAt(k), TypeAt(l), PathAt(l))
  BY DEF Collide, Bars
<1>6. (\E d, e \in entries : d[1] # e[1] /\ Collide(d[2], e[2])) <=> ~NothingBars
  <2> HIDE DEF entries
  <2>1. ASSUME NEW d \in entries, NEW e \in entries, d[1] # e[1],
               Collide(d[2], e[2])
        PROVE  ~NothingBars
    <3>1. PICK k \in Staying : d = item(k)
      BY <1>4
    <3>2. PICK l \in Staying : e = item(l)
      BY <1>4
    <3>3. k # l
      BY <2>1, <3>1, <3>2
    <3>4. Bars(TypeAt(k), PathAt(k), TypeAt(l), PathAt(l))
      BY <1>5, <2>1, <3>1, <3>2
    <3>. QED
      BY <3>3, <3>4 DEF NothingBars
  <2>2. ASSUME ~NothingBars
        PROVE  \E d, e \in entries : d[1] # e[1] /\ Collide(d[2], e[2])
    <3>1. PICK k \in Staying, l \in Staying :
            k # l /\ Bars(TypeAt(k), PathAt(k), TypeAt(l), PathAt(l))
      BY <2>2 DEF NothingBars
    <3>2. item(k) \in entries /\ item(l) \in entries /\ item(k)[1] # item(l)[1]
      BY <1>3, <3>1
    <3>3. Collide(item(k)[2], item(l)[2])
      BY <1>5, <3>1
    <3>. QED
      BY <3>2, <3>3
  <2>. QED
    BY <2>1, <2>2
<1>7. (Refusal = "namespace") <=> (~Empty /\ ~ClaimsFit)
  BY DEF Refusal
<1>8. (Refusal = "namespace") <=> (~Empty /\ ~NothingBars)
  BY <1>7, ClaimsFitExactly
<1>9. (Refusal = "namespace")
        = (~Empty /\ \E d, e \in entries : d[1] # e[1] /\ Collide(d[2], e[2]))
  <2> HIDE DEF entries
  <2>. QED
    BY <1>6, <1>8
<1>. QED
  BY <1>9 DEF GateExact

-----------------------------------------------------------------------------
(* The invariant.                                                          *)

InReplay == phase \in {"retain", "dirs", "adds"}

\* The item a replay has come to.
Reached ==
  IF phase = "retain" THEN at
  ELSE IF phase = "dirs" THEN Len(archive) + at
  ELSE Len(archive) + Len(addedDirs) + at

Passed == {k \in Staying : k < Reached}

\* A replay stays within its list, and nothing is left of one that is over.
InStep ==
  /\ at >= 1
  /\ phase = "retain" => at <= Len(archive) + 1
  /\ phase = "dirs" => at <= Len(addedDirs) + 1
  /\ phase = "adds" => at <= Len(added) + 1
  /\ ~InReplay => at = 1 /\ out = << >> /\ newNs = NoPaths /\ warned = {}
  /\ InReplay => began <= live
  /\ phase = "closed" => Empty /\ gone = {}

\* Whoever replays has passed the gate, and the queue is what the gate saw.
GateHeld == InReplay => ~Misshapen /\ NothingBars

\* What was written is of the items passed, sound, and a directory is known to
\* the new namespace.
OutIsPassed ==
  \A n \in 1..Len(out) :
    /\ \E k \in Passed : out[n].path = PathAt(k) /\ out[n].type = TypeAt(k)
    /\ out[n].path \notin Wild /\ ~out[n].odd
    /\ out[n].type = "dir" => out[n].path \in newNs.dirs

\* The new namespace knows only what was passed; of the directories in it, only
\* what was written, or lies above it.
NamespaceIsPassed ==
  /\ \A p \in newNs.files : \E k \in Passed : TypeAt(k) = "file" /\ PathAt(k) = p
  /\ \A p \in newNs.dirs :
       \E k \in Passed : \/ TypeAt(k) = "dir" /\ PathAt(k) = p
                         \/ p \in Above[PathAt(k)]
  /\ \A p \in newNs.dirs :
       \E n \in 1..Len(out) : \/ out[n].type = "dir" /\ out[n].path = p
                              \/ p \in Above[out[n].path]

\* Every entry of the archive that was passed is accounted for.
Accounted ==
  InReplay =>
    \A i \in 1..Len(archive) : i < Reached =>
      \/ i \in removed
      \/ i \in warned /\ archive[i].type = "link"
      \/ \E n \in 1..Len(out) :
           \/ out[n].path = archive[i].path /\ out[n].type = archive[i].type
           \/ archive[i].type = "dir" /\ archive[i].path \in Above[out[n].path]

\* The payload an item is written with.
PayloadOf(k) ==
  IF k <= Len(archive) THEN {archive[k].data}
  ELSE LET entry == added[k - Len(archive) - Len(addedDirs)]
       IN  IF entry.src = "path" THEN began..live ELSE {entry.data}

FileItems == {k \in Staying : TypeAt(k) = "file"}

\* The files that were written are the first of the file items, in their order.
FilesInOrder ==
  InReplay =>
    /\ Len(FilesIn(out)) = Cardinality({k \in FileItems : k < Reached})
    /\ \A n \in 1..Len(FilesIn(out)) :
         /\ FilesIn(out)[n].path = PathAt(Ascending(FileItems)[n])
         /\ FilesIn(out)[n].data \in PayloadOf(Ascending(FileItems)[n])

\* An archive that a commit has written has nothing that a gate refuses.
MadeIsClean ==
  made =>
    /\ \A i \in 1..Len(archive) : archive[i].path \notin Wild /\ ~archive[i].odd
    /\ \A i, j \in 1..Len(archive) : i # j =>
         /\ archive[i].path # archive[j].path
         /\ ~Bars(archive[i].type, archive[i].path, archive[j].type, archive[j].path)

\* Whatever has a name that remove_entry took is removed.
GoneIsRemoved == \A g \in gone : Matching(g[1], g[2]) \subseteq removed

ReplayInv ==
  /\ RewriteTypeOK /\ InStep /\ GateHeld
  /\ OutIsPassed /\ NamespaceIsPassed /\ ReplayNeverCollides
  /\ Accounted /\ FilesInOrder /\ MadeIsClean /\ GoneIsRemoved

-----------------------------------------------------------------------------
(* Types.                                                                  *)

\* The gate says why.
LEMMA RefusalTyped == Refusal \in {"", "shape", "namespace", "drift"}
  BY DEF Refusal

\* An empty session.
LEMMA EmptyTyped ==
  /\ << >> \in Seq(Paths \ Wild) /\ << >> \in Seq(Adds) /\ << >> \in Seq(Entries)
  /\ NoPaths \in Namespaces
  BY DEF NoPaths, Namespaces

\* Types hold in the beginning.
LEMMA RewriteTypeInit == RewriteInit => RewriteTypeOK
<1> SUFFICES ASSUME RewriteInit PROVE RewriteTypeOK
  OBVIOUS
<1>1. PICK s \in Starts :
        archive = s.listing /\ sessions = s.sessions /\ live = s.live
  BY DEF RewriteInit
<1>2. archive \in Seq(Entries) /\ sessions \in Nat /\ live \in Nat
  BY <1>1, RewriteAssumption
<1>. QED
  BY <1>2, EmptyTyped DEF RewriteInit, RewriteTypeOK, Reasons

\* What is written is an entry.
LEMMA WrittenTyped ==
  ASSUME out \in Seq(Entries), NEW p \in Paths, NEW type \in Types, NEW data \in Nat,
         Written(p, type, data)
  PROVE  out' \in Seq(Entries)
<1>1. [path |-> p, type |-> type, data |-> data, odd |-> FALSE] \in Entries
  BY DEF Entries
<1>. QED
  BY <1>1 DEF Written

\* A directory written by the facade.
LEMMA FacadeDirTyped ==
  ASSUME RewriteTypeOK, NEW p \in Paths, FacadeDir(p)
  PROVE  out' \in Seq(Entries) /\ newNs' \in Namespaces
<1>1. newNs \in Namespaces /\ out \in Seq(Entries)
  BY DEF RewriteTypeOK
<1>2. CASE p \in newNs.dirs
  BY <1>1, <1>2 DEF FacadeDir
<1>3. CASE p \notin newNs.dirs
  <2>1. newNs' = Record(newNs, "dir", p) /\ Written(p, "dir", 0)
    BY <1>3 DEF FacadeDir, Record
  <2>. QED
    BY <1>1, <2>1, RecordTyped, WrittenTyped DEF Kinds, Types
<1>. QED
  BY <1>2, <1>3

\* A file written by the facade.
LEMMA FacadeFileTyped ==
  ASSUME RewriteTypeOK, NEW p \in Paths, NEW data \in Nat, FacadeFile(p, data)
  PROVE  out' \in Seq(Entries) /\ newNs' \in Namespaces
<1>1. newNs \in Namespaces /\ out \in Seq(Entries)
  BY DEF RewriteTypeOK
<1>2. newNs' = Record(newNs, "file", p) /\ Written(p, "file", data)
  BY DEF FacadeFile, Record
<1>. QED
  BY <1>1, <1>2, RecordTyped, WrittenTyped DEF Kinds, Types

\* The end of a session is typed.
LEMMA EndTyped ==
  ASSUME RewriteTypeOK, NEW ok \in BOOLEAN, NEW why \in Reasons, End(ok, why),
         archive' \in Seq(Entries), made' \in BOOLEAN,
         UNCHANGED <<format, sessions, live>>
  PROVE  RewriteTypeOK'
  BY EmptyTyped DEF End, RewriteTypeOK

\* A queued file is typed.
LEMMA AddTyped ==
  ASSUME RewriteTypeOK, NEW p \in Paths \ Wild, NEW src \in Sources, NEW fits \in BOOLEAN,
         Add(p, src, fits)
  PROVE  added' \in Seq(Adds)
<1>1. [path |-> p, src |-> src, data |-> live, fits |-> fits] \in Adds
  BY DEF RewriteTypeOK, Adds
<1>. QED
  BY <1>1 DEF Add, RewriteTypeOK

\* The steps that queue.
LEMMA QueueTyped ==
  ASSUME RewriteTypeOK,
         \/ \E p \in Paths \ Wild :
              \/ \E src \in Sources, fits \in BOOLEAN : AddEntry(p, src, fits)
              \/ AddDirectoryEntry(p)
              \/ \E slash \in BOOLEAN : RemoveEntry(p, slash)
              \/ \E src \in {"bytes", "path"} : ReplaceEntry(p, src)
         \/ \E i \in DOMAIN archive : RemoveEntryById(i)
         \/ ClearQueue
  PROVE  RewriteTypeOK' /\ Queueing
<1> USE DEF replay
<1>1. CASE \E p \in Paths \ Wild, src \in Sources, fits \in BOOLEAN :
             AddEntry(p, src, fits)
  <2>1. added' \in Seq(Adds)
    BY <1>1, AddTyped DEF AddEntry
  <2>. QED
    BY <1>1, <2>1 DEF AddEntry, Queueing, RewriteTypeOK
<1>2. CASE \E p \in Paths \ Wild : AddDirectoryEntry(p)
  <2>1. addedDirs' \in Seq(Paths \ Wild)
    BY <1>2 DEF AddDirectoryEntry, RewriteTypeOK
  <2>. QED
    BY <1>2, <2>1 DEF AddDirectoryEntry, Queueing, RewriteTypeOK
<1>3. CASE \E p \in Paths \ Wild, slash \in BOOLEAN : RemoveEntry(p, slash)
  <2>1. removed' \subseteq DOMAIN archive /\ gone' \subseteq Paths \X BOOLEAN
    BY <1>3 DEF RemoveEntry, Matching, RewriteTypeOK
  <2>. QED
    BY <1>3, <2>1 DEF RemoveEntry, Queueing, RewriteTypeOK
<1>4. CASE \E p \in Paths \ Wild, src \in {"bytes", "path"} : ReplaceEntry(p, src)
  <2>1. removed' \subseteq DOMAIN archive /\ gone' \subseteq Paths \X BOOLEAN
    <3>1. PICK p \in Paths \ Wild, src \in {"bytes", "path"} : ReplaceEntry(p, src)
      BY <1>4
    <3>2. Matching(p, FALSE) \subseteq DOMAIN archive
      BY DEF Matching
    <3>3. <<p, FALSE>> \in Paths \X BOOLEAN
      OBVIOUS
    <3>. QED
      BY <3>1, <3>2, <3>3 DEF ReplaceEntry, RewriteTypeOK
  <2>2. added' \in Seq(Adds)
    BY <1>4, AddTyped DEF ReplaceEntry, Sources
  <2>. QED
    BY <1>4, <2>1, <2>2 DEF ReplaceEntry, Queueing, RewriteTypeOK
<1>5. CASE \E i \in DOMAIN archive : RemoveEntryById(i)
  BY <1>5 DEF RemoveEntryById, Queueing, RewriteTypeOK
<1>6. CASE ClearQueue
  BY <1>6, EmptyTyped DEF ClearQueue, Queueing, RewriteTypeOK
<1>. QED
  BY <1>1, <1>2, <1>3, <1>4, <1>5, <1>6

\* The steps that replay an item.
LEMMA ReplayTyped ==
  ASSUME RewriteTypeOK, InStep,
         \/ \E i \in DOMAIN archive :
              RetainSkipped(i) \/ RetainDropped(i) \/ RetainDir(i) \/ RetainFile(i)
         \/ WriteDir \/ WriteFile \/ WriteReader
  PROVE  RewriteTypeOK'
<1> USE DEF queue, Onward
<1>1. CASE \E i \in DOMAIN archive : RetainSkipped(i)
  BY <1>1 DEF RetainSkipped, RewriteTypeOK
<1>2. CASE \E i \in DOMAIN archive : RetainDropped(i)
  BY <1>2 DEF RetainDropped, RewriteTypeOK
<1>3. ASSUME NEW i \in DOMAIN archive, RetainDir(i) PROVE RewriteTypeOK'
  <2>1. archive[i].path \in Paths /\ FacadeDir(archive[i].path)
    BY <1>3, ListTypes DEF RetainDir, Entries
  <2>2. out' \in Seq(Entries) /\ newNs' \in Namespaces
    BY <2>1, FacadeDirTyped
  <2>. QED
    BY <1>3, <2>2 DEF RetainDir, RewriteTypeOK
<1>4. ASSUME NEW i \in DOMAIN archive, RetainFile(i) PROVE RewriteTypeOK'
  <2>1. /\ archive[i].path \in Paths /\ archive[i].data \in Nat
        /\ Written(archive[i].path, "file", archive[i].data)
    BY <1>4, ListTypes DEF RetainFile, Entries
  <2>2. out' \in Seq(Entries)
    BY <2>1, WrittenTyped DEF RewriteTypeOK, Types
  <2>. QED
    BY <1>4, <2>2 DEF RetainFile, RewriteTypeOK
<1>5. CASE WriteDir
  <2>1. addedDirs[at] \in Paths
    <3>1. at \in 1..Len(addedDirs)
      BY <1>5, ListTypes DEF WriteDir, RewriteTypeOK, InStep
    <3>. QED
      BY <3>1, ListTypes
  <2>2. out' \in Seq(Entries) /\ newNs' \in Namespaces
    BY <1>5, <2>1, FacadeDirTyped DEF WriteDir, RewriteTypeOK
  <2>. QED
    BY <1>5, <2>1, <2>2 DEF WriteDir, RewriteTypeOK
<1>6. CASE WriteFile
  <2>1. /\ added[at].path \in Paths /\ added[at].data \in Nat /\ live \in Nat
        /\ \/ FacadeFile(added[at].path, added[at].data)
           \/ FacadeFile(added[at].path, live)
    <3>1. at \in 1..Len(added) /\ live \in Nat
      BY <1>6, ListTypes DEF WriteFile, RewriteTypeOK, InStep
    <3>2. added[at] \in Adds
      BY <3>1, ListTypes
    <3>. QED
      BY <1>6, <3>1, <3>2 DEF WriteFile, Adds
  <2>2. out' \in Seq(Entries) /\ newNs' \in Namespaces
    BY <2>1, FacadeFileTyped
  <2>. QED
    BY <1>6, <2>2 DEF WriteFile, RewriteTypeOK
<1>7. CASE WriteReader
  <2>1. /\ added[at].path \in Paths /\ added[at].data \in Nat
        /\ Written(added[at].path, "file", added[at].data)
    <3>1. at \in 1..Len(added)
      BY <1>7, ListTypes DEF WriteReader, RewriteTypeOK, InStep
    <3>2. added[at] \in Adds
      BY <3>1, ListTypes
    <3>. QED
      BY <1>7, <3>2 DEF WriteReader, Adds
  <2>2. out' \in Seq(Entries)
    BY <2>1, WrittenTyped DEF RewriteTypeOK, Types
  <2>. QED
    BY <1>7, <2>2 DEF WriteReader, RewriteTypeOK
<1>. QED
  BY <1>1, <1>2, <1>3, <1>4, <1>5, <1>6, <1>7

-----------------------------------------------------------------------------
(* The steps, by what they do to a commit.                                 *)

\* What a commit works on.
Fixed == UNCHANGED <<format, archive, removed, addedDirs, added, gone, made>>

Stays ==
  /\ Fixed
  /\ UNCHANGED <<phase, at, out, newNs, warned, began>>
  /\ live' >= live

Queues ==
  /\ phase = "open"
  /\ UNCHANGED <<format, archive, phase, at, out, newNs, warned, began, live, made>>
  /\ \A g \in gone' : \/ g \in gone /\ removed \subseteq removed'
                      \/ Matching(g[1], g[2]) \subseteq removed'

Ends ==
  /\ phase' = "closed" /\ at' = 1 /\ out' = << >> /\ newNs' = NoPaths /\ warned' = {}
  /\ removed' = {} /\ addedDirs' = << >> /\ added' = << >> /\ gone' = {}
  /\ UNCHANGED <<archive, made>>

Begins ==
  /\ phase = "open" /\ Refusal = "" /\ ~Empty
  /\ phase' = "retain" /\ began' = live
  /\ Fixed /\ UNCHANGED <<at, out, newNs, warned, live>>

Turns ==
  /\ \/ phase = "retain" /\ at > Len(archive) /\ phase' = "dirs"
     \/ phase = "dirs" /\ at > Len(addedDirs) /\ phase' = "adds"
  /\ at' = 1
  /\ Fixed /\ UNCHANGED <<out, newNs, warned, began, live>>

Passes ==
  /\ InReplay /\ Reached \in Places
  /\ at' = at + 1
  /\ phase = "retain" => at <= Len(archive)
  /\ phase = "dirs" => at <= Len(addedDirs)
  /\ phase = "adds" => at <= Len(added)
  /\ Fixed /\ UNCHANGED <<phase, began, live>>

Skips ==
  /\ Passes /\ Reached <= Len(archive) /\ Reached \notin Staying
  /\ \/ Reached \in removed /\ warned' = warned
     \/ archive[Reached].type = "link" /\ warned' = warned \cup {Reached}
  /\ UNCHANGED <<out, newNs>>

FindsDir ==
  /\ Passes /\ Reached \in Staying /\ TypeAt(Reached) = "dir"
  /\ phase = "retain" => PathAt(Reached) \in newNs.dirs
  /\ UNCHANGED <<out, newNs, warned>>

WritesDir ==
  /\ Passes /\ Reached \in Staying /\ TypeAt(Reached) = "dir"
  /\ PathAt(Reached) \notin newNs.dirs /\ DirFits(newNs, PathAt(Reached))
  /\ newNs' = RecordDir(newNs, PathAt(Reached))
  /\ Written(PathAt(Reached), "dir", 0)
  /\ UNCHANGED warned

WritesFile ==
  /\ Passes /\ Reached \in Staying /\ TypeAt(Reached) = "file"
  /\ \/ newNs' = newNs
     \/ /\ FileFits(newNs, PathAt(Reached))
        /\ newNs' = RecordFile(newNs, PathAt(Reached))
  /\ \E d \in PayloadOf(Reached) : Written(PathAt(Reached), "file", d)
  /\ UNCHANGED warned

\* An entry of the archive that a replay has come to.
LEMMA RetainReaches ==
  ASSUME RewriteTypeOK, NEW i \in DOMAIN archive, Replaying(i)
  PROVE  /\ Reached = i /\ i <= Len(archive) /\ i \in Places
         /\ TypeAt(i) = archive[i].type /\ PathAt(i) = archive[i].path
         /\ i \in Staying <=> i \notin removed /\ ~Drops(archive[i])
         /\ InReplay /\ at = i /\ phase = "retain"
<1>1. i \in 1..Len(archive)
  BY ListTypes
<1>2. i <= Len(archive) /\ i \in Places
  BY <1>1, ListTypes DEF Places
<1>. QED
  BY <1>2 DEF Replaying, Reached, TypeAt, PathAt, Staying, Kept, InReplay

\* A queued directory that a replay has come to.
LEMMA DirReaches ==
  ASSUME RewriteTypeOK, InStep, phase = "dirs", at <= Len(addedDirs)
  PROVE  /\ Reached \in Staying /\ Reached \in Places /\ InReplay
         /\ TypeAt(Reached) = "dir" /\ PathAt(Reached) = addedDirs[at]
<1> DEFINE k == Len(archive) + at
<1>1. at \in 1..Len(addedDirs) /\ Reached = k
  BY ListTypes DEF RewriteTypeOK, InStep, Reached
<1>2. /\ k \in Places /\ ~(k <= Len(archive)) /\ k <= Len(archive) + Len(addedDirs)
      /\ k - Len(archive) = at
  BY <1>1, ListTypes DEF Places
<1>. QED
  BY <1>1, <1>2 DEF Staying, TypeAt, PathAt, InReplay

\* A queued file that a replay has come to.
LEMMA AddReaches ==
  ASSUME RewriteTypeOK, InStep, phase = "adds", at <= Len(added)
  PROVE  /\ Reached \in Staying /\ Reached \in Places /\ InReplay
         /\ TypeAt(Reached) = "file" /\ PathAt(Reached) = added[at].path
         /\ PayloadOf(Reached) = IF added[at].src = "path" THEN began..live
                                 ELSE {added[at].data}
<1> DEFINE k == Len(archive) + Len(addedDirs) + at
<1>1. at \in 1..Len(added) /\ Reached = k
  BY ListTypes DEF RewriteTypeOK, InStep, Reached
<1>2. /\ k \in Places /\ ~(k <= Len(archive)) /\ ~(k <= Len(archive) + Len(addedDirs))
      /\ k - Len(archive) - Len(addedDirs) = at
  BY <1>1, ListTypes DEF Places
<1>. QED
  BY <1>1, <1>2 DEF Staying, TypeAt, PathAt, InReplay, PayloadOf

\* Every step is one of these.
LEMMA RewriteKinds ==
  ASSUME RewriteTypeOK, InStep, [RewriteNext]_rewriteVars
  PROVE  \/ Stays \/ Queues \/ Ends \/ Begins \/ Turns
         \/ Skips \/ FindsDir \/ WritesDir \/ WritesFile
         \/ Install \/ Modify
<1> USE DEF queue, replay
<1>1. CASE UNCHANGED rewriteVars
  BY <1>1 DEF rewriteVars, Stays, Fixed, RewriteTypeOK
<1>2. CASE TryCommit \/ Change
  <2>1. live' \in {live, live + 1} /\ live \in Nat
    BY <1>2 DEF TryCommit, Change, RewriteTypeOK
  <2>2. Fixed /\ UNCHANGED <<phase, at, out, newNs, warned, began>>
    BY <1>2 DEF TryCommit, Change, Fixed
  <2>3. live' >= live
    BY <2>1
  <2>. QED
    BY <2>2, <2>3 DEF Stays
<1>3. CASE \E p \in Paths \ Wild, src \in Sources, fits \in BOOLEAN :
             AddEntry(p, src, fits)
  BY <1>3 DEF AddEntry, Queueing, Queues
<1>4. CASE \E p \in Paths \ Wild : AddDirectoryEntry(p)
  BY <1>4 DEF AddDirectoryEntry, Queueing, Queues
<1>5. CASE \E p \in Paths \ Wild, slash \in BOOLEAN : RemoveEntry(p, slash)
  <2>1. PICK p \in Paths \ Wild, slash \in BOOLEAN : RemoveEntry(p, slash)
    BY <1>5
  <2>2. \A g \in gone' : \/ g \in gone /\ removed \subseteq removed'
                         \/ Matching(g[1], g[2]) \subseteq removed'
    BY <2>1 DEF RemoveEntry
  <2>. QED
    BY <2>1, <2>2 DEF RemoveEntry, Queueing, Queues
<1>6. CASE \E p \in Paths \ Wild, src \in {"bytes", "path"} : ReplaceEntry(p, src)
  <2>1. PICK p \in Paths \ Wild, src \in {"bytes", "path"} : ReplaceEntry(p, src)
    BY <1>6
  <2>2. \A g \in gone' : \/ g \in gone /\ removed \subseteq removed'
                         \/ Matching(g[1], g[2]) \subseteq removed'
    <3>1. /\ gone' = gone \cup {<<p, FALSE>>}
          /\ removed' = removed \cup Matching(p, FALSE)
      BY <2>1 DEF ReplaceEntry
    <3> SUFFICES ASSUME NEW g \in gone', g \notin gone
                 PROVE  Matching(g[1], g[2]) \subseteq removed'
      BY <3>1
    <3>2. g = <<p, FALSE>>
      BY <3>1
    <3>3. Matching(g[1], g[2]) = Matching(p, FALSE)
      <4>1. g[1] = p /\ g[2] = FALSE
        BY <3>2
      <4>. QED
        BY <4>1, Zenon
    <3>. QED
      BY <3>1, <3>3
  <2>. QED
    BY <2>1, <2>2 DEF ReplaceEntry, Queueing, Queues
<1>7. CASE \E i \in DOMAIN archive : RemoveEntryById(i)
  BY <1>7 DEF RemoveEntryById, Queueing, Queues
<1>8. CASE ClearQueue
  BY <1>8 DEF ClearQueue, Queueing, Queues
<1>9. CASE CommitEmpty \/ CommitRefused
  BY <1>9 DEF CommitEmpty, CommitRefused, End, Ends
<1>10. CASE CommitSession
  BY <1>10 DEF CommitSession, Begins, Fixed
<1>11. ASSUME NEW i \in DOMAIN archive, RetainSkipped(i) \/ RetainDropped(i)
       PROVE  Skips
  <2>1. Replaying(i)
    BY <1>11 DEF RetainSkipped, RetainDropped
  <2>. QED
    BY <1>11, <2>1, RetainReaches
       DEF RetainSkipped, RetainDropped, Drops, Onward, Skips, Passes, Fixed
<1>12. ASSUME NEW i \in DOMAIN archive, RetainDir(i)
       PROVE  FindsDir \/ WritesDir
  <2>1. Replaying(i) /\ ~Drops(archive[i])
    BY <1>12 DEF RetainDir, Drops
  <2>2. Passes /\ Reached = i /\ Reached \in Staying /\ TypeAt(Reached) = "dir"
        /\ PathAt(Reached) = archive[i].path
    BY <1>12, <2>1, RetainReaches DEF RetainDir, Onward, Passes, Fixed
  <2>. QED
    BY <1>12, <2>2 DEF RetainDir, FacadeDir, FindsDir, WritesDir
<1>13. ASSUME NEW i \in DOMAIN archive, RetainFile(i)
       PROVE  WritesFile
  <2>1. Replaying(i) /\ ~Drops(archive[i])
    BY <1>13 DEF RetainFile, Drops
  <2>2. Passes /\ Reached = i /\ Reached \in Staying /\ TypeAt(Reached) = "file"
        /\ PathAt(Reached) = archive[i].path
    BY <1>13, <2>1, RetainReaches DEF RetainFile, Onward, Passes, Fixed
  <2>3. archive[i].data \in PayloadOf(Reached)
    BY <2>1, <2>2, RetainReaches DEF PayloadOf
  <2>. QED
    BY <1>13, <2>2, <2>3 DEF RetainFile, WritesFile
<1>14. CASE \/ \E i \in DOMAIN archive : RetainUnreadable(i)
            \/ WriteMismatch \/ ReplayError
  BY <1>14 DEF RetainUnreadable, WriteMismatch, ReplayError, FailReplay, End, Ends
<1>15. CASE RetainDone \/ DirsDone
  BY <1>15 DEF RetainDone, DirsDone, Follow, Turns, Fixed
<1>16. CASE WriteDir
  <2>1. phase = "dirs" /\ at <= Len(addedDirs)
    BY <1>16 DEF WriteDir
  <2>2. Passes /\ Reached \in Staying /\ TypeAt(Reached) = "dir"
        /\ PathAt(Reached) = addedDirs[at]
    BY <1>16, <2>1, DirReaches DEF WriteDir, Onward, Passes, Fixed
  <2>3. UNCHANGED warned /\ \/ UNCHANGED <<out, newNs>>
                            \/ FacadeDir(addedDirs[at])
    BY <1>16 DEF WriteDir
  <2>. QED
    BY <2>1, <2>2, <2>3 DEF FacadeDir, FindsDir, WritesDir
<1>17. CASE WriteFile \/ WriteReader
  <2>1. phase = "adds" /\ at <= Len(added)
    BY <1>17 DEF WriteFile, WriteReader
  <2>2. Passes /\ Reached \in Staying /\ TypeAt(Reached) = "file"
        /\ PathAt(Reached) = added[at].path
    BY <1>17, <2>1, AddReaches DEF WriteFile, WriteReader, Onward, Passes, Fixed
  <2>3. PayloadOf(Reached) = IF added[at].src = "path" THEN began..live
                             ELSE {added[at].data}
    BY <2>1, AddReaches
  <2>4. live \in began..live
    BY <2>1 DEF InStep, InReplay, RewriteTypeOK
  <2>5. /\ \/ newNs' = newNs
           \/ /\ FileFits(newNs, added[at].path)
              /\ newNs' = RecordFile(newNs, added[at].path)
        /\ \E d \in PayloadOf(Reached) : Written(added[at].path, "file", d)
        /\ UNCHANGED warned
    BY <1>17, <2>3, <2>4 DEF WriteFile, WriteReader, FacadeFile
  <2>. QED
    BY <2>2, <2>5 DEF WritesFile
<1>. QED
  BY <1>1, <1>2, <1>3, <1>4, <1>5, <1>6, <1>7, <1>8, <1>9, <1>10, <1>11, <1>12,
     <1>13, <1>14, <1>15, <1>16, <1>17 DEF RewriteNext

-----------------------------------------------------------------------------
(* The bounds of a replay.                                                 *)

\* A replay is at an item, or behind the last one.
LEMMA ReachedTyped ==
  ASSUME RewriteTypeOK, InStep, InReplay
  PROVE  /\ Reached \in Nat /\ Reached >= 1
         /\ Reached <= Len(archive) + Len(addedDirs) + Len(added) + 1
  BY ListTypes DEF RewriteTypeOK, InStep, InReplay, Reached

\* Nothing that a commit works on changes, nor what it would write.
LEMMA FixedItems ==
  ASSUME Fixed
  PROVE  /\ Kept' = Kept /\ Places' = Places /\ Staying' = Staying
         /\ \A k : PathAt(k)' = PathAt(k) /\ TypeAt(k)' = TypeAt(k)
         /\ FileItems' = FileItems
         /\ (NothingBars <=> NothingBars') /\ (Misshapen <=> Misshapen')
<1> USE DEF Fixed
<1>1. Kept' = Kept /\ Places' = Places
  BY DEF Kept, Places
<1>2. \A k : PathAt(k)' = PathAt(k) /\ TypeAt(k)' = TypeAt(k)
  BY DEF PathAt, TypeAt
<1>3. Staying' = Staying
  BY <1>1 DEF Staying
<1>4. FileItems' = FileItems
  BY <1>2, <1>3 DEF FileItems
<1>5. NothingBars <=> NothingBars'
  BY <1>2, <1>3 DEF NothingBars
<1>6. Misshapen <=> Misshapen'
  BY <1>1 DEF Misshapen
<1>. QED
  BY <1>1, <1>2, <1>3, <1>4, <1>5, <1>6

\* What has been reached, and passed, after a step of the replay.
LEMMA PassesOn ==
  ASSUME RewriteTypeOK, InStep, Passes
  PROVE  /\ InReplay' /\ Reached' = Reached + 1
         /\ Passed' = Passed \cup (Staying \cap {Reached})
<1>1. InReplay' /\ Reached' = Reached + 1
  BY ListTypes DEF Passes, Fixed, InReplay, Reached, RewriteTypeOK
<1>2. Reached \in Nat
  BY ReachedTyped DEF Passes
<1>3. Staying' = Staying
  BY FixedItems DEF Passes
<1>4. \A k \in Staying : k < Reached + 1 <=> k < Reached \/ k = Reached
  BY <1>2 DEF Staying, Places
<1>. QED
  BY <1>1, <1>3, <1>4 DEF Passed

\* Nothing is passed when a replay turns to its next list.
LEMMA TurnsOn ==
  ASSUME RewriteTypeOK, InStep, Turns
  PROVE  InReplay /\ InReplay' /\ Reached' = Reached /\ Passed' = Passed
<1>1. InReplay /\ InReplay' /\ Reached' = Reached
  <2>1. Len(archive) \in Nat /\ Len(addedDirs) \in Nat /\ at \in Nat
    BY ListTypes DEF RewriteTypeOK
  <2>2. CASE phase = "retain"
    <3>1. at = Len(archive) + 1 /\ phase' = "dirs" /\ at' = 1 /\ archive' = archive
      BY <2>1, <2>2 DEF Turns, Fixed, InStep
    <3>. QED
      BY <2>2, <3>1 DEF InReplay, Reached
  <2>3. CASE phase = "dirs"
    <3>1. /\ at = Len(addedDirs) + 1 /\ phase' = "adds" /\ at' = 1
          /\ archive' = archive /\ addedDirs' = addedDirs
      BY <2>1, <2>3 DEF Turns, Fixed, InStep
    <3>2. Reached = Len(archive) + at /\ Reached' = Len(archive) + Len(addedDirs) + 1
      BY <2>3, <3>1 DEF Reached
    <3>. QED
      BY <2>1, <2>3, <3>1, <3>2 DEF InReplay
  <2>. QED
    BY <2>2, <2>3 DEF Turns
<1>. QED
  BY <1>1, FixedItems DEF Passed, Turns

\* Types, and the bounds of a replay, hold throughout.
LEMMA RewriteTypeStep ==
  ASSUME RewriteTypeOK, InStep, [RewriteNext]_rewriteVars
  PROVE  RewriteTypeOK'
<1> USE DEF queue, replay
<1>1. CASE UNCHANGED rewriteVars
  BY <1>1 DEF rewriteVars, RewriteTypeOK
<1>2. CASE TryCommit
  BY <1>2, RefusalTyped DEF TryCommit, RewriteTypeOK, Reasons
<1>3. CASE CommitEmpty
  BY <1>3, EndTyped DEF CommitEmpty, RewriteTypeOK, Reasons
<1>4. CASE CommitRefused
  BY <1>4, EndTyped, RefusalTyped DEF CommitRefused, RewriteTypeOK, Reasons
<1>5. CASE CommitSession
  BY <1>5 DEF CommitSession, RewriteTypeOK
<1>6. CASE \E i \in DOMAIN archive : RetainUnreadable(i)
  BY <1>6, EndTyped DEF RetainUnreadable, FailReplay, RewriteTypeOK, Reasons
<1>7. CASE WriteMismatch \/ ReplayError
  BY <1>7, EndTyped DEF WriteMismatch, ReplayError, FailReplay, RewriteTypeOK, Reasons
<1>8. CASE RetainDone \/ DirsDone
  BY <1>8 DEF RetainDone, DirsDone, Follow, RewriteTypeOK
<1>9. CASE Install
  BY <1>9, EndTyped DEF Install, RewriteTypeOK, Reasons
<1>10. CASE Modify
  BY <1>10 DEF Modify, RewriteTypeOK
<1>11. CASE Change
  BY <1>11 DEF Change, RewriteTypeOK
<1>. QED
  BY <1>1, <1>2, <1>3, <1>4, <1>5, <1>6, <1>7, <1>8, <1>9, <1>10, <1>11,
     QueueTyped, ReplayTyped DEF RewriteNext

\* The bounds of a replay hold in the beginning.
LEMMA InStepInit == RewriteInit => InStep
<1> SUFFICES ASSUME RewriteInit PROVE InStep
  OBVIOUS
<1>1. /\ phase = "open" /\ at = 1 /\ out = << >> /\ newNs = NoPaths
      /\ warned = {}
  BY DEF RewriteInit
<1>. QED
  BY <1>1 DEF InStep, InReplay

\* And throughout.
LEMMA InStepStep ==
  ASSUME RewriteTypeOK, InStep, [RewriteNext]_rewriteVars
  PROVE  InStep'
<1>0. /\ Len(archive) \in Nat /\ Len(addedDirs) \in Nat /\ Len(added) \in Nat
      /\ at \in Nat /\ live \in Nat /\ began \in Nat
      /\ phase \in {"open", "retain", "dirs", "adds", "closed"}
  BY ListTypes DEF RewriteTypeOK
<1>1. CASE Stays
  <2>1. live' \in Nat
    BY RewriteTypeStep DEF RewriteTypeOK
  <2>. QED
    BY <1>0, <1>1, <2>1 DEF Stays, Fixed, InStep, InReplay, Empty
<1>2. CASE Queues
  BY <1>0, <1>2 DEF Queues, InStep, InReplay, Empty
<1>3. CASE Ends
  BY <1>3 DEF Ends, InStep, InReplay, Empty
<1>4. CASE Begins
  <2>1. /\ phase' = "retain" /\ at' = 1 /\ began' = live /\ live' = live
        /\ archive' = archive
    BY <1>4 DEF Begins, Fixed, InStep, InReplay
  <2>. QED
    BY <1>0, <2>1 DEF InStep, InReplay
<1>5. CASE Turns
  BY <1>0, <1>5 DEF Turns, Fixed, InStep, InReplay, Empty
<1>6. CASE Passes
  BY <1>0, <1>6 DEF Passes, Fixed, InStep, InReplay, Empty
<1>7. CASE Install
  <2>1. /\ phase' = "closed" /\ at' = 1 /\ out' = << >> /\ newNs' = NoPaths
        /\ warned' = {} /\ gone' = {}
        /\ removed' = {} /\ addedDirs' = << >> /\ added' = << >>
    BY <1>7 DEF Install, End
  <2>. QED
    BY <2>1 DEF InStep, InReplay, Empty
<1>8. CASE Modify
  BY <1>0, <1>8 DEF Modify, queue, replay, InStep, InReplay, Empty
<1>. QED
  BY <1>1, <1>2, <1>3, <1>4, <1>5, <1>6, <1>7, <1>8, RewriteKinds
     DEF Skips, FindsDir, WritesDir, WritesFile

\* What was let through stays sound.
LEMMA GateHeldStep ==
  ASSUME RewriteTypeOK, InStep, GateHeld, [RewriteNext]_rewriteVars
  PROVE  GateHeld'
<1>1. CASE Stays
  BY <1>1, FixedItems DEF Stays, GateHeld, InReplay
<1>2. CASE Queues \/ Ends \/ Install \/ Modify
  BY <1>2 DEF Queues, Ends, Install, End, Modify, GateHeld, InReplay
<1>3. CASE Begins
  <2>1. ~Misshapen /\ ClaimsFit
    BY <1>3 DEF Begins, Refusal
  <2>2. NothingBars
    BY <2>1, ClaimsFitExactly
  <2>. QED
    BY <1>3, <2>1, <2>2, FixedItems DEF Begins, GateHeld
<1>4. CASE Turns
  BY <1>4, TurnsOn, FixedItems DEF Turns, GateHeld
<1>5. CASE Passes
  BY <1>5, FixedItems DEF Passes, GateHeld
<1>. QED
  BY <1>1, <1>2, <1>3, <1>4, <1>5, RewriteKinds
     DEF Skips, FindsDir, WritesDir, WritesFile

-----------------------------------------------------------------------------
(* What has been written.                                                  *)

\* One entry more.
LEMMA OneMore ==
  ASSUME out \in Seq(Entries), NEW p, NEW type, NEW data, Written(p, type, data)
  PROVE  LET e == [path |-> p, type |-> type, data |-> data, odd |-> FALSE] IN
         /\ Len(out) \in Nat /\ Len(out') = Len(out) + 1
         /\ \A n \in 1..Len(out) : n \in 1..Len(out') /\ out'[n] = out[n]
         /\ Len(out) + 1 \in 1..Len(out') /\ out'[Len(out) + 1] = e
         /\ e.path = p /\ e.type = type /\ e.data = data /\ e.odd = FALSE
         /\ out'[Len(out) + 1].path = p /\ out'[Len(out) + 1].type = type
         /\ \A n \in 1..Len(out') : n \in 1..Len(out) \/ n = Len(out) + 1
<1> DEFINE e == [path |-> p, type |-> type, data |-> data, odd |-> FALSE]
<1>1. out' = Append(out, e)
  BY DEF Written
<1>2. e.path = p /\ e.type = type /\ e.data = data /\ e.odd = FALSE
  OBVIOUS
<1> HIDE DEF e
<1>3. /\ Len(out) \in Nat /\ Len(out') = Len(out) + 1
      /\ \A n \in 1..Len(out) : n \in 1..Len(out') /\ out'[n] = out[n]
      /\ Len(out) + 1 \in 1..Len(out') /\ out'[Len(out) + 1] = e
      /\ \A n \in 1..Len(out') : n \in 1..Len(out) \/ n = Len(out) + 1
  BY <1>1
<1>. QED
  BY <1>2, <1>3 DEF e

\* What a commit writes is none of the paths that it may not.
LEMMA NoneWild ==
  ASSUME RewriteTypeOK, GateHeld, InReplay, NEW k \in Staying
  PROVE  PathAt(k) \notin Wild
<1>1. k \in Places /\ (k <= Len(archive) => k \in Kept)
  BY DEF Staying
<1>2. CASE k <= Len(archive)
  BY <1>1, <1>2 DEF GateHeld, Misshapen, PathAt
<1>3. CASE ~(k <= Len(archive)) /\ k <= Len(archive) + Len(addedDirs)
  <2>1. k - Len(archive) \in 1..Len(addedDirs)
    BY <1>1, <1>3, ListTypes DEF Places
  <2>. QED
    BY <1>3, <2>1, ListTypes DEF PathAt
<1>4. CASE ~(k <= Len(archive)) /\ ~(k <= Len(archive) + Len(addedDirs))
  <2>1. k - Len(archive) - Len(addedDirs) \in 1..Len(added)
    BY <1>1, <1>4, ListTypes DEF Places
  <2>2. added[k - Len(archive) - Len(addedDirs)] \in Adds
    BY <2>1, ListTypes
  <2>. QED
    BY <1>4, <2>2 DEF PathAt, Adds
<1>. QED
  BY <1>2, <1>3, <1>4

\* A record of the new archive's namespace, as one of the gate's.
LEMMA NewNsAdds ==
  ASSUME RewriteTypeOK, InStep, WritesDir \/ WritesFile
  PROVE  /\ newNs' # newNs => newNs'.files = newNs.files \cup
                                (IF TypeAt(Reached) = "file" THEN {PathAt(Reached)} ELSE {})
         /\ newNs' # newNs => newNs'.dirs = newNs.dirs \cup Above[PathAt(Reached)]
                                \cup (IF TypeAt(Reached) = "dir" THEN {PathAt(Reached)} ELSE {})
         /\ WritesDir => PathAt(Reached) \in newNs'.dirs
<1>1. newNs \in Namespaces
  BY DEF RewriteTypeOK
<1>2. Reached \in Staying
  BY DEF WritesDir, WritesFile
<1>3. TypeAt(Reached) \in Kinds /\ PathAt(Reached) \in Paths
  BY <1>2, ItemTypes
<1>4. WritesDir => TypeAt(Reached) = "dir"
                   /\ Fits(newNs, "dir", PathAt(Reached))
                   /\ newNs' = Record(newNs, "dir", PathAt(Reached))
  BY DEF WritesDir, Fits, Record
<1>5. WritesFile /\ newNs' # newNs => TypeAt(Reached) = "file"
                   /\ Fits(newNs, "file", PathAt(Reached))
                   /\ newNs' = Record(newNs, "file", PathAt(Reached))
  BY DEF WritesFile, Fits, Record
<1>. QED
  BY <1>1, <1>3, <1>4, <1>5, RecordAdds

\* What was written, and what the new namespace knows, is of what was passed.
LEMMA OutIsPassedStep ==
  ASSUME RewriteTypeOK, InStep, GateHeld, OutIsPassed, [RewriteNext]_rewriteVars
  PROVE  OutIsPassed'
<1>1. CASE Stays \/ Begins
  <2>1. /\ Fixed /\ UNCHANGED <<out, newNs>> /\ at' = at
        /\ \/ phase' = phase
           \/ phase = "open" /\ out = << >>
    BY <1>1 DEF Stays, Begins, InStep, InReplay
  <2>2. CASE phase' = phase
    <3>1. Passed' = Passed
      BY <2>1, <2>2, FixedItems DEF Passed, Reached, Fixed
    <3>. QED
      BY <2>1, <3>1, FixedItems DEF OutIsPassed
  <2>3. CASE out = << >>
    BY <2>1, <2>3 DEF OutIsPassed
  <2>. QED
    BY <2>1, <2>2, <2>3
<1>2. CASE Queues \/ Ends \/ Install \/ Modify
  <2>1. Len(out') = 0
    <3>1. Queues \/ Modify => out = << >> /\ out' = out
      BY DEF Queues, Modify, replay, InStep, InReplay
    <3>2. Ends \/ Install => out' = << >>
      BY DEF Ends, Install, End
    <3>. QED
      BY <1>2, <3>1, <3>2
  <2>. QED
    BY <2>1 DEF OutIsPassed
<1>3. CASE Turns
  <2>1. Passed' = Passed /\ UNCHANGED <<out, newNs>> /\ Fixed
    BY <1>3, TurnsOn DEF Turns
  <2>. QED
    BY <2>1, FixedItems DEF OutIsPassed
<1>4. CASE Skips \/ FindsDir
  <2>1. Passed \subseteq Passed' /\ UNCHANGED <<out, newNs>> /\ Fixed
    BY <1>4, PassesOn DEF Skips, FindsDir, Passes
  <2>. QED
    BY <2>1, FixedItems DEF OutIsPassed
<1>5. CASE WritesDir \/ WritesFile
  <2> DEFINE p == PathAt(Reached)
             type == TypeAt(Reached)
  <2>1. /\ Passes /\ Fixed /\ InReplay /\ Reached \in Staying
        /\ \E d : Written(p, type, d)
        /\ type = "dir" => WritesDir
    BY <1>5 DEF WritesDir, WritesFile, Passes
  <2>2. PICK d : Written(p, type, d)
    BY <2>1
  <2>3. Passed \subseteq Passed' /\ Reached \in Passed'
    BY <2>1, PassesOn
  <2>4. p \notin Wild
    BY <2>1, NoneWild
  <2>5. newNs.dirs \subseteq newNs'.dirs /\ (type = "dir" => p \in newNs'.dirs)
    BY <1>5, <2>1, NewNsAdds
  <2>6. out \in Seq(Entries)
    BY DEF RewriteTypeOK
  <2> SUFFICES ASSUME NEW n \in 1..Len(out')
               PROVE  /\ \E k \in Passed' : out'[n].path = PathAt(k)' /\ out'[n].type = TypeAt(k)'
                      /\ out'[n].path \notin Wild /\ ~out'[n].odd
                      /\ out'[n].type = "dir" => out'[n].path \in newNs'.dirs
    BY DEF OutIsPassed
  <2>7. CASE n \in 1..Len(out)
    <3>1. out'[n] = out[n]
      BY <2>2, <2>6, <2>7, OneMore
    <3>. QED
      BY <2>1, <2>3, <2>5, <2>7, <3>1, FixedItems DEF OutIsPassed
  <2>8. CASE n = Len(out) + 1
    <3>1. out'[n] = [path |-> p, type |-> type, data |-> d, odd |-> FALSE]
      BY <2>2, <2>6, <2>8, OneMore
    <3>2. out'[n].path = p /\ out'[n].type = type /\ ~out'[n].odd
      BY <3>1
    <3>. QED
      BY <2>1, <2>3, <2>4, <2>5, <3>2, FixedItems
  <2>. QED
    BY <2>2, <2>6, <2>7, <2>8, OneMore
<1>. QED
  BY <1>1, <1>2, <1>3, <1>4, <1>5, RewriteKinds

\* The same of the new namespace.
LEMMA NamespaceIsPassedStep ==
  ASSUME RewriteTypeOK, InStep, NamespaceIsPassed, [RewriteNext]_rewriteVars
  PROVE  NamespaceIsPassed'
<1>1. CASE Stays \/ Begins
  <2>1. /\ Fixed /\ UNCHANGED <<out, newNs>> /\ at' = at
        /\ \/ phase' = phase
           \/ phase = "open" /\ newNs = NoPaths
    BY <1>1 DEF Stays, Begins, InStep, InReplay
  <2>2. CASE phase' = phase
    <3>1. Passed' = Passed
      BY <2>1, <2>2, FixedItems DEF Passed, Reached, Fixed
    <3>. QED
      BY <2>1, <3>1, FixedItems DEF NamespaceIsPassed
  <2>3. CASE newNs = NoPaths
    BY <2>1, <2>3 DEF NamespaceIsPassed, NoPaths
  <2>. QED
    BY <2>1, <2>2, <2>3
<1>2. CASE Queues \/ Ends \/ Install \/ Modify
  <2>1. newNs' = NoPaths
    <3>1. Queues \/ Modify => newNs = NoPaths /\ newNs' = newNs
      BY DEF Queues, Modify, replay, InStep, InReplay
    <3>2. Ends \/ Install => newNs' = NoPaths
      BY DEF Ends, Install, End
    <3>. QED
      BY <1>2, <3>1, <3>2
  <2>. QED
    BY <2>1 DEF NamespaceIsPassed, NoPaths
<1>3. CASE Turns
  <2>1. Passed' = Passed /\ UNCHANGED <<out, newNs>> /\ Fixed
    BY <1>3, TurnsOn DEF Turns
  <2>. QED
    BY <2>1, FixedItems DEF NamespaceIsPassed
<1>4. CASE Skips \/ FindsDir
  <2>1. Passed \subseteq Passed' /\ UNCHANGED <<out, newNs>> /\ Fixed
    BY <1>4, PassesOn DEF Skips, FindsDir, Passes
  <2>. QED
    BY <2>1, FixedItems DEF NamespaceIsPassed
<1>5. CASE WritesDir \/ WritesFile
  <2> DEFINE p == PathAt(Reached)
             type == TypeAt(Reached)
  <2>1. /\ Passes /\ Fixed /\ Reached \in Staying
        /\ \E d : Written(p, type, d)
    BY <1>5 DEF WritesDir, WritesFile, Passes
  <2>2. PICK d : Written(p, type, d)
    BY <2>1
  <2>3. Passed \subseteq Passed' /\ Reached \in Passed'
    BY <2>1, PassesOn
  <2>4. \A k : PathAt(k)' = PathAt(k) /\ TypeAt(k)' = TypeAt(k)
    BY <2>1, FixedItems
  <2>5. /\ \A q \in newNs'.files : q \in newNs.files \/ (type = "file" /\ q = p)
        /\ \A q \in newNs'.dirs :
             q \in newNs.dirs \/ q \in Above[p] \/ (type = "dir" /\ q = p)
    BY <1>5, NewNsAdds
  <2>6. out \in Seq(Entries)
    BY DEF RewriteTypeOK
  <2>7. /\ \A n \in 1..Len(out) : n \in 1..Len(out') /\ out'[n] = out[n]
        /\ Len(out) + 1 \in 1..Len(out')
        /\ out'[Len(out) + 1].path = p /\ out'[Len(out) + 1].type = type
    BY <2>2, <2>6, OneMore
  <2> HIDE DEF p, type
  <2>8. \A q \in newNs'.files : \E k \in Passed' : TypeAt(k)' = "file" /\ PathAt(k)' = q
    BY <2>3, <2>4, <2>5 DEF NamespaceIsPassed, p, type
  <2>9. \A q \in newNs'.dirs :
          \E k \in Passed' : \/ TypeAt(k)' = "dir" /\ PathAt(k)' = q
                             \/ q \in Above[PathAt(k)']
    BY <2>3, <2>4, <2>5 DEF NamespaceIsPassed, p, type
  <2>10. \A q \in newNs'.dirs :
           \E n \in 1..Len(out') : \/ out'[n].type = "dir" /\ out'[n].path = q
                                   \/ q \in Above[out'[n].path]
    <3> SUFFICES ASSUME NEW q \in newNs'.dirs
                 PROVE  \E n \in 1..Len(out') :
                           \/ out'[n].type = "dir" /\ out'[n].path = q
                           \/ q \in Above[out'[n].path]
      OBVIOUS
    <3>1. CASE q \in newNs.dirs
      <4>1. PICK n \in 1..Len(out) : \/ out[n].type = "dir" /\ out[n].path = q
                                     \/ q \in Above[out[n].path]
        BY <3>1 DEF NamespaceIsPassed
      <4>. QED
        BY <2>7, <4>1
    <3>2. CASE q \notin newNs.dirs
      BY <2>5, <2>7, <3>2
    <3>. QED
      BY <3>1, <3>2
  <2>. QED
    BY <2>8, <2>9, <2>10 DEF NamespaceIsPassed
<1>. QED
  BY <1>1, <1>2, <1>3, <1>4, <1>5, RewriteKinds

\* An entry to be written collides with none that was.
LEMMA NewIsFree ==
  ASSUME RewriteTypeOK, InStep, GateHeld, OutIsPassed, WritesDir \/ WritesFile,
         NEW n \in 1..Len(out)
  PROVE  /\ ~Bars(TypeAt(Reached), PathAt(Reached), out[n].type, out[n].path)
         /\ ~Bars(out[n].type, out[n].path, TypeAt(Reached), PathAt(Reached))
         /\ out[n].path # PathAt(Reached)
<1>1. InReplay /\ Reached \in Staying /\ Reached \in Nat
  BY ReachedTyped DEF WritesDir, WritesFile, Passes
<1>2. PICK k \in Passed : out[n].path = PathAt(k) /\ out[n].type = TypeAt(k)
  BY DEF OutIsPassed
<1>3. k \in Staying /\ k # Reached
  BY <1>1, <1>2 DEF Passed
<1>4. /\ ~Bars(TypeAt(Reached), PathAt(Reached), TypeAt(k), PathAt(k))
      /\ ~Bars(TypeAt(k), PathAt(k), TypeAt(Reached), PathAt(Reached))
  BY <1>1, <1>3 DEF GateHeld, NothingBars
<1>5. TypeAt(k) \in {"file", "dir"}
  BY <1>3, ItemTypes DEF Kinds
<1>6. out[n].path # PathAt(Reached)
  <2>1. CASE WritesFile
    BY <1>2, <1>4, <2>1 DEF Bars, WritesFile
  <2>2. CASE WritesDir /\ TypeAt(k) = "file"
    BY <1>2, <1>4, <2>2 DEF Bars
  <2>3. CASE WritesDir /\ TypeAt(k) = "dir"
    BY <1>2, <2>3 DEF OutIsPassed, WritesDir
  <2>. QED
    BY <1>5, <2>1, <2>2, <2>3
<1>. QED
  BY <1>2, <1>4, <1>6

\* No two entries that are written collide.
LEMMA NeverCollidesStep ==
  ASSUME RewriteTypeOK, InStep, GateHeld, OutIsPassed, ReplayNeverCollides, [RewriteNext]_rewriteVars
  PROVE  ReplayNeverCollides'
<1>0. DOMAIN out = 1..Len(out)
  BY ListTypes
<1>1. CASE UNCHANGED out
  BY <1>1 DEF ReplayNeverCollides
<1>2. CASE out' = << >>
  BY <1>2 DEF ReplayNeverCollides
<1>3. CASE WritesDir \/ WritesFile
  <2> DEFINE p == PathAt(Reached)
             type == TypeAt(Reached)
             Free(d, e) == ~Collide(d, e) /\ d.path # e.path
  <2>1. PICK d : Written(p, type, d)
    BY <1>3 DEF WritesDir, WritesFile
  <2>2. out \in Seq(Entries) /\ out' \in Seq(Entries)
    BY RewriteTypeStep DEF RewriteTypeOK
  <2>3. /\ \A n \in 1..Len(out) : out'[n] = out[n]
        /\ out'[Len(out) + 1].path = p /\ out'[Len(out) + 1].type = type
        /\ \A n \in 1..Len(out') : n \in 1..Len(out) \/ n = Len(out) + 1
    BY <2>1, <2>2, OneMore
  <2>4. DOMAIN out' = 1..Len(out')
    BY <2>2, InList
  <2>5. \A n \in 1..Len(out) : /\ Free(out'[n], out'[Len(out) + 1])
                               /\ Free(out'[Len(out) + 1], out'[n])
    BY <1>3, <2>3, NewIsFree DEF Collide, Bars
  <2>6. \A i, j \in 1..Len(out) : i # j => Free(out'[i], out'[j])
    BY <1>0, <2>3 DEF ReplayNeverCollides
  <2>7. \A i, j \in 1..Len(out') : i # j => Free(out'[i], out'[j])
    <3> HIDE DEF Free
    <3>. QED
      BY <2>3, <2>5, <2>6
  <2>. QED
    BY <2>4, <2>7 DEF ReplayNeverCollides
<1>. QED
  BY <1>1, <1>2, <1>3, RewriteKinds
     DEF Stays, Queues, Ends, Begins, Turns, Skips, FindsDir, Install, End, Modify, replay

\* Every entry of the archive that was passed is accounted for.
LEMMA AccountedStep ==
  ASSUME RewriteTypeOK, InStep, NamespaceIsPassed, Accounted, [RewriteNext]_rewriteVars
  PROVE  Accounted'
<1> DEFINE Is(i, n) == \/ out[n].path = archive[i].path /\ out[n].type = archive[i].type
                       \/ archive[i].type = "dir" /\ archive[i].path \in Above[out[n].path]
           Found(i) == \/ i \in removed
                       \/ i \in warned /\ archive[i].type = "link"
                       \/ \E n \in 1..Len(out) : Is(i, n)
<1>0. \A i \in 1..Len(archive) : i < Reached /\ InReplay => Found(i)
  BY DEF Accounted
<1>1. CASE Stays
  BY <1>1 DEF Stays, Fixed, Accounted, InReplay, Reached
<1>2. CASE Queues \/ Ends \/ Install \/ Modify
  BY <1>2 DEF Queues, Ends, Install, End, Modify, Accounted, InReplay
<1>3. CASE Begins
  <2>1. Reached' = 1
    BY <1>3 DEF Begins, Reached, InStep, InReplay
  <2>. QED
    BY <2>1 DEF Accounted
<1>4. CASE Turns
  <2>1. InReplay /\ Reached' = Reached
    BY <1>4, TurnsOn
  <2>2. \A i \in 1..Len(archive) : i < Reached => Found(i)'
    BY <1>0, <1>4, <2>1 DEF Turns, Fixed
  <2>. QED
    BY <1>4, <2>1, <2>2 DEF Turns, Fixed, Accounted
<1>5. CASE Passes /\ (Skips \/ FindsDir \/ WritesDir \/ WritesFile)
  <2>1. InReplay /\ Reached' = Reached + 1 /\ Reached \in Nat
    BY <1>5, PassesOn, ReachedTyped DEF Passes
  <2>2. archive' = archive /\ removed' = removed
    BY <1>5 DEF Passes, Fixed
  <2>3. /\ warned \subseteq warned'
        /\ \A n \in 1..Len(out) : n \in 1..Len(out') /\ out'[n] = out[n]
    <3>1. CASE Skips \/ FindsDir
      BY <3>1 DEF Skips, FindsDir
    <3>2. CASE WritesDir \/ WritesFile
      <4>1. PICK d : Written(PathAt(Reached), TypeAt(Reached), d)
        BY <3>2 DEF WritesDir, WritesFile
      <4>2. out \in Seq(Entries)
        BY DEF RewriteTypeOK
      <4>. QED
        BY <3>2, <4>1, <4>2, OneMore DEF WritesDir, WritesFile
    <3>. QED
      BY <1>5, <3>1, <3>2
  <2>4. \A i \in 1..Len(archive) : Found(i) => Found(i)'
    BY <2>2, <2>3
  <2>5. ASSUME NEW i \in 1..Len(archive), i = Reached PROVE Found(i)'
    <3>1. phase = "retain" /\ Reached = at
      <4>1. at >= 1 /\ at \in Nat /\ Len(archive) \in Nat /\ Len(addedDirs) \in Nat
        BY ListTypes DEF InStep, RewriteTypeOK
      <4>. QED
        BY <2>1, <2>5, <4>1 DEF Reached, InReplay
    <3>2. PathAt(Reached) = archive[i].path /\ TypeAt(Reached) = archive[i].type
      BY <2>5 DEF PathAt, TypeAt
    <3>3. CASE Skips
      BY <2>2, <2>5, <3>3 DEF Skips
    <3>4. CASE FindsDir
      <4>1. archive[i].path \in newNs.dirs /\ archive[i].type = "dir"
        BY <3>1, <3>2, <3>4 DEF FindsDir
      <4>2. PICK n \in 1..Len(out) :
              \/ out[n].type = "dir" /\ out[n].path = archive[i].path
              \/ archive[i].path \in Above[out[n].path]
        BY <4>1 DEF NamespaceIsPassed
      <4>3. Is(i, n)
        BY <4>1, <4>2
      <4>. QED
        BY <2>4, <4>3
    <3>5. CASE WritesDir \/ WritesFile
      <4>1. PICK d : Written(PathAt(Reached), TypeAt(Reached), d)
        BY <3>5 DEF WritesDir, WritesFile
      <4>2. out \in Seq(Entries)
        BY DEF RewriteTypeOK
      <4>3. /\ Len(out) + 1 \in 1..Len(out')
            /\ out'[Len(out) + 1].path = archive[i].path
            /\ out'[Len(out) + 1].type = archive[i].type
        BY <3>2, <4>1, <4>2, OneMore
      <4>. QED
        BY <2>2, <4>3
    <3>. QED
      BY <1>5, <3>3, <3>4, <3>5
  <2>6. ASSUME NEW i \in 1..Len(archive), i < Reached + 1 PROVE Found(i)'
    <3>1. i < Reached \/ i = Reached
      BY <2>1, <2>6
    <3> HIDE DEF Found
    <3>. QED
      BY <1>0, <2>1, <2>4, <2>5, <3>1
  <2>. QED
    BY <2>1, <2>2, <2>6 DEF Accounted
<1>. QED
  BY <1>1, <1>2, <1>3, <1>4, <1>5, RewriteKinds
     DEF Skips, FindsDir, WritesDir, WritesFile

-----------------------------------------------------------------------------
(* The files, in their order.                                              *)

\* The files of a list with one entry more.
LEMMA FilesOneMore ==
  ASSUME NEW s \in Seq(Entries), NEW e \in Entries
  PROVE  LET t == Append(s, e) IN
         /\ Len(FilesIn(s)) \in Nat
         /\ e.type # "file" => FilesIn(t) = FilesIn(s)
         /\ e.type = "file" =>
              /\ Len(FilesIn(t)) = Len(FilesIn(s)) + 1
              /\ \A k \in 1..Len(FilesIn(s)) : FilesIn(t)[k] = FilesIn(s)[k]
              /\ FilesIn(t)[Len(FilesIn(s)) + 1] = e
<1> DEFINE t == Append(s, e)
           L == Len(s)
           S == {n \in DOMAIN s : s[n].type = "file"}
           T == {n \in DOMAIN t : t[n].type = "file"}
           C == Cardinality(S)
<1>1. /\ L \in Nat /\ DOMAIN s = 1..L /\ DOMAIN t = 1..(L + 1)
      /\ \A n \in 1..L : t[n] = s[n]
      /\ t[L + 1] = e
  OBVIOUS
<1>2. S \in SUBSET (1..L) /\ T \in SUBSET (1..(L + 1))
  BY <1>1
<1>3. /\ S \in SUBSET Nat /\ IsFiniteSet(S) /\ C \in Nat
      /\ T \in SUBSET Nat /\ IsFiniteSet(T)
  <2> HIDE DEF S, T
  <2>1. S \in SUBSET Nat /\ IsFiniteSet(S) /\ Cardinality(S) \in Nat
    BY <1>1, <1>2, PartOfRun
  <2>2. L + 1 \in Nat
    BY <1>1
  <2>3. T \in SUBSET Nat /\ IsFiniteSet(T)
    BY <1>2, <2>2, PartOfRun
  <2>. QED
    BY <2>1, <2>3
<1>4. /\ Ascending(S) \in [1..C -> S]
      /\ \A k \in 1..C : Cardinality({y \in S : y <= Ascending(S)[k]}) = k
      /\ Ascending(T) \in [1..Cardinality(T) -> T]
  BY <1>3, AscendingLists
<1>5. /\ FilesIn(s) = [k \in 1..C |-> s[Ascending(S)[k]]]
      /\ FilesIn(t) = [k \in 1..Cardinality(T) |-> t[Ascending(T)[k]]]
  BY <1>4 DEF FilesIn
<1>6. /\ Len(FilesIn(s)) = C
      /\ Cardinality(T) \in Nat => Len(FilesIn(t)) = Cardinality(T)
  <2> HIDE DEF S, T, C
  <2>. QED
    BY <1>3, <1>5
<1>7. \A k \in 1..C : Ascending(S)[k] \in S /\ Ascending(S)[k] \in 1..L
  BY <1>2, <1>4
<1>8. CASE e.type # "file"
  <2>1. T = S
    BY <1>1, <1>8
  <2>2. \A k \in 1..C : t[Ascending(T)[k]] = s[Ascending(S)[k]]
    BY <1>1, <1>7, <2>1
  <2>3. FilesIn(t) = FilesIn(s)
    <3> HIDE DEF S, T, C, t
    <3>. QED
      BY <1>5, <2>1, <2>2 DEF C
  <2>. QED
    BY <1>3, <1>6, <1>8, <2>3
<1>9. CASE e.type = "file"
  <2>1. T = S \cup {L + 1} /\ L + 1 \notin S
    BY <1>1, <1>9
  <2>2. Cardinality(T) = C + 1
    BY <1>3, <2>1, FS_AddElement
  <2>3. ASSUME NEW k \in 1..C PROVE Ascending(T)[k] = Ascending(S)[k]
    <3> DEFINE x == Ascending(S)[k]
    <3>1. x \in S /\ x \in 1..L /\ Cardinality({y \in S : y <= x}) = k
      BY <1>4, <1>7
    <3>2. {y \in T : y <= x} = {y \in S : y <= x}
      <4>1. ~ (L + 1 <= x)
        BY <1>1, <3>1
      <4> HIDE DEF S, T, x
      <4>. QED
        BY <2>1, <4>1
    <3>3. x \in T
      BY <2>1, <3>1
    <3> HIDE DEF x, S, T
    <3>. QED
      BY <1>3, <3>1, <3>2, <3>3, RankOf DEF x
  <2>4. Ascending(T)[C + 1] = L + 1
    <3>1. {y \in T : y <= L + 1} = T
      BY <1>1, <1>2
    <3>2. L + 1 \in T
      BY <2>1
    <3> HIDE DEF S, T, C
    <3>. QED
      BY <1>3, <2>2, <3>1, <3>2, RankOf
  <2>5. \A k \in 1..C : FilesIn(t)[k] = FilesIn(s)[k]
    <3>1. \A k \in 1..C : k \in 1..Cardinality(T)
      <4> HIDE DEF T, C
      <4>. QED
        BY <1>3, <2>2
    <3>2. \A k \in 1..C : t[Ascending(T)[k]] = s[Ascending(S)[k]]
      BY <1>1, <1>7, <2>3
    <3> HIDE DEF S, T, C, t
    <3>. QED
      BY <1>5, <3>1, <3>2
  <2>6. FilesIn(t)[C + 1] = e
    <3>1. C + 1 \in 1..Cardinality(T)
      <4> HIDE DEF T, C
      <4>. QED
        BY <1>3, <2>2
    <3> HIDE DEF S, T, C, t
    <3>. QED
      BY <1>1, <1>5, <2>4, <3>1
  <2> HIDE DEF S, T, C, t
  <2>. QED
    BY <1>3, <1>6, <1>9, <2>2, <2>5, <2>6 DEF t
<1>. QED
  BY <1>8, <1>9

\* The file items, as a set of numbers.
LEMMA FileItemsTyped ==
  ASSUME RewriteTypeOK
  PROVE  FileItems \in SUBSET Nat /\ IsFiniteSet(FileItems)
<1> DEFINE n == Len(archive) + Len(addedDirs) + Len(added)
<1>1. n \in Nat /\ FileItems \in SUBSET (1..n)
  BY ListTypes DEF FileItems, Staying, Places
<1> HIDE DEF n
<1>. QED
  BY <1>1, PartOfRun

\* The payloads that an item may have only get more.
LEMMA PayloadsGrow ==
  ASSUME RewriteTypeOK, Fixed, began' = began, live' \in Nat, live' >= live
  PROVE  \A k : PayloadOf(k) \subseteq PayloadOf(k)'
<1>1. began \in Nat /\ live \in Nat
  BY DEF RewriteTypeOK
<1>2. began..live \subseteq began..live'
  BY <1>1
<1>. QED
  BY <1>2 DEF PayloadOf, Fixed

\* The files are written in their order, and nothing else is.
LEMMA FilesInOrderStep ==
  ASSUME RewriteTypeOK, InStep, FilesInOrder, [RewriteNext]_rewriteVars
  PROVE  FilesInOrder'
<1> DEFINE F(n) == FilesIn(out)[n]
           Good(n) == /\ F(n).path = PathAt(Ascending(FileItems)[n])
                      /\ F(n).data \in PayloadOf(Ascending(FileItems)[n])
           below == {k \in FileItems : k < Reached}
<1>0. InReplay => Len(FilesIn(out)) = Cardinality(below)
                  /\ \A n \in 1..Len(FilesIn(out)) : Good(n)
  BY DEF FilesInOrder
<1>1. CASE Queues \/ Ends \/ Install \/ Modify
  BY <1>1 DEF Queues, Ends, Install, End, Modify, FilesInOrder, InReplay
<1>2. ASSUME Fixed, began' = began, live' >= live
      PROVE  /\ FileItems' = FileItems
             /\ \A k : PathAt(k)' = PathAt(k) /\ PayloadOf(k) \subseteq PayloadOf(k)'
  BY <1>2, FixedItems, PayloadsGrow, RewriteTypeStep DEF RewriteTypeOK
<1>3. CASE Stays \/ Turns \/ Skips \/ FindsDir
  <2>1. Fixed /\ began' = began /\ live' >= live /\ out' = out
    BY <1>3 DEF Stays, Turns, Skips, FindsDir, Passes, RewriteTypeOK
  <2>2. SUFFICES ASSUME InReplay' PROVE FilesInOrder'
    BY DEF FilesInOrder
  <2>3. InReplay /\ {k \in FileItems : k < Reached'} = below
    <3>1. CASE Stays
      BY <2>2, <3>1 DEF Stays, Fixed, InReplay, Reached
    <3>2. CASE Turns
      BY <3>2, TurnsOn
    <3>3. CASE Skips \/ FindsDir
      <4>1. Reached \notin FileItems /\ Passes
        BY <3>3 DEF Skips, FindsDir, FileItems
      <4>2. InReplay /\ Reached' = Reached + 1 /\ Reached \in Nat
        BY <4>1, PassesOn, ReachedTyped DEF Passes
      <4>3. \A k \in FileItems : k < Reached + 1 <=> k < Reached
        BY <4>1, <4>2 DEF FileItems, Staying, Places
      <4>. QED
        BY <4>2, <4>3
    <3>. QED
      BY <1>3, <3>1, <3>2, <3>3
  <2>4. Len(FilesIn(out)) = Cardinality({k \in FileItems : k < Reached'})
    BY <1>0, <2>3
  <2>5. FilesIn(out)' = FilesIn(out)
    BY <2>1 DEF FilesIn
  <2>6. \A n \in 1..Len(FilesIn(out)) : Good(n)
    BY <1>0, <2>3
  <2>. QED
    BY <1>2, <2>1, <2>4, <2>5, <2>6 DEF FilesInOrder
<1>4. CASE Begins
  <2>1. out' = << >> /\ Reached' = 1
    BY <1>4 DEF Begins, InStep, InReplay, Reached
  <2>2. FileItems' = FileItems
    BY <1>4, FixedItems DEF Begins
  <2>3. {k \in FileItems : k < 1} = {}
    BY DEF FileItems, Staying, Places
  <2>4. Len(FilesIn(<< >>)) = 0
    <3>1. {n \in DOMAIN << >> : << >>[n].type = "file"} = {}
      OBVIOUS
    <3>2. DOMAIN Ascending({}) = 1..0
      BY FS_EmptySet DEF Ascending
    <3>3. FilesIn(<< >>) = [k \in 1..0 |-> << >>[Ascending({})[k]]]
      BY <3>1, <3>2 DEF FilesIn
    <3>. QED
      BY <3>3
  <2>. QED
    BY <2>1, <2>2, <2>3, <2>4, FS_EmptySet DEF FilesInOrder
<1>5. CASE WritesDir \/ WritesFile
  <2> DEFINE p == PathAt(Reached)
             type == TypeAt(Reached)
             e(d) == [path |-> p, type |-> type, data |-> d, odd |-> FALSE]
  <2>1. /\ Passes /\ Fixed /\ began' = began /\ live' >= live
        /\ Reached \in Staying
    BY <1>5 DEF WritesDir, WritesFile, Passes, RewriteTypeOK
  <2>2. PICK d : /\ Written(p, type, d)
                 /\ type = "file" => d \in PayloadOf(Reached)
    BY <1>5 DEF WritesDir, WritesFile
  <2>3. out \in Seq(Entries) /\ out' \in Seq(Entries)
    BY RewriteTypeStep DEF RewriteTypeOK
  <2>4. e(d) \in Entries /\ out' = Append(out, e(d))
    <3>1. out' = Append(out, e(d))
      BY <2>2 DEF Written
    <3>2. out'[Len(out) + 1] = e(d) /\ Len(out) + 1 \in 1..Len(out')
      BY <2>2, <2>3, OneMore
    <3> HIDE DEF e
    <3>. QED
      BY <2>3, <3>1, <3>2, InList
  <2>5. e(d).type = type /\ e(d).path = p /\ e(d).data = d
    OBVIOUS
  <2>6. InReplay /\ Reached \in Nat /\ Reached' = Reached + 1
    BY <2>1, PassesOn, ReachedTyped DEF Passes
  <2>7. /\ Len(FilesIn(out)) = Cardinality(below)
        /\ \A n \in 1..Len(FilesIn(out)) : Good(n)
    BY <1>0, <2>6
  <2>8. /\ Cardinality(below) \in Nat
        /\ Cardinality({k \in FileItems : k < Reached + 1})
             = Cardinality(below) + (IF Reached \in FileItems THEN 1 ELSE 0)
        /\ Reached \in FileItems => Ascending(FileItems)[Cardinality(below) + 1] = Reached
    BY <2>6, FileItemsTyped, RankGrows
  <2>9. /\ FileItems' = FileItems
        /\ \A k : PathAt(k)' = PathAt(k) /\ PayloadOf(k) \subseteq PayloadOf(k)'
    BY <1>2, <2>1
  <2> DEFINE g == FilesIn(out')
             C == Cardinality(below)
             Fine(n) == /\ g[n].path = PathAt(Ascending(FileItems)[n])
                        /\ g[n].data \in PayloadOf(Ascending(FileItems)[n])
  <2>10. /\ Len(g) = Cardinality({k \in FileItems : k < Reached + 1})
         /\ \A n \in 1..Len(g) : Fine(n)
    <3> HIDE DEF e, below
    <3>1. CASE type # "file"
      <4>1. g = FilesIn(out)
        BY <2>3, <2>4, <2>5, <3>1, FilesOneMore
      <4>2. Reached \notin FileItems
        BY <3>1 DEF FileItems
      <4>. QED
        BY <2>7, <2>8, <4>1, <4>2
    <3>2. CASE type = "file"
      <4>1. /\ Len(FilesIn(out)) \in Nat /\ Len(g) = Len(FilesIn(out)) + 1
            /\ \A k \in 1..Len(FilesIn(out)) : g[k] = FilesIn(out)[k]
            /\ g[Len(FilesIn(out)) + 1] = e(d)
        BY <2>3, <2>4, <2>5, <3>2, FilesOneMore
      <4>2. Reached \in FileItems
        BY <2>1, <3>2 DEF FileItems
      <4>3. Len(g) = C + 1 /\ Ascending(FileItems)[C + 1] = Reached
        BY <2>7, <2>8, <4>1, <4>2
      <4>4. \A n \in 1..C : Fine(n)
        BY <2>7, <4>1
      <4>5. Fine(C + 1)
        BY <2>2, <2>5, <2>7, <3>2, <4>1, <4>3
      <4>6. \A n \in 1..(C + 1) : n \in 1..C \/ n = C + 1
        BY <2>8
      <4> HIDE DEF Fine, C, g
      <4>7. \A n \in 1..Len(g) : Fine(n)
        BY <4>3, <4>4, <4>5, <4>6
      <4>. QED
        BY <2>8, <4>2, <4>3, <4>7 DEF C
    <3>. QED
      BY <3>1, <3>2
  <2>11. \A n \in 1..Len(g) : /\ g[n].path = PathAt(Ascending(FileItems)[n])'
                              /\ g[n].data \in PayloadOf(Ascending(FileItems)[n])'
    <3> SUFFICES ASSUME NEW n \in 1..Len(g)
                 PROVE  /\ g[n].path = PathAt(Ascending(FileItems)[n])'
                        /\ g[n].data \in PayloadOf(Ascending(FileItems)[n])'
      OBVIOUS
    <3>1. PICK k : k = Ascending(FileItems)[n]
      OBVIOUS
    <3>2. Ascending(FileItems)[n]' = k
      BY <2>9, <3>1
    <3>3. g[n].path = PathAt(k)' /\ g[n].data \in PayloadOf(k)'
      BY <2>9, <2>10, <3>1
    <3>. QED
      BY <3>2, <3>3
  <2>. QED
    BY <2>6, <2>9, <2>10, <2>11 DEF FilesInOrder
<1>. QED
  BY <1>1, <1>3, <1>4, <1>5, RewriteKinds

-----------------------------------------------------------------------------
(* What a commit leaves for the next session.                              *)

\* A written archive has nothing in it that a gate refuses.
LEMMA MadeIsCleanStep ==
  ASSUME RewriteTypeOK, OutIsPassed, ReplayNeverCollides, MadeIsClean, [RewriteNext]_rewriteVars, InStep
  PROVE  MadeIsClean'
<1>1. CASE Install
  <2>1. archive' = out /\ DOMAIN out = 1..Len(out)
    BY <1>1, ListTypes DEF Install
  <2>2. \A i \in 1..Len(out) : out[i].path \notin Wild /\ ~out[i].odd
    BY DEF OutIsPassed
  <2>3. \A i, j \in 1..Len(out) : i # j =>
          /\ out[i].path # out[j].path
          /\ ~Bars(out[i].type, out[i].path, out[j].type, out[j].path)
    BY <2>1 DEF ReplayNeverCollides, Collide, Bars
  <2>. QED
    BY <2>1, <2>2, <2>3 DEF MadeIsClean
<1>2. CASE UNCHANGED <<archive, made>>
  BY <1>2 DEF MadeIsClean
<1>. QED
  BY <1>1, <1>2, RewriteKinds
     DEF Stays, Queues, Ends, Begins, Turns, Skips, FindsDir, WritesDir, WritesFile,
         Passes, Fixed, Modify, queue

\* Whatever has a name that was taken is removed.
LEMMA GoneIsRemovedStep ==
  ASSUME RewriteTypeOK, GoneIsRemoved, [RewriteNext]_rewriteVars, InStep
  PROVE  GoneIsRemoved'
<1>1. CASE Queues
  <2>1. ASSUME NEW g \in gone' PROVE Matching(g[1], g[2])' \subseteq removed'
    <3>1. Matching(g[1], g[2])' = Matching(g[1], g[2])
      BY <1>1 DEF Queues, Matching
    <3>2. Matching(g[1], g[2]) \subseteq removed'
      BY <1>1 DEF Queues, GoneIsRemoved
    <3>. QED
      BY <3>1, <3>2
  <2>. QED
    BY <2>1 DEF GoneIsRemoved
<1>2. CASE gone' = {}
  BY <1>2 DEF GoneIsRemoved
<1>3. CASE UNCHANGED <<archive, removed, gone>>
  BY <1>3 DEF GoneIsRemoved, Matching
<1>. QED
  BY <1>1, <1>2, <1>3, RewriteKinds
     DEF Stays, Ends, Begins, Turns, Skips, FindsDir, WritesDir, WritesFile,
         Passes, Fixed, Install, End, Modify, queue

-----------------------------------------------------------------------------
(* The theorems.                                                           *)

\* The invariant holds in the beginning.
LEMMA ReplayInit == RewriteInit => ReplayInv
<1> SUFFICES ASSUME RewriteInit PROVE ReplayInv
  OBVIOUS
<1>1. RewriteTypeOK /\ InStep
  BY RewriteTypeInit, InStepInit
<1>2. /\ phase = "open" /\ out = << >> /\ newNs = NoPaths /\ made = FALSE
      /\ gone = {}
  BY DEF RewriteInit
<1>. QED
  BY <1>1, <1>2
     DEF ReplayInv, GateHeld, OutIsPassed, NamespaceIsPassed, NoPaths,
         ReplayNeverCollides, Accounted, FilesInOrder, MadeIsClean, GoneIsRemoved,
         InReplay

\* And with every step.
LEMMA ReplayStep == ReplayInv /\ [RewriteNext]_rewriteVars => ReplayInv'
  BY RewriteTypeStep, InStepStep, GateHeldStep, OutIsPassedStep, NamespaceIsPassedStep,
     NeverCollidesStep, AccountedStep, FilesInOrderStep, MadeIsCleanStep,
     GoneIsRemovedStep DEF ReplayInv

\* It is an invariant.
LEMMA ReplayInvariant == RewriteSpec => []ReplayInv
  BY ReplayInit, ReplayStep, PTL DEF RewriteSpec

\* The new namespace does not refuse what the gate let through.
LEMMA GateCovers == ReplayInv => GateCoversReplay
<1> SUFFICES ASSUME ReplayInv PROVE GateCoversReplay
  OBVIOUS
<1>0. RewriteTypeOK /\ InStep /\ GateHeld /\ NamespaceIsPassed
  BY DEF ReplayInv
<1>1. ASSUME InReplay, Reached \in Staying
      PROVE  /\ TypeAt(Reached) = "dir" => \/ PathAt(Reached) \in newNs.dirs
                                           \/ DirFits(newNs, PathAt(Reached))
             /\ TypeAt(Reached) = "file" => \/ PathAt(Reached) \in newNs.dirs
                                            \/ FileFits(newNs, PathAt(Reached))
  <2>1. Reached \in Nat
    BY <1>0, <1>1, ReachedTyped
  <2>2. ASSUME NEW q \in newNs.files
        PROVE  q # PathAt(Reached) /\ q \notin Above[PathAt(Reached)]
    <3>1. PICK k \in Passed : TypeAt(k) = "file" /\ PathAt(k) = q
      BY <1>0 DEF NamespaceIsPassed
    <3>2. k \in Staying /\ k # Reached
      BY <2>1, <3>1 DEF Passed
    <3>. QED
      BY <1>0, <1>1, <3>1, <3>2 DEF GateHeld, NothingBars, Bars
  <2>. QED
    BY <2>2 DEF DirFits, FileFits, UnderFile
<1>2. ASSUME InReplay, Reached \in Staying, TypeAt(Reached) = "file"
      PROVE  PathAt(Reached) \notin newNs.dirs
  <2> SUFFICES ASSUME PathAt(Reached) \in newNs.dirs PROVE FALSE
    OBVIOUS
  <2>1. Reached \in Nat
    BY <1>0, <1>2, ReachedTyped
  <2>2. PICK k \in Passed : \/ TypeAt(k) = "dir" /\ PathAt(k) = PathAt(Reached)
                            \/ PathAt(Reached) \in Above[PathAt(k)]
    BY <1>0 DEF NamespaceIsPassed
  <2>3. k \in Staying /\ k # Reached
    BY <2>1, <2>2 DEF Passed
  <2>. QED
    BY <1>0, <1>2, <2>2, <2>3 DEF GateHeld, NothingBars, Bars
<1>3. ASSUME phase = "retain", at \in Kept, archive[at].type = "dir"
      PROVE  archive[at].path \in newNs.dirs \/ DirFits(newNs, archive[at].path)
  <2>1. Replaying(at) /\ at \in DOMAIN archive /\ at \notin removed /\ ~Drops(archive[at])
    BY <1>3 DEF Kept, Replaying
  <2>. QED
    BY <1>0, <1>1, <1>3, <2>1, RetainReaches
<1>4. ASSUME phase = "dirs", at \in DOMAIN addedDirs
      PROVE  addedDirs[at] \in newNs.dirs \/ DirFits(newNs, addedDirs[at])
  <2>1. at <= Len(addedDirs)
    BY <1>0, <1>4, ListTypes
  <2>. QED
    BY <1>0, <1>1, <1>4, <2>1, DirReaches
<1>5. ASSUME phase = "adds", at \in DOMAIN added
      PROVE  FileFits(newNs, added[at].path)
  <2>1. at <= Len(added)
    BY <1>0, <1>5, ListTypes
  <2>. QED
    BY <1>0, <1>1, <1>2, <1>5, <2>1, AddReaches
<1>. QED
  BY <1>3, <1>4, <1>5 DEF GateCoversReplay

\* The gate refuses exactly what could not be extracted, whatever the archive
\* is like; and what it lets through, the replay writes without two entries
\* that collide and without a refusal of the new archive's namespace.
THEOREM ReplayIsSound == RewriteSpec => []ReplaySound
<1>1. ReplayInv => ReplaySound
  BY GateIsExact, GateCovers DEF ReplayInv, ReplaySound
<1>. QED
  BY <1>1, ReplayInvariant, PTL

\* The step that ends a commit with Ok.
LEMMA CommittedIsInstall ==
  ASSUME RewriteTypeOK, InStep, [RewriteNext]_rewriteVars, Committed
  PROVE  Install
<1>1. phase = "adds" /\ phase' = "closed" /\ answer'.ok
  BY DEF Committed
<1> USE <1>1 DEF queue, replay
<1>2. CASE UNCHANGED rewriteVars
  BY <1>2 DEF rewriteVars
<1>3. CASE Queueing
  BY <1>3 DEF Queueing
<1>4. CASE TryCommit \/ CommitEmpty \/ CommitRefused \/ CommitSession \/ Modify \/ Change
  BY <1>4 DEF TryCommit, CommitEmpty, CommitRefused, CommitSession, Modify, Change
<1>5. CASE \E i \in DOMAIN archive :
             \/ RetainSkipped(i) \/ RetainDropped(i) \/ RetainDir(i)
             \/ RetainFile(i) \/ RetainUnreadable(i)
  BY <1>5 DEF RetainSkipped, RetainDropped, RetainDir, RetainFile, RetainUnreadable,
              Replaying
<1>6. CASE RetainDone \/ DirsDone \/ WriteDir \/ WriteFile \/ WriteReader
  BY <1>6 DEF RetainDone, DirsDone, Follow, WriteDir, WriteFile, WriteReader, Onward
<1>7. CASE WriteMismatch \/ ReplayError
  <2>1. \E why : End(FALSE, why)
    BY <1>7 DEF WriteMismatch, ReplayError, FailReplay
  <2>2. answer'.ok = FALSE
    BY <2>1 DEF End
  <2>. QED
    BY <2>2
<1>. QED
  BY <1>2, <1>3, <1>4, <1>5, <1>6, <1>7, QueueTyped DEF RewriteNext

\* The commit has written everything.
LEMMA InstallHasAll ==
  ASSUME RewriteTypeOK, InStep, Install
  PROVE  /\ InReplay /\ archive' = out
         /\ Reached = Len(archive) + Len(addedDirs) + Len(added) + 1
         /\ \A k \in Staying : k < Reached
<1>1. /\ phase = "adds" /\ at = Len(added) + 1 /\ archive' = out
  <2>1. at \in Nat /\ Len(added) \in Nat
    BY ListTypes DEF RewriteTypeOK
  <2>2. phase = "adds" /\ at > Len(added) /\ archive' = out
    BY DEF Install
  <2>. QED
    BY <2>1, <2>2 DEF InStep
<1>2. Reached = Len(archive) + Len(addedDirs) + Len(added) + 1
  BY <1>1, ListTypes DEF Reached
<1>. QED
  BY <1>1, <1>2, ListTypes DEF InReplay, Staying, Places

\* The file items are the retained files and, behind them, what was queued.
LEMMA FileItemsInOrder ==
  ASSUME RewriteTypeOK
  PROVE  LET K == {i \in DOMAIN archive : i \notin removed /\ archive[i].type = "file"}
             A == Len(archive) + Len(addedDirs)
         IN  /\ Cardinality(K) \in Nat
             /\ DOMAIN Ascending(K) = 1..Cardinality(K)
             /\ Cardinality(FileItems) = Cardinality(K) + Len(added)
             /\ \A n \in 1..Cardinality(K) :
                  /\ Ascending(K)[n] \in 1..Len(archive)
                  /\ Ascending(FileItems)[n] = Ascending(K)[n]
             /\ \A n \in 1..Len(added) :
                  Ascending(FileItems)[Cardinality(K) + n] = A + n
<1> DEFINE K == {i \in DOMAIN archive : i \notin removed /\ archive[i].type = "file"}
           A == Len(archive) + Len(addedDirs)
           C == Cardinality(K)
           Upto(n) == {A + m : m \in 1..n}
<1>1. /\ Len(archive) \in Nat /\ DOMAIN archive = 1..Len(archive)
      /\ Len(added) \in Nat /\ Len(addedDirs) \in Nat /\ A \in Nat
  BY ListTypes
<1>2. K \in SUBSET (1..Len(archive)) /\ K \in SUBSET Nat /\ IsFiniteSet(K) /\ C \in Nat
  <2>1. K \in SUBSET (1..Len(archive))
    BY <1>1
  <2> HIDE DEF K
  <2>. QED
    BY <1>1, <2>1, PartOfRun
<1>3. /\ Ascending(K) \in [1..C -> K]
      /\ \A n \in 1..C : Cardinality({y \in K : y <= Ascending(K)[n]}) = n
  BY <1>2, AscendingLists
<1>4. FileItems \in SUBSET Nat /\ IsFiniteSet(FileItems)
  BY FileItemsTyped
<1>5. \A k : k \in FileItems <=> \/ k \in K
                                 \/ \E m \in 1..Len(added) : k = A + m
  <2> SUFFICES ASSUME NEW k
               PROVE  k \in FileItems <=> \/ k \in K
                                          \/ \E m \in 1..Len(added) : k = A + m
    OBVIOUS
  <2>1. ASSUME k \in 1..Len(archive)
        PROVE  k \in FileItems <=> k \in K
    <3>1. k \in Places /\ k <= Len(archive) /\ TypeAt(k) = archive[k].type
      BY <1>1, <2>1 DEF Places, TypeAt
    <3>. QED
      BY <1>1, <2>1, <3>1 DEF FileItems, Staying, Kept, Drops
  <2>2. ASSUME k \in Places, ~(k <= Len(archive))
        PROVE  k \in FileItems <=> \E m \in 1..Len(added) : k = A + m
    <3>1. k \in Staying
      BY <2>2 DEF Staying
    <3>2. k \in FileItems <=> ~(k <= A)
      BY <2>2, <3>1 DEF FileItems, TypeAt
    <3>3. k \in 1..(A + Len(added))
      BY <2>2 DEF Places
    <3>4. ~(k <= A) => k - A \in 1..Len(added) /\ k = A + (k - A)
      BY <1>1, <3>3
    <3>. QED
      BY <1>1, <3>2, <3>4
  <2>3. k \in FileItems => k \in Places
    BY DEF FileItems, Staying
  <2>4. k \in Places /\ k <= Len(archive) => k \in 1..Len(archive)
    BY <1>1 DEF Places
  <2>5. (\E m \in 1..Len(added) : k = A + m) => k \in Places /\ ~(k <= Len(archive))
    BY <1>1 DEF Places
  <2> HIDE DEF A
  <2>. QED
    BY <1>2, <2>1, <2>2, <2>3, <2>4, <2>5
<1>6. ASSUME NEW n \in 0..Len(added)
      PROVE  /\ IsFiniteSet(K \cup Upto(n))
             /\ Cardinality(K \cup Upto(n)) = C + n
  <2> DEFINE f == [m \in 1..n |-> A + m]
  <2>1. n \in Nat /\ IsFiniteSet(1..n) /\ Cardinality(1..n) = n
    BY <1>1, UpTo
  <2>2. IsFiniteSet(Upto(n)) /\ Cardinality(Upto(n)) = n
    <3>1. Upto(n) = {f[m] : m \in 1..n}
      OBVIOUS
    <3>2. \A s, t \in 1..n : f[s] = f[t] => s = t
      BY <1>1
    <3> HIDE DEF f, A, Upto
    <3>3. /\ IsFiniteSet({f[m] : m \in 1..n})
          /\ Cardinality({f[m] : m \in 1..n}) = Cardinality(1..n)
      BY <2>1, <3>2, ImageIsFinite
    <3>. QED
      BY <2>1, <3>1, <3>3
  <2>3. K \cap Upto(n) = {}
    BY <1>1, <1>2
  <2> HIDE DEF K, Upto
  <2>4. /\ IsFiniteSet(K \cup Upto(n))
        /\ Cardinality(K \cup Upto(n)) = Cardinality(K) + Cardinality(Upto(n))
             - Cardinality(K \cap Upto(n))
    BY <1>2, <2>2, FS_Union
  <2>. QED
    BY <1>2, <2>1, <2>2, <2>3, <2>4, FS_EmptySet
<1>7. FileItems = K \cup Upto(Len(added))
  <2> HIDE DEF A, K
  <2>. QED
    BY <1>5
<1>8. ASSUME NEW n \in 1..C
      PROVE  /\ Ascending(K)[n] \in 1..Len(archive)
             /\ Ascending(FileItems)[n] = Ascending(K)[n]
  <2> DEFINE x == Ascending(K)[n]
  <2>1. x \in K /\ x \in 1..Len(archive) /\ Cardinality({y \in K : y <= x}) = n
    BY <1>2, <1>3
  <2>2. {y \in FileItems : y <= x} = {y \in K : y <= x}
    <3>1. \A m \in 1..Len(added) : ~(A + m <= x)
      BY <1>1, <2>1
    <3> HIDE DEF x, K, A
    <3>. QED
      BY <1>5, <3>1
  <2>3. x \in FileItems
    BY <1>5, <2>1
  <2>4. Cardinality({y \in FileItems : y <= x}) = n
    BY <2>1, <2>2
  <2> HIDE DEF x, K
  <2>5. Ascending(FileItems)[n] = x
    BY <1>4, <2>3, <2>4, RankOf
  <2>. QED
    BY <2>1, <2>5 DEF x
<1>9. ASSUME NEW n \in 1..Len(added)
      PROVE  Ascending(FileItems)[C + n] = A + n
  <2>1. {y \in FileItems : y <= A + n} = K \cup Upto(n)
    <3>1. \A m \in 1..Len(added) : A + m <= A + n <=> m \in 1..n
      BY <1>1
    <3>2. \A y \in K : y <= A + n
      BY <1>1, <1>2
    <3>3. \A m \in 1..n : m \in 1..Len(added)
      BY <1>1
    <3> HIDE DEF A, K
    <3>. QED
      BY <1>5, <3>1, <3>2, <3>3
  <2>2. n \in 0..Len(added)
    BY <1>1
  <2>3. Cardinality({y \in FileItems : y <= A + n}) = C + n
    BY <1>6, <2>1, <2>2
  <2>4. A + n \in FileItems
    BY <1>5
  <2> HIDE DEF A, C, K
  <2>. QED
    BY <1>4, <2>3, <2>4, RankOf
<1>10. Cardinality(FileItems) = C + Len(added)
  <2>1. Len(added) \in 0..Len(added)
    BY <1>1
  <2>. QED
    BY <1>6, <1>7, <2>1
<1>. QED
  BY <1>2, <1>3, <1>8, <1>9, <1>10

\* What a commit leaves, in terms of the list of files of the new archive.
LEMMA InstalledFiles ==
  ASSUME RewriteTypeOK, InStep, FilesInOrder, Install
  PROVE  LET K == {i \in DOMAIN archive : i \notin removed /\ archive[i].type = "file"}
             files == FilesIn(out)
         IN  /\ Len(files) = Cardinality(K) + Len(added)
             /\ \A n \in 1..Cardinality(K) :
                  files[n].path = archive[Ascending(K)[n]].path
                    /\ files[n].data = archive[Ascending(K)[n]].data
             /\ \A n \in 1..Len(added) :
                  LET f == files[Cardinality(K) + n]
                  IN  /\ f.path = added[n].path
                      /\ IF added[n].src = "path" THEN f.data \in began..live
                         ELSE f.data = added[n].data
<1> DEFINE K == {i \in DOMAIN archive : i \notin removed /\ archive[i].type = "file"}
           files == FilesIn(out)
           C == Cardinality(K)
           A == Len(archive) + Len(addedDirs)
<1>1. InReplay /\ {k \in FileItems : k < Reached} = FileItems
  BY InstallHasAll DEF FileItems
<1>2. /\ Len(files) = Cardinality(FileItems)
      /\ \A n \in 1..Len(files) :
           /\ files[n].path = PathAt(Ascending(FileItems)[n])
           /\ files[n].data \in PayloadOf(Ascending(FileItems)[n])
  BY <1>1 DEF FilesInOrder
<1>3. /\ C \in Nat
      /\ DOMAIN Ascending(K) = 1..C
      /\ Cardinality(FileItems) = C + Len(added)
      /\ \A n \in 1..C : /\ Ascending(K)[n] \in 1..Len(archive)
                         /\ Ascending(FileItems)[n] = Ascending(K)[n]
      /\ \A n \in 1..Len(added) : Ascending(FileItems)[C + n] = A + n
  BY FileItemsInOrder
<1>4. Len(added) \in Nat /\ Len(archive) \in Nat /\ Len(addedDirs) \in Nat
  BY ListTypes
<1> HIDE DEF K, files, C
<1>5. ASSUME NEW n \in 1..C
      PROVE  files[n].path = archive[Ascending(K)[n]].path
               /\ files[n].data = archive[Ascending(K)[n]].data
  <2>1. n \in 1..Len(files)
    BY <1>2, <1>3, <1>4
  <2>2. Ascending(K)[n] \in 1..Len(archive) /\ Ascending(K)[n] <= Len(archive)
    BY <1>3, <1>4
  <2>. QED
    BY <1>2, <1>3, <2>1, <2>2 DEF PathAt, PayloadOf
<1>6. ASSUME NEW n \in 1..Len(added)
      PROVE  /\ files[C + n].path = added[n].path
             /\ IF added[n].src = "path" THEN files[C + n].data \in began..live
                ELSE files[C + n].data = added[n].data
  <2>1. C + n \in 1..Len(files)
    BY <1>2, <1>3, <1>4
  <2>2. /\ ~(A + n <= Len(archive)) /\ ~(A + n <= A)
        /\ A + n - Len(archive) - Len(addedDirs) = n
    BY <1>4
  <2>3. PathAt(A + n) = added[n].path
    BY <2>2 DEF PathAt
  <2>4. PayloadOf(A + n) = IF added[n].src = "path" THEN began..live ELSE {added[n].data}
    <3> DEFINE k == A + n
    <3>1. ~(k <= Len(archive)) /\ k - Len(archive) - Len(addedDirs) = n
      BY <2>2
    <3> HIDE DEF k
    <3>2. PayloadOf(k) = IF added[n].src = "path" THEN began..live ELSE {added[n].data}
      BY <3>1 DEF PayloadOf
    <3>. QED
      BY <3>2 DEF k
  <2>5. /\ files[C + n].path = PathAt(A + n)
        /\ files[C + n].data \in PayloadOf(A + n)
    BY <1>2, <1>3, <2>1
  <2>. QED
    BY <2>3, <2>4, <2>5
<1>. QED
  BY <1>2, <1>3, <1>5, <1>6 DEF K, files, C

\* A commit that answers Ok leaves the files that were not removed, in their
\* order and with their payloads, and what was queued behind them.
THEOREM FilesAreAsQueued == RewriteSpec => FilesAsQueued
<1> DEFINE K == {i \in DOMAIN archive : i \notin removed /\ archive[i].type = "file"}
           Right == Committed =>
             LET files == FilesIn(archive')
                 kept  == Ascending({i \in DOMAIN archive :
                                       i \notin removed /\ archive[i].type = "file"})
             IN  /\ Len(files) = Len(kept) + Len(added)
                 /\ \A n \in DOMAIN kept :
                      files[n].path = archive[kept[n]].path
                        /\ files[n].data = archive[kept[n]].data
                 /\ \A n \in DOMAIN added :
                      LET f == files[Len(kept) + n]
                      IN  /\ f.path = added[n].path
                          /\ IF added[n].src = "path" THEN f.data \in began..live
                             ELSE f.data = added[n].data
<1>1. ReplayInv /\ [RewriteNext]_rewriteVars => [Right]_rewriteVars
  <2> SUFFICES ASSUME ReplayInv, [RewriteNext]_rewriteVars, Committed PROVE Right
    OBVIOUS
  <2>1. RewriteTypeOK /\ InStep /\ FilesInOrder
    BY DEF ReplayInv
  <2>2. Install
    BY <2>1, CommittedIsInstall
  <2>3. archive' = out
    BY <2>2 DEF Install
  <2>4. /\ Cardinality(K) \in Nat /\ DOMAIN Ascending(K) = 1..Cardinality(K)
        /\ DOMAIN added = 1..Len(added)
    BY <2>1, FileItemsInOrder, ListTypes
  <2>5. Len(Ascending(K)) = Cardinality(K)
    <3> HIDE DEF K
    <3>. QED
      BY <2>4
  <2>6. /\ Len(FilesIn(out)) = Cardinality(K) + Len(added)
        /\ \A n \in 1..Cardinality(K) :
             FilesIn(out)[n].path = archive[Ascending(K)[n]].path
               /\ FilesIn(out)[n].data = archive[Ascending(K)[n]].data
        /\ \A n \in 1..Len(added) :
             LET f == FilesIn(out)[Cardinality(K) + n]
             IN  /\ f.path = added[n].path
                 /\ IF added[n].src = "path" THEN f.data \in began..live
                    ELSE f.data = added[n].data
    BY <2>1, <2>2, InstalledFiles
  <2>. QED
    BY <2>3, <2>4, <2>5, <2>6
<1>. QED
  BY <1>1, ReplayInvariant, PTL DEF RewriteSpec, FilesAsQueued

\* Each entry of the old archive was removed, is reported, or is in the new
\* one.
THEOREM NothingIsLost == RewriteSpec => NothingLostSilently
<1> DEFINE Right == Committed =>
             \A i \in DOMAIN archive :
               \/ i \in removed
               \/ i \in warned /\ archive[i].type = "link"
               \/ \E n \in DOMAIN archive' :
                    \/ archive'[n].path = archive[i].path
                         /\ archive'[n].type = archive[i].type
                    \/ archive[i].type = "dir" /\ archive[i].path \in Above[archive'[n].path]
<1>1. ReplayInv /\ [RewriteNext]_rewriteVars => [Right]_rewriteVars
  <2> SUFFICES ASSUME ReplayInv, [RewriteNext]_rewriteVars, Committed PROVE Right
    OBVIOUS
  <2>1. RewriteTypeOK /\ InStep /\ Accounted
    BY DEF ReplayInv
  <2>2. Install
    BY <2>1, CommittedIsInstall
  <2>3. /\ InReplay /\ archive' = out
        /\ Reached = Len(archive) + Len(addedDirs) + Len(added) + 1
    BY <2>1, <2>2, InstallHasAll
  <2>4. /\ DOMAIN archive = 1..Len(archive) /\ DOMAIN out = 1..Len(out)
        /\ \A i \in 1..Len(archive) : i < Reached
    BY <2>1, <2>3, ListTypes
  <2>. QED
    BY <2>1, <2>3, <2>4 DEF Accounted
<1>. QED
  BY <1>1, ReplayInvariant, PTL DEF RewriteSpec, NothingLostSilently

\* A commit does what was queued: the files are those kept and those added,
\* and what is gone was removed or is reported.
THEOREM CommitIsAsQueued == RewriteSpec => CommitAsQueued
  BY FilesAreAsQueued, NothingIsLost DEF CommitAsQueued

\* A name that remove_entry took does not come back, but from the queue.
THEOREM RemovedIsGone == RewriteSpec => RemovedStaysGone
<1> DEFINE Right == Committed =>
             \A n \in DOMAIN archive' :
               <<archive'[n].path, archive'[n].type = "dir">> \in gone =>
                 \/ \E a \in Range(added) : a.path = archive'[n].path
                 \/ \E p \in Range(addedDirs) : p = archive'[n].path
<1>1. ReplayInv /\ [RewriteNext]_rewriteVars => [Right]_rewriteVars
  <2> SUFFICES ASSUME ReplayInv, [RewriteNext]_rewriteVars, Committed PROVE Right
    OBVIOUS
  <2>1. RewriteTypeOK /\ InStep /\ OutIsPassed /\ GoneIsRemoved
    BY DEF ReplayInv
  <2>2. archive' = out
    BY <2>1, CommittedIsInstall DEF Install
  <2> SUFFICES ASSUME NEW n \in DOMAIN out,
                      <<out[n].path, out[n].type = "dir">> \in gone
               PROVE  \/ \E a \in Range(added) : a.path = out[n].path
                      \/ \E p \in Range(addedDirs) : p = out[n].path
    BY <2>2
  <2>3. PICK k \in Passed : out[n].path = PathAt(k) /\ out[n].type = TypeAt(k)
    BY <2>1, ListTypes DEF OutIsPassed
  <2>4. k \in Places /\ (k <= Len(archive) => k \in Kept)
    BY <2>3 DEF Passed, Staying
  <2>5. ASSUME k <= Len(archive) PROVE FALSE
    <3>1. k \in Kept /\ k \in DOMAIN archive /\ k \notin removed
      BY <2>4, <2>5 DEF Kept
    <3>2. archive[k].path = out[n].path /\ archive[k].type = out[n].type
      BY <2>3, <2>5 DEF PathAt, TypeAt
    <3>3. k \in Matching(out[n].path, out[n].type = "dir")
      BY <3>1, <3>2, Zenon DEF Matching
    <3> DEFINE g == <<out[n].path, out[n].type = "dir">>
    <3>4. Matching(g[1], g[2]) \subseteq removed
      BY <2>1 DEF GoneIsRemoved
    <3>5. g[1] = out[n].path /\ g[2] = (out[n].type = "dir")
      OBVIOUS
    <3> HIDE DEF g
    <3>6. Matching(g[1], g[2]) = Matching(out[n].path, out[n].type = "dir")
      BY <3>5, Zenon
    <3>. QED
      BY <3>1, <3>3, <3>4, <3>6
  <2>6. CASE ~(k <= Len(archive)) /\ k <= Len(archive) + Len(addedDirs)
    <3>1. k - Len(archive) \in DOMAIN addedDirs
      BY <2>1, <2>4, <2>6, ListTypes DEF Places
    <3>. QED
      BY <2>3, <2>6, <3>1 DEF PathAt, Range
  <2>7. CASE ~(k <= Len(archive)) /\ ~(k <= Len(archive) + Len(addedDirs))
    <3>1. k - Len(archive) - Len(addedDirs) \in DOMAIN added
      BY <2>1, <2>4, <2>7, ListTypes DEF Places
    <3>. QED
      BY <2>3, <2>7, <3>1 DEF PathAt, Range
  <2>. QED
    BY <2>5, <2>6, <2>7
<1>. QED
  BY <1>1, ReplayInvariant, PTL DEF RewriteSpec, RemovedStaysGone

\* A session that only removes is not refused by what a commit has written.
LEMMA CleanIsNotRefused ==
  ASSUME RewriteTypeOK, MadeIsClean, made, addedDirs = << >>, added = << >>
  PROVE  Refusal = ""
<1>1. /\ Len(archive) \in Nat /\ DOMAIN archive = 1..Len(archive)
      /\ Len(addedDirs) = 0 /\ Len(added) = 0
  BY ListTypes
<1>2. ~Misshapen
  BY <1>1 DEF Misshapen, Kept, MadeIsClean
<1>3. ListingsAgree
  BY <1>1 DEF ListingsAgree, SameName, MadeIsClean
<1>4. NothingBars
  <2>1. ASSUME NEW k \in Staying
        PROVE  /\ k \in 1..Len(archive)
               /\ TypeAt(k) = archive[k].type /\ PathAt(k) = archive[k].path
    <3>1. k \in 1..Len(archive)
      BY <1>1 DEF Staying, Places
    <3>. QED
      BY <1>1, <3>1 DEF TypeAt, PathAt
  <2>2. ASSUME NEW k \in Staying, NEW l \in Staying, k # l
        PROVE  ~Bars(TypeAt(k), PathAt(k), TypeAt(l), PathAt(l))
    <3>1. /\ k \in 1..Len(archive) /\ l \in 1..Len(archive)
          /\ TypeAt(k) = archive[k].type /\ PathAt(k) = archive[k].path
          /\ TypeAt(l) = archive[l].type /\ PathAt(l) = archive[l].path
      BY <2>1
    <3>2. ~Bars(archive[k].type, archive[k].path, archive[l].type, archive[l].path)
      BY <2>2, <3>1 DEF MadeIsClean
    <3>. QED
      BY <3>1, <3>2
  <2>. QED
    BY <2>2 DEF NothingBars
<1>5. ClaimsFit
  BY <1>4, ClaimsFitExactly
<1>. QED
  BY <1>2, <1>3, <1>5 DEF Refusal

\* A session that the gate lets through is closed in one step only if it is
\* empty.
LEMMA ClosingIsEmpty ==
  ASSUME RewriteTypeOK, [RewriteNext]_rewriteVars, phase = "open", phase' = "closed", Refusal = ""
  PROVE  CommitEmpty
<1> USE DEF queue, replay
<1>1. CASE UNCHANGED rewriteVars
  BY <1>1 DEF rewriteVars
<1>2. CASE Queueing
  BY <1>2 DEF Queueing
<1>3. CASE TryCommit \/ CommitRefused \/ CommitSession \/ Modify \/ Change
  BY <1>3 DEF TryCommit, CommitRefused, CommitSession, Modify, Change
<1>4. CASE \E i \in DOMAIN archive :
             \/ RetainSkipped(i) \/ RetainDropped(i) \/ RetainDir(i)
             \/ RetainFile(i) \/ RetainUnreadable(i)
  BY <1>4 DEF RetainSkipped, RetainDropped, RetainDir, RetainFile, RetainUnreadable,
              Replaying
<1>5. CASE RetainDone \/ DirsDone \/ WriteDir \/ WriteFile \/ WriteReader
  BY <1>5 DEF RetainDone, DirsDone, Follow, WriteDir, WriteFile, WriteReader
<1>6. CASE WriteMismatch \/ ReplayError \/ Install
  BY <1>6 DEF WriteMismatch, ReplayError, Install
<1>. QED
  BY <1>1, <1>2, <1>3, <1>4, <1>5, <1>6, QueueTyped DEF RewriteNext

\* What a commit has written can be modified again.
THEOREM RewriteIsReopened == RewriteSpec => RewriteReopens
<1> DEFINE Right == made /\ phase = "open" /\ addedDirs = << >> /\ added = << >>
                      /\ phase' = "closed" => answer'.ok
<1>1. ReplayInv /\ [RewriteNext]_rewriteVars => [Right]_rewriteVars
  <2> SUFFICES ASSUME ReplayInv, [RewriteNext]_rewriteVars,
                      made, phase = "open", addedDirs = << >>, added = << >>,
                      phase' = "closed"
               PROVE  answer'.ok
    OBVIOUS
  <2>1. RewriteTypeOK /\ InStep /\ MadeIsClean
    BY DEF ReplayInv
  <2>2. Refusal = ""
    BY <2>1, CleanIsNotRefused
  <2>3. CommitEmpty
    BY <2>1, <2>2, ClosingIsEmpty
  <2>. QED
    BY <2>3 DEF CommitEmpty, End
<1>. QED
  BY <1>1, ReplayInvariant, PTL DEF RewriteSpec, RewriteReopens
=============================================================================
