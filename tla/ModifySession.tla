---------------------------- MODULE ModifySession ----------------------------
(***************************************************************************)
(* `Archive::modify` ... `commit_changes` (src/src/modification.rs) as     *)
(* seen from the file system: several processes edit one archive pathname  *)
(* copy-on-write, under an advisory lock on the inode they opened, while   *)
(* writers that know nothing of the lock may replace the file.             *)
(*                                                                         *)
(* A session is one modify() handle, used once: a retry is another         *)
(* session.  A file is named by who created it, so the staging file of     *)
(* session s is the file s.  The bytes of an archive are abstracted to the *)
(* set of edits they carry (the writers whose work they contain); files    *)
(* are never changed in place once complete.                               *)
(***************************************************************************)
EXTENDS Naturals, FiniteSets

CONSTANTS Sessions,    \* modify() handles
          Outsiders,   \* writers that ignore the lock, one replacement each
          Origin,      \* the file the archive pathname names at the start
          None,        \* no file, no session
          User,        \* owner of a backup that was there before
          MaxReads,    \* bound: retained entries re-opened by one replay
          MaxOutages   \* bound: power losses

ASSUME SessionAssumption ==
  /\ Sessions \cap Outsiders = {}
  /\ Origin \notin Sessions \cup Outsiders
  /\ None \notin Sessions \cup Outsiders \cup {Origin}
  /\ User \notin Sessions \cup Outsiders \cup {Origin, None}
  /\ MaxReads \in Nat
  /\ MaxOutages \in Nat

Files == {Origin} \cup Sessions \cup Outsiders
Writers == Sessions \cup Outsiders
Modes == {"restricted", "umask"}   \* umask: what a freshly created file gets
Directories == [path   : Files,                       \* the archive pathname
                staged : SUBSET Sessions,             \* staging names present
                backup : Sessions \cup {None, User}]  \* who wrote <path>.bak

VARIABLES
  dir,       \* the directory as running processes see it
  ddir,      \* the directory as it is on disk
  edits,     \* edits[f]: the edits the bytes of f carry
  intact,    \* files whose bytes are complete
  synced,    \* files whose bytes are on disk
  mode,      \* permission bits
  holder,    \* who holds the advisory lock on a file
  bakOf,     \* bakOf[s]: the file whose bytes the backup of s holds
  bakMode,   \* permission bits of the backup of s
  outages,   \* power losses so far
  arrived    \* outsiders that have replaced the archive

dirVars == <<dir, ddir>>
dataVars == <<edits, intact, synced, mode, bakOf, bakMode>>
envVars == <<outages, arrived>>
fileVars == <<dirVars, dataVars, envVars>>

VARIABLES
  pc,        \* where the call of s stands
  fd,        \* the file of the lock descriptor; also the locked identity
  bound,     \* the file identity the read backend is bound to
  bracket,   \* a re-open by pathname in progress: "none", "stat", "open"
  seen,      \* the file that re-open found
  got,       \* files whose bytes the session has used
  listed,    \* the cached listing is filled
  reads,     \* retained entries replayed so far
  queued,    \* there are pending operations
  wants,     \* create_backup
  result     \* what the caller was told

readVars == <<bound, bracket, seen, got, listed, reads>>
callVars == <<queued, wants, result>>
vars == <<fileVars, holder, pc, fd, readVars, callVars>>

Validating == {"plan", "extras", "planned"}
Writing == {"created", "replay", "finished", "carried", "claim"}
Ended == {"done", "crashed"}
Locking == {"locked", "probe", "probed", "bind", "ready"} \cup Validating
             \cup Writing
             \cup {"claimed", "filling", "swap", "installed", "dropBackup",
                   "cleanup", "closing"}
Steps == {"idle", "lockOpen"} \cup Locking \cup Ended

\* The types of the state: what a session holds, has read and waits for, and
\* what the directory names, in memory and on disk.
TypeOK ==
  /\ dir \in Directories
  /\ ddir \in Directories
  /\ edits \in [Files -> SUBSET Writers]
  /\ intact \in SUBSET Files
  /\ synced \in SUBSET Files
  /\ mode \in [Files -> Modes]
  /\ holder \in [Files -> Sessions \cup {None}]
  /\ bakOf \in [Sessions -> Files \cup {None}]
  /\ bakMode \in [Sessions -> Modes]
  /\ outages \in Nat
  /\ arrived \in SUBSET Outsiders
  /\ pc \in [Sessions -> Steps]
  /\ fd \in [Sessions -> Files \cup {None}]
  /\ bound \in [Sessions -> Files \cup {None}]
  /\ bracket \in [Sessions -> {"none", "stat", "open"}]
  /\ seen \in [Sessions -> Files \cup {None}]
  /\ got \in [Sessions -> SUBSET Files]
  /\ listed \in [Sessions -> BOOLEAN]
  /\ reads \in [Sessions -> Nat]
  /\ queued \in [Sessions -> BOOLEAN]
  /\ wants \in [Sessions -> BOOLEAN]
  /\ result \in [Sessions -> {"none", "ok", "error"}]

\* One archive, private to its owner, durable; perhaps a backup of the user's.
Init ==
  /\ dir \in {[path |-> Origin, staged |-> {}, backup |-> b] : b \in {None, User}}
  /\ ddir = dir
  /\ edits = [f \in Files |-> IF f \in Outsiders THEN {f} ELSE {}]
  /\ intact = {Origin} \cup Outsiders
  /\ synced = {Origin} \cup Outsiders
  /\ mode = [f \in Files |-> IF f = Origin THEN "restricted" ELSE "umask"]
  /\ holder = [f \in Files |-> None]
  /\ bakOf = [s \in Sessions |-> None]
  /\ bakMode = [s \in Sessions |-> "umask"]
  /\ outages = 0
  /\ arrived = {}
  /\ pc = [s \in Sessions |-> "idle"]
  /\ fd = [s \in Sessions |-> None]
  /\ bound = [s \in Sessions |-> None]
  /\ bracket = [s \in Sessions |-> "none"]
  /\ seen = [s \in Sessions |-> None]
  /\ got = [s \in Sessions |-> {}]
  /\ listed = [s \in Sessions |-> FALSE]
  /\ reads = [s \in Sessions |-> 0]
  /\ queued = [s \in Sessions |-> FALSE]
  /\ wants = [s \in Sessions |-> FALSE]
  /\ result = [s \in Sessions |-> "none"]

-----------------------------------------------------------------------------
(* Steps of a call that several actions share.                             *)

Goto(s, from, to) ==
  /\ pc[s] = from
  /\ bracket[s] = "none"
  /\ pc' = [pc EXCEPT ![s] = to]

\* Dropping the handle, or the process, forgets what it had read.
Forget(gone) ==
  /\ bound' = [s \in Sessions |-> IF s \in gone THEN None ELSE bound[s]]
  /\ bracket' = [s \in Sessions |-> IF s \in gone THEN "none" ELSE bracket[s]]
  /\ seen' = [s \in Sessions |-> IF s \in gone THEN None ELSE seen[s]]
  /\ got' = [s \in Sessions |-> IF s \in gone THEN {} ELSE got[s]]
  /\ listed' = [s \in Sessions |-> listed[s] /\ s \notin gone]
  /\ reads' = [s \in Sessions |-> IF s \in gone THEN 0 ELSE reads[s]]

\* Mutant: an identity that cannot be compared is taken for a match.
NamesAnything(s) == TRUE

\* revalidate_locked_identity: the pathname still names the locked file.
NamesLocked(s) == dir.path = fd[s]

-----------------------------------------------------------------------------
(* Archive::modify                                                         *)

\* Open the pathname read/write.  The options are fixed by the caller.
OpenLockFile(s) ==
  /\ Goto(s, "idle", "lockOpen")
  /\ fd' = [fd EXCEPT ![s] = dir.path]
  /\ \E b \in BOOLEAN : wants' = [wants EXCEPT ![s] = b]
  /\ UNCHANGED <<fileVars, holder, readVars, queued, result>>

\* Mutant: the answer of the lock call is ignored.
TryLockBlindly(s) ==
  /\ Goto(s, "lockOpen", "locked")
  /\ holder' = [holder EXCEPT ![fd[s]] = s]
  /\ UNCHANGED <<fileVars, fd, readVars, callVars>>

\* Non-blocking: contention ends the call with OperationBlocked.
TryLock(s) ==
  \/ /\ Goto(s, "lockOpen", "locked")
     /\ holder[fd[s]] = None
     /\ holder' = [holder EXCEPT ![fd[s]] = s]
     /\ UNCHANGED <<fileVars, fd, readVars, callVars>>
  \/ /\ Goto(s, "lockOpen", "done")
     /\ holder[fd[s]] # None
     /\ result' = [result EXCEPT ![s] = "error"]
     /\ UNCHANGED <<fileVars, holder, fd, readVars, queued, wants>>

\* Format detection reads the locked descriptor, so only the gate before the
\* encryption probe looks at the pathname.
GateProbe(s) ==
  /\ Goto(s, "locked", "probe")
  /\ NamesLocked(s)
  /\ UNCHANGED <<fileVars, holder, fd, readVars, callVars>>

\* The encryption probe re-opens the pathname.
Probe(s) ==
  /\ Goto(s, "probe", "probed")
  /\ got' = [got EXCEPT ![s] = @ \cup {dir.path}]
  /\ UNCHANGED <<fileVars, holder, fd, bound, bracket, seen, listed, reads, callVars>>

GateBind(s) ==
  /\ Goto(s, "probed", "bind")
  /\ NamesLocked(s)
  /\ UNCHANGED <<fileVars, holder, fd, readVars, callVars>>

-----------------------------------------------------------------------------
(* The libarchive backend re-opens the pathname for every read: stat,      *)
(* open, stat again.  The first such read binds the handle.                *)

ReadBegin(s) ==
  /\ bracket[s] = "none"
  /\ \/ pc[s] = "bind" /\ bound' = [bound EXCEPT ![s] = dir.path]
     \/ /\ \/ pc[s] \in {"ready", "plan"} /\ ~listed[s]
           \/ pc[s] = "replay" /\ reads[s] < MaxReads
        /\ dir.path = bound[s]
        /\ bound' = bound
  /\ bracket' = [bracket EXCEPT ![s] = "stat"]
  /\ UNCHANGED <<fileVars, holder, pc, fd, seen, got, listed, reads, callVars>>

ReadOpen(s) ==
  /\ bracket[s] = "stat"
  /\ seen' = [seen EXCEPT ![s] = dir.path]
  /\ bracket' = [bracket EXCEPT ![s] = "open"]
  /\ UNCHANGED <<fileVars, holder, pc, fd, bound, got, listed, reads, callVars>>

ReadEnd(s) ==
  /\ bracket[s] = "open"
  /\ dir.path = bound[s]
  /\ got' = [got EXCEPT ![s] = @ \cup {seen[s]}]
  /\ bracket' = [bracket EXCEPT ![s] = "none"]
  /\ pc' = [pc EXCEPT ![s] = IF @ = "bind" THEN "ready" ELSE @]
  /\ listed' = [listed EXCEPT ![s] = @ \/ pc[s] \in {"ready", "plan"}]
  /\ reads' = [reads EXCEPT ![s] = IF pc[s] = "replay" THEN @ + 1 ELSE @]
  /\ seen' = [seen EXCEPT ![s] = None]
  /\ UNCHANGED <<fileVars, holder, fd, bound, callVars>>

-----------------------------------------------------------------------------
(* The open handle: add_entry ..., remove_entry ..., clear_operations.     *)

Queue(s) ==
  /\ Goto(s, "ready", "ready")
  /\ queued' = [queued EXCEPT ![s] = TRUE]
  /\ UNCHANGED <<fileVars, holder, fd, readVars, wants, result>>

ClearOperations(s) ==
  /\ Goto(s, "ready", "ready")
  /\ queued' = [queued EXCEPT ![s] = FALSE]
  /\ UNCHANGED <<fileVars, holder, fd, readVars, wants, result>>

\* finish(), close() or drop without a commit; a queue is discarded.
Discard(s) ==
  /\ Goto(s, "ready", "closing")
  /\ queued' = [queued EXCEPT ![s] = FALSE]
  /\ UNCHANGED <<fileVars, holder, fd, readVars, wants, result>>

-----------------------------------------------------------------------------
(* commit_plan: nothing is created; the empty queue succeeds at once.      *)

CommitChanges(s) ==
  \/ /\ queued[s]
     /\ Goto(s, "ready", "plan")
     /\ UNCHANGED <<fileVars, holder, fd, readVars, callVars>>
  \/ /\ ~queued[s]
     /\ Goto(s, "ready", "closing")
     /\ result' = [result EXCEPT ![s] = "ok"]
     /\ UNCHANGED <<fileVars, holder, fd, readVars, queued, wants>>

\* The listing is cached by now; only ZIP goes on to re-read the directory.
GateExtras(s) ==
  /\ listed[s]
  /\ \/ Goto(s, "plan", "extras") /\ NamesLocked(s)
     \/ Goto(s, "plan", "planned")
  /\ UNCHANGED <<fileVars, holder, fd, readVars, callVars>>

LoadSourceExtras(s) ==
  /\ Goto(s, "extras", "planned")
  /\ got' = [got EXCEPT ![s] = @ \cup {dir.path}]
  /\ UNCHANGED <<fileVars, holder, fd, bound, bracket, seen, listed, reads, callVars>>

\* v2 try_commit_changes: the same validation, then the handle is given back.
TryCommitReturns(s) ==
  /\ \E p \in Validating : Goto(s, p, "ready")
  /\ UNCHANGED <<fileVars, holder, fd, readVars, callVars>>

-----------------------------------------------------------------------------
(* commit_session: build the staging archive.                              *)

CreateStaging(s) ==
  /\ Goto(s, "planned", "created")
  /\ dir' = [dir EXCEPT !.staged = @ \cup {s}]
  /\ UNCHANGED <<ddir, dataVars, envVars>>
  /\ UNCHANGED <<holder, fd, readVars, callVars>>

GateReplay(s) ==
  /\ Goto(s, "created", "replay")
  /\ NamesLocked(s)
  /\ UNCHANGED <<fileVars, holder, fd, readVars, callVars>>

\* Mutant: the writer is finished without sync_data.
FinishUnsynced(s) ==
  /\ Goto(s, "replay", "finished")
  /\ edits' = [edits EXCEPT ![s] = {s} \cup UNION {edits[f] : f \in got[s]}]
  /\ intact' = intact \cup {s}
  /\ UNCHANGED <<dirVars, synced, mode, bakOf, bakMode, envVars>>
  /\ UNCHANGED <<holder, fd, readVars, callVars>>

\* Queued entries are written after the replay; finish() syncs the data.
FinishStaging(s) ==
  /\ Goto(s, "replay", "finished")
  /\ edits' = [edits EXCEPT ![s] = {s} \cup UNION {edits[f] : f \in got[s]}]
  /\ intact' = intact \cup {s}
  /\ synced' = synced \cup {s}
  /\ UNCHANGED <<dirVars, mode, bakOf, bakMode, envVars>>
  /\ UNCHANGED <<holder, fd, readVars, callVars>>

\* Permission bits come from the lock descriptor, not from the pathname.
CarryMode(s) ==
  /\ Goto(s, "finished", "carried")
  /\ mode' = [mode EXCEPT ![s] = mode[fd[s]]]
  /\ UNCHANGED <<dirVars, edits, intact, synced, bakOf, bakMode, envVars>>
  /\ UNCHANGED <<holder, fd, readVars, callVars>>

-----------------------------------------------------------------------------
(* commit_swap: the last gate, the backup, the rename.                     *)

GateSwap(s) ==
  /\ Goto(s, "carried", IF wants[s] THEN "claim" ELSE "swap")
  /\ NamesLocked(s)
  /\ UNCHANGED <<fileVars, holder, fd, readVars, callVars>>

\* create_new: an existing backup is never opened.
ClaimBackup(s) ==
  /\ Goto(s, "claim", "claimed")
  /\ dir.backup = None
  /\ dir' = [dir EXCEPT !.backup = s]
  /\ UNCHANGED <<ddir, dataVars, envVars>>
  /\ UNCHANGED <<holder, fd, readVars, callVars>>

\* Mutant: the copy keeps the mode a new file gets.
ChmodNothing(s) ==
  /\ Goto(s, "claimed", "filling")
  /\ UNCHANGED <<fileVars, holder, fd, readVars, callVars>>

ChmodBackup(s) ==
  /\ Goto(s, "claimed", "filling")
  /\ bakMode' = [bakMode EXCEPT ![s] = mode[fd[s]]]
  /\ UNCHANGED <<dirVars, edits, intact, synced, mode, bakOf, envVars>>
  /\ UNCHANGED <<holder, fd, readVars, callVars>>

\* Copy from a clone of the lock descriptor, then sync_data.
CopyBackup(s) ==
  /\ Goto(s, "filling", "swap")
  /\ bakOf' = [bakOf EXCEPT ![s] = fd[s]]
  /\ UNCHANGED <<dirVars, edits, intact, synced, mode, bakMode, envVars>>
  /\ UNCHANGED <<holder, fd, readVars, callVars>>

\* rename_with_overwrite: whatever the pathname names now is replaced.
Rename(s) ==
  /\ Goto(s, "swap", "installed")
  /\ dir' = [dir EXCEPT !.path = s, !.staged = @ \ {s}]
  /\ result' = [result EXCEPT ![s] = "ok"]
  /\ UNCHANGED <<ddir, dataVars, envVars>>
  /\ UNCHANGED <<holder, fd, readVars, queued, wants>>

\* Mutant: a failed directory sync is reported as a failed commit.
SyncParentReported(s) ==
  /\ Goto(s, "installed", "closing")
  /\ result' = [result EXCEPT ![s] = "error"]
  /\ UNCHANGED <<fileVars, holder, fd, readVars, queued, wants>>

\* sync_parent_dir is best effort: its failure is ignored.
SyncParent(s) ==
  /\ Goto(s, "installed", "closing")
  /\ ddir' \in {ddir, dir}
  /\ UNCHANGED <<dir, dataVars, envVars>>
  /\ UNCHANGED <<holder, fd, readVars, callVars>>

-----------------------------------------------------------------------------
(* Errors: a refusal or an I/O error of the step at hand.                  *)

\* Mutant: a commit that fails with its backup in place forgets the backup.
FailKeepsBackup(s) ==
  /\ bracket' = [bracket EXCEPT ![s] = "none"]
  /\ result' = [result EXCEPT ![s] = "error"]
  /\ \/ /\ pc[s] \in {"locked", "probe", "probed", "bind", "plan", "extras"}
        /\ pc' = [pc EXCEPT ![s] = "closing"]
     \/ /\ pc[s] \in Writing \cup {"planned", "claimed", "filling", "swap"}
        /\ pc' = [pc EXCEPT ![s] = "cleanup"]
  /\ UNCHANGED <<fileVars, holder, fd, bound, seen, got, listed, reads, queued, wants>>

Fail(s) ==
  /\ bracket' = [bracket EXCEPT ![s] = "none"]
  /\ result' = [result EXCEPT ![s] = "error"]
  /\ \/ /\ pc[s] \in {"locked", "probe", "probed", "bind", "plan", "extras"}
        /\ pc' = [pc EXCEPT ![s] = "closing"]
     \/ /\ pc[s] \in Writing \cup {"planned"} \/ (pc[s] = "swap" /\ ~wants[s])
        /\ pc' = [pc EXCEPT ![s] = "cleanup"]
     \/ /\ pc[s] \in {"claimed", "filling"} \/ (pc[s] = "swap" /\ wants[s])
        /\ pc' = [pc EXCEPT ![s] = "dropBackup"]
  /\ UNCHANGED <<fileVars, holder, fd, bound, seen, got, listed, reads, queued, wants>>

\* A listing that fails on the open handle is an error of that call only.
ReadFails(s) ==
  /\ pc[s] = "ready"
  /\ bracket[s] # "none"
  /\ bracket' = [bracket EXCEPT ![s] = "none"]
  /\ UNCHANGED <<fileVars, holder, pc, fd, bound, seen, got, listed, reads, callVars>>

DropBackup(s) ==
  /\ Goto(s, "dropBackup", "cleanup")
  /\ dir' = [dir EXCEPT !.backup = None]
  /\ UNCHANGED <<ddir, dataVars, envVars>>
  /\ UNCHANGED <<holder, fd, readVars, callVars>>

RemoveStaging(s) ==
  /\ Goto(s, "cleanup", "closing")
  /\ dir' = [dir EXCEPT !.staged = @ \ {s}]
  /\ UNCHANGED <<ddir, dataVars, envVars>>
  /\ UNCHANGED <<holder, fd, readVars, callVars>>

\* Mutant: a clone of the lock descriptor stays open and keeps the lock.
CloseLeaksClone(s) ==
  /\ Goto(s, "closing", "done")
  /\ Forget({s})
  /\ UNCHANGED <<fileVars, holder, fd, callVars>>

\* Dropping the handle closes the lock descriptor.
Close(s) ==
  /\ Goto(s, "closing", "done")
  /\ holder' = [holder EXCEPT ![fd[s]] = None]
  /\ Forget({s})
  /\ UNCHANGED <<fileVars, fd, callVars>>

-----------------------------------------------------------------------------
(* The environment.                                                        *)

\* A killed process: the kernel closes its descriptors.
Crash(s) ==
  /\ pc[s] \in Locking \cup {"lockOpen"}
  /\ pc' = [pc EXCEPT ![s] = "crashed"]
  /\ holder' = [f \in Files |-> IF holder[f] = s THEN None ELSE holder[f]]
  /\ Forget({s})
  /\ UNCHANGED <<fileVars, fd, callVars>>

\* The kernel may write the directory out at any time, in order.
Writeback ==
  /\ ddir # dir
  /\ ddir' = dir
  /\ UNCHANGED <<dir, dataVars, envVars>>
  /\ UNCHANGED <<holder, pc, fd, readVars, callVars>>

\* What was not on disk is lost, and every process with it.
PowerLoss ==
  /\ outages < MaxOutages
  /\ outages' = outages + 1
  /\ dir' = ddir
  /\ intact' = intact \cap synced
  /\ holder' = [f \in Files |-> None]
  /\ pc' = [s \in Sessions |-> IF pc[s] \in {"idle"} \cup Ended THEN pc[s] ELSE "crashed"]
  /\ Forget(Sessions)
  /\ UNCHANGED <<ddir, edits, synced, mode, bakOf, bakMode, arrived, fd, callVars>>

\* A writer that ignores the lock installs its own, complete file: the
\* pathname never comes back to a file it has left.
Replace(w) ==
  /\ w \notin arrived
  /\ arrived' = arrived \cup {w}
  /\ dir' = [dir EXCEPT !.path = w]
  /\ UNCHANGED <<ddir, dataVars, outages, holder, pc, fd, readVars, callVars>>

-----------------------------------------------------------------------------
\* What the library does without waiting for its caller.
Library(s) ==
  \/ TryLock(s) \/ GateProbe(s) \/ Probe(s) \/ GateBind(s)
  \/ pc[s] # "ready" /\ ReadBegin(s)
  \/ ReadOpen(s) \/ ReadEnd(s) \/ ReadFails(s)
  \/ GateExtras(s) \/ LoadSourceExtras(s) \/ CreateStaging(s)
  \/ GateReplay(s) \/ FinishStaging(s) \/ CarryMode(s)
  \/ GateSwap(s) \/ ClaimBackup(s) \/ ChmodBackup(s) \/ CopyBackup(s)
  \/ Rename(s) \/ SyncParent(s)
  \/ Fail(s) \/ DropBackup(s) \/ RemoveStaging(s) \/ Close(s)

\* What the caller decides.
Caller(s) ==
  \/ OpenLockFile(s) \/ Queue(s) \/ ClearOperations(s) \/ Discard(s)
  \/ CommitChanges(s) \/ TryCommitReturns(s)
  \/ pc[s] = "ready" /\ ReadBegin(s)

Next ==
  \/ \E s \in Sessions : Library(s) \/ Caller(s) \/ Crash(s)
  \/ \E w \in Outsiders : Replace(w)
  \/ Writeback
  \/ PowerLoss

Spec == Init /\ [][Next]_vars

\* A call in progress runs on; nothing makes a caller call, a process crash
\* or the kernel write back.
FairSpec == Spec /\ \A s \in Sessions : WF_vars(Library(s))

-----------------------------------------------------------------------------
(* Properties                                                              *)

\* The lock excludes: no two live sessions past try_lock work on one file,
\* and whoever is past it is the registered holder of the file it opened.
LockExcludes ==
  \A s \in Sessions :
    pc[s] \in Locking => /\ holder[fd[s]] = s
                         /\ \A t \in Sessions \ {s} :
                              pc[t] \in Locking => fd[t] # fd[s]

\* Once the last gate has passed, every byte the session has used came from
\* the file it locked, whatever was renamed over the pathname meanwhile
\* (modification.rs, "retained bytes cannot be sourced from a
\* post-validation replacement").
StagedFromLocked ==
  \A s \in Sessions :
    pc[s] \in {"claim", "claimed", "filling", "swap", "installed"} =>
      edits[s] = edits[fd[s]] \cup {s}

\* Among cooperating sessions a rename replaces exactly the archive its
\* staging file was made from: no committed edit is lost.
KeepsCommitted ==
  Outsiders = {} =>
    \A s \in Sessions :
      (pc[s] = "swap" /\ pc'[s] = "installed") =>
        edits'[dir'.path] = edits[dir.path] \cup {s}

NoLostUpdate == [][KeepsCommitted]_vars

\* A crash, kill or power loss at any point leaves a complete archive at the
\* pathname, and one that is durable there (commit_changes, "Crash safety").
ArchiveIntact ==
  /\ dir.path \in intact
  /\ ddir.path \in synced

\* A commit that returned an error left nothing behind: no staging file, no
\* backup of its own, and the archive is not its staging file.
ErrorLeavesNothing ==
  \A s \in Sessions :
    (pc[s] = "done" /\ result[s] = "error" /\ outages = 0) =>
      /\ s \notin dir.staged
      /\ dir.backup # s
      /\ dir.path # s

\* A staging file outlives the call that made it only if the process died.
OrphansAreCrashes ==
  \A s \in Sessions :
    (s \in dir.staged /\ outages = 0) =>
      pc[s] \in Writing \cup {"claimed", "filling", "swap", "dropBackup",
                              "cleanup", "crashed"}

\* While the replacement is at the pathname the backup that was asked for is
\* there too, and holds the archive the session locked; on disk the backup
\* never arrives after the replacement (R0075-0035).
BackupBeforeSwap ==
  \A s \in Sessions : wants[s] =>
    /\ dir.path = s => dir.backup = s /\ bakOf[s] = fd[s]
    /\ ddir.path = s => ddir.backup = s /\ bakOf[s] = fd[s]

\* No session overwrites or removes a backup it did not create.
BackupNoClobber ==
  [][dir'.backup # dir.backup /\ outages' = outages =>
       \E s \in Sessions :
         \/ dir.backup = None /\ dir'.backup = s /\ pc[s] = "claim"
         \/ dir.backup = s /\ dir'.backup = None /\ pc[s] = "dropBackup"]_vars

\* Neither the replacement nor a backup with content in it is readable by
\* more than the archive it was made from (R0079-0021, R0081-0036).
NoWidening ==
  \A s \in Sessions :
    /\ s \in {dir.path, ddir.path} => mode[s] = mode[fd[s]]
    /\ bakOf[s] # None => bakMode[s] = mode[bakOf[s]]

\* A commit does not hang on to its staging file: it installs it or removes
\* it, unless the process dies.
StagingSettles ==
  \A s \in Sessions :
    s \in dir.staged ~> (s \notin dir.staged \/ pc[s] = "crashed")

\* After a commit has been answered the lock is free again, so that a retry
\* through a fresh handle is not refused by the failed one.
LockReleased ==
  \A s \in Sessions :
    (pc[s] \in Locking /\ result[s] # "none")
      ~> (\A f \in Files : holder[f] # s)

\* Whatever the directory shows, after a crash too, the archive can be had:
\* its name holds a whole file, the backup that was asked for was there
\* first, and what lies about is of sessions that died.
Recoverable == ArchiveIntact /\ BackupBeforeSwap /\ OrphansAreCrashes

-----------------------------------------------------------------------------
(* The abstract specification: one register, written in one step.           *)

\* An edit is applied when its session has been told so, dropped when the
\* session is over without that.
Outcome ==
  [s \in Sessions |->
     IF result[s] = "ok" /\ queued[s] THEN "applied"
     ELSE IF result[s] = "error" \/ pc[s] \in Ended \cup {"closing"}
     THEN "dropped" ELSE "pending"]

Atomic == INSTANCE AtomicArchive WITH archive <- edits[dir.path], outcome <- Outcome

\* Without outsiders and power losses the sessions implement the register.
ImplementsAtomicArchive == Atomic!Spec
=============================================================================
