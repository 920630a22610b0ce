---------------------------- MODULE AtomicArchive ----------------------------
(***************************************************************************)
(* What `commit_changes` promises its callers (src/src/modification.rs):   *)
(* the archive is a register, a session's queued edits enter it in one     *)
(* step or not at all, and the answer says which.                          *)
(***************************************************************************)
CONSTANT Sessions

VARIABLES
  archive,   \* the sessions whose edits the archive carries
  outcome    \* what has become of each session's edits

vars == <<archive, outcome>>

TypeOK ==
  /\ archive \in SUBSET Sessions
  /\ outcome \in [Sessions -> {"pending", "applied", "dropped"}]

Init ==
  /\ archive = {}
  /\ outcome = [s \in Sessions |-> "pending"]

Apply(s) ==
  /\ outcome[s] = "pending"
  /\ archive' = archive \cup {s}
  /\ outcome' = [outcome EXCEPT ![s] = "applied"]

\* Refused, failed, discarded, crashed before the rename, or nothing queued.
Drop(s) ==
  /\ outcome[s] = "pending"
  /\ outcome' = [outcome EXCEPT ![s] = "dropped"]
  /\ UNCHANGED archive

Next == \E s \in Sessions : Apply(s) \/ Drop(s)

Spec == Init /\ [][Next]_vars
=============================================================================
