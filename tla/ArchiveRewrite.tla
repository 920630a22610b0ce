--------------------------- MODULE ArchiveRewrite ---------------------------
(***************************************************************************)
(* What a modify session does to the entries of an archive                 *)
(* (src/src/modification.rs): the queue that add_*, remove_* and replace_* *)
(* fill, the gate validate_pending_commit, and the replay of the retained  *)
(* and the queued entries into a new archive.  How the new archive then    *)
(* takes the place of the old one is the subject of ModifySession.         *)
(*                                                                         *)
(* Sessions follow one another on one archive, which starts as any foreign *)
(* archive may: names may repeat, links occur, paths may be ones that this *)
(* library would not write.  An entry is listed under its path, with a     *)
(* slash behind it if it is a directory.                                   *)
(***************************************************************************)
EXTENDS WriteNamespace, NumberSets, Functions

CONSTANTS Wild,         \* paths that validate_archive_internal_path refuses
          Starts,       \* [listing, sessions, live]: what the first session
                        \* may find, counted against the bounds from there
          MaxQueue,     \* bound: what one session queues
          MaxSessions,  \* bound: sessions on the archive
          MaxChanges    \* bound: changes to the file that adds read from

Types == {"file", "dir", "link"}
Sources == {"bytes", "path", "reader"}

\* odd: the CRC or size the two ZIP readers report for it differ.
Entries == [path : Paths, type : Types, data : Nat, odd : BOOLEAN]
Adds == [path : Paths \ Wild, src : Sources, data : Nat, fits : BOOLEAN]
Reasons == {"", "namespace", "shape", "drift", "read", "length", "io"}

ASSUME RewriteAssumption ==
  /\ Wild \subseteq Paths
  /\ \A s \in Starts :
       /\ s.listing \in Seq(Entries)
       /\ s.sessions \in 1..MaxSessions
       /\ s.live \in 0..MaxChanges
  /\ MaxQueue \in Nat /\ MaxSessions \in Nat /\ MaxChanges \in Nat

VARIABLES
  format,     \* "zip" or "7z"
  archive,    \* the entries of the archive, which the session lists once
  removed,    \* ModificationTracker: ids, that is positions in archive
  addedDirs,
  added,
  phase,      \* of the session
  at,         \* position in the sequence being replayed
  out,        \* entries of the new archive
  newNs,      \* write_namespace of the new archive's handle
  emitted,    \* emitted_dirs
  warned,     \* ids of the entries reported as dropped
  answer,     \* what the last commit or try_commit returned
  sessions,   \* how many have been opened
  live,       \* content of the file that adds read from
  began,      \* history: live when the commit began
  gone,       \* history: the names that remove_entry took
  made        \* history: a commit has written the archive

queue == <<removed, addedDirs, added, gone>>
replay == <<at, out, newNs, emitted, warned, began>>
rewriteVars ==
  <<format, archive, queue, phase, replay, answer, sessions, live, made>>

RewriteInit ==
  /\ format \in {"zip", "7z"}
  /\ \E s \in Starts :
       archive = s.listing /\ sessions = s.sessions /\ live = s.live
  /\ removed = {} /\ addedDirs = << >> /\ added = << >>
  /\ phase = "open"
  /\ at = 1 /\ out = << >> /\ newNs = NoPaths /\ emitted = {} /\ warned = {}
  /\ answer = [op |-> "none", ok |-> TRUE, why |-> ""]
  /\ began = 0
  /\ gone = {}
  /\ made = FALSE

\* The types of the state.
RewriteTypeOK ==
  /\ format \in {"zip", "7z"}
  /\ archive \in Seq(Entries)
  /\ removed \subseteq DOMAIN archive
  /\ addedDirs \in Seq(Paths \ Wild)
  /\ added \in Seq(Adds)
  /\ phase \in {"open", "retain", "dirs", "adds", "closed"}
  /\ at \in Nat
  /\ out \in Seq(Entries)
  /\ newNs \in Namespaces
  /\ emitted \subseteq Paths
  /\ warned \subseteq DOMAIN archive
  /\ answer \in [op : {"none", "commit", "try"}, ok : BOOLEAN, why : Reasons]
  /\ sessions \in Nat
  /\ live \in Nat
  /\ began \in Nat
  /\ gone \subseteq Paths \X BOOLEAN
  /\ made \in BOOLEAN

-----------------------------------------------------------------------------
(* The gate.                                                               *)

SameName(d, e) == d.path = e.path /\ (d.type = "dir" <=> e.type = "dir")

\* rewrite_drops_entry_type
Drops(e) == e.type = "link"

\* Mutant: links claim their path too.
KeptWithLinks == DOMAIN archive \ removed

Kept == {i \in DOMAIN archive : i \notin removed /\ ~Drops(archive[i])}

Empty == removed = {} /\ addedDirs = << >> /\ added = << >>

Claim(kind, p) == [kind |-> kind, path |-> p]

\* What is recorded, in the order in which it is.
Claims ==
  LET kept == Ascending(Kept)
  IN  [n \in DOMAIN kept |-> Claim(archive[kept[n]].type, archive[kept[n]].path)]
      \o [n \in DOMAIN addedDirs |-> Claim("dir", addedDirs[n])]
      \o [n \in DOMAIN added |-> Claim("file", added[n].path)]

ClaimsFit ==
  LET claims == Claims
      ns[n \in 0..Len(claims)] ==
        IF n = 0 THEN NoPaths
        ELSE Record(ns[n - 1], claims[n].kind, claims[n].path)
  IN  \A n \in DOMAIN claims : Fits(ns[n - 1], claims[n].kind, claims[n].path)

\* cross_check_source_listing: libarchive lists every record, the zip crate
\* one per name, so equal lengths mean that no name repeats.
ListingsAgree ==
  /\ \A i, j \in DOMAIN archive : SameName(archive[i], archive[j]) => i = j
  /\ \A i \in DOMAIN archive : archive[i].odd => Drops(archive[i])

\* archive_internal_path_reason
Misshapen == \E i \in Kept : archive[i].path \in Wild

\* validate_pending_commit: what it refuses, if anything.
Refusal ==
  IF Empty THEN ""
  ELSE IF Misshapen THEN "shape"
  ELSE IF ~ClaimsFit THEN "namespace"
  ELSE IF format = "zip" /\ ~ListingsAgree THEN "drift"
  ELSE ""

-----------------------------------------------------------------------------
(* The queue.                                                              *)

Add(p, src, fits) ==
  added' = Append(added, [path |-> p, src |-> src, data |-> live, fits |-> fits])

Queueing ==
  /\ phase = "open"
  /\ UNCHANGED <<format, archive, phase, replay, answer, sessions, live, made>>

Room == Len(added) + Len(addedDirs) + Cardinality(removed) < MaxQueue

\* Only a reader can disagree with its declared length, or exceed the cap.
AddEntry(p, src, fits) ==
  /\ Queueing /\ Room
  /\ fits \/ src = "reader"
  /\ Add(p, src, fits)
  /\ UNCHANGED <<removed, addedDirs, gone>>

AddDirectoryEntry(p) ==
  /\ Queueing /\ Room
  /\ addedDirs' = Append(addedDirs, p)
  /\ UNCHANGED <<removed, added, gone>>

Matching(p, slash) ==
  {i \in DOMAIN archive : archive[i].path = p /\ (archive[i].type = "dir") = slash}

RemoveEntry(p, slash) ==
  /\ Queueing /\ Room
  /\ removed' = removed \cup Matching(p, slash)
  /\ gone' = gone \cup {<<p, slash>>}
  /\ UNCHANGED <<addedDirs, added>>

RemoveEntryById(i) ==
  /\ Queueing /\ Room
  /\ removed' = removed \cup {i}
  /\ UNCHANGED <<addedDirs, added, gone>>

ReplaceEntry(p, src) ==
  /\ Queueing /\ Room
  /\ removed' = removed \cup Matching(p, FALSE)
  /\ gone' = gone \cup {<<p, FALSE>>}
  /\ Add(p, src, TRUE)
  /\ UNCHANGED addedDirs

ClearQueue ==
  /\ Queueing /\ ~Empty
  /\ removed' = {} /\ addedDirs' = << >> /\ added' = << >> /\ gone' = {}

\* ModifyArchive::try_commit_changes: the gate alone.
TryCommit ==
  /\ phase = "open"
  /\ answer' = [op |-> "try", ok |-> Refusal = "", why |-> Refusal]
  /\ UNCHANGED <<format, archive, queue, phase, replay, sessions, live, made>>

-----------------------------------------------------------------------------
(* The commit.                                                             *)

\* The handle is consumed, and everything that it and the commit held.
End(ok, why) ==
  /\ phase' = "closed"
  /\ answer' = [op |-> "commit", ok |-> ok, why |-> why]
  /\ removed' = {} /\ addedDirs' = << >> /\ added' = << >> /\ gone' = {}
  /\ at' = 1 /\ out' = << >> /\ newNs' = NoPaths /\ emitted' = {} /\ warned' = {}
  /\ began' = 0

CommitEmpty ==
  /\ phase = "open" /\ Empty
  /\ End(TRUE, "")
  /\ UNCHANGED <<format, archive, sessions, live, made>>

CommitRefused ==
  /\ phase = "open" /\ Refusal # ""
  /\ End(FALSE, Refusal)
  /\ UNCHANGED <<format, archive, sessions, live, made>>

CommitSession ==
  /\ phase = "open" /\ ~Empty /\ Refusal = ""
  /\ phase' = "retain"
  /\ began' = live
  /\ UNCHANGED <<format, archive, queue, at, out, newNs, emitted, warned, answer,
                 sessions, live, made>>

FailReplay(why) ==
  /\ End(FALSE, why)
  /\ UNCHANGED <<format, archive, sessions, live, made>>

Written(p, type, data) ==
  out' = Append(out, [path |-> p, type |-> type, data |-> data, odd |-> FALSE])

\* Mutant: a directory that is already there is written again.
FacadeDirAgain(p) ==
  /\ DirFits(newNs, p)
  /\ newNs' = RecordDir(newNs, p)
  /\ Written(p, "dir", 0)

\* Archive::add_directory on the new archive.
FacadeDir(p) ==
  IF p \in newNs.dirs THEN UNCHANGED <<out, newNs>>
  ELSE /\ DirFits(newNs, p)
       /\ newNs' = RecordDir(newNs, p)
       /\ Written(p, "dir", 0)

FacadeFile(p, data) ==
  /\ FileFits(newNs, p)
  /\ newNs' = RecordFile(newNs, p)
  /\ Written(p, "file", data)

Onward == at' = at + 1 /\
          UNCHANGED <<format, archive, queue, phase, answer, sessions, live, began,
                      made>>

Replaying(i) == phase = "retain" /\ at = i /\ i \in DOMAIN archive

RetainSkipped(i) ==
  /\ Replaying(i) /\ i \in removed
  /\ Onward /\ UNCHANGED <<out, newNs, emitted, warned>>

RetainDropped(i) ==
  /\ Replaying(i) /\ i \notin removed /\ Drops(archive[i])
  /\ warned' = warned \cup {i}
  /\ Onward /\ UNCHANGED <<out, newNs, emitted>>

RetainDir(i) ==
  /\ Replaying(i) /\ i \notin removed /\ archive[i].type = "dir"
  /\ FacadeDir(archive[i].path)
  /\ Onward /\ UNCHANGED <<emitted, warned>>

\* validate_single_entry: the payload is looked up by name.
Readable(i) ==
  /\ archive[i].type = "file"
  /\ \A j \in DOMAIN archive : SameName(archive[j], archive[i]) => j = i

\* A retained file goes to the writer without a claim in newNs.
RetainFile(i) ==
  /\ Replaying(i) /\ i \notin removed /\ archive[i].type = "file"
  /\ Readable(i)
  /\ Written(archive[i].path, "file", archive[i].data)
  /\ Onward /\ UNCHANGED <<newNs, emitted, warned>>

RetainUnreadable(i) ==
  /\ Replaying(i) /\ i \notin removed /\ archive[i].type = "file"
  /\ ~Readable(i)
  /\ FailReplay("read")

Follow(from, to, seq) ==
  /\ phase = from /\ at > Len(seq)
  /\ phase' = to /\ at' = 1
  /\ UNCHANGED <<format, archive, queue, out, newNs, emitted, warned, began, answer,
                 sessions, live, made>>

RetainDone == Follow("retain", "dirs", archive)
DirsDone == Follow("dirs", "adds", addedDirs)

WriteDir ==
  /\ phase = "dirs" /\ at <= Len(addedDirs)
  /\ IF addedDirs[at] \in emitted THEN UNCHANGED <<out, newNs>>
     ELSE FacadeDir(addedDirs[at])
  /\ emitted' = emitted \cup {addedDirs[at]}
  /\ Onward /\ UNCHANGED warned

\* Mutant: what the path named when it was queued.
WriteQueued ==
  /\ phase = "adds" /\ at <= Len(added) /\ added[at].fits
  /\ FacadeFile(added[at].path, added[at].data)
  /\ Onward /\ UNCHANGED <<emitted, warned>>

\* Bytes are a snapshot; a path is opened now.
WriteFile ==
  /\ phase = "adds" /\ at <= Len(added)
  /\ LET entry == added[at]
     IN  \/ entry.src = "bytes" /\ FacadeFile(entry.path, entry.data)
         \/ entry.src = "path" /\ FacadeFile(entry.path, live)
  /\ Onward /\ UNCHANGED <<emitted, warned>>

\* A reader of declared length, or one drained to a file up to the cap,
\* goes to the writer directly.
WriteReader ==
  /\ phase = "adds" /\ at <= Len(added)
  /\ added[at].src = "reader" /\ added[at].fits
  /\ Written(added[at].path, "file", added[at].data)
  /\ Onward /\ UNCHANGED <<newNs, emitted, warned>>

WriteMismatch ==
  /\ phase = "adds" /\ at <= Len(added)
  /\ ~added[at].fits
  /\ FailReplay("length")

ReplayError == phase \in {"retain", "dirs", "adds"} /\ FailReplay("io")

\* finish and the swap: the new archive is the archive.
Install ==
  /\ phase = "adds" /\ at > Len(added)
  /\ archive' = out
  /\ made' = TRUE
  /\ End(TRUE, "")
  /\ UNCHANGED <<format, sessions, live>>

\* Archive::modify on what the last session left.
Modify ==
  /\ phase = "closed" /\ sessions < MaxSessions
  /\ phase' = "open"
  /\ sessions' = sessions + 1
  /\ UNCHANGED <<format, archive, queue, replay, answer, live, made>>

Change ==
  /\ live < MaxChanges
  /\ live' = live + 1
  /\ UNCHANGED <<format, archive, queue, phase, replay, answer, sessions, made>>

RewriteNext ==
  \/ \E p \in Paths \ Wild :
       \/ \E src \in Sources, fits \in BOOLEAN : AddEntry(p, src, fits)
       \/ AddDirectoryEntry(p)
       \/ \E slash \in BOOLEAN : RemoveEntry(p, slash)
       \/ \E src \in {"bytes", "path"} : ReplaceEntry(p, src)
  \/ \E i \in DOMAIN archive : RemoveEntryById(i)
  \/ ClearQueue \/ TryCommit
  \/ CommitEmpty \/ CommitRefused \/ CommitSession
  \/ \E i \in DOMAIN archive :
       \/ RetainSkipped(i) \/ RetainDropped(i) \/ RetainDir(i)
       \/ RetainFile(i) \/ RetainUnreadable(i)
  \/ RetainDone \/ DirsDone
  \/ WriteDir \/ WriteFile \/ WriteReader \/ WriteMismatch
  \/ ReplayError
  \/ Install \/ Modify \/ Change

RewriteSpec == RewriteInit /\ [][RewriteNext]_rewriteVars

-----------------------------------------------------------------------------
(* Properties                                                              *)

Committed == phase = "adds" /\ phase' = "closed" /\ answer'.ok

\* The files among the entries of an archive, in their order.
FilesIn(s) ==
  LET files == Ascending({n \in DOMAIN s : s[n].type = "file"})
  IN  [k \in DOMAIN files |-> s[files[k]]]

\* Two entries that one file tree cannot hold together.
Collide(d, e) ==
  \/ d.path = e.path /\ "file" \in {d.type, e.type}
  \/ d.type = "file" /\ d.path \in Above[e.path]

\* The gate refuses the paths of a commit exactly if what the commit would
\* write cannot be extracted: two files of one path, a file that is also a
\* directory, something beneath a file.  An entry the rewrite drops stands
\* in nobody's way (validate_pending_commit, R0069-0062, R0079-0037).
GateExact ==
  phase = "open" /\ Refusal # "shape" =>
    LET entries == {<<i, [path |-> archive[i].path, type |-> archive[i].type]>> :
                      i \in {j \in DOMAIN archive :
                               j \notin removed /\ archive[j].type # "link"}}
                   \cup {<<Len(archive) + i, [path |-> addedDirs[i], type |-> "dir"]>> :
                      i \in DOMAIN addedDirs}
                   \cup {<<Len(archive) + Len(addedDirs) + i,
                          [path |-> added[i].path, type |-> "file"]>> :
                      i \in DOMAIN added}
    IN  (Refusal = "namespace") =
          (~Empty /\ \E d, e \in entries : d[1] # e[1] /\ Collide(d[2], e[2]))

\* What the gate let through the replay can write: at no point does the new
\* archive hold entries that collide, nor a directory twice, although the
\* retained files and the readers are not entered in its own namespace.
ReplayNeverCollides ==
  \A i, j \in DOMAIN out : i # j =>
    ~Collide(out[i], out[j]) /\ out[i].path # out[j].path

\* And the new archive's own namespace never refuses what the gate passed: a
\* commit does not fail on a path once it has begun to write.
GateCoversReplay ==
  /\ phase = "retain" /\ at \in Kept =>
       LET e == archive[at]
       IN  e.type = "dir" => e.path \in newNs.dirs \/ DirFits(newNs, e.path)
  /\ phase = "dirs" /\ at \in DOMAIN addedDirs =>
       addedDirs[at] \in newNs.dirs \/ DirFits(newNs, addedDirs[at])
  /\ phase = "adds" /\ at \in DOMAIN added =>
       added[at].src = "reader" \/ FileFits(newNs, added[at].path)

\* The gate is exact and the replay lives up to it: what the one lets
\* through the other can write, without a collision on the way.
ReplaySound ==
  /\ RewriteTypeOK
  /\ GateExact
  /\ ReplayNeverCollides
  /\ GateCoversReplay

\* A commit that answers Ok leaves the files that were not removed, each
\* with its own payload and in the old order, and after them the files that
\* were queued: bytes as they were, a path as it reads during the commit.
FilesAsQueued ==
  [][Committed =>
       LET files == FilesIn(archive')
           kept  == Ascending({i \in DOMAIN archive :
                                 i \notin removed /\ archive[i].type = "file"})
       IN  /\ Len(files) = Len(kept) + Len(added)
           /\ \A n \in DOMAIN kept :
                files[n].path = archive[kept[n]].path
                  /\ files[n].data = archive[kept[n]].data
           /\ \A n \in DOMAIN added :
                LET f == files[Len(kept) + n]
                IN  /\ f.path = added[n].path
                    /\ IF added[n].src = "path" THEN f.data \in began..live
                       ELSE f.data = added[n].data]_rewriteVars

\* Nothing is lost in silence: each entry of the old archive was removed by
\* the caller, is reported as dropped, or is in the new archive, a directory
\* at least as what another entry lies in (commit_changes_with_warnings).
NothingLostSilently ==
  [][Committed =>
       \A i \in DOMAIN archive :
         \/ i \in removed
         \/ i \in warned /\ archive[i].type = "link"
         \/ \E n \in DOMAIN archive' :
              \/ archive'[n].path = archive[i].path
                   /\ archive'[n].type = archive[i].type
              \/ archive[i].type = "dir" /\ archive[i].path \in Above[archive'[n].path]]_rewriteVars

\* A commit does what was queued and nothing else: the files are those kept
\* and those added, and what is gone was removed or is reported.
CommitAsQueued == FilesAsQueued /\ NothingLostSilently

\* A name that remove_entry took is not in the archive that was committed,
\* unless the queue added it: every entry of the name goes, and what
\* replace_entry queues stands alone.
RemovedStaysGone ==
  [][Committed =>
       \A n \in DOMAIN archive' :
         <<archive'[n].path, archive'[n].type = "dir">> \in gone =>
           \/ \E a \in Range(added) : a.path = archive'[n].path
           \/ \E p \in Range(addedDirs) : p = archive'[n].path]_rewriteVars

\* What a commit has written can be modified again: a session that only
\* removes is not refused, whatever the first archive was like.
RewriteReopens ==
  [][made /\ phase = "open" /\ addedDirs = << >> /\ added = << >>
       /\ phase' = "closed" => answer'.ok]_rewriteVars

-----------------------------------------------------------------------------
(* What comments and the manual say, and the code does not do.             *)

\* remove_entry_by_id is "the precise removal API for archives containing
\* duplicate paths": a commit that leaves each name once, from an archive
\* that is otherwise in order, is not refused for the duplicates.
DuplicatesRemovable ==
  [][phase' = "closed" /\ answer'.why \in {"drift", "read"} =>
       \/ \E i \in DOMAIN archive : archive[i].odd
       \/ \E i, j \in DOMAIN archive \ removed :
            i # j /\ SameName(archive[i], archive[j])]_rewriteVars

\* "Copy retained entries from the original - except symlinks, hard links
\* and other non-regular entries" (Archive::commit_changes).
RetainedDirsKept ==
  [][Committed =>
       \A i \in DOMAIN archive : i \notin removed /\ archive[i].type = "dir" =>
         \E e \in Range(archive') : e.type = "dir" /\ e.path = archive[i].path]_rewriteVars
=============================================================================
