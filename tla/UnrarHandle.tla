---------------------------- MODULE UnrarHandle ----------------------------
(* The UnRAR adapter (src/ffi/wrapper.rs): one open handle, every operation *)
(* of it, and the SDK below.  An operation re-opens the archive by name,    *)
(* walks its headers and hands each of them to RARProcessFile; the SDK      *)
(* calls back for every decoded block and for a volume it cannot find, with *)
(* the process-wide lock held.  The SDK's error code is a global of the     *)
(* process, shared with whatever another thread does with UnRAR.            *)
(*                                                                          *)
(* A file has an identity (inode and length), headers, the volumes they are *)
(* in, and the raw blocks of RecoveryRecord.  A header is one part of an    *)
(* entry: `before` and `after` say that the entry started in the volume     *)
(* before it and goes on in the next.  Sanitising, staging and installing   *)
(* are those of Extraction, and no part of this module.                     *)
EXTENDS RecoveryRecord

CONSTANTS
    Files,       \* the files that may be at the archive's path
    Calls,       \* what a caller may ask of the handle
    MaxMeddles,  \* replacements of the file or losses of a volume
    MaxOthers    \* calls of another thread into UnRAR

Kinds == {"file", "dir", "link"}
Headers ==
    [name : STRING, kind : Kinds, size : Nat, units : Nat, vol : Nat,
     before : BOOLEAN, after : BOOLEAN, damaged : BOOLEAN]

\* The parts of an entry follow one another and are of its kind, damage is
\* noted at the first of them, and a directory has no data.
Parts(headers) ==
    \A k \in DOMAIN headers : LET h == headers[k] IN
        /\ h.kind = "dir" => h.units = 0 /\ ~h.after
        /\ h.before => ~h.damaged
        /\ h.after /\ k < Len(headers) => headers[k + 1].before

ASSUME FileAssumption ==
    \A f \in Files :
        /\ f \in [id : [inode : Nat, len : Nat], headers : Seq(Headers),
                 raw : RawFiles]
        /\ Parts(f.headers)

Option(n) == n \subseteq Nat /\ IsFiniteSet(n) /\ Cardinality(n) <= 1

ASSUME CallAssumption ==
    \A c \in Calls :
        /\ c.op \in {"list", "extract_all", "extract_file", "memory", "sink",
                    "integrity", "recovery"}
        /\ c.op = "extract_all" =>
               c.selection \subseteq Nat /\ Option(c.cap) /\ Option(c.total)
        /\ c.op \in {"extract_file", "memory"} => Option(c.cap)

VARIABLES
    disk,        \* the file at the path
    left,        \* the inodes of the files that were there before
    missing,     \* the volumes that are not there
    meddled,
    identity,    \* what the handle is bound to; {} when stat failed
    listing,     \* the memo: {} or {a sequence of entries}
    call, phase, result,
    seen,        \* the identity captured before the native open
    fresh,       \* the re-opened handle: file, next header, current header
    walk,        \* what its walk is for: "listing" or "call"
    idx, headers_seen, entries,
    decoded, entry_cap, total_remaining, abort, sink_error, registered,
    installed,   \* what was written or handed out: [id, name, units, from]
    failed, tested,
    answer,      \* of recovery_percentage
    in_unrar, lock, nested,
    exit_code,   \* the SDK's global: "clean" or "failed"
    others

subject == <<disk, left, missing, meddled, identity>>
walking == <<seen, fresh, walk, idx, headers_seen, entries>>
ctx == <<decoded, entry_cap, total_remaining, abort, sink_error>>
outcome == <<installed, failed, tested, answer>>
guard == <<in_unrar, lock, nested>>
global == <<exit_code, others>>
vars == <<subject, listing, call, phase, result, walking, ctx, registered,
          outcome, guard, global>>

NoFile == [id |-> [inode |-> 0, len |-> 0], headers |-> <<>>]
NoHandle == [file |-> NoFile, pos |-> 0, cur |-> 0]
NoCall == [op |-> "none"]

HeaderOf(h) == h.file.headers[h.cur]
Header == HeaderOf(fresh)
List == CHOOSE l \in listing : TRUE

\* Operations that take their entry from the listing.
Listed(op) == op \in {"list", "extract_all", "extract_file", "memory", "sink"}

-----------------------------------------------------------------------------
\* Entries: parse_header and the fold of continuation headers.

\* A redirection is a link even when its directory flag is set; a directory
\* has no size.
EntryOf(h) ==
    [name |-> h.name, kind |-> h.kind,
     size |-> IF h.kind = "dir" THEN {} ELSE {h.size}]

\* The entry of this header is the one before, resumed.
Continues(h, before) == h.before /\ before > 0

\* The headers at which entries start.
Firsts(file) ==
    {k \in DOMAIN file.headers : ~(file.headers[k].before /\ k > 1)}

Coalesced(file) ==
    LET firsts == Ascending(Firsts(file))
    IN [e \in DOMAIN firsts |-> EntryOf(file.headers[firsts[e]])]

\* The headers of the entry that starts at header c.
LastPart(file, c) ==
    LET ending == {k \in c..Len(file.headers) : ~file.headers[k].after}
    IN IF ending = {} THEN Len(file.headers) ELSE Min(ending)

Units(file) == [k \in DOMAIN file.headers |-> file.headers[k].units]

Decodes(file, c) == SumOver(Units(file), c..LastPart(file, c))

\* All that entry e decodes to.
Whole(file, e) == Decodes(file, Ascending(Firsts(file))[e])

Damaged(file) ==
    {file.headers[k].name : k \in {j \in DOMAIN file.headers :
        file.headers[j].damaged /\ file.headers[j].kind = "file"}}

-----------------------------------------------------------------------------
Init ==
    /\ disk \in Files /\ left = {} /\ missing = {} /\ meddled = 0
    /\ identity \in {{disk.id}, {}}
    /\ listing = {} /\ call = NoCall /\ phase = "idle" /\ result = "none"
    /\ seen = {} /\ fresh = NoHandle /\ walk = "none"
    /\ idx = 0 /\ headers_seen = 0 /\ entries = <<>>
    /\ decoded = 0 /\ entry_cap = {} /\ total_remaining = {}
    /\ abort = "none" /\ sink_error = FALSE /\ registered = "none"
    /\ installed = <<>> /\ failed = <<>> /\ tested = 0
    /\ answer = Nothing
    /\ in_unrar = FALSE /\ lock = "free" /\ nested = "none"
    /\ exit_code = "clean" /\ others = 0

\* The re-opened handle is dropped; which file it was stays known.
Return(r) ==
    /\ phase' = "done" /\ result' = r
    /\ fresh' = [fresh EXCEPT !.pos = 0, !.cur = 0]
    /\ registered' = "none"

\* UnrarExtractContext::new: what the whole extraction may still decode.
Remaining(c) == IF c.op = "extract_all" THEN c.total ELSE {}

\* A call, or another after one that has filled the memo.
Call ==
    /\ phase = "idle" \/ (phase = "done" /\ call.op = "list" /\ result = "ok")
    /\ \E c \in Calls :
        /\ call' = c
        /\ walk' = IF Listed(c.op) /\ listing = {} THEN "listing" ELSE "call"
        /\ phase' = IF c.op = "recovery" THEN "recovery"
                    ELSE IF c.op = "list" /\ listing # {} THEN "memo"
                    ELSE "check"
        /\ total_remaining' = Remaining(c)
    /\ result' = "none"
    /\ UNCHANGED <<subject, listing, seen, fresh, idx, headers_seen,
                   entries, decoded, entry_cap, abort, sink_error,
                   registered, outcome, guard, global>>

\* A listing that is already there is handed out as it is.
Memo ==
    /\ phase = "memo"
    /\ Return("ok")
    /\ UNCHANGED <<subject, listing, call, seen, walk, idx, headers_seen,
                   entries, ctx, outcome, guard, global>>

-----------------------------------------------------------------------------
\* fresh_handle and the native open, whose four looks at the file are four
\* steps.

\* validate_single_entry: what is extracted alone is one listed file.
Refused ==
    /\ walk = "call" /\ call.op \in {"extract_file", "memory", "sink"}
    /\ \A i \in DOMAIN List : i = call.target => List[i].kind # "file"

GateRefuses ==
    /\ phase = "check" /\ Refused
    /\ Return("refused")
    /\ UNCHANGED <<subject, listing, call, seen, walk, idx, headers_seen,
                   entries, ctx, outcome, guard, global>>

Revalidate ==
    /\ phase = "check" /\ ~Refused
    /\ IF identity = {} \/ identity = {disk.id}
       THEN /\ phase' = "capture"
            /\ UNCHANGED <<result, fresh, registered>>
       ELSE Return("drift")
    /\ UNCHANGED <<subject, listing, call, seen, walk, idx, headers_seen,
                   entries, ctx, outcome, guard, global>>

\* The open holds the lock from the look before it to the look after it.
Capture ==
    /\ phase = "capture" /\ lock = "free"
    /\ lock' = "mine" /\ in_unrar' = TRUE
    /\ seen' = {disk.id} /\ phase' = "open"
    /\ UNCHANGED <<subject, listing, call, result, fresh, walk, idx,
                   headers_seen, entries, ctx, registered, outcome, nested,
                   global>>

\* RAROpenArchiveEx cleans the global error code.
Open ==
    /\ phase = "open"
    /\ fresh' = [file |-> disk, pos |-> 1, cur |-> 1]
    /\ exit_code' = "clean" /\ phase' = "opened"
    /\ UNCHANGED <<subject, listing, call, result, seen, walk, idx,
                   headers_seen, entries, ctx, registered, outcome, guard,
                   others>>

\* Mutant: the identity the new handle captured is not looked at.
StillBoundAnyhow(i) == TRUE

\* What fresh_handle asks of the identity the new handle captured.
StillBound(i) == identity = {} \/ identity = i

\* The open itself compares inodes, fresh_handle then all of the identity.
Bind ==
    /\ phase = "opened"
    /\ lock' = "free" /\ in_unrar' = FALSE
    /\ IF /\ \A e \in seen : disk.id.inode = e.inode
          /\ StillBound(seen)
       THEN /\ phase' = "header" /\ registered' = "handle"
            /\ UNCHANGED <<result, fresh>>
       ELSE Return("drift")
    /\ idx' = 0 /\ headers_seen' = 0 /\ entries' = <<>>
    /\ abort' = "none"
    /\ UNCHANGED <<subject, listing, call, seen, walk, decoded, entry_cap,
                   total_remaining, sink_error, outcome, nested, global>>

-----------------------------------------------------------------------------
\* The SDK.  The error a call leaves in the global code makes every later
\* call fail until some handle is opened.

SdkSays == IF exit_code = "failed" THEN "corruption" ELSE "success"

Absent(file, k) ==
    k \in DOMAIN file.headers /\ file.headers[k].vol \in missing

\* RAR_SKIP.  It looks at the header the SDK holds, which after a decode is
\* already the next one; leaving a split part it opens the next volume, and
\* then says success whatever the global code is.
SkipTo(h) ==
    IF h.cur > Len(h.file.headers) THEN h
    ELSE [h EXCEPT !.pos = h.cur + 1,
                   !.cur = IF HeaderOf(h).after THEN h.cur + 1 ELSE h.cur]

Splits(h) == h.cur \in DOMAIN h.file.headers /\ HeaderOf(h).after

SkipAsks(h) == Splits(h) /\ Absent(h.file, h.cur + 1)

SkipSays(h) ==
    IF SkipAsks(h) THEN "missing_volume"
    ELSE IF Splits(h) THEN "success" ELSE SdkSays

\* skip_entry: the walk goes on at the next header, or ends in an error.
Skip(says) ==
    IF says = "success"
    THEN /\ fresh' = SkipTo(fresh) /\ phase' = "header"
         /\ UNCHANGED <<result, registered>>
    ELSE Return(says)

\* RARReadHeaderEx.
ReadHeader ==
    /\ phase = "header" /\ lock = "free"
    /\ IF fresh.pos > Len(fresh.file.headers)
       THEN /\ phase' = "end"
            /\ UNCHANGED <<result, fresh, registered, headers_seen>>
       ELSE IF SdkSays # "success"
            THEN Return(SdkSays) /\ UNCHANGED headers_seen
       ELSE /\ fresh' = [fresh EXCEPT !.cur = fresh.pos]
            /\ headers_seen' = headers_seen + 1 /\ phase' = "dispose"
            /\ UNCHANGED <<result, registered>>
    /\ UNCHANGED <<subject, listing, call, seen, walk, idx, entries, ctx,
                   outcome, guard, global>>

-----------------------------------------------------------------------------
\* walk_entries: the listing.

Disposing(w) == phase = "dispose" /\ walk = w /\ lock = "free"

\* The budget counts headers as well as entries.
OverBudget ==
    \E b \in call.budget : Len(entries) >= b \/ headers_seen > b + 1

ListEntry ==
    /\ Disposing("listing")
    /\ IF OverBudget THEN Return("too_many") /\ UNCHANGED entries
       ELSE /\ entries' = IF Continues(Header, Len(entries)) THEN entries
                          ELSE Append(entries, EntryOf(Header))
            /\ Skip(SkipSays(fresh))
    /\ UNCHANGED <<subject, listing, call, seen, walk, idx, headers_seen,
                   ctx, outcome, guard, global>>

\* An aborted walk leaves the memo unset; a finished one fills it, and the
\* call that needed it opens the archive once more.
ListEnds ==
    /\ phase = "end" /\ walk = "listing"
    /\ listing' = {entries} /\ walk' = "call"
    /\ IF call.op = "list" THEN Return("ok")
       ELSE /\ phase' = "check" /\ fresh' = NoHandle
            /\ registered' = "none" /\ UNCHANGED result
    /\ UNCHANGED <<subject, call, seen, idx, headers_seen, entries, ctx,
                   outcome, guard, global>>

-----------------------------------------------------------------------------
\* The walks that extract, stream or test.

Disposes(op) == Disposing("call") /\ call.op = op

Named(i) == i \in DOMAIN List /\ List[i].name = Header.name

\* A continuation that a skip left behind is no entry of its own; extract_all
\* polls before it looks.
FoldPart ==
    /\ Disposing("call") /\ call.op # "integrity"
    /\ Continues(Header, idx)
    /\ \/ Skip(SkipSays(fresh))
       \/ call.op = "extract_all" /\ call.progress /\ Return("cancelled")
    /\ UNCHANGED <<subject, listing, call, seen, walk, idx, headers_seen,
                   entries, ctx, outcome, guard, global>>

\* begin_file, and the lock and the callback of one RARProcessFile.
Starts(cap, callback) ==
    /\ phase' = "decoding" /\ decoded' = 0 /\ abort' = "none"
    /\ entry_cap' = cap /\ registered' = callback
    /\ lock' = "mine" /\ in_unrar' = TRUE
    /\ UNCHANGED <<result, fresh>>

Stays ==
    UNCHANGED <<decoded, entry_cap, abort, lock, in_unrar>>

\* min_opt of the cap of a file and what is left for the archive.
LeastOf(a, b) == IF a \cup b = {} THEN {} ELSE {Min(a \cup b)}

\* extract_all: the entry must be the listed one before the selection, or
\* the rule against links, is looked at; a cancelled poll ends the walk.
ExtractNext ==
    /\ Disposes("extract_all") /\ ~Continues(Header, idx)
    /\ idx' = idx + 1
    /\ \/ /\ call.progress
          /\ Return("cancelled") /\ Stays
       \/ /\ ~Named(idx + 1)
          /\ Return("drift") /\ Stays
       \/ /\ Named(idx + 1)
          /\ idx + 1 \notin call.selection \/ Header.kind = "link"
          /\ Skip(SkipSays(fresh)) /\ Stays
       \/ /\ Named(idx + 1) /\ idx + 1 \in call.selection
          /\ Header.kind # "link"
          /\ IF Header.kind = "file"
             THEN Starts(LeastOf(call.cap, total_remaining), "extract")
             ELSE Starts({}, "handle")
    /\ UNCHANGED <<subject, listing, call, seen, walk, headers_seen, entries,
                   total_remaining, sink_error, outcome, nested, global>>

\* The single-entry walks seek the entry by its position and then compare
\* its name.
Seek(Start) ==
    /\ ~Continues(Header, idx)
    /\ idx' = idx + 1
    /\ \/ /\ idx + 1 # call.target
          /\ Skip(SkipSays(fresh)) /\ Stays
       \/ /\ idx + 1 = call.target /\ ~Named(idx + 1)
          /\ Return("drift") /\ Stays
       \/ idx + 1 = call.target /\ Named(idx + 1) /\ Start
    /\ UNCHANGED <<subject, listing, call, seen, walk, headers_seen, entries,
                   total_remaining, sink_error, outcome, nested, global>>

\* A declared size over the cap is refused before the decode, and an uncapped
\* call installs no callback.
SeekEntry ==
    /\ Disposing("call") /\ call.op \in {"extract_file", "memory"}
    /\ Seek(IF \E c \in call.cap, d \in EntryOf(Header).size : d > c
            THEN Return("blocked") /\ Stays
            ELSE Starts(call.cap, IF call.cap # {} THEN "extract"
                                  ELSE "handle"))

\* The sink's consumer enforces its own cap.
SeekPayload ==
    /\ Disposes("sink")
    /\ Seek(Starts({}, "extract"))

\* test_integrity reads every header, continuations too, and tests files.
TestNext ==
    /\ Disposes("integrity")
    /\ IF Header.kind # "file"
       THEN Skip(SkipSays(fresh)) /\ Stays /\ UNCHANGED tested
       ELSE Starts({}, "handle") /\ tested' = tested + 1
    /\ UNCHANGED <<subject, listing, call, seen, walk, idx, headers_seen,
                   entries, total_remaining, sink_error, installed, failed,
                   answer, nested, global>>

-----------------------------------------------------------------------------
\* RARProcessFile: the decode, and what it calls back.

Decoding == phase = "decoding" /\ nested # "waiting"

\* Parts of this entry, not opened yet, whose volume is not there.
Before(k) == SumOver(Units(fresh.file), fresh.cur..(k - 1))

Gap == {k \in fresh.cur..LastPart(fresh.file, fresh.cur) :
            /\ k > fresh.cur /\ Absent(fresh.file, k)
            /\ Before(k) >= decoded}

\* A header that continues another file is passed over, not decoded.
Reach ==
    IF Header.kind # "file" \/ Header.before THEN 0
    ELSE IF Gap = {} THEN Decodes(fresh.file, fresh.cur)
    ELSE Before(Min(Gap))

Running == Decoding /\ abort = "none" /\ ~sink_error

PastCap(n) == registered = "extract" /\ \E c \in entry_cap : n > c

\* on_process_data: count, then the cap, then the sink, then the progress.
Block ==
    /\ Running /\ decoded < Reach
    /\ decoded' = decoded + 1
    /\ IF PastCap(decoded + 1)
       THEN abort' = "blocked" /\ UNCHANGED sink_error
       ELSE \/ UNCHANGED <<abort, sink_error>>
            \/ call.op = "sink" /\ sink_error' = TRUE /\ UNCHANGED abort
            \/ /\ call.op = "extract_all" /\ call.progress
               /\ abort' = "cancelled" /\ UNCHANGED sink_error
    /\ UNCHANGED <<subject, listing, call, phase, result, walking, entry_cap,
                   total_remaining, registered, outcome, guard, global>>

\* UCM_CHANGEVOLUME with RAR_VOL_ASK: recorded in whichever context is
\* registered, and never answered with anything but an abort.
AskVolume ==
    /\ Running /\ decoded = Reach /\ Gap # {}
    /\ abort' = "missing_volume"
    /\ UNCHANGED <<subject, listing, call, phase, result, walking, decoded,
                   entry_cap, total_remaining, sink_error, registered,
                   outcome, guard, global>>

\* Mutant: no sentinel, so the thread waits for the lock it holds.
unrar_lockBlind == "waiting"

\* unrar_lock on the thread that is inside UnRAR already.
unrar_lock == IF in_unrar THEN "refused" ELSE "waiting"

\* The progress callback calls the library again.
Reenter ==
    /\ Running /\ registered = "extract" /\ nested = "none"
    /\ call.op = "extract_all" /\ call.progress
    /\ nested' = unrar_lock
    /\ UNCHANGED <<subject, listing, call, phase, result, walking, ctx,
                   registered, outcome, in_unrar, lock, global>>

\* Data that starts in a volume before the one that was opened cannot be
\* decoded.
NeedsPrevious == Header.before /\ fresh.cur = 1

\* What RARProcessFile returned.
Broken == NeedsPrevious \/ (Header.damaged /\ ~Header.before)

Code ==
    IF abort = "missing_volume" THEN "io"
    ELSE IF abort # "none" \/ sink_error THEN "break"
    ELSE IF Broken THEN "corruption" ELSE SdkSays

Decoded == Decoding /\ (abort # "none" \/ sink_error
                        \/ (decoded = Reach /\ Gap = {}))

\* After a decode the SDK has read the next header already.
Passed == [fresh EXCEPT !.pos = LastPart(fresh.file, fresh.cur) + 1,
                        !.cur = LastPart(fresh.file, fresh.cur) + 1]

Released ==
    /\ lock' = "free" /\ in_unrar' = FALSE
    /\ nested' = nested
    /\ exit_code' = IF Code \in {"corruption", "break"} THEN "failed"
                    ELSE exit_code
    /\ UNCHANGED <<subject, listing, call, seen, walk, idx, headers_seen,
                   entries, decoded, entry_cap, abort, others>>

Written(n) ==
    installed' = Append(installed,
        [id |-> idx, name |-> Header.name, units |-> n, from |-> fresh.file])

\* take_abort_error of the extract context, before the SDK's code; without
\* one the code alone speaks.
Failure == IF registered = "extract" /\ abort # "none" THEN abort ELSE Code

ExtractEnds ==
    /\ Decoded /\ call.op = "extract_all"
    /\ IF Code = "success"
       THEN /\ Written(decoded) /\ fresh' = Passed /\ phase' = "header"
            /\ registered' = "handle" /\ UNCHANGED result
            /\ total_remaining' =
                 {IF r > decoded THEN r - decoded ELSE 0 :
                    r \in total_remaining}
       ELSE Return(Failure) /\ UNCHANGED <<installed, total_remaining>>
    /\ Released
    /\ UNCHANGED <<sink_error, failed, tested, answer>>

\* check_staged_length: what memory staged is what the header declares.
StagedAsDeclared == decoded \in EntryOf(Header).size

ExtractFileEnds ==
    /\ Decoded /\ call.op \in {"extract_file", "memory"}
    /\ IF Code # "success" THEN Return(Failure) /\ UNCHANGED installed
       ELSE IF call.op = "memory" /\ ~StagedAsDeclared
            THEN Return("corruption") /\ UNCHANGED installed
       ELSE Written(decoded) /\ Return("ok")
    /\ Released
    /\ UNCHANGED <<total_remaining, sink_error, failed, tested, answer>>

\* The sink has had the blocks whatever the decode says in the end, and its
\* own error comes first.
SinkEnds ==
    /\ Decoded /\ call.op = "sink"
    /\ Written(decoded)
    /\ Return(IF sink_error THEN "sink"
              ELSE IF Code = "success" THEN "ok" ELSE Failure)
    /\ Released
    /\ UNCHANGED <<total_remaining, sink_error, failed, tested, answer>>

\* Mutant: a damaged file that could be skipped is not noted.
TestEndsForgets ==
    /\ Decoded /\ call.op = "integrity"
    /\ CASE Code = "success" ->
              /\ fresh' = Passed /\ phase' = "header"
              /\ registered' = "handle" /\ UNCHANGED result
         [] Code = "corruption" ->
              IF Splits(Passed) /\ ~SkipAsks(Passed)
              THEN /\ fresh' = SkipTo(Passed) /\ phase' = "header"
                   /\ registered' = "handle" /\ UNCHANGED result
              ELSE Return("stuck")
         [] OTHER -> Return(Code)
    /\ Released
    /\ UNCHANGED <<total_remaining, sink_error, outcome>>

\* A damaged file is noted and, without the lock being let go, skipped; any
\* other error, and a skip that fails, end the walk.
TestEnds ==
    /\ Decoded /\ call.op = "integrity"
    /\ CASE Code = "success" ->
              /\ fresh' = Passed /\ phase' = "header"
              /\ registered' = "handle" /\ UNCHANGED <<result, failed>>
         [] Code = "corruption" ->
              /\ failed' = Append(failed, Header.name)
              /\ IF Splits(Passed) /\ ~SkipAsks(Passed)
                 THEN /\ fresh' = SkipTo(Passed) /\ phase' = "header"
                      /\ registered' = "handle" /\ UNCHANGED result
                 ELSE Return("stuck")
         [] OTHER -> Return(Code) /\ UNCHANGED failed
    /\ Released
    /\ UNCHANGED <<total_remaining, sink_error, installed, tested, answer>>

-----------------------------------------------------------------------------
\* The end of a walk.

\* Mutant: a walk that ended early is a success.
EndsCountingShort == IF idx > Len(List) THEN "drift" ELSE "ok"

EndsCounting == IF idx # Len(List) THEN "drift" ELSE "ok"

\* extract_all counts what it consumed and polls once more; a single entry
\* that was not reached is drift or not found; the test is over.
WalkEnds ==
    /\ phase = "end" /\ walk = "call"
    /\ CASE call.op = "extract_all" ->
              \/ Return(EndsCounting)
              \/ EndsCounting = "ok" /\ call.progress /\ Return("cancelled")
         [] call.op = "integrity" -> Return("ok")
         [] OTHER -> Return("drift")
    /\ UNCHANGED <<subject, listing, call, seen, walk, idx, headers_seen,
                   entries, ctx, outcome, guard, global>>

\* recovery_percentage: the flags of the open, then the identity's inode,
\* then the raw blocks of the file of that name.
RecoveryGate ==
    /\ phase = "recovery"
    /\ IF ~call.flagged \/ call.encrypted THEN Return("ok")
       ELSE IF \E e \in identity : disk.id.inode # e.inode
       THEN Return("blocked")
       ELSE /\ phase' = "recovering"
            /\ UNCHANGED <<result, fresh, registered>>
    /\ UNCHANGED <<subject, listing, call, seen, walk, idx, headers_seen,
                   entries, ctx, outcome, guard, global>>

RecoveryWalk ==
    /\ phase = "recovering"
    /\ answer' = Walk(disk.raw)
    /\ installed' = <<[id |-> 0, name |-> "raw", units |-> 0, from |-> disk]>>
    /\ Return(IF answer'.says \in {"percent", "none"} THEN "ok"
              ELSE answer'.says)
    /\ UNCHANGED <<subject, listing, call, seen, walk, idx, headers_seen,
                   entries, ctx, failed, tested, guard, global>>

-----------------------------------------------------------------------------
\* Whatever else happens to the file, to its volumes and to the SDK.

\* Another file, or this one rewritten in place.  No inode comes back: the
\* window between the stat and the native open is one the code accepts.
Replace ==
    /\ meddled < MaxMeddles /\ phase # "done"
    /\ disk' \in {f \in Files \ {disk} : f.id.inode \notin left}
    /\ left' = IF disk'.id.inode = disk.id.inode THEN left
               ELSE left \union {disk.id.inode}
    /\ meddled' = meddled + 1
    /\ UNCHANGED <<missing, identity, listing, call, phase, result, walking,
                   ctx, registered, outcome, guard, global>>

LoseVolume ==
    /\ meddled < MaxMeddles /\ phase # "done"
    /\ \E k \in DOMAIN disk.headers :
         disk.headers[k].vol > 1 /\ missing' = {disk.headers[k].vol}
    /\ meddled' = meddled + 1
    /\ UNCHANGED <<disk, left, identity, listing, call, phase, result, walking,
                   ctx, registered, outcome, guard, global>>

OtherTakes ==
    /\ lock = "free" /\ others < MaxOthers /\ phase # "done"
    /\ lock' = "other" /\ others' = others + 1
    /\ UNCHANGED <<subject, listing, call, phase, result, walking, ctx,
                   registered, outcome, in_unrar, nested, exit_code>>

\* It opened an archive, failed in one, or did neither.
OtherReturns ==
    /\ lock = "other" /\ lock' = "free"
    /\ exit_code' \in {"clean", "failed", exit_code}
    /\ UNCHANGED <<subject, listing, call, phase, result, walking, ctx,
                   registered, outcome, in_unrar, nested, others>>

Walks ==
    \/ Memo \/ GateRefuses \/ Revalidate \/ Capture \/ Open \/ Bind \/ ReadHeader
    \/ ListEntry \/ ListEnds \/ FoldPart \/ ExtractNext \/ SeekEntry
    \/ SeekPayload
    \/ TestNext \/ WalkEnds \/ RecoveryGate \/ RecoveryWalk

Decodings ==
    \/ Block \/ AskVolume \/ ExtractEnds \/ ExtractFileEnds \/ SinkEnds
    \/ TestEnds

Next ==
    \/ Call \/ Walks \/ Decodings \/ Reenter
    \/ Replace \/ LoseVolume \/ OtherTakes \/ OtherReturns

Spec == Init /\ [][Next]_vars

\* A thread that is running goes on running, the one that holds the lock
\* included; the mutex is free again and again because calls are bounded.
FairSpec ==
    Spec /\ WF_vars(Walks) /\ WF_vars(Decodings) /\ WF_vars(OtherReturns)

-----------------------------------------------------------------------------
\* Types.  The extract context is a local of the function that registered it
\* (its address must not outlive the decode), and the sentinel is set exactly
\* while this thread holds the lock.
TypeOK ==
    /\ phase \in {"idle", "memo", "check", "capture", "open", "opened",
                  "header", "dispose", "decoding", "end", "recovery",
                  "recovering", "done"}
    /\ lock \in {"free", "mine", "other"}
    /\ registered \in {"none", "handle", "extract"}
    /\ registered = "extract" => phase = "decoding"
    /\ abort \in {"none", "blocked", "cancelled", "missing_volume"}
    /\ in_unrar = (lock = "mine")
    /\ (lock = "mine") = (phase \in {"open", "opened", "decoding"})
    /\ Cardinality(listing) <= 1
    /\ phase = "done" <=> result # "none"

\* Every entry that is written or handed out has the name the listing gave
\* its position, and comes from a file with the identity the handle was bound
\* to when it was opened (the drift guards and the identity bracket).
WhatWasListed ==
    \A i \in DOMAIN installed : call.op # "recovery" =>
        /\ installed[i].id \in DOMAIN List
        /\ List[installed[i].id].name = installed[i].name
        /\ \A e \in identity : installed[i].from.id.inode = e.inode

\* The file was never rewritten in place.
OnlyReplaced(file) ==
    \A f \in Files : f.id.inode = file.id.inode => f = file

\* extract_all says ok only when every selected entry of the file it walked
\* was written once, in order, with all the bytes of all its parts; links
\* are passed over, continuation headers folded.  That file has as many
\* entries as the listing, under the same names, and the very same entries
\* when the handle is bound and the file was not rewritten in place.
CompleteOnOk ==
    (call.op = "extract_all" /\ result = "ok") =>
        LET all == Coalesced(fresh.file)
            wanted == {i \in DOMAIN all :
                          i \in call.selection /\ all[i].kind # "link"}
        IN /\ [i \in DOMAIN installed |-> installed[i].id] = Ascending(wanted)
           /\ \A i \in DOMAIN installed :
                installed[i].units = Whole(fresh.file, installed[i].id)
           /\ Len(all) = Len(List)
           /\ \A i \in DOMAIN all : all[i].name = List[i].name
           /\ identity # {} /\ OnlyReplaced(fresh.file) => all = List

\* What is written respects the limit of an entry and that of the archive,
\* whatever its header declares (the cap in the data callback).
CapsHold ==
    LET n == [i \in DOMAIN installed |-> installed[i].units]
    IN /\ call.op \in {"extract_all", "extract_file", "memory"} =>
            \A i \in DOMAIN installed, c \in call.cap : n[i] <= c
       /\ call.op = "extract_all" =>
            \A t \in call.total : SumOver(n, DOMAIN installed) <= t

\* An integrity test that names no file has met none that is damaged,
\* although a decode leaves the SDK on the next header, the error code is
\* shared with other threads, and they may clean it.
CleanVerdictHonest ==
    (call.op = "integrity" /\ result = "ok" /\ failed = <<>>) =>
        Damaged(fresh.file) = {}

\* Every call returns: no retry of a missing volume, no walk that stalls, no
\* thread waiting for the lock it holds (the sentinel of unrar_lock).
EveryCallReturns == (call # NoCall) ~> (phase = "done")

\* recovery_percentage says of the file it read what that file bears out: a
\* percentage of a record that is there, "none" never of a file that ends in
\* the middle of a block, an error only of a damaged file (the block walks and
\* their offsets, R0080-0052 to R0080-0060).
RecoveryTruthful ==
    (call.op = "recovery" /\ phase = "done") =>
        \A i \in DOMAIN installed :
            Truthful(installed[i].from.raw, answer)

\* The documentation of test_integrity: "Returns a list of file paths that
\* failed verification."
DamageIsListed ==
    (/\ call.op = "integrity" /\ phase = "done"
     /\ meddled = 0 /\ others = 0) =>
        result = "ok" /\ {failed[i] : i \in DOMAIN failed} = Damaged(disk)

\* The comment on UNRAR_LOCK: "there is no cross-contamination risk".
Sound(file) ==
    \A i \in DOMAIN file.headers :
        /\ ~file.headers[i].damaged
        /\ \E e \in DOMAIN Coalesced(file) :
             Coalesced(file)[e].size \subseteq {Whole(file, e)}

NoCrossContamination ==
    (/\ call.op # "recovery" /\ result \in {"corruption", "stuck"}
     /\ meddled = 0) => ~Sound(disk)

\* What is written or handed out is of the bound file, under the name its
\* listing gave the position, and within the limits.
InstalledAsListed == TypeOK /\ WhatWasListed /\ CapsHold

\* The documentation of recovery_percentage: "Ok(Some(percentage)) - Recovery
\* records present with known percentage"; "Parses the RAR file directly to
\* locate and extract recovery record block headers".
RecordReported ==
    (call.op = "recovery" /\ phase = "done") =>
        \A p \in DOMAIN installed :
            LET file == installed[p].from.raw
            IN (/\ Healthy(file)
                /\ \E i \in DOMAIN file.blocks : Known(file, i))
               => answer.says = "percent"

\* parse_recovery_percentage: "so the returned percentage cannot describe a
\* different file than the flags read from the live handle".
FlagsAndRecordAgree ==
    (call.op = "recovery" /\ phase = "done") =>
        \A p \in DOMAIN installed, e \in identity :
            installed[p].from.id.inode = e.inode

\* tests/recovery_percentage_edge_cases.rs: "a positive value - never 0".
NeverZeroPercent ==
    (call.op = "recovery" /\ phase = "done") => answer # Percent(0)
=============================================================================
