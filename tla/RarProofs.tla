------------------------------ MODULE RarProofs ------------------------------
(***************************************************************************)
(* Theorems about the two halves of RAR: reading through the UnRAR SDK     *)
(* (UnrarHandle, with the walk of RecoveryRecord) and creation through the *)
(* installed rar program (ExternalRar).  They hold for any files, calls,   *)
(* search lists, programs and sources, and whatever others change between  *)
(* two steps of a call.                                                    *)
(***************************************************************************)
EXTENDS UnrarHandle, ExternalRar, NumberSetsProofs

-----------------------------------------------------------------------------
(* A RAR handle: UnrarHandle.  The types and the course of a call.         *)

Ids == [inode : Nat, len : Nat]
Records == [name : STRING, kind : Kinds, size : SUBSET Nat]
Pieces == [id : Nat, name : STRING \union {"raw"}, units : Nat, from : Files]
Handles == [file : Files \union {NoFile}, pos : Nat, cur : Nat]

AtMostOne(S) == \A x, y \in S : x = y

\* The phases before the archive was opened, and those of a walk.
Early == {"check", "capture", "open", "opened"}
Looking == {"header", "dispose", "decoding", "end"}

Typed ==
    /\ disk \in Files /\ left \subseteq Nat
    /\ identity \subseteq Ids /\ AtMostOne(identity)
    /\ listing \subseteq Seq(Records) /\ AtMostOne(listing)
    /\ call \in Calls \union {NoCall}
    /\ seen \subseteq Ids /\ AtMostOne(seen)
    /\ fresh \in Handles /\ idx \in Nat /\ entries \in Seq(Records)
    /\ decoded \in Nat
    /\ installed \in Seq(Pieces) /\ failed \in Seq(STRING)

\* Where the handle of a walk stands.
Positioned ==
    /\ phase \in Looking \union {"opened"} => fresh.file \in Files
    /\ phase = "opened" => fresh.pos = 1
    /\ phase = "header" => fresh.pos >= 1
    /\ phase \in {"dispose", "decoding"} =>
         fresh.cur \in DOMAIN fresh.file.headers /\ fresh.pos = fresh.cur
    /\ phase = "end" => fresh.pos > Len(fresh.file.headers)

\* What a call is about while it is in a phase.
Underway ==
    /\ walk \in {"none", "listing", "call"}
    /\ phase = "idle" => call = NoCall /\ walk = "none"
    /\ walk = "listing" => Listed(call.op) /\ listing = {}
    /\ walk = "call" /\ Listed(call.op) => listing # {}
    /\ phase \in Early \union Looking =>
         walk \in {"listing", "call"} /\ call.op \notin {"none", "recovery"}
    /\ phase \in {"recovery", "recovering"} => call.op = "recovery"
    /\ phase = "memo" => call.op = "list"
    /\ phase = "decoding" =>
         /\ walk = "call" /\ registered \in {"handle", "extract"}
         /\ call.op \in {"extract_all", "extract_file", "memory", "sink",
                         "integrity"}
    /\ (phase \in Early \union {"idle", "memo", "recovery", "recovering"}
          \/ walk = "listing" \/ call.op \in {"none", "list"}) =>
             installed = <<>>

Course == Typed /\ Positioned /\ Underway /\ TypeOK

-----------------------------------------------------------------------------
(* Headers.                                                                *)

\* What a file of the archive is made of.
LEMMA FileTyped ==
  ASSUME NEW f \in Files
  PROVE  /\ f.headers \in Seq(Headers) /\ Len(f.headers) \in Nat
         /\ DOMAIN f.headers = 1..Len(f.headers)
         /\ \A k \in DOMAIN f.headers :
              /\ f.headers[k] \in Headers
              /\ f.headers[k].name \in STRING /\ f.headers[k].kind \in Kinds
              /\ f.headers[k].size \in Nat /\ f.headers[k].units \in Nat
              /\ f.headers[k].before \in BOOLEAN
              /\ f.headers[k].after \in BOOLEAN
              /\ f.headers[k].damaged \in BOOLEAN
         /\ Parts(f.headers)
         /\ f.id \in Ids /\ f.id.inode \in Nat
         /\ f.raw \in RawFiles
<1>1. /\ f \in [id : [inode : Nat, len : Nat], headers : Seq(Headers),
                raw : RawFiles]
      /\ Parts(f.headers)
  BY FileAssumption
<1>2. f.headers \in Seq(Headers) /\ f.id \in Ids /\ f.raw \in RawFiles
  BY <1>1 DEF Ids
<1>3. /\ Len(f.headers) \in Nat /\ DOMAIN f.headers = 1..Len(f.headers)
      /\ \A k \in DOMAIN f.headers : f.headers[k] \in Headers
  BY <1>2
<1>. QED
  BY <1>1, <1>2, <1>3 DEF Headers, Ids

\* The record of a header.
LEMMA EntryTyped ==
  ASSUME NEW h \in Headers
  PROVE  EntryOf(h) \in Records /\ EntryOf(h).name = h.name
         /\ EntryOf(h).kind = h.kind
  BY DEF EntryOf, Headers, Records

\* The parts of an entry reach to the last one.
LEMMA PartsReach ==
  ASSUME NEW f \in Files, NEW c \in DOMAIN f.headers
  PROVE  /\ LastPart(f, c) \in c..Len(f.headers)
         /\ \A k \in (c + 1)..LastPart(f, c) : f.headers[k].before
         /\ ~f.headers[c].after => LastPart(f, c) = c
<1> DEFINE L == Len(f.headers)
           ending == {k \in c..L : ~f.headers[k].after}
<1>1. L \in Nat /\ DOMAIN f.headers = 1..L /\ c \in 1..L
  BY FileTyped
<1>2. /\ LastPart(f, c) \in c..L
      /\ \A k \in c..L : k < LastPart(f, c) => f.headers[k].after
      /\ ~f.headers[c].after => LastPart(f, c) = c
  <2>1. CASE ending = {}
    BY <1>1, <2>1, FileTyped DEF LastPart
  <2>2. CASE ending # {}
    <3>1. ending \in SUBSET Nat /\ ending \subseteq c..L
      BY <1>1
    <3>2. \E m \in ending : \A y \in ending : m <= y
      <4> HIDE DEF ending
      <4>. QED
        BY <2>2, <3>1, HasLeast
    <3>3. Min(ending) \in ending /\ \A y \in ending : Min(ending) <= y
      <4> HIDE DEF ending
      <4>. QED
        BY <3>2 DEF Min
    <3>4. LastPart(f, c) = Min(ending)
      BY <2>2 DEF LastPart
    <3>5. \A k \in c..L : k < Min(ending) => f.headers[k].after
      BY <1>1, <3>1, <3>3, FileTyped
    <3>6. ~f.headers[c].after => Min(ending) = c
      <4>1. ~f.headers[c].after => c \in ending
        BY <1>1
      <4>2. Min(ending) \in Nat /\ Min(ending) >= c
        BY <1>1, <3>1, <3>3
      <4>3. c \in ending => Min(ending) <= c
        BY <3>3
      <4>. QED
        BY <1>1, <4>1, <4>2, <4>3
    <3>. QED
      BY <3>1, <3>3, <3>4, <3>5, <3>6
  <2>. QED
    BY <2>1, <2>2
<1>3. ASSUME NEW k \in (c + 1)..LastPart(f, c) PROVE f.headers[k].before
  <2>1. k - 1 \in c..L /\ k - 1 < LastPart(f, c) /\ k - 1 \in DOMAIN f.headers
        /\ k - 1 < L /\ (k - 1) + 1 = k
    BY <1>1, <1>2
  <2>2. f.headers[k - 1].after
    BY <1>2, <2>1
  <2>3. Parts(f.headers)
    BY FileTyped
  <2>4. f.headers[(k - 1) + 1].before
    BY <2>1, <2>2, <2>3 DEF Parts
  <2>. QED
    BY <2>1, <2>4
<1>. QED
  BY <1>2, <1>3

\* Where a skip leaves a handle.
LEMMA SkipMoves ==
  ASSUME NEW h \in Handles
  PROVE  /\ SkipTo(h) \in Handles /\ SkipTo(h).file = h.file
         /\ h.cur <= Len(h.file.headers) => SkipTo(h).pos = h.cur + 1
         /\ SkipTo(h).pos \in {h.pos, h.cur + 1}
<1> DEFINE c == IF HeaderOf(h).after THEN h.cur + 1 ELSE h.cur
           g == [h EXCEPT !.pos = h.cur + 1, !.cur = c]
<1>1. h.cur \in Nat /\ h.cur + 1 \in Nat /\ c \in Nat
  BY DEF Handles
<1>2. SkipTo(h) = IF h.cur > Len(h.file.headers) THEN h ELSE g
  BY DEF SkipTo
<1> HIDE DEF c
<1>3. g \in Handles /\ g.file = h.file /\ g.pos = h.cur + 1
  BY <1>1 DEF Handles
<1>4. Len(h.file.headers) \in Nat
  BY FileTyped DEF Handles, NoFile
<1> HIDE DEF g
<1>. QED
  BY <1>1, <1>2, <1>3, <1>4

\* Skipping goes to the next header, a decode behind the last part.
LEMMA Moves ==
  ASSUME fresh \in Handles, fresh.file \in Files,
         fresh.cur \in DOMAIN fresh.file.headers
  PROVE  /\ SkipTo(fresh) \in Handles
         /\ SkipTo(fresh).file = fresh.file
         /\ SkipTo(fresh).pos = fresh.cur + 1
         /\ Passed \in Handles /\ Passed.file = fresh.file
         /\ Passed.pos = LastPart(fresh.file, fresh.cur) + 1
         /\ Passed.pos > fresh.cur
         /\ SkipTo(Passed) \in Handles /\ SkipTo(Passed).file = fresh.file
         /\ SkipTo(Passed).pos >= 1
<1> DEFINE L == Len(fresh.file.headers)
           p == LastPart(fresh.file, fresh.cur)
<1>1. L \in Nat /\ fresh.cur \in 1..L /\ fresh.cur \in Nat /\ fresh.cur + 1 \in Nat
  BY FileTyped
<1>2. p \in Nat /\ p >= fresh.cur /\ p + 1 \in Nat /\ p + 1 + 1 \in Nat
  BY <1>1, PartsReach
<1> HIDE DEF p
<1>3. Passed = [fresh EXCEPT !.pos = p + 1, !.cur = p + 1]
  BY DEF Passed, p
<1>4. Passed \in Handles /\ Passed.file = fresh.file /\ Passed.pos = p + 1
      /\ Passed.cur = p + 1
  BY <1>2, <1>3 DEF Handles
<1>5. /\ SkipTo(fresh) \in Handles /\ SkipTo(fresh).file = fresh.file
      /\ SkipTo(fresh).pos = fresh.cur + 1
  BY <1>1, SkipMoves
<1>6. /\ SkipTo(Passed) \in Handles /\ SkipTo(Passed).file = fresh.file
      /\ SkipTo(Passed).pos >= 1
  BY <1>2, <1>4, SkipMoves
<1>. QED
  BY <1>1, <1>2, <1>4, <1>5, <1>6 DEF p

-----------------------------------------------------------------------------
(* What a step is to the walk.                                             *)

Keeps == UNCHANGED <<identity, listing, call, walk, answer>>
Rests == UNCHANGED <<fresh, idx, entries, installed, failed, result>>
Closed == fresh' = [fresh EXCEPT !.pos = 0, !.cur = 0]
Single == {"extract_file", "memory", "sink"}

\* The walk stands still.
Still == Keeps /\ Rests /\ UNCHANGED <<phase, registered>>

\* One step nearer to the open.
Turns ==
    /\ Keeps /\ Rests
    /\ \/ phase = "check" /\ phase' = "capture"
       \/ Capture
       \/ phase = "recovery" /\ phase' = "recovering"

Opens ==
    /\ Keeps /\ UNCHANGED <<idx, entries, installed, failed, result>>
    /\ phase = "open" /\ phase' = "opened"
    /\ fresh' = [file |-> disk, pos |-> 1, cur |-> 1]

Binds ==
    /\ Keeps /\ UNCHANGED <<fresh, installed, failed, result>>
    /\ phase = "opened" /\ phase' = "header" /\ idx' = 0 /\ entries' = <<>>
    /\ \A e \in seen : disk.id.inode = e.inode
    /\ StillBound(seen)

Reads ==
    /\ Keeps /\ UNCHANGED <<idx, entries, installed, failed, result>>
    /\ phase = "header" /\ phase' = "dispose"
    /\ ~(fresh.pos > Len(fresh.file.headers))
    /\ fresh' = [fresh EXCEPT !.cur = fresh.pos]

Exhausts ==
    /\ Keeps /\ Rests
    /\ phase = "header" /\ phase' = "end"
    /\ fresh.pos > Len(fresh.file.headers)

\* The listing takes a header in.
Collects ==
    /\ Keeps /\ UNCHANGED <<idx, installed, failed, result>>
    /\ phase = "dispose" /\ phase' = "header" /\ walk = "listing"
    /\ fresh' = SkipTo(fresh)
    /\ entries' = IF Continues(Header, Len(entries)) THEN entries
                  ELSE Append(entries, EntryOf(Header))

\* A call passes a header over.
Skips ==
    /\ Keeps /\ UNCHANGED <<entries, installed, failed, result>>
    /\ phase = "dispose" /\ phase' = "header" /\ walk = "call"
    /\ fresh' = SkipTo(fresh)
    /\ \/ call.op # "integrity" /\ Continues(Header, idx) /\ idx' = idx
       \/ /\ call.op = "extract_all" /\ ~Continues(Header, idx)
          /\ idx' = idx + 1 /\ Named(idx + 1)
          /\ idx + 1 \notin call.selection \/ Header.kind = "link"
       \/ call.op \in Single /\ ~Continues(Header, idx) /\ idx' = idx + 1
       \/ call.op = "integrity" /\ Header.kind # "file" /\ idx' = idx

\* A decode begins.
Begins ==
    /\ Keeps /\ UNCHANGED <<fresh, entries, installed, failed, result>>
    /\ phase = "dispose" /\ phase' = "decoding" /\ walk = "call"
    /\ registered' \in {"handle", "extract"}
    /\ \/ /\ call.op = "extract_all" /\ ~Continues(Header, idx)
          /\ idx' = idx + 1 /\ Named(idx + 1)
          /\ idx + 1 \in call.selection /\ Header.kind # "link"
       \/ /\ call.op \in Single /\ ~Continues(Header, idx)
          /\ idx' = idx + 1 /\ Named(idx + 1)
       \/ call.op = "integrity" /\ Header.kind = "file" /\ idx' = idx

\* A decode went well, and the walk goes on.
Passes ==
    /\ Keeps /\ UNCHANGED <<idx, entries, failed, result>>
    /\ phase = "decoding" /\ phase' = "header" /\ fresh' = Passed
    /\ Decoded /\ Code = "success"
    /\ \/ call.op = "extract_all" /\ Written(decoded)
       \/ call.op = "integrity" /\ UNCHANGED installed

\* A damaged file is noted, and the walk goes on.
Notes ==
    /\ Keeps /\ UNCHANGED <<idx, entries, installed, result>>
    /\ phase = "decoding" /\ phase' = "header" /\ fresh' = SkipTo(Passed)
    /\ call.op = "integrity" /\ failed' = Append(failed, Header.name)

\* The one entry that was asked for.
HandsOut ==
    /\ Keeps /\ UNCHANGED <<idx, entries, failed>>
    /\ phase = "decoding" /\ phase' = "done" /\ result' = "ok" /\ Closed
    /\ call.op \in Single /\ Written(decoded)

\* The end of a walk, or a call that needs none.
Succeeds ==
    /\ Keeps /\ UNCHANGED <<idx, entries, installed, failed>>
    /\ phase' = "done" /\ result' = "ok" /\ Closed
    /\ \/ /\ phase = "end" /\ walk = "call"
          /\ \/ call.op = "extract_all" /\ idx = Len(List)
             \/ call.op = "integrity"
       \/ phase \in {"memo", "recovery"}

\* A call is refused, or fails.
Quits ==
    /\ Keeps /\ Closed
    /\ phase \notin {"idle", "done"} /\ phase' = "done"
    /\ result' \notin {"none", "ok"}
    /\ idx' \in {idx, idx + 1, 0}
    /\ \/ entries' \in {entries, <<>>}
       \/ phase = "dispose" /\ entries' = Append(entries, EntryOf(Header))
    /\ \/ UNCHANGED installed
       \/ phase = "decoding" /\ call.op = "sink" /\ Written(decoded)
    /\ \/ UNCHANGED failed
       \/ /\ phase = "decoding" /\ call.op = "integrity"
          /\ failed' = Append(failed, Header.name)

Kind ==
    \/ Still \/ Call \/ Turns \/ Opens \/ Binds \/ Reads \/ Exhausts
    \/ Collects \/ Skips \/ Begins \/ Passes \/ Notes \/ HandsOut
    \/ Succeeds \/ Quits \/ ListEnds \/ RecoveryWalk

\* The answers of the SDK.
LEMMA SdkAnswers ==
  /\ SdkSays \in {"success", "corruption"}
  /\ \A h : SkipSays(h) \in {"success", "corruption", "missing_volume"}
  BY DEF SdkSays, SkipSays

\* A skip goes on, or ends the call.
LEMMA SkipKinds ==
  ASSUME Skip(SkipSays(fresh))
  PROVE  \/ fresh' = SkipTo(fresh) /\ phase' = "header" /\ UNCHANGED result
         \/ phase' = "done" /\ result' \notin {"none", "ok"} /\ Closed
  BY SdkAnswers DEF Skip, Return, Closed

\* What a decode says.
LEMMA CodeAnswers ==
  /\ Code \in {"success", "io", "break", "corruption"}
  /\ TypeOK => Failure \notin {"none", "ok"}
<1>1. Code \in {"success", "io", "break", "corruption"}
  BY SdkAnswers DEF Code
<1>. QED
  BY <1>1 DEF Failure, TypeOK

\* Every step is of one of the kinds.
LEMMA StepKinds ==
  ASSUME Course, [Next]_vars
  PROVE  Kind
<1> USE DEF Keeps, Closed, Kind, vars, subject, walking, ctx, outcome, guard,
            global, Course, TypeOK
<1>1. CASE Memo
  BY <1>1 DEF Memo, Succeeds, Return
<1>2. CASE GateRefuses
  BY <1>2 DEF GateRefuses, Quits, Return
<1>3. CASE Revalidate
  BY <1>3 DEF Revalidate, Turns, Rests, Quits, Return
<1>4. CASE Capture
  BY <1>4 DEF Capture, Turns, Rests
<1>5. CASE Open
  BY <1>5 DEF Open, Opens
<1>6. CASE Bind
  BY <1>6 DEF Bind, Binds, Quits, Return
<1>7. CASE ReadHeader
  BY SdkAnswers, <1>7 DEF ReadHeader, Reads, Exhausts, Rests, Quits, Return
<1>8. CASE ListEntry
  BY SkipKinds, <1>8 DEF ListEntry, Collects, Quits, Return, Disposing
<1>9. CASE ListEnds
  BY <1>9 DEF ListEnds
<1>10. CASE FoldPart
  <2>1. CASE Skip(SkipSays(fresh))
    BY SkipKinds, <1>10, <2>1 DEF FoldPart, Skips, Quits, Disposing
  <2>2. CASE Return("cancelled")
    BY <1>10, <2>2 DEF FoldPart, Quits, Return, Disposing
  <2>. QED
    BY <1>10, <2>1, <2>2 DEF FoldPart
<1>11. CASE ExtractNext
  BY SkipKinds, <1>11 DEF ExtractNext, Skips, Begins, Quits, Return,
     Disposes, Disposing, Starts
<1>12. CASE SeekEntry
  BY SkipKinds, <1>12 DEF SeekEntry, Skips, Begins, Quits, Return,
     Disposing, Seek, Starts, Single
<1>13. CASE SeekPayload
  BY SkipKinds, <1>13 DEF SeekPayload, Skips, Begins, Quits, Return,
     Disposes, Disposing, Seek, Starts, Single
<1>14. CASE TestNext
  BY SkipKinds, <1>14 DEF TestNext, Skips, Begins, Quits, Disposes,
     Disposing, Starts
<1>15. CASE WalkEnds
  BY <1>15 DEF WalkEnds, Succeeds, Quits, Return, EndsCounting
<1>16. CASE RecoveryGate
  BY <1>16 DEF RecoveryGate, Succeeds, Quits, Turns, Rests, Return
<1>17. CASE RecoveryWalk
  BY <1>17 DEF RecoveryWalk
<1>18. CASE Block
  BY <1>18 DEF Block, Still, Rests
<1>19. CASE AskVolume
  BY <1>19 DEF AskVolume, Still, Rests
<1>20. CASE ExtractEnds
  BY CodeAnswers, <1>20 DEF ExtractEnds, Passes, Quits, Return, Released,
     Decoded, Decoding, Written
<1>21. CASE ExtractFileEnds
  BY CodeAnswers, <1>21 DEF ExtractFileEnds, HandsOut, Quits, Return,
     Released, Decoded, Decoding, Single
<1>22. CASE SinkEnds
  BY CodeAnswers, <1>22 DEF SinkEnds, HandsOut, Quits, Return, Released,
     Decoded, Decoding, Single
<1>23. CASE TestEnds
  BY CodeAnswers, <1>23 DEF TestEnds, Passes, Notes, Quits, Return,
     Released, Decoded, Decoding
<1>24. CASE Reenter
  BY <1>24 DEF Reenter, Still, Rests
<1>25. CASE Replace
  BY <1>25 DEF Replace, Still, Rests
<1>26. CASE LoseVolume
  BY <1>26 DEF LoseVolume, Still, Rests
<1>27. CASE OtherTakes
  BY <1>27 DEF OtherTakes, Still, Rests
<1>28. CASE OtherReturns
  BY <1>28 DEF OtherReturns, Still, Rests
<1>29. CASE UNCHANGED vars
  BY <1>29 DEF Still, Rests
<1>. QED
  BY <1>1, <1>2, <1>3, <1>4, <1>5, <1>6, <1>7, <1>8, <1>9, <1>10, <1>11, <1>12,
     <1>13, <1>14, <1>15, <1>16, <1>17, <1>18, <1>19, <1>20, <1>21, <1>22,
     <1>23, <1>24, <1>25, <1>26, <1>27, <1>28, <1>29 DEF Next, Walks, Decodings

-----------------------------------------------------------------------------
(* The course of a call.                                                   *)

\* What the world and the SDK do to the rest.
LEMMA WorldStep ==
  ASSUME Course, [Next]_vars
  PROVE  /\ disk' \in Files /\ left' \subseteq Nat
         /\ seen' \subseteq Ids /\ AtMostOne(seen')
         /\ decoded' \in Nat
         /\ UNCHANGED <<disk, left>> \/ Replace
         /\ UNCHANGED seen \/ Capture
<1> USE DEF vars, subject, walking, ctx, Course, Typed
<1>1. disk.id \in Ids /\ disk.id.inode \in Nat
  BY FileTyped
<1>2. UNCHANGED <<disk, left>> \/ Replace
    BY DEF Next, Walks, Decodings, Call, Released, Seek, Memo, GateRefuses,
         Revalidate, Capture, Open, Bind, ReadHeader, ListEntry, ListEnds,
         FoldPart, ExtractNext, SeekEntry, SeekPayload, TestNext, WalkEnds,
         RecoveryGate, RecoveryWalk, Block, AskVolume, ExtractEnds,
         ExtractFileEnds, SinkEnds, TestEnds, Reenter, LoseVolume,
         OtherTakes, OtherReturns
<1>3. disk' \in Files /\ left' \subseteq Nat
  BY <1>1, <1>2 DEF Replace
<1>4. UNCHANGED seen \/ Capture
    BY DEF Next, Walks, Decodings, Call, Released, Seek, Memo, GateRefuses,
         Revalidate, Open, Bind, ReadHeader, ListEntry, ListEnds,
         FoldPart, ExtractNext, SeekEntry, SeekPayload, TestNext, WalkEnds,
         RecoveryGate, RecoveryWalk, Block, AskVolume, ExtractEnds,
         ExtractFileEnds, SinkEnds, TestEnds, Reenter, Replace, LoseVolume,
         OtherTakes, OtherReturns
<1>5. seen' \subseteq Ids /\ AtMostOne(seen')
  BY <1>1, <1>4 DEF AtMostOne, Capture
<1>6. decoded' \in {decoded, 0, decoded + 1}
    BY DEF Next, Walks, Decodings, Call, Released, Seek, Starts, Stays,
         Memo, GateRefuses, Revalidate, Capture, Open, Bind, ReadHeader,
         ListEntry, ListEnds, FoldPart, ExtractNext, SeekEntry, SeekPayload,
         TestNext, WalkEnds, RecoveryGate, RecoveryWalk, Block, AskVolume,
         ExtractEnds, ExtractFileEnds, SinkEnds, TestEnds, Reenter, Replace,
         LoseVolume, OtherTakes, OtherReturns
<1>. QED
  BY <1>2, <1>3, <1>4, <1>5, <1>6

\* One step of a walk leaves the handle, the memo and the reports typed.
LEMMA TypedStep ==
  ASSUME Course, [Next]_vars
  PROVE  Typed'
<1> USE DEF Course
<1>1. Kind
  BY StepKinds
<1>2. /\ UNCHANGED identity
      /\ UNCHANGED listing \/ listing' = {entries}
      /\ UNCHANGED call \/ call' \in Calls
      /\ idx' \in {idx, idx + 1, 0}
  BY <1>1 DEF Kind, Keeps, Still, Rests, Call, Turns, Opens, Binds, Reads,
       Exhausts, Collects, Skips, Begins, Passes, Notes, HandsOut, Succeeds,
       Quits, ListEnds, RecoveryWalk, subject, walking
<1>3. phase \in {"dispose", "decoding"} =>
        /\ fresh.file \in Files /\ fresh.cur \in DOMAIN fresh.file.headers
        /\ Header \in Headers /\ Header.name \in STRING
        /\ EntryOf(Header) \in Records
  BY FileTyped, EntryTyped DEF Positioned, Looking, Header, HeaderOf
<1>4. fresh' \in Handles
  <2>1. CASE fresh' = fresh \/ Closed \/ fresh' = NoHandle
    <3>1. fresh \in Handles /\ NoHandle \in Handles
      BY DEF Typed, Handles, NoHandle
    <3>2. [fresh EXCEPT !.pos = 0, !.cur = 0] \in Handles
      BY <3>1 DEF Handles
    <3>. QED
      BY <2>1, <3>1, <3>2 DEF Closed
  <2>2. CASE Opens
    BY <2>2 DEF Opens, Handles, Typed
  <2>3. CASE Reads
    BY <2>3 DEF Reads, Handles, Typed
  <2>4. CASE Collects \/ Skips \/ Passes \/ Notes
    BY <1>3, <2>4, Moves DEF Collects, Skips, Passes, Notes, Typed
  <2>. QED
    BY <1>1, <2>1, <2>2, <2>3, <2>4 DEF Kind, Still, Rests, Call, Turns, Binds,
       Exhausts, Begins, HandsOut, Succeeds, Quits, ListEnds, RecoveryWalk,
       Return, Closed, walking
<1>5. entries' \in Seq(Records)
  <2>1. CASE UNCHANGED entries \/ entries' = <<>>
    <3>1. entries \in Seq(Records) /\ <<>> \in Seq(Records)
      BY DEF Typed
    <3>. QED
      BY <2>1, <3>1
  <2>2. CASE phase = "dispose" /\ entries' = Append(entries, EntryOf(Header))
    BY <1>3, <2>2 DEF Typed
  <2>. QED
    BY <1>1, <2>1, <2>2 DEF Kind, Keeps, Still, Rests, Call, Turns, Opens,
       Binds, Reads, Exhausts, Collects, Skips, Begins, Passes, Notes,
       HandsOut, Succeeds, Quits, ListEnds, RecoveryWalk, walking
<1>6. failed' \in Seq(STRING)
  <2>1. CASE UNCHANGED failed
    BY <2>1 DEF Typed
  <2>2. CASE phase = "decoding" /\ failed' = Append(failed, Header.name)
    BY <1>3, <2>2 DEF Typed
  <2>. QED
    BY <1>1, <2>1, <2>2 DEF Kind, Keeps, Still, Rests, Call, Turns, Opens,
       Binds, Reads, Exhausts, Collects, Skips, Begins, Passes, Notes,
       HandsOut, Succeeds, Quits, ListEnds, RecoveryWalk, outcome
<1>7. installed' \in Seq(Pieces)
  <2>1. CASE UNCHANGED installed
    BY <2>1 DEF Typed
  <2>2. CASE phase = "decoding" /\ Written(decoded)
    <3>1. [id |-> idx, name |-> Header.name, units |-> decoded,
           from |-> fresh.file] \in Pieces
      BY <1>3, <2>2 DEF Typed, Pieces
    <3>. QED
      BY <2>2, <3>1 DEF Typed, Written
  <2>3. CASE RecoveryWalk
    <3> DEFINE piece == [id |-> 0, name |-> "raw", units |-> 0, from |-> disk]
    <3>1. disk \in Files
      BY DEF Typed
    <3>2. piece \in Pieces
      BY <3>1 DEF Pieces
    <3>3. installed' = <<piece>>
      BY <2>3 DEF RecoveryWalk
    <3> HIDE DEF piece
    <3>. QED
      BY <3>2, <3>3
  <2>. QED
    BY <1>1, <2>1, <2>2, <2>3 DEF Kind, Keeps, Still, Rests, Call, Turns,
       Opens, Binds, Reads, Exhausts, Collects, Skips, Begins, Passes, Notes,
       HandsOut, Succeeds, Quits, ListEnds, outcome
<1>8. listing' \subseteq Seq(Records) /\ AtMostOne(listing')
      /\ call' \in Calls \union {NoCall} /\ idx' \in Nat
      /\ identity' \subseteq Ids /\ AtMostOne(identity')
  BY <1>2 DEF Typed, AtMostOne
<1>. QED
  BY <1>4, <1>5, <1>6, <1>7, <1>8, WorldStep DEF Typed

\* ... in place ...
LEMMA PositionedStep ==
  ASSUME Course, [Next]_vars
  PROVE  Positioned'
<1> USE DEF Course
<1>1. Kind
  BY StepKinds
<1>2. phase \in {"dispose", "decoding"} =>
        /\ fresh \in Handles /\ fresh.file \in Files
        /\ fresh.cur \in DOMAIN fresh.file.headers
        /\ fresh.cur \in Nat /\ fresh.cur >= 1
  BY FileTyped DEF Positioned, Looking, Typed
<1>3. ASSUME Still \/ Turns \/ Call \/ HandsOut \/ Succeeds \/ Quits
                \/ ListEnds \/ RecoveryWalk
      PROVE  Positioned'
  <2>1. (phase' \notin Looking /\ phase' # "opened")
          \/ (phase' = phase /\ fresh' = fresh)
    <3>1. CASE Still
      BY <3>1 DEF Still, Rests
    <3>2. CASE Call
      BY <3>2 DEF Call, Looking
    <3>3. CASE Turns \/ HandsOut \/ Succeeds \/ Quits
      <4>1. phase' \in {"capture", "open", "recovering", "done"}
        BY <3>3 DEF Turns, Capture, HandsOut, Succeeds, Quits
      <4>. QED
        BY <4>1 DEF Looking
    <3>4. CASE ListEnds \/ RecoveryWalk
      <4>1. phase' \in {"check", "done"}
        BY <3>4 DEF ListEnds, RecoveryWalk, Return
      <4>. QED
        BY <4>1 DEF Looking
    <3>. QED
      BY <1>3, <3>1, <3>2, <3>3, <3>4
  <2>. QED
    BY <2>1 DEF Positioned, Looking
<1>4. CASE Opens
  BY <1>4 DEF Opens, Positioned, Looking, Typed
<1>5. CASE Binds
  BY <1>5 DEF Binds, Positioned, Looking
<1>6. CASE Reads
  <2>1. /\ fresh.file \in Files /\ fresh.pos \in Nat /\ fresh.pos >= 1
        /\ fresh \in Handles
    BY <1>6 DEF Reads, Positioned, Looking, Typed, Handles
  <2>2. fresh.pos \in DOMAIN fresh.file.headers
    BY <1>6, <2>1, FileTyped DEF Reads
  <2>3. fresh'.file = fresh.file /\ fresh'.pos = fresh.pos
        /\ fresh'.cur = fresh.pos
    BY <1>6, <2>1 DEF Reads, Handles
  <2>. QED
    BY <1>6, <2>1, <2>2, <2>3 DEF Reads, Positioned, Looking
<1>7. CASE Exhausts
  BY <1>7 DEF Exhausts, Rests, Positioned, Looking
<1>8. CASE Begins
  BY <1>8 DEF Begins, Positioned, Looking
<1>9. CASE Collects \/ Skips \/ Passes \/ Notes
  <2>1. phase' = "header" /\ phase \in {"dispose", "decoding"}
        /\ fresh' \in {SkipTo(fresh), Passed, SkipTo(Passed)}
    BY <1>9 DEF Collects, Skips, Passes, Notes
  <2>2. /\ SkipTo(fresh).file = fresh.file
        /\ SkipTo(fresh).pos = fresh.cur + 1
        /\ Passed \in Handles /\ Passed.file = fresh.file
        /\ Passed.pos > fresh.cur
        /\ SkipTo(Passed).file = fresh.file /\ SkipTo(Passed).pos >= 1
    BY <1>2, <2>1, Moves
  <2>3. fresh.cur + 1 >= 1 /\ Passed.pos >= 1
    BY <1>2, <2>1, <2>2 DEF Handles
  <2>4. fresh'.file = fresh.file /\ fresh'.pos >= 1
    BY <2>1, <2>2, <2>3
  <2>. QED
    BY <1>2, <2>1, <2>4 DEF Positioned, Looking
<1>. QED
  BY <1>1, <1>3, <1>4, <1>5, <1>6, <1>7, <1>8, <1>9 DEF Kind

\* ... and about the call it is for.
LEMMA UnderwayStep ==
  ASSUME Course, [Next]_vars
  PROVE  Underway'
<1> USE DEF Course, Early, Looking, Underway, Keeps
<1>1. Kind
  BY StepKinds
<1>2. CASE Still
  BY <1>2 DEF Still, Rests
<1>3. CASE Call
  BY <1>3, CallAssumption DEF Call, outcome, walking, NoCall, Listed
<1>4. CASE Turns
  BY <1>4 DEF Turns, Rests, Capture
<1>5. CASE Opens \/ Binds \/ Reads \/ Exhausts
  BY <1>5 DEF Opens, Binds, Reads, Exhausts, Rests
<1>6. CASE Collects \/ Skips
  BY <1>6 DEF Collects, Skips
<1>7. CASE Begins
  BY <1>7 DEF Begins, Single
<1>8. CASE Passes \/ Notes \/ HandsOut
  BY <1>8 DEF Passes, Notes, HandsOut, Listed
<1>9. CASE Succeeds \/ Quits
  BY <1>9 DEF Succeeds, Quits
<1>10. CASE ListEnds
  BY <1>10 DEF ListEnds, Return, walking, outcome, Listed
<1>11. CASE RecoveryWalk
  BY <1>11 DEF RecoveryWalk, Return, Listed
<1>. QED
  BY <1>1, <1>2, <1>3, <1>4, <1>5, <1>6, <1>7, <1>8, <1>9, <1>10, <1>11
     DEF Kind

\* At most one element.
LEMMA FewElements ==
  ASSUME NEW S, AtMostOne(S)
  PROVE  IsFiniteSet(S) /\ Cardinality(S) <= 1
<1>1. S = {} \/ \E x : S = {x}
  BY DEF AtMostOne
<1>. QED
  BY <1>1, FS_EmptySet, FS_Singleton

LEMMA TypeOKStep ==
  ASSUME Course, [Next]_vars
  PROVE  TypeOK'
<1> USE DEF vars, walking, ctx, guard, global, Course
<1>1. Cardinality(listing') <= 1
  BY TypedStep, FewElements DEF Typed
<1>2. phase' \in {"idle", "memo", "check", "capture", "open", "opened",
                  "header", "dispose", "decoding", "end", "recovery",
                  "recovering", "done"}
    BY DEF TypeOK, Next, Walks, Decodings, Call, Released, Return, Skip,
         Seek, Starts, Stays, Memo, GateRefuses, Revalidate, Capture, Open,
         Bind, ReadHeader, ListEntry, ListEnds, FoldPart, ExtractNext,
         SeekEntry, SeekPayload, TestNext, WalkEnds, RecoveryGate,
         RecoveryWalk, Block, AskVolume, ExtractEnds, ExtractFileEnds,
         SinkEnds, TestEnds, Reenter, Replace, LoseVolume, OtherTakes,
         OtherReturns, Disposing, Disposes, Decoded, Decoding, Running
<1>5. \/ /\ UNCHANGED <<lock, in_unrar>>
         /\ phase \in {"open", "opened", "decoding"}
              <=> phase' \in {"open", "opened", "decoding"}
      \/ /\ lock' = "mine" /\ in_unrar' = TRUE
         /\ phase' \in {"open", "opened", "decoding"}
      \/ /\ lock' = "free" /\ in_unrar' = FALSE
         /\ phase' \notin {"open", "opened", "decoding"}
      \/ /\ UNCHANGED <<phase, in_unrar>>
         /\ lock \in {"free", "other"} /\ lock' \in {"free", "other"}
    BY DEF TypeOK, Next, Walks, Decodings, Call, Released, Return, Skip,
         Seek, Starts, Stays, Memo, GateRefuses, Revalidate, Capture, Open,
         Bind, ReadHeader, ListEntry, ListEnds, FoldPart, ExtractNext,
         SeekEntry, SeekPayload, TestNext, WalkEnds, RecoveryGate,
         RecoveryWalk, Block, AskVolume, ExtractEnds, ExtractFileEnds,
         SinkEnds, TestEnds, Reenter, Replace, LoseVolume, OtherTakes,
         OtherReturns, Disposing, Disposes, Decoded, Decoding, Running
<1>6. lock' \in {"free", "mine", "other"}
  BY <1>5 DEF TypeOK
<1>7. (lock' = "mine") = (phase' \in {"open", "opened", "decoding"})
  BY <1>5 DEF TypeOK
<1>8. in_unrar' = (lock' = "mine")
  BY <1>5 DEF TypeOK
<1>3. /\ registered' \in {"none", "handle", "extract"}
      /\ registered' = "extract" => phase' = "decoding"
      /\ abort' \in {"none", "blocked", "cancelled", "missing_volume"}
    BY DEF TypeOK, Next, Walks, Decodings, Call, Released, Return, Skip,
         Seek, Starts, Stays, Memo, GateRefuses, Revalidate, Capture, Open,
         Bind, ReadHeader, ListEntry, ListEnds, FoldPart, ExtractNext,
         SeekEntry, SeekPayload, TestNext, WalkEnds, RecoveryGate,
         RecoveryWalk, Block, AskVolume, ExtractEnds, ExtractFileEnds,
         SinkEnds, TestEnds, Reenter, Replace, LoseVolume, OtherTakes,
         OtherReturns, Disposing, Disposes, Decoded, Decoding, Running
<1>4. phase' = "done" <=> result' # "none"
  BY StepKinds DEF TypeOK, Kind, Still, Rests, Call, Turns, Opens, Binds,
     Reads, Exhausts, Collects, Skips, Begins, Passes, Notes, HandsOut,
     Succeeds, Quits, ListEnds, RecoveryWalk, Return, Capture
<1>. QED
  BY <1>1, <1>2, <1>3, <1>4, <1>6, <1>7, <1>8 DEF TypeOK

\* The course holds from the start.
LEMMA CourseHolds == Spec => []Course
<1>1. Init => Course
  <2> SUFFICES ASSUME Init PROVE Course
    OBVIOUS
  <2>1. disk.id \in Ids
    BY FileTyped DEF Init
  <2>2. NoHandle \in Handles
    BY DEF NoHandle, Handles
  <2>3. Typed
    BY <2>1, <2>2 DEF Init, Typed, AtMostOne
  <2>4. Positioned /\ Underway
    BY DEF Init, Positioned, Underway, Looking, Early, NoCall
  <2>5. Cardinality({}) <= 1
    BY FS_EmptySet
  <2>6. in_unrar = (lock = "mine")
    BY DEF Init
  <2>7. TypeOK
    BY <2>5, <2>6 DEF Init, TypeOK
  <2>. QED
    BY <2>3, <2>4, <2>7 DEF Course
<1>2. Course /\ [Next]_vars => Course'
  BY TypedStep, PositionedStep, UnderwayStep, TypeOKStep DEF Course
<1>. QED
  BY <1>1, <1>2, PTL DEF Spec

-----------------------------------------------------------------------------
(* The file behind the handle.  The inode is looked at around the native    *)
(* open, and what was replaced in between does not come back; so the file   *)
(* that was opened is the one that was looked at, whatever is at the path   *)
(* later.                                                                   *)

OfTheBound(f) == \A e \in identity : f.id.inode = e.inode

\* A walk came to its end with nothing to complain about.
Completed ==
    phase = "done" /\ result = "ok" /\ call.op \in {"extract_all", "integrity"}

Opened ==
    /\ disk.id.inode \notin left
    /\ phase \in {"open", "opened"} =>
         /\ seen # {}
         /\ \A s \in seen : disk.id.inode = s.inode \/ s.inode \in left
    /\ phase = "opened" =>
         \A s \in seen : fresh.file.id.inode = s.inode \/ s.inode \in left
    /\ phase \in Looking \/ Completed =>
         fresh.file \in Files /\ OfTheBound(fresh.file)

LEMMA OpenedStep ==
  ASSUME Course, Opened, [Next]_vars
  PROVE  Opened'
<1> USE DEF Opened, Keeps, Looking
<1>1. Kind /\ UNCHANGED identity
  BY StepKinds DEF Kind, Still, Call, Turns, Opens, Binds, Reads, Exhausts,
     Collects, Skips, Begins, Passes, Notes, HandsOut, Succeeds, Quits,
     ListEnds, RecoveryWalk, subject
<1>2. CASE Replace
  <2>1. /\ UNCHANGED <<phase, seen, fresh>>
        /\ UNCHANGED <<result, call>>
        /\ disk'.id.inode \notin left
        /\ left' = IF disk'.id.inode = disk.id.inode THEN left
                   ELSE left \union {disk.id.inode}
    BY <1>2 DEF Replace, walking
  <2>. QED
    BY <1>1, <2>1 DEF OfTheBound, Completed
<1>3. CASE Capture
  BY <1>1, <1>3 DEF Capture, subject, Completed
<1>4. CASE UNCHANGED <<disk, left, seen>>
  <2>1. CASE Still
    BY <1>1, <1>4, <2>1 DEF Still, Rests, OfTheBound, Completed
  <2>2. CASE Call
    BY <1>4, <2>2 DEF Call, Completed
  <2>3. CASE Turns
    BY <1>3, <1>4, <2>3 DEF Turns, Rests, OfTheBound, Completed
  <2>4. CASE Opens
    BY <1>4, <2>4 DEF Opens, Completed
  <2>5. CASE Binds
    <3>1. fresh.file \in Files /\ phase = "opened"
      BY <2>5 DEF Binds, Course, Positioned
    <3>2. OfTheBound(fresh.file)
      <4> SUFFICES ASSUME NEW e \in identity
                   PROVE  fresh.file.id.inode = e.inode
        BY DEF OfTheBound
      <4>1. PICK s \in seen : s = e
        BY <2>5 DEF Binds, StillBound
      <4>. QED
        BY <2>5, <3>1, <4>1 DEF Binds
    <3>. QED
      BY <1>1, <1>4, <2>5, <3>1, <3>2 DEF Binds, OfTheBound, Completed
  <2>6. CASE Reads
    <3>1. fresh'.file = fresh.file
      BY <2>6 DEF Reads, Course, Typed, Handles
    <3>. QED
      BY <1>1, <1>4, <2>6, <3>1 DEF Reads, OfTheBound, Completed
  <2>7. CASE Exhausts \/ Begins
    BY <1>1, <1>4, <2>7 DEF Exhausts, Begins, Rests, OfTheBound, Completed
  <2>8. CASE Collects \/ Skips \/ Passes \/ Notes
    <3>1. phase \in {"dispose", "decoding"}
          /\ fresh' \in {SkipTo(fresh), Passed, SkipTo(Passed)}
      BY <2>8 DEF Collects, Skips, Passes, Notes
    <3>2. fresh'.file = fresh.file
      BY <3>1, Moves DEF Course, Typed, Positioned
    <3>3. phase' = "header" /\ result' = result
      BY <2>8 DEF Collects, Skips, Passes, Notes
    <3>. QED
      BY <1>1, <1>4, <3>1, <3>2, <3>3 DEF OfTheBound, Completed
  <2>9. CASE HandsOut \/ Quits
    BY <1>4, <2>9 DEF HandsOut, Quits, Completed, Single
  <2>10. CASE Succeeds
    <3>1. fresh'.file = fresh.file /\ phase' = "done"
      BY <2>10 DEF Succeeds, Closed, Course, Typed, Handles
    <3>2. CASE phase = "end"
      BY <1>1, <1>4, <2>10, <3>1, <3>2 DEF OfTheBound, Completed
    <3>3. CASE phase \in {"memo", "recovery"}
      BY <1>4, <2>10, <3>3 DEF Succeeds, Completed, Course, Underway
    <3>. QED
      BY <2>10, <3>2, <3>3 DEF Succeeds
  <2>11. CASE ListEnds \/ RecoveryWalk
    BY <1>4, <2>11 DEF ListEnds, RecoveryWalk, Return, Completed, Course,
       Underway, Listed
  <2>. QED
    BY <1>1, <2>1, <2>2, <2>3, <2>4, <2>5, <2>6, <2>7, <2>8, <2>9, <2>10,
       <2>11 DEF Kind
<1>. QED
  BY <1>2, <1>3, <1>4, WorldStep

-----------------------------------------------------------------------------
(* What is handed out is the entry that was listed at its position.        *)

AsListed ==
    /\ phase = "decoding" /\ call.op # "integrity" => Named(idx)
    /\ WhatWasListed

\* One more piece, of the entry that is being decoded.
LEMMA OneMorePiece ==
  ASSUME Course, Opened, AsListed, phase = "decoding",
         call.op # "integrity", Written(decoded),
         UNCHANGED <<identity, listing, call>>
  PROVE  WhatWasListed'
<1> DEFINE piece == [id |-> idx, name |-> Header.name, units |-> decoded,
                     from |-> fresh.file]
           n == Len(installed)
<1>1. /\ installed' = Append(installed, piece) /\ n \in Nat
      /\ DOMAIN installed = 1..n /\ DOMAIN installed' = 1..(n + 1)
      /\ \A i \in 1..n : installed'[i] = installed[i]
      /\ installed'[n + 1] = piece
  BY DEF Written, Course, Typed
<1>2. /\ idx \in DOMAIN List /\ List[idx].name = Header.name
      /\ \A e \in identity : fresh.file.id.inode = e.inode
  BY DEF AsListed, Named, Opened, OfTheBound, Looking
<1>3. piece.id = idx /\ piece.name = Header.name /\ piece.from = fresh.file
  OBVIOUS
<1>4. List' = List
  BY DEF List
<1>5. \A i \in 1..n : call.op # "recovery" =>
        /\ installed[i].id \in DOMAIN List
        /\ List[installed[i].id].name = installed[i].name
        /\ \A e \in identity : installed[i].from.id.inode = e.inode
  BY <1>1 DEF AsListed, WhatWasListed
<1> HIDE DEF piece
<1>6. \A i \in 1..(n + 1) : i \in 1..n \/ i = n + 1
  BY <1>1
<1>. QED
  BY <1>1, <1>2, <1>3, <1>4, <1>5, <1>6 DEF WhatWasListed

LEMMA AsListedStep ==
  ASSUME Course, Opened, AsListed, [Next]_vars
  PROVE  AsListed'
<1> USE DEF AsListed, Keeps
<1>1. Kind
  BY StepKinds
<1>2. CASE UNCHANGED <<identity, listing, call, installed>>
  <2>1. UNCHANGED List
    BY <1>2 DEF List
  <2>2. WhatWasListed'
    BY <1>2, <2>1 DEF WhatWasListed
  <2>3. CASE Still
    BY <1>2, <2>1, <2>2, <2>3 DEF Still, Rests, Named, Header, HeaderOf
  <2>4. CASE Begins
    BY <1>2, <2>1, <2>2, <2>4 DEF Begins, Named, Header, HeaderOf
  <2>5. CASE phase' # "decoding"
    BY <2>2, <2>5
  <2>. QED
    BY <1>1, <2>3, <2>4, <2>5 DEF Kind, Call, Turns, Capture, Opens, Binds,
       Reads, Exhausts, Collects, Skips, Passes, Notes, HandsOut, Succeeds,
       Quits, ListEnds, RecoveryWalk, Return
<1>3. CASE phase = "decoding" /\ call.op # "integrity" /\ Written(decoded)
             /\ UNCHANGED <<identity, listing, call>> /\ phase' # "decoding"
  BY <1>3, OneMorePiece
<1>4. CASE Call \/ ListEnds
  <2>1. installed' = <<>> /\ phase' # "decoding"
    BY <1>4 DEF Call, ListEnds, Return, outcome, Course, Underway, Early
  <2>. QED
    BY <2>1 DEF WhatWasListed
<1>5. CASE RecoveryWalk
  <2>1. call'.op = "recovery" /\ phase' # "decoding"
    BY <1>5 DEF RecoveryWalk, Return, Course, Underway
  <2>. QED
    BY <2>1 DEF WhatWasListed
<1>. QED
  BY <1>1, <1>2, <1>3, <1>4, <1>5 DEF Kind, Still, Rests, Turns, Opens, Binds,
     Reads, Exhausts, Collects, Skips, Begins, Passes, Notes, HandsOut,
     Succeeds, Quits, Single

-----------------------------------------------------------------------------
(* The limits.  A decode under a cap stops at the block that would exceed   *)
(* it, and what is left for the archive is its limit less what was written. *)

Amounts(s) == [i \in DOMAIN s |-> s[i].units]
Total(s) == SumOver(Amounts(s), DOMAIN s)

\* What was written in all, and one piece more.
LEMMA TotalGrows ==
  /\ Total(<<>>) = 0
  /\ \A s \in Seq(Pieces) :
       /\ Total(s) \in Nat
       /\ \A p \in Pieces : Total(Append(s, p)) = Total(s) + p.units
<1>1. Total(<<>>) = 0
  BY SumEmpty DEF Total
<1>2. ASSUME NEW s \in Seq(Pieces)
      PROVE  /\ Total(s) \in Nat
             /\ \A p \in Pieces : Total(Append(s, p)) = Total(s) + p.units
  <2> DEFINE n == Len(s)
             a == Amounts(s)
  <2>1. n \in Nat /\ DOMAIN s = 1..n
    OBVIOUS
  <2>2. \A i \in 1..n : a[i] \in Nat
    <3>1. \A i \in 1..n : s[i] \in Pieces
      BY <2>1
    <3>. QED
      BY <2>1, <3>1 DEF Amounts, Pieces
  <2>3. IsFiniteSet(1..n) /\ n + 1 \notin 1..n
    BY <2>1, UpTo
  <2>4. Total(s) = SumOver(a, 1..n)
    BY <2>1 DEF Total
  <2>5. Total(s) \in Nat
    <3> HIDE DEF a
    <3>. QED
      BY <2>2, <2>3, <2>4, SumIsNat
  <2>6. ASSUME NEW p \in Pieces
        PROVE  Total(Append(s, p)) = Total(s) + p.units
    <3> DEFINE b == Amounts(Append(s, p))
    <3>1. DOMAIN Append(s, p) = (1..n) \union {n + 1}
      BY <2>1
    <3>2. /\ \A i \in 1..n : b[i] = a[i]
          /\ b[n + 1] = p.units
      BY <2>1 DEF Amounts
    <3>3. p.units \in Nat
      BY DEF Pieces
    <3>4. \A i \in (1..n) \union {n + 1} : b[i] \in Int
      BY <2>2, <3>2, <3>3
    <3>5. Total(Append(s, p)) = SumOver(b, (1..n) \union {n + 1})
      BY <3>1 DEF Total
    <3> HIDE DEF a, b
    <3>6. SumOver(b, (1..n) \union {n + 1}) = b[n + 1] + SumOver(b, 1..n)
      BY <2>3, <3>4, SumPutsIn
    <3>7. SumOver(b, 1..n) = SumOver(a, 1..n)
      BY <2>2, <2>3, <3>2, SumSame
    <3>8. SumOver(a, 1..n) \in Nat
      BY <2>4, <2>5
    <3>. QED
      BY <2>4, <3>2, <3>3, <3>5, <3>6, <3>7, <3>8
  <2>. QED
    BY <2>5, <2>6
<1>. QED
  BY <1>1, <1>2

\* The least of two limits is within both.
LEMMA LeastIsWithin ==
  ASSUME NEW a \in SUBSET Nat, NEW b \in SUBSET Nat
  PROVE  /\ LeastOf(a, b) \subseteq Nat
         /\ \A d \in Nat : (\A c \in LeastOf(a, b) : d <= c) =>
              \A c \in a \union b : d <= c
<1>1. CASE a \union b = {}
  BY <1>1 DEF LeastOf
<1>2. CASE a \union b # {}
  <2> DEFINE u == a \union b
  <2>1. u \in SUBSET Nat /\ u # {}
    BY <1>2
  <2>2. LeastOf(a, b) = {Min(u)}
    BY <1>2 DEF LeastOf
  <2> HIDE DEF u
  <2>3. \E m \in u : \A y \in u : m <= y
    BY <2>1, HasLeast
  <2>4. Min(u) \in u /\ \A y \in u : Min(u) <= y
    BY <2>3 DEF Min
  <2>5. Min(u) \in Nat
    BY <2>1, <2>4
  <2>6. \A d \in Nat : d <= Min(u) => \A y \in u : d <= y
    BY <2>1, <2>4, <2>5
  <2>. QED
    BY <2>2, <2>5, <2>6 DEF u
<1>. QED
  BY <1>1, <1>2

\* A decode with a callback stops at its cap, one without has none.
Capped ==
    /\ call.op = "extract_all" =>
         /\ total_remaining = {t - Total(installed) : t \in call.total}
         /\ \A t \in call.total : Total(installed) <= t
    /\ phase = "decoding" =>
         /\ Header.kind # "file" => decoded = 0
         /\ registered = "extract" =>
              /\ entry_cap \subseteq Nat
              /\ abort = "none" => \A c \in entry_cap : decoded <= c
              /\ call.op = "extract_all" =>
                   entry_cap = LeastOf(call.cap, total_remaining)
              /\ call.op \in {"extract_file", "memory"} =>
                   entry_cap = call.cap
         /\ registered = "handle" =>
              /\ call.op = "extract_all" => Header.kind # "file"
              /\ call.op \in {"extract_file", "memory"} => call.cap = {}
    /\ call.op \in {"extract_all", "extract_file", "memory"} =>
         \A i \in DOMAIN installed, c \in call.cap : installed[i].units <= c

\* The limits are numbers.
LEMMA LimitsTyped ==
  ASSUME Course, Capped
  PROVE  /\ call.op \in {"extract_all", "extract_file", "memory"} =>
              call.cap \subseteq Nat
         /\ call.op = "extract_all" =>
              call.total \subseteq Nat /\ total_remaining \subseteq Nat
         /\ Total(installed) \in Nat
<1>1. /\ call.op \in {"extract_all", "extract_file", "memory"} =>
           call.cap \subseteq Nat
      /\ call.op = "extract_all" => call.total \subseteq Nat
  BY CallAssumption DEF Course, Typed, NoCall, Option
<1>2. Total(installed) \in Nat
  BY TotalGrows DEF Course, Typed
<1>3. call.op = "extract_all" =>
        \A t \in call.total : t - Total(installed) \in Nat
  BY <1>1, <1>2 DEF Capped
<1>. QED
  BY <1>1, <1>2, <1>3 DEF Capped

\* What a decode that went well may be written as.
LEMMA DecodedWithin ==
  ASSUME Course, Capped, phase = "decoding", Code = "success",
         call.op \in {"extract_all", "extract_file", "memory"}
  PROVE  /\ call.op = "extract_all" =>
              \A r \in total_remaining : decoded <= r
         /\ \A c \in call.cap : decoded <= c
<1>1. abort = "none" /\ registered \in {"handle", "extract"}
  BY DEF Code, Course, Underway
<1>2. /\ call.cap \in SUBSET Nat /\ decoded \in Nat
      /\ call.op = "extract_all" => total_remaining \in SUBSET Nat
  BY LimitsTyped DEF Course, Typed
<1>3. CASE registered = "handle"
  BY <1>2, <1>3 DEF Capped
<1>4. CASE registered = "extract" /\ call.op = "extract_all"
  <2>1. \A c \in LeastOf(call.cap, total_remaining) : decoded <= c
    BY <1>1, <1>4 DEF Capped
  <2>2. \A c \in call.cap \union total_remaining : decoded <= c
    BY <1>2, <1>4, <2>1, LeastIsWithin
  <2>. QED
    BY <1>4, <2>2 DEF Capped
<1>5. CASE registered = "extract" /\ call.op # "extract_all"
  BY <1>1, <1>5 DEF Capped
<1>. QED
  BY <1>1, <1>3, <1>4, <1>5

\* What a step is to the limits.
Apart == phase' # "decoding" /\ UNCHANGED <<call, installed, total_remaining>>

Launches(op, cap, callback) ==
    /\ phase' = "decoding" /\ call.op = op
    /\ UNCHANGED <<call, installed, total_remaining, fresh>>
    /\ decoded' = 0 /\ abort' = "none"
    /\ entry_cap' = cap /\ registered' = callback

LEMMA LimitSteps ==
  ASSUME Course, [Next]_vars
  PROVE  \/ Apart \/ Call \/ Block \/ RecoveryWalk
         \/ /\ UNCHANGED <<call, installed, total_remaining, phase, fresh,
                           decoded, entry_cap, registered>>
            /\ abort' \in {abort, "missing_volume"}
         \/ Launches("extract_all", LeastOf(call.cap, total_remaining),
                     "extract")
         \/ Launches("extract_all", {}, "handle") /\ Header.kind # "file"
         \/ /\ call.op \in {"extract_file", "memory"}
            /\ Launches(call.op, call.cap, IF call.cap # {} THEN "extract"
                                           ELSE "handle")
         \/ Launches("sink", {}, "extract")
         \/ Launches("integrity", {}, "handle")
         \/ /\ phase = "decoding" /\ phase' # "decoding" /\ UNCHANGED call
            /\ Written(decoded)
            /\ Code = "success" \/ call.op = "sink"
            /\ call.op = "extract_all" =>
                 total_remaining' =
                   {IF r > decoded THEN r - decoded ELSE 0 :
                      r \in total_remaining}
<1> USE DEF vars, subject, walking, ctx, outcome, guard, global
<1>1. CASE ExtractEnds \/ ExtractFileEnds \/ SinkEnds \/ TestEnds
  BY <1>1 DEF ExtractEnds, ExtractFileEnds, SinkEnds, TestEnds, Decoded,
     Decoding, Released, Return, Apart
<1>2. CASE ExtractNext
  BY <1>2 DEF ExtractNext, Disposes, Starts, Stays, Skip, Return, Apart,
     Launches
<1>3. CASE SeekEntry \/ SeekPayload
  BY <1>3 DEF SeekEntry, SeekPayload, Seek, Disposes, Starts, Stays, Skip,
     Return, Apart, Launches
<1>4. CASE TestNext
  BY <1>4 DEF TestNext, Disposes, Starts, Stays, Skip, Return, Apart, Launches
<1>5. CASE \/ Memo \/ GateRefuses \/ Revalidate \/ Capture \/ Open \/ Bind
           \/ ReadHeader \/ ListEntry \/ ListEnds \/ FoldPart \/ WalkEnds
           \/ RecoveryGate
  BY <1>5 DEF Memo, GateRefuses, Revalidate, Capture, Open, Bind, ReadHeader,
     ListEntry, ListEnds, FoldPart, WalkEnds, RecoveryGate, Disposing, Skip,
     Return, Apart
<1>6. CASE \/ AskVolume \/ Reenter \/ Replace \/ LoseVolume \/ OtherTakes
           \/ OtherReturns \/ UNCHANGED vars
  BY <1>6 DEF AskVolume, Reenter, Replace, LoseVolume, OtherTakes,
     OtherReturns
<1>. QED
  BY <1>1, <1>2, <1>3, <1>4, <1>5, <1>6 DEF Next, Walks, Decodings

LEMMA CappedStep ==
  ASSUME Course, Capped, [Next]_vars
  PROVE  Capped'
<1>1. CASE Apart
  BY <1>1 DEF Apart, Capped
<1>2. CASE Call
  <2>1. /\ installed' = <<>> /\ phase' # "decoding"
        /\ total_remaining' = Remaining(call') /\ call' \in Calls
    BY <1>2 DEF Call, outcome, Course, Underway
  <2>2. call'.op = "extract_all" => call'.total \subseteq Nat
    BY <2>1, CallAssumption DEF Option
  <2>3. \A t \in Nat : t - Total(installed') = t /\ Total(installed') <= t
    BY <2>1, TotalGrows
  <2>4. call'.op = "extract_all" =>
          /\ total_remaining' = {t - Total(installed') : t \in call'.total}
          /\ \A t \in call'.total : Total(installed') <= t
    BY <2>1, <2>2, <2>3 DEF Remaining
  <2>. QED
    BY <2>1, <2>4 DEF Capped
<1>3. CASE Block
  <2>1. /\ UNCHANGED <<call, installed, total_remaining, phase, fresh,
                       entry_cap, registered>>
        /\ phase = "decoding" /\ abort = "none"
        /\ decoded' = decoded + 1 /\ decoded < Reach
        /\ registered = "extract" /\ abort' = "none" =>
             \A c \in entry_cap : ~(decoded + 1 > c)
    BY <1>3 DEF Block, Running, Decoding, PastCap, walking, outcome
  <2>2. Header.kind = "file"
    BY <2>1 DEF Reach, Course, Typed
  <2>3. /\ decoded \in Nat
        /\ registered = "extract" => entry_cap \subseteq Nat
    BY <2>1 DEF Capped, Course, Typed
  <2>4. registered = "extract" /\ abort' = "none" =>
          \A c \in entry_cap : decoded + 1 <= c
    BY <2>1, <2>3
  <2>. QED
    BY <2>1, <2>2, <2>3, <2>4 DEF Capped, Header, HeaderOf
<1>4. CASE RecoveryWalk
  <2>1. call'.op = "recovery" /\ phase' # "decoding"
    BY <1>4 DEF RecoveryWalk, Return, Course, Underway
  <2>. QED
    BY <2>1 DEF Capped
<1>5. CASE /\ UNCHANGED <<call, installed, total_remaining, phase, fresh,
                          decoded, entry_cap, registered>>
           /\ abort' \in {abort, "missing_volume"}
  BY <1>5 DEF Capped, Header, HeaderOf
<1>6. ASSUME NEW cap \in SUBSET Nat, NEW callback,
             Launches(call.op, cap, callback),
             callback = "extract" =>
               /\ call.op = "extract_all" =>
                    cap = LeastOf(call.cap, total_remaining)
               /\ call.op \in {"extract_file", "memory"} => cap = call.cap,
             callback = "handle" =>
               /\ call.op = "extract_all" => Header.kind # "file"
               /\ call.op \in {"extract_file", "memory"} => call.cap = {}
      PROVE  Capped'
  <2>1. \A c \in cap : 0 <= c
    OBVIOUS
  <2>. QED
    BY <1>6, <2>1 DEF Launches, Capped, Header, HeaderOf
<1>7. call.op = "extract_all" => LeastOf(call.cap, total_remaining) \in SUBSET Nat
  BY LimitsTyped, LeastIsWithin
<1>8. ASSUME \/ Launches("extract_all", LeastOf(call.cap, total_remaining),
                         "extract")
             \/ Launches("extract_all", {}, "handle") /\ Header.kind # "file"
             \/ /\ call.op \in {"extract_file", "memory"}
                /\ Launches(call.op, call.cap, IF call.cap # {} THEN "extract"
                                               ELSE "handle")
             \/ Launches("sink", {}, "extract")
             \/ Launches("integrity", {}, "handle")
      PROVE  Capped'
  <2>1. CASE Launches("extract_all", LeastOf(call.cap, total_remaining),
                      "extract")
    <3>1. call.op = "extract_all"
      BY <2>1 DEF Launches
    <3>. QED
      BY <1>6, <1>7, <2>1, <3>1
  <2>2. CASE Launches("extract_all", {}, "handle") /\ Header.kind # "file"
    <3>1. call.op = "extract_all"
      BY <2>2 DEF Launches
    <3>. QED
      BY <1>6, <2>2, <3>1
  <2>3. CASE /\ call.op \in {"extract_file", "memory"}
             /\ Launches(call.op, call.cap, IF call.cap # {} THEN "extract"
                                            ELSE "handle")
    <3>1. call.cap \in SUBSET Nat
      BY <2>3, LimitsTyped
    <3>2. CASE call.cap = {}
      BY <1>6, <2>3, <3>1, <3>2
    <3>3. CASE call.cap # {}
      BY <1>6, <2>3, <3>1, <3>3
    <3>. QED
      BY <3>2, <3>3
  <2>4. CASE Launches("sink", {}, "extract")
    <3>1. call.op = "sink"
      BY <2>4 DEF Launches
    <3>. QED
      BY <1>6, <2>4, <3>1
  <2>5. CASE Launches("integrity", {}, "handle")
    <3>1. call.op = "integrity"
      BY <2>5 DEF Launches
    <3>. QED
      BY <1>6, <2>5, <3>1
  <2>. QED
    BY <1>8, <2>1, <2>2, <2>3, <2>4, <2>5
<1>9. CASE /\ phase = "decoding" /\ phase' # "decoding" /\ UNCHANGED call
           /\ Written(decoded)
           /\ Code = "success" \/ call.op = "sink"
           /\ call.op = "extract_all" =>
                total_remaining' =
                  {IF r > decoded THEN r - decoded ELSE 0 :
                     r \in total_remaining}
  <2> DEFINE piece == [id |-> idx, name |-> Header.name, units |-> decoded,
                       from |-> fresh.file]
             n == Len(installed)
  <2>1. /\ fresh.file \in Files /\ Header.name \in STRING
        /\ idx \in Nat /\ decoded \in Nat /\ installed \in Seq(Pieces)
    BY <1>9, FileTyped DEF Course, Typed, Positioned, Looking, Header, HeaderOf
  <2>2. piece \in Pieces /\ piece.units = decoded
    BY <2>1 DEF Pieces
  <2>3. installed' = Append(installed, piece)
    BY <1>9 DEF Written
  <2>4. /\ n \in Nat /\ DOMAIN installed = 1..n /\ DOMAIN installed' = 1..(n + 1)
        /\ \A i \in 1..n : installed'[i] = installed[i]
        /\ installed'[n + 1] = piece
    BY <2>1, <2>3
  <2> HIDE DEF piece
  <2>5. Total(installed') = Total(installed) + decoded /\ Total(installed) \in Nat
    BY <2>1, <2>2, <2>3, TotalGrows
  <2>6. ASSUME call.op \in {"extract_all", "extract_file", "memory"}
        PROVE  \A i \in DOMAIN installed', c \in call.cap :
                 installed'[i].units <= c
    <3>1. \A c \in call.cap : decoded <= c
      BY <1>9, <2>6, DecodedWithin
    <3>2. \A i \in 1..n, c \in call.cap : installed[i].units <= c
      BY <2>4, <2>6 DEF Capped
    <3>3. \A i \in 1..(n + 1) : i \in 1..n \/ i = n + 1
      BY <2>4
    <3>. QED
      BY <2>2, <2>4, <3>1, <3>2, <3>3
  <2>7. ASSUME call.op = "extract_all"
        PROVE  /\ total_remaining' = {t - Total(installed') : t \in call.total}
               /\ \A t \in call.total : Total(installed') <= t
    <3>1. /\ \A r \in total_remaining : decoded <= r
          /\ total_remaining = {t - Total(installed) : t \in call.total}
          /\ call.total \subseteq Nat /\ total_remaining \subseteq Nat
      BY <1>9, <2>7, DecodedWithin, LimitsTyped DEF Capped
    <3>2. \A r \in total_remaining :
            (IF r > decoded THEN r - decoded ELSE 0) = r - decoded
      BY <2>1, <3>1
    <3>3. \A t \in call.total :
            /\ decoded <= t - Total(installed)
            /\ (t - Total(installed)) - decoded = t - Total(installed')
      BY <2>1, <2>5, <3>1
    <3>4. total_remaining' = {r - decoded : r \in total_remaining}
      BY <1>9, <2>7, <3>2
    <3>5. total_remaining' = {(t - Total(installed)) - decoded : t \in call.total}
      BY <3>1, <3>4
    <3>6. total_remaining' = {t - Total(installed') : t \in call.total}
      BY <3>3, <3>5
    <3>7. \A t \in call.total : Total(installed') <= t
      BY <2>1, <2>5, <3>1, <3>3
    <3>. QED
      BY <3>6, <3>7
  <2>. QED
    BY <1>9, <2>6, <2>7 DEF Capped
<1>. QED
  BY <1>1, <1>2, <1>3, <1>4, <1>5, <1>8, <1>9, LimitSteps

\* Every conjunct of InstalledAsListed, from what the walk keeps.
LEMMA InstalledFollows ==
  ASSUME Course, AsListed, Capped
  PROVE  InstalledAsListed
<1>1. Total(installed) = SumOver([i \in DOMAIN installed |-> installed[i].units],
                                 DOMAIN installed)
  BY DEF Total, Amounts
<1>2. CapsHold
  BY <1>1 DEF Capped, CapsHold
<1>. QED
  BY <1>2 DEF Course, AsListed, InstalledAsListed

\* Whatever is installed or handed out has the name that the listing gave its
\* position, comes from a file with the inode the handle was bound to when
\* the archive was opened, and is within the limit of an entry and that of
\* the archive, whatever is put at the path meanwhile: for every set of
\* files, calls and any number of replacements.
THEOREM InstalledIsAsListed == Spec => []InstalledAsListed
<1>1. Init => Opened /\ AsListed /\ Capped
  BY FileTyped DEF Init, Opened, AsListed, Capped, WhatWasListed, Looking,
     Completed, NoCall
<1>2. Course /\ Opened /\ AsListed /\ Capped /\ [Next]_vars
        => Opened' /\ AsListed' /\ Capped'
  BY OpenedStep, AsListedStep, CappedStep
<1>3. Course /\ AsListed /\ Capped => InstalledAsListed
  BY InstalledFollows
<1>. QED
  BY <1>1, <1>2, <1>3, CourseHolds, PTL DEF Spec

-----------------------------------------------------------------------------
(* The walk over the raw blocks, and what it answers.                      *)

\* What a file of raw blocks is made of.
LEMMA RawTyped ==
  ASSUME NEW file \in RawFiles
  PROVE  LET n == Len(file.blocks) IN
         /\ file.rar5 \in BOOLEAN /\ file.length \in Nat
         /\ n \in Nat /\ DOMAIN file.blocks = 1..n
         /\ Signature(file) \in {7, 8} /\ Basic(file) \in {5, 7}
         /\ \A i \in 1..n :
              /\ file.blocks[i] \in Blocks
              /\ file.blocks[i].extra \in Nat /\ file.blocks[i].data \in Nat
              /\ file.blocks[i].sound \in BOOLEAN
              /\ file.blocks[i].percent \in Nat
              /\ Sizes(file)[i] \in Nat /\ Sizes(file)[i] >= Basic(file)
              /\ Sizes(file)[i] = Basic(file) + file.blocks[i].extra
                                    + file.blocks[i].data
         /\ 16 <= StartsAt(file, n + 1) /\ file.length <= StartsAt(file, n + 1)
<1> DEFINE n == Len(file.blocks)
<1>1. /\ file \in [rar5 : BOOLEAN, blocks : Seq(Blocks), length : Nat]
      /\ 16 <= StartsAt(file, n + 1) /\ file.length <= StartsAt(file, n + 1)
  BY DEF RawFiles
<1>2. /\ file.rar5 \in BOOLEAN /\ file.length \in Nat
      /\ n \in Nat /\ DOMAIN file.blocks = 1..n
      /\ \A i \in 1..n : file.blocks[i] \in Blocks
  BY <1>1
<1>3. Signature(file) \in {7, 8} /\ Basic(file) \in {5, 7}
  BY DEF Signature, Basic
<1>4. ASSUME NEW i \in 1..n
      PROVE  /\ file.blocks[i].extra \in Nat /\ file.blocks[i].data \in Nat
             /\ file.blocks[i].sound \in BOOLEAN
             /\ file.blocks[i].percent \in Nat
             /\ Sizes(file)[i] = Basic(file) + file.blocks[i].extra
                                   + file.blocks[i].data
  BY <1>2 DEF Blocks, Sizes
<1>5. ASSUME NEW i \in 1..n
      PROVE  Sizes(file)[i] \in Nat /\ Sizes(file)[i] >= Basic(file)
  <2>1. \A x, y, z \in Nat : x + y + z \in Nat /\ x + y + z >= x
    OBVIOUS
  <2>2. Basic(file) \in Nat
    BY <1>3
  <2>3. file.blocks[i].extra \in Nat /\ file.blocks[i].data \in Nat
    BY <1>4
  <2>4. /\ Basic(file) + file.blocks[i].extra + file.blocks[i].data \in Nat
        /\ Basic(file) + file.blocks[i].extra + file.blocks[i].data
             >= Basic(file)
    BY <2>1, <2>2, <2>3, Zenon
  <2>5. Sizes(file)[i] = Basic(file) + file.blocks[i].extra
                           + file.blocks[i].data
    BY <1>4
  <2>. QED
    BY <2>4, <2>5, Zenon
<1>. QED
  BY <1>1, <1>2, <1>3, <1>4, <1>5

\* A block starts where the one before it ends.
LEMMA StartsFollow ==
  ASSUME NEW file \in RawFiles
  PROVE  LET n == Len(file.blocks) IN
         /\ StartsAt(file, 1) = Signature(file)
         /\ \A i \in 1..(n + 1) : StartsAt(file, i) \in Nat
         /\ \A i \in 1..n :
              StartsAt(file, i + 1) = StartsAt(file, i) + Sizes(file)[i]
         /\ \A i \in 1..n, j \in 1..(n + 1) :
              i < j => StartsAt(file, i) < StartsAt(file, j)
<1> DEFINE n == Len(file.blocks)
           f == Sizes(file)
<1>1. /\ n \in Nat /\ Signature(file) \in Nat
      /\ \A i \in 1..n : f[i] \in Nat /\ f[i] > 0
  BY RawTyped
<1>2. \A i \in 1..(n + 1) : StartsAt(file, i) = Signature(file) + SumOver(f, 1..(i - 1))
  BY DEF StartsAt
<1> HIDE DEF f
<1>3. \A i \in 1..(n + 1) : SumOver(f, 1..(i - 1)) \in Nat
  <2> TAKE i \in 1..(n + 1)
  <2>1. i - 1 \in Nat /\ \A x \in 1..(i - 1) : f[x] \in Nat
    BY <1>1
  <2>2. IsFiniteSet(1..(i - 1))
    BY <2>1, UpTo
  <2>. QED
    BY <2>1, <2>2, SumIsNat
<1>4. StartsAt(file, 1) = Signature(file)
  <2>1. 1..(1 - 1) = {} /\ 1 \in 1..(n + 1)
    BY <1>1
  <2>. QED
    BY <1>1, <1>2, <2>1, SumEmpty
<1>5. ASSUME NEW i \in 1..n
      PROVE  StartsAt(file, i + 1) = StartsAt(file, i) + f[i]
  <2>1. /\ i - 1 \in Nat /\ i \notin 1..(i - 1) /\ (1..(i - 1)) \union {i} = 1..i
        /\ \A x \in (1..(i - 1)) \union {i} : f[x] \in Int
        /\ (i + 1) - 1 = i /\ i \in 1..(n + 1) /\ i + 1 \in 1..(n + 1)
    BY <1>1
  <2>2. SumOver(f, (1..(i - 1)) \union {i}) = f[i] + SumOver(f, 1..(i - 1))
    BY <2>1, UpTo, SumPutsIn
  <2>3. SumOver(f, 1..(i - 1)) \in Nat /\ f[i] \in Nat
    BY <1>1, <1>3, <2>1
  <2>4. /\ StartsAt(file, i + 1) = Signature(file) + SumOver(f, 1..i)
        /\ StartsAt(file, i) = Signature(file) + SumOver(f, 1..(i - 1))
        /\ SumOver(f, 1..i) = f[i] + SumOver(f, 1..(i - 1))
    BY <1>2, <2>1, <2>2
  <2>5. \A x, y, z \in Nat : x + (y + z) = (x + z) + y
    OBVIOUS
  <2>. QED
    BY <1>1, <2>3, <2>4, <2>5
<1>6. \A i \in 1..(n + 1) : StartsAt(file, i) \in Nat
  BY <1>1, <1>2, <1>3
<1>7. ASSUME NEW i \in 1..n, NEW j \in 1..(n + 1), i < j
      PROVE  StartsAt(file, i) < StartsAt(file, j)
  <2>1. /\ j - 1 \in Nat /\ 1..i \in SUBSET (1..(j - 1)) /\ i + 1 \in 1..(n + 1)
        /\ (i + 1) - 1 = i
        /\ \A x \in 1..(j - 1) : f[x] \in Int /\ f[x] \in Nat
        /\ \A x \in 1..i : f[x] <= f[x]
    BY <1>1, <1>7
  <2>2. IsFiniteSet(1..(j - 1))
    BY <2>1, UpTo
  <2>3. SumOver(f, 1..i) <= SumOver(f, 1..(j - 1))
    BY <2>1, <2>2, SumGrows
  <2>4. SumOver(f, 1..i) \in Nat /\ SumOver(f, 1..(j - 1)) \in Nat
    BY <1>3, <2>1
  <2>5. StartsAt(file, i + 1) <= StartsAt(file, j)
    BY <1>1, <1>2, <2>1, <2>3, <2>4
  <2>6. StartsAt(file, i) \in Nat /\ StartsAt(file, j) \in Nat
    BY <1>6, <1>7, <2>1
  <2>7. StartsAt(file, i + 1) = StartsAt(file, i) + f[i]
    BY <1>5
  <2>8. f[i] \in Nat /\ f[i] > 0
    BY <1>1
  <2>9. \A x, y, z \in Nat : y > 0 /\ x + y <= z => x < z
    OBVIOUS
  <2> HIDE DEF f
  <2>. QED
    BY <2>5, <2>6, <2>7, <2>8, <2>9
<1>. QED
  BY <1>4, <1>5, <1>6, <1>7 DEF f

\* The block that is found where a block starts.
LEMMA BlockFound ==
  ASSUME NEW file \in RawFiles, NEW i \in 1..Len(file.blocks)
  PROVE  BlockAt(file, StartsAt(file, i)) = {file.blocks[i]}
<1>1. \A j \in 1..Len(file.blocks) :
        StartsAt(file, j) = StartsAt(file, i) => j = i
  <2> TAKE j \in 1..Len(file.blocks)
  <2>1. Len(file.blocks) \in Nat /\ j \in 1..(Len(file.blocks) + 1)
        /\ i \in 1..(Len(file.blocks) + 1)
    BY RawTyped
  <2>2. StartsAt(file, i) \in Nat /\ StartsAt(file, j) \in Nat
    BY <2>1, StartsFollow
  <2>3. i < j => StartsAt(file, i) < StartsAt(file, j)
    BY <2>1, StartsFollow
  <2>4. j < i => StartsAt(file, j) < StartsAt(file, i)
    BY <2>1, StartsFollow
  <2>. QED
    BY <2>1, <2>2, <2>3, <2>4
<1>2. DOMAIN file.blocks = 1..Len(file.blocks)
  BY RawTyped
<1>3. {j \in DOMAIN file.blocks : StartsAt(file, j) = StartsAt(file, i)} = {i}
  BY <1>1, <1>2
<1>. QED
  BY <1>3 DEF BlockAt

\* A block that says nothing, so that the walk goes on behind it.
GoesOn(file, i) ==
    LET b == file.blocks[i]
        pos == StartsAt(file, i)
    IN /\ i \in DOMAIN file.blocks
       /\ Filled(file, pos) = "full" /\ pos + Basic(file) <= file.length
       /\ HeaderEnd(file, pos, b) <= file.length /\ b.sound
       /\ ~Ends(file, b) /\ ~EndsAfterData(file, b)
       /\ StartsAt(file, i + 1) <= file.length

\* A look at the start of a block, with the block written out.
LEMMA LookReads ==
  ASSUME NEW file \in RawFiles, NEW i \in 1..Len(file.blocks), NEW g
  PROVE  LET pos == StartsAt(file, i)
             b == file.blocks[i]
             next == StartsAt(file, i + 1)
         IN /\ pos \in Nat /\ pos + Basic(file) \in Nat
            /\ HeaderEnd(file, pos, b) \in Nat /\ next \in Nat
            /\ pos + Basic(file) <= HeaderEnd(file, pos, b)
            /\ HeaderEnd(file, pos, b) <= next
            /\ Look(file, pos, g) =
                 IF Filled(file, pos) = "eof" THEN Nothing
                 ELSE IF Filled(file, pos) = "partial" THEN Corrupt
                 ELSE IF pos + Basic(file) > file.length THEN Malformed
                 ELSE IF HeaderEnd(file, pos, b) > file.length
                      THEN IF file.rar5 THEN Corrupt ELSE Short
                 ELSE IF ~b.sound THEN Corrupt
                 ELSE IF Ends(file, b) THEN Verdict(file, b)
                 ELSE IF next > file.length THEN Corrupt
                 ELSE IF EndsAfterData(file, b) THEN Nothing
                 ELSE g[next]
<1> DEFINE pos == StartsAt(file, i)
           b == file.blocks[i]
           next == StartsAt(file, i + 1)
<1>1. /\ pos \in Nat /\ Basic(file) \in Nat
      /\ b.extra \in Nat /\ b.data \in Nat
      /\ Sizes(file)[i] = Basic(file) + b.extra + b.data
      /\ next = pos + Sizes(file)[i]
  <2>1. i \in 1..(Len(file.blocks) + 1) /\ Basic(file) \in Nat
    BY RawTyped
  <2>2. pos \in Nat
    BY <2>1, StartsFollow
  <2>3. next = pos + Sizes(file)[i]
    BY StartsFollow
  <2>4. /\ b.extra \in Nat /\ b.data \in Nat
        /\ Sizes(file)[i] = Basic(file) + b.extra + b.data
    BY RawTyped
  <2>. QED
    BY <2>1, <2>2, <2>3, <2>4
<1>2. PICK p, a, x, y \in Nat :
        p = pos /\ a = Basic(file) /\ x = b.extra /\ y = b.data
  BY <1>1
<1>3. /\ HeaderEnd(file, pos, b) = p + a + x
      /\ NextBlock(file, pos, b) = p + a + x + y
  BY <1>2 DEF NextBlock, HeaderEnd
<1>4. next = p + (a + x + y)
  BY <1>1, <1>2
<1>5. p + a + x + y = p + (a + x + y) /\ p + a + x + y \in Nat
      /\ p + a + x \in Nat /\ p + a \in Nat
      /\ p + a <= p + a + x /\ p + a + x <= p + a + x + y
  OBVIOUS
<1>6. /\ pos \in Nat /\ pos + Basic(file) \in Nat
      /\ HeaderEnd(file, pos, b) \in Nat /\ next \in Nat
      /\ pos + Basic(file) <= HeaderEnd(file, pos, b)
      /\ HeaderEnd(file, pos, b) <= next
      /\ NextBlock(file, pos, b) = next
  BY <1>1, <1>2, <1>3, <1>4, <1>5
<1>7. BlockAt(file, pos) = {b} /\ (CHOOSE c \in {b} : TRUE) = b
  BY BlockFound
<1>. QED
  BY <1>6, <1>7 DEF Look

\* A look answers by itself, or with what the next block is answered with.
LEMMA LookAnswers ==
  ASSUME NEW file \in RawFiles, NEW i \in 1..(Len(file.blocks) + 1), NEW g, NEW h
  PROVE  /\ GoesOn(file, i) =>
              Look(file, StartsAt(file, i), g) = g[StartsAt(file, i + 1)]
         /\ ~GoesOn(file, i) =>
              Look(file, StartsAt(file, i), g) = Look(file, StartsAt(file, i), h)
<1> DEFINE n == Len(file.blocks)
           pos == StartsAt(file, i)
           b == file.blocks[i]
           next == StartsAt(file, i + 1)
<1>1. /\ n \in Nat /\ file.length \in Nat /\ DOMAIN file.blocks = 1..n
      /\ pos \in Nat
  BY RawTyped, StartsFollow
<1>2. CASE i = n + 1
  <2>1. pos >= file.length
    BY <1>1, <1>2, RawTyped
  <2>2. Filled(file, pos) = "eof"
    BY <2>1 DEF Filled
  <2>3. ~GoesOn(file, i)
    BY <1>1, <1>2 DEF GoesOn
  <2>. QED
    BY <2>2, <2>3 DEF Look
<1>3. CASE i \in 1..n
  <2> DEFINE Out(w) ==
        IF Filled(file, pos) = "eof" THEN Nothing
        ELSE IF Filled(file, pos) = "partial" THEN Corrupt
        ELSE IF pos + Basic(file) > file.length THEN Malformed
        ELSE IF HeaderEnd(file, pos, b) > file.length
             THEN IF file.rar5 THEN Corrupt ELSE Short
        ELSE IF ~b.sound THEN Corrupt
        ELSE IF Ends(file, b) THEN Verdict(file, b)
        ELSE IF next > file.length THEN Corrupt
        ELSE IF EndsAfterData(file, b) THEN Nothing
        ELSE w[next]
  <2>1. Look(file, pos, g) = Out(g) /\ Look(file, pos, h) = Out(h)
    BY <1>3, LookReads
  <2>2. Filled(file, pos) \in {"eof", "partial", "full"}
    BY DEF Filled
  <2>3. /\ pos + Basic(file) \in Nat /\ HeaderEnd(file, pos, b) \in Nat
        /\ next \in Nat
    BY <1>3, LookReads
  <2>4. GoesOn(file, i) <=>
          /\ Filled(file, pos) = "full" /\ ~(pos + Basic(file) > file.length)
          /\ ~(HeaderEnd(file, pos, b) > file.length) /\ b.sound
          /\ ~Ends(file, b) /\ ~EndsAfterData(file, b)
          /\ ~(next > file.length)
    BY <1>1, <1>3, <2>3 DEF GoesOn
  <2> HIDE DEF b, pos, next
  <2>5. GoesOn(file, i) => Out(g) = g[next]
    BY <2>4
  <2>6. ~GoesOn(file, i) => Out(g) = Out(h)
    BY <2>2, <2>4
  <2> HIDE DEF Written
  <2>. QED
    BY <2>1, <2>5, <2>6 DEF pos, next
<1>. QED
  BY <1>1, <1>2, <1>3

\* From block i on, the first that ends the walk.
Stopping(file, i) ==
    {k \in i..(Len(file.blocks) + 1) : ~GoesOn(file, k)}

LEMMA StopsSomewhere ==
  ASSUME NEW file \in RawFiles, NEW i \in 1..(Len(file.blocks) + 1)
  PROVE  LET j == Min(Stopping(file, i)) IN
         /\ j \in i..(Len(file.blocks) + 1) /\ ~GoesOn(file, j)
         /\ \A k \in i..(Len(file.blocks) + 1) : k < j => GoesOn(file, k)
         /\ GoesOn(file, i) =>
              /\ i \in 1..Len(file.blocks)
              /\ Stopping(file, i) = Stopping(file, i + 1)
         /\ ~GoesOn(file, i) => j = i
<1> DEFINE n == Len(file.blocks)
           T == Stopping(file, i)
<1>1. n \in Nat /\ DOMAIN file.blocks = 1..n
  BY RawTyped
<1>2. T \in SUBSET Nat /\ n + 1 \in T
  <2>1. ~GoesOn(file, n + 1)
    BY <1>1 DEF GoesOn
  <2>. QED
    BY <1>1, <2>1 DEF Stopping
<1>3. \E m \in T : \A y \in T : m <= y
  <2> HIDE DEF T
  <2>. QED
    BY <1>2, HasLeast
<1>4. Min(T) \in T /\ \A y \in T : Min(T) <= y
  <2> HIDE DEF T
  <2>. QED
    BY <1>3 DEF Min
<1>5. Min(T) \in i..(n + 1) /\ ~GoesOn(file, Min(T))
  BY <1>4 DEF Stopping
<1>6. ASSUME NEW k \in i..(n + 1), k < Min(T) PROVE GoesOn(file, k)
  <2>1. k \notin T
    BY <1>1, <1>4, <1>5, <1>6
  <2>. QED
    BY <2>1 DEF Stopping
<1>7. ASSUME GoesOn(file, i)
      PROVE  i \in 1..n /\ Stopping(file, i) = Stopping(file, i + 1)
  <2>1. i \in 1..n
    BY <1>1, <1>7 DEF GoesOn
  <2>2. i..(n + 1) = {i} \union (i + 1)..(n + 1)
    BY <1>1, <2>1
  <2>. QED
    BY <1>7, <2>1, <2>2 DEF Stopping
<1>8. ASSUME ~GoesOn(file, i) PROVE Min(T) = i
  <2>1. i \in T
    BY <1>1, <1>8 DEF Stopping
  <2>. QED
    BY <1>1, <1>4, <1>5, <2>1
<1>. QED
  BY <1>5, <1>6, <1>7, <1>8

\* The walk is one that answers every look with its own answers.
LEMMA WalkedLooks ==
  ASSUME NEW file \in RawFiles
  PROVE  LET w == Walked(file) IN
         \A pos \in 0..file.length : w[pos] = Look(file, pos, w)
<1> DEFINE n == Len(file.blocks)
           At(pos) == {i \in 1..(n + 1) : StartsAt(file, i) = pos}
           Stop(i) == Min(Stopping(file, i))
           answers == [i \in 1..(n + 1) |-> Look(file, StartsAt(file, Stop(i)), <<>>)]
           w == [pos \in 0..file.length |->
                   IF At(pos) # {} THEN answers[CHOOSE i \in At(pos) : TRUE]
                   ELSE Look(file, pos, <<>>)]
<1>1. n \in Nat /\ file.length \in Nat /\ DOMAIN file.blocks = 1..n
  BY RawTyped
<1>2. ASSUME NEW i \in 1..(n + 1), StartsAt(file, i) <= file.length
      PROVE  w[StartsAt(file, i)] = answers[i]
  <2>1. \A j \in 1..(n + 1) : StartsAt(file, j) = StartsAt(file, i) => j = i
    <3> TAKE j \in 1..(n + 1)
    <3>1. StartsAt(file, i) \in Nat /\ StartsAt(file, j) \in Nat
      BY StartsFollow
    <3>2. i < j => i \in 1..n /\ StartsAt(file, i) < StartsAt(file, j)
      BY <1>1, StartsFollow
    <3>3. j < i => j \in 1..n /\ StartsAt(file, j) < StartsAt(file, i)
      BY <1>1, StartsFollow
    <3>. QED
      BY <1>1, <3>1, <3>2, <3>3
  <2>2. At(StartsAt(file, i)) = {i}
    BY <2>1
  <2>3. StartsAt(file, i) \in 0..file.length
    BY <1>1, <1>2, StartsFollow
  <2> HIDE DEF answers, At
  <2>. QED
    BY <2>2, <2>3
<1>3. ASSUME NEW pos \in 0..file.length
      PROVE  w[pos] = Look(file, pos, w)
  <2>1. CASE At(pos) = {}
    <3>1. BlockAt(file, pos) = {}
      BY <1>1, <2>1 DEF BlockAt
    <3>2. \A g, h : Look(file, pos, g) = Look(file, pos, h)
      BY <3>1 DEF Look
    <3>3. w[pos] = Look(file, pos, <<>>)
      BY <2>1
    <3> HIDE DEF w
    <3>. QED
      BY <3>2, <3>3
  <2>2. CASE At(pos) # {}
    <3>1. PICK i \in 1..(n + 1) : StartsAt(file, i) = pos
      BY <2>2
    <3>2. w[pos] = answers[i]
      <4>1. StartsAt(file, i) <= file.length
        BY <1>1, <3>1
      <4> HIDE DEF w, answers
      <4>. QED
        BY <1>2, <3>1, <4>1
    <3>3. answers[i] = Look(file, StartsAt(file, Stop(i)), <<>>)
      OBVIOUS
    <3>4. CASE GoesOn(file, i)
      <4>1. i \in 1..n /\ i + 1 \in 1..(n + 1) /\ Stop(i) = Stop(i + 1)
        BY <1>1, <3>4, StopsSomewhere
      <4>2. StartsAt(file, i + 1) <= file.length
        BY <3>4 DEF GoesOn
      <4>3. w[StartsAt(file, i + 1)] = answers[i + 1]
        BY <1>2, <4>1, <4>2
      <4>4. answers[i + 1] = answers[i]
        BY <4>1
      <4> HIDE DEF w, answers
      <4>5. Look(file, pos, w) = w[StartsAt(file, i + 1)]
        BY <3>1, <3>4, LookAnswers
      <4>. QED
        BY <3>2, <4>3, <4>4, <4>5
    <3>5. CASE ~GoesOn(file, i)
      <4>1. Stop(i) = i
        BY <3>5, StopsSomewhere
      <4>2. answers[i] = Look(file, pos, <<>>)
        BY <3>1, <3>3, <4>1
      <4> HIDE DEF w, answers
      <4>3. Look(file, pos, <<>>) = Look(file, pos, w)
        BY <3>1, <3>5, LookAnswers
      <4>. QED
        BY <3>2, <4>2, <4>3
    <3>. QED
      BY <3>4, <3>5
  <2>. QED
    BY <2>1, <2>2
<1>4. w = [pos \in 0..file.length |-> Look(file, pos, w)]
  BY <1>3
<1>5. \E g : g = [pos \in 0..file.length |-> Look(file, pos, g)]
  <2> HIDE DEF w
  <2>. QED
    BY <1>4
<1>6. Walked(file) = CHOOSE g : g = [pos \in 0..file.length |-> Look(file, pos, g)]
  BY DEF Walked
<1>7. Walked(file) = [pos \in 0..file.length |-> Look(file, pos, Walked(file))]
  BY <1>5, <1>6
<1>. QED
  BY <1>7

\* A walk of at least a signature is answered where it stops.
LEMMA AnsweredWhereItStops ==
  ASSUME NEW file \in RawFiles, ~(file.length < 16)
  PROVE  LET j == Min(Stopping(file, 1)) IN
         /\ StartsAt(file, j) <= file.length
         /\ \E g : Walk(file) = Look(file, StartsAt(file, j), g)
<1> DEFINE n == Len(file.blocks)
           j == Min(Stopping(file, 1))
           w == Walked(file)
           At(i) == StartsAt(file, i)
           Other == {i \in 1..j : w[At(i)] # w[At(j)]}
<1>1. /\ n \in Nat /\ file.length \in Nat /\ DOMAIN file.blocks = 1..n
      /\ 1 \in 1..(n + 1)
  BY RawTyped
<1>2. /\ j \in 1..(n + 1) /\ ~GoesOn(file, j)
      /\ \A k \in 1..(n + 1) : k < j => GoesOn(file, k)
  BY <1>1, StopsSomewhere
<1> HIDE DEF j
<1>3. \A i \in 1..j : At(i) \in Nat /\ At(i) <= file.length
  <2> TAKE i \in 1..j
  <2>1. i \in 1..(n + 1)
    BY <1>1, <1>2
  <2>2. At(i) \in Nat
    BY <2>1, StartsFollow
  <2>3. CASE i = 1
    <3>1. At(1) = Signature(file) /\ Signature(file) \in {7, 8}
      BY RawTyped, StartsFollow
    <3>. QED
      BY <1>1, <2>3, <3>1
  <2>4. CASE i # 1
    <3>1. i - 1 \in 1..(n + 1) /\ i - 1 < j /\ (i - 1) + 1 = i
      BY <1>1, <1>2, <2>1, <2>4
    <3>2. GoesOn(file, i - 1)
      BY <1>2, <3>1
    <3>. QED
      BY <2>2, <3>1, <3>2 DEF GoesOn
  <2>. QED
    BY <2>2, <2>3, <2>4
<1>4. \A i \in 1..j : w[At(i)] = Look(file, At(i), w)
  BY <1>1, <1>3, WalkedLooks
<1> HIDE DEF w
<1>5. Other = {}
  <2> SUFFICES ASSUME Other # {} PROVE FALSE
    OBVIOUS
  <2>1. j \in Nat /\ Other \in SUBSET (1..j)
    BY <1>1, <1>2
  <2>2. PICK m \in Other : \A y \in Other : m >= y
    <3> HIDE DEF Other
    <3>. QED
      BY <2>1, HasLast
  <2>3. m \in 1..j /\ m # j /\ m < j /\ m + 1 \in 1..j /\ m \in 1..(n + 1)
    BY <1>1, <1>2, <2>1, <2>2
  <2>4. m + 1 \notin Other
    BY <2>2, <2>3
  <2>5. w[At(m + 1)] = w[At(j)]
    BY <2>3, <2>4
  <2>6. w[At(m)] = w[At(m + 1)]
    BY <1>2, <1>4, <2>3, LookAnswers
  <2>. QED
    BY <2>2, <2>5, <2>6
<1>6. w[At(1)] = Look(file, At(j), w)
  BY <1>2, <1>4, <1>5
<1>7. Walk(file) = w[At(1)]
  BY StartsFollow DEF Walk, w
<1>. QED
  BY <1>2, <1>3, <1>6, <1>7 DEF j

\* What a block that ends the walk says: all that can be given of a record,
\* and nothing of anything else.
LEMMA VerdictSays ==
  ASSUME NEW file \in RawFiles, NEW j \in 1..Len(file.blocks)
  PROVE  Verdict(file, file.blocks[j]) =
           IF Known(file, j) THEN Percent(Given(file, j)) ELSE Nothing
  BY DEF Verdict, Known, Given

\* The walk goes on behind blocks that hide nothing and are no record.
LEMMA PassesNoRecord ==
  ASSUME NEW file \in RawFiles, NEW j \in 1..(Len(file.blocks) + 1),
         \A k \in 1..(Len(file.blocks) + 1) : k < j => GoesOn(file, k)
  PROVE  /\ \A k \in 1..Len(file.blocks) : k < j => ~Hides(file, k)
         /\ \A k \in 1..Len(file.blocks) : k < j => ~Known(file, k)
         /\ ~Hidden(file, j)
         /\ \A k \in 1..Len(file.blocks) :
              j < k /\ j \in 1..Len(file.blocks) /\ Hides(file, j) =>
                Hidden(file, k)
<1>1. Len(file.blocks) \in Nat
  BY RawTyped
<1>2. \A k \in 1..Len(file.blocks) : k < j => GoesOn(file, k)
  BY <1>1
<1>3. \A k \in 1..Len(file.blocks) : k < j => ~Hides(file, k)
  BY <1>2 DEF GoesOn, Ends, EndsAfterData, Hides
<1>4. \A k \in 1..Len(file.blocks) : k < j => ~Known(file, k)
  BY <1>3 DEF Known, Hides
<1>5. ~Hidden(file, j)
  BY <1>1, <1>3 DEF Hidden
<1>6. ASSUME NEW k \in 1..Len(file.blocks), j < k, Hides(file, j)
      PROVE  Hidden(file, k)
  <2>1. j \in 1..(k - 1)
    BY <1>1, <1>6
  <2>. QED
    BY <1>6, <2>1 DEF Hidden
<1>. QED
  BY <1>3, <1>4, <1>5, <1>6

\* When nothing, an error and a percentage are truthful.
LEMMA NothingIsTruthful ==
  ASSUME NEW file,
         \A i \in DOMAIN file.blocks :
            Known(file, i) => Hidden(file, i) \/ CutBefore(file, i)
  PROVE  Truthful(file, Nothing)
<1>1. Nothing.says = "none"
  BY DEF Nothing
<1>. QED
  BY <1>1 DEF Truthful

LEMMA ErrorIsTruthful ==
  ASSUME NEW file, NEW a \in {Corrupt, Malformed, Short}, ~Healthy(file)
  PROVE  Truthful(file, a)
<1>1. a.says \in {"corruption", "format", "io"}
  BY DEF Corrupt, Malformed, Short
<1>2. a.says # "percent" /\ a.says # "none"
  BY <1>1
<1>. QED
  BY <1>2 DEF Truthful

LEMMA PercentIsTruthful ==
  ASSUME NEW file, NEW i \in DOMAIN file.blocks,
         Known(file, i), ~Hidden(file, i), file.blocks[i].sound,
         HeaderEnd(file, StartsAt(file, i), file.blocks[i]) <= file.length
  PROVE  Truthful(file, Percent(Given(file, i)))
<1>1. Percent(Given(file, i)).says = "percent"
  BY DEF Percent
<1>. QED
  BY <1>1, Zenon DEF Truthful

\* What the look at the block where a walk stops, or behind the last, answers.
LEMMA LookIsTruthful ==
  ASSUME NEW file \in RawFiles, NEW g,
         NEW j \in 1..(Len(file.blocks) + 1), ~GoesOn(file, j),
         \A k \in 1..(Len(file.blocks) + 1) : k < j => GoesOn(file, k),
         StartsAt(file, j) <= file.length
  PROVE  Truthful(file, Look(file, StartsAt(file, j), g))
<1> DEFINE n == Len(file.blocks)
           pos == StartsAt(file, j)
           b == file.blocks[j]
           a == Look(file, pos, g)
           Bare == \A i \in 1..n :
                     Known(file, i) => Hidden(file, i) \/ CutBefore(file, i)
<1>1. /\ n \in Nat /\ file.length \in Nat /\ DOMAIN file.blocks = 1..n
      /\ pos \in Nat /\ Basic(file) \in {5, 7} /\ file.rar5 \in BOOLEAN
  BY RawTyped, StartsFollow
<1>2. \A i \in 1..n : i < j => ~Known(file, i)
  BY PassesNoRecord
<1>3. pos = file.length => Bare
  <2> SUFFICES ASSUME pos = file.length, NEW i \in 1..n, Known(file, i)
               PROVE  CutBefore(file, i)
    OBVIOUS
  <2>1. j \in 1..i
    BY <1>1, <1>2
  <2>. QED
    BY <2>1 DEF CutBefore
<1>4. ASSUME j \in 1..n, Hides(file, j), ~Known(file, j)
      PROVE  Bare
  <2> SUFFICES ASSUME NEW i \in 1..n, Known(file, i) PROVE Hidden(file, i)
    OBVIOUS
  <2>1. j < i
    BY <1>1, <1>2, <1>4
  <2>. QED
    BY <1>4, <2>1, PassesNoRecord
<1>5. CASE j = n + 1
  <2>1. pos = file.length /\ Filled(file, pos) = "eof"
    BY <1>1, <1>5, RawTyped DEF Filled
  <2>2. a = Nothing
    BY <2>1 DEF Look
  <2>3. Bare
    BY <1>3, <2>1
  <2>. QED
    BY <1>1, <2>2, <2>3, NothingIsTruthful
<1>6. CASE j \in 1..n
  <2> DEFINE next == StartsAt(file, j + 1)
             header == HeaderEnd(file, pos, b)
  <2>1. /\ pos + Basic(file) \in Nat /\ header \in Nat /\ next \in Nat
        /\ pos + Basic(file) <= header /\ header <= next
        /\ a = IF Filled(file, pos) = "eof" THEN Nothing
               ELSE IF Filled(file, pos) = "partial" THEN Corrupt
               ELSE IF pos + Basic(file) > file.length THEN Malformed
               ELSE IF header > file.length
                    THEN IF file.rar5 THEN Corrupt ELSE Short
               ELSE IF ~b.sound THEN Corrupt
               ELSE IF Ends(file, b) THEN Verdict(file, b)
               ELSE IF next > file.length THEN Corrupt
               ELSE IF EndsAfterData(file, b) THEN Nothing
               ELSE g[next]
    BY <1>6, LookReads
  <2>2. b.sound \in BOOLEAN /\ next = pos + Sizes(file)[j]
    BY <1>1, <1>6, RawTyped, StartsFollow
  <2>3. Filled(file, pos) \in {"eof", "partial", "full"}
    BY DEF Filled
  <2>4. GoesOn(file, j) <=>
          /\ Filled(file, pos) = "full" /\ ~(pos + Basic(file) > file.length)
          /\ ~(header > file.length) /\ b.sound
          /\ ~Ends(file, b) /\ ~EndsAfterData(file, b)
          /\ ~(next > file.length)
    BY <1>1, <1>6, <2>1 DEF GoesOn
  <2>5. Healthy(file) =>
          /\ b.sound /\ Filled(file, pos) = "full"
          /\ ~(pos + Basic(file) > file.length) /\ ~(header > file.length)
          /\ ~(next > file.length)
    <3> SUFFICES ASSUME Healthy(file)
                 PROVE  /\ b.sound /\ Filled(file, pos) = "full"
                        /\ ~(pos + Basic(file) > file.length)
                        /\ ~(header > file.length) /\ ~(next > file.length)
      OBVIOUS
    <3>1. b.sound /\ next <= file.length
      BY <1>1, <1>6, <2>2 DEF Healthy, Fits
    <3>2. pos + Basic(file) <= file.length
      BY <1>1, <2>1, <3>1
    <3>3. Filled(file, pos) = "full"
      BY <1>1, <3>2 DEF Filled, Fixed, Basic
    <3>. QED
      BY <1>1, <2>1, <3>1, <3>2, <3>3
  <2>6. \/ Filled(file, pos) = "eof" /\ a = Nothing
        \/ a \in {Corrupt, Malformed, Short} /\ ~Healthy(file)
        \/ /\ ~(header > file.length) /\ b.sound
           /\ Ends(file, b) /\ a = Verdict(file, b)
        \/ EndsAfterData(file, b) /\ ~Ends(file, b) /\ a = Nothing
    <3> HIDE DEF a, b, pos, header, next
    <3>. QED
      BY <2>1, <2>3, <2>4, <2>5
  <2>7. CASE Filled(file, pos) = "eof" /\ a = Nothing
    <3>1. pos = file.length
      BY <1>1, <2>7 DEF Filled
    <3>2. Bare
      BY <1>3, <3>1
    <3>. QED
      BY <1>1, <2>7, <3>2, NothingIsTruthful
  <2>8. CASE a \in {Corrupt, Malformed, Short} /\ ~Healthy(file)
    <3>1. Truthful(file, a)
      <4> HIDE DEF a
      <4>. QED
        BY <2>8, ErrorIsTruthful
    <3>. QED
      BY <3>1, Zenon
  <2>9. CASE /\ ~(header > file.length) /\ b.sound
             /\ Ends(file, b) /\ a = Verdict(file, b)
    <3>1. Hides(file, j)
      BY <2>9 DEF Ends, Hides
    <3>2. CASE Known(file, j)
      <4>1. a = Percent(Given(file, j))
        BY <1>6, <2>9, <3>2, VerdictSays
      <4>2. /\ ~Hidden(file, j) /\ b.sound /\ j \in DOMAIN file.blocks
            /\ HeaderEnd(file, StartsAt(file, j), file.blocks[j]) <= file.length
        BY <1>1, <1>6, <2>1, <2>9, PassesNoRecord
      <4>3. Truthful(file, Percent(Given(file, j)))
        BY <3>2, <4>2, PercentIsTruthful
      <4>. QED
        BY <4>1, <4>3
    <3>3. CASE ~Known(file, j)
      <4>1. a = Nothing
        BY <1>6, <2>9, <3>3, VerdictSays
      <4>2. Bare
        BY <1>4, <1>6, <3>1, <3>3
      <4>. QED
        BY <1>1, <4>1, <4>2, NothingIsTruthful
    <3>. QED
      BY <3>2, <3>3
  <2>10. CASE EndsAfterData(file, b) /\ ~Ends(file, b) /\ a = Nothing
    <3>1. Hides(file, j) /\ ~Known(file, j)
      BY <2>10 DEF EndsAfterData, Ends, Hides, Known
    <3>2. Bare
      BY <1>4, <1>6, <3>1
    <3>. QED
      BY <1>1, <2>10, <3>2, NothingIsTruthful
  <2>. QED
    BY <2>6, <2>7, <2>8, <2>9, <2>10
<1>. QED
  BY <1>1, <1>5, <1>6

\* What the walk answers is borne out by the file: for every chain of blocks,
\* of either format, cut anywhere.
LEMMA WalkIsTruthful ==
  ASSUME NEW file \in RawFiles
  PROVE  Truthful(file, Walk(file))
<1> DEFINE n == Len(file.blocks)
           j == Min(Stopping(file, 1))
<1>1. /\ n \in Nat /\ file.length \in Nat /\ DOMAIN file.blocks = 1..n
      /\ 1 \in 1..(n + 1)
      /\ 16 <= StartsAt(file, n + 1) /\ StartsAt(file, n + 1) \in Nat
  BY RawTyped, StartsFollow
<1>2. CASE file.length < 16
  <2>1. Walk(file) = Short
    BY <1>2 DEF Walk
  <2>2. ~Healthy(file)
    <3>1. n \in 1..n
      BY <1>1, RawTyped, StartsFollow
    <3>2. ~Fits(file, n)
      BY <1>1, <1>2, <3>1, StartsFollow DEF Fits
    <3>. QED
      BY <1>1, <3>1, <3>2 DEF Healthy
  <2>. QED
    BY <2>1, <2>2 DEF Truthful, Short
<1>3. CASE ~(file.length < 16)
  <2>1. /\ j \in 1..(n + 1) /\ ~GoesOn(file, j)
        /\ \A k \in 1..(n + 1) : k < j => GoesOn(file, k)
    BY <1>1, StopsSomewhere
  <2>2. /\ StartsAt(file, j) <= file.length
        /\ \E g : Walk(file) = Look(file, StartsAt(file, j), g)
    BY <1>3, AnsweredWhereItStops
  <2> HIDE DEF j
  <2>. QED
    BY <2>1, <2>2, LookIsTruthful
<1>. QED
  BY <1>2, <1>3

-----------------------------------------------------------------------------
(* What the handle says of a file's health.                                *)

\* No file is damaged before header k.
NoneBefore(f, k) ==
    \A j \in DOMAIN f.headers :
        j < k => ~(f.headers[j].damaged /\ f.headers[j].kind = "file")

Verdicts ==
    /\ call.op = "integrity" /\ failed = <<>> =>
         /\ phase \in Looking => NoneBefore(fresh.file, fresh.pos)
         /\ Completed =>
              NoneBefore(fresh.file, Len(fresh.file.headers) + 1)
    /\ call.op = "recovery" =>
         \A i \in DOMAIN installed : answer = Walk(installed[i].from.raw)

\* A decode that went well went over no damaged file.
LEMMA PassesNone ==
  ASSUME Course, phase = "decoding", Code = "success",
         NoneBefore(fresh.file, fresh.pos)
  PROVE  Passed.file = fresh.file /\ NoneBefore(fresh.file, Passed.pos)
<1> DEFINE f == fresh.file
           p == LastPart(f, fresh.cur)
<1>1. /\ f \in Files /\ fresh \in Handles /\ fresh.cur \in DOMAIN f.headers
      /\ fresh.pos = fresh.cur
  BY DEF Course, Typed, Positioned, Looking
<1>2. /\ DOMAIN f.headers = 1..Len(f.headers) /\ Len(f.headers) \in Nat
      /\ Parts(f.headers)
      /\ \A k \in DOMAIN f.headers :
           f.headers[k].before \in BOOLEAN /\ f.headers[k].damaged \in BOOLEAN
  BY <1>1, FileTyped
<1>3. /\ p \in fresh.cur..Len(f.headers)
      /\ \A k \in (fresh.cur + 1)..p : f.headers[k].before
  BY <1>1, PartsReach
<1>4. Passed.file = f /\ Passed.pos = p + 1
  BY <1>1, Moves
<1>5. \A k \in DOMAIN f.headers : f.headers[k].before => ~f.headers[k].damaged
  BY <1>2 DEF Parts
<1>6. ~Header.damaged
  BY <1>1, <1>2, <1>5 DEF Code, Broken, Header, HeaderOf
<1> HIDE DEF p
<1>7. ASSUME NEW k \in DOMAIN f.headers, k < p + 1
      PROVE  ~(f.headers[k].damaged /\ f.headers[k].kind = "file")
  <2>1. k < fresh.cur \/ k = fresh.cur \/ k \in (fresh.cur + 1)..p
    BY <1>1, <1>2, <1>3, <1>7
  <2>. QED
    BY <1>1, <1>3, <1>5, <1>6, <1>7, <2>1 DEF NoneBefore, Header, HeaderOf
<1>. QED
  BY <1>4, <1>7 DEF NoneBefore

LEMMA VerdictsStep ==
  ASSUME Course, Verdicts, [Next]_vars
  PROVE  Verdicts'
<1> USE DEF Keeps
<1>1. Kind
  BY StepKinds
<1>2. (call.op = "recovery" =>
         \A i \in DOMAIN installed : answer = Walk(installed[i].from.raw))'
  <2>1. CASE UNCHANGED <<call, installed, answer>>
    BY <2>1 DEF Verdicts
  <2>2. CASE Call
    BY <2>2 DEF Call, outcome, Course, Underway
  <2>3. CASE RecoveryWalk
    <3>1. DOMAIN installed' = {1} /\ installed'[1].from = disk
          /\ answer' = Walk(disk.raw)
      BY <2>3 DEF RecoveryWalk
    <3>. QED
      BY <3>1
  <2>4. CASE phase = "decoding" /\ UNCHANGED call
    BY <2>4 DEF Course, Underway
  <2>5. CASE ListEnds
    BY <2>5 DEF ListEnds, outcome, Verdicts
  <2>. QED
    BY <1>1, <2>1, <2>2, <2>3, <2>4, <2>5 DEF Kind, Still, Rests, Turns, Opens,
       Binds, Reads, Exhausts, Collects, Skips, Begins, Passes, Notes,
       HandsOut, Succeeds, Quits
<1>3. ASSUME call'.op = "integrity", failed' = <<>>
      PROVE  /\ phase' \in Looking => NoneBefore(fresh'.file, fresh'.pos)
             /\ Completed' =>
                  NoneBefore(fresh'.file, Len(fresh'.file.headers) + 1)
  <2>1. CASE phase' \notin Looking /\ ~Completed'
    BY <2>1
  <2>2. CASE phase \in Looking /\ phase' \in Looking /\ call' = call
               /\ UNCHANGED <<failed, fresh>>
    BY <1>3, <2>2 DEF Verdicts, Completed, Looking
  <2>3. CASE Binds
    <3>1. fresh' = fresh /\ fresh.pos = 1 /\ fresh.file \in Files
          /\ phase' = "header"
      BY <2>3 DEF Binds, Course, Positioned
    <3>2. \A j \in DOMAIN fresh.file.headers : ~(j < 1)
      BY <3>1, FileTyped
    <3>. QED
      BY <3>1, <3>2 DEF NoneBefore, Completed
  <2>4. CASE Reads
    <3>1. fresh'.file = fresh.file /\ fresh'.pos = fresh.pos
          /\ phase' = "dispose" /\ phase \in Looking
      BY <2>4 DEF Reads, Course, Typed, Handles, Looking
    <3>. QED
      BY <1>3, <2>4, <3>1 DEF Reads, Verdicts, Completed
  <2>5. CASE Skips
    <3>1. /\ call.op = "integrity" /\ Header.kind # "file"
          /\ fresh' = SkipTo(fresh) /\ phase' = "header"
          /\ failed = <<>> /\ phase \in Looking
      BY <1>3, <2>5 DEF Skips, Single, Looking
    <3>2. /\ fresh.cur \in DOMAIN fresh.file.headers /\ fresh \in Handles
          /\ fresh.file \in Files /\ fresh.pos = fresh.cur
      BY <2>5 DEF Skips, Course, Typed, Positioned, Looking
    <3>3. fresh'.file = fresh.file /\ fresh'.pos = fresh.cur + 1
      BY <3>1, <3>2, Moves
    <3>4. NoneBefore(fresh.file, fresh.cur)
      BY <3>1, <3>2 DEF Verdicts
    <3>5. \A j \in DOMAIN fresh.file.headers :
            j < fresh.cur + 1 => j < fresh.cur \/ j = fresh.cur
      BY <3>2, FileTyped
    <3>6. NoneBefore(fresh.file, fresh.cur + 1)
      BY <3>1, <3>4, <3>5 DEF NoneBefore, Header, HeaderOf
    <3>. QED
      BY <3>1, <3>3, <3>6 DEF Completed
  <2>6. CASE Passes
    <3>1. /\ call.op = "integrity" /\ failed = <<>> /\ phase = "decoding"
          /\ Code = "success" /\ fresh' = Passed /\ phase' = "header"
      BY <1>3, <2>6 DEF Passes
    <3>2. NoneBefore(fresh.file, fresh.pos)
      BY <3>1 DEF Verdicts, Looking
    <3>. QED
      BY <3>1, <3>2, PassesNone DEF Completed
  <2>7. CASE Notes
    <3>1. failed' # <<>>
      BY <2>7 DEF Notes, Course, Typed
    <3>. QED
      BY <1>3, <3>1
  <2>8. CASE Succeeds
    <3>1. /\ phase = "end" /\ call.op = "integrity" /\ failed = <<>>
          /\ phase' = "done" /\ fresh'.file = fresh.file
      BY <1>3, <2>8 DEF Succeeds, Closed, Course, Typed, Handles, Underway
    <3>2. /\ fresh.file \in Files /\ fresh.pos \in Nat
          /\ fresh.pos > Len(fresh.file.headers)
      BY <3>1 DEF Course, Typed, Positioned, Handles, Looking
    <3>3. NoneBefore(fresh.file, fresh.pos)
      BY <3>1 DEF Verdicts, Looking
    <3>4. \A j \in DOMAIN fresh.file.headers : j < fresh.pos
      BY <3>2, FileTyped
    <3>. QED
      BY <3>1, <3>3, <3>4 DEF NoneBefore, Looking
  <2>9. CASE Still
    BY <1>3, <2>9 DEF Still, Rests, Verdicts, Completed
  <2>10. CASE HandsOut \/ Quits \/ Collects \/ ListEnds \/ RecoveryWalk
    BY <1>3, <2>10 DEF HandsOut, Quits, Collects, ListEnds, RecoveryWalk,
       Single, Return, Completed, Looking, Course, Underway, Listed
  <2>11. CASE Call \/ Turns \/ Opens
    BY <2>11 DEF Call, Turns, Capture, Opens, Completed, Looking
  <2>12. CASE Exhausts \/ Begins
    BY <1>3, <2>2, <2>12 DEF Exhausts, Begins, Rests, Looking
  <2>. QED
    BY <1>1, <2>3, <2>4, <2>5, <2>6, <2>7, <2>8, <2>9, <2>10, <2>11, <2>12
       DEF Kind
<1>. QED
  BY <1>2, <1>3 DEF Verdicts

\* What the invariant says of the verdicts that are handed out.
LEMMA VerdictsFollow ==
  ASSUME Course, Opened, Verdicts
  PROVE  CleanVerdictHonest /\ RecoveryTruthful
<1>1. CleanVerdictHonest
  <2> SUFFICES ASSUME call.op = "integrity", result = "ok", failed = <<>>
               PROVE  Damaged(fresh.file) = {}
    BY DEF CleanVerdictHonest
  <2>1. Completed
    BY DEF Completed, Course, TypeOK
  <2>2. /\ NoneBefore(fresh.file, Len(fresh.file.headers) + 1)
        /\ fresh.file \in Files
    BY <2>1 DEF Verdicts, Opened
  <2>3. \A j \in DOMAIN fresh.file.headers : j < Len(fresh.file.headers) + 1
    BY <2>2, FileTyped
  <2>. QED
    BY <2>2, <2>3 DEF Damaged, NoneBefore
<1>2. RecoveryTruthful
  <2> SUFFICES ASSUME call.op = "recovery", NEW i \in DOMAIN installed
               PROVE  Truthful(installed[i].from.raw, answer)
    BY DEF RecoveryTruthful
  <2>1. installed[i].from \in Files
    <3>1. installed[i] \in Pieces
      BY DEF Course, Typed
    <3>. QED
      BY <3>1 DEF Pieces
  <2>2. installed[i].from.raw \in RawFiles
    BY <2>1, FileTyped
  <2>3. answer = Walk(installed[i].from.raw)
    BY DEF Verdicts
  <2>. QED
    BY <2>2, <2>3, WalkIsTruthful
<1>. QED
  BY <1>1, <1>2

\* The invariant holds whatever other threads do to the error code of the SDK.
LEMMA VerdictsHold == Spec => [](Opened /\ Verdicts)
<1>1. Init => Opened /\ Verdicts
  BY FileTyped DEF Init, Opened, Verdicts, Looking, Completed, NoCall
<1>2. Course /\ Opened /\ Verdicts /\ [Next]_vars => Opened' /\ Verdicts'
  BY OpenedStep, VerdictsStep
<1>. QED
  BY <1>1, <1>2, CourseHolds, PTL DEF Spec

\* An integrity test that names no file has met none that is damaged.
THEOREM CleanVerdictIsHonest == Spec => []CleanVerdictHonest
<1>1. Course /\ Opened /\ Verdicts => CleanVerdictHonest
  BY VerdictsFollow
<1>. QED
  BY <1>1, CourseHolds, VerdictsHold, PTL

\* recovery_percentage says nothing that the file it read does not bear out: no
\* percentage without a sound record that nothing hides, no "none" for a file
\* cut inside a block with its record lost, and no error for a healthy file.
THEOREM RecoveryIsTruthful == Spec => []RecoveryTruthful
<1>1. Course /\ Opened /\ Verdicts => RecoveryTruthful
  BY VerdictsFollow
<1>. QED
  BY <1>1, CourseHolds, VerdictsHold, PTL

-----------------------------------------------------------------------------
(* The entries of a file.  A walk has met as many of them as start before   *)
(* the header it is at; so its count, the memo it fills and the pieces it   *)
(* writes all follow the position.                                          *)

Entries(f, k) == Cardinality({y \in Firsts(f) : y < k})

LEMMA FirstsListed ==
  ASSUME NEW f \in Files
  PROVE  /\ Firsts(f) \in SUBSET Nat /\ IsFiniteSet(Firsts(f))
         /\ Cardinality(Firsts(f)) \in Nat
         /\ Coalesced(f) \in Seq(Records)
         /\ Len(Coalesced(f)) = Cardinality(Firsts(f))
         /\ DOMAIN Coalesced(f) = 1..Cardinality(Firsts(f))
         /\ \A e \in 1..Cardinality(Firsts(f)) :
              /\ Ascending(Firsts(f))[e] \in DOMAIN f.headers
              /\ Coalesced(f)[e] = EntryOf(f.headers[Ascending(Firsts(f))[e]])
<1> DEFINE F == Firsts(f)
           c == Cardinality(F)
<1>1. /\ Len(f.headers) \in Nat /\ DOMAIN f.headers = 1..Len(f.headers)
      /\ \A k \in DOMAIN f.headers : f.headers[k] \in Headers
  BY FileTyped
<1>2. F \in SUBSET (1..Len(f.headers))
  BY <1>1 DEF Firsts
<1>3. IsFiniteSet(F) /\ F \in SUBSET Nat /\ c \in Nat
  <2> HIDE DEF F
  <2>. QED
    BY <1>1, <1>2, PartOfRun
<1>4. Ascending(F) \in [1..c -> F] /\ DOMAIN Ascending(F) = 1..c
  BY <1>3, AscendingLists, AscendingSeq
<1>5. Coalesced(f) = [e \in 1..c |-> EntryOf(f.headers[Ascending(F)[e]])]
  BY <1>4 DEF Coalesced
<1>6. \A e \in 1..c : /\ Ascending(F)[e] \in DOMAIN f.headers
                      /\ EntryOf(f.headers[Ascending(F)[e]]) \in Records
  BY <1>1, <1>2, <1>4, EntryTyped
<1>. QED
  BY <1>3, <1>5, <1>6

\* One header further.
LEMMA EntriesGrow ==
  ASSUME NEW f \in Files, NEW k \in DOMAIN f.headers
  PROVE  LET n == Entries(f, k) IN
         /\ n \in Nat
         /\ k \in Firsts(f) <=> ~Continues(f.headers[k], n)
         /\ k \notin Firsts(f) => Entries(f, k + 1) = n
         /\ k \in Firsts(f) =>
              /\ Entries(f, k + 1) = n + 1
              /\ Entries(f, LastPart(f, k) + 1) = n + 1
              /\ n + 1 \in 1..Cardinality(Firsts(f))
              /\ Ascending(Firsts(f))[n + 1] = k
              /\ Coalesced(f)[n + 1] = EntryOf(f.headers[k])
<1> DEFINE F == Firsts(f)
           n == Entries(f, k)
           L == Len(f.headers)
           p == LastPart(f, k)
<1>1. /\ L \in Nat /\ DOMAIN f.headers = 1..L /\ k \in 1..L
      /\ F \in SUBSET (1..L)
  BY FileTyped DEF Firsts
<1>2. F \in SUBSET Nat /\ IsFiniteSet(F) /\ Cardinality(F) \in Nat
  BY FirstsListed
<1>3. /\ n \in Nat
      /\ Entries(f, k + 1) = n + (IF k \in F THEN 1 ELSE 0)
      /\ k \in F => Ascending(F)[n + 1] = k
  <2> HIDE DEF F
  <2>1. k \in Nat
    BY <1>1
  <2>. QED
    BY <1>2, <2>1, RankGrows DEF Entries, F
<1>4. n > 0 <=> k > 1
  <2>1. CASE k = 1
    <3>1. {y \in F : y < k} = {}
      BY <1>1, <2>1
    <3>2. n = 0
      BY <3>1, FS_EmptySet DEF Entries
    <3>. QED
      BY <2>1, <3>2
  <2>2. CASE k > 1
    <3> DEFINE below == {y \in F : y < k}
    <3>1. 1 \in F
      BY <1>1 DEF Firsts
    <3>2. 1 \in below
      BY <1>1, <2>2, <3>1
    <3>3. IsFiniteSet(below)
      BY <1>2, FS_Subset
    <3>4. Cardinality(below) # 0
      <4> HIDE DEF below
      <4>. QED
        BY <3>2, <3>3, FS_EmptySet
    <3>. QED
      BY <1>3, <2>2, <3>4 DEF Entries
  <2>. QED
    BY <1>1, <2>1, <2>2
<1>5. k \in F <=> ~Continues(f.headers[k], n)
  BY <1>1, <1>4 DEF Firsts, Continues
<1>6. ASSUME k \in F
      PROVE  /\ n + 1 \in 1..Cardinality(F)
             /\ Coalesced(f)[n + 1] = EntryOf(f.headers[k])
             /\ Entries(f, p + 1) = n + 1
  <2>1. n + 1 \in 1..Cardinality(F)
    <3> DEFINE S == {y \in F : y < k + 1}
    <3>1. S \in SUBSET F /\ Cardinality(S) = n + 1
      BY <1>3, <1>6 DEF Entries
    <3>2. Cardinality(S) <= Cardinality(F)
      <4> HIDE DEF S, F
      <4>. QED
        BY <1>2, <3>1, FS_Subset
    <3>. QED
      BY <1>2, <1>3, <3>1, <3>2
  <2>2. Coalesced(f)[n + 1] = EntryOf(f.headers[k])
    BY <1>3, <1>6, <2>1, FirstsListed
  <2>3. /\ p \in k..L
        /\ \A j \in (k + 1)..p : f.headers[j].before
    BY PartsReach
  <2>4. \A j \in F : j < p + 1 <=> j < k + 1
    <3> TAKE j \in F
    <3>1. j \in (k + 1)..p => ~f.headers[j].before
      BY <1>1 DEF Firsts
    <3>. QED
      BY <1>1, <2>3, <3>1
  <2>5. {y \in F : y < p + 1} = {y \in F : y < k + 1}
    BY <2>4
  <2>. QED
    BY <1>3, <1>6, <2>1, <2>2, <2>5 DEF Entries
<1>. QED
  BY <1>3, <1>5, <1>6

\* None before the first header, all of them behind the last.
LEMMA EntriesEnd ==
  ASSUME NEW f \in Files
  PROVE  /\ Entries(f, 1) = 0
         /\ \A k \in Nat : k > Len(f.headers) =>
              Entries(f, k) = Cardinality(Firsts(f))
<1>1. Len(f.headers) \in Nat /\ Firsts(f) \in SUBSET (1..Len(f.headers))
  BY FileTyped DEF Firsts
<1>2. {y \in Firsts(f) : y < 1} = {}
  BY <1>1
<1>3. ASSUME NEW k \in Nat, k > Len(f.headers)
      PROVE  {y \in Firsts(f) : y < k} = Firsts(f)
  BY <1>1, <1>3
<1>. QED
  BY <1>2, <1>3, FS_EmptySet DEF Entries

\* The first n entries of a file.
FirstEntries(f, n) == [e \in 1..n |-> Coalesced(f)[e]]

\* The memo is the listing of a file the handle was bound to.
Gathered ==
    /\ walk = "listing" /\ phase \in Looking =>
         entries = FirstEntries(fresh.file, Entries(fresh.file, fresh.pos))
    /\ listing # {} =>
         \E f \in Files : List = Coalesced(f) /\ OfTheBound(f)

\* The listing takes in what starts at the header, and nothing else.
LEMMA OneMoreEntry ==
  ASSUME Course, Gathered, Collects
  PROVE  entries' = FirstEntries(fresh'.file, Entries(fresh'.file, fresh'.pos))
<1> DEFINE f == fresh.file
           k == fresh.cur
           n == Entries(f, k)
<1>1. /\ f \in Files /\ fresh \in Handles /\ k \in DOMAIN f.headers
      /\ fresh.pos = k /\ phase \in Looking /\ walk = "listing"
      /\ Header = f.headers[k]
  BY DEF Collects, Course, Typed, Positioned, Looking, Header, HeaderOf
<1>2. fresh'.file = f /\ fresh'.pos = k + 1
  BY <1>1, Moves DEF Collects
<1>3. /\ n \in Nat
      /\ k \in Firsts(f) <=> ~Continues(f.headers[k], n)
      /\ k \notin Firsts(f) => Entries(f, k + 1) = n
      /\ k \in Firsts(f) => /\ Entries(f, k + 1) = n + 1
                            /\ Coalesced(f)[n + 1] = EntryOf(f.headers[k])
  BY <1>1, EntriesGrow
<1>4. entries = FirstEntries(f, n)
  BY <1>1 DEF Gathered
<1>5. Len(entries) = n
  BY <1>3, <1>4 DEF FirstEntries
<1>6. entries' = IF Continues(Header, Len(entries)) THEN entries
                 ELSE Append(entries, EntryOf(Header))
  BY DEF Collects
<1>7. CASE k \notin Firsts(f)
  BY <1>1, <1>2, <1>3, <1>4, <1>5, <1>6, <1>7
<1>8. CASE k \in Firsts(f)
  <2>1. entries' = Append(entries, Coalesced(f)[n + 1])
    BY <1>1, <1>3, <1>5, <1>6, <1>8
  <2>2. Append(FirstEntries(f, n), Coalesced(f)[n + 1]) = FirstEntries(f, n + 1)
    <3> DEFINE s == FirstEntries(f, n)
    <3>1. /\ s \in Seq({s[e] : e \in 1..n}) /\ Len(s) = n
          /\ \A e \in 1..n : s[e] = Coalesced(f)[e]
      BY <1>3 DEF FirstEntries
    <3>2. Append(s, Coalesced(f)[n + 1]) =
            [e \in 1..(n + 1) |-> IF e = n + 1 THEN Coalesced(f)[n + 1]
                                  ELSE s[e]]
      <4> HIDE DEF s
      <4>. QED
        BY <1>3, <3>1
    <3>3. \A e \in 1..(n + 1) : e # n + 1 => e \in 1..n
      BY <1>3
    <3> HIDE DEF s
    <3>. QED
      BY <3>1, <3>2, <3>3 DEF FirstEntries
  <2>. QED
    BY <1>2, <1>3, <1>4, <1>8, <2>1, <2>2
<1>. QED
  BY <1>7, <1>8

LEMMA GatheredStep ==
  ASSUME Course, Opened, Gathered, [Next]_vars
  PROVE  Gathered'
<1> USE DEF Keeps, Gathered
<1>1. Kind /\ UNCHANGED identity
  BY StepKinds DEF Kind, Still, Call, Turns, Opens, Binds, Reads, Exhausts,
     Collects, Skips, Begins, Passes, Notes, HandsOut, Succeeds, Quits,
     ListEnds, RecoveryWalk, subject
<1>2. (listing # {} => \E f \in Files : List = Coalesced(f) /\ OfTheBound(f))'
  <2>1. CASE UNCHANGED listing
    BY <1>1, <2>1 DEF List, OfTheBound
  <2>2. CASE ListEnds
    <3>1. phase = "end" /\ walk = "listing" /\ listing' = {entries}
      BY <2>2 DEF ListEnds
    <3>2. /\ fresh.file \in Files /\ OfTheBound(fresh.file)
          /\ fresh.pos \in Nat /\ fresh.pos > Len(fresh.file.headers)
          /\ entries = FirstEntries(fresh.file, Entries(fresh.file, fresh.pos))
      BY <3>1 DEF Opened, Looking, Course, Typed, Positioned, Handles
    <3>3. entries = FirstEntries(fresh.file, Cardinality(Firsts(fresh.file)))
      BY <3>2, EntriesEnd
    <3>4. FirstEntries(fresh.file, Cardinality(Firsts(fresh.file)))
            = Coalesced(fresh.file)
      BY <3>2, FirstsListed DEF FirstEntries
    <3>5. List' = entries
      BY <3>1 DEF List
    <3>. QED
      BY <1>1, <3>2, <3>3, <3>4, <3>5 DEF OfTheBound
  <2>. QED
    BY <1>1, <2>1, <2>2 DEF Kind, Still, Rests, Call, Turns, Opens, Binds,
       Reads, Exhausts, Collects, Skips, Begins, Passes, Notes, HandsOut,
       Succeeds, Quits, RecoveryWalk
<1>3. ASSUME walk' = "listing", phase' \in Looking
      PROVE  entries' = FirstEntries(fresh'.file, Entries(fresh'.file, fresh'.pos))
  <2>1. CASE phase \in Looking /\ UNCHANGED <<walk, fresh, entries>>
    BY <1>3, <2>1
  <2>2. CASE Collects
    BY <2>2, OneMoreEntry
  <2>3. CASE Binds
    <3>1. fresh' = fresh /\ fresh.pos = 1 /\ fresh.file \in Files
          /\ entries' = <<>>
      BY <2>3 DEF Binds, Course, Positioned
    <3>2. Entries(fresh.file, 1) = 0
      BY <3>1, EntriesEnd
    <3>. QED
      BY <3>1, <3>2 DEF FirstEntries
  <2>4. CASE Reads
    <3>1. fresh'.file = fresh.file /\ fresh'.pos = fresh.pos
          /\ entries' = entries /\ phase \in Looking /\ walk' = walk
      BY <2>4 DEF Reads, Course, Typed, Handles, Looking
    <3>. QED
      BY <1>3, <3>1
  <2>5. CASE Still
    BY <1>3, <2>1, <2>5 DEF Still, Rests
  <2>6. CASE Exhausts \/ Begins
    BY <2>1, <2>6 DEF Exhausts, Begins, Rests, Looking
  <2>7. CASE Skips \/ Passes \/ Notes
    BY <1>3, <2>7 DEF Skips, Passes, Notes, Course, Underway
  <2>8. CASE \/ Call \/ Turns \/ Opens \/ HandsOut \/ Succeeds \/ Quits
             \/ ListEnds \/ RecoveryWalk
    <3>1. phase' \in {"recovery", "memo", "check", "capture", "open",
                      "recovering", "opened", "done"}
      BY <2>8 DEF Call, Turns, Capture, Opens, HandsOut, Succeeds, Quits,
         ListEnds, RecoveryWalk, Return
    <3>. QED
      BY <1>3, <3>1 DEF Looking
  <2>. QED
    BY <1>1, <2>2, <2>3, <2>4, <2>5, <2>6, <2>7, <2>8 DEF Kind
<1>. QED
  BY <1>2, <1>3

\* A decode that went well gave the entry whole.
LEMMA DecodesWhole ==
  ASSUME Course, phase = "decoding", Decoded, Code = "success",
         fresh.cur \in Firsts(fresh.file), Header.kind # "link"
  PROVE  decoded = Decodes(fresh.file, fresh.cur)
<1> DEFINE f == fresh.file
           k == fresh.cur
<1>1. /\ f \in Files /\ k \in DOMAIN f.headers /\ Header = f.headers[k]
  BY DEF Course, Positioned, Looking, Header, HeaderOf
<1>2. /\ Header.kind \in Kinds /\ Header.before \in BOOLEAN
      /\ Parts(f.headers) /\ DOMAIN f.headers = 1..Len(f.headers)
      /\ Len(f.headers) \in Nat
  BY <1>1, FileTyped
<1>3. decoded = Reach /\ Gap = {} /\ ~Broken
  BY DEF Decoded, Code
<1>4. CASE Header.kind = "file"
  <2>1. ~Header.before
    <3>1. Header.before => k = 1
      BY <1>1, <1>2 DEF Firsts
    <3>. QED
      BY <1>2, <1>3, <3>1 DEF Broken, NeedsPrevious
  <2>. QED
    BY <1>3, <1>4, <2>1 DEF Reach
<1>5. CASE Header.kind # "file"
  <2>1. Header.kind = "dir" /\ Reach = 0
    BY <1>2, <1>5 DEF Kinds, Reach
  <2>2. Header.units = 0 /\ ~Header.after
    BY <1>1, <1>2, <2>1 DEF Parts
  <2>3. LastPart(f, k) = k
    BY <1>1, <2>2, PartsReach
  <2>4. k..k = {} \union {k} /\ Units(f)[k] = 0
    BY <1>1, <1>2, <2>2 DEF Units
  <2>5. SumOver(Units(f), {} \union {k}) = Units(f)[k] + SumOver(Units(f), {})
    <3>1. IsFiniteSet({}) /\ k \notin {}
      BY FS_EmptySet
    <3>2. \A x \in {} \union {k} : Units(f)[x] \in Int
      BY <2>4
    <3>. QED
      BY <3>1, <3>2, SumPutsIn
  <2>6. Decodes(f, k) = 0
    BY <2>3, <2>4, <2>5, SumEmpty DEF Decodes
  <2>. QED
    BY <1>3, <2>1, <2>6
<1>. QED
  BY <1>4, <1>5

\* A sequence and one element more.
LEMMA AppendOne ==
  ASSUME NEW S, NEW s \in Seq(S), NEW x \in S, NEW n, n = Len(s)
  PROVE  Append(s, x) = [i \in 1..(n + 1) |-> IF i = n + 1 THEN x ELSE s[i]]
<1>1. /\ Append(s, x) \in Seq(S) /\ n \in Nat /\ Len(Append(s, x)) = n + 1
      /\ \A i \in 1..n : Append(s, x)[i] = s[i]
      /\ Append(s, x)[n + 1] = x
  OBVIOUS
<1>2. \A t \in Seq(S) : t \in [1..Len(t) -> S]
  OBVIOUS
<1>3. Append(s, x) \in [1..(n + 1) -> S]
  BY <1>1, <1>2
<1>4. \A i \in 1..(n + 1) : i # n + 1 => i \in 1..n
  BY <1>1
<1>5. \A i \in 1..(n + 1) :
        Append(s, x)[i] = IF i = n + 1 THEN x ELSE s[i]
  BY <1>1, <1>4
<1>. QED
  BY <1>3, <1>5

\* The entries up to m that extract_all is to write.
Wanted(f, m) ==
    {i \in 1..m : i \in call.selection /\ Coalesced(f)[i].kind # "link"}

IdsOf(s) == [i \in DOMAIN s |-> s[i].id]

\* They were written, each whole, and nothing else.
Wrote(f, m) ==
    /\ IdsOf(installed) = Ascending(Wanted(f, m))
    /\ \A i \in DOMAIN installed :
         installed[i].units = Whole(f, installed[i].id)

\* They have the names of the listing.
SameNames(f, m) ==
    \A e \in 1..m : e \in DOMAIN List /\ List[e].name = Coalesced(f)[e].name

Marching ==
    call.op = "extract_all" =>
      /\ walk = "call" /\ phase \in Looking =>
           /\ SameNames(fresh.file, idx)
           /\ phase # "decoding" =>
                /\ idx = Entries(fresh.file, fresh.pos)
                /\ Wrote(fresh.file, idx)
           /\ phase = "decoding" =>
                /\ fresh.cur \in Firsts(fresh.file)
                /\ idx = Entries(fresh.file, fresh.pos) + 1
                /\ idx \in call.selection /\ Header.kind # "link"
                /\ Wrote(fresh.file, idx - 1)
      /\ Completed =>
           /\ walk = "call"
           /\ idx = Cardinality(Firsts(fresh.file)) /\ idx = Len(List)
           /\ SameNames(fresh.file, idx) /\ Wrote(fresh.file, idx)

LEMMA WantedListed ==
  ASSUME NEW f, NEW m \in Nat
  PROVE  /\ Wanted(f, m) \in SUBSET Nat /\ IsFiniteSet(Wanted(f, m))
         /\ \A i \in Wanted(f, m) : i < m + 1
         /\ Wanted(f, m + 1) =
              IF (m + 1) \in call.selection /\ Coalesced(f)[m + 1].kind # "link"
              THEN Wanted(f, m) \union {m + 1} ELSE Wanted(f, m)
<1>1. Wanted(f, m) \in SUBSET (1..m)
  BY DEF Wanted
<1>2. Wanted(f, m) \in SUBSET Nat /\ IsFiniteSet(Wanted(f, m))
  BY <1>1, PartOfRun
<1>3. 1..(m + 1) = (1..m) \union {m + 1}
  OBVIOUS
<1>. QED
  BY <1>1, <1>2, <1>3 DEF Wanted

\* A decode of a wanted entry goes well: it was written, and the walk is
\* behind its last part.
LEMMA OneMoreWritten ==
  ASSUME Course, Marching, Passes, call.op = "extract_all"
  PROVE  /\ SameNames(fresh.file, idx)' /\ idx' = Entries(fresh.file, fresh.pos)'
         /\ Wrote(fresh.file, idx)'
<1> DEFINE f == fresh.file
           k == fresh.cur
           m == idx - 1
           piece == [id |-> idx, name |-> Header.name, units |-> decoded,
                     from |-> f]
           n == Len(installed)
<1>1. /\ phase = "decoding" /\ walk = "call" /\ Decoded /\ Code = "success"
      /\ fresh' = Passed /\ Written(decoded)
      /\ UNCHANGED <<call, listing, idx>> /\ phase \in Looking
  BY DEF Passes, Keeps, Course, Underway, Looking
<1>2. /\ f \in Files /\ fresh \in Handles /\ k \in DOMAIN f.headers
      /\ fresh.pos = k /\ Header = f.headers[k] /\ idx \in Nat
      /\ installed \in Seq(Pieces)
  BY <1>1 DEF Course, Typed, Positioned, Looking, Header, HeaderOf
<1>3. /\ SameNames(f, idx) /\ k \in Firsts(f) /\ idx = Entries(f, k) + 1
      /\ idx \in call.selection /\ Header.kind # "link" /\ Wrote(f, m)
  BY <1>1, <1>2 DEF Marching
<1>4. fresh'.file = f /\ fresh'.pos = LastPart(f, k) + 1
  BY <1>1, <1>2, Moves
<1>5. /\ Entries(f, k) \in Nat
      /\ Entries(f, LastPart(f, k) + 1) = idx /\ idx \in 1..Cardinality(Firsts(f))
      /\ Ascending(Firsts(f))[idx] = k /\ Coalesced(f)[idx] = EntryOf(f.headers[k])
  BY <1>2, <1>3, EntriesGrow
<1>6. decoded = Whole(f, idx)
  BY <1>1, <1>3, <1>5, DecodesWhole DEF Whole
<1>7. m \in Nat /\ m + 1 = idx
  BY <1>3, <1>5
<1>8. Coalesced(f)[idx].kind # "link"
  BY <1>2, <1>3, <1>5 DEF EntryOf
<1>9. installed' = Append(installed, piece)
  BY <1>1 DEF Written
<1>10. /\ n \in Nat /\ DOMAIN installed = 1..n /\ DOMAIN installed' = 1..(n + 1)
       /\ \A i \in 1..n : installed'[i] = installed[i]
       /\ installed'[n + 1] = piece
       /\ \A i \in 1..(n + 1) : i \in 1..n \/ i = n + 1
  BY <1>2, <1>9
<1>11. piece.id = idx /\ piece.units = decoded
  OBVIOUS
<1> HIDE DEF piece
<1>12. IdsOf(installed') = Append(IdsOf(installed), idx)
  <2>2. Append(IdsOf(installed), idx) =
          [i \in 1..(n + 1) |-> IF i = n + 1 THEN idx ELSE IdsOf(installed)[i]]
    <3> DEFINE s == IdsOf(installed)
    <3>1. s \in Seq(Nat) /\ Len(s) = n /\ n \in Nat /\ idx \in Nat
      <4>1. \A i \in 1..n : installed[i] \in Pieces
        BY <1>2, <1>10
      <4>2. \A i \in 1..n : installed[i].id \in Nat
        BY <4>1 DEF Pieces
      <4>. QED
        BY <1>2, <1>10, <4>2 DEF IdsOf
    <3>. QED
      BY <3>1, AppendOne
  <2>3. \A i \in 1..n : IdsOf(installed)[i] = installed[i].id
    BY <1>10 DEF IdsOf
  <2>4. IdsOf(installed') =
          [i \in 1..(n + 1) |-> IF i = n + 1 THEN idx ELSE IdsOf(installed)[i]]
    BY <1>10, <1>11, <2>3 DEF IdsOf
  <2>. QED
    BY <2>2, <2>4
<1>13. IdsOf(installed') = Ascending(Wanted(f, idx))
  <2>1. /\ Wanted(f, m) \in SUBSET Nat /\ IsFiniteSet(Wanted(f, m))
        /\ \A i \in Wanted(f, m) : i < idx
        /\ Wanted(f, idx) = Wanted(f, m) \union {idx}
    <3>1. idx \in call.selection
      BY <1>3
    <3>2. /\ Wanted(f, m) \in SUBSET Nat /\ IsFiniteSet(Wanted(f, m))
          /\ \A i \in Wanted(f, m) : i < m + 1
          /\ Wanted(f, m + 1) =
               IF (m + 1) \in call.selection
                    /\ Coalesced(f)[m + 1].kind # "link"
               THEN Wanted(f, m) \union {m + 1} ELSE Wanted(f, m)
      BY <1>7, WantedListed, Zenon
    <3>. QED
      BY <1>7, <1>8, <3>1, <3>2
  <2>2. Ascending(Wanted(f, m) \union {idx}) = Append(Ascending(Wanted(f, m)), idx)
    BY <1>2, <2>1, AscendingAppends
  <2>. QED
    BY <1>3, <1>12, <2>1, <2>2 DEF Wrote
<1>14. \A i \in DOMAIN installed' : installed'[i].units = Whole(f, installed'[i].id)
  BY <1>3, <1>6, <1>10, <1>11 DEF Wrote
<1>15. Wanted(f, idx)' = Wanted(f, idx) /\ UNCHANGED List
  BY <1>1, <1>4 DEF Wanted, List
<1>. QED
  BY <1>1, <1>3, <1>4, <1>5, <1>13, <1>14, <1>15 DEF Wrote, SameNames

LEMMA MarchingStep ==
  ASSUME Course, Marching, [Next]_vars
  PROVE  Marching'
<1> USE DEF Keeps
<1>1. Kind
  BY StepKinds
<1> SUFFICES ASSUME call'.op = "extract_all" PROVE Marching'
  BY DEF Marching
<1>2. ASSUME UNCHANGED <<call, listing, installed, fresh, idx>>
      PROVE  /\ Wrote(fresh.file, idx)' <=> Wrote(fresh.file, idx)
             /\ Wrote(fresh.file, idx - 1)' <=> Wrote(fresh.file, idx - 1)
             /\ SameNames(fresh.file, idx)' <=> SameNames(fresh.file, idx)
  BY <1>2 DEF Wrote, SameNames, Wanted, List
<1>3. CASE Still
  <2>1. UNCHANGED <<call, listing, installed, fresh, idx, phase, walk, result>>
    BY <1>3 DEF Still, Rests
  <2>. QED
    BY <1>2, <2>1 DEF Marching, Completed, List, Header, HeaderOf
<1>4. CASE \/ Call \/ Turns \/ Opens \/ HandsOut \/ Quits \/ ListEnds
           \/ RecoveryWalk \/ Collects \/ Notes
  <2>1. walk' = "listing" \/ phase' \notin Looking
    BY <1>4 DEF Call, Turns, Capture, Opens, HandsOut, Quits, ListEnds,
       RecoveryWalk, Collects, Notes, Return, Looking
  <2>2. ~Completed'
    BY <1>4 DEF Call, Turns, Capture, Opens, HandsOut, Quits, ListEnds,
       RecoveryWalk, Collects, Notes, Return, Completed, Single, Course,
       Underway
  <2>. QED
    BY <2>1, <2>2 DEF Marching
<1>5. CASE Binds
  <2>1. /\ fresh' = fresh /\ fresh.pos = 1 /\ fresh.file \in Files
        /\ phase' = "header" /\ idx' = 0 /\ installed' = <<>>
    BY <1>5 DEF Binds, Course, Positioned, Underway, Early
  <2>2. Entries(fresh'.file, fresh'.pos) = 0
    BY <2>1, EntriesEnd
  <2>3. Wanted(fresh.file, idx)' = {}
    BY <2>1 DEF Wanted
  <2>4. IdsOf(installed') = <<>>
    BY <2>1 DEF IdsOf
  <2>5. Wrote(fresh.file, idx)'
    BY <2>1, <2>3, <2>4, AscendingEmpty DEF Wrote
  <2>6. SameNames(fresh.file, idx)'
    BY <2>1 DEF SameNames
  <2>. QED
    BY <2>1, <2>2, <2>5, <2>6 DEF Marching, Completed
<1>6. CASE Reads
  <2>1. /\ fresh'.file = fresh.file /\ fresh'.pos = fresh.pos
        /\ phase = "header" /\ phase' = "dispose"
        /\ UNCHANGED <<call, listing, installed, idx, walk>>
    BY <1>6 DEF Reads, Course, Typed, Handles
  <2>2. /\ Wrote(fresh.file, idx) => Wrote(fresh.file, idx)'
        /\ SameNames(fresh.file, idx) => SameNames(fresh.file, idx)'
    BY <2>1 DEF Wrote, SameNames, Wanted, List
  <2>. QED
    BY <2>1, <2>2 DEF Marching, Completed, Looking
<1>7. CASE Exhausts
  <2>1. /\ phase = "header" /\ phase' = "end"
        /\ UNCHANGED <<call, listing, installed, fresh, idx, walk>>
    BY <1>7 DEF Exhausts, Rests
  <2>. QED
    BY <1>2, <2>1 DEF Marching, Completed, Looking
<1>8. CASE (Skips \/ Begins) /\ walk = "call"
  <2> DEFINE f == fresh.file
             k == fresh.cur
             n == Entries(f, k)
  <2>1. /\ f \in Files /\ fresh \in Handles /\ k \in DOMAIN f.headers
        /\ fresh.pos = k /\ Header = f.headers[k] /\ idx \in Nat
        /\ phase = "dispose" /\ phase \in Looking
        /\ UNCHANGED <<call, listing, installed, walk>>
        /\ call.op = "extract_all"
    BY <1>8 DEF Skips, Begins, Course, Typed, Positioned, Looking, Header,
       HeaderOf
  <2>2. SameNames(f, idx) /\ idx = n /\ Wrote(f, idx)
    BY <1>8, <2>1 DEF Marching
  <2>3. /\ n \in Nat
        /\ k \in Firsts(f) <=> ~Continues(Header, idx)
        /\ k \notin Firsts(f) => Entries(f, k + 1) = n
        /\ k \in Firsts(f) => /\ Entries(f, k + 1) = n + 1
                              /\ Coalesced(f)[n + 1] = EntryOf(Header)
    BY <2>1, <2>2, EntriesGrow
  <2>4. UNCHANGED List
    BY <2>1 DEF List
  <2>5. CASE Begins
    <3>1. /\ ~Continues(Header, idx) /\ idx' = idx + 1 /\ Named(idx + 1)
          /\ idx + 1 \in call.selection /\ Header.kind # "link"
          /\ fresh' = fresh /\ phase' = "decoding"
      BY <2>1, <2>5 DEF Begins, Single
    <3>2. SameNames(f, idx + 1)
      <4>1. \A e \in 1..(idx + 1) : e \in 1..idx \/ e = idx + 1
        BY <2>1
      <4>. QED
        BY <2>2, <2>3, <3>1, <4>1 DEF SameNames, Named, EntryOf
    <3>3. SameNames(fresh.file, idx)'
      BY <2>4, <3>1, <3>2 DEF SameNames
    <3>4. idx' - 1 = idx
      BY <2>1, <3>1
    <3>5. Wrote(fresh.file, idx - 1)'
      BY <2>1, <2>2, <3>1, <3>4 DEF Wrote, Wanted
    <3>. QED
      BY <2>1, <2>2, <2>3, <3>1, <3>3, <3>5 DEF Marching, Completed, Header,
         HeaderOf
  <2>6. CASE Skips
    <3>1. /\ fresh'.file = f /\ fresh'.pos = k + 1 /\ phase' = "header"
      BY <2>1, <2>6, Moves DEF Skips
    <3>2. CASE Continues(Header, idx) /\ idx' = idx
      <4>1. Wrote(fresh.file, idx)' /\ SameNames(fresh.file, idx)'
        BY <2>1, <2>2, <2>4, <3>1, <3>2 DEF Wrote, Wanted, SameNames
      <4>. QED
        BY <2>1, <2>2, <2>3, <3>1, <3>2, <4>1 DEF Marching, Completed
    <3>3. CASE /\ ~Continues(Header, idx) /\ idx' = idx + 1 /\ Named(idx + 1)
               /\ idx + 1 \notin call.selection \/ Header.kind = "link"
      <4>1. SameNames(f, idx + 1)
        <5>1. \A e \in 1..(idx + 1) : e \in 1..idx \/ e = idx + 1
          BY <2>1
        <5>. QED
          BY <2>2, <2>3, <3>3, <5>1 DEF SameNames, Named, EntryOf
      <4>2. Wanted(f, idx + 1) = Wanted(f, idx)
        <5>1. Coalesced(f)[idx + 1].kind = Header.kind
          BY <2>2, <2>3, <3>3 DEF EntryOf
        <5>. QED
          BY <2>1, <3>3, <5>1, WantedListed
      <4>3. SameNames(fresh.file, idx)'
        BY <2>4, <3>1, <3>3, <4>1 DEF SameNames
      <4>4. Wanted(fresh.file, idx)' = Wanted(f, idx)
        BY <2>1, <3>1, <3>3, <4>2 DEF Wanted
      <4>5. Wrote(fresh.file, idx)'
        BY <2>1, <2>2, <3>1, <4>4 DEF Wrote
      <4>. QED
        BY <2>1, <2>2, <2>3, <3>1, <3>3, <4>3, <4>5 DEF Marching, Completed
    <3>. QED
      BY <2>1, <2>6, <3>2, <3>3 DEF Skips, Single
  <2>. QED
    BY <1>8, <2>5, <2>6
<1>9. CASE Passes
  <2>1. call.op = "extract_all" /\ phase' = "header"
    BY <1>9 DEF Passes
  <2>. QED
    BY <1>9, <2>1, OneMoreWritten DEF Marching, Completed
<1>10. CASE Succeeds
  <2>1. CASE phase = "end" /\ walk = "call" /\ idx = Len(List)
    <3>1. /\ fresh'.file = fresh.file /\ phase' = "done"
          /\ UNCHANGED <<call, listing, installed, idx, walk>>
          /\ call.op = "extract_all"
      BY <1>10 DEF Succeeds, Closed, Course, Typed, Handles
    <3>2. /\ fresh.file \in Files /\ fresh.pos \in Nat
          /\ fresh.pos > Len(fresh.file.headers)
      BY <2>1 DEF Course, Typed, Positioned, Handles, Looking
    <3>3. /\ SameNames(fresh.file, idx) /\ Wrote(fresh.file, idx)
          /\ idx = Entries(fresh.file, fresh.pos)
      BY <2>1, <3>1 DEF Marching, Looking
    <3>4. idx = Cardinality(Firsts(fresh.file))
      BY <3>2, <3>3, EntriesEnd
    <3>5. UNCHANGED List
      BY <3>1 DEF List
    <3>6. Wrote(fresh.file, idx)' /\ SameNames(fresh.file, idx)'
      BY <3>1, <3>3, <3>5 DEF Wrote, Wanted, SameNames
    <3>. QED
      BY <2>1, <3>1, <3>4, <3>5, <3>6 DEF Marching, Looking
  <2>2. CASE call.op # "extract_all"
    BY <1>10, <2>2 DEF Succeeds
  <2>. QED
    BY <1>10, <2>1, <2>2 DEF Succeeds, Course, Underway
<1>11. (Skips \/ Begins) => walk = "call"
  BY DEF Skips, Begins
<1>. QED
  BY <1>1, <1>3, <1>4, <1>5, <1>6, <1>7, <1>8, <1>9, <1>10, <1>11 DEF Kind

\* What extract_all has done when it says ok.
LEMMA CompleteFollows ==
  ASSUME Course, Opened, Gathered, Marching
  PROVE  CompleteOnOk
<1> SUFFICES ASSUME call.op = "extract_all", result = "ok" PROVE CompleteOnOk
  BY DEF CompleteOnOk
<1> DEFINE f == fresh.file
           all == Coalesced(f)
           wanted == {i \in DOMAIN all :
                        i \in call.selection /\ all[i].kind # "link"}
<1>1. Completed
  BY DEF Completed, Course, TypeOK
<1>2. /\ f \in Files /\ OfTheBound(f)
      /\ idx = Cardinality(Firsts(f)) /\ idx = Len(List)
      /\ SameNames(f, idx) /\ Wrote(f, idx)
  BY <1>1 DEF Opened, Marching
<1>3. DOMAIN all = 1..idx /\ Len(all) = idx
  BY <1>2, FirstsListed
<1>4. wanted = Wanted(f, idx)
  BY <1>3 DEF Wanted
<1>5. [i \in DOMAIN installed |-> installed[i].id] = Ascending(wanted)
  BY <1>2, <1>4 DEF Wrote, IdsOf
<1>6. \A i \in DOMAIN all : all[i].name = List[i].name
  BY <1>2, <1>3 DEF SameNames
<1>7. ASSUME identity # {}, OnlyReplaced(f) PROVE all = List
  <2>1. listing # {}
    <3>1. walk = "call"
      BY <1>1 DEF Marching
    <3>. QED
      BY <3>1 DEF Course, Underway, Listed
  <2>2. PICK g \in Files : List = Coalesced(g) /\ OfTheBound(g)
    BY <2>1 DEF Gathered
  <2>3. g.id.inode = f.id.inode
    BY <1>2, <1>7, <2>2 DEF OfTheBound
  <2>. QED
    BY <1>7, <2>2, <2>3 DEF OnlyReplaced
<1> HIDE DEF all, wanted
<1>. QED
  BY <1>2, <1>3, <1>5, <1>6, <1>7 DEF CompleteOnOk, Wrote, all, wanted

\* extract_all says ok only when every selected entry was written once, in
\* order and whole, of a file with as many entries as the listing and under
\* the same names; the very entries of the listing, when the handle is bound
\* and its file was not rewritten in place.
THEOREM OkIsComplete == Spec => []CompleteOnOk
<1>1. Init => Opened /\ Gathered /\ Marching
  BY FileTyped DEF Init, Opened, Gathered, Marching, Looking, Completed, NoCall
<1>2. Course /\ Opened /\ Gathered /\ Marching /\ [Next]_vars
        => Opened' /\ Gathered' /\ Marching'
  BY OpenedStep, GatheredStep, MarchingStep
<1>3. Course /\ Opened /\ Gathered /\ Marching => CompleteOnOk
  BY CompleteFollows
<1>. QED
  BY <1>1, <1>2, <1>3, CourseHolds, PTL DEF Spec

-----------------------------------------------------------------------------
(* Creation through rar: ExternalRar.  The inductive invariant.            *)

Steps == {"start", "assemble", "ready", "check", "probe", "recheck", "run",
          "child", "classify", "verify", "done"}
BeforeRun == {"start", "assemble", "ready", "check", "probe", "recheck", "run"}

\* What may stand at the output path; nobody's file is no file.
IsOutput(o) ==
    /\ o \in [by : {"nobody", "other", "child"}, holds : SUBSET Sources,
              spoiled : BOOLEAN]
    /\ o.by = "nobody" => o = NoOutput

\* The types of the state.
Types ==
    /\ binaries \in [Places -> Programs \union {NoProgram}]
    /\ present \subseteq Sources
    /\ dirs \in SearchLists
    /\ pc \in Steps
    /\ creator \in [exe : Places \union {"none"}, entries : Seq(Sources),
                    password : Passwords \union {"none"}]
    /\ child \in [program : Programs \union {NoProgram},
                  made : SUBSET Sources,
                  code : {"running", "success", "warning", "error", "none"}]
    /\ child.made \subseteq NamedSources
    /\ IsOutput(out) /\ touched \in BOOLEAN
    /\ pc = "done" <=> returned # "none"

\* No rar runs before the step that starts it.
Unstarted ==
    /\ pc \in BeforeRun => child = NoChild
    /\ pc \in {"child", "classify", "verify"} => child.program # NoProgram

\* Past the start a program was found, past the build its arguments were.
Prepared ==
    /\ pc \notin {"start", "done"} => creator.exe \in Places
    /\ pc \notin {"start", "assemble", "ready", "done"} => Expressible
    /\ child # NoChild => Expressible

\* A success is what the exit code said, and rar says it of a whole archive.
Succeeded ==
    /\ child.code = "success" => child.made = NamedSources
    /\ pc = "verify" \/ returned = "Ok" =>
         Expressible /\ child.code = "success"

\* The program that named itself is the one at its place, unless it was
\* changed; the one that runs is that program.
IsIdentified(p) == p.flavor = "rar" /\ p.major >= 5
Identified ==
    ~swapped => /\ pc \in {"recheck", "run"} =>
                     IsIdentified(binaries[creator.exe])
                /\ child # NoChild => IsIdentified(child.program)

\* From the last look on, the file at the output path is what rar made of
\* it, unless others touched it.
Window ==
    /\ (PastLastLook \/ returned = "Ok") /\ ~touched =>
         out.by # "other" /\ out.holds = child.made
    /\ returned = "Ok" /\ ~touched => out.by # "nobody"
    /\ OthersSpared

RarInv ==
    Types /\ Unstarted /\ Prepared /\ Succeeded /\ Identified /\ Window

\* The binary is in a directory of the list.
LEMMA FoundInPlace ==
  ASSUME dirs \in SearchLists, NEW place \in search_dirs
  PROVE  place \in Places
<1> DEFINE hits == {i \in DOMAIN dirs : Absolute(dirs[i]) /\ is_file(dirs[i])}
<1>1. dirs \in Seq(Places \union {"."})
  BY SearchAssumption
<1>2. hits \in SUBSET Nat /\ hits # {} /\ place = dirs[Min(hits)]
  BY <1>1 DEF search_dirs
<1>3. \E m \in hits : \A y \in hits : m <= y
  <2> HIDE DEF hits
  <2>. QED
    BY <1>2, HasLeast
<1>4. Min(hits) \in hits
  BY <1>3 DEF Min
<1>. QED
  BY <1>1, <1>2, <1>4 DEF Absolute

\* What others may do between two steps.
LEMMA Meddling ==
  ASSUME Meddle
  PROVE  /\ UNCHANGED <<dirs, pc, creator, child, returned>> /\ pc # "done"
         /\ \/ /\ \E place \in Places, p \in Programs \union {NoProgram} :
                    /\ binaries' = [binaries EXCEPT ![place] = p]
                    /\ swapped' = (swapped \/ place = creator.exe)
               /\ UNCHANGED <<present, out, touched>>
            \/ /\ present' \subseteq present
               /\ UNCHANGED <<binaries, out, touched, swapped>>
            \/ /\ out' \in {NoOutput, OthersFile}
               /\ touched' = (touched \/ PastLastLook)
               /\ UNCHANGED <<binaries, present, swapped>>
<1>1. /\ UNCHANGED <<dirs, pc, creator, child, returned>> /\ pc # "done"
      /\ \/ /\ \E place \in Places, p \in Programs \union {NoProgram} :
                 /\ binaries' = [binaries EXCEPT ![place] = p]
                 /\ swapped' = (swapped \/ place = creator.exe)
            /\ UNCHANGED <<present, out, touched>>
         \/ /\ \E s \in present : present' = present \ {s}
            /\ UNCHANGED <<binaries, out, touched, swapped>>
         \/ /\ out' = IF exists THEN NoOutput ELSE OthersFile
            /\ touched' = (touched \/ PastLastLook)
            /\ UNCHANGED <<binaries, present, swapped>>
  BY Zenon DEF Meddle
<1>2. (\E s \in present : present' = present \ {s}) => present' \subseteq present
  OBVIOUS
<1>. QED
  BY <1>1, <1>2

\* What rar writes is an archive of sources.
LEMMA ArchivedTyped ==
  ASSUME IsOutput(out), NEW s \in Sources
  PROVE  /\ IsOutput(Archived(s)) /\ Archived(s).by # "nobody"
         /\ Archived(s).holds = out.holds \union {s}
         /\ Archived(s).spoiled <=> out.by = "other"
         /\ Archived(s).by = "other" <=> out.by = "other"
<1>1. /\ out.by \in {"nobody", "other", "child"}
      /\ out.holds \union {s} \in SUBSET Sources
  BY DEF IsOutput
<1>. QED
  BY <1>1 DEF IsOutput, Archived

\* No file, and another's file, are what may stand there.
LEMMA OthersTyped ==
  ASSUME NEW o \in {NoOutput, OthersFile}
  PROVE  IsOutput(o) /\ ~o.spoiled /\ o.holds = {}
<1>1. CASE o = NoOutput
  BY <1>1 DEF IsOutput, NoOutput
<1>2. CASE o = OthersFile
  BY <1>2 DEF IsOutput, OthersFile
<1>. QED
  BY <1>1, <1>2

-----------------------------------------------------------------------------
(* Creation through rar: the steps keep the invariant.                     *)

\* The types are kept.
LEMMA TypesStep == RarInv /\ [RarNext]_rarVars => Types'
<1> SUFFICES ASSUME RarInv, [RarNext]_rarVars PROVE Types'
  OBVIOUS
<1> USE DEF RarInv, world
<1>1. CASE UNCHANGED rarVars
  BY <1>1 DEF rarVars, Types, To, Refuse, Steps, NamedSources, NoChild,
     NoOutput, exists
<1>2. CASE New
  <2>1. \A place \in search_dirs : place \in Places
    BY FoundInPlace DEF Types
  <2>. QED
    BY <1>2, <2>1 DEF New, Types, To, Refuse, Steps, NamedSources
<1>3. CASE vet_program
  BY <1>3 DEF vet_program, Types, To, Refuse, Steps, NamedSources, Absolute
<1>4. CASE assemble
  BY <1>4 DEF assemble, Types, To, Refuse, Steps, NamedSources, NoChild,
     NoOutput, exists
<1>5. CASE Add
  <2>1. PICK s \in Sources :
          creator' = [creator EXCEPT !.entries = Append(@, s)]
    BY <1>5 DEF Add
  <2>2. creator'.entries \in Seq(Sources) /\ child = NoChild
    BY <1>5, <2>1 DEF Add, Types, Unstarted, BeforeRun
  <2>. QED
    BY <1>5, <2>1, <2>2 DEF Add, Types, NoChild
<1>6. CASE set_password
  BY <1>6 DEF set_password, Types, To, Refuse, Steps, NamedSources, NoChild,
     NoOutput, exists
<1>7. CASE build
  BY <1>7 DEF build, Types, To, Refuse, Steps, NamedSources, NoChild,
     NoOutput, exists
<1>8. CASE OutputFree
  BY <1>8 DEF OutputFree, Types, To, Refuse, Steps, NamedSources, NoChild,
     NoOutput, exists
<1>9. CASE probe_binary
  BY <1>9 DEF probe_binary, Types, To, Refuse, Steps, NamedSources, NoChild,
     NoOutput, exists
<1>10. CASE OutputStillFree
  BY <1>10 DEF OutputStillFree, Types, To, Refuse, Steps, NamedSources,
     NoChild, NoOutput, exists
<1>11. CASE run
  BY <1>11 DEF run, Types, To, Refuse, Steps, NamedSources, NoChild, Prepared
<1>12. CASE ChildAdds
  <2>1. PICK s \in (NamedSources \intersect present) \ child.made :
          /\ child' = [child EXCEPT !.made = @ \union {s}]
          /\ out' = Archived(s)
    BY <1>12 DEF ChildAdds
  <2>2. /\ child'.made = child.made \union {s} /\ s \in Sources
        /\ child' \in [program : Programs \union {NoProgram},
                      made : SUBSET Sources,
                      code : {"running", "success", "warning", "error", "none"}]
    BY <2>1 DEF Types
  <2>3. IsOutput(Archived(s))
    BY <2>2, ArchivedTyped DEF Types
  <2>. QED
    BY <1>12, <2>1, <2>2, <2>3 DEF ChildAdds, Types, NamedSources
<1>13. CASE ChildEnds
  <2>1. \E code \in {"success", "warning", "error", "none"} :
          child' = [child EXCEPT !.code = code]
    BY <1>13 DEF ChildEnds
  <2>2. /\ child'.made = child.made
        /\ child' \in [program : Programs \union {NoProgram},
                      made : SUBSET Sources,
                      code : {"running", "success", "warning", "error", "none"}]
    BY <2>1 DEF Types
  <2>. QED
    BY <1>13, <2>2 DEF ChildEnds, Types, To, Steps, NamedSources
<1>14. CASE Classify
  BY <1>14 DEF Classify, Types, To, Refuse, Steps, NamedSources, NoChild,
     NoOutput, exists
<1>15. CASE Verify
  BY <1>15 DEF Verify, Types, To, Refuse, Steps, NamedSources, NoChild,
     NoOutput, exists
<1>16. CASE Meddle
  <2>1. UNCHANGED <<dirs, pc, creator, child, returned>>
    BY <1>16, Meddling
  <2>2. present' \subseteq Sources
    BY <1>16, Meddling DEF Types
  <2>3. binaries' \in [Places -> Programs \union {NoProgram}]
    BY <1>16, Meddling DEF Types
  <2>4. IsOutput(out') /\ touched' \in BOOLEAN
    <3>1. CASE out' \in {NoOutput, OthersFile}
      BY <1>16, <3>1, Meddling, OthersTyped DEF Types, PastLastLook
    <3>2. CASE UNCHANGED <<out, touched>>
      BY <3>2 DEF Types
    <3>. QED
      BY <1>16, <3>1, <3>2, Meddling
  <2>. QED
    BY <2>1, <2>2, <2>3, <2>4 DEF Types, NamedSources
<1>. QED
  BY <1>1, <1>2, <1>3, <1>4, <1>5, <1>6, <1>7, <1>8, <1>9, <1>10, <1>11,
     <1>12, <1>13, <1>14, <1>15, <1>16 DEF RarNext

\* No rar runs early.
LEMMA UnstartedStep == RarInv /\ [RarNext]_rarVars => Unstarted'
<1> SUFFICES ASSUME RarInv, [RarNext]_rarVars PROVE Unstarted'
  OBVIOUS
<1> USE DEF RarInv, world
<1>1. CASE UNCHANGED rarVars
  BY <1>1 DEF rarVars, Unstarted, To, Refuse, BeforeRun, Steps, Types, NoChild,
     Prepared, NoProgram
<1>2. CASE New
  BY <1>2 DEF New, Unstarted, To, Refuse, BeforeRun, Steps, Types, NoChild,
     Prepared, NoProgram
<1>3. CASE vet_program
  BY <1>3 DEF vet_program, Unstarted, To, Refuse, BeforeRun, Steps, Types,
     NoChild, Prepared, NoProgram
<1>4. CASE assemble
  BY <1>4 DEF assemble, Unstarted, To, Refuse, BeforeRun, Steps, Types,
     NoChild, Prepared, NoProgram
<1>5. CASE Add
  BY <1>5 DEF Add, Unstarted, To, Refuse, BeforeRun, Steps, Types, NoChild,
     Prepared, NoProgram
<1>6. CASE set_password
  BY <1>6 DEF set_password, Unstarted, To, Refuse, BeforeRun, Steps, Types,
     NoChild, Prepared, NoProgram
<1>7. CASE build
  BY <1>7 DEF build, Unstarted, To, Refuse, BeforeRun, Steps, Types, NoChild,
     Prepared, NoProgram
<1>8. CASE OutputFree
  BY <1>8 DEF OutputFree, Unstarted, To, Refuse, BeforeRun, Steps, Types,
     NoChild, Prepared, NoProgram
<1>9. CASE probe_binary
  BY <1>9 DEF probe_binary, Unstarted, To, Refuse, BeforeRun, Steps, Types,
     NoChild, Prepared, NoProgram
<1>10. CASE OutputStillFree
  BY <1>10 DEF OutputStillFree, Unstarted, To, Refuse, BeforeRun, Steps, Types,
     NoChild, Prepared, NoProgram
<1>11. CASE run
  BY <1>11 DEF run, Unstarted, To, Refuse, BeforeRun, Steps, Types, NoChild,
     Prepared, NoProgram
<1>12. CASE ChildAdds
  BY <1>12 DEF ChildAdds, Unstarted, To, Refuse, BeforeRun, Steps, Types,
     NoChild, Prepared, NoProgram
<1>13. CASE ChildEnds
  BY <1>13 DEF ChildEnds, Unstarted, To, Refuse, BeforeRun, Steps, Types,
     NoChild, Prepared, NoProgram
<1>14. CASE Classify
  BY <1>14 DEF Classify, Unstarted, To, Refuse, BeforeRun, Steps, Types,
     NoChild, Prepared, NoProgram
<1>15. CASE Verify
  BY <1>15 DEF Verify, Unstarted, To, Refuse, BeforeRun, Steps, Types, NoChild,
     Prepared, NoProgram
<1>16. CASE Meddle
  BY <1>16 DEF Meddle, Unstarted, To, Refuse, BeforeRun, Steps, Types, NoChild,
     Prepared, NoProgram
<1>. QED
  BY <1>1, <1>2, <1>3, <1>4, <1>5, <1>6, <1>7, <1>8, <1>9, <1>10, <1>11,
     <1>12, <1>13, <1>14, <1>15, <1>16 DEF RarNext

\* What runs was prepared.
LEMMA PreparedStep == RarInv /\ [RarNext]_rarVars => Prepared'
<1> SUFFICES ASSUME RarInv, [RarNext]_rarVars PROVE Prepared'
  OBVIOUS
<1> USE DEF RarInv, world
<1>1. CASE UNCHANGED rarVars
  BY <1>1 DEF rarVars, Prepared, To, Refuse, Expressible, Unstarted, BeforeRun,
     Types, Absolute
<1>2. CASE New
  <2>1. \A place \in search_dirs : place \in Places
    BY FoundInPlace DEF Types
  <2>. QED
    BY <1>2, <2>1 DEF New, Prepared, Expressible, Types, To, Refuse, Unstarted,
       BeforeRun
<1>3. CASE vet_program
  BY <1>3 DEF vet_program, Prepared, To, Refuse, Expressible, Unstarted,
     BeforeRun, Types, Absolute
<1>4. CASE assemble
  BY <1>4 DEF assemble, Prepared, To, Refuse, Expressible, Unstarted,
     BeforeRun, Types, Absolute
<1>5. CASE Add
  BY <1>5 DEF Add, Prepared, To, Refuse, Expressible, Unstarted, BeforeRun,
     Types, Absolute
<1>6. CASE set_password
  BY <1>6 DEF set_password, Prepared, To, Refuse, Expressible, Unstarted,
     BeforeRun, Types, Absolute
<1>7. CASE build
  BY <1>7 DEF build, Prepared, To, Refuse, Expressible, Unstarted, BeforeRun,
     Types, Absolute
<1>8. CASE OutputFree
  BY <1>8 DEF OutputFree, Prepared, To, Refuse, Expressible, Unstarted,
     BeforeRun, Types, Absolute
<1>9. CASE probe_binary
  BY <1>9 DEF probe_binary, Prepared, To, Refuse, Expressible, Unstarted,
     BeforeRun, Types, Absolute
<1>10. CASE OutputStillFree
  BY <1>10 DEF OutputStillFree, Prepared, To, Refuse, Expressible, Unstarted,
     BeforeRun, Types, Absolute
<1>11. CASE run
  BY <1>11 DEF run, Prepared, To, Refuse, Expressible, Unstarted, BeforeRun,
     Types, Absolute
<1>12. CASE ChildAdds
  BY <1>12 DEF ChildAdds, Prepared, To, Refuse, Expressible, Unstarted,
     BeforeRun, Types, Absolute
<1>13. CASE ChildEnds
  BY <1>13 DEF ChildEnds, Prepared, To, Refuse, Expressible, Unstarted,
     BeforeRun, Types, Absolute
<1>14. CASE Classify
  BY <1>14 DEF Classify, Prepared, To, Refuse, Expressible, Unstarted,
     BeforeRun, Types, Absolute
<1>15. CASE Verify
  BY <1>15 DEF Verify, Prepared, To, Refuse, Expressible, Unstarted, BeforeRun,
     Types, Absolute
<1>16. CASE Meddle
  BY <1>16 DEF Meddle, Prepared, To, Refuse, Expressible, Unstarted, BeforeRun,
     Types, Absolute
<1>. QED
  BY <1>1, <1>2, <1>3, <1>4, <1>5, <1>6, <1>7, <1>8, <1>9, <1>10, <1>11,
     <1>12, <1>13, <1>14, <1>15, <1>16 DEF RarNext

\* A success is of a whole archive.
LEMMA SucceededStep == RarInv /\ [RarNext]_rarVars => Succeeded'
<1> SUFFICES ASSUME RarInv, [RarNext]_rarVars PROVE Succeeded'
  OBVIOUS
<1> USE DEF RarInv, world
<1>1. CASE UNCHANGED rarVars
  BY <1>1 DEF rarVars, Succeeded, To, Refuse, Expressible, Prepared, Unstarted,
     BeforeRun, NoChild, NamedSources, is_success, Types
<1>2. CASE New
  BY <1>2 DEF New, Succeeded, To, Refuse, Expressible, Prepared, Unstarted,
     BeforeRun, NoChild, NamedSources, is_success, Types
<1>3. CASE vet_program
  BY <1>3 DEF vet_program, Succeeded, To, Refuse, Expressible, Prepared,
     Unstarted, BeforeRun, NoChild, NamedSources, is_success, Types
<1>4. CASE assemble
  BY <1>4 DEF assemble, Succeeded, To, Refuse, Expressible, Prepared,
     Unstarted, BeforeRun, NoChild, NamedSources, is_success, Types
<1>5. CASE Add
  BY <1>5 DEF Add, Succeeded, To, Refuse, Expressible, Prepared, Unstarted,
     BeforeRun, NoChild, NamedSources, is_success, Types
<1>6. CASE set_password
  BY <1>6 DEF set_password, Succeeded, To, Refuse, Expressible, Prepared,
     Unstarted, BeforeRun, NoChild, NamedSources, is_success, Types
<1>7. CASE build
  BY <1>7 DEF build, Succeeded, To, Refuse, Expressible, Prepared, Unstarted,
     BeforeRun, NoChild, NamedSources, is_success, Types
<1>8. CASE OutputFree
  BY <1>8 DEF OutputFree, Succeeded, To, Refuse, Expressible, Prepared,
     Unstarted, BeforeRun, NoChild, NamedSources, is_success, Types
<1>9. CASE probe_binary
  BY <1>9 DEF probe_binary, Succeeded, To, Refuse, Expressible, Prepared,
     Unstarted, BeforeRun, NoChild, NamedSources, is_success, Types
<1>10. CASE OutputStillFree
  BY <1>10 DEF OutputStillFree, Succeeded, To, Refuse, Expressible, Prepared,
     Unstarted, BeforeRun, NoChild, NamedSources, is_success, Types
<1>11. CASE run
  BY <1>11 DEF run, Succeeded, To, Refuse, Expressible, Prepared, Unstarted,
     BeforeRun, NoChild, NamedSources, is_success, Types
<1>12. CASE ChildAdds
  BY <1>12 DEF ChildAdds, Succeeded, To, Refuse, Expressible, Prepared,
     Unstarted, BeforeRun, NoChild, NamedSources, is_success, Types
<1>13. CASE ChildEnds
  BY <1>13 DEF ChildEnds, Succeeded, To, Refuse, Expressible, Prepared,
     Unstarted, BeforeRun, NoChild, NamedSources, is_success, Types
<1>14. CASE Classify
  BY <1>14 DEF Classify, Succeeded, To, Refuse, Expressible, Prepared,
     Unstarted, BeforeRun, NoChild, NamedSources, is_success, Types
<1>15. CASE Verify
  BY <1>15 DEF Verify, Succeeded, To, Refuse, Expressible, Prepared, Unstarted,
     BeforeRun, NoChild, NamedSources, is_success, Types
<1>16. CASE Meddle
  BY <1>16 DEF Meddle, Succeeded, To, Refuse, Expressible, Prepared, Unstarted,
     BeforeRun, NoChild, NamedSources, is_success, Types
<1>. QED
  BY <1>1, <1>2, <1>3, <1>4, <1>5, <1>6, <1>7, <1>8, <1>9, <1>10, <1>11,
     <1>12, <1>13, <1>14, <1>15, <1>16 DEF RarNext

\* What runs was identified.
LEMMA IdentifiedStep == RarInv /\ [RarNext]_rarVars => Identified'
<1> SUFFICES ASSUME RarInv, [RarNext]_rarVars PROVE Identified'
  OBVIOUS
<1> USE DEF RarInv, world
<1>1. CASE UNCHANGED rarVars
  BY <1>1 DEF rarVars, Identified, IsIdentified, To, Refuse, Unstarted,
     BeforeRun, NoChild, Types, Prepared
<1>2. CASE New
  BY <1>2 DEF New, Identified, IsIdentified, To, Refuse, Unstarted, BeforeRun,
     NoChild, Types, Prepared
<1>3. CASE vet_program
  BY <1>3 DEF vet_program, Identified, IsIdentified, To, Refuse, Unstarted,
     BeforeRun, NoChild, Types, Prepared
<1>4. CASE assemble
  BY <1>4 DEF assemble, Identified, IsIdentified, To, Refuse, Unstarted,
     BeforeRun, NoChild, Types, Prepared
<1>5. CASE Add
  BY <1>5 DEF Add, Identified, IsIdentified, To, Refuse, Unstarted, BeforeRun,
     NoChild, Types, Prepared
<1>6. CASE set_password
  BY <1>6 DEF set_password, Identified, IsIdentified, To, Refuse, Unstarted,
     BeforeRun, NoChild, Types, Prepared
<1>7. CASE build
  BY <1>7 DEF build, Identified, IsIdentified, To, Refuse, Unstarted,
     BeforeRun, NoChild, Types, Prepared
<1>8. CASE OutputFree
  BY <1>8 DEF OutputFree, Identified, IsIdentified, To, Refuse, Unstarted,
     BeforeRun, NoChild, Types, Prepared
<1>9. CASE probe_binary
  <2> DEFINE p == binaries[creator.exe]
  <2>1. /\ pc = "probe" /\ child' = child /\ UNCHANGED <<binaries, creator>>
        /\ pc' = "recheck" =>
             p.flavor = "rar" /\ Supported(p)
    BY <1>9 DEF probe_binary, To, Refuse, parse_banner, can_create
  <2>2. p \in Programs \union {NoProgram}
    BY <2>1 DEF Types, Prepared
  <2>3. pc' = "recheck" => IsIdentified(p)
    BY <2>1, <2>2, ProgramAssumption DEF Supported, IsIdentified,
                                    NoProgram
  <2>4. pc' \in {"recheck", "done"} /\ child = NoChild
    BY <1>9, <2>1 DEF probe_binary, To, Refuse, Unstarted, BeforeRun
  <2>. QED
    BY <2>1, <2>3, <2>4 DEF Identified
<1>10. CASE OutputStillFree
  BY <1>10 DEF OutputStillFree, Identified, IsIdentified, To, Refuse,
     Unstarted, BeforeRun, NoChild, Types, Prepared
<1>11. CASE run
  BY <1>11 DEF run, Identified, IsIdentified, To, Refuse, Unstarted, BeforeRun,
     NoChild, Types, Prepared
<1>12. CASE ChildAdds
  <2>1. child'.program = child.program /\ child # NoChild /\ pc' = "child"
    BY <1>12 DEF ChildAdds, Types, Unstarted, BeforeRun, NoChild, Prepared
  <2>. QED
    BY <1>12, <2>1 DEF ChildAdds, Identified
<1>13. CASE ChildEnds
  <2>1. child'.program = child.program /\ pc' = "classify"
    BY <1>13 DEF ChildEnds, Types, To
  <2>2. child # NoChild /\ swapped' = swapped
    BY <1>13 DEF ChildEnds, Unstarted, NoChild
  <2>. QED
    BY <2>1, <2>2 DEF Identified
<1>14. CASE Classify
  BY <1>14 DEF Classify, Identified, IsIdentified, To, Refuse, Unstarted,
     BeforeRun, NoChild, Types, Prepared
<1>15. CASE Verify
  BY <1>15 DEF Verify, Identified, IsIdentified, To, Refuse, Unstarted,
     BeforeRun, NoChild, Types, Prepared
<1>16. CASE Meddle
  <2>1. /\ UNCHANGED <<pc, creator, child>>
        /\ ~swapped' => ~swapped
        /\ ~swapped' /\ creator.exe \in Places =>
             binaries'[creator.exe] = binaries[creator.exe]
    <3>1. CASE \E place \in Places, p \in Programs \union {NoProgram} :
                 /\ binaries' = [binaries EXCEPT ![place] = p]
                 /\ swapped' = (swapped \/ place = creator.exe)
      BY <1>16, <3>1, Meddling DEF Types
    <3>2. CASE UNCHANGED <<binaries, swapped>>
      BY <1>16, <3>2, Meddling
    <3>. QED
      BY <1>16, <3>1, <3>2, Meddling
  <2>2. pc \in {"recheck", "run"} => creator.exe \in Places
    BY DEF Prepared
  <2>. QED
    BY <2>1, <2>2 DEF Identified
<1>. QED
  BY <1>1, <1>2, <1>3, <1>4, <1>5, <1>6, <1>7, <1>8, <1>9, <1>10, <1>11,
     <1>12, <1>13, <1>14, <1>15, <1>16 DEF RarNext

\* Another's file that rar writes into came late.
LEMMA WindowStep == RarInv /\ [RarNext]_rarVars => Window'
<1> SUFFICES ASSUME RarInv, [RarNext]_rarVars PROVE Window'
  OBVIOUS
<1> USE DEF RarInv, world
<1>1. CASE UNCHANGED rarVars
  BY <1>1 DEF rarVars, Window, OthersSpared, PastLastLook, To, Refuse, exists,
     NoOutput, NoChild, Types, IsOutput, Unstarted, BeforeRun
<1>2. CASE New
  BY <1>2 DEF New, Window, OthersSpared, PastLastLook, To, Refuse, exists,
     NoOutput, NoChild, Types, IsOutput, Unstarted, BeforeRun
<1>3. CASE vet_program
  BY <1>3 DEF vet_program, Window, OthersSpared, PastLastLook, To, Refuse,
     exists, NoOutput, NoChild, Types, IsOutput, Unstarted, BeforeRun
<1>4. CASE assemble
  BY <1>4 DEF assemble, Window, OthersSpared, PastLastLook, To, Refuse, exists,
     NoOutput, NoChild, Types, IsOutput, Unstarted, BeforeRun
<1>5. CASE Add
  BY <1>5 DEF Add, Window, OthersSpared, PastLastLook, To, Refuse, exists,
     NoOutput, NoChild, Types, IsOutput, Unstarted, BeforeRun
<1>6. CASE set_password
  BY <1>6 DEF set_password, Window, OthersSpared, PastLastLook, To, Refuse,
     exists, NoOutput, NoChild, Types, IsOutput, Unstarted, BeforeRun
<1>7. CASE build
  BY <1>7 DEF build, Window, OthersSpared, PastLastLook, To, Refuse, exists,
     NoOutput, NoChild, Types, IsOutput, Unstarted, BeforeRun
<1>8. CASE OutputFree
  BY <1>8 DEF OutputFree, Window, OthersSpared, PastLastLook, To, Refuse,
     exists, NoOutput, NoChild, Types, IsOutput, Unstarted, BeforeRun
<1>9. CASE probe_binary
  BY <1>9 DEF probe_binary, Window, OthersSpared, PastLastLook, To, Refuse,
     exists, NoOutput, NoChild, Types, IsOutput, Unstarted, BeforeRun
<1>10. CASE OutputStillFree
  <2>1. /\ UNCHANGED <<out, touched, child>> /\ child.made = {}
        /\ pc' \in {"run", "done"} /\ returned' # "Ok"
        /\ pc' = "run" => out = NoOutput
    BY <1>10 DEF OutputStillFree, To, Refuse, Types, Unstarted, BeforeRun,
                 NoChild, exists
  <2>2. NoOutput.by = "nobody" /\ NoOutput.holds = {}
    BY DEF NoOutput
  <2>. QED
    BY <2>1, <2>2 DEF Window, OthersSpared, PastLastLook
<1>11. CASE run
  <2>1. /\ UNCHANGED <<out, touched>> /\ child.made = {}
        /\ PastLastLook /\ returned # "Ok" /\ returned' # "Ok"
    BY <1>11 DEF run, Refuse, Types, Unstarted, BeforeRun, NoChild,
                 PastLastLook
  <2>2. child'.made = {}
    BY <1>11, <2>1 DEF run, NoChild
  <2>. QED
    BY <2>1, <2>2 DEF Window, OthersSpared
<1>12. CASE ChildAdds
  <2>1. PICK s \in (NamedSources \intersect present) \ child.made :
          /\ child' = [child EXCEPT !.made = @ \union {s}]
          /\ out' = Archived(s)
    BY <1>12 DEF ChildAdds
  <2>2. /\ s \in Sources /\ child'.made = child.made \union {s}
        /\ UNCHANGED <<pc, touched, returned>>
        /\ PastLastLook /\ pc # "done"
    BY <1>12, <2>1 DEF ChildAdds, Types, PastLastLook
  <2>3. /\ out'.holds = out.holds \union {s}
        /\ out'.spoiled <=> out.by = "other"
        /\ out'.by = "other" <=> out.by = "other"
    BY <2>1, <2>2, ArchivedTyped DEF Types
  <2>. QED
    BY <2>2, <2>3 DEF Window, OthersSpared, Types
<1>13. CASE ChildEnds
  BY <1>13 DEF ChildEnds, Window, OthersSpared, PastLastLook, To, Refuse,
     exists, NoOutput, NoChild, Types, IsOutput, Unstarted, BeforeRun
<1>14. CASE Classify
  BY <1>14 DEF Classify, Window, OthersSpared, PastLastLook, To, Refuse,
     exists, NoOutput, NoChild, Types, IsOutput, Unstarted, BeforeRun
<1>15. CASE Verify
  BY <1>15 DEF Verify, Window, OthersSpared, PastLastLook, To, Refuse, exists,
     NoOutput, NoChild, Types, IsOutput, Unstarted, BeforeRun
<1>16. CASE Meddle
  <2>1. UNCHANGED <<pc, child, returned>> /\ returned # "Ok"
    BY <1>16, Meddling DEF Types
  <2>2. CASE UNCHANGED <<out, touched>>
    BY <2>1, <2>2 DEF Window, OthersSpared, PastLastLook
  <2>3. CASE /\ out' \in {NoOutput, OthersFile}
             /\ touched' = (touched \/ PastLastLook)
    BY <2>1, <2>3, OthersTyped DEF Window, OthersSpared, PastLastLook
  <2>. QED
    BY <1>16, <2>2, <2>3, Meddling
<1>. QED
  BY <1>1, <1>2, <1>3, <1>4, <1>5, <1>6, <1>7, <1>8, <1>9, <1>10, <1>11,
     <1>12, <1>13, <1>14, <1>15, <1>16 DEF RarNext

\* The invariant holds throughout.
LEMMA RarInvariant == RarSpec => []RarInv
<1>1. RarInit => RarInv
  <2> SUFFICES ASSUME RarInit PROVE RarInv
    OBVIOUS
  <2>1. Types
    <3>1. creator \in [exe : Places \union {"none"}, entries : Seq(Sources),
                      password : Passwords \union {"none"}]
      BY DEF RarInit
    <3>2. child.made \subseteq NamedSources
      BY DEF RarInit, NoChild
    <3>3. IsOutput(out) /\ touched \in BOOLEAN
      BY OthersTyped DEF RarInit
    <3>. QED
      BY <3>1, <3>2, <3>3 DEF RarInit, Types, NoChild, Steps
  <2>2. Unstarted /\ Prepared /\ Succeeded /\ Identified
    BY DEF RarInit, Unstarted, Prepared, Succeeded, Identified, NoChild
  <2>3. Window
    <3>1. ~PastLastLook /\ returned # "Ok"
      BY DEF RarInit, PastLastLook
    <3>2. ~out.spoiled
      BY OthersTyped DEF RarInit
    <3>. QED
      BY <3>1, <3>2 DEF Window, OthersSpared
  <2>. QED
    BY <2>1, <2>2, <2>3 DEF RarInv
<1>2. RarInv /\ [RarNext]_rarVars => RarInv'
  BY TypesStep, UnstartedStep, PreparedStep, SucceededStep, IdentifiedStep,
     WindowStep DEF RarInv
<1>. QED
  BY <1>1, <1>2, PTL DEF RarSpec

\* Ok is said only when every named source went in, and never of an empty
\* set of them; the file at the output path is then rar's own and holds them
\* and nothing else, unless somebody touched it after the last look.
THEOREM OkIsWhole == RarSpec => []OkMeansWhole
<1>1. RarInv => OkMeansWhole
  <2> SUFFICES ASSUME RarInv, returned = "Ok" PROVE OkMeansWhole
    BY DEF OkMeansWhole
  <2>1. /\ child.made = NamedSources /\ creator.entries # << >>
        /\ creator.entries \in Seq(Sources)
    BY DEF RarInv, Succeeded, Expressible, Types
  <2>2. 1 \in DOMAIN creator.entries
    BY <2>1
  <2>3. NamedSources # {}
    BY <2>2 DEF NamedSources
  <2>4. ~touched => out.by = "child" /\ out.holds = child.made
    BY DEF RarInv, Types, IsOutput, Window
  <2>. QED
    BY <2>1, <2>3, <2>4 DEF OkMeansWhole
<1>. QED
  BY <1>1, RarInvariant, PTL

\* What runs is the program that was identified, unless somebody changed it,
\* with a password it takes; and it writes into another's file only if that
\* file came after the last look.
THEOREM RarRunIsSound == RarSpec => []RunIsSound
<1>1. RarInv => RunIsSound
  <2> SUFFICES ASSUME RarInv PROVE RunIsSound
    OBVIOUS
  <2>1. RarTypeOK
    BY DEF RarInv, Types, RarTypeOK
  <2>2. DrivenIsIdentified
    BY DEF RarInv, Identified, IsIdentified, Prepared, Expressible,
           DrivenIsIdentified
  <2>3. OthersSpared
    BY DEF RarInv, Window
  <2>. QED
    BY <2>1, <2>2, <2>3 DEF RunIsSound
<1>. QED
  BY <1>1, RarInvariant, PTL
=============================================================================
