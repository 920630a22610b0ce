---------------------------- MODULE StreamProofs ----------------------------
(***************************************************************************)
(* Theorems about what is read through layers: EntryStream, for any        *)
(* payloads, declarations, limits and bounds, and callers that read as     *)
(* they like; and ByteSource, for any directory, width and interference.   *)
(***************************************************************************)
EXTENDS EntryStream, ByteSource, NumberSetsProofs

-----------------------------------------------------------------------------
(* What a stack of readers keeps, and what a read of it answers.           *)

Raws == [length : Nat, breaks : BOOLEAN, pos : Nat, eof : BOOLEAN]
Layers == [cap : Nat, expected : SUBSET Nat, seen : Nat,
           violation : Verdicts \union {"none"}]
Readers == [raw : Raws, layers : Seq(Layers)]
Answers == [rd : Readers,
            says : Verdicts \union {"bytes", "eof", "fault"}, n : Nat]

\* What left the j-th layer; the source is below the first.
Passed(j, rd) == IF j = 0 THEN rd.raw.pos ELSE rd.layers[j].seen

RawOK(rd) ==
    /\ rd.raw.pos <= rd.raw.length
    /\ rd.raw.eof /\ ~rd.raw.breaks => rd.raw.pos = rd.raw.length

\* A layer passed what it took, but for the byte that showed an overrun.
LayerOK(k, rd) ==
    LET l == rd.layers[k] IN
    /\ l.seen <= l.cap /\ l.expected \subseteq {l.cap}
    /\ Passed(k - 1, rd)
         = l.seen + (IF l.violation = "InvalidData" THEN 1 ELSE 0)
    /\ l.violation = "InvalidData" => l.seen = l.cap
    /\ l.violation = "UnexpectedEof" =>
         /\ l.expected = {l.cap}
         /\ rd.raw.breaks \/ rd.raw.length < l.cap

Sound(j, rd) ==
    /\ rd \in Readers /\ j \in 0..Len(rd.layers)
    /\ RawOK(rd) /\ \A k \in 1..j : LayerOK(k, rd)

Clear(j, rd) == \A k \in 1..j : rd.layers[k].violation = "none"
Stuck(j, rd, v) ==
    \E k \in 1..j : /\ rd.layers[k].violation = v
                    /\ \A m \in (k + 1)..j : rd.layers[m].violation = "none"

\* The same readers, as far as they were configured.
SameStack(j, rd, other) ==
    /\ other.raw.length = rd.raw.length /\ other.raw.breaks = rd.raw.breaks
    /\ Len(other.layers) = Len(rd.layers)
    /\ \A k \in 1..Len(rd.layers) :
         /\ other.layers[k].cap = rd.layers[k].cap
         /\ other.layers[k].expected = rd.layers[k].expected
         /\ k > j => other.layers[k] = rd.layers[k]

\* What the answer a of the j-th layer to a read of `want` bytes may be.
Contract(j, rd, want, a) ==
    /\ a \in Answers /\ Sound(j, a.rd) /\ SameStack(j, rd, a.rd)
    /\ Passed(j, a.rd) = Passed(j, rd) + a.n
    /\ a.says = "bytes" => 0 < a.n /\ a.n <= want /\ ~a.rd.raw.eof
    /\ a.says # "bytes" => a.n = 0
    /\ want > 0 /\ a.says \notin Verdicts => Clear(j, a.rd)
    /\ want > 0 /\ a.says = "eof" =>
         /\ a.rd.raw.eof /\ Passed(j, a.rd) = a.rd.raw.pos
         /\ \A k \in 1..j : \A e \in rd.layers[k].expected :
              a.rd.layers[k].seen >= e
         /\ rd.raw.eof \/ ~rd.raw.breaks
    /\ a.says = "fault" => rd.raw.breaks
    /\ a.says \in Verdicts => Stuck(j, a.rd, a.says)
    /\ a.says = "UnexpectedEof" /\ Clear(j, rd) /\ ~rd.raw.eof =>
         \E k \in 1..j : /\ rd.layers[k].expected = {rd.layers[k].cap}
                         /\ rd.raw.length < rd.layers[k].cap

\* The source below the readers honours the contract.
LEMMA RawContract ==
  ASSUME NEW rd, Sound(0, rd), NEW want \in Nat
  PROVE  Contract(0, rd, want, RawRead(rd, want))
<1> DEFINE left == rd.raw.length - rd.raw.pos
           a == RawRead(rd, want)
<1> SUFFICES Contract(0, rd, want, a)
  OBVIOUS
<1>1. /\ rd \in Readers /\ left \in Nat
      /\ rd.raw.pos + left = rd.raw.length
      /\ rd.raw \in Raws /\ Len(rd.layers) \in Nat
  BY DEF Sound, RawOK, Readers, Raws
<1>2. Min({left, want}) = IF left <= want THEN left ELSE want
  BY <1>1, MinOfTwo
<1>3. \A r \in Raws : [rd EXCEPT !.raw = r] \in Readers
  BY <1>1 DEF Readers
<1>4. /\ [rd EXCEPT !.raw.eof = TRUE]
           = [rd EXCEPT !.raw = [rd.raw EXCEPT !.eof = TRUE]]
      /\ [rd.raw EXCEPT !.eof = TRUE] \in Raws
  BY <1>1 DEF Readers, Raws
<1>5. CASE rd.raw.eof \/ want = 0
  <2>1. a = Answer(rd, "eof", 0)
    BY <1>5 DEF RawRead
  <2>2. a \in Answers /\ a.rd = rd /\ a.says = "eof" /\ a.n = 0
    BY <1>1, <2>1 DEF Answer, Answers
  <2>3. rd.raw.pos + 0 = rd.raw.pos
    BY <1>1 DEF Raws
  <2>4. SameStack(0, rd, rd)
    BY <1>1 DEF SameStack
  <2>. QED
    <3> HIDE DEF a, left
    <3>. QED
      <4>1. Passed(0, a.rd) = Passed(0, rd) + a.n
        BY <2>2, <2>3 DEF Passed
      <4>2. want > 0 => rd.raw.eof
        BY <1>5
      <4>3. Passed(0, rd) = rd.raw.pos /\ "eof" \notin Verdicts
        BY DEF Passed, Verdicts
      <4>4. a \in Answers /\ Sound(0, a.rd) /\ SameStack(0, rd, a.rd)
        BY <2>2, <2>4
      <4>5. Clear(0, a.rd)
        BY DEF Clear
      <4>6. want > 0 => a.rd.raw.eof
        BY <2>2, <4>2
      <4>7. /\ a.says = "eof" /\ a.n = 0 /\ a.says # "bytes"
            /\ a.says # "fault" /\ a.says \notin Verdicts
            /\ a.says # "UnexpectedEof"
        BY <2>2, <4>3
      <4>8. Passed(0, a.rd) = a.rd.raw.pos
        BY DEF Passed
      <4>. QED
        BY <4>1, <4>2, <4>4, <4>5, <4>6, <4>7, <4>8 DEF Contract
<1>6. ASSUME ~rd.raw.eof, want # 0, NEW w \in {"fault", "eof"},
             a = Answer([rd EXCEPT !.raw.eof = TRUE], w, 0),
             IF w = "fault" THEN rd.raw.breaks
             ELSE left = 0 /\ ~rd.raw.breaks
      PROVE  Contract(0, rd, want, a)
  <2> DEFINE q == [rd EXCEPT !.raw.eof = TRUE]
  <2>1. /\ q \in Readers /\ q.raw = [rd.raw EXCEPT !.eof = TRUE]
        /\ q.layers = rd.layers
    BY <1>1, <1>3, <1>4 DEF Readers
  <2>2. /\ q.raw.eof /\ q.raw.pos = rd.raw.pos
        /\ q.raw.length = rd.raw.length /\ q.raw.breaks = rd.raw.breaks
    BY <1>1, <2>1 DEF Raws
  <2>3. a \in Answers /\ a.rd = q /\ a.says = w /\ a.n = 0
    BY <1>6, <2>1 DEF Answer, Answers
  <2>4. rd.raw.pos <= rd.raw.length /\ rd.raw.pos \in Nat
        /\ (left = 0 => rd.raw.pos = rd.raw.length)
    BY <1>1 DEF Raws
  <2>5. Sound(0, q) /\ SameStack(0, rd, q)
    <3> HIDE DEF q, left
    <3>. QED
      BY <1>1, <1>6, <2>1, <2>2, <2>4 DEF Sound, SameStack, RawOK
  <2>. QED
    <3> HIDE DEF q, left, a
    <3>. QED
      BY <1>6, <2>2, <2>3, <2>4, <2>5 DEF Contract, Passed, Clear, Verdicts
<1>7. CASE /\ ~rd.raw.eof /\ want # 0
           /\ (rd.raw.breaks /\ left < want) \/ left = 0
  <2>1. \/ rd.raw.breaks /\ a = Answer([rd EXCEPT !.raw.eof = TRUE], "fault", 0)
        \/ /\ left = 0 /\ ~rd.raw.breaks
           /\ a = Answer([rd EXCEPT !.raw.eof = TRUE], "eof", 0)
    BY <1>1, <1>7 DEF RawRead
  <2>. QED
    BY <1>6, <1>7, <2>1
<1>8. CASE /\ ~rd.raw.eof /\ want # 0 /\ ~(rd.raw.breaks /\ left < want)
           /\ left # 0
  <2>1. PICK n \in Nat :
          n = Min({left, want}) /\ n > 0 /\ n <= want /\ n <= left
    BY <1>1, <1>2, <1>8
  <2>0. ~rd.raw.eof /\ want # 0 /\ "bytes" \notin Verdicts
    BY <1>8 DEF Verdicts
  <2> DEFINE q == [rd EXCEPT !.raw.pos = @ + n]
  <2>2. a = Answer(q, "bytes", n)
    BY <1>8, <2>1 DEF RawRead
  <2>3. q = [rd EXCEPT !.raw = [rd.raw EXCEPT !.pos = rd.raw.pos + n]]
    BY <1>1 DEF Readers, Raws
  <2>4. [rd.raw EXCEPT !.pos = rd.raw.pos + n] \in Raws
    <3>1. rd.raw.pos + n \in Nat
      BY <1>1, <2>1 DEF Raws
    <3>. QED
      BY <1>1, <3>1 DEF Raws
  <2>5. /\ q \in Readers
        /\ q.raw = [rd.raw EXCEPT !.pos = rd.raw.pos + n]
        /\ q.layers = rd.layers
    BY <1>1, <1>3, <2>3, <2>4 DEF Readers
  <2>6. /\ q.raw.eof = rd.raw.eof /\ q.raw.pos = rd.raw.pos + n
        /\ q.raw.length = rd.raw.length /\ q.raw.breaks = rd.raw.breaks
    BY <1>1, <2>5 DEF Raws
  <2>7. a \in Answers /\ a.rd = q /\ a.says = "bytes" /\ a.n = n
    <3> HIDE DEF q
    <3>. QED
      BY <2>2, <2>5 DEF Answer, Answers
  <2>8. rd.raw.pos + n <= rd.raw.length
    BY <1>1, <2>1 DEF Raws
  <2>9. Sound(0, q) /\ SameStack(0, rd, q)
    <3> HIDE DEF q, left
    <3>. QED
      BY <1>1, <1>8, <2>5, <2>6, <2>8 DEF Sound, SameStack, RawOK
  <2>. QED
    <3> HIDE DEF q, left, a
    <3>. QED
      <4>1. Passed(0, a.rd) = Passed(0, rd) + a.n
        BY <2>6, <2>7 DEF Passed
      <4>2. ~a.rd.raw.eof
        BY <2>0, <2>6, <2>7
      <4>3. a \in Answers /\ Sound(0, a.rd) /\ SameStack(0, rd, a.rd)
        BY <2>7, <2>9
      <4>4. Clear(0, a.rd)
        BY DEF Clear
      <4>5. a.n > 0 /\ a.n <= want
        BY <2>1, <2>7
      <4>6. a.says = "bytes" /\ a.says \notin Verdicts
        BY <2>0, <2>7
      <4>7. a.says # "eof" /\ a.says # "fault" /\ a.says # "UnexpectedEof"
        BY <4>6
      <4>. QED
        BY <4>1, <4>2, <4>3, <4>4, <4>5, <4>6, <4>7 DEF Contract
<1>. QED
  BY <1>5, <1>7, <1>8

\* One field of one layer changes.
LEMMA LayerChanges ==
  ASSUME NEW rd \in Readers, NEW i \in 1..Len(rd.layers)
  PROVE  /\ \A v \in Verdicts :
              LET q == [rd EXCEPT !.layers[i].violation = v] IN
              /\ q \in Readers /\ q.raw = rd.raw
              /\ Len(q.layers) = Len(rd.layers)
              /\ q.layers[i] = [rd.layers[i] EXCEPT !.violation = v]
              /\ \A k \in 1..Len(rd.layers) :
                   k # i => q.layers[k] = rd.layers[k]
         /\ \A n \in Nat :
              LET q == [rd EXCEPT !.layers[i].seen = @ + n] IN
              /\ q \in Readers /\ q.raw = rd.raw
              /\ Len(q.layers) = Len(rd.layers)
              /\ q.layers[i] = [rd.layers[i] EXCEPT !.seen = @ + n]
              /\ \A k \in 1..Len(rd.layers) :
                   k # i => q.layers[k] = rd.layers[k]
<1>1. /\ rd.layers \in Seq(Layers) /\ Len(rd.layers) \in Nat
      /\ rd.layers[i] \in Layers
  BY DEF Readers
<1>2. \A l \in Layers :
        LET s == [rd.layers EXCEPT ![i] = l] IN
        /\ s \in Seq(Layers) /\ Len(s) = Len(rd.layers) /\ s[i] = l
        /\ \A k \in 1..Len(rd.layers) : k # i => s[k] = rd.layers[k]
        /\ [rd EXCEPT !.layers = s] \in Readers
  BY <1>1 DEF Readers
<1>3. ASSUME NEW v \in Verdicts
      PROVE  /\ [rd.layers[i] EXCEPT !.violation = v] \in Layers
             /\ [rd EXCEPT !.layers[i].violation = v]
                  = [rd EXCEPT !.layers = [rd.layers EXCEPT
                       ![i] = [rd.layers[i] EXCEPT !.violation = v]]]
  BY <1>1 DEF Layers, Readers
<1>4. ASSUME NEW n \in Nat
      PROVE  /\ [rd.layers[i] EXCEPT !.seen = @ + n] \in Layers
             /\ [rd.layers[i] EXCEPT !.seen = rd.layers[i].seen + n] \in Layers
             /\ [rd EXCEPT !.layers[i].seen = @ + n]
                  = [rd EXCEPT !.layers = [rd.layers EXCEPT
                       ![i] = [rd.layers[i] EXCEPT !.seen = @ + n]]]
  <2>1. rd.layers[i].seen + n \in Nat
    BY <1>1 DEF Layers
  <2>2. [rd.layers[i] EXCEPT !.seen = rd.layers[i].seen + n] \in Layers
    BY <1>1, <2>1 DEF Layers
  <2>3. [rd.layers[i] EXCEPT !.seen = @ + n]
          = [rd.layers[i] EXCEPT !.seen = rd.layers[i].seen + n]
    BY <1>1 DEF Layers
  <2>4. [rd EXCEPT !.layers[i].seen = @ + n]
          = [rd EXCEPT !.layers = [rd.layers EXCEPT
               ![i] = [rd.layers[i] EXCEPT !.seen = @ + n]]]
    BY <1>1 DEF Layers, Readers
  <2>. QED
    BY <2>2, <2>3, <2>4
<1>5. \A s : [rd EXCEPT !.layers = s].raw = rd.raw
             /\ [rd EXCEPT !.layers = s].layers = s
  BY DEF Readers
<1>. QED
  BY <1>2, <1>3, <1>4, <1>5

\* Soundness, clearness and the latch, one layer further.
LEMMA OneLayerMore ==
  ASSUME NEW i \in Nat, i > 0, NEW rd \in Readers, i <= Len(rd.layers)
  PROVE  /\ Sound(i, rd) <=> Sound(i - 1, rd) /\ LayerOK(i, rd)
         /\ Clear(i, rd) <=>
              Clear(i - 1, rd) /\ rd.layers[i].violation = "none"
         /\ \A v \in Verdicts :
              /\ rd.layers[i].violation = v => Stuck(i, rd, v)
              /\ Stuck(i - 1, rd, v) /\ rd.layers[i].violation = "none" =>
                   Stuck(i, rd, v)
<1>1. 1..i = 1..(i - 1) \union {i} /\ Len(rd.layers) \in Nat
  BY DEF Readers
<1>2. i - 1 \in 0..Len(rd.layers) /\ i \in 0..Len(rd.layers)
  BY <1>1
<1>3. Sound(i, rd) <=> Sound(i - 1, rd) /\ LayerOK(i, rd)
  <2>1. (\A k \in 1..i : LayerOK(k, rd))
          <=> (\A k \in 1..(i - 1) : LayerOK(k, rd)) /\ LayerOK(i, rd)
    BY <1>1
  <2>. QED
    BY <1>2, <2>1, Zenon DEF Sound
<1>4. Clear(i, rd) <=> Clear(i - 1, rd) /\ rd.layers[i].violation = "none"
  BY <1>1, Zenon DEF Clear
<1>5. ASSUME NEW v \in Verdicts
      PROVE  /\ rd.layers[i].violation = v => Stuck(i, rd, v)
             /\ Stuck(i - 1, rd, v) /\ rd.layers[i].violation = "none" =>
                  Stuck(i, rd, v)
  <2>1. (i + 1)..i = {}
    OBVIOUS
  <2>2. ASSUME NEW k \in 1..(i - 1)
        PROVE  k \in 1..i /\ (k + 1)..i = (k + 1)..(i - 1) \union {i}
    OBVIOUS
  <2>3. i \in 1..i
    OBVIOUS
  <2>4. rd.layers[i].violation = v => Stuck(i, rd, v)
    BY <2>1, <2>3, Zenon DEF Stuck
  <2>5. ASSUME Stuck(i - 1, rd, v), rd.layers[i].violation = "none"
        PROVE  Stuck(i, rd, v)
    <3>1. PICK k \in 1..(i - 1) :
            /\ rd.layers[k].violation = v
            /\ \A m \in (k + 1)..(i - 1) : rd.layers[m].violation = "none"
      BY <2>5, Zenon DEF Stuck
    <3>2. \A m \in (k + 1)..i : rd.layers[m].violation = "none"
      BY <2>2, <2>5, <3>1
    <3>. QED
      BY <2>2, <3>1, <3>2, Zenon DEF Stuck
  <2>. QED
    BY <2>4, <2>5
<1>. QED
  BY <1>3, <1>4, <1>5

\* What a layer sees of another reader with the same stack below it.
LEMMA SameLayer ==
  ASSUME NEW i \in Nat, i > 0, NEW rd \in Readers, i <= Len(rd.layers),
         NEW q \in Readers, SameStack(i - 1, rd, q)
  PROVE  /\ q.layers[i] = rd.layers[i] /\ i <= Len(q.layers)
         /\ SameStack(i, rd, q)
         /\ q.raw.length = rd.raw.length /\ q.raw.breaks = rd.raw.breaks
<1>1. i \in 1..Len(rd.layers) /\ Len(rd.layers) \in Nat /\ i > i - 1
  BY DEF Readers
<1>2. \A k \in 1..Len(rd.layers) : k > i => k > i - 1
  BY <1>1
<1>. QED
  BY <1>1, <1>2 DEF SameStack

\* A layer that passes on what is not bytes adds nothing to it.
LEMMA PassesOn ==
  ASSUME NEW i \in Nat, i > 0, NEW rd, Sound(i, rd),
         rd.layers[i].violation = "none",
         NEW w \in Nat, w > 0, NEW want \in Nat, want > 0,
         NEW b, Contract(i - 1, rd, w, b), b.says # "bytes",
         b.says = "eof" =>
           \A e \in rd.layers[i].expected : rd.layers[i].seen >= e
  PROVE  Contract(i, rd, want, b)
<1> DEFINE l == rd.layers[i]
<1>1. /\ rd \in Readers /\ Len(rd.layers) \in Nat /\ i <= Len(rd.layers)
      /\ i \in 1..Len(rd.layers) /\ l \in Layers
  BY DEF Sound, Readers
<1>2. /\ b \in Answers /\ b.rd \in Readers /\ b.n = 0
      /\ SameStack(i - 1, rd, b.rd) /\ Sound(i - 1, b.rd)
      /\ Passed(i - 1, b.rd) = Passed(i - 1, rd) + 0
  BY DEF Contract, Answers
<1>3. /\ b.rd.layers[i] = l /\ SameStack(i, rd, b.rd)
      /\ b.rd.raw.length = rd.raw.length /\ b.rd.raw.breaks = rd.raw.breaks
      /\ i <= Len(b.rd.layers)
  BY <1>1, <1>2, SameLayer
<1>4. LayerOK(i, rd) /\ Sound(i - 1, rd)
  BY <1>1, OneLayerMore
<1>5. Passed(i - 1, rd) = l.seen /\ l.seen \in Nat
  BY <1>1, <1>4 DEF LayerOK, Layers
<1>6. Passed(i, rd) = l.seen /\ Passed(i, b.rd) = l.seen
  BY <1>3 DEF Passed
<1>7. LayerOK(i, b.rd)
  BY <1>2, <1>3, <1>4, <1>5 DEF LayerOK
<1>8. Sound(i, b.rd)
  BY <1>2, <1>3, <1>7, OneLayerMore
<1>9. b.says \notin Verdicts => Clear(i, b.rd)
  BY <1>2, <1>3, OneLayerMore DEF Contract
<1>10. b.says \in Verdicts => Stuck(i, b.rd, b.says)
  BY <1>2, <1>3, OneLayerMore DEF Contract
<1>11. Passed(i, b.rd) = Passed(i, rd) + b.n
  BY <1>2, <1>5, <1>6
<1>12. ASSUME b.says = "eof"
       PROVE  /\ b.rd.raw.eof /\ Passed(i, b.rd) = b.rd.raw.pos
              /\ \A k \in 1..i : \A e \in rd.layers[k].expected :
                   b.rd.layers[k].seen >= e
              /\ rd.raw.eof \/ ~rd.raw.breaks
  <2>1. /\ b.rd.raw.eof /\ Passed(i - 1, b.rd) = b.rd.raw.pos
        /\ \A k \in 1..(i - 1) : \A e \in rd.layers[k].expected :
             b.rd.layers[k].seen >= e
        /\ rd.raw.eof \/ ~rd.raw.breaks
    BY <1>12 DEF Contract
  <2>2. 1..i = 1..(i - 1) \union {i}
    OBVIOUS
  <2>3. \A e \in rd.layers[i].expected : b.rd.layers[i].seen >= e
    BY <1>3, <1>12
  <2>4. Passed(i, b.rd) = b.rd.raw.pos
    BY <1>2, <1>5, <1>6, <2>1
  <2>. QED
    BY <2>1, <2>2, <2>3, <2>4
<1>13. ASSUME b.says = "UnexpectedEof", Clear(i, rd), ~rd.raw.eof
       PROVE  \E k \in 1..i : /\ rd.layers[k].expected = {rd.layers[k].cap}
                              /\ rd.raw.length < rd.layers[k].cap
  <2>1. Clear(i - 1, rd)
    BY <1>1, <1>13, OneLayerMore
  <2>2. \E k \in 1..(i - 1) : /\ rd.layers[k].expected = {rd.layers[k].cap}
                              /\ rd.raw.length < rd.layers[k].cap
    BY <1>13, <2>1 DEF Contract
  <2>3. 1..(i - 1) \subseteq 1..i
    OBVIOUS
  <2>. QED
    BY <2>2, <2>3
<1>14. b.says = "fault" => rd.raw.breaks
  BY DEF Contract
<1>. QED
  BY <1>2, <1>3, <1>8, <1>9, <1>10, <1>11, <1>12, <1>13, <1>14 DEF Contract

\* A reader whose i-th layer alone was changed.
LEMMA LayerReplaced ==
  ASSUME NEW i \in Nat, i > 0, NEW rd \in Readers, i <= Len(rd.layers),
         NEW b \in Readers, Sound(i - 1, b), SameStack(i, rd, b),
         NEW q \in Readers, q.raw = b.raw, Len(q.layers) = Len(b.layers),
         q.layers[i].cap = rd.layers[i].cap,
         q.layers[i].expected = rd.layers[i].expected,
         \A k \in 1..Len(b.layers) : k # i => q.layers[k] = b.layers[k]
  PROVE  /\ SameStack(i, rd, q) /\ Sound(i - 1, q)
         /\ Passed(i - 1, q) = Passed(i - 1, b)
         /\ Clear(i - 1, b) => Clear(i - 1, q)
<1>1. /\ Len(rd.layers) \in Nat /\ Len(b.layers) = Len(rd.layers)
      /\ \A k \in 1..Len(rd.layers) :
           /\ b.layers[k].cap = rd.layers[k].cap
           /\ b.layers[k].expected = rd.layers[k].expected
           /\ k > i => b.layers[k] = rd.layers[k]
      /\ b.raw.length = rd.raw.length /\ b.raw.breaks = rd.raw.breaks
  BY DEF SameStack, Readers
<1>2. \A k \in 1..Len(rd.layers) : k # i => q.layers[k] = b.layers[k]
  BY <1>1
<1>3. ASSUME NEW k \in 1..Len(rd.layers)
      PROVE  /\ q.layers[k].cap = rd.layers[k].cap
             /\ q.layers[k].expected = rd.layers[k].expected
             /\ k > i => q.layers[k] = rd.layers[k]
  <2>1. CASE k = i
    BY <2>1
  <2>2. CASE k # i
    BY <1>1, <1>2, <2>2
  <2>. QED
    BY <2>1, <2>2
<1>4. SameStack(i, rd, q)
  BY <1>1, <1>3 DEF SameStack
<1>5. ASSUME NEW k \in 1..(i - 1)
      PROVE  k \in 1..Len(rd.layers) /\ q.layers[k] = b.layers[k]
  <2>1. k \in 1..Len(rd.layers) /\ k # i
    BY <1>1
  <2>. QED
    BY <1>2, <2>1
<1>6. ASSUME NEW k \in 1..i PROVE Passed(k - 1, q) = Passed(k - 1, b)
  <2>1. CASE k = 1
    BY <2>1 DEF Passed
  <2>2. CASE k # 1
    <3>1. k - 1 \in 1..(i - 1) /\ k - 1 # 0
      BY <2>2
    <3>2. q.layers[k - 1] = b.layers[k - 1]
      BY <1>5, <3>1
    <3>. QED
      BY <3>1, <3>2 DEF Passed
  <2>. QED
    BY <2>1, <2>2
<1>7. ASSUME NEW k \in 1..(i - 1) PROVE LayerOK(k, q)
  <2>1. LayerOK(k, b)
    BY DEF Sound
  <2>2. q.layers[k] = b.layers[k] /\ k \in 1..i
    BY <1>5
  <2>3. Passed(k - 1, q) = Passed(k - 1, b)
    BY <1>6, <2>2
  <2>. QED
    BY <2>1, <2>2, <2>3 DEF LayerOK
<1>8. Sound(i - 1, q)
  BY <1>7 DEF Sound, RawOK
<1>9. i \in 1..i
  OBVIOUS
<1>. QED
  BY <1>4, <1>5, <1>6, <1>8, <1>9 DEF Clear

\* A HardCapReader keeps the contract of what it wraps.
LEMMA CapContract ==
  ASSUME NEW i \in Nat, i > 0, NEW rd, Sound(i, rd), NEW want \in Nat,
         NEW probe, Contract(i - 1, rd, 1, probe), NEW below,
         Contract(i - 1, rd, Allowed(i, rd, want), below)
  PROVE  Contract(i, rd, want, HardCapRead(i, rd, want, probe, below))
<1> DEFINE l == rd.layers[i]
           a == HardCapRead(i, rd, want, probe, below)
<1> SUFFICES Contract(i, rd, want, a)
  OBVIOUS
<1>1. /\ rd \in Readers /\ Len(rd.layers) \in Nat /\ i <= Len(rd.layers)
      /\ i \in 1..Len(rd.layers) /\ l \in Layers
  BY DEF Sound, Readers
<1>2. LayerOK(i, rd) /\ Sound(i - 1, rd)
  BY <1>1, OneLayerMore
<1>3. /\ l.seen \in Nat /\ l.cap \in Nat /\ l.seen <= l.cap
      /\ l.expected \subseteq {l.cap}
      /\ l.violation = "none" => Passed(i - 1, rd) = l.seen
      /\ l.violation \in Verdicts \union {"none"}
  BY <1>1, <1>2 DEF LayerOK, Layers
<1>4. Passed(i, rd) = l.seen
  BY DEF Passed
<1>5. ASSUME NEW says \in Verdicts \union {"eof"}, a = Answer(rd, says, 0),
             IF says = "eof" THEN want = 0 ELSE l.violation = says
      PROVE  Contract(i, rd, want, a)
  <2>1. a \in Answers /\ a.rd = rd /\ a.says = says /\ a.n = 0
    BY <1>1, <1>5 DEF Answer, Answers
  <2>2. SameStack(i, rd, a.rd) /\ Sound(i, a.rd)
    BY <1>1, <2>1 DEF SameStack
  <2>3. Passed(i, a.rd) = Passed(i, rd) + a.n
    BY <1>3, <1>4, <2>1
  <2>4. says \in Verdicts => Stuck(i, a.rd, a.says)
    BY <1>1, <1>5, <2>1, OneLayerMore DEF Verdicts
  <2>5. says \in Verdicts => ~Clear(i, rd)
    BY <1>1, <1>5, OneLayerMore DEF Verdicts
  <2>6. want > 0 => says \in Verdicts /\ says # "eof"
    BY <1>5 DEF Verdicts
  <2>7. says # "bytes" /\ says # "fault" /\ "UnexpectedEof" \in Verdicts
    BY DEF Verdicts
  <2>. QED
    <3> HIDE DEF a
    <3>. QED
      BY <2>1, <2>2, <2>3, <2>4, <2>5, <2>6, <2>7 DEF Contract
<1>6. CASE l.violation # "none"
  <2>1. a = Answer(rd, l.violation, 0) /\ l.violation \in Verdicts
    BY <1>3, <1>6 DEF HardCapRead
  <2>2. l.violation # "eof"
    BY <2>1 DEF Verdicts
  <2>. QED
    BY <1>5, <2>1, <2>2
<1>7. CASE l.violation = "none" /\ want = 0
  <2>1. a = Answer(rd, "eof", 0)
    BY <1>7 DEF HardCapRead
  <2>. QED
    BY <1>5, <1>7, <2>1
<1>8. CASE /\ l.violation = "none" /\ want # 0
           /\ l.seen >= l.cap /\ probe.says # "bytes"
  <2>1. a = probe
    BY <1>8 DEF HardCapRead
  <2>2. \A e \in l.expected : l.seen >= e
    BY <1>3, <1>8
  <2>. QED
    BY <1>8, <2>1, <2>2, PassesOn
<1>9. CASE /\ l.violation = "none" /\ want # 0
           /\ l.seen >= l.cap /\ probe.says = "bytes"
  <2> DEFINE v == "InvalidData"
             q == [probe.rd EXCEPT !.layers[i].violation = v]
  <2>1. a = Answer(q, v, 0) /\ v \in Verdicts
    BY <1>9 DEF HardCapRead, Latched, Verdicts
  <2>2. /\ probe \in Answers /\ probe.rd \in Readers /\ probe.n = 1
        /\ SameStack(i - 1, rd, probe.rd) /\ Sound(i - 1, probe.rd)
        /\ Passed(i - 1, probe.rd) = Passed(i - 1, rd) + 1
    <3>1. probe.n \in Nat /\ 0 < probe.n /\ probe.n <= 1
      BY <1>9 DEF Contract, Answers
    <3>. QED
      BY <3>1 DEF Contract, Answers
  <2>3. /\ probe.rd.layers[i] = l /\ i <= Len(probe.rd.layers)
        /\ SameStack(i, rd, probe.rd) /\ i \in 1..Len(probe.rd.layers)
    BY <1>1, <2>2, SameLayer
  <2>4. /\ q \in Readers /\ q.raw = probe.rd.raw
        /\ Len(q.layers) = Len(probe.rd.layers)
        /\ q.layers[i] = [l EXCEPT !.violation = v]
        /\ \A k \in 1..Len(probe.rd.layers) :
             k # i => q.layers[k] = probe.rd.layers[k]
    BY <2>1, <2>2, <2>3, LayerChanges
  <2>5. /\ q.layers[i].violation = v /\ q.layers[i].seen = l.seen
        /\ q.layers[i].cap = l.cap /\ q.layers[i].expected = l.expected
    BY <1>1, <2>4 DEF Layers
  <2> HIDE DEF q
  <2>6. /\ SameStack(i, rd, q) /\ Sound(i - 1, q)
        /\ Passed(i - 1, q) = Passed(i - 1, probe.rd)
    BY <1>1, <2>2, <2>3, <2>4, <2>5, LayerReplaced
  <2>9. LayerOK(i, q)
    BY <1>3, <1>9, <2>2, <2>5, <2>6 DEF LayerOK
  <2>10. Sound(i, q) /\ Stuck(i, q, v)
    BY <2>1, <2>3, <2>4, <2>5, <2>6, <2>9, OneLayerMore
  <2>11. Passed(i, q) = l.seen + 0
    BY <1>3, <2>5 DEF Passed
  <2>12. a \in Answers /\ a.rd = q /\ a.says = v /\ a.n = 0
    BY <2>1, <2>4 DEF Answer, Answers
  <2>. QED
    <3> HIDE DEF a
    <3>. QED
      BY <1>4, <2>1, <2>6, <2>10, <2>11, <2>12 DEF Contract
<1>10. CASE l.violation = "none" /\ want # 0 /\ ~(l.seen >= l.cap)
  <2>1. /\ Allowed(i, rd, want) \in Nat /\ Allowed(i, rd, want) > 0
        /\ Allowed(i, rd, want) <= want
        /\ l.seen + Allowed(i, rd, want) <= l.cap
    <3>1. want \in Int /\ l.cap - l.seen \in Int
      BY <1>3
    <3>2. Allowed(i, rd, want)
            = IF want <= l.cap - l.seen THEN want ELSE l.cap - l.seen
      BY <3>1, MinOfTwo DEF Allowed
    <3>. QED
      BY <1>3, <1>10, <3>2
  <2>2. CASE below.says = "bytes"
    <3> DEFINE q == [below.rd EXCEPT !.layers[i].seen = @ + below.n]
    <3>1. /\ below \in Answers /\ below.rd \in Readers
          /\ below.n \in Nat /\ below.n > 0
          /\ below.n <= Allowed(i, rd, want) /\ ~below.rd.raw.eof
          /\ SameStack(i - 1, rd, below.rd) /\ Sound(i - 1, below.rd)
          /\ Passed(i - 1, below.rd) = Passed(i - 1, rd) + below.n
          /\ Clear(i - 1, below.rd)
      BY <2>1, <2>2 DEF Contract, Answers, Verdicts
    <3>2. /\ below.rd.layers[i] = l /\ i <= Len(below.rd.layers)
          /\ SameStack(i, rd, below.rd) /\ i \in 1..Len(below.rd.layers)
      BY <1>1, <3>1, SameLayer
    <3>3. /\ q \in Readers /\ q.raw = below.rd.raw
          /\ Len(q.layers) = Len(below.rd.layers)
          /\ q.layers[i] = [l EXCEPT !.seen = @ + below.n]
          /\ \A k \in 1..Len(below.rd.layers) :
               k # i => q.layers[k] = below.rd.layers[k]
      BY <3>1, <3>2, LayerChanges
    <3>4. a = [below EXCEPT !.rd = q]
      BY <1>10, <2>2, <3>1 DEF HardCapRead, Answers
    <3>5. /\ q.layers[i].violation = "none"
          /\ q.layers[i].seen = l.seen + below.n
          /\ q.layers[i].cap = l.cap /\ q.layers[i].expected = l.expected
      BY <1>1, <1>10, <3>3 DEF Layers
    <3> HIDE DEF q
    <3>6. /\ SameStack(i, rd, q) /\ Sound(i - 1, q)
          /\ Passed(i - 1, q) = Passed(i - 1, below.rd)
          /\ Clear(i - 1, q)
      <4>1. Clear(i - 1, below.rd) => Clear(i - 1, q)
        BY <1>1, <3>1, <3>2, <3>3, <3>5, LayerReplaced
      <4>2. /\ SameStack(i, rd, q) /\ Sound(i - 1, q)
            /\ Passed(i - 1, q) = Passed(i - 1, below.rd)
        BY <1>1, <3>1, <3>2, <3>3, <3>5, LayerReplaced
      <4>. QED
        BY <3>1, <4>1, <4>2
    <3>9. LayerOK(i, q)
      BY <1>3, <1>10, <2>1, <3>1, <3>5, <3>6 DEF LayerOK
    <3>10. Sound(i, q) /\ Clear(i, q)
      BY <3>2, <3>3, <3>5, <3>6, <3>9, OneLayerMore
    <3>11. Passed(i, q) = l.seen + below.n
      BY <3>5 DEF Passed
    <3>12. a \in Answers /\ a.rd = q /\ a.says = "bytes" /\ a.n = below.n
      BY <2>2, <3>1, <3>3, <3>4 DEF Answers
    <3>13. 0 < a.n /\ a.n <= want /\ ~a.rd.raw.eof
      BY <2>1, <3>1, <3>3, <3>12
    <3>. QED
      <4> HIDE DEF a
      <4>. QED
        BY <1>4, <3>6, <3>10, <3>11, <3>12, <3>13 DEF Contract, Verdicts
  <2>3. CASE below.says = "eof" /\ \E e \in l.expected : l.seen < e
    <3> DEFINE v == "UnexpectedEof"
               q == [below.rd EXCEPT !.layers[i].violation = v]
    <3>1. a = Answer(q, v, 0) /\ v \in Verdicts
      BY <1>10, <2>3 DEF HardCapRead, Latched, Verdicts
    <3>2. /\ below \in Answers /\ below.rd \in Readers /\ below.n = 0
          /\ SameStack(i - 1, rd, below.rd) /\ Sound(i - 1, below.rd)
          /\ Passed(i - 1, below.rd) = Passed(i - 1, rd) + 0
          /\ below.rd.raw.eof /\ Passed(i - 1, below.rd) = below.rd.raw.pos
          /\ rd.raw.eof \/ ~rd.raw.breaks
      BY <2>1, <2>3 DEF Contract, Answers
    <3>3. /\ below.rd.layers[i] = l /\ i <= Len(below.rd.layers)
          /\ SameStack(i, rd, below.rd) /\ i \in 1..Len(below.rd.layers)
          /\ below.rd.raw.length = rd.raw.length
          /\ below.rd.raw.breaks = rd.raw.breaks
      BY <1>1, <3>2, SameLayer
    <3>4. /\ q \in Readers /\ q.raw = below.rd.raw
          /\ Len(q.layers) = Len(below.rd.layers)
          /\ q.layers[i] = [l EXCEPT !.violation = v]
          /\ \A k \in 1..Len(below.rd.layers) :
               k # i => q.layers[k] = below.rd.layers[k]
      BY <3>1, <3>2, <3>3, LayerChanges
    <3>5. /\ q.layers[i].violation = v /\ q.layers[i].seen = l.seen
          /\ q.layers[i].cap = l.cap /\ q.layers[i].expected = l.expected
      BY <1>1, <3>4 DEF Layers
    <3> HIDE DEF q
    <3>6. /\ SameStack(i, rd, q) /\ Sound(i - 1, q)
          /\ Passed(i - 1, q) = Passed(i - 1, below.rd)
      <4>1. PICK b \in Readers : b = below.rd
        BY <3>2
      <4>2. i \in Nat /\ i > 0 /\ rd \in Readers /\ i <= Len(rd.layers)
        BY <1>1
      <4>3. Sound(i - 1, b) /\ SameStack(i, rd, b)
        BY <3>2, <3>3, <4>1
      <4>4. /\ q \in Readers /\ q.raw = b.raw /\ Len(q.layers) = Len(b.layers)
            /\ \A k \in 1..Len(b.layers) : k # i => q.layers[k] = b.layers[k]
        BY <3>4, <4>1
      <4>5. /\ q.layers[i].cap = rd.layers[i].cap
            /\ q.layers[i].expected = rd.layers[i].expected
        BY <3>5
      <4> HIDE DEF l
      <4>. QED
        BY <4>1, <4>2, <4>3, <4>4, <4>5, LayerReplaced
    <3>9. l.expected = {l.cap} /\ l.seen < l.cap
      BY <1>3, <2>3
    <3>10. Passed(i - 1, q) = l.seen
      BY <1>3, <1>10, <3>2, <3>6
    <3>11. rd.raw.breaks \/ rd.raw.length < l.cap
      <4>1. RawOK(below.rd)
        BY <3>2 DEF Sound
      <4>. QED
        BY <3>2, <3>3, <3>6, <3>9, <3>10, <4>1 DEF RawOK
    <3>12. LayerOK(i, q)
      <4>1. q.raw.length = rd.raw.length /\ q.raw.breaks = rd.raw.breaks
        BY <3>3, <3>4
      <4>. QED
        BY <1>3, <3>5, <3>9, <3>10, <3>11, <4>1 DEF LayerOK
    <3>13. Sound(i, q) /\ Stuck(i, q, v)
      BY <3>1, <3>3, <3>4, <3>5, <3>6, <3>12, OneLayerMore
    <3>14. Passed(i, q) = l.seen + 0
      BY <1>3, <3>5 DEF Passed
    <3>15. a \in Answers /\ a.rd = q /\ a.says = v /\ a.n = 0
      BY <3>1, <3>4 DEF Answer, Answers
    <3>16. ~rd.raw.eof =>
             \E k \in 1..i : /\ rd.layers[k].expected = {rd.layers[k].cap}
                             /\ rd.raw.length < rd.layers[k].cap
      <4>1. i \in 1..i
        OBVIOUS
      <4>2. ~rd.raw.eof => ~rd.raw.breaks
        BY <3>2
      <4>3. ~rd.raw.eof => rd.raw.length < l.cap
        BY <3>11, <4>2
      <4>. QED
        BY <3>9, <4>1, <4>3
    <3>. QED
      <4> HIDE DEF a
      <4>. QED
        BY <1>4, <3>1, <3>6, <3>13, <3>14, <3>15, <3>16 DEF Contract
  <2>4. CASE below.says # "bytes" /\ ~(below.says = "eof"
                                       /\ \E e \in l.expected : l.seen < e)
    <3>1. a = below
      BY <1>10, <2>4 DEF HardCapRead
    <3>2. below.says = "eof" => \A e \in l.expected : l.seen >= e
      BY <1>3, <2>4
    <3>. QED
      BY <1>10, <2>1, <2>4, <3>1, <3>2, PassesOn
  <2>. QED
    BY <2>2, <2>3, <2>4
<1>. QED
  BY <1>6, <1>7, <1>8, <1>9, <1>10

\* A read of the whole stack keeps it.
LEMMA StackContract ==
  ASSUME NEW rd, Sound(Len(rd.layers), rd), Len(rd.layers) \in 0..2,
         NEW want \in Nat
  PROVE  Contract(Len(rd.layers), rd, want, ReadStack(rd, want))
<1>1. ASSUME NEW w \in Nat PROVE Contract(0, rd, w, RawRead(rd, w))
  <2>1. Sound(0, rd)
    BY DEF Sound
  <2>. QED
    BY <2>1, RawContract
<1>2. ASSUME NEW i \in {1, 2}, i <= Len(rd.layers), NEW w \in Nat
      PROVE  Allowed(i, rd, w) \in Nat
  <2>1. /\ rd.layers[i] \in Layers /\ rd.layers[i].seen <= rd.layers[i].cap
    BY <1>2 DEF Sound, Readers, LayerOK
  <2>2. w \in Int /\ rd.layers[i].cap - rd.layers[i].seen \in Nat
    BY <2>1 DEF Layers
  <2>3. Allowed(i, rd, w) = IF w <= rd.layers[i].cap - rd.layers[i].seen
                            THEN w ELSE rd.layers[i].cap - rd.layers[i].seen
    BY <2>2, MinOfTwo DEF Allowed
  <2>. QED
    BY <2>2, <2>3
<1>3. ASSUME Len(rd.layers) >= 1, NEW w \in Nat
      PROVE  Contract(1, rd, w, InnerRead(rd, w))
  <2>1. Sound(1, rd)
    BY <1>3 DEF Sound
  <2>2. Allowed(1, rd, w) \in Nat
    BY <1>2, <1>3
  <2>3. /\ Contract(1 - 1, rd, 1, RawRead(rd, 1))
        /\ Contract(1 - 1, rd, Allowed(1, rd, w),
                    RawRead(rd, Allowed(1, rd, w)))
    BY <1>1, <2>2
  <2>. QED
    BY <2>1, <2>3, CapContract DEF InnerRead
<1>4. ASSUME Len(rd.layers) = 2
      PROVE  Contract(2, rd, want, OuterRead(rd, want))
  <2>1. Allowed(2, rd, want) \in Nat
    BY <1>2, <1>4
  <2>2. /\ Contract(2 - 1, rd, 1, InnerRead(rd, 1))
        /\ Contract(2 - 1, rd, Allowed(2, rd, want),
                    InnerRead(rd, Allowed(2, rd, want)))
    BY <1>3, <1>4, <2>1
  <2>. QED
    BY <1>4, <2>2, CapContract DEF OuterRead
<1>5. CASE Len(rd.layers) = 0
  BY <1>1, <1>5 DEF ReadStack
<1>6. CASE Len(rd.layers) = 1
  BY <1>3, <1>6 DEF ReadStack
<1>7. CASE Len(rd.layers) = 2
  BY <1>4, <1>7 DEF ReadStack
<1>. QED
  BY <1>5, <1>6, <1>7

\* A latched verdict answers every read with room, and nothing moves.
LEMMA Sticks ==
  ASSUME NEW rd, NEW v \in Verdicts, Len(rd.layers) \in 0..2,
         Stuck(Len(rd.layers), rd, v),
         \A k \in 1..Len(rd.layers) :
           rd.layers[k].cap \in Nat /\ rd.layers[k].seen \in Nat,
         NEW want \in Nat
  PROVE  \E says \in {v, "eof"} :
           /\ ReadStack(rd, want) = Answer(rd, says, 0)
           /\ want > 0 => says = v
<1> DEFINE Kept(i, w, a) == \E says \in {v, "eof"} :
             /\ a = Answer(rd, says, 0)
             /\ w > 0 => says = v
<1>1. v # "none" /\ v # "bytes" /\ v # "eof"
  BY DEF Verdicts
<1>2. ASSUME NEW i \in {1, 2}, i <= Len(rd.layers), NEW w \in Nat,
             NEW probe, NEW below,
             \/ rd.layers[i].violation = v
             \/ /\ rd.layers[i].violation = "none"
                /\ probe = Answer(rd, v, 0)
                /\ Allowed(i, rd, w) > 0 => below = Answer(rd, v, 0)
      PROVE  Kept(i, w, HardCapRead(i, rd, w, probe, below))
  <2> DEFINE a == HardCapRead(i, rd, w, probe, below)
  <2>1. CASE rd.layers[i].violation = v
    <3>1. a = Answer(rd, v, 0)
      BY <1>1, <2>1 DEF HardCapRead
    <3>. QED
      BY <3>1
  <2>2. CASE rd.layers[i].violation = "none" /\ w = 0
    <3>1. a = Answer(rd, "eof", 0)
      BY <2>2 DEF HardCapRead
    <3>. QED
      BY <2>2, <3>1
  <2>3. CASE rd.layers[i].violation = "none" /\ w # 0
    <3>1. probe = Answer(rd, v, 0) /\ Answer(rd, v, 0).says = v
      BY <1>1, <1>2, <2>3 DEF Answer
    <3>2. CASE rd.layers[i].seen >= rd.layers[i].cap
      BY <1>1, <2>3, <3>1, <3>2 DEF HardCapRead
    <3>3. CASE ~(rd.layers[i].seen >= rd.layers[i].cap)
      <4>1. w \in Int /\ rd.layers[i].cap - rd.layers[i].seen \in Int
        BY <1>2
      <4>2. Allowed(i, rd, w) > 0
        <5>1. rd.layers[i].cap - rd.layers[i].seen > 0 /\ w > 0
          BY <1>2, <2>3, <3>3
        <5>2. \/ Allowed(i, rd, w) = w
              \/ Allowed(i, rd, w) = rd.layers[i].cap - rd.layers[i].seen
          BY <4>1, MinOfTwo DEF Allowed
        <5>. QED
          BY <5>1, <5>2
      <4>3. below = Answer(rd, v, 0)
        BY <1>1, <1>2, <2>3, <4>2
      <4>. QED
        BY <1>1, <2>3, <3>1, <3>3, <4>3 DEF HardCapRead
    <3>. QED
      BY <3>2, <3>3
  <2>. QED
    BY <1>2, <2>1, <2>2, <2>3
<1>3. ASSUME NEW w \in Nat, Len(rd.layers) >= 1, rd.layers[1].violation = v
      PROVE  Kept(1, w, InnerRead(rd, w))
  BY <1>2, <1>3 DEF InnerRead
<1>4. PICK k \in 1..Len(rd.layers) :
        /\ rd.layers[k].violation = v
        /\ \A m \in (k + 1)..Len(rd.layers) : rd.layers[m].violation = "none"
  BY DEF Stuck
<1>5. CASE Len(rd.layers) = 1
  BY <1>3, <1>4, <1>5 DEF ReadStack
<1>6. CASE Len(rd.layers) = 2 /\ rd.layers[2].violation = v
  BY <1>2, <1>6 DEF ReadStack, OuterRead
<1>7. CASE /\ Len(rd.layers) = 2 /\ rd.layers[1].violation = v
           /\ rd.layers[2].violation = "none"
  <2>1. InnerRead(rd, 1) = Answer(rd, v, 0)
    BY <1>3, <1>7
  <2>3. Allowed(2, rd, want) > 0 =>
          InnerRead(rd, Allowed(2, rd, want)) = Answer(rd, v, 0)
    <3>1. want \in Int /\ rd.layers[2].cap - rd.layers[2].seen \in Int
      BY <1>7
    <3>2. Allowed(2, rd, want) \in Int
      BY <3>1, MinOfTwo DEF Allowed
    <3>. QED
      BY <1>3, <1>7, <3>2
  <2>. QED
    BY <1>2, <1>7, <2>1, <2>3 DEF ReadStack, OuterRead
<1>. QED
  BY <1>4, <1>5, <1>6, <1>7

-----------------------------------------------------------------------------
(* The inductive invariant.                                                *)

Stack == [raw |-> raw, layers |-> layers]

\* The types of the state; the readers are sound from the first to the last.
Types ==
    /\ backend \in Backends /\ payload \in Payloads
    /\ declared \in Declarations /\ limits \in Limits
    /\ backend # "libarchive" => declared # {}
    /\ \/ backend = "libarchive"
       \/ \A i \in DOMAIN payload.blocks : payload.blocks[i].hole = 0
    /\ \/ call \in {NoCall, Memory}
       \/ call = Digest
       \/ \E b \in Bounds : call = Stream(b)
    /\ phase \in {"idle", "gated", "filling", "reading", "done"}
    /\ at \in 0..Len(payload.blocks) /\ buffer \in Nat /\ got \in Nat
    /\ result \in {"none", "ok", "blocked", "ratio", "drift", "corruption",
                  "fault"}
    /\ Sound(Len(layers), Stack) /\ Len(layers) <= 2
    /\ last \in Verdicts \union {"none", "bytes", "eof", "empty", "fault"}
    /\ failed \in Verdicts \union {"none", "fault"}

\* What each phase implies of the earlier ones.
Order ==
    /\ phase = "idle" <=> call = NoCall
    /\ phase \in {"idle", "gated"} => at = 0 /\ buffer = 0
    /\ phase \in {"idle", "gated", "filling"} => result = "none"
    /\ phase \in {"filling", "reading"} => GateHolds
    /\ phase # "reading" \/ call.op # "stream" =>
         got = 0 /\ last = "none" /\ failed = "none"
    /\ phase = "reading" =>
         call.op \in {"stream", "digest"}
           /\ (call.op = "digest" => result = "none")

\* The buffer is what the blocks taken reach, up to the byte too many.
Filled ==
    phase = "filling" =>
      /\ at <= Readable(payload)
      /\ backend = "libarchive" => call.op = "memory"
      /\ call.op # "digest" /\ backend # "libarchive" => Fits
      /\ IF backend \in {"zip", "sevenzip"} /\ call.op # "digest"
         THEN \A d \in declared :
                buffer = IF Reach(payload, at) <= d THEN Reach(payload, at)
                         ELSE d + 1
         ELSE /\ buffer = Reach(payload, at)
              /\ backend = "rar" /\ call.op # "digest" => ~Exceeds(buffer, Budget)
              /\ backend = "libarchive" => buffer <= MemoryCap
              /\ call.op = "digest" => ~Exceeds(buffer, SinkCap)

\* What the readers of a stream were given, and what they say so far.
Streaming ==
    phase = "reading" /\ call.op = "stream" =>
      /\ result = "ok"
      /\ raw.length = Extent(payload) /\ raw.breaks = Breaks(payload)
      /\ \A k \in 1..Len(layers) :
           layers[k].cap \in Budget /\ layers[k].expected \subseteq declared
      /\ call.kind = "DeclaredSize" /\ declared # {} =>
           Len(layers) > 0 /\ layers[Len(layers)].expected = declared
      /\ backend = "libarchive" =>
           /\ buffer = 0
           /\ \A b \in Budget : Len(layers) > 0 /\ layers[1].cap <= b
      /\ backend # "libarchive" =>
           /\ ~raw.breaks /\ \A d \in declared : raw.length = d
           /\ ~Exceeds(raw.length, Budget)
      /\ got = Passed(Len(layers), Stack)

\* What its latest answers mean.
Answered ==
    phase = "reading" /\ call.op = "stream" =>
      /\ last = "eof" =>
           /\ raw.eof /\ got = raw.pos
           /\ \A k \in 1..Len(layers) : \A e \in layers[k].expected :
                layers[k].seen >= e
      /\ failed \in Verdicts => Stuck(Len(layers), Stack, failed)
      /\ failed = "fault" => Breaks(payload)

\* The digest's own reader goes on while it answers with bytes.
Visiting ==
    phase = "reading" /\ call.op = "digest" =>
      /\ raw.length = Extent(payload) /\ raw.breaks = Breaks(payload)
      /\ Len(layers) = 1 /\ layers[1].expected = declared
      /\ declared = {} => layers[1].cap = DefaultMaxFile
      /\ layers[1].violation = "none" /\ ~raw.eof
      /\ buffer = layers[1].seen

\* What a call that did not stream answered.
Judged ==
    /\ result = "ok" /\ call.op # "stream" => AsDeclared
    /\ result = "blocked" =>
         /\ call.op # "digest"
         /\ \/ Exceeds(Extent(payload), Budget)
            \/ /\ call.op = "memory" /\ declared = {}
               /\ Extent(payload) > Fallback
            \/ \E d \in declared : Exceeds(d, Budget)
    /\ result = "corruption" =>
         \/ Backward(payload) # {}
         \/ \E d \in declared : Extent(payload) # d
    /\ result = "fault" =>
         \/ Breaks(payload)
         \/ /\ call.op = "digest" /\ declared = {}
            /\ Extent(payload) > DefaultMaxFile

EntryInv ==
    Types /\ Order /\ Filled /\ Streaming /\ Answered /\ Visiting
      /\ Judged /\ WithinBudget

-----------------------------------------------------------------------------
(* Bounds and payloads.                                                    *)

\* The least number of a set is one of it.
LEMMA LeastOf ==
  ASSUME NEW S \in SUBSET Nat, S # {}
  PROVE  Min(S) \in S /\ \A x \in S : Min(S) <= x
<1>1. \E m \in S : \A y \in S : m <= y
  BY HasLeast
<1>. QED
  BY <1>1 DEF Min

\* How far blocks reach, one by one, up to an offset that goes backwards.
LEMMA Reaching ==
  ASSUME NEW p \in Payloads
  PROVE  /\ Len(p.blocks) \in Nat /\ p.fails \in BOOLEAN
         /\ Reach(p, 0) = 0
         /\ \A i \in 1..Len(p.blocks) :
              /\ p.blocks[i].hole \in Int /\ p.blocks[i].size \in Nat
              /\ i - 1 < Readable(p) => p.blocks[i].hole >= 0
              /\ i - 1 = Readable(p) => p.blocks[i].hole < 0
         /\ Readable(p) \in 0..Len(p.blocks)
         /\ Backward(p) = {} => Readable(p) = Len(p.blocks)
         /\ \A n \in Nat : n < Len(p.blocks) =>
              Reach(p, n + 1)
                = Reach(p, n) + (p.blocks[n + 1].hole + p.blocks[n + 1].size)
         /\ \A n \in 0..Readable(p) :
              Reach(p, n) \in Nat /\ Reach(p, n) <= Extent(p)
<1> DEFINE bs == p.blocks
           n == Len(bs)
           f == [i \in DOMAIN bs |-> bs[i].hole + bs[i].size]
           R == Readable(p)
<1>1. /\ bs \in Seq([hole : Int, size : Nat]) /\ p.fails \in BOOLEAN
      /\ n \in Nat /\ DOMAIN bs = 1..n
  BY PayloadAssumption
<1>2. ASSUME NEW i \in 1..n
      PROVE  /\ bs[i].hole \in Int /\ bs[i].size \in Nat /\ f[i] \in Int
             /\ f[i] = bs[i].hole + bs[i].size
  <2>1. bs[i] \in [hole : Int, size : Nat]
    <3> DEFINE S == [hole : Int, size : Nat]
    <3>1. bs \in Seq(S) /\ i \in 1..Len(bs)
      BY <1>1
    <3> HIDE DEF S, bs
    <3>2. bs[i] \in S
      BY <3>1
    <3>. QED
      BY <3>2 DEF S
  <2>2. f[i] = bs[i].hole + bs[i].size
    BY <1>1
  <2>. QED
    BY <2>1, <2>2
<1>3. Backward(p) \in SUBSET Nat /\ Backward(p) \subseteq 1..n
  BY <1>1 DEF Backward
<1>4. /\ R \in 0..n
      /\ Backward(p) = {} => R = n
      /\ \A i \in 1..n : /\ i - 1 < R => bs[i].hole >= 0
                         /\ i - 1 = R => bs[i].hole < 0
  <2>1. CASE Backward(p) = {}
    <3>1. R = n
      BY <2>1 DEF Readable
    <3>2. \A i \in 1..n : ~(bs[i].hole < 0)
      BY <1>1, <2>1 DEF Backward
    <3> HIDE DEF R, n, bs
    <3>3. \A i \in 1..n : bs[i].hole >= 0 /\ ~(i - 1 = n)
      BY <1>1, <1>2, <3>2
    <3>. QED
      BY <1>1, <3>1, <3>3
  <2>2. CASE Backward(p) # {}
    <3> DEFINE m == Min(Backward(p))
    <3>1. m \in Backward(p) /\ \A x \in Backward(p) : m <= x
      BY <1>3, <2>2, LeastOf
    <3>2. R = m - 1
      BY <2>2 DEF Readable
    <3>3. m \in 1..n /\ bs[m].hole < 0
      BY <1>3, <3>1 DEF Backward
    <3>4. \A i \in 1..n : bs[i].hole < 0 => m <= i
      BY <1>1, <3>1 DEF Backward
    <3> HIDE DEF R, n, bs, m
    <3>5. R \in 0..n
      BY <1>1, <3>2, <3>3
    <3>6. ASSUME NEW i \in 1..n
          PROVE  /\ i - 1 < R => bs[i].hole >= 0
                 /\ i - 1 = R => bs[i].hole < 0
      <4>1. i - 1 < R => ~(m <= i)
        BY <1>1, <3>2, <3>3
      <4>2. i - 1 = R => i = m
        BY <1>1, <3>2, <3>3
      <4>3. bs[i].hole < 0 \/ bs[i].hole >= 0
        <5>1. bs[i].hole \in Int
          BY <1>2
        <5>. QED
          BY <5>1
      <4>. QED
        BY <3>3, <3>4, <4>1, <4>2, <4>3
    <3>. QED
      BY <2>2, <3>5, <3>6
  <2>. QED
    BY <2>1, <2>2
<1>5. \A k \in Nat : Reach(p, k) = SumOver(f, 1..k)
  BY DEF Reach
<1> HIDE DEF R, f
<1>6. Reach(p, 0) = 0
  <2>1. 1..0 = {}
    OBVIOUS
  <2>. QED
    BY <1>5, <2>1, SumEmpty
<1>7. ASSUME NEW k \in Nat, k < n
      PROVE  Reach(p, k + 1) = Reach(p, k) + f[k + 1]
  <2>1. 1..(k + 1) = (1..k) \union {k + 1} /\ (k + 1) \notin 1..k
    OBVIOUS
  <2>2. \A x \in (1..k) \union {k + 1} : f[x] \in Int
    <3>1. \A x \in (1..k) \union {k + 1} : x \in 1..n
      BY <1>1, <1>7
    <3>. QED
      BY <1>2, <3>1
  <2>3. IsFiniteSet(1..k)
    BY UpTo
  <2>4. SumOver(f, (1..k) \union {k + 1}) = f[k + 1] + SumOver(f, 1..k)
    BY <2>1, <2>2, <2>3, SumPutsIn
  <2>5. SumOver(f, 1..k) \in Int /\ f[k + 1] \in Int
    BY <2>2, <2>3, SumIsInt
  <2>6. Reach(p, k + 1) = f[k + 1] + Reach(p, k)
    <3>1. Reach(p, k + 1) = SumOver(f, 1..(k + 1))
      BY <1>5
    <3>2. Reach(p, k) = SumOver(f, 1..k)
      BY <1>5
    <3>. QED
      BY <2>1, <2>4, <3>1, <3>2
  <2>. QED
    BY <1>5, <2>5, <2>6
<1>8. ASSUME NEW k \in 0..R
      PROVE  Reach(p, k) \in Nat /\ Reach(p, k) <= Extent(p)
  <2>1. \A i \in 1..R : f[i] \in Nat
    <3>1. ASSUME NEW i \in 1..R PROVE f[i] \in Nat
      <4>1. i \in 1..n /\ i - 1 < R
        BY <1>1, <1>4
      <4>. QED
        BY <1>2, <1>4, <4>1, SMTT(20)
    <3>. QED
      BY <3>1
  <2>2. /\ IsFiniteSet(1..k) /\ IsFiniteSet(1..R) /\ k \in Nat /\ R \in Nat
        /\ 1..k \in SUBSET (1..R)
    BY <1>1, <1>4, UpTo
  <2>3. SumOver(f, 1..k) <= SumOver(f, 1..R)
    BY <2>1, <2>2, SumGrows
  <2>4. SumOver(f, 1..k) \in Nat
    BY <2>1, <2>2, SumIsNat
  <2>. QED
    BY <1>5, <2>2, <2>3, <2>4 DEF Extent, R
<1>9. \A k \in Nat : k < n => Reach(p, k + 1) = Reach(p, k)
                                + (bs[k + 1].hole + bs[k + 1].size)
  <2>1. ASSUME NEW k \in Nat, k < n
        PROVE  f[k + 1] = bs[k + 1].hole + bs[k + 1].size
    <3>1. k + 1 \in 1..n
      BY <1>1, <2>1
    <3>. QED
      BY <1>2, <3>1
  <2>. QED
    BY <1>7, <2>1
<1>. QED
  <2> USE DEF R
  <2>. QED
    BY <1>1, <1>2, <1>4, <1>6, <1>8, <1>9

\* The bounds are sets of at most one number, and the caller's are within
\* what a call may materialize.
LEMMA Bounding ==
  ASSUME Types
  PROVE  /\ declared \in SUBSET Nat /\ \A m, n \in declared : m = n
         /\ limits.file \in SUBSET Nat /\ limits.total \in SUBSET Nat
         /\ call.cap \in SUBSET Nat /\ \A m, n \in call.cap : m = n
         /\ effective_entry_cap \in SUBSET Nat /\ Budget \in SUBSET Nat
         /\ effective_entry_cap \subseteq Budget
         /\ call.op \in {"none", "memory", "stream", "digest"}
         /\ call.kind \in {"none", "DeclaredSize", "Cap", "Unbounded"}
         /\ call.op # "stream" => Budget = effective_entry_cap
         /\ call.op = "stream" =>
              Budget = effective_entry_cap \union
                (IF call.kind = "DeclaredSize" THEN declared ELSE call.cap)
         /\ call.kind = "Cap" => call.cap # {} /\ call.op = "stream"
         /\ call.op = "none" <=> call = NoCall
         /\ call.op = "digest" <=> call = Digest
         /\ call.kind = "DeclaredSize" => call.op = "stream"
         /\ call.op = "stream" => call.kind # "none"
<1>1. /\ declared \in SUBSET Nat /\ \A m, n \in declared : m = n
      /\ limits.file \in SUBSET Nat /\ limits.total \in SUBSET Nat
  BY BoundAssumption DEF Types, IsBound
<1>2. /\ call.cap \in SUBSET Nat /\ \A m, n \in call.cap : m = n
      /\ call.op \in {"none", "memory", "stream", "digest"}
      /\ call.kind \in {"none", "DeclaredSize", "Cap", "Unbounded"}
      /\ call.kind = "Cap" => call.cap # {} /\ call.op = "stream"
      /\ call.op = "none" <=> call = NoCall
      /\ call.op = "digest" <=> call = Digest
      /\ call.kind = "DeclaredSize" => call.op = "stream"
      /\ call.op = "stream" => call.kind # "none"
  <2>1. CASE call \in {NoCall, Memory, Digest}
    BY <2>1 DEF NoCall, Memory, Digest
  <2>2. CASE \E b \in Bounds : call = Stream(b)
    BY <2>2, BoundAssumption DEF Stream, IsBound, NoCall, Digest
  <2>. QED
    BY <2>1, <2>2 DEF Types
<1>. QED
  BY <1>1, <1>2 DEF effective_entry_cap, Budget, stream_backend_cap

\* A payload that nothing makes fail: all of it can be read.
LEMMA Backwards ==
  ASSUME Types
  PROVE  /\ payload \in Payloads
         /\ backend # "libarchive" =>
              /\ Backward(payload) = {}
              /\ Readable(payload) = Len(payload.blocks)
         /\ Breaks(payload) \in BOOLEAN
         /\ Extent(payload) \in Nat
<1>1. payload \in Payloads
  BY DEF Types
<1>2. backend # "libarchive" => Backward(payload) = {}
  BY DEF Types, Backward
<1>3. Readable(payload) \in 0..Readable(payload)
  <2>1. Readable(payload) \in Nat
    BY <1>1, Reaching
  <2>. QED
    BY <2>1
<1>4. Extent(payload) \in Nat
  BY <1>1, <1>3, Reaching DEF Extent
<1>. QED
  BY <1>1, <1>2, <1>4, Reaching DEF Breaks

\* No layer passes more than the source has, nor than a layer below it.
LEMMA Narrowing ==
  ASSUME NEW rd, Sound(Len(rd.layers), rd), Len(rd.layers) <= 2
  PROVE  /\ Len(rd.layers) \in 0..2 /\ rd.raw \in Raws
         /\ \A k \in 1..Len(rd.layers) :
              /\ rd.layers[k] \in Layers /\ LayerOK(k, rd)
              /\ Passed(k - 1, rd) <= rd.raw.length
         /\ Passed(Len(rd.layers), rd) \in Nat
         /\ Passed(Len(rd.layers), rd) <= rd.raw.length
         /\ Len(rd.layers) > 0 =>
              Passed(Len(rd.layers), rd) <= rd.layers[1].cap
<1>1. /\ rd.raw \in Raws /\ rd.layers \in Seq(Layers) /\ RawOK(rd)
      /\ Len(rd.layers) \in 0..2
  <2>1. rd.raw \in Raws /\ rd.layers \in Seq(Layers) /\ RawOK(rd)
    BY DEF Sound, Readers
  <2>2. Len(rd.layers) \in Nat
    BY <2>1
  <2>3. \A m \in Nat : m <= 2 => m \in 0..2
    OBVIOUS
  <2>4. Len(rd.layers) \in 0..2
    BY <2>2, <2>3, Zenon
  <2>. QED
    BY <2>1, <2>4
<1>2. \A k \in 1..Len(rd.layers) : rd.layers[k] \in Layers /\ LayerOK(k, rd)
  BY <1>1 DEF Sound
<1>3. Passed(0, rd) \in Nat /\ Passed(0, rd) <= rd.raw.length
      /\ rd.raw.length \in Nat
  BY <1>1 DEF Passed, RawOK, Raws
<1>4. ASSUME NEW k \in 1..Len(rd.layers), Passed(k - 1, rd) \in Nat
      PROVE  /\ Passed(k, rd) \in Nat /\ Passed(k, rd) <= Passed(k - 1, rd)
             /\ Passed(k, rd) <= rd.layers[k].cap
             /\ rd.layers[k].cap \in Nat
  <2>1. Passed(k, rd) = rd.layers[k].seen
    BY DEF Passed
  <2>. QED
    BY <1>2, <1>4, <2>1, SMTT(20) DEF LayerOK, Layers
<1>5. CASE Len(rd.layers) = 0
  BY <1>1, <1>2, <1>3, <1>5
<1>6. CASE Len(rd.layers) = 1
  <2>1. 1 \in 1..Len(rd.layers) /\ 1 - 1 = 0
    BY <1>6
  <2>2. /\ Passed(1, rd) \in Nat /\ Passed(1, rd) <= Passed(0, rd)
        /\ Passed(1, rd) <= rd.layers[1].cap
    BY <1>3, <1>4, <2>1
  <2>3. Passed(1, rd) <= rd.raw.length
    BY <1>3, <2>2
  <2>. QED
    BY <1>1, <1>2, <1>3, <1>6, <2>2, <2>3
<1>7. CASE Len(rd.layers) = 2
  <2>1. /\ 1 \in 1..Len(rd.layers) /\ 1 - 1 = 0
        /\ 2 \in 1..Len(rd.layers) /\ 2 - 1 = 1
    BY <1>7
  <2>2. /\ Passed(1, rd) \in Nat /\ Passed(1, rd) <= Passed(0, rd)
        /\ Passed(1, rd) <= rd.layers[1].cap /\ rd.layers[1].cap \in Nat
    BY <1>3, <1>4, <2>1
  <2>3. Passed(2, rd) \in Nat /\ Passed(2, rd) <= Passed(1, rd)
    BY <1>4, <2>1, <2>2
  <2>4. /\ Passed(1, rd) <= rd.raw.length /\ Passed(2, rd) <= rd.raw.length
        /\ Passed(2, rd) <= rd.layers[1].cap
    BY <1>3, <2>2, <2>3
  <2>. QED
    BY <1>1, <1>2, <1>3, <1>7, <2>3, <2>4
<1>. QED
  BY <1>1, <1>5, <1>6, <1>7

-----------------------------------------------------------------------------
(* What the actions have in common.                                        *)

\* The entry and the limits stay; the call is chosen once.
LEMMA Chosen ==
  ASSUME [Next]_vars
  PROVE  UNCHANGED subject /\ (Call \/ call' = call)
<1>1. CASE UNCHANGED vars
  BY <1>1 DEF vars
<1>2. CASE Call
  BY <1>2 DEF Call
<1>3. CASE GateRefuses \/ SeekDrifts \/ StageRefuses \/ StartFilling
  BY <1>3 DEF GateRefuses, SeekDrifts, StageRefuses, StartFilling
<1>4. CASE BufferBlock \/ DecodeBlock \/ AssembleBlock \/ PushBlock
  BY <1>4 DEF BufferBlock, DecodeBlock, AssembleBlock, PushBlock, Fill, Refuse
<1>5. CASE StageFails \/ StageEnds \/ OpenStream \/ Read
  BY <1>5 DEF StageFails, StageEnds, OpenStream, Read
<1>6. CASE OpenVisit \/ VisitRead
  BY <1>6 DEF OpenVisit, VisitRead
<1>. QED
  BY <1>1, <1>2, <1>3, <1>4, <1>5, <1>6 DEF Next

\* What depends on the entry, the limits and the call alone.
LEMMA Steady ==
  ASSUME UNCHANGED subject, UNCHANGED call
  PROVE  /\ Budget' = Budget /\ effective_entry_cap' = effective_entry_cap
         /\ MemoryCap' = MemoryCap /\ SinkCap' = SinkCap
         /\ GateHolds' <=> GateHolds
         /\ Fits' <=> Fits
<1>1. /\ backend' = backend /\ declared' = declared /\ limits' = limits
      /\ payload' = payload /\ call' = call
  BY DEF subject
<1>2. Budget' = Budget /\ effective_entry_cap' = effective_entry_cap
  BY <1>1 DEF Budget, effective_entry_cap, stream_backend_cap
<1>3. MemoryCap' = MemoryCap /\ SinkCap' = SinkCap
  BY <1>1, <1>2 DEF MemoryCap, SinkCap
<1>4. (GateHolds' <=> GateHolds) /\ (Fits' <=> Fits)
  BY <1>1, <1>2 DEF GateHolds, Fits
<1>. QED
  BY <1>2, <1>3, <1>4

\* The caps that buffering obeys.
LEMMA Caps ==
  ASSUME Types
  PROVE  /\ MemoryCap \in Nat
         /\ \A b \in Budget : MemoryCap <= b
         /\ \A d \in declared : MemoryCap <= d
         /\ declared = {} => MemoryCap <= Fallback
         /\ MemoryCap \in Budget \/ MemoryCap \in declared
              \/ (declared = {} /\ MemoryCap = Fallback)
<1> DEFINE S == (IF declared = {} THEN {Fallback} ELSE declared) \union Budget
<1>1. declared \in SUBSET Nat /\ Budget \in SUBSET Nat /\ Fallback \in Nat
  BY Bounding, BoundAssumption
<1>2. S \in SUBSET Nat /\ S # {}
  BY <1>1
<1>3. MemoryCap = Min(S)
  BY DEF MemoryCap
<1>4. MemoryCap \in S /\ \A x \in S : MemoryCap <= x
  <2> HIDE DEF S
  <2>. QED
    BY <1>2, <1>3, LeastOf
<1>. QED
  BY <1>1, <1>4

\* The block a decoder hands over.
LEMMA NextBlock ==
  ASSUME Types, at < Len(payload.blocks), at \in Nat
  PROVE  /\ Block.hole \in Int /\ Block.size \in Nat
         /\ at + 1 \in 0..Len(payload.blocks)
         /\ Reach(payload, at + 1)
              = Reach(payload, at) + (Block.hole + Block.size)
         /\ backend # "libarchive" => Block.hole = 0
         /\ at <= Readable(payload) /\ Block.hole >= 0 =>
              /\ at + 1 <= Readable(payload)
              /\ Reach(payload, at + 1) \in Nat
              /\ Reach(payload, at) \in Nat
              /\ Reach(payload, at + 1) <= Extent(payload)
<1>1. payload \in Payloads /\ Len(payload.blocks) \in Nat
  BY Reaching DEF Types
<1>2. /\ at + 1 \in 1..Len(payload.blocks) /\ (at + 1) - 1 = at
      /\ at + 1 \in 0..Len(payload.blocks)
  BY <1>1
<1>3. /\ Block.hole \in Int /\ Block.size \in Nat
      /\ at = Readable(payload) => Block.hole < 0
  BY <1>1, <1>2, Reaching DEF Block
<1>4. Reach(payload, at + 1)
        = Reach(payload, at) + (Block.hole + Block.size)
  BY <1>1, Reaching DEF Block
<1>5. backend # "libarchive" => Block.hole = 0
  <2>1. payload.blocks \in Seq([hole : Int, size : Nat])
    BY <1>1, PayloadAssumption
  <2>2. DOMAIN payload.blocks = 1..Len(payload.blocks)
    BY <2>1
  <2>. QED
    BY <1>2, <2>2 DEF Types, Block
<1>6. ASSUME at <= Readable(payload), Block.hole >= 0
      PROVE  /\ at + 1 <= Readable(payload)
             /\ Reach(payload, at + 1) \in Nat
             /\ Reach(payload, at) \in Nat
             /\ Reach(payload, at + 1) <= Extent(payload)
  <2>1. at # Readable(payload)
    BY <1>3, <1>6
  <2>2. Readable(payload) \in Nat
    BY <1>1, Reaching
  <2>3. at + 1 \in 0..Readable(payload) /\ at \in 0..Readable(payload)
    BY <1>6, <2>1, <2>2
  <2>. QED
    BY <1>1, <2>2, <2>3, Reaching
<1>. QED
  BY <1>2, <1>3, <1>4, <1>5, <1>6

\* Readers nobody has read.
LEMMA Fresh ==
  ASSUME NEW n \in Nat, NEW b \in BOOLEAN, NEW ls \in Seq(Layers),
         \A k \in 1..Len(ls) : /\ ls[k].expected \subseteq {ls[k].cap}
                               /\ ls[k].seen = 0
                               /\ ls[k].violation = "none",
         NEW source,
         source = [length |-> n, breaks |-> b, pos |-> 0, eof |-> FALSE]
  PROVE  LET rd == [raw |-> source, layers |-> ls] IN
         Sound(Len(ls), rd) /\ Passed(Len(ls), rd) = 0
<1> DEFINE rd == [raw |-> source, layers |-> ls]
<1>1. /\ rd.raw = source /\ rd.layers = ls /\ Len(ls) \in Nat
      /\ source \in Raws /\ source.pos = 0 /\ ~source.eof
      /\ source.length = n
  BY DEF Raws
<1>2. rd \in Readers
  BY <1>1 DEF Readers
<1> HIDE DEF rd
<1>3. RawOK(rd)
  BY <1>1 DEF RawOK
<1>4. \A k \in 0..Len(ls) : Passed(k, rd) = 0
  BY <1>1 DEF Passed
<1>5. ASSUME NEW k \in 1..Len(ls) PROVE LayerOK(k, rd)
  <2>1. /\ ls[k] \in Layers /\ k - 1 \in 0..Len(ls)
        /\ ls[k].cap \in Nat
    <3>1. ls[k] \in Layers /\ k - 1 \in 0..Len(ls)
      BY <1>1
    <3>. QED
      BY <3>1 DEF Layers
  <2>2. Passed(k - 1, rd) = 0
    BY <1>4, <2>1
  <2>. QED
    BY <1>1, <2>1, <2>2 DEF LayerOK
<1>6. Len(ls) \in 0..Len(ls)
  BY <1>1
<1>7. Sound(Len(ls), rd)
  BY <1>1, <1>2, <1>3, <1>5, <1>6 DEF Sound
<1>. QED
  BY <1>4, <1>6, <1>7 DEF rd

\* The layers a stream is handed out under.
LEMMA Configured ==
  ASSUME Types, call.op = "stream", NEW inner,
         \/ inner = << >>
         \/ Budget # {} /\ inner = <<ceiling(Min(Budget))>>
  PROVE  LET ls == inner \o BoundLayers IN
         /\ ls \in Seq(Layers) /\ Len(ls) \in 0..2
         /\ \A k \in 1..Len(ls) :
              /\ ls[k].cap \in Budget /\ ls[k].expected \subseteq declared
              /\ ls[k].expected \subseteq {ls[k].cap}
              /\ ls[k].seen = 0 /\ ls[k].violation = "none"
         /\ call.kind = "DeclaredSize" /\ declared # {} =>
              Len(ls) > 0 /\ ls[Len(ls)].expected = declared
         /\ inner # << >> => Len(ls) > 0 /\ \A b \in Budget : ls[1].cap <= b
<1> DEFINE Good(l) == /\ l \in Layers
                      /\ l.cap \in Budget /\ l.expected \subseteq declared
                      /\ l.expected \subseteq {l.cap}
                      /\ l.seen = 0 /\ l.violation = "none"
           B == BoundLayers
           full == call.kind = "DeclaredSize" /\ declared # {}
<1>1. /\ declared \in SUBSET Nat /\ Budget \in SUBSET Nat
      /\ effective_entry_cap \in SUBSET Nat /\ call.cap \in SUBSET Nat
      /\ effective_entry_cap \subseteq Budget
      /\ \A m, n \in declared : m = n
      /\ call.kind = "DeclaredSize" => declared \subseteq Budget
      /\ call.kind = "Cap" => call.cap # {} /\ call.cap \subseteq Budget
  BY Bounding
<1>2. ASSUME NEW n \in Budget PROVE Good(ceiling(n)) /\ ceiling(n).cap = n
  <2>1. n \in Nat
    BY <1>1
  <2>. QED
    BY <2>1 DEF ceiling, Layers
<1>3. ASSUME NEW n \in declared, declared \subseteq Budget
      PROVE  Good(exact(n)) /\ exact(n).expected = declared
  <2>1. n \in Nat /\ n \in Budget /\ declared = {n}
    BY <1>1, <1>3
  <2>. QED
    BY <2>1 DEF exact, Layers
<1>4. \/ B = << >> /\ ~full
      \/ \E l : B = <<l>> /\ Good(l) /\ (full => l.expected = declared)
  <2>1. CASE full
    <3>1. Min(declared) \in declared
      BY <1>1, <2>1, LeastOf
    <3>2. B = <<exact(Min(declared))>>
      <4>1. call.kind = "DeclaredSize" /\ declared # {}
        BY <2>1
      <4>2. call.kind # "Cap"
        BY <4>1
      <4>. QED
        BY <4>1, <4>2 DEF BoundLayers
    <3>3. declared \subseteq Budget
      BY <1>1, <2>1
    <3> HIDE DEF B, Good
    <3>. QED
      BY <1>3, <3>1, <3>2, <3>3
  <2>2. CASE /\ ~full /\ call.kind = "DeclaredSize"
             /\ effective_entry_cap # {}
    <3>1. Min(effective_entry_cap) \in effective_entry_cap
      BY <1>1, <2>2, LeastOf
    <3>2. B = <<ceiling(Min(effective_entry_cap))>>
      BY <2>2 DEF BoundLayers
    <3>3. Min(effective_entry_cap) \in Budget
      BY <1>1, <3>1
    <3> HIDE DEF B, Good, full
    <3>. QED
      BY <1>2, <2>2, <3>2, <3>3
  <2>3. CASE call.kind = "Cap"
    <3>1. Min(call.cap) \in call.cap
      BY <1>1, <2>3, LeastOf
    <3>2. B = <<ceiling(Min(call.cap))>> /\ ~full
      BY <2>3 DEF BoundLayers
    <3>3. Min(call.cap) \in Budget
      BY <1>1, <2>3, <3>1
    <3> HIDE DEF B, Good, full
    <3>. QED
      BY <1>2, <3>2, <3>3
  <2>4. CASE /\ ~full /\ call.kind # "Cap"
             /\ ~(call.kind = "DeclaredSize" /\ effective_entry_cap # {})
    <3>1. B = << >>
      BY <2>4 DEF BoundLayers
    <3>. QED
      BY <2>4, <3>1
  <2>. QED
    BY <2>1, <2>2, <2>3, <2>4
<1>5. \/ inner = << >>
      \/ \E l : /\ inner = <<l>> /\ Good(l)
                /\ \A b \in Budget : l.cap <= b
  <2>1. CASE inner = << >>
    BY <2>1
  <2>2. CASE Budget # {} /\ inner = <<ceiling(Min(Budget))>>
    <3>1. /\ Min(Budget) \in Budget /\ \A x \in Budget : Min(Budget) <= x
      BY <1>1, <2>2, LeastOf
    <3> HIDE DEF Good
    <3>2. /\ Good(ceiling(Min(Budget)))
          /\ ceiling(Min(Budget)).cap = Min(Budget)
      BY <1>2, <3>1
    <3>. QED
      BY <2>2, <3>1, <3>2
  <2>. QED
    BY <2>1, <2>2
<1> DEFINE ls == inner \o B
<1>6. ASSUME NEW s, \/ s = << >>
                    \/ \E l : s = <<l>> /\ Good(l)
                    \/ /\ s \in Seq(Layers) /\ Len(s) = 2
                       /\ Good(s[1]) /\ Good(s[2])
      PROVE  /\ s \in Seq(Layers) /\ Len(s) \in 0..2
             /\ \A k \in 1..Len(s) : Good(s[k])
  <2>1. CASE s = << >>
    BY <2>1
  <2>2. CASE \E l : s = <<l>> /\ Good(l)
    <3>1. PICK l : s = <<l>> /\ Good(l)
      BY <2>2
    <3>2. l \in Layers /\ Len(s) = 1 /\ s[1] = l
      BY <3>1
    <3>3. \A k \in 1..Len(s) : s[k] = l
      BY <3>2
    <3> HIDE DEF Good
    <3>. QED
      BY <3>1, <3>2, <3>3
  <2>3. CASE s \in Seq(Layers) /\ Len(s) = 2 /\ Good(s[1]) /\ Good(s[2])
    <3> HIDE DEF Good
    <3>1. \A k \in 1..Len(s) : k = 1 \/ k = 2
      BY <2>3
    <3>. QED
      BY <2>3, <3>1
  <2>. QED
    BY <1>6, <2>1, <2>2, <2>3
<1>7. CASE inner = << >> /\ B = << >> /\ ~full
  <2>1. ls = << >>
    BY <1>7
  <2>. QED
    BY <1>7, <2>1
<1>8. CASE inner = << >> /\ \E l : B = <<l>> /\ Good(l)
                                    /\ (full => l.expected = declared)
  <2>1. PICK l : B = <<l>> /\ Good(l) /\ (full => l.expected = declared)
    BY <1>8
  <2>2. ls = <<l>> /\ Len(ls) = 1 /\ ls[1] = l
    BY <1>8, <2>1
  <2> HIDE DEF Good, ls
  <2>3. /\ ls \in Seq(Layers) /\ Len(ls) \in 0..2
        /\ \A k \in 1..Len(ls) : Good(ls[k])
    BY <1>6, <2>1, <2>2
  <2>4. full => Len(ls) > 0 /\ ls[Len(ls)].expected = declared
    BY <2>1, <2>2
  <2>. QED
    BY <1>8, <2>3, <2>4 DEF Good, ls
<1>9. CASE /\ \E l : inner = <<l>> /\ Good(l) /\ \A b \in Budget : l.cap <= b
           /\ B = << >> /\ ~full
  <2>1. PICK l : inner = <<l>> /\ Good(l) /\ \A b \in Budget : l.cap <= b
    BY <1>9
  <2>2. ls = <<l>> /\ Len(ls) = 1 /\ ls[1] = l
    BY <1>9, <2>1
  <2> HIDE DEF Good, ls
  <2>3. /\ ls \in Seq(Layers) /\ Len(ls) \in 0..2
        /\ \A k \in 1..Len(ls) : Good(ls[k])
    BY <1>6, <2>1, <2>2
  <2>4. Len(ls) > 0 /\ \A b \in Budget : ls[1].cap <= b
    BY <2>1, <2>2
  <2>. QED
    BY <1>9, <2>3, <2>4 DEF Good, ls
<1>10. CASE /\ \E l : inner = <<l>> /\ Good(l) /\ \A b \in Budget : l.cap <= b
            /\ \E l : B = <<l>> /\ Good(l) /\ (full => l.expected = declared)
  <2>1. PICK l : inner = <<l>> /\ Good(l) /\ \A b \in Budget : l.cap <= b
    BY <1>10
  <2>2. PICK m : B = <<m>> /\ Good(m) /\ (full => m.expected = declared)
    BY <1>10
  <2>3. ls \in Seq(Layers) /\ Len(ls) = 2 /\ ls[1] = l /\ ls[2] = m
    <3>1. ls = <<l>> \o <<m>> /\ l \in Layers /\ m \in Layers
      BY <2>1, <2>2
    <3> HIDE DEF ls, Good
    <3>2. /\ <<l>> \in Seq(Layers) /\ Len(<<l>>) = 1 /\ <<l>>[1] = l
          /\ <<m>> \in Seq(Layers) /\ Len(<<m>>) = 1 /\ <<m>>[1] = m
      BY <3>1
    <3>3. /\ ls \in Seq(Layers) /\ Len(ls) = Len(<<l>>) + Len(<<m>>)
          /\ \A i \in 1..(Len(<<l>>) + Len(<<m>>)) :
               ls[i] = IF i <= Len(<<l>>) THEN <<l>>[i]
                       ELSE <<m>>[i - Len(<<l>>)]
      BY <3>1, <3>2, ConcatProperties
    <3>4. /\ Len(ls) = 2 /\ 1 \in 1..(Len(<<l>>) + Len(<<m>>))
          /\ 2 \in 1..(Len(<<l>>) + Len(<<m>>))
      BY <3>2, <3>3
    <3>5. ls[1] = <<l>>[1] /\ ls[2] = <<m>>[1]
      BY <3>2, <3>3, <3>4
    <3>. QED
      BY <3>2, <3>3, <3>4, <3>5
  <2> HIDE DEF Good, ls
  <2>4. /\ ls \in Seq(Layers) /\ Len(ls) \in 0..2
        /\ \A k \in 1..Len(ls) : Good(ls[k])
    BY <1>6, <2>1, <2>2, <2>3
  <2>5. Len(ls) > 0 /\ \A b \in Budget : ls[1].cap <= b
    BY <2>1, <2>3
  <2>6. full => Len(ls) > 0 /\ ls[Len(ls)].expected = declared
    BY <2>2, <2>3
  <2>. QED
    BY <2>4, <2>5, <2>6 DEF Good, ls
<1>. QED
  BY <1>4, <1>5, <1>7, <1>8, <1>9, <1>10

\* A read of the stack, as the contract has it.
LEMMA Reads ==
  ASSUME Types, NEW k \in Nat, NEW a, a = ReadStack(Stack, k),
         raw' = a.rd.raw, layers' = a.rd.layers
  PROVE  /\ Contract(Len(layers), Stack, k, a)
         /\ Stack' = a.rd /\ Len(layers') = Len(layers)
         /\ Stack.raw = raw /\ Stack.layers = layers /\ Len(layers) \in 0..2
<1>1. Stack.raw = raw /\ Stack.layers = layers
  BY DEF Stack
<1>2. Sound(Len(Stack.layers), Stack) /\ Len(Stack.layers) \in 0..2
  BY <1>1, Narrowing DEF Types
<1>3. Contract(Len(layers), Stack, k, a)
  BY <1>1, <1>2, StackContract
<1>4. a.rd \in Readers /\ Len(a.rd.layers) = Len(layers)
  BY <1>1, <1>3 DEF Contract, Answers, SameStack
<1>5. Stack' = a.rd
  BY <1>4 DEF Stack, Readers
<1>. QED
  BY <1>1, <1>2, <1>3, <1>4, <1>5

-----------------------------------------------------------------------------
(* The steps keep it.                                                      *)

\* A caller's read of a stream.
LEMMA StreamRead ==
  ASSUME Types, Read
  PROVE  \E k \in Nat, a \in Answers :
           /\ Contract(Len(layers), Stack, k, a) /\ a = ReadStack(Stack, k)
           /\ Stack' = a.rd /\ Len(layers') = Len(layers)
           /\ got' = got + a.n
           /\ last' = IF k = 0 /\ a.says = "eof" THEN "empty" ELSE a.says
           /\ failed' = IF failed = "none" /\ a.says \notin {"bytes", "eof"}
                        THEN a.says ELSE failed
           /\ UNCHANGED <<subject, call, phase, at, buffer, result>>
           /\ phase = "reading" /\ call.op = "stream"
<1>1. \E k \in Asks : \E a :
        /\ a = ReadStack(Stack, k)
        /\ raw' = a.rd.raw /\ layers' = a.rd.layers
        /\ got' = got + a.n
        /\ last' = IF k = 0 /\ a.says = "eof" THEN "empty" ELSE a.says
        /\ failed' = IF failed = "none" /\ a.says \notin {"bytes", "eof"}
                     THEN a.says ELSE failed
  BY DEF Read, Stack
<1>2. PICK k, a :
        /\ k \in Asks /\ a = ReadStack(Stack, k)
        /\ raw' = a.rd.raw /\ layers' = a.rd.layers
        /\ got' = got + a.n
        /\ last' = IF k = 0 /\ a.says = "eof" THEN "empty" ELSE a.says
        /\ failed' = IF failed = "none" /\ a.says \notin {"bytes", "eof"}
                     THEN a.says ELSE failed
  BY <1>1, Zenon
<1>3. k \in Nat
  BY <1>2, AskAssumption
<1>4. /\ Contract(Len(layers), Stack, k, a)
      /\ Stack' = a.rd /\ Len(layers') = Len(layers)
  BY <1>2, <1>3, Reads
<1>5. /\ UNCHANGED <<subject, call, phase, at, buffer, result>>
      /\ phase = "reading" /\ call.op = "stream"
  BY DEF Read
<1>6. a \in Answers
  BY <1>4 DEF Contract
<1>. QED
  BY <1>2, <1>3, <1>4, <1>5, <1>6, Zenon

\* A read of the digest's loop, and what it makes of the answer.
LEMMA DigestRead ==
  ASSUME Types, VisitRead
  PROVE  \E k \in Nat, a \in Answers :
           /\ Contract(Len(layers), Stack, k, a) /\ k > 0
           /\ Stack' = a.rd /\ Len(layers') = Len(layers)
           /\ buffer' = buffer + a.n
           /\ \/ a.says = "bytes" /\ UNCHANGED <<phase, result>>
              \/ a.says = "eof" /\ phase' = "done" /\ result' = "ok"
              \/ /\ a.says \in Verdicts /\ phase' = "done"
                 /\ result' = IF declared # {} THEN "corruption" ELSE "fault"
              \/ a.says = "fault" /\ phase' = "done" /\ result' = "fault"
           /\ UNCHANGED <<subject, call, at, got, last, failed>>
           /\ phase = "reading" /\ call.op = "digest"
<1> DEFINE k == Max(Asks)
           a == ReadStack(Stack, k)
<1>1. k \in Nat /\ k > 0
  <2>1. PICK m \in Asks : m > 0 /\ \A n \in Asks : n <= m
    BY AskAssumption
  <2>2. Asks \subseteq Nat
    BY AskAssumption
  <2>3. k \in Asks /\ \A n \in Asks : k >= n
    BY <2>1, <2>2 DEF Max
  <2> HIDE DEF k
  <2>4. k >= m /\ m \in Nat /\ k \in Nat
    BY <2>1, <2>2, <2>3
  <2>. QED
    BY <2>1, <2>4
<1>2. /\ raw' = a.rd.raw /\ layers' = a.rd.layers
      /\ buffer' = buffer + a.n
      /\ \/ a.says = "bytes" /\ UNCHANGED <<phase, result>>
         \/ a.says = "eof" /\ phase' = "done" /\ result' = "ok"
         \/ /\ a.says \in Verdicts /\ phase' = "done"
            /\ result' = IF declared # {} THEN "corruption" ELSE "fault"
         \/ a.says = "fault" /\ phase' = "done" /\ result' = "fault"
      /\ UNCHANGED <<subject, call, at, got, last, failed>>
      /\ phase = "reading" /\ call.op = "digest"
  BY DEF VisitRead, Return, Stack
<1> HIDE DEF k
<1>3. /\ Contract(Len(layers), Stack, k, a)
      /\ Stack' = a.rd /\ Len(layers') = Len(layers)
  BY <1>1, <1>2, Reads
<1>4. a \in Answers
  BY <1>3 DEF Contract
<1> HIDE DEF a
<1>. QED
  BY <1>1, <1>2, <1>3, <1>4, Zenon

\* The source a stream or a digest is handed.
LEMMA Sources ==
  ASSUME NEW n \in Nat, NEW b \in BOOLEAN
  PROVE  /\ [NoRaw EXCEPT !.length = n]
              = [length |-> n, breaks |-> FALSE, pos |-> 0, eof |-> FALSE]
         /\ [NoRaw EXCEPT !.length = n, !.breaks = b]
              = [length |-> n, breaks |-> b, pos |-> 0, eof |-> FALSE]
<1>1. /\ NoRaw \in Raws /\ NoRaw.pos = 0 /\ NoRaw.eof = FALSE
      /\ NoRaw.breaks = FALSE
  BY DEF NoRaw, Raws
<1>2. \A r, s \in Raws :
        r.length = s.length /\ r.breaks = s.breaks /\ r.pos = s.pos
          /\ r.eof = s.eof => r = s
  BY DEF Raws
<1>3. [NoRaw EXCEPT !.length = n] \in Raws
  BY <1>1 DEF Raws
<1>4. [NoRaw EXCEPT !.length = n, !.breaks = b] \in Raws
  BY <1>1 DEF Raws
<1>5. \A x \in BOOLEAN :
        [length |-> n, breaks |-> x, pos |-> 0, eof |-> FALSE] \in Raws
  BY DEF Raws
<1>6. [NoRaw EXCEPT !.length = n]
        = [length |-> n, breaks |-> FALSE, pos |-> 0, eof |-> FALSE]
  BY <1>1, <1>2, <1>3, <1>5 DEF NoRaw, Raws
<1>7. [NoRaw EXCEPT !.length = n, !.breaks = b]
        = [length |-> n, breaks |-> b, pos |-> 0, eof |-> FALSE]
  <2> DEFINE r == [NoRaw EXCEPT !.length = n, !.breaks = b]
             s == [length |-> n, breaks |-> b, pos |-> 0, eof |-> FALSE]
  <2>1. r.length = n /\ r.breaks = b /\ r.pos = 0 /\ r.eof = FALSE
    BY <1>1 DEF Raws
  <2>2. s.length = n /\ s.breaks = b /\ s.pos = 0 /\ s.eof = FALSE
    OBVIOUS
  <2>3. r \in Raws /\ s \in Raws
    BY <1>4, <1>5
  <2> HIDE DEF r, s
  <2>4. r = s
    BY <1>2, <2>1, <2>2, <2>3
  <2>. QED
    BY <2>4 DEF r, s
<1>. QED
  BY <1>6, <1>7

\* Types when only the progress and the result of the call changed.
LEMMA TypesKept ==
  ASSUME Types, UNCHANGED subject, UNCHANGED call, UNCHANGED reader,
         phase' \in {"idle", "gated", "filling", "reading", "done"},
         at' \in 0..Len(payload.blocks), buffer' \in Nat,
         result' \in {"none", "ok", "blocked", "ratio", "drift", "corruption",
                     "fault"}
  PROVE  Types'
<1>1. Stack' = Stack /\ layers' = layers
  BY DEF reader, Stack
<1>2. Sound(Len(layers), Stack)' /\ (Len(layers) <= 2)'
  BY <1>1 DEF Types
<1>. QED
  BY <1>2 DEF Types, subject, reader

\* Types when readers were handed out.
LEMMA TypesHanded ==
  ASSUME Types, UNCHANGED <<subject, call, at, got, last, failed>>,
         phase' = "reading", buffer' \in Nat, result' \in {"ok", "none"},
         NEW n \in Nat, NEW b \in BOOLEAN,
         raw' = [length |-> n, breaks |-> b, pos |-> 0, eof |-> FALSE],
         layers' \in Seq(Layers), Len(layers') <= 2,
         \A k \in 1..Len(layers') :
           /\ layers'[k].expected \subseteq {layers'[k].cap}
           /\ layers'[k].seen = 0 /\ layers'[k].violation = "none"
  PROVE  Types' /\ Passed(Len(layers'), Stack') = 0
<1>1. Sound(Len(layers'), Stack') /\ Passed(Len(layers'), Stack') = 0
  BY Fresh DEF Stack
<1>. QED
  BY <1>1 DEF Types, subject

\* A staged stream or libarchive's, as it is handed out.
LEMMA Handed ==
  ASSUME EntryInv, UNCHANGED <<subject, call, at, buffer>>,
         NEW n \in Nat, NEW b \in BOOLEAN, NEW inner,
         HandOut([length |-> n, breaks |-> b, pos |-> 0, eof |-> FALSE],
                 inner),
         call.op = "stream", got = 0, last = "none", failed = "none",
         \/ inner = << >>
         \/ Budget # {} /\ inner = <<ceiling(Min(Budget))>>
  PROVE  /\ Types' /\ Passed(Len(layers'), Stack') = 0
         /\ raw'.length = n /\ raw'.breaks = b
         /\ \A k \in 1..Len(layers') : /\ layers'[k].cap \in Budget
                                       /\ layers'[k].expected \subseteq declared
         /\ call.kind = "DeclaredSize" /\ declared # {} =>
              Len(layers') > 0 /\ layers'[Len(layers')].expected = declared
         /\ inner # << >> =>
              Len(layers') > 0 /\ \A x \in Budget : layers'[1].cap <= x
         /\ got' = 0 /\ last' = "none" /\ failed' = "none"
         /\ phase' = "reading" /\ result' = "ok"
<1>1. /\ raw' = [length |-> n, breaks |-> b, pos |-> 0, eof |-> FALSE]
      /\ layers' = inner \o BoundLayers
      /\ phase' = "reading" /\ result' = "ok"
      /\ UNCHANGED <<got, last, failed>>
  BY DEF HandOut
<1>2. Types
  BY DEF EntryInv
<1>3. /\ layers' \in Seq(Layers) /\ Len(layers') \in 0..2
      /\ \A k \in 1..Len(layers') :
           /\ layers'[k].cap \in Budget /\ layers'[k].expected \subseteq declared
           /\ layers'[k].expected \subseteq {layers'[k].cap}
           /\ layers'[k].seen = 0 /\ layers'[k].violation = "none"
      /\ call.kind = "DeclaredSize" /\ declared # {} =>
           Len(layers') > 0 /\ layers'[Len(layers')].expected = declared
      /\ inner # << >> =>
           Len(layers') > 0 /\ \A x \in Budget : layers'[1].cap <= x
  BY <1>1, <1>2, Configured
<1>4. buffer' \in Nat /\ Len(layers') <= 2
  BY <1>2, <1>3 DEF Types
<1>5. Types' /\ Passed(Len(layers'), Stack') = 0
  BY <1>1, <1>2, <1>3, <1>4, TypesHanded
<1>. QED
  BY <1>1, <1>3, <1>5

\* The types are kept.
LEMMA TypesStep == EntryInv /\ [Next]_vars => Types'
<1> SUFFICES ASSUME EntryInv, [Next]_vars PROVE Types'
  OBVIOUS
<1> USE DEF EntryInv, subject, reader
<1>1. CASE UNCHANGED vars
  <2>1. Types /\ Len(payload.blocks) \in Nat
    BY Reaching DEF Types
  <2>2. /\ UNCHANGED subject /\ UNCHANGED call /\ UNCHANGED reader
        /\ phase' \in {"idle", "gated", "filling", "reading", "done"}
        /\ at' \in 0..Len(payload.blocks) /\ buffer' \in Nat
        /\ result' \in {"none", "ok", "blocked", "ratio", "drift",
                        "corruption", "fault"}
    BY <1>1, <2>1 DEF vars, Types
  <2>. QED
    BY <2>1, <2>2, TypesKept
<1>2. CASE Call
  <2>1. /\ call' \in {Memory, Digest} \union {Stream(b) : b \in Bounds}
        /\ phase' = "gated" /\ UNCHANGED <<subject, at, buffer, result, reader>>
    BY <1>2 DEF Call
  <2>2. \/ call' \in {NoCall, Memory}
        \/ call' = Digest
        \/ \E b \in Bounds : call' = Stream(b)
    BY <2>1
  <2>3. Stack' = Stack
    BY <2>1 DEF Stack
  <2>4. Sound(Len(layers), Stack)' /\ (Len(layers) <= 2)'
    BY <2>1, <2>3 DEF Types
  <2>. QED
    BY <2>1, <2>2, <2>4 DEF Types
<1>3. CASE GateRefuses
  <2>1. Types /\ Len(payload.blocks) \in Nat
    BY Reaching DEF Types
  <2>2. /\ UNCHANGED subject /\ UNCHANGED call /\ UNCHANGED reader
        /\ phase' \in {"idle", "gated", "filling", "reading", "done"}
        /\ at' \in 0..Len(payload.blocks) /\ buffer' \in Nat
        /\ result' \in {"none", "ok", "blocked", "ratio", "drift",
                        "corruption", "fault"}
    BY <1>3, <2>1 DEF GateRefuses, Return, Types
  <2>. QED
    BY <2>1, <2>2, TypesKept
<1>4. CASE SeekDrifts
  <2>1. Types /\ Len(payload.blocks) \in Nat
    BY Reaching DEF Types
  <2>2. /\ UNCHANGED subject /\ UNCHANGED call /\ UNCHANGED reader
        /\ phase' \in {"idle", "gated", "filling", "reading", "done"}
        /\ at' \in 0..Len(payload.blocks) /\ buffer' \in Nat
        /\ result' \in {"none", "ok", "blocked", "ratio", "drift",
                        "corruption", "fault"}
    BY <1>4, <2>1 DEF SeekDrifts, Return, Types
  <2>. QED
    BY <2>1, <2>2, TypesKept
<1>5. CASE StageRefuses
  <2>1. Types /\ Len(payload.blocks) \in Nat
    BY Reaching DEF Types
  <2>2. /\ UNCHANGED subject /\ UNCHANGED call /\ UNCHANGED reader
        /\ phase' \in {"idle", "gated", "filling", "reading", "done"}
        /\ at' \in 0..Len(payload.blocks) /\ buffer' \in Nat
        /\ result' \in {"none", "ok", "blocked", "ratio", "drift",
                        "corruption", "fault"}
    BY <1>5, <2>1 DEF StageRefuses, Return, Types
  <2>. QED
    BY <2>1, <2>2, TypesKept
<1>6. CASE StartFilling
  <2>1. Types /\ Len(payload.blocks) \in Nat
    BY Reaching DEF Types
  <2>2. /\ UNCHANGED subject /\ UNCHANGED call /\ UNCHANGED reader
        /\ phase' \in {"idle", "gated", "filling", "reading", "done"}
        /\ at' \in 0..Len(payload.blocks) /\ buffer' \in Nat
        /\ result' \in {"none", "ok", "blocked", "ratio", "drift",
                        "corruption", "fault"}
    BY <1>6, <2>1 DEF StartFilling, Types
  <2>. QED
    BY <2>1, <2>2, TypesKept
<1>7. CASE BufferBlock
  <2>1. Types /\ Len(payload.blocks) \in Nat
    BY Reaching DEF Types
  <2>2. at \in Nat /\ buffer \in Nat /\ at < Len(payload.blocks)
    BY <1>7, <2>1 DEF BufferBlock, Take, Fill, Types
  <2>3. /\ Block.hole \in Int /\ Block.size \in Nat
        /\ at + 1 \in 0..Len(payload.blocks)
    BY <2>1, <2>2, NextBlock
  <2>4. UNCHANGED subject /\ UNCHANGED call /\ UNCHANGED reader
    BY <1>7 DEF BufferBlock, Take, Fill
  <2>5. at' \in 0..Len(payload.blocks)
    BY <1>7, <2>3 DEF BufferBlock, Take, Fill
  <2>6. buffer' \in Nat
    <3> DEFINE S == {buffer + Block.size} \union {d + 1 : d \in declared}
    <3>1. S \in SUBSET Nat /\ S # {}
      BY <2>1, <2>2, <2>3, Bounding
    <3>2. buffer' = Min(S)
      BY <1>7 DEF BufferBlock, Take, Fill
    <3> HIDE DEF S
    <3>. QED
      BY <3>1, <3>2, LeastOf
  <2>7. /\ phase' \in {"idle", "gated", "filling", "reading", "done"}
        /\ result' \in {"none", "ok", "blocked", "ratio", "drift",
                        "corruption", "fault"}
    BY <1>7, <2>1 DEF BufferBlock, Take, Fill, Types
  <2>. QED
    BY <2>1, <2>4, <2>5, <2>6, <2>7, TypesKept
<1>8. CASE DecodeBlock
  <2>1. Types /\ Len(payload.blocks) \in Nat
    BY Reaching DEF Types
  <2>2. at \in Nat /\ buffer \in Nat /\ at < Len(payload.blocks)
    BY <1>8, <2>1 DEF DecodeBlock, Take, Fill, Refuse, Return, Types
  <2>3. /\ Block.hole \in Int /\ Block.size \in Nat
        /\ at + 1 \in 0..Len(payload.blocks)
    BY <2>1, <2>2, NextBlock
  <2>4. UNCHANGED subject /\ UNCHANGED call /\ UNCHANGED reader
    BY <1>8 DEF DecodeBlock, Take, Fill, Refuse, Return
  <2>5. at' \in 0..Len(payload.blocks)
    BY <1>8, <2>3 DEF DecodeBlock, Take, Fill, Refuse, Return
  <2>6. buffer' \in Nat
    BY <1>8, <2>2, <2>3 DEF DecodeBlock, Take, Fill, Refuse, Return
  <2>7. /\ phase' \in {"idle", "gated", "filling", "reading", "done"}
        /\ result' \in {"none", "ok", "blocked", "ratio", "drift",
                        "corruption", "fault"}
    BY <1>8, <2>1 DEF DecodeBlock, Take, Fill, Refuse, Return, Types
  <2>. QED
    BY <2>1, <2>4, <2>5, <2>6, <2>7, TypesKept
<1>9. CASE AssembleBlock
  <2>1. Types /\ Len(payload.blocks) \in Nat
    BY Reaching DEF Types
  <2>2. at \in Nat /\ buffer \in Nat /\ at < Len(payload.blocks)
    BY <1>9, <2>1 DEF AssembleBlock, Take, Fill, Refuse, Return, Types
  <2>3. /\ Block.hole \in Int /\ Block.size \in Nat
        /\ at + 1 \in 0..Len(payload.blocks)
    BY <2>1, <2>2, NextBlock
  <2>4. UNCHANGED subject /\ UNCHANGED call /\ UNCHANGED reader
    BY <1>9 DEF AssembleBlock, Take, Fill, Refuse, Return
  <2>5. at' \in 0..Len(payload.blocks)
    BY <1>9, <2>3 DEF AssembleBlock, Take, Fill, Refuse, Return
  <2>6. buffer' \in Nat
    <3>1. \/ buffer' = buffer
          \/ Block.hole >= 0 /\ buffer' = buffer + (Block.hole + Block.size)
      BY <1>9 DEF AssembleBlock, Take, Fill, Refuse, Return
    <3>. QED
      BY <2>2, <2>3, <3>1
  <2>7. /\ phase' \in {"idle", "gated", "filling", "reading", "done"}
        /\ result' \in {"none", "ok", "blocked", "ratio", "drift",
                        "corruption", "fault"}
    BY <1>9, <2>1 DEF AssembleBlock, Take, Fill, Refuse, Return, Types
  <2>. QED
    BY <2>1, <2>4, <2>5, <2>6, <2>7, TypesKept
<1>10. CASE PushBlock
  <2>1. Types /\ Len(payload.blocks) \in Nat
    BY Reaching DEF Types
  <2>2. at \in Nat /\ buffer \in Nat /\ at < Len(payload.blocks)
    BY <1>10, <2>1 DEF PushBlock, Take, Fill, Refuse, Return, Types
  <2>3. /\ Block.hole \in Int /\ Block.size \in Nat
        /\ at + 1 \in 0..Len(payload.blocks)
    BY <2>1, <2>2, NextBlock
  <2>4. UNCHANGED subject /\ UNCHANGED call /\ UNCHANGED reader
    BY <1>10 DEF PushBlock, Take, Fill, Refuse, Return
  <2>5. at' \in 0..Len(payload.blocks)
    BY <1>10, <2>3 DEF PushBlock, Take, Fill, Refuse, Return
  <2>6. buffer' \in Nat
    BY <1>10, <2>2, <2>3 DEF PushBlock, Take, Fill, Refuse, Return
  <2>7. /\ phase' \in {"idle", "gated", "filling", "reading", "done"}
        /\ result' \in {"none", "ok", "blocked", "ratio", "drift",
                        "corruption", "fault"}
    BY <1>10, <2>1 DEF PushBlock, Take, Fill, Refuse, Return, Types
  <2>. QED
    BY <2>1, <2>4, <2>5, <2>6, <2>7, TypesKept
<1>11. CASE StageFails
  <2>1. Types /\ Len(payload.blocks) \in Nat
    BY Reaching DEF Types
  <2>2. /\ UNCHANGED subject /\ UNCHANGED call /\ UNCHANGED reader
        /\ phase' \in {"idle", "gated", "filling", "reading", "done"}
        /\ at' \in 0..Len(payload.blocks) /\ buffer' \in Nat
        /\ result' \in {"none", "ok", "blocked", "ratio", "drift",
                        "corruption", "fault"}
    BY <1>11, <2>1 DEF StageFails, Return, DecoderFails, Types
  <2>. QED
    BY <2>1, <2>2, TypesKept
<1>12. CASE StageEnds
  <2>1. Types /\ Len(payload.blocks) \in Nat
    BY Reaching DEF Types
  <2>2. CASE UNCHANGED reader /\ (Return("ok") \/ Return("corruption"))
    <3>1. /\ UNCHANGED <<subject, call, at, buffer, reader>>
          /\ phase' = "done" /\ result' \in {"ok", "corruption"}
      BY <1>12, <2>2 DEF StageEnds, Return
    <3>2. at' \in 0..Len(payload.blocks) /\ buffer' \in Nat
      BY <3>1 DEF Types
    <3>. QED
      BY <2>1, <3>1, <3>2, TypesKept
  <2>3. CASE /\ call.op = "stream"
             /\ HandOut([NoRaw EXCEPT !.length = buffer], << >>)
    <3>1. [NoRaw EXCEPT !.length = buffer]
            = [length |-> buffer, breaks |-> FALSE, pos |-> 0, eof |-> FALSE]
      <4>1. buffer \in Nat
        BY DEF Types
      <4>. QED
        BY <4>1, Sources
    <3>2. /\ UNCHANGED <<subject, call, at, buffer>> /\ buffer \in Nat
          /\ got = 0 /\ last = "none" /\ failed = "none"
      BY <1>12 DEF StageEnds, Order, Types
    <3>. QED
      BY <2>3, <3>1, <3>2, Handed
  <2>. QED
    BY <1>12, <2>2, <2>3 DEF StageEnds
<1>13. CASE OpenStream
  <2>1. DecoderSource = [length |-> Extent(payload), breaks |-> Breaks(payload),
                        pos |-> 0, eof |-> FALSE]
    BY Backwards, Sources DEF DecoderSource
  <2>2. Extent(payload) \in Nat /\ Breaks(payload) \in BOOLEAN
    BY Backwards
  <2> DEFINE inner == IF Budget = {} THEN << >> ELSE <<ceiling(Min(Budget))>>
  <2>3. /\ UNCHANGED <<subject, call, at, buffer>> /\ call.op = "stream"
        /\ got = 0 /\ last = "none" /\ failed = "none"
        /\ HandOut(DecoderSource, inner)
    BY <1>13 DEF OpenStream, Order, Incremental
  <2>4. \/ inner = << >>
        \/ Budget # {} /\ inner = <<ceiling(Min(Budget))>>
    OBVIOUS
  <2> HIDE DEF inner
  <2>. QED
    BY <2>1, <2>2, <2>3, <2>4, Handed
<1>14. CASE Read
  <2>1. PICK k \in Nat, a \in Answers :
          /\ Contract(Len(layers), Stack, k, a)
          /\ Stack' = a.rd /\ Len(layers') = Len(layers)
          /\ got' = got + a.n
          /\ last' = IF k = 0 /\ a.says = "eof" THEN "empty" ELSE a.says
          /\ failed' = IF failed = "none" /\ a.says \notin {"bytes", "eof"}
                       THEN a.says ELSE failed
          /\ UNCHANGED <<subject, call, phase, at, buffer, result>>
    BY <1>14, StreamRead, Zenon DEF EntryInv
  <2>2. a.n \in Nat /\ a.says \in Verdicts \union {"bytes", "eof", "fault"}
    BY <2>1 DEF Contract, Answers
  <2>3. Sound(Len(layers'), Stack') /\ Len(layers') <= 2
    BY <2>1 DEF Contract, Types
  <2>4. /\ last' \in Verdicts \union {"none", "bytes", "eof", "empty", "fault"}
        /\ failed' \in Verdicts \union {"none", "fault"}
    <3>1. last' \in {"empty", a.says}
      BY <2>1
    <3>2. \/ failed' = failed
          \/ failed' = a.says /\ a.says \notin {"bytes", "eof"}
      BY <2>1
    <3>3. failed \in Verdicts \union {"none", "fault"}
      BY DEF Types
    <3>. QED
      BY <2>2, <3>1, <3>2, <3>3
  <2>5. got' \in Nat
    BY <2>1, <2>2 DEF Types
  <2>. QED
    BY <2>1, <2>3, <2>4, <2>5 DEF Types
<1>15. CASE OpenVisit
  <2>1. raw' = [length |-> Extent(payload), breaks |-> Breaks(payload),
               pos |-> 0, eof |-> FALSE]
    BY <1>15, Backwards, Sources DEF OpenVisit, DecoderSource
  <2>2. /\ Extent(payload) \in Nat /\ Breaks(payload) \in BOOLEAN
        /\ Types /\ DefaultMaxFile \in Nat /\ declared \in SUBSET Nat
    BY Backwards, Bounding, BoundAssumption
  <2>3. PICK l \in Layers : /\ layers' = <<l>> /\ l.expected \subseteq {l.cap}
                            /\ l.seen = 0 /\ l.violation = "none"
    <3>1. CASE declared = {}
      BY <1>15, <2>2, <3>1 DEF OpenVisit, ceiling, Layers
    <3>2. CASE declared # {}
      <4>1. Min(declared) \in Nat
        BY <2>2, <3>2, LeastOf
      <4>. QED
        BY <1>15, <3>2, <4>1 DEF OpenVisit, exact, Layers
    <3>. QED
      BY <3>1, <3>2
  <2>4. /\ layers' \in Seq(Layers) /\ Len(layers') <= 2
        /\ \A k \in 1..Len(layers') : layers'[k] = l
    BY <2>3
  <2>5. /\ UNCHANGED <<subject, call, at, got, last, failed>>
        /\ phase' = "reading" /\ buffer' \in Nat /\ result' \in {"ok", "none"}
    BY <1>15 DEF OpenVisit, Order, Types
  <2>. QED
    BY <2>1, <2>2, <2>3, <2>4, <2>5, TypesHanded
<1>16. CASE VisitRead
  <2>1. PICK k \in Nat, a \in Answers :
          /\ Contract(Len(layers), Stack, k, a)
          /\ Stack' = a.rd /\ Len(layers') = Len(layers)
          /\ buffer' = buffer + a.n
    BY <1>16, DigestRead, Zenon DEF EntryInv
  <2>2. a.n \in Nat
    BY <2>1 DEF Contract, Answers
  <2>3. Sound(Len(layers'), Stack') /\ Len(layers') <= 2
    BY <2>1 DEF Contract, Types
  <2>4. buffer' \in Nat
    BY <2>1, <2>2 DEF Types
  <2>5. /\ UNCHANGED <<subject, call, at, got, last, failed>>
        /\ phase' \in {"reading", "done"}
        /\ result' \in {"none", "ok", "blocked", "ratio", "drift",
                        "corruption", "fault"}
    BY <1>16 DEF VisitRead, Return, Types
  <2>. QED
    BY <2>3, <2>4, <2>5 DEF Types
<1>. QED
  BY <1>1, <1>2, <1>3, <1>4, <1>5, <1>6, <1>7, <1>8, <1>9, <1>10, <1>11,
     <1>12, <1>13, <1>14, <1>15, <1>16 DEF Next

\* The phases follow one another.
LEMMA OrderStep == EntryInv /\ [Next]_vars => Order'
<1> SUFFICES ASSUME EntryInv, [Next]_vars PROVE Order'
  OBVIOUS
<1> USE DEF EntryInv, subject, reader
<1>0. (call' = call /\ UNCHANGED subject => (GateHolds' <=> GateHolds))
      /\ Types
  BY Steady
<1>1. CASE UNCHANGED vars
  BY <1>1, <1>0 DEF vars, Order
<1>2. CASE Call
  <2>1. call' # NoCall
    BY <1>2, BoundAssumption
       DEF Call, NoCall, Memory, Stream, Digest
  <2>. QED
    BY <1>2, <2>1 DEF Call, Order
<1>3. CASE GateRefuses
  BY <1>3, <1>0 DEF GateRefuses, Return, Order
<1>4. CASE SeekDrifts
  BY <1>4, <1>0 DEF SeekDrifts, Return, Order
<1>5. CASE StageRefuses
  BY <1>5, <1>0 DEF StageRefuses, Return, Order
<1>6. CASE StartFilling
  BY <1>6, <1>0 DEF StartFilling, Order
<1>7. CASE BufferBlock
  BY <1>7, <1>0 DEF BufferBlock, Take, Fill, Order
<1>8. CASE DecodeBlock
  BY <1>8, <1>0 DEF DecodeBlock, Take, Fill, Refuse, Return, Order
<1>9. CASE AssembleBlock
  BY <1>9, <1>0 DEF AssembleBlock, Take, Fill, Refuse, Return, Order
<1>10. CASE PushBlock
  BY <1>10, <1>0 DEF PushBlock, Take, Fill, Refuse, Return, Order
<1>11. CASE StageFails
  BY <1>11, <1>0 DEF StageFails, Return, DecoderFails, Order
<1>12. CASE StageEnds
  BY <1>12, <1>0 DEF StageEnds, HandOut, Return, Order
<1>13. CASE OpenStream
  BY <1>13, <1>0 DEF OpenStream, HandOut, Order, Incremental
<1>14. CASE Read
  BY <1>14, <1>0 DEF Read, Order, Types
<1>15. CASE OpenVisit
  BY <1>15, <1>0 DEF OpenVisit, Order, Pulled, GateHolds
<1>16. CASE VisitRead
  BY <1>16, <1>0 DEF VisitRead, Return, Order
<1>. QED
  BY <1>1, <1>2, <1>3, <1>4, <1>5, <1>6, <1>7, <1>8, <1>9, <1>10, <1>11,
     <1>12, <1>13, <1>14, <1>15, <1>16 DEF Next

\* A filled buffer that is what was declared is the whole payload.
LEMMA StagedWhole ==
  ASSUME Types, Filled, phase = "filling", call.op = "stream", AsDeclared,
         \/ at = Len(payload.blocks) /\ ~payload.fails
         \/ \E d \in declared : buffer > d
  PROVE  /\ buffer = Extent(payload) /\ Breaks(payload) = FALSE
         /\ ~Exceeds(buffer, Budget) /\ backend # "libarchive"
<1>1. /\ backend # "libarchive" /\ Fits /\ backend \in Backends
      /\ IF backend \in {"zip", "sevenzip"}
         THEN \A d \in declared :
                buffer = IF Reach(payload, at) <= d THEN Reach(payload, at)
                         ELSE d + 1
         ELSE buffer = Reach(payload, at) /\ backend = "rar"
                /\ ~Exceeds(buffer, Budget)
  BY DEF Filled, Types, Backends
<1>2. /\ declared \in SUBSET Nat /\ Budget \in SUBSET Nat
      /\ payload \in Payloads
      /\ Backward(payload) = {} /\ Readable(payload) = Len(payload.blocks)
      /\ backend \in {"zip", "sevenzip"} => declared # {}
  BY <1>1, Bounding, Backwards DEF Types
<1>3. at = Len(payload.blocks) /\ ~payload.fails
  BY <1>2 DEF AsDeclared
<1>4. Reach(payload, at) = Extent(payload) /\ Reach(payload, at) \in Nat
  <2>1. Reach(payload, at) = Extent(payload)
    BY <1>2, <1>3 DEF Extent
  <2>2. Extent(payload) \in Nat
    BY Backwards
  <2>. QED
    BY <2>1, <2>2
<1>5. buffer = Reach(payload, at)
  <2>1. CASE backend \in {"zip", "sevenzip"}
    <3>1. PICK d \in declared : TRUE
      BY <1>2, <2>1
    <3>2. buffer = d /\ d \in Nat
      BY <1>2, <3>1 DEF AsDeclared
    <3>3. buffer = IF Reach(payload, at) <= d THEN Reach(payload, at)
                   ELSE d + 1
      BY <1>1, <2>1, <3>1
    <3>. QED
      BY <1>4, <3>2, <3>3
  <2>2. CASE backend \notin {"zip", "sevenzip"}
    BY <1>1, <2>2
  <2>. QED
    BY <2>1, <2>2
<1>6. ~Exceeds(buffer, Budget)
  <2>1. CASE backend \in {"zip", "sevenzip"}
    <3>1. PICK d \in declared : TRUE
      BY <1>2, <2>1
    <3>2. buffer = d /\ ~Exceeds(d, Budget)
      BY <1>1, <3>1 DEF AsDeclared, Fits
    <3>. QED
      BY <3>2
  <2>2. CASE backend \notin {"zip", "sevenzip"}
    BY <1>1, <2>2
  <2>. QED
    BY <2>1, <2>2
<1>7. Breaks(payload) = FALSE
  BY <1>2, <1>3 DEF Breaks
<1>. QED
  BY <1>1, <1>4, <1>5, <1>6, <1>7

\* The buffer is what was taken.
LEMMA FilledStep == EntryInv /\ [Next]_vars => Filled'
<1> SUFFICES ASSUME EntryInv, [Next]_vars PROVE Filled'
  OBVIOUS
<1> USE DEF EntryInv, subject, reader
<1>0. call' = call /\ UNCHANGED subject =>
        /\ Budget' = Budget /\ MemoryCap' = MemoryCap /\ SinkCap' = SinkCap
        /\ Fits' <=> Fits
  BY Steady
<1>00. /\ declared \in SUBSET Nat /\ Budget \in SUBSET Nat
       /\ payload \in Payloads /\ MemoryCap \in Nat /\ SinkCap \in SUBSET Nat
       /\ buffer \in Nat /\ at \in Nat /\ backend \in Backends
  <2>1. declared \in SUBSET Nat /\ Budget \in SUBSET Nat
    BY Bounding
  <2>. QED
    BY <2>1, Caps, BoundAssumption DEF Types, SinkCap
<1>1. CASE UNCHANGED vars
  <2>1. /\ UNCHANGED <<subject, call, phase, at, buffer>>
    BY <1>1 DEF vars
  <2>. QED
    BY <2>1, <1>0 DEF Filled
<1>2. CASE Call
  BY <1>2 DEF Call, Filled
<1>3. CASE GateRefuses
  BY <1>3 DEF GateRefuses, Return, Filled
<1>4. CASE SeekDrifts
  BY <1>4 DEF SeekDrifts, Return, Filled
<1>5. CASE StageRefuses
  BY <1>5 DEF StageRefuses, Return, Filled
<1>6. CASE StartFilling
  <2>1. /\ phase = "gated" /\ phase' = "filling" /\ at = 0 /\ buffer = 0
        /\ UNCHANGED <<subject, call, at, buffer>>
    BY <1>6 DEF StartFilling, Order
  <2>2. /\ Reach(payload, 0) = 0 /\ 0 <= Readable(payload)
        /\ \A d \in declared : d >= 0
        /\ \A S \in SUBSET Nat : ~Exceeds(0, S)
    BY <1>00, Reaching DEF Exceeds
  <2>3. /\ backend = "libarchive" => call.op = "memory"
        /\ call.op # "digest" /\ backend # "libarchive" => Fits
    BY <1>6, <1>00 DEF StartFilling, ZipBuffers, SevenZipBuffers, RarStages,
          LibarchiveAssembles, ZipPushes, SevenZipPushes, RarPushes,
          Backends
  <2>4. /\ at' <= Readable(payload) /\ Reach(payload, at') = 0
        /\ buffer' = 0 /\ 0 <= MemoryCap
        /\ ~Exceeds(0, Budget) /\ ~Exceeds(0, SinkCap)
    BY <1>00, <2>1, <2>2
  <2>. QED
    BY <1>0, <2>1, <2>2, <2>3, <2>4 DEF Filled
<1>7. CASE BufferBlock
  <2>1. /\ phase = "filling" /\ phase' = "filling" /\ at' = at + 1
        /\ UNCHANGED <<subject, call>> /\ at < Len(payload.blocks)
        /\ backend \in {"zip", "sevenzip"} /\ call.op # "digest"
        /\ \A d \in declared : buffer <= d
        /\ buffer' = Min({buffer + Block.size} \union {d + 1 : d \in declared})
    BY <1>7 DEF BufferBlock, Take, Fill
  <2>2. /\ Block.hole \in Int /\ Block.size \in Nat
        /\ Reach(payload, at + 1)
             = Reach(payload, at) + (Block.hole + Block.size)
        /\ backend # "libarchive" => Block.hole = 0
        /\ at <= Readable(payload) /\ Block.hole >= 0 =>
             /\ at + 1 <= Readable(payload)
             /\ Reach(payload, at + 1) \in Nat
             /\ Reach(payload, at) \in Nat
             /\ Reach(payload, at + 1) <= Extent(payload)
    BY <1>00, <2>1, NextBlock
  <2>3. /\ at <= Readable(payload) /\ Block.hole >= 0
        /\ backend = "libarchive" => call.op = "memory"
        /\ call.op # "digest" /\ backend # "libarchive" => Fits
    BY <2>1, <2>2 DEF Filled
  <2>4. PICK d \in Nat : declared = {d}
    <3>1. declared # {} /\ \A m, n \in declared : m = n
      BY <2>1, Bounding DEF Types
    <3>. QED
      BY <1>00, <3>1
  <2>5. buffer = Reach(payload, at)
    <3>1. buffer = IF Reach(payload, at) <= d THEN Reach(payload, at)
                   ELSE d + 1
      BY <2>1, <2>4 DEF Filled
    <3>2. buffer <= d
      BY <2>1, <2>4
    <3>. QED
      BY <2>4, <3>1, <3>2
  <2>6. buffer' = IF Reach(payload, at + 1) <= d THEN Reach(payload, at + 1)
                  ELSE d + 1
    <3>1. {buffer + Block.size} \union {x + 1 : x \in declared}
            = {buffer + Block.size, d + 1}
      BY <2>4
    <3>2. buffer + Block.size \in Int /\ d + 1 \in Int
      BY <1>00, <2>2, <2>4
    <3>3. buffer' = IF buffer + Block.size <= d + 1 THEN buffer + Block.size
                    ELSE d + 1
      BY <2>1, <3>1, <3>2, MinOfTwo
    <3>4. Reach(payload, at + 1) = buffer + Block.size
      <4>1. Block.hole = 0
        BY <2>1, <2>2
      <4>. QED
        BY <1>00, <2>2, <2>5, <4>1
    <3>. QED
      BY <1>00, <2>2, <2>4, <3>3, <3>4
  <2>7. /\ backend' = backend /\ declared' = declared /\ call' = call
        /\ payload' = payload
    BY <2>1
  <2>8. at' <= Readable(payload) /\ Reach(payload, at') = Reach(payload, at + 1)
    BY <2>1, <2>2, <2>3
  <2>. QED
    BY <1>0, <2>1, <2>3, <2>4, <2>6, <2>7, <2>8 DEF Filled
<1>8. CASE DecodeBlock
  <2>0. CASE phase' # "filling"
    BY <2>0 DEF Filled
  <2>9. CASE phase' = "filling"
    <3>1. /\ phase = "filling" /\ phase' = "filling" /\ at' = at + 1
          /\ UNCHANGED <<subject, call>> /\ at < Len(payload.blocks)
          /\ backend = "rar" /\ call.op # "digest"
          /\ buffer' = buffer + Block.size
          /\ ~Exceeds(buffer', Budget)
      BY <1>8, <2>9 DEF DecodeBlock, Take, Fill, Refuse, Return
    <3>2. /\ Block.hole \in Int /\ Block.size \in Nat
          /\ Reach(payload, at + 1)
               = Reach(payload, at) + (Block.hole + Block.size)
          /\ backend # "libarchive" => Block.hole = 0
          /\ at <= Readable(payload) /\ Block.hole >= 0 =>
               /\ at + 1 <= Readable(payload)
               /\ Reach(payload, at + 1) \in Nat
               /\ Reach(payload, at) \in Nat
               /\ Reach(payload, at + 1) <= Extent(payload)
      BY <1>00, <3>1, NextBlock
    <3>3. /\ at <= Readable(payload) /\ Block.hole >= 0
          /\ backend = "libarchive" => call.op = "memory"
          /\ call.op # "digest" /\ backend # "libarchive" => Fits
      BY <3>1, <3>2 DEF Filled
    <3>4. /\ buffer = Reach(payload, at) /\ call.op # "digest" /\ Block.hole = 0
      BY <1>00, <3>1, <3>2, <3>3 DEF Filled
    <3>5. buffer' = Reach(payload, at + 1)
      BY <1>00, <3>1, <3>2, <3>4
    <3>6. at' <= Readable(payload) /\ Reach(payload, at') = buffer'
      BY <3>1, <3>2, <3>3, <3>5
    <3>7. /\ backend' = backend /\ declared' = declared /\ call' = call
          /\ payload' = payload
      BY <3>1
    <3>. QED
      BY <1>0, <3>1, <3>3, <3>4, <3>5, <3>6, <3>7 DEF Filled, Backends
  <2>. QED
    BY <2>0, <2>9
<1>9. CASE AssembleBlock
  <2>0. CASE phase' # "filling"
    BY <2>0 DEF Filled
  <2>9. CASE phase' = "filling"
    <3>1. /\ phase = "filling" /\ phase' = "filling" /\ at' = at + 1
          /\ UNCHANGED <<subject, call>> /\ at < Len(payload.blocks)
          /\ backend = "libarchive" /\ Block.hole >= 0
          /\ buffer' = buffer + (Block.hole + Block.size)
          /\ buffer' <= MemoryCap
      BY <1>9, <2>9 DEF AssembleBlock, Take, Fill, Refuse, Return
    <3>2. /\ Block.hole \in Int /\ Block.size \in Nat
          /\ Reach(payload, at + 1)
               = Reach(payload, at) + (Block.hole + Block.size)
          /\ backend # "libarchive" => Block.hole = 0
          /\ at <= Readable(payload) /\ Block.hole >= 0 =>
               /\ at + 1 <= Readable(payload)
               /\ Reach(payload, at + 1) \in Nat
               /\ Reach(payload, at) \in Nat
               /\ Reach(payload, at + 1) <= Extent(payload)
      BY <1>00, <3>1, NextBlock
    <3>3. /\ at <= Readable(payload) /\ Block.hole >= 0
          /\ backend = "libarchive" => call.op = "memory"
          /\ call.op # "digest" /\ backend # "libarchive" => Fits
      BY <3>1, <3>2 DEF Filled
    <3>4. /\ buffer = Reach(payload, at) /\ call.op = "memory"
      BY <1>00, <3>1, <3>2, <3>3 DEF Filled
    <3>5. buffer' = Reach(payload, at + 1)
      BY <1>00, <3>1, <3>2, <3>4
    <3>6. at' <= Readable(payload) /\ Reach(payload, at') = buffer'
      BY <3>1, <3>2, <3>3, <3>5
    <3>7. /\ backend' = backend /\ declared' = declared /\ call' = call
          /\ payload' = payload
      BY <3>1
    <3>. QED
      BY <1>0, <3>1, <3>3, <3>4, <3>5, <3>6, <3>7 DEF Filled, Backends
  <2>. QED
    BY <2>0, <2>9
<1>10. CASE PushBlock
  <2>0. CASE phase' # "filling"
    BY <2>0 DEF Filled
  <2>9. CASE phase' = "filling"
    <3>1. /\ phase = "filling" /\ phase' = "filling" /\ at' = at + 1
          /\ UNCHANGED <<subject, call>> /\ at < Len(payload.blocks)
          /\ call.op = "digest" /\ buffer' = buffer + Block.size
          /\ ~Exceeds(buffer', SinkCap)
      BY <1>10, <2>9 DEF PushBlock, Take, Fill, Refuse, Return
    <3>2. /\ Block.hole \in Int /\ Block.size \in Nat
          /\ Reach(payload, at + 1)
               = Reach(payload, at) + (Block.hole + Block.size)
          /\ backend # "libarchive" => Block.hole = 0
          /\ at <= Readable(payload) /\ Block.hole >= 0 =>
               /\ at + 1 <= Readable(payload)
               /\ Reach(payload, at + 1) \in Nat
               /\ Reach(payload, at) \in Nat
               /\ Reach(payload, at + 1) <= Extent(payload)
      BY <1>00, <3>1, NextBlock
    <3>3. /\ at <= Readable(payload) /\ Block.hole >= 0
          /\ backend = "libarchive" => call.op = "memory"
          /\ call.op # "digest" /\ backend # "libarchive" => Fits
      BY <3>1, <3>2 DEF Filled
    <3>4. /\ buffer = Reach(payload, at) /\ backend # "libarchive"
      BY <1>00, <3>1, <3>2, <3>3 DEF Filled
    <3>5. buffer' = Reach(payload, at + 1)
      BY <1>00, <3>1, <3>2, <3>4
    <3>6. at' <= Readable(payload) /\ Reach(payload, at') = buffer'
      BY <3>1, <3>2, <3>3, <3>5
    <3>7. /\ backend' = backend /\ declared' = declared /\ call' = call
          /\ payload' = payload
      BY <3>1
    <3>. QED
      BY <1>0, <3>1, <3>3, <3>4, <3>5, <3>6, <3>7 DEF Filled, Backends
  <2>. QED
    BY <2>0, <2>9
<1>11. CASE StageFails
  BY <1>11 DEF StageFails, Return, DecoderFails, Filled
<1>12. CASE StageEnds
  BY <1>12 DEF StageEnds, HandOut, Return, Filled
<1>13. CASE OpenStream
  BY <1>13 DEF OpenStream, HandOut, Filled
<1>14. CASE Read
  BY <1>14 DEF Read, Filled
<1>15. CASE OpenVisit
  BY <1>15 DEF OpenVisit, Filled
<1>16. CASE VisitRead
  BY <1>16 DEF VisitRead, Return, Filled
<1>. QED
  BY <1>1, <1>2, <1>3, <1>4, <1>5, <1>6, <1>7, <1>8, <1>9, <1>10, <1>11,
     <1>12, <1>13, <1>14, <1>15, <1>16 DEF Next

\* A stream stays as it was handed out.
LEMMA StreamingStep == EntryInv /\ [Next]_vars => Streaming'
<1> SUFFICES ASSUME EntryInv, [Next]_vars PROVE Streaming'
  OBVIOUS
<1> USE DEF EntryInv, subject, reader
<1>0. call' = call /\ UNCHANGED subject => Budget' = Budget
  BY Steady
<1>00. phase' # "reading" \/ call'.op # "stream" => Streaming'
  BY DEF Streaming
<1>1. CASE UNCHANGED vars
  <2>1. /\ UNCHANGED <<subject, call, phase, buffer, result>>
        /\ UNCHANGED reader /\ Stack' = Stack
    BY <1>1 DEF vars, Stack
  <2>. QED
    BY <2>1, <1>0 DEF Streaming
<1>2. CASE Call
  BY <1>2, <1>00 DEF Call
<1>3. CASE GateRefuses
  BY <1>3, <1>00 DEF GateRefuses, Return
<1>4. CASE SeekDrifts
  BY <1>4, <1>00 DEF SeekDrifts, Return
<1>5. CASE StageRefuses
  BY <1>5, <1>00 DEF StageRefuses, Return
<1>6. CASE StartFilling
  BY <1>6, <1>00 DEF StartFilling
<1>7. CASE BufferBlock
  BY <1>7, <1>00 DEF BufferBlock, Take, Fill
<1>8. CASE DecodeBlock
  BY <1>8, <1>00 DEF DecodeBlock, Take, Fill, Refuse, Return
<1>9. CASE AssembleBlock
  BY <1>9, <1>00 DEF AssembleBlock, Take, Fill, Refuse, Return
<1>10. CASE PushBlock
  BY <1>10, <1>00 DEF PushBlock, Take, Fill, Refuse, Return
<1>11. CASE StageFails
  BY <1>11, <1>00 DEF StageFails, Return, DecoderFails
<1>12. CASE StageEnds
  <2>1. CASE phase' # "reading"
    BY <1>00, <2>1
  <2>2. CASE phase' = "reading"
    <3>1. /\ phase = "filling" /\ call.op = "stream" /\ AsDeclared
          /\ HandOut([NoRaw EXCEPT !.length = buffer], << >>)
          /\ UNCHANGED <<subject, call, at, buffer>>
          /\ \/ at = Len(payload.blocks) /\ ~payload.fails
             \/ \E d \in declared : buffer > d
      BY <1>12, <2>2 DEF StageEnds, Return
    <3>2. /\ buffer = Extent(payload) /\ Breaks(payload) = FALSE
          /\ ~Exceeds(buffer, Budget) /\ backend # "libarchive"
      BY <3>1, StagedWhole
    <3>3. /\ [NoRaw EXCEPT !.length = buffer]
               = [length |-> buffer, breaks |-> FALSE, pos |-> 0, eof |-> FALSE]
          /\ buffer \in Nat
      BY Sources DEF Types
    <3>4. got = 0 /\ last = "none" /\ failed = "none"
      BY <3>1 DEF Order
    <3>5. /\ Passed(Len(layers'), Stack') = 0
          /\ raw'.length = buffer /\ raw'.breaks = FALSE
          /\ \A k \in 1..Len(layers') :
               /\ layers'[k].cap \in Budget
               /\ layers'[k].expected \subseteq declared
          /\ call.kind = "DeclaredSize" /\ declared # {} =>
               Len(layers') > 0 /\ layers'[Len(layers')].expected = declared
          /\ got' = 0 /\ phase' = "reading" /\ result' = "ok"
      BY <3>1, <3>3, <3>4, Handed
    <3>6. Budget' = Budget /\ \A d \in declared : buffer = d
      BY <3>1, <1>0 DEF AsDeclared
    <3>. QED
      BY <3>1, <3>2, <3>5, <3>6 DEF Streaming
  <2>. QED
    BY <2>1, <2>2
<1>13. CASE OpenStream
  <2> DEFINE inner == IF Budget = {} THEN << >> ELSE <<ceiling(Min(Budget))>>
             n == Extent(payload)
             b == Breaks(payload)
  <2>1. /\ UNCHANGED <<subject, call, at, buffer>> /\ call.op = "stream"
        /\ backend = "libarchive" /\ buffer = 0
        /\ got = 0 /\ last = "none" /\ failed = "none"
        /\ HandOut(DecoderSource, inner)
    BY <1>13 DEF OpenStream, Order, Incremental
  <2>2. /\ DecoderSource = [length |-> n, breaks |-> b, pos |-> 0, eof |-> FALSE]
        /\ n \in Nat /\ b \in BOOLEAN
    BY Backwards, Sources DEF DecoderSource
  <2>3. /\ inner = << >> \/ (Budget # {} /\ inner = <<ceiling(Min(Budget))>>)
        /\ Budget # {} => inner # << >>
    OBVIOUS
  <2> HIDE DEF inner, n, b
  <2>4. /\ Passed(Len(layers'), Stack') = 0
        /\ raw'.length = n /\ raw'.breaks = b
        /\ \A k \in 1..Len(layers') :
             /\ layers'[k].cap \in Budget
             /\ layers'[k].expected \subseteq declared
        /\ call.kind = "DeclaredSize" /\ declared # {} =>
             Len(layers') > 0 /\ layers'[Len(layers')].expected = declared
        /\ inner # << >> =>
             Len(layers') > 0 /\ \A x \in Budget : layers'[1].cap <= x
        /\ got' = 0 /\ phase' = "reading" /\ result' = "ok"
    BY <2>1, <2>2, <2>3, Handed
  <2>5. Budget' = Budget
    BY <2>1, <1>0
  <2>6. \A x \in Budget : Len(layers') > 0 /\ layers'[1].cap <= x
    BY <2>3, <2>4
  <2>7. raw'.length = Extent(payload) /\ raw'.breaks = Breaks(payload)
    BY <2>4 DEF n, b
  <2>. QED
    BY <2>1, <2>4, <2>5, <2>6, <2>7 DEF Streaming
<1>14. CASE Read
  <2>1. PICK k \in Nat, a \in Answers :
          /\ Contract(Len(layers), Stack, k, a)
          /\ Stack' = a.rd /\ Len(layers') = Len(layers)
          /\ got' = got + a.n
          /\ UNCHANGED <<subject, call, phase, at, buffer, result>>
          /\ phase = "reading" /\ call.op = "stream"
    BY <1>14, StreamRead, Zenon
  <2>2. /\ Stack.raw = raw /\ Stack.layers = layers
        /\ a.rd.raw = raw' /\ a.rd.layers = layers'
    <3>1. Stack'.raw = raw' /\ Stack'.layers = layers'
      BY DEF Stack
    <3>. QED
      BY <2>1, <3>1 DEF Stack
  <2>3. /\ raw'.length = raw.length /\ raw'.breaks = raw.breaks
        /\ \A j \in 1..Len(layers) :
             /\ layers'[j].cap = layers[j].cap
             /\ layers'[j].expected = layers[j].expected
    BY <2>1, <2>2 DEF Contract, SameStack
  <2>4. got' = Passed(Len(layers'), Stack')
    BY <2>1, <2>2 DEF Contract, Streaming
  <2>5. Len(layers) > 0 => 1 \in 1..Len(layers) /\ Len(layers) \in 1..Len(layers)
    <3>1. Len(layers) \in Nat
      <4>1. Len(Stack.layers) \in 0..2
        BY Narrowing, <2>2 DEF Types
      <4>. QED
        BY <2>2, <4>1
    <3>. QED
      BY <3>1
  <2>6. Budget' = Budget
    BY <2>1, <1>0
  <2>7. /\ result = "ok"
        /\ raw.length = Extent(payload) /\ raw.breaks = Breaks(payload)
        /\ \A j \in 1..Len(layers) :
             layers[j].cap \in Budget /\ layers[j].expected \subseteq declared
        /\ call.kind = "DeclaredSize" /\ declared # {} =>
             Len(layers) > 0 /\ layers[Len(layers)].expected = declared
        /\ backend = "libarchive" =>
             /\ buffer = 0
             /\ \A b \in Budget : Len(layers) > 0 /\ layers[1].cap <= b
        /\ backend # "libarchive" =>
             /\ ~raw.breaks /\ \A d \in declared : raw.length = d
             /\ ~Exceeds(raw.length, Budget)
    BY <2>1 DEF Streaming
  <2>8. /\ backend' = backend /\ declared' = declared /\ payload' = payload
        /\ call' = call /\ phase' = phase /\ buffer' = buffer
        /\ result' = result
    BY <2>1
  <2>9. \A j \in 1..Len(layers') :
          layers'[j].cap \in Budget /\ layers'[j].expected \subseteq declared
    BY <2>1, <2>3, <2>7
  <2>10. call.kind = "DeclaredSize" /\ declared # {} =>
           Len(layers') > 0 /\ layers'[Len(layers')].expected = declared
    BY <2>1, <2>3, <2>5, <2>7
  <2>11. backend = "libarchive" =>
           \A b \in Budget : Len(layers') > 0 /\ layers'[1].cap <= b
    BY <2>1, <2>3, <2>5, <2>7
  <2>12. raw'.length = Extent(payload) /\ raw'.breaks = Breaks(payload)
    BY <2>3, <2>7
  <2>13. backend # "libarchive" =>
           /\ ~raw'.breaks /\ \A d \in declared : raw'.length = d
           /\ ~Exceeds(raw'.length, Budget)
    BY <2>3, <2>7
  <2>. QED
    BY <2>4, <2>6, <2>7, <2>8, <2>9, <2>10, <2>11, <2>12, <2>13 DEF Streaming
<1>15. CASE OpenVisit
  BY <1>15, <1>00 DEF OpenVisit, Pulled
<1>16. CASE VisitRead
  BY <1>16, <1>00 DEF VisitRead, Return
<1>. QED
  BY <1>1, <1>2, <1>3, <1>4, <1>5, <1>6, <1>7, <1>8, <1>9, <1>10, <1>11,
     <1>12, <1>13, <1>14, <1>15, <1>16 DEF Next

\* Answers mean what they say.
LEMMA AnsweredStep == EntryInv /\ [Next]_vars => Answered'
<1> SUFFICES ASSUME EntryInv, [Next]_vars PROVE Answered'
  OBVIOUS
<1> USE DEF EntryInv, subject, reader
<1>00. phase' # "reading" \/ call'.op # "stream" => Answered'
  BY DEF Answered
<1>1. CASE UNCHANGED vars
  <2>1. /\ UNCHANGED <<subject, call, phase>>
        /\ UNCHANGED reader /\ Stack' = Stack
    BY <1>1 DEF vars, Stack
  <2>. QED
    BY <2>1 DEF Answered
<1>2. CASE Call
  BY <1>2, <1>00 DEF Call
<1>3. CASE GateRefuses
  BY <1>3, <1>00 DEF GateRefuses, Return
<1>4. CASE SeekDrifts
  BY <1>4, <1>00 DEF SeekDrifts, Return
<1>5. CASE StageRefuses
  BY <1>5, <1>00 DEF StageRefuses, Return
<1>6. CASE StartFilling
  BY <1>6, <1>00 DEF StartFilling
<1>7. CASE BufferBlock
  BY <1>7, <1>00 DEF BufferBlock, Take, Fill
<1>8. CASE DecodeBlock
  BY <1>8, <1>00 DEF DecodeBlock, Take, Fill, Refuse, Return
<1>9. CASE AssembleBlock
  BY <1>9, <1>00 DEF AssembleBlock, Take, Fill, Refuse, Return
<1>10. CASE PushBlock
  BY <1>10, <1>00 DEF PushBlock, Take, Fill, Refuse, Return
<1>11. CASE StageFails
  BY <1>11, <1>00 DEF StageFails, Return, DecoderFails
<1>12. CASE StageEnds
  <2>1. CASE phase' # "reading"
    BY <1>00, <2>1
  <2>2. CASE phase' = "reading"
    <3>1. last' = "none" /\ failed' = "none"
      BY <1>12, <2>2 DEF StageEnds, HandOut, Return, Order
    <3>. QED
      BY <3>1 DEF Answered, Verdicts
  <2>. QED
    BY <2>1, <2>2
<1>13. CASE OpenStream
  <2>1. CASE phase' # "reading"
    BY <1>00, <2>1
  <2>2. CASE phase' = "reading"
    <3>1. last' = "none" /\ failed' = "none"
      BY <1>13, <2>2 DEF OpenStream, HandOut, Order
    <3>. QED
      BY <3>1 DEF Answered, Verdicts
  <2>. QED
    BY <2>1, <2>2
<1>14. CASE Read
  <2>1. PICK k \in Nat, a \in Answers :
          /\ Contract(Len(layers), Stack, k, a) /\ a = ReadStack(Stack, k)
          /\ Stack' = a.rd /\ Len(layers') = Len(layers)
          /\ got' = got + a.n
          /\ last' = IF k = 0 /\ a.says = "eof" THEN "empty" ELSE a.says
          /\ failed' = IF failed = "none" /\ a.says \notin {"bytes", "eof"}
                       THEN a.says ELSE failed
          /\ UNCHANGED <<subject, call, phase, at, buffer, result>>
          /\ phase = "reading" /\ call.op = "stream"
    BY <1>14, StreamRead, Zenon
  <2>2. /\ Stack.raw = raw /\ Stack.layers = layers
        /\ a.rd.raw = raw' /\ a.rd.layers = layers'
    <3>1. Stack'.raw = raw' /\ Stack'.layers = layers'
      BY DEF Stack
    <3>. QED
      BY <2>1, <3>1 DEF Stack
  <2>3. /\ a.says \in Verdicts \union {"bytes", "eof", "fault"}
        /\ a.n \in Nat /\ got = Passed(Len(layers), Stack)
        /\ raw.breaks = Breaks(payload)
        /\ payload' = payload /\ failed \in Verdicts \union {"none", "fault"}
    BY <2>1 DEF Contract, Answers, Streaming, Types
  <2>4. ASSUME last' = "eof"
        PROVE  /\ raw'.eof /\ got' = raw'.pos
               /\ \A j \in 1..Len(layers') : \A e \in layers'[j].expected :
                    layers'[j].seen >= e
    <3>1. a.says = "eof" /\ k > 0
      BY <2>1, <2>4
    <3>2. /\ a.rd.raw.eof /\ Passed(Len(layers), a.rd) = a.rd.raw.pos
          /\ \A j \in 1..Len(layers) : \A e \in Stack.layers[j].expected :
               a.rd.layers[j].seen >= e
          /\ Passed(Len(layers), a.rd) = Passed(Len(layers), Stack) + a.n
          /\ \A j \in 1..Len(layers) :
               a.rd.layers[j].expected = Stack.layers[j].expected
      BY <2>1, <2>2, <3>1 DEF Contract, SameStack
    <3>3. got' = raw'.pos
      BY <2>1, <2>2, <2>3, <3>2
    <3>. QED
      BY <2>1, <2>2, <3>2, <3>3
  <2>5. ASSUME failed' \in Verdicts PROVE Stuck(Len(layers'), Stack', failed')
    <3>1. CASE failed \in Verdicts
      <4>1. /\ Stuck(Len(layers), Stack, failed) /\ failed # "none"
            /\ failed' = failed
        BY <2>1, <3>1 DEF Answered, Verdicts
      <4>2. /\ Len(Stack.layers) \in 0..2
            /\ \A j \in 1..Len(Stack.layers) :
                 /\ Stack.layers[j].cap \in Nat
                 /\ Stack.layers[j].seen \in Nat
        BY <2>2, Narrowing DEF Types, Layers
      <4>3. \E says \in {failed, "eof"} :
              /\ ReadStack(Stack, k) = Answer(Stack, says, 0)
              /\ k > 0 => says = failed
        BY <2>2, <3>1, <4>1, <4>2, Sticks
      <4>4. Stack' = Stack
        BY <2>1, <4>3 DEF Answer
      <4>. QED
        BY <2>1, <4>1, <4>4
    <3>2. CASE failed \notin Verdicts
      <4>1. failed' = a.says /\ a.says \in Verdicts
        BY <2>1, <2>3, <2>5, <3>2
      <4>2. Stuck(Len(layers), a.rd, a.says)
        BY <2>1, <4>1 DEF Contract
      <4>. QED
        BY <2>1, <4>1, <4>2
    <3>. QED
      BY <3>1, <3>2
  <2>6. ASSUME failed' = "fault" PROVE Breaks(payload)
    <3>1. failed = "fault" \/ a.says = "fault"
      BY <2>1, <2>6
    <3>2. CASE failed = "fault"
      BY <2>1, <3>2 DEF Answered
    <3>3. CASE a.says = "fault"
      <4>1. Stack.raw.breaks
        BY <2>1, <3>3 DEF Contract
      <4>. QED
        BY <2>2, <2>3, <4>1
    <3>. QED
      BY <3>1, <3>2, <3>3
  <2>. QED
    BY <2>3, <2>4, <2>5, <2>6 DEF Answered
<1>15. CASE OpenVisit
  BY <1>15, <1>00 DEF OpenVisit, Pulled
<1>16. CASE VisitRead
  BY <1>16, <1>00 DEF VisitRead, Return
<1>. QED
  BY <1>1, <1>2, <1>3, <1>4, <1>5, <1>6, <1>7, <1>8, <1>9, <1>10, <1>11,
     <1>12, <1>13, <1>14, <1>15, <1>16 DEF Next

\* A digest goes on while bytes come.
LEMMA VisitingStep == EntryInv /\ [Next]_vars => Visiting'
<1> SUFFICES ASSUME EntryInv, [Next]_vars PROVE Visiting'
  OBVIOUS
<1> USE DEF EntryInv, subject, reader
<1>00. phase' # "reading" \/ call'.op # "digest" => Visiting'
  BY DEF Visiting
<1>0. /\ declared \in SUBSET Nat /\ \A m, n \in declared : m = n
      /\ Extent(payload) \in Nat /\ Breaks(payload) \in BOOLEAN
  BY Bounding, Backwards
<1>1. CASE UNCHANGED vars
  <2>1. /\ UNCHANGED <<subject, call, phase, buffer>> /\ UNCHANGED reader
    BY <1>1 DEF vars
  <2>. QED
    BY <2>1 DEF Visiting
<1>2. CASE Call
  BY <1>2, <1>00 DEF Call
<1>3. CASE GateRefuses
  BY <1>3, <1>00 DEF GateRefuses, Return
<1>4. CASE SeekDrifts
  BY <1>4, <1>00 DEF SeekDrifts, Return
<1>5. CASE StageRefuses
  BY <1>5, <1>00 DEF StageRefuses, Return
<1>6. CASE StartFilling
  BY <1>6, <1>00 DEF StartFilling
<1>7. CASE BufferBlock
  BY <1>7, <1>00 DEF BufferBlock, Take, Fill
<1>8. CASE DecodeBlock
  BY <1>8, <1>00 DEF DecodeBlock, Take, Fill, Refuse, Return
<1>9. CASE AssembleBlock
  BY <1>9, <1>00 DEF AssembleBlock, Take, Fill, Refuse, Return
<1>10. CASE PushBlock
  BY <1>10, <1>00 DEF PushBlock, Take, Fill, Refuse, Return
<1>11. CASE StageFails
  BY <1>11, <1>00 DEF StageFails, Return, DecoderFails
<1>12. CASE StageEnds
  BY <1>12, <1>00 DEF StageEnds, HandOut, Return
<1>13. CASE OpenStream
  BY <1>13, <1>00 DEF OpenStream, HandOut, Incremental
<1>14. CASE Read
  BY <1>14, <1>00 DEF Read
<1>15. CASE OpenVisit
  <2>1. raw' = [length |-> Extent(payload), breaks |-> Breaks(payload),
               pos |-> 0, eof |-> FALSE]
    BY <1>15, <1>0, Sources DEF OpenVisit, DecoderSource
  <2>2. PICK l : /\ layers' = <<l>> /\ l.expected = declared
                 /\ declared = {} => l.cap = DefaultMaxFile
                 /\ l.seen = 0 /\ l.violation = "none"
    <3>1. CASE declared = {}
      BY <1>15, <3>1 DEF OpenVisit, ceiling
    <3>2. CASE declared # {}
      <4>1. {Min(declared)} = declared
        <5>1. Min(declared) \in declared
          BY <1>0, <3>2, LeastOf
        <5>. QED
          BY <1>0, <5>1
      <4>2. layers' = <<exact(Min(declared))>>
        BY <1>15, <3>2 DEF OpenVisit
      <4>. QED
        BY <3>2, <4>1, <4>2 DEF exact
    <3>. QED
      BY <3>1, <3>2
  <2>3. Len(layers') = 1 /\ layers'[1] = l
    BY <2>2
  <2>4. UNCHANGED <<subject, buffer>> /\ buffer = 0
    BY <1>15 DEF OpenVisit, Order
  <2>. QED
    BY <2>1, <2>2, <2>3, <2>4 DEF Visiting
<1>16. CASE VisitRead
  <2>1. PICK k \in Nat, a \in Answers :
          /\ Contract(Len(layers), Stack, k, a) /\ k > 0
          /\ Stack' = a.rd /\ Len(layers') = Len(layers)
          /\ buffer' = buffer + a.n
          /\ \/ a.says = "bytes" /\ UNCHANGED <<phase, result>>
             \/ phase' = "done"
          /\ UNCHANGED <<subject, call, at, got, last, failed>>
          /\ phase = "reading" /\ call.op = "digest"
    BY <1>16, DigestRead
  <2>2. CASE phase' = "done"
    BY <1>00, <2>2
  <2>3. CASE a.says = "bytes"
    <3>1. /\ Stack.raw = raw /\ Stack.layers = layers
          /\ a.rd.raw = raw' /\ a.rd.layers = layers'
      <4>1. Stack'.raw = raw' /\ Stack'.layers = layers'
        BY DEF Stack
      <4>. QED
        BY <2>1, <4>1 DEF Stack
    <3>2. /\ raw.length = Extent(payload) /\ raw.breaks = Breaks(payload)
          /\ Len(layers) = 1 /\ layers[1].expected = declared
          /\ declared = {} => layers[1].cap = DefaultMaxFile
          /\ buffer = layers[1].seen
      BY <2>1 DEF Visiting
    <3>3. 1 \in 1..Len(layers)
      BY <3>2
    <3>4. /\ ~raw'.eof /\ Clear(1, a.rd)
          /\ Passed(1, a.rd) = Passed(1, Stack) + a.n
          /\ raw'.length = raw.length /\ raw'.breaks = raw.breaks
          /\ layers'[1].cap = layers[1].cap
          /\ layers'[1].expected = layers[1].expected
      BY <2>1, <2>3, <3>1, <3>2, <3>3 DEF Contract, SameStack, Verdicts
    <3>5. /\ layers'[1].violation = "none"
          /\ layers'[1].seen = layers[1].seen + a.n
      BY <3>1, <3>2, <3>3, <3>4 DEF Clear, Passed
    <3>. QED
      BY <2>1, <3>2, <3>4, <3>5 DEF Visiting
  <2>. QED
    BY <2>1, <2>2, <2>3
<1>. QED
  BY <1>1, <1>2, <1>3, <1>4, <1>5, <1>6, <1>7, <1>8, <1>9, <1>10, <1>11,
     <1>12, <1>13, <1>14, <1>15, <1>16 DEF Next

\* What a call answers is so.
LEMMA JudgedStep == EntryInv /\ [Next]_vars => Judged'
<1> SUFFICES ASSUME EntryInv, [Next]_vars PROVE Judged'
  OBVIOUS
<1> USE DEF EntryInv, subject, reader
<1>0. call' = call /\ UNCHANGED subject => Budget' = Budget
  BY Steady
<1>00. /\ declared \in SUBSET Nat /\ \A m, n \in declared : m = n
       /\ effective_entry_cap \subseteq Budget /\ Budget \in SUBSET Nat
       /\ backend \in {"zip", "sevenzip"} => declared # {}
       /\ Extent(payload) \in Nat /\ payload \in Payloads
       /\ buffer \in Nat /\ at \in Nat
  BY Bounding, Backwards DEF Types
<1>000. result' = "none" => Judged'
  BY DEF Judged
<1>1. CASE UNCHANGED vars
  <2>1. UNCHANGED <<subject, call, buffer, result>>
    BY <1>1 DEF vars
  <2>. QED
    BY <2>1, <1>0 DEF Judged, AsDeclared
<1>2. CASE Call
  BY <1>2, <1>000 DEF Call, Order
<1>3. CASE GateRefuses
  <2>1. /\ UNCHANGED <<subject, call>> /\ call.op # "digest"
        /\ result' \in {"ratio", "blocked"}
        /\ result' = "blocked" => ~GateHolds
    BY <1>3 DEF GateRefuses, Return
  <2>2. ~GateHolds => \E d \in declared : Exceeds(d, Budget)
    BY <1>00, <2>1 DEF GateHolds, Exceeds
  <2>. QED
    BY <2>1, <2>2, <1>0 DEF Judged
<1>4. CASE SeekDrifts
  BY <1>4 DEF SeekDrifts, Return, Judged
<1>5. CASE StageRefuses
  <2>1. /\ UNCHANGED <<subject, call>> /\ call.op # "digest"
        /\ result' = "blocked" /\ \E d \in declared : Exceeds(d, Budget)
    BY <1>5 DEF StageRefuses, Return
  <2>. QED
    BY <2>1, <1>0 DEF Judged
<1>6. CASE StartFilling
  BY <1>6, <1>000 DEF StartFilling, Order
<1>7. CASE BufferBlock
  BY <1>7, <1>000 DEF BufferBlock, Take, Fill, Order
<1>8. CASE DecodeBlock
  <2>1. /\ phase = "filling" /\ at < Len(payload.blocks)
        /\ UNCHANGED <<subject, call>> /\ result = "none"
    BY <1>8 DEF DecodeBlock, Take, Fill, Refuse, Return, Order
  <2>2. /\ Block.hole \in Int /\ Block.size \in Nat
        /\ Reach(payload, at + 1)
             = Reach(payload, at) + (Block.hole + Block.size)
        /\ backend # "libarchive" => Block.hole = 0
        /\ at <= Readable(payload) /\ Block.hole >= 0 =>
             /\ at + 1 <= Readable(payload)
             /\ Reach(payload, at + 1) \in Nat
             /\ Reach(payload, at) \in Nat
             /\ Reach(payload, at + 1) <= Extent(payload)
    BY <1>00, <2>1, NextBlock
  <2>3. at <= Readable(payload)
    BY <2>1 DEF Filled
  <2>4. CASE result' = "none"
    BY <1>000, <2>4
  <2>5. CASE result' # "none"
    <3>1. /\ result' = "blocked" /\ backend = "rar"
          /\ Exceeds(buffer + Block.size, Budget)
      BY <1>8, <2>1, <2>5 DEF DecodeBlock, Take, Fill, Refuse, Return
    <3>2. buffer = Reach(payload, at) /\ Block.hole = 0
      BY <2>1, <2>2, <3>1 DEF Filled
    <3>3. buffer + Block.size <= Extent(payload)
      BY <1>00, <2>2, <2>3, <3>2
    <3>4. Exceeds(Extent(payload), Budget)
      BY <1>00, <2>2, <3>1, <3>3 DEF Exceeds
    <3>5. call.op # "digest"
      BY <1>8 DEF DecodeBlock
    <3>. QED
      BY <2>1, <3>1, <3>4, <3>5, <1>0 DEF Judged
  <2>. QED
    BY <2>4, <2>5
<1>9. CASE AssembleBlock
  <2>1. /\ phase = "filling" /\ at < Len(payload.blocks)
        /\ UNCHANGED <<subject, call>> /\ result = "none"
    BY <1>9 DEF AssembleBlock, Take, Fill, Refuse, Return, Order
  <2>2. /\ Block.hole \in Int /\ Block.size \in Nat
        /\ Reach(payload, at + 1)
             = Reach(payload, at) + (Block.hole + Block.size)
        /\ backend # "libarchive" => Block.hole = 0
        /\ at <= Readable(payload) /\ Block.hole >= 0 =>
             /\ at + 1 <= Readable(payload)
             /\ Reach(payload, at + 1) \in Nat
             /\ Reach(payload, at) \in Nat
             /\ Reach(payload, at + 1) <= Extent(payload)
    BY <1>00, <2>1, NextBlock
  <2>3. at <= Readable(payload)
    BY <2>1 DEF Filled
  <2>4. CASE result' = "none"
    BY <1>000, <2>4
  <2>5. CASE result' # "none"
    <3>1. /\ backend = "libarchive"
          /\ \/ Block.hole < 0 /\ result' = "corruption"
             \/ /\ Block.hole >= 0
                /\ buffer + (Block.hole + Block.size) > MemoryCap
                /\ \/ /\ \E d \in declared : MemoryCap >= d
                      /\ result' = "corruption"
                   \/ /\ \A d \in declared : MemoryCap < d
                      /\ result' = "blocked"
      BY <1>9, <2>1, <2>5 DEF AssembleBlock, Take, Fill, Refuse, Return
    <3>2. buffer = Reach(payload, at) /\ call.op = "memory"
      BY <2>1, <3>1 DEF Filled
    <3>3. CASE Block.hole < 0 /\ result' = "corruption"
      <4>1. at + 1 \in Backward(payload)
        <5>1. payload.blocks \in Seq([hole : Int, size : Nat])
          BY <1>00, PayloadAssumption
        <5>2. at + 1 \in DOMAIN payload.blocks
          BY <1>00, <2>1, <5>1
        <5>. QED
          BY <3>3, <5>2 DEF Backward, Block
      <4>. QED
        BY <2>1, <3>3, <4>1 DEF Judged
    <3>4. CASE /\ Block.hole >= 0
               /\ buffer + (Block.hole + Block.size) > MemoryCap
               /\ \/ /\ \E d \in declared : MemoryCap >= d
                     /\ result' = "corruption"
                  \/ /\ \A d \in declared : MemoryCap < d
                     /\ result' = "blocked"
      <4>1. /\ MemoryCap \in Nat
            /\ \/ MemoryCap \in Budget \/ MemoryCap \in declared
               \/ declared = {} /\ MemoryCap = Fallback
        BY Caps
      <4>2. Extent(payload) > MemoryCap
        BY <1>00, <2>2, <2>3, <3>2, <3>4, <4>1
      <4>3. CASE result' = "corruption"
        <5>1. PICK d \in declared : MemoryCap >= d
          BY <3>4, <4>3
        <5>2. Extent(payload) # d
          BY <1>00, <4>1, <4>2, <5>1
        <5>. QED
          BY <2>1, <4>3, <5>1, <5>2 DEF Judged
      <4>4. CASE result' = "blocked"
        <5>1. \A d \in declared : MemoryCap < d
          BY <3>4, <4>4
        <5>2. MemoryCap \notin declared
          BY <1>00, <4>1, <5>1
        <5>3. \/ Exceeds(Extent(payload), Budget)
              \/ declared = {} /\ Extent(payload) > Fallback
          BY <4>1, <4>2, <5>2 DEF Exceeds
        <5>. QED
          BY <2>1, <3>2, <4>4, <5>3, <1>0 DEF Judged
      <4>. QED
        BY <3>4, <4>3, <4>4
    <3>. QED
      BY <3>1, <3>3, <3>4
  <2>. QED
    BY <2>4, <2>5
<1>10. CASE PushBlock
  <2>1. /\ phase = "filling" /\ at < Len(payload.blocks)
        /\ UNCHANGED <<subject, call>> /\ result = "none"
    BY <1>10 DEF PushBlock, Take, Fill, Refuse, Return, Order
  <2>2. /\ Block.hole \in Int /\ Block.size \in Nat
        /\ Reach(payload, at + 1)
             = Reach(payload, at) + (Block.hole + Block.size)
        /\ backend # "libarchive" => Block.hole = 0
        /\ at <= Readable(payload) /\ Block.hole >= 0 =>
             /\ at + 1 <= Readable(payload)
             /\ Reach(payload, at + 1) \in Nat
             /\ Reach(payload, at) \in Nat
             /\ Reach(payload, at + 1) <= Extent(payload)
    BY <1>00, <2>1, NextBlock
  <2>3. at <= Readable(payload)
    BY <2>1 DEF Filled
  <2>4. CASE result' = "none"
    BY <1>000, <2>4
  <2>5. CASE result' # "none"
    <3>1. /\ result' = "corruption" /\ call.op = "digest"
          /\ Exceeds(buffer + Block.size, SinkCap)
      BY <1>10, <2>1, <2>5 DEF PushBlock, Take, Fill, Refuse, Return
    <3>2. buffer = Reach(payload, at) /\ backend # "libarchive"
      BY <2>1, <3>1 DEF Filled
    <3>3. declared # {}
      BY <3>2 DEF Types
    <3>4. PICK d \in declared : buffer + Block.size > d
      BY <3>1, <3>3 DEF SinkCap, Exceeds
    <3>5. buffer + Block.size <= Extent(payload)
      BY <1>00, <2>2, <2>3, <3>2
    <3>6. Extent(payload) # d
      BY <1>00, <2>2, <3>4, <3>5
    <3>. QED
      BY <2>1, <3>1, <3>4, <3>6 DEF Judged
  <2>. QED
    BY <2>4, <2>5
<1>11. CASE StageFails
  <2>1. /\ UNCHANGED <<subject, call>> /\ result' = "fault" /\ payload.fails
    BY <1>11 DEF StageFails, Return, DecoderFails
  <2>2. Breaks(payload)
    BY <2>1 DEF Breaks
  <2>. QED
    BY <2>1, <2>2 DEF Judged
<1>12. CASE StageEnds
  <2>1. /\ phase = "filling" /\ UNCHANGED <<subject, call, at, buffer>>
        /\ \/ at = Len(payload.blocks) /\ ~payload.fails
           \/ \E d \in declared : buffer > d
        /\ \/ ~AsDeclared /\ result' = "corruption"
           \/ AsDeclared /\ result' = "ok"
    BY <1>12 DEF StageEnds, HandOut, Return
  <2>2. CASE AsDeclared /\ result' = "ok"
    <3>1. AsDeclared'
      BY <2>1, <2>2 DEF AsDeclared
    <3>. QED
      BY <2>2, <3>1 DEF Judged
  <2>3. CASE ~AsDeclared /\ result' = "corruption"
    <3>1. PICK d \in declared : buffer # d
      BY <2>3 DEF AsDeclared
    <3>2. d \in Nat /\ declared = {d} /\ at <= Readable(payload)
      BY <1>00, <2>1, <3>1 DEF Filled
    <3>3. Reach(payload, at) \in Nat /\ Reach(payload, at) <= Extent(payload)
      <4>1. Readable(payload) \in Nat
        BY <1>00, Reaching
      <4>2. at \in 0..Readable(payload)
        BY <1>00, <3>2, <4>1
      <4>. QED
        BY <1>00, <4>2, Reaching
    <3>4. buffer = Reach(payload, at)
            \/ buffer = IF Reach(payload, at) <= d THEN Reach(payload, at)
                        ELSE d + 1
      BY <2>1, <3>1 DEF Filled
    <3>5. Reach(payload, at) # d
      BY <3>1, <3>2, <3>3, <3>4
    <3>6. CASE buffer > d
      <4>1. Reach(payload, at) > d
        BY <1>00, <3>2, <3>3, <3>4, <3>6
      <4>2. Extent(payload) # d
        BY <1>00, <3>2, <3>3, <4>1
      <4>. QED
        BY <2>1, <2>3, <3>1, <4>2 DEF Judged
    <3>7. CASE at = Len(payload.blocks) /\ Backward(payload) = {}
      <4>1. Readable(payload) = at
        BY <1>00, <3>7, Reaching
      <4>2. Extent(payload) # d
        BY <3>5, <4>1 DEF Extent
      <4>. QED
        BY <2>1, <2>3, <3>1, <4>2 DEF Judged
    <3>8. CASE Backward(payload) # {}
      BY <2>1, <2>3, <3>8 DEF Judged
    <3>. QED
      BY <2>1, <3>2, <3>6, <3>7, <3>8
  <2>. QED
    BY <2>1, <2>2, <2>3
<1>13. CASE OpenStream
  <2>1. result' = "ok" /\ call' = call /\ call.op = "stream"
    BY <1>13 DEF OpenStream, HandOut, Incremental
  <2>. QED
    BY <2>1 DEF Judged
<1>14. CASE Read
  <2>1. UNCHANGED <<subject, call, buffer, result>>
    BY <1>14 DEF Read
  <2>. QED
    BY <2>1, <1>0 DEF Judged, AsDeclared
<1>15. CASE OpenVisit
  BY <1>15, <1>000 DEF OpenVisit, Order
<1>16. CASE VisitRead
  <2>1. PICK k \in Nat, a \in Answers :
          /\ Contract(Len(layers), Stack, k, a) /\ k > 0
          /\ Stack' = a.rd /\ Len(layers') = Len(layers)
          /\ buffer' = buffer + a.n
          /\ \/ a.says = "bytes" /\ UNCHANGED <<phase, result>>
             \/ a.says = "eof" /\ phase' = "done" /\ result' = "ok"
             \/ /\ a.says \in Verdicts /\ phase' = "done"
                /\ result' = IF declared # {} THEN "corruption" ELSE "fault"
             \/ a.says = "fault" /\ phase' = "done" /\ result' = "fault"
          /\ UNCHANGED <<subject, call, at, got, last, failed>>
          /\ phase = "reading" /\ call.op = "digest"
    BY <1>16, DigestRead
  <2>2. /\ Stack.raw = raw /\ Stack.layers = layers
        /\ a.rd.raw = raw' /\ a.rd.layers = layers'
    <3>1. Stack'.raw = raw' /\ Stack'.layers = layers'
      BY DEF Stack
    <3>. QED
      BY <2>1, <3>1 DEF Stack
  <2>3. /\ raw.length = Extent(payload) /\ raw.breaks = Breaks(payload)
        /\ Len(layers) = 1 /\ layers[1].expected = declared
        /\ declared = {} => layers[1].cap = DefaultMaxFile
        /\ buffer = layers[1].seen /\ ~raw.eof
        /\ layers[1].violation = "none"
    BY <2>1 DEF Visiting
  <2>4. /\ Sound(1, Stack) /\ Sound(1, a.rd) /\ 1 \in 1..1
        /\ 1 \in 1..Len(layers)
    BY <2>1, <2>3 DEF Contract, Types
  <2>5. /\ layers[1] \in Layers /\ layers'[1] \in Layers
        /\ LayerOK(1, Stack) /\ LayerOK(1, a.rd)
        /\ RawOK(a.rd) /\ raw' \in Raws
        /\ raw'.length = raw.length
        /\ layers'[1].cap = layers[1].cap
        /\ layers'[1].expected = layers[1].expected
    <3>1. Stack \in Readers /\ a.rd \in Readers /\ Len(a.rd.layers) = 1
      BY <2>1, <2>2, <2>3, <2>4 DEF Sound
    <3>2. /\ raw'.length = raw.length
          /\ layers'[1].cap = layers[1].cap
          /\ layers'[1].expected = layers[1].expected
      BY <2>1, <2>2, <2>4 DEF Contract, SameStack
    <3>3. /\ layers \in Seq(Layers) /\ layers' \in Seq(Layers)
          /\ raw' \in Raws
      BY <2>2, <3>1 DEF Readers
    <3>4. 1 \in DOMAIN layers /\ 1 \in DOMAIN layers'
      BY <2>2, <2>3, <3>1, <3>3
    <3>5. layers[1] \in Layers /\ layers'[1] \in Layers
      BY <3>3, <3>4
    <3>6. LayerOK(1, Stack) /\ LayerOK(1, a.rd) /\ RawOK(a.rd)
      BY <2>4 DEF Sound
    <3>. QED
      BY <3>2, <3>3, <3>5, <3>6
  <2>6. CASE a.says = "bytes"
    <3>1. result' = result
      BY <2>1, <2>6 DEF Verdicts
    <3>2. result = "none"
      BY <2>1 DEF Order
    <3>3. result' = "none"
      BY <3>1, <3>2
    <3>. QED
      BY <3>3 DEF Judged
  <2>7. CASE a.says = "eof"
    <3>1. \A e \in declared : layers'[1].seen >= e
      BY <2>1, <2>2, <2>3, <2>4, <2>7 DEF Contract
    <3>2. buffer' = layers'[1].seen
      BY <2>1, <2>2, <2>3 DEF Contract, Passed
    <3>3. /\ layers'[1].seen <= layers'[1].cap
          /\ layers'[1].expected \subseteq {layers'[1].cap}
      BY <2>2, <2>5 DEF LayerOK
    <3>4. \A d \in declared : buffer' = d
      BY <1>00, <2>3, <2>5, <3>1, <3>2, <3>3 DEF Layers
    <3>5. result' = "ok" /\ UNCHANGED <<subject, call>>
      BY <2>1, <2>7 DEF Verdicts
    <3>. QED
      BY <3>4, <3>5 DEF Judged, AsDeclared
  <2>8. CASE a.says \in Verdicts
    <3>1. layers'[1].violation = a.says
      <4>1. Stuck(1, a.rd, a.says)
        BY <2>1, <2>3, <2>8 DEF Contract
      <4>. QED
        BY <2>2, <4>1 DEF Stuck
    <3>2. /\ a.says = "UnexpectedEof" =>
               declared = {layers[1].cap} /\ Extent(payload) < layers[1].cap
          /\ a.says = "InvalidData" => layers[1].cap < Extent(payload)
      <4>1. ASSUME a.says = "UnexpectedEof"
            PROVE  /\ declared = {layers[1].cap}
                   /\ Extent(payload) < layers[1].cap
        <5>1. Clear(1, Stack)
          BY <2>2, <2>3 DEF Clear
        <5>2. \E j \in 1..1 : /\ Stack.layers[j].expected = {Stack.layers[j].cap}
                             /\ Stack.raw.length < Stack.layers[j].cap
          BY <2>1, <2>2, <2>3, <4>1, <5>1 DEF Contract
        <5>. QED
          BY <2>2, <2>3, <5>2
      <4>2. ASSUME a.says = "InvalidData"
            PROVE  layers[1].cap < Extent(payload)
        <5>1. Passed(0, a.rd) = layers'[1].cap + 1
          BY <2>2, <2>5, <3>1, <4>2 DEF LayerOK
        <5>2. Passed(0, a.rd) <= raw'.length
          BY <2>2, <2>5 DEF RawOK, Passed
        <5>. QED
          BY <1>00, <2>3, <2>5, <5>1, <5>2 DEF Layers
      <4>. QED
        BY <4>1, <4>2
    <3>3. layers[1].cap \in Nat /\ declared \subseteq {layers[1].cap}
      BY <2>2, <2>3, <2>5 DEF LayerOK, Layers
    <3>4. UNCHANGED <<subject, call>>
          /\ result' = IF declared # {} THEN "corruption" ELSE "fault"
      BY <2>1, <2>8 DEF Verdicts
    <3>5. CASE declared # {}
      <4>1. layers[1].cap \in declared
        BY <3>3, <3>5
      <4>2. Extent(payload) # layers[1].cap
        BY <1>00, <2>8, <3>2, <3>3 DEF Verdicts
      <4>. QED
        BY <3>4, <3>5, <4>1, <4>2 DEF Judged
    <3>6. CASE declared = {}
      <4>1. Extent(payload) > DefaultMaxFile
        BY <1>00, <2>3, <2>8, <3>2, <3>3, <3>6 DEF Verdicts
      <4>. QED
        BY <2>1, <3>4, <3>6, <4>1 DEF Judged
    <3>. QED
      BY <3>5, <3>6
  <2>9. CASE a.says = "fault"
    <3>1. Breaks(payload)
      <4>1. Stack.raw.breaks
        BY <2>1, <2>9 DEF Contract
      <4>. QED
        BY <2>2, <2>3, <4>1
    <3>2. result' = "fault" /\ payload' = payload
      BY <2>1, <2>9 DEF Verdicts
    <3>. QED
      BY <3>1, <3>2 DEF Judged
  <2>. QED
    BY <2>1, <2>6, <2>7, <2>8, <2>9
<1>. QED
  BY <1>1, <1>2, <1>3, <1>4, <1>5, <1>6, <1>7, <1>8, <1>9, <1>10, <1>11,
     <1>12, <1>13, <1>14, <1>15, <1>16 DEF Next

\* Nothing goes past the budget.
LEMMA WithinStep == EntryInv /\ [Next]_vars => WithinBudget'
<1> SUFFICES ASSUME EntryInv, [Next]_vars PROVE WithinBudget'
  OBVIOUS
<1> USE DEF EntryInv, subject, reader
<1>0. call' = call /\ UNCHANGED subject => Budget' = Budget
  BY Steady
<1>00. /\ declared \in SUBSET Nat /\ \A m, n \in declared : m = n
       /\ Budget \in SUBSET Nat /\ buffer \in Nat /\ at \in Nat
       /\ backend \in {"zip", "sevenzip"} => declared # {}
  BY Bounding DEF Types
<1>000. UNCHANGED <<subject, call, buffer, got>> => WithinBudget'
  BY <1>0 DEF WithinBudget
<1>1. CASE UNCHANGED vars
  BY <1>1, <1>000 DEF vars
<1>2. CASE Call
  <2>1. /\ buffer' = 0 /\ got' = 0 /\ UNCHANGED subject
    BY <1>2 DEF Call, Order
  <2>2. /\ call'.cap \in SUBSET Nat
    <3>1. call' \in {Memory, Digest} \/ \E b \in Bounds : call' = Stream(b)
      BY <1>2 DEF Call
    <3>. QED
      BY <3>1, BoundAssumption DEF Memory, Digest, Stream, IsBound
  <2>3. Budget' \in SUBSET Nat
    BY <1>00, <2>1, <2>2, Bounding
       DEF Budget, stream_backend_cap, effective_entry_cap
  <2>4. DefaultMaxFile \in Nat /\ Fallback \in Nat
    BY BoundAssumption
  <2>. QED
    BY <1>00, <2>1, <2>3, <2>4 DEF WithinBudget, Exceeds
<1>3. CASE GateRefuses
  BY <1>3, <1>000 DEF GateRefuses, Return
<1>4. CASE SeekDrifts
  BY <1>4, <1>000 DEF SeekDrifts, Return
<1>5. CASE StageRefuses
  BY <1>5, <1>000 DEF StageRefuses, Return
<1>6. CASE StartFilling
  BY <1>6, <1>000 DEF StartFilling
<1>7. CASE BufferBlock
  <2>1. /\ backend \in {"zip", "sevenzip"} /\ call.op # "digest"
        /\ buffer' = Min({buffer + Block.size} \union {d + 1 : d \in declared})
        /\ UNCHANGED <<subject, call, got>> /\ phase = "filling"
        /\ at < Len(payload.blocks)
    BY <1>7 DEF BufferBlock, Take, Fill
  <2>2. PICK d \in Nat : declared = {d}
    BY <1>00, <2>1
  <2>3. buffer' <= d + 1 /\ buffer' \in Nat
    <3> DEFINE S == {buffer + Block.size} \union {x + 1 : x \in declared}
    <3>1. Block.size \in Nat
      BY <1>00, <2>1, NextBlock
    <3>2. S \in SUBSET Nat /\ d + 1 \in S
      BY <1>00, <2>2, <3>1
    <3> HIDE DEF S
    <3>3. Min(S) \in S /\ \A x \in S : Min(S) <= x
      BY <3>2, LeastOf
    <3>. QED
      BY <2>1, <3>2, <3>3 DEF S
  <2>4. \A b \in Budget : d <= b
    BY <1>00, <2>1, <2>2 DEF Filled, Fits, Exceeds
  <2>5. ~Exceeds(buffer' - 1, Budget) /\ ~Exceeds(got, Budget)
    <3>1. ASSUME NEW b \in Budget PROVE ~(buffer' - 1 > b)
      <4>1. \A x, y, z \in Nat : x <= y + 1 /\ y <= z => ~(x - 1 > z)
        OBVIOUS
      <4>2. b \in Nat /\ d <= b
        BY <1>00, <2>4
      <4>. QED
        BY <2>3, <4>1, <4>2, Zenon
    <3>2. ~Exceeds(got, Budget)
      BY <2>1 DEF WithinBudget
    <3>. QED
      BY <3>1, <3>2 DEF Exceeds
  <2>. QED
    BY <1>0, <2>1, <2>5 DEF WithinBudget
<1>8. CASE DecodeBlock
  <2>0. CASE buffer' = buffer
    BY <1>8, <2>0, <1>000 DEF DecodeBlock, Take, Fill, Refuse, Return
  <2>9. CASE buffer' # buffer
    <3>1. /\ backend = "rar" /\ ~Exceeds(buffer', Budget)
          /\ UNCHANGED <<subject, call, got>> /\ phase = "filling"
          /\ at < Len(payload.blocks)
      BY <1>8, <2>9 DEF DecodeBlock, Take, Fill, Refuse, Return
    <3>2. call.op # "digest"
      BY <1>8 DEF DecodeBlock
    <3>3. ~Exceeds(got, Budget)
      BY <3>2 DEF WithinBudget
    <3>4. ~Exceeds(buffer' - 0, Budget)
      <4>1. buffer' = buffer + Block.size /\ Block.size \in Nat
        BY <1>8, <1>00, <2>9, <3>1, NextBlock DEF DecodeBlock, Take, Fill,
           Refuse, Return
      <4>2. buffer' - 0 = buffer'
        BY <1>00, <4>1
      <4>. QED
        BY <3>1, <4>2
    <3>. QED
      BY <1>0, <3>1, <3>2, <3>3, <3>4 DEF WithinBudget
  <2>. QED
    BY <2>0, <2>9
<1>9. CASE AssembleBlock
  <2>0. CASE buffer' = buffer
    BY <1>9, <2>0, <1>000 DEF AssembleBlock, Take, Fill, Refuse, Return
  <2>9. CASE buffer' # buffer
    <3>1. /\ backend = "libarchive" /\ buffer' <= MemoryCap
          /\ buffer' = buffer + (Block.hole + Block.size)
          /\ UNCHANGED <<subject, call, got>> /\ phase = "filling"
          /\ at < Len(payload.blocks)
      BY <1>9, <2>9 DEF AssembleBlock, Take, Fill, Refuse, Return
    <3>2. /\ call.op = "memory" /\ got = 0
      BY <3>1 DEF Filled, Order
    <3>3. /\ MemoryCap \in Nat /\ \A b \in Budget : MemoryCap <= b
          /\ declared = {} => MemoryCap <= Fallback
          /\ Fallback \in Nat
      BY Caps, BoundAssumption
    <3>4. buffer' \in Int
      BY <1>00, <3>1, NextBlock
    <3>5. ~Exceeds(buffer' - 0, Budget) /\ ~Exceeds(0, Budget)
      BY <1>00, <3>1, <3>3, <3>4 DEF Exceeds
    <3>6. declared = {} => buffer' <= Fallback
      BY <3>1, <3>3, <3>4
    <3>. QED
      BY <1>0, <3>1, <3>2, <3>5, <3>6 DEF WithinBudget
  <2>. QED
    BY <2>0, <2>9
<1>10. CASE PushBlock
  <2>0. CASE buffer' = buffer
    BY <1>10, <2>0, <1>000 DEF PushBlock, Take, Fill, Refuse, Return
  <2>9. CASE buffer' # buffer
    <3>1. /\ call.op = "digest" /\ ~Exceeds(buffer', SinkCap)
          /\ UNCHANGED <<subject, call, got>> /\ phase = "filling"
          /\ at < Len(payload.blocks)
      BY <1>10, <2>9 DEF PushBlock, Take, Fill, Refuse, Return
    <3>. QED
      BY <3>1 DEF WithinBudget, SinkCap
  <2>. QED
    BY <2>0, <2>9
<1>11. CASE StageFails
  BY <1>11, <1>000 DEF StageFails, Return, DecoderFails
<1>12. CASE StageEnds
  BY <1>12, <1>000 DEF StageEnds, HandOut, Return, reader
<1>13. CASE OpenStream
  BY <1>13, <1>000 DEF OpenStream, HandOut
<1>14. CASE Read
  <2>1. PICK k \in Nat, a \in Answers :
          /\ Contract(Len(layers), Stack, k, a)
          /\ Stack' = a.rd /\ Len(layers') = Len(layers)
          /\ UNCHANGED <<subject, call, phase, at, buffer, result>>
          /\ phase = "reading" /\ call.op = "stream"
    BY <1>14, StreamRead, Zenon
  <2>2. Streaming' /\ Types'
    BY StreamingStep, TypesStep
  <2>3. /\ Stack'.raw = raw' /\ Stack'.layers = layers'
        /\ got' = Passed(Len(layers'), Stack') /\ Budget' = Budget
        /\ backend = "libarchive" =>
             \A b \in Budget : Len(layers') > 0 /\ layers'[1].cap <= b
        /\ backend # "libarchive" => ~Exceeds(raw'.length, Budget)
    BY <1>0, <2>1, <2>2 DEF Streaming, Stack
  <2>4. /\ Sound(Len(Stack'.layers), Stack') /\ Len(Stack'.layers) <= 2
    BY <2>2, <2>3 DEF Types
  <2>5. /\ got' \in Nat /\ got' <= raw'.length /\ raw'.length \in Nat
        /\ Len(layers') > 0 => got' <= layers'[1].cap /\ layers'[1].cap \in Nat
    <3>1. /\ got' \in Nat /\ got' <= raw'.length /\ raw' \in Raws
          /\ Len(layers') > 0 => got' <= layers'[1].cap
          /\ \A j \in 1..Len(layers') : layers'[j] \in Layers
          /\ Len(layers') \in 0..2
      BY <2>3, <2>4, Narrowing
    <3>2. Len(layers') > 0 => 1 \in 1..Len(layers')
      BY <3>1
    <3>. QED
      BY <3>1, <3>2 DEF Raws, Layers
  <2>6. ~Exceeds(got', Budget)
    <3>1. CASE backend = "libarchive"
      BY <1>00, <2>3, <2>5, <3>1 DEF Exceeds
    <3>2. CASE backend # "libarchive"
      BY <1>00, <2>3, <2>5, <3>2 DEF Exceeds
    <3>. QED
      BY <3>1, <3>2
  <2>. QED
    BY <1>0, <2>1, <2>6 DEF WithinBudget
<1>15. CASE OpenVisit
  BY <1>15, <1>000 DEF OpenVisit
<1>16. CASE VisitRead
  <2>1. PICK k \in Nat, a \in Answers :
          /\ Contract(Len(layers), Stack, k, a)
          /\ Stack' = a.rd /\ Len(layers') = Len(layers)
          /\ buffer' = buffer + a.n
          /\ UNCHANGED <<subject, call, at, got, last, failed>>
          /\ phase = "reading" /\ call.op = "digest"
    BY <1>16, DigestRead, Zenon
  <2>2. /\ Stack.raw = raw /\ Stack.layers = layers
        /\ a.rd.raw = raw' /\ a.rd.layers = layers'
    <3>1. Stack'.raw = raw' /\ Stack'.layers = layers'
      BY DEF Stack
    <3>. QED
      BY <2>1, <3>1 DEF Stack
  <2>3. /\ Len(layers) = 1 /\ layers[1].expected = declared
        /\ declared = {} => layers[1].cap = DefaultMaxFile
        /\ buffer = layers[1].seen
    BY <2>1 DEF Visiting
  <2>4. /\ Sound(1, a.rd) /\ 1 \in 1..1 /\ 1 \in 1..Len(layers)
        /\ layers'[1].cap = layers[1].cap
        /\ layers'[1].expected = layers[1].expected
        /\ buffer' = layers'[1].seen
    BY <2>1, <2>2, <2>3 DEF Contract, SameStack, Passed
  <2>5. /\ layers'[1].seen <= layers'[1].cap
        /\ layers'[1].expected \subseteq {layers'[1].cap}
    BY <2>2, <2>4 DEF Sound, LayerOK
  <2>6. ~Exceeds(buffer', IF declared = {} THEN {DefaultMaxFile}
                         ELSE declared)
    <3>1. CASE declared = {}
      <4>1. buffer' <= DefaultMaxFile
        BY <2>3, <2>4, <2>5, <3>1
      <4>2. buffer' \in Nat /\ DefaultMaxFile \in Nat
        BY TypesStep, BoundAssumption DEF Types
      <4>. QED
        BY <3>1, <4>1, <4>2 DEF Exceeds
    <3>2. CASE declared # {}
      <4>1. \A d \in declared : d = layers'[1].cap
        BY <2>3, <2>4, <2>5
      <4>2. buffer' \in Nat
        BY TypesStep DEF Types
      <4>3. \A d \in declared : buffer' <= d
        BY <2>4, <2>5, <4>1
      <4>4. \A d \in declared : ~(buffer' > d)
        BY <1>00, <4>2, <4>3
      <4>5. ~Exceeds(buffer', declared)
        BY <4>4 DEF Exceeds
      <4>. QED
        BY <3>2, <4>5
    <3>. QED
      BY <3>1, <3>2
  <2>. QED
    BY <2>1, <2>6 DEF WithinBudget
<1>. QED
  BY <1>1, <1>2, <1>3, <1>4, <1>5, <1>6, <1>7, <1>8, <1>9, <1>10, <1>11,
     <1>12, <1>13, <1>14, <1>15, <1>16 DEF Next


-----------------------------------------------------------------------------
(* The theorems.                                                           *)

\* The invariant holds at the start.
LEMMA EntryInit == Init => EntryInv
<1> SUFFICES ASSUME Init PROVE EntryInv
  OBVIOUS
<1> USE DEF Init
<1>1. Sound(Len(layers), Stack) /\ Len(layers) = 0
  <2>1. raw \in Raws /\ raw.pos = 0 /\ raw.length = 0 /\ ~raw.eof
    BY DEF NoRaw, Raws
  <2>2. layers \in Seq(Layers) /\ Len(layers) = 0
    OBVIOUS
  <2>3. Stack \in Readers /\ Stack.raw = raw /\ Stack.layers = layers
    BY <2>1, <2>2 DEF Stack, Readers
  <2>4. RawOK(Stack)
    BY <2>1, <2>3 DEF RawOK
  <2>. QED
    BY <2>2, <2>3, <2>4 DEF Sound
<1>2. Len(payload.blocks) \in Nat
  BY Reaching
<1>3. Types
  BY <1>1, <1>2 DEF Types, Verdicts
<1>4. Order
  BY DEF Order, NoCall
<1>5. Filled /\ Streaming /\ Answered /\ Visiting /\ Judged
  BY DEF Filled, Streaming, Answered, Visiting, Judged
<1>6. WithinBudget
  <2>1. Budget \in SUBSET Nat /\ declared \in SUBSET Nat
    BY <1>3, Bounding
  <2>2. buffer = 0 /\ got = 0 /\ call.op # "digest"
    BY DEF NoCall
  <2> USE DEF Exceeds
  <2>3. ~Exceeds(0 - 1, Budget) /\ ~Exceeds(0 - 0, Budget)
        /\ ~Exceeds(0, Budget)
    BY <2>1
  <2>4. Fallback \in Nat
    BY BoundAssumption
  <2>. QED
    BY <2>2, <2>3, <2>4 DEF WithinBudget
<1>. QED
  BY <1>3, <1>4, <1>5, <1>6 DEF EntryInv

\* The invariant, of every state: each part is kept by one of the lemmas.
LEMMA EntryInvariant == Spec => []EntryInv
<1>1. EntryInv /\ [Next]_vars => EntryInv'
  BY TypesStep, OrderStep, FilledStep, StreamingStep, AnsweredStep,
     VisitingStep, JudgedStep, WithinStep DEF EntryInv
<1>. QED
  BY EntryInit, <1>1, PTL DEF Spec

\* An error that a stream answered names what its readers met.
LEMMA Blame ==
  ASSUME EntryInv, failed \in Verdicts
  PROVE  /\ phase = "reading" /\ call.op = "stream"
         /\ failed = "InvalidData" => Exceeds(Extent(payload), Budget)
         /\ failed = "UnexpectedEof" =>
              \E d \in declared : Extent(payload) < d \/ Breaks(payload)
<1> USE DEF EntryInv
<1>1. phase = "reading" /\ call.op = "stream"
  BY DEF Order, Verdicts
<1>2. PICK k \in 1..Len(layers) : layers[k].violation = failed
  BY <1>1 DEF Answered, Stuck, Stack
<1>3. /\ Stack.raw = raw /\ Stack.layers = layers
      /\ Sound(Len(Stack.layers), Stack) /\ Len(Stack.layers) <= 2
  BY DEF Stack, Types
<1>4. /\ LayerOK(k, Stack) /\ Passed(k - 1, Stack) <= raw.length
      /\ layers[k].cap \in Nat
  BY <1>2, <1>3, Narrowing DEF Layers
<1>5. /\ raw.length = Extent(payload) /\ raw.breaks = Breaks(payload)
      /\ layers[k].cap \in Budget /\ layers[k].expected \subseteq declared
  BY <1>1, <1>2 DEF Streaming
<1>6. Extent(payload) \in Nat
  BY Backwards
<1>7. ASSUME failed = "InvalidData"
      PROVE  Exceeds(Extent(payload), Budget)
  <2>1. Passed(k - 1, Stack) = layers[k].cap + 1
    BY <1>2, <1>3, <1>4, <1>7 DEF LayerOK
  <2>2. layers[k].cap + 1 <= Extent(payload)
    BY <1>4, <1>5, <2>1
  <2>3. Extent(payload) > layers[k].cap
    BY <1>4, <1>6, <2>2
  <2>. QED
    BY <1>5, <2>3 DEF Exceeds
<1>8. ASSUME failed = "UnexpectedEof"
      PROVE  \E d \in declared : Extent(payload) < d \/ Breaks(payload)
  <2>1. /\ layers[k].expected = {layers[k].cap}
        /\ raw.breaks \/ raw.length < layers[k].cap
    BY <1>2, <1>3, <1>4, <1>8 DEF LayerOK
  <2>. QED
    BY <1>5, <2>1
<1>. QED
  BY <1>1, <1>7, <1>8

\* A clean end is the whole of what was declared.
LEMMA Silence == EntryInv => NeverSilent
<1> SUFFICES ASSUME EntryInv, NEW d \in declared
             PROVE  /\ call.kind = "DeclaredSize" /\ last = "eof" => got = d
                    /\ call.op = "stream" /\ backend # "libarchive"
                         /\ last = "eof" => got = d
                    /\ call.op \in {"memory", "digest"} /\ result = "ok"
                         => buffer = d
  BY DEF NeverSilent
<1> USE DEF EntryInv
<1>1. /\ call.kind = "DeclaredSize" => call.op = "stream"
      /\ declared \in SUBSET Nat
  BY Bounding
<1>2. /\ Stack.raw = raw /\ Stack.layers = layers
      /\ Sound(Len(Stack.layers), Stack) /\ Len(Stack.layers) <= 2
  BY DEF Stack, Types
<1>3. /\ \A k \in 1..Len(layers) : LayerOK(k, Stack) /\ layers[k] \in Layers
      /\ Len(layers) \in 0..2
  BY <1>2, Narrowing
<1>4. ASSUME call.op = "stream", last = "eof"
      PROVE  /\ phase = "reading" /\ raw.eof /\ got = raw.pos
             /\ got = Passed(Len(layers), Stack)
  <2>1. phase = "reading"
    BY <1>4 DEF Order
  <2>. QED
    BY <1>4, <2>1 DEF Answered, Streaming
<1>5. ASSUME call.kind = "DeclaredSize", last = "eof" PROVE got = d
  <2> DEFINE n == Len(layers)
  <2>1. phase = "reading" /\ call.op = "stream"
    BY <1>1, <1>4, <1>5
  <2>2. n \in 1..n /\ layers[n].expected = declared /\ n # 0
    BY <1>3, <1>5, <2>1 DEF Streaming
  <2>3. layers[n].seen >= d
    BY <1>5, <2>1, <2>2 DEF Answered
  <2>4. got = layers[n].seen
    BY <1>2, <1>4, <1>5, <2>1, <2>2 DEF Passed
  <2>5. /\ layers[n].seen <= layers[n].cap
        /\ layers[n].expected \subseteq {layers[n].cap}
        /\ layers[n].seen \in Nat /\ layers[n].cap \in Nat
    BY <1>2, <1>3, <2>2 DEF LayerOK, Layers
  <2>6. d = layers[n].cap
    BY <2>2, <2>5
  <2>. QED
    BY <2>3, <2>4, <2>5, <2>6
<1>6. ASSUME call.op = "stream", backend # "libarchive", last = "eof"
      PROVE  got = d
  <2>1. ~raw.breaks /\ raw.length = d
    BY <1>4, <1>6 DEF Streaming
  <2>2. RawOK(Stack)
    BY <1>2 DEF Sound
  <2>. QED
    BY <1>2, <1>4, <1>6, <2>1, <2>2 DEF RawOK
<1>7. call.op \in {"memory", "digest"} /\ result = "ok" => buffer = d
  BY DEF Judged, AsDeclared
<1>. QED
  BY <1>5, <1>6, <1>7

\* A sound entry that fits comes through.
LEMMA Passing == EntryInv => SoundEntriesPass
<1> DEFINE fits ==
      IF call.op = "digest"
      THEN declared # {} \/ Extent(payload) <= DefaultMaxFile
      ELSE /\ ~Exceeds(Extent(payload), Budget)
           /\ call.op = "memory" /\ declared = {} =>
                Extent(payload) <= Fallback
<1> SUFFICES ASSUME EntryInv, Whole, fits
             PROVE  /\ result \in {"none", "ok", "ratio", "drift"}
                    /\ failed = "none"
                    /\ call.op = "stream" /\ last = "eof" =>
                         got = Extent(payload)
  BY DEF SoundEntriesPass
<1> USE DEF EntryInv
<1>1. /\ ~Breaks(payload) /\ Backward(payload) = {}
      /\ \A d \in declared : Extent(payload) = d
  BY DEF Whole, Breaks
<1>2. Extent(payload) \in Nat /\ DefaultMaxFile \in Nat /\ Fallback \in Nat
  BY Backwards, BoundAssumption
<1>3. result # "blocked"
  <2>1. call.op # "digest" => ~Exceeds(Extent(payload), Budget)
    OBVIOUS
  <2>2. call.op = "memory" /\ declared = {} => ~(Extent(payload) > Fallback)
    BY <1>2
  <2>3. call.op # "digest" => ~\E d \in declared : Exceeds(d, Budget)
    BY <1>1, <2>1
  <2> HIDE DEF fits
  <2>. QED
    BY <2>1, <2>2, <2>3 DEF Judged
<1>4. result # "corruption"
  BY <1>1 DEF Judged
<1>5. result # "fault"
  <2>1. call.op = "digest" /\ declared = {} =>
          ~(Extent(payload) > DefaultMaxFile)
    BY <1>2
  <2> HIDE DEF fits
  <2>. QED
    BY <1>1, <2>1 DEF Judged
<1>6. result \in {"none", "ok", "ratio", "drift"}
  BY <1>3, <1>4, <1>5 DEF Types
<1>7. failed = "none"
  <2>1. failed \notin Verdicts
    <3>1. SUFFICES ASSUME failed \in Verdicts PROVE FALSE
      OBVIOUS
    <3>2. /\ phase = "reading" /\ call.op = "stream"
          /\ failed = "InvalidData" => Exceeds(Extent(payload), Budget)
          /\ failed = "UnexpectedEof" =>
               \E d \in declared : Extent(payload) < d \/ Breaks(payload)
      BY <3>1, Blame
    <3>3. failed # "InvalidData"
      BY <3>2
    <3>4. \A d \in declared : ~(Extent(payload) < d)
      BY <1>1, <1>2
    <3>5. failed # "UnexpectedEof"
      BY <1>1, <3>2, <3>4
    <3>. QED
      BY <3>1, <3>3, <3>5 DEF Verdicts
  <2>2. failed # "fault"
    BY <1>1 DEF Answered, Order
  <2>. QED
    BY <2>1, <2>2 DEF Types
<1>8. ASSUME call.op = "stream", last = "eof" PROVE got = Extent(payload)
  <2>1. phase = "reading"
    BY <1>8 DEF Order
  <2>2. /\ raw.eof /\ got = raw.pos /\ ~raw.breaks
        /\ raw.length = Extent(payload)
    BY <1>1, <1>8, <2>1 DEF Answered, Streaming
  <2>3. RawOK(Stack) /\ Stack.raw = raw
    BY DEF Types, Sound, Stack
  <2>. QED
    BY <2>2, <2>3 DEF RawOK
<1>. QED
  BY <1>6, <1>7, <1>8

\* No error blames what did not happen.
LEMMA Causes == EntryInv => ErrorsNameTheCause
<1> SUFFICES ASSUME EntryInv PROVE ErrorsNameTheCause
  OBVIOUS
<1>1. failed = "UnexpectedEof" =>
        \E d \in declared : Extent(payload) < d \/ Breaks(payload)
  BY Blame DEF Verdicts
<1>2. failed = "InvalidData" => Exceeds(Extent(payload), Budget)
  BY Blame DEF Verdicts
<1>3. /\ result = "blocked" =>
           \/ Exceeds(Extent(payload), Budget)
           \/ declared = {} /\ Extent(payload) > Fallback
           \/ \E d \in declared : Exceeds(d, Budget)
      /\ result = "corruption" =>
           \/ Backward(payload) # {}
           \/ \E d \in declared : Extent(payload) # d
  BY DEF EntryInv, Judged
<1>. QED
  BY <1>1, <1>2, <1>3 DEF ErrorsNameTheCause

\* Each variable is of its kind.
LEMMA Kinds == EntryInv => TypeOK
<1> SUFFICES ASSUME EntryInv PROVE TypeOK
  OBVIOUS
<1>1. call.op \in {"none", "memory", "stream", "digest"}
  BY Bounding DEF EntryInv
<1>2. /\ Stack.raw = raw /\ Stack.layers = layers
      /\ Sound(Len(Stack.layers), Stack) /\ Len(Stack.layers) <= 2
  BY DEF Stack, Types, EntryInv
<1>3. Len(layers) \in 0..2 /\ raw \in Raws
  BY <1>2, Narrowing
<1>4. raw.pos <= raw.length
  BY <1>2 DEF Sound, RawOK
<1>5. raw.pos \in 0..raw.length
  BY <1>3, <1>4 DEF Raws
<1>. QED
  BY <1>1, <1>3, <1>5 DEF TypeOK, EntryInv, Types

\* Whatever a read of an entry says of it is true: on every backend, in
\* memory, streamed under any bound or digested, an end is a whole entry, a
\* whole entry that fits comes to its end, and an error names its cause.
THEOREM VerdictsAreTrue == Spec => []VerdictsTrue
<1>1. EntryInv => VerdictsTrue
  BY Kinds, Silence, Passing, Causes DEF VerdictsTrue
<1>. QED
  BY <1>1, EntryInvariant, PTL

\* No read of one entry buffers, stages, pushes or delivers more than its
\* budget, whatever the listing declared and the decoder produced.
THEOREM NothingPastBudget == Spec => []WithinBudget
<1>1. EntryInv => WithinBudget
  BY DEF EntryInv
<1>. QED
  BY <1>1, EntryInvariant, PTL

\* Once a stream has answered with a verdict about its bound, every read
\* repeats it and takes nothing from the source.
THEOREM VerdictsStick == Spec => VerdictSticks
<1>1. ASSUME EntryInv, [Next]_vars, failed \in Verdicts, reader' # reader
      PROVE  last' \in {failed, "empty"} /\ raw' = raw
  <2> USE <1>1
  <2>1. phase = "reading" /\ call.op = "stream"
    BY Blame
  <2>2. Read
    <3>1. Next
      BY DEF vars
    <3>2. ~(Call \/ GateRefuses \/ SeekDrifts \/ StageRefuses
            \/ StartFilling \/ OpenStream \/ OpenVisit)
      BY <2>1 DEF Call, GateRefuses, SeekDrifts, StageRefuses,
                  StartFilling, OpenStream, OpenVisit
    <3>3. ~(BufferBlock \/ DecodeBlock \/ AssembleBlock \/ PushBlock
            \/ StageFails \/ StageEnds \/ VisitRead)
      BY <2>1 DEF BufferBlock, DecodeBlock, AssembleBlock, PushBlock,
                  StageFails, StageEnds, VisitRead
    <3>. QED
      BY <3>1, <3>2, <3>3, Zenon DEF Next
  <2>3. PICK k \in Asks :
          LET a == ReadStack(Stack, k) IN
          /\ raw' = a.rd.raw
          /\ last' = IF k = 0 /\ a.says = "eof" THEN "empty" ELSE a.says
    BY <2>2 DEF Read, Stack
  <2>4. k \in Nat
    BY AskAssumption
  <2>5. /\ Stack.raw = raw /\ Stack.layers = layers
        /\ Sound(Len(Stack.layers), Stack) /\ Len(Stack.layers) <= 2
        /\ Stuck(Len(Stack.layers), Stack, failed)
    BY <2>1 DEF Stack, Types, EntryInv, Answered
  <2>6. /\ Len(Stack.layers) \in 0..2
        /\ \A j \in 1..Len(Stack.layers) :
             Stack.layers[j].cap \in Nat /\ Stack.layers[j].seen \in Nat
    BY <2>5, Narrowing DEF Layers
  <2>7. \E says \in {failed, "eof"} :
          /\ ReadStack(Stack, k) = Answer(Stack, says, 0)
          /\ k > 0 => says = failed
    BY <2>4, <2>5, <2>6, Sticks
  <2>8. PICK says \in {failed, "eof"} :
          /\ ReadStack(Stack, k) = Answer(Stack, says, 0)
          /\ k > 0 => says = failed
    BY <2>7
  <2>9. raw' = raw /\ last' = IF k = 0 /\ says = "eof" THEN "empty" ELSE says
    BY <2>3, <2>5, <2>8 DEF Answer
  <2>. QED
    BY <2>4, <2>8, <2>9
<1>2. EntryInv /\ [Next]_vars =>
        [(failed \in Verdicts) =>
           last' \in {failed, "empty"} /\ raw' = raw]_reader
  BY <1>1
<1>. QED
  BY <1>2, EntryInvariant, PTL DEF Spec, VerdictSticks


-----------------------------------------------------------------------------
(* The volumes of a set are names of its directory.                        *)

\* A name that is a volume's keeps the name, its number and its width.
LEMMA VolumeNames ==
  ASSUME NEW name \in FileNames
  PROVE  LET v == parse_volume_name(name) IN
         \/ v = NoVolume
         \/ /\ v # NoVolume /\ v.file = name
            /\ v.number \in Nat /\ v.width \in 0..9
<1>1. name.value \in Nat /\ name.width \in Nat /\ name.base \in Nat
  BY DEF FileNames
<1>2. ASSUME NEW scheme, NEW n \in Nat, name.width \in 0..9
      PROVE  LET v == VolumeName(name, scheme, n) IN
             /\ v # NoVolume /\ v.file = name
             /\ v.number \in Nat /\ v.width \in 0..9
  BY <1>2 DEF VolumeName, NoVolume
<1>3. ASSUME NEW scheme, NEW base
      PROVE  LET v == MainVolume(name, scheme, base) IN
             /\ v # NoVolume /\ v.file = name
             /\ v.number \in Nat /\ v.width \in 0..9
  BY DEF MainVolume, NoVolume
<1>4. HasNumber(name) => name.width \in 0..9
  BY <1>1 DEF HasNumber, HasRun, MAX_VOL_DIGITS
<1> HIDE DEF NoVolume, VolumeName, MainVolume, HasNumber
<1>5. CASE name.tag = "part"
  <2>1. CASE HasNumber(name)
    BY <1>1, <1>2, <1>4, <1>5, <2>1 DEF parse_volume_name
  <2>2. CASE ~HasNumber(name)
    BY <1>3, <1>5, <2>2 DEF parse_volume_name
  <2>. QED
    BY <2>1, <2>2
<1>6. CASE name.tag = "rar"
  BY <1>3, <1>6 DEF parse_volume_name
<1>7. CASE name.tag = "zip"
  BY <1>3, <1>7 DEF parse_volume_name
<1>8. CASE name.tag = "z"
  <2>1. name.value + 1 \in Nat
    BY <1>1
  <2>. QED
    BY <1>2, <1>4, <1>8, <2>1 DEF parse_volume_name
<1>9. CASE name.tag = "r"
  <2>1. name.value + 2 \in Nat /\ (name.width = 2 => name.width \in 0..9)
    BY <1>1
  <2>. QED
    BY <1>2, <1>9, <2>1 DEF parse_volume_name
<1>10. CASE name.tag = "s"
  <2>1. name.value + 102 \in Nat /\ (name.width = 2 => name.width \in 0..9)
    BY <1>1
  <2>. QED
    BY <1>2, <1>10, <2>1 DEF parse_volume_name
<1>11. CASE name.tag = "digit"
  BY <1>1, <1>2, <1>4, <1>11 DEF parse_volume_name
<1>12. CASE name.tag \notin {"part", "rar", "zip", "z", "r", "s", "digit"}
  BY <1>12 DEF parse_volume_name
<1>. QED
  BY <1>5, <1>6, <1>7, <1>8, <1>9, <1>10, <1>11, <1>12

\* Sorting lists members, and only members.
LEMMA SortedLists ==
  ASSUME NEW n \in Nat, NEW members, IsFiniteSet(DOMAIN members),
         \A i \in DOMAIN members :
            members[i].number \in Nat /\ members[i].width \in 0..9
  PROVE  /\ Len(Sorted(members)) \in Nat
         /\ Sorted(members) \in Seq({members[i] : i \in DOMAIN members})
<1> DEFINE cands == {members[i] : i \in DOMAIN members}
           key == [c \in cands |-> SortKey(c)]
           S == {key[c] : c \in cands}
           keys == Ascending(S)
<1>1. IsFiniteSet(cands)
  BY ImageIsFinite
<1>2. \A c \in cands : SortKey(c) \in Nat
  BY DEF SortKey, MAX_VOL_DIGITS
<1>3. S \in SUBSET Nat /\ S = {SortKey(c) : c \in cands}
  BY <1>2
<1>4. IsFiniteSet(S)
  <2> HIDE DEF key, cands
  <2>. QED
    BY <1>1, ImageIsFinite
<1>5. Cardinality(S) \in Nat /\ keys \in [1..Cardinality(S) -> S]
  <2> HIDE DEF S
  <2>. QED
    BY <1>3, <1>4, AscendingLists
<1>6. \A k \in 1..Cardinality(S) : \E c \in cands : SortKey(c) = keys[k]
  <2> TAKE k \in 1..Cardinality(S)
  <2>1. keys[k] \in S
    <3> HIDE DEF S, keys
    <3>. QED
      BY <1>5
  <2> HIDE DEF keys, S
  <2>. QED
    BY <1>3, <2>1
<1>7. Sorted(members) = [k \in DOMAIN keys |->
                           CHOOSE c \in cands : SortKey(c) = keys[k]]
  <2>1. keys = Ascending({SortKey(c) : c \in cands})
    BY <1>3
  <2>2. Sorted(members) =
          LET listed == Ascending({SortKey(c) : c \in cands})
          IN [k \in DOMAIN listed |->
                CHOOSE c \in cands : SortKey(c) = listed[k]]
    BY DEF Sorted
  <2> HIDE DEF keys, S, cands
  <2>. QED
    BY <2>1, <2>2
<1> HIDE DEF cands, key, S, keys
<1>8. Sorted(members) \in [1..Cardinality(S) -> cands]
  BY <1>5, <1>6, <1>7
<1>9. Sorted(members) \in Seq(cands)
  BY <1>5, <1>8
<1>. QED
  BY <1>9 DEF cands

\* The files of an anchored report are files of the caller.
LEMMA ReportedAreListed ==
  ASSUME NEW P \in SUBSET FileNames, NEW names \in Seq(P), NEW anchor,
         build_report(names, anchor).kind # "Unvolumed"
  PROVE  PathsOf(build_report(names, anchor).set) \in Seq(P)
<1> DEFINE cands == Candidates(names)
           key == IF anchor # NoKey THEN anchor ELSE dominant_key(cands)
           members == InGroup(cands, key)
           r == build_report(names, anchor)
<1>1. /\ Unvolumed({}).kind = "Unvolumed"
      /\ Unvolumed(Unrelated(cands, key)).kind = "Unvolumed"
  BY DEF Unvolumed
<1>2. r.set = assemble_set(key, members)
  BY <1>1 DEF build_report
<1>3. r.set.volumes = Sorted(members)
  BY <1>2 DEF assemble_set
<1>4. /\ DOMAIN cands \subseteq DOMAIN names
      /\ \A i \in DOMAIN cands : /\ cands[i] = parse_volume_name(names[i])
                                 /\ cands[i] # NoVolume
  BY DEF Candidates, Restrict
<1>5. /\ DOMAIN members \subseteq DOMAIN names
      /\ \A i \in DOMAIN members : /\ members[i] = parse_volume_name(names[i])
                                   /\ members[i] # NoVolume
  <2> HIDE DEF cands, key
  <2>. QED
    BY <1>4 DEF InGroup, Restrict
<1> HIDE DEF cands, key, members, r
<1>6. IsFiniteSet(DOMAIN members)
  <2>1. DOMAIN names = 1..Len(names) /\ Len(names) \in Nat
    OBVIOUS
  <2>. QED
    BY <1>5, <2>1, PartOfRun
<1>7. \A i \in DOMAIN members :
         /\ members[i].number \in Nat /\ members[i].width \in 0..9
         /\ members[i].file \in P
  <2> TAKE i \in DOMAIN members
  <2>1. names[i] \in P /\ names[i] \in FileNames
    BY <1>5
  <2>. QED
    BY <1>5, <2>1, VolumeNames
<1>8. Sorted(members) \in Seq({members[i] : i \in DOMAIN members})
  BY <1>6, <1>7, SortedLists
<1>9. \A c \in {members[i] : i \in DOMAIN members} : c.file \in P
  BY <1>7
<1>10. PathsOf(r.set) = [i \in DOMAIN Sorted(members) |-> Sorted(members)[i].file]
  BY <1>3 DEF PathsOf
<1>11. PathsOf(r.set) \in Seq(P)
  <2>1. PICK s : s = Sorted(members)
    OBVIOUS
  <2>2. PICK M : M = {members[i] : i \in DOMAIN members}
    OBVIOUS
  <2>3. s \in Seq(M) /\ \A c \in M : c.file \in P
    BY <1>8, <1>9, <2>1, <2>2
  <2>4. [i \in DOMAIN s |-> s[i].file] \in [1..Len(s) -> P] /\ Len(s) \in Nat
    BY <2>3
  <2>. QED
    BY <1>10, <2>1, <2>4
<1>. QED
  BY <1>11 DEF r

\* A finite set in some order.
LEMMA SetInOrder ==
  ASSUME NEW S, IsFiniteSet(S)
  PROVE  SetToSeq(S) \in Seq(S)
<1>1. PICK n \in Nat : ExistsBijection(1..n, S)
  BY FS_NatBijection
<1>2. Cardinality(S) = n
  BY <1>1, FS_CountingElements
<1>3. PICK f : f \in Bijection(1..n, S)
  BY <1>1 DEF ExistsBijection
<1>4. f \in [1..n -> S] /\ IsInjective(f)
  BY <1>3 DEF Bijection, Injection, IsInjective
<1>5. SetToSeq(S) \in [1..Cardinality(S) -> S]
  BY <1>2, <1>4 DEF SetToSeq
<1>. QED
  BY <1>2, <1>5

-----------------------------------------------------------------------------
(* What every step keeps.                                                  *)

Parts == [file : Files, start : Nat, len : Nat]

\* The numbers of the files there were up to now.
Known == 0..(FirstFresh + meddled - 1)

SourceTypes ==
    /\ handle \in Starts /\ meddled \in 0..Meddles
    /\ disk \in [DOMAIN handle.disk -> Known]
    /\ size \in [Files -> Nat]
    /\ bound \in Known
    /\ pc \in PcValues
    /\ volumes \in Seq(DOMAIN disk)
    /\ parts \in Seq(Parts) /\ cursor \in Seq(Nat)
    /\ Len(cursor) = Len(parts) /\ Len(parts) <= Len(volumes)
    /\ chain \in [pos : Nat, synced : Nat]
    /\ window \in [start : Nat, len : Nat, pos : Nat, inner_synced : BOOLEAN]

\* Where the n-th part ends, or, of a list of none, begins.
EndOf(ps, n) == IF n = 0 THEN 0 ELSE ps[n].start + ps[n].len

\* Each part begins where the one before it ends.
Contiguous ==
    \A i \in 1..Len(parts) : parts[i].start = EndOf(parts, i - 1)

\* What is there at which step of an operation.
Course ==
    /\ pc \in {"idle", "scan"} => parts = <<>>
    /\ pc # "read" => answered = Nothing /\ chain = ClosedChain
    /\ pc \notin {"parse", "read"} => window = ClosedWindow
    /\ pc = "parse" => window.pos = 0
    /\ TotalLen <= U64Max /\ window.pos <= U64Max /\ chain.pos <= TotalLen
    /\ pc \in {"parse", "read"} =>
         /\ Len(parts) = Len(volumes)
         /\ window.start + window.len = TotalLen

\* The window knows where the chain stands, and the chain where the
\* descriptor of the part does.
Synced ==
    /\ window.inner_synced => chain.pos = window.start + window.pos
    /\ chain.synced # NoneSynced =>
         /\ chain.synced \in 1..Len(parts)
         /\ parts[chain.synced].start <= chain.pos
         /\ cursor[chain.synced] = chain.pos - parts[chain.synced].start

\* A part opened under the handle's name while that name stood for the bound
\* file is the bound file; once the name stands for another it never comes
\* back, as others only make new files.
BoundHolds ==
    bound # Absent /\ pc \in {"open", "parse"} /\ disk[handle.path] = bound =>
       \A i \in 1..Len(parts) :
          i \in DOMAIN volumes /\ volumes[i] = handle.path =>
             parts[i].file = bound

SourceInv == SourceTypes /\ Contiguous /\ Course /\ Synced /\ BoundHolds

\* A handle's path is one of the directory's names.
LEMMA HandleTyped ==
  ASSUME SourceTypes
  PROVE  /\ DOMAIN disk = DOMAIN handle.disk
         /\ DOMAIN disk \subseteq FileNames /\ IsFiniteSet(DOMAIN disk)
         /\ handle.path \in DOMAIN disk
         /\ handle.payload_offset \in Nat
         /\ FirstFresh \in Nat \ {0} /\ Meddles \in Nat /\ meddled \in Nat
         /\ Known \subseteq Files \union {Absent} /\ Absent \in Known
         /\ FirstFresh + meddled \notin Known
         /\ meddled < Meddles => FirstFresh + meddled \in Files
<1>1. handle \in Starts /\ disk \in [DOMAIN handle.disk -> Known]
  BY DEF SourceTypes
<1>2. /\ DOMAIN disk = DOMAIN handle.disk
      /\ DOMAIN disk \subseteq FileNames /\ IsFiniteSet(DOMAIN disk)
      /\ handle.path \in DOMAIN disk
      /\ handle.payload_offset \in Nat
  BY <1>1, StartAssumption
<1>3. FirstFresh \in Nat \ {0} /\ Meddles \in Nat /\ meddled \in 0..Meddles
  BY WidthAssumption DEF SourceTypes
<1>. QED
  BY <1>2, <1>3 DEF Known, Files, Absent

\* The parts end where the last of them does.
LEMMA TotalIsTheEnd ==
  ASSUME NEW ps \in Seq(Parts)
  PROVE  /\ \A n \in 0..Len(ps) : EndOf(ps, n) \in Nat
         /\ parts = ps => TotalLen = EndOf(ps, Len(ps)) /\ TotalLen \in Nat
<1>1. \A n \in 0..Len(ps) : EndOf(ps, n) \in Nat
  <2> TAKE n \in 0..Len(ps)
  <2>1. CASE n # 0
    <3>1. ps[n] \in Parts
      BY <2>1
    <3>2. ps[n].start \in Nat /\ ps[n].len \in Nat
      BY <3>1 DEF Parts
    <3>. QED
      BY <2>1, <3>2 DEF EndOf
  <2>. QED
    BY <2>1 DEF EndOf
<1>2. ps = <<>> <=> Len(ps) = 0
  OBVIOUS
<1>. QED
  BY <1>1, <1>2 DEF TotalLen, EndOf

\* Starting, there is nothing open and nothing bound.
LEMMA SourceStarts ==
  ASSUME SourceInit
  PROVE  SourceInv
<1>1. handle \in Starts /\ disk = handle.disk /\ size = handle.size
      /\ meddled = 0
  BY DEF SourceInit
<1>2. /\ disk \in [DOMAIN handle.disk -> 0..(FirstFresh - 1)]
      /\ size \in [Files -> Nat]
  BY <1>1, StartAssumption
<1>3. FirstFresh \in Nat \ {0} /\ Meddles \in Nat
  BY WidthAssumption
<1>4. Known = 0..(FirstFresh - 1)
  BY <1>1, <1>3 DEF Known
<1>5. Absent \in Known
  BY <1>3, <1>4 DEF Absent
<1>6. volumes = <<>> /\ parts = <<>> /\ cursor = <<>>
  BY DEF SourceInit
<1>7. /\ volumes \in Seq(DOMAIN disk) /\ parts \in Seq(Parts)
      /\ cursor \in Seq(Nat) /\ Len(cursor) = Len(parts) /\ Len(parts) = 0
      /\ Len(volumes) = 0 /\ TotalLen = 0
  BY <1>6 DEF TotalLen
<1>8. /\ chain \in [pos : Nat, synced : Nat]
      /\ window \in [start : Nat, len : Nat, pos : Nat, inner_synced : BOOLEAN]
  BY DEF SourceInit, ClosedChain, ClosedWindow, NoneSynced
<1>9. SourceTypes
  BY <1>1, <1>2, <1>3, <1>4, <1>5, <1>7, <1>8
  DEF SourceTypes, SourceInit, PcValues
<1>10. Contiguous /\ BoundHolds
  BY <1>7 DEF Contiguous, BoundHolds, SourceInit
<1>11. Course
  BY <1>7, WidthAssumption DEF Course, SourceInit, ClosedChain, ClosedWindow
<1>12. Synced
  BY DEF Synced, SourceInit, ClosedChain, ClosedWindow
<1>. QED
  BY <1>9, <1>10, <1>11, <1>12 DEF SourceInv

\* A refused or closed source is as there was none.
LEMMA RefusalsKeep ==
  ASSUME SourceInv, NEW why, RefuseOpen(why)
  PROVE  SourceInv'
<1>1. /\ volumes' = <<>> /\ parts' = <<>> /\ cursor' = <<>>
      /\ chain' = ClosedChain /\ window' = ClosedWindow
      /\ answered' = Nothing /\ pc' = "idle"
      /\ handle' = handle /\ disk' = disk /\ size' = size
      /\ meddled' = meddled /\ bound' = bound
  BY DEF RefuseOpen, world, memo
<1>2. /\ volumes' \in Seq(DOMAIN disk') /\ parts' \in Seq(Parts)
      /\ cursor' \in Seq(Nat) /\ Len(cursor') = Len(parts') /\ Len(parts') = 0
      /\ Len(volumes') = 0 /\ TotalLen' = 0
  BY <1>1 DEF TotalLen
<1>3. /\ chain' \in [pos : Nat, synced : Nat]
      /\ window' \in [start : Nat, len : Nat, pos : Nat, inner_synced : BOOLEAN]
  BY <1>1 DEF ClosedChain, ClosedWindow, NoneSynced
<1>4. SourceTypes'
  <2>1. SourceTypes /\ "idle" \in PcValues
    BY DEF SourceInv, PcValues
  <2>2. Known' = Known
    BY <1>1 DEF Known
  <2>. QED
    BY <1>1, <1>2, <1>3, <2>1, <2>2 DEF SourceTypes
<1>5. Contiguous' /\ BoundHolds'
  BY <1>2, <1>1 DEF Contiguous, BoundHolds
<1>6. Course'
  BY <1>1, <1>2, WidthAssumption DEF Course, ClosedChain, ClosedWindow
<1>7. Synced'
  BY <1>1 DEF Synced, ClosedChain, ClosedWindow
<1>. QED
  BY <1>4, <1>5, <1>6, <1>7 DEF SourceInv

\* What was in a list is still there behind a new last member.
LEMMA PutBehind ==
  ASSUME NEW S, NEW s \in Seq(S), NEW e \in S
  PROVE  /\ Append(s, e) \in Seq(S) /\ Len(Append(s, e)) = Len(s) + 1
         /\ Append(s, e) # <<>> /\ Append(s, e)[Len(s) + 1] = e
         /\ \A i \in 1..Len(s) : Append(s, e)[i] = s[i]
  OBVIOUS

\* What an operation opens is named in its directory.
LEMMA OpenedAreNames ==
  ASSUME SourceTypes, NEW vs,
         vs = IF IsSet THEN PathsOf(Report.set) ELSE <<handle.path>>
  PROVE  vs \in Seq(DOMAIN disk)
<1>1. /\ DOMAIN disk \subseteq FileNames /\ IsFiniteSet(DOMAIN disk)
      /\ handle.path \in DOMAIN disk
  BY HandleTyped
<1>2. CASE ~IsSet
  BY <1>1, <1>2
<1>3. CASE IsSet
  <2>1. /\ Present \in SUBSET DOMAIN disk
        /\ Present \in SUBSET FileNames /\ IsFiniteSet(Present)
    <3>1. Present \in SUBSET DOMAIN disk
      BY DEF Present, Names
    <3>. QED
      BY <1>1, <3>1, FS_Subset
  <2>2. SetToSeq(Present) \in Seq(Present)
    BY <2>1, SetInOrder
  <2>3. PICK anchor : Report = build_report(SetToSeq(Present), anchor)
    BY DEF Report, parse_volume_set_for
  <2>4. Report.kind # "Unvolumed"
    BY <1>3 DEF IsSet
  <2>5. PathsOf(Report.set) \in Seq(Present)
    BY <2>1, <2>2, <2>3, <2>4, ReportedAreListed
  <2>. QED
    BY <1>3, <2>1, <2>5
<1>. QED
  BY <1>2, <1>3

\* An operation begins over nothing, and scans before it opens.
LEMMA OpeningKeeps ==
  ASSUME SourceInv, (\E o : Begin(o)) \/ ScanRefuses \/ Scan
  PROVE  SourceInv'
<1>1. CASE \E o : Begin(o)
  <2>1. PICK o : Begin(o)
    BY <1>1
  <2>2. CASE Drifted
    BY <2>1, <2>2, RefusalsKeep DEF Begin
  <2>3. CASE ~Drifted
    <3>1. /\ pc = "idle" /\ pc' = "scan"
          /\ UNCHANGED <<layered, world, memo, answered>>
      BY <2>1, <2>3 DEF Begin
    <3>2. SourceTypes'
      BY <3>1 DEF SourceInv, SourceTypes, Known, PcValues, layered, world, memo
    <3>3. Contiguous' /\ Synced' /\ TotalLen' = TotalLen
      BY <3>1 DEF SourceInv, Contiguous, Synced, layered, TotalLen
    <3>4. BoundHolds'
      BY <3>1 DEF BoundHolds
    <3>5. Course'
      BY <3>1, <3>3 DEF SourceInv, Course, layered
    <3>. QED
      BY <3>2, <3>3, <3>4, <3>5 DEF SourceInv
  <2>. QED
    BY <2>2, <2>3
<1>2. CASE ScanRefuses
  BY <1>2, RefusalsKeep DEF ScanRefuses
<1>3. CASE Scan
  <2>1. /\ pc = "scan" /\ pc' = "open"
        /\ volumes' = IF IsSet THEN PathsOf(Report.set) ELSE <<handle.path>>
        /\ UNCHANGED <<parts, cursor, chain, window, world, memo, answered>>
    BY <1>3 DEF Scan
  <2>2. volumes' \in Seq(DOMAIN disk) /\ disk' = disk
    BY <2>1, OpenedAreNames DEF SourceInv, world
  <2>3. parts = <<>> /\ Len(parts) = 0 /\ Len(volumes') \in Nat
    <3>1. parts = <<>>
      BY <2>1 DEF SourceInv, Course
    <3>2. PICK v : v = volumes'
      OBVIOUS
    <3>. QED
      BY <2>2, <3>1, <3>2
  <2>4. SourceTypes'
    BY <2>1, <2>2, <2>3
    DEF SourceInv, SourceTypes, Known, PcValues, world, memo
  <2>5. Contiguous' /\ Synced' /\ TotalLen' = TotalLen
    BY <2>1 DEF SourceInv, Contiguous, Synced, TotalLen
  <2>6. BoundHolds'
    BY <2>1, <2>3 DEF BoundHolds
  <2>7. Course'
    BY <2>1, <2>5 DEF SourceInv, Course
  <2>. QED
    BY <2>4, <2>5, <2>6, <2>7 DEF SourceInv
<1>. QED
  BY <1>1, <1>2, <1>3

\* A part is put behind the ones there are.
LEMMA PartsKeep ==
  ASSUME SourceInv, OpenPart
  PROVE  SourceInv'
<1> DEFINE n == Len(parts)
           name == volumes[n + 1]
           file == disk[name]
           part == [file |-> file, start |-> TotalLen, len |-> size[file]]
<1>1. SourceTypes /\ Contiguous /\ Course /\ Synced /\ BoundHolds
  BY DEF SourceInv
<1>2. /\ parts \in Seq(Parts) /\ n \in Nat /\ cursor \in Seq(Nat)
      /\ Len(cursor) = n /\ volumes \in Seq(DOMAIN disk)
      /\ Len(volumes) \in Nat
      /\ pc = "open" /\ n < Len(volumes)
  <2>1. /\ parts \in Seq(Parts) /\ cursor \in Seq(Nat)
        /\ Len(cursor) = Len(parts) /\ volumes \in Seq(DOMAIN disk)
    BY <1>1 DEF SourceTypes
  <2>2. Len(parts) \in Nat /\ Len(volumes) \in Nat
    BY <2>1
  <2>3. pc = "open" /\ Len(parts) < Len(volumes)
    BY DEF OpenPart
  <2>. QED
    BY <2>1, <2>2, <2>3
<1>3. name \in DOMAIN disk /\ file \in Known
  <2>1. n + 1 \in 1..Len(volumes)
    BY <1>2
  <2>2. name \in DOMAIN disk
    BY <1>2, <2>1
  <2>. QED
    BY <1>1, <2>2 DEF SourceTypes
<1>4. CASE file = Absent
  BY <1>4, RefusalsKeep DEF OpenPart
<1>5. CASE file # Absent /\ TotalLen + size[file] > U64Max
  BY <1>5, RefusalsKeep DEF OpenPart
<1>6. CASE file # Absent /\ ~(TotalLen + size[file] > U64Max)
  <2>1. /\ parts' = Append(parts, part) /\ cursor' = Append(cursor, 0)
        /\ UNCHANGED <<volumes, chain, window, world, memo, pc, answered>>
    BY <1>6 DEF OpenPart
  <2>2. TotalLen = EndOf(parts, n) /\ TotalLen \in Nat
    BY <1>2, TotalIsTheEnd
  <2>3. file \in Files /\ size[file] \in Nat
    <3>1. file \in Files
      BY <1>1, <1>3, <1>6, HandleTyped
    <3>. QED
      BY <1>1, <3>1 DEF SourceTypes
  <2>4. part \in Parts
    BY <2>2, <2>3 DEF Parts
  <2>5. /\ parts' \in Seq(Parts) /\ Len(parts') = n + 1
        /\ \A i \in 1..n : parts'[i] = parts[i]
        /\ parts'[n + 1] = part
        /\ parts' # <<>>
    <3> HIDE DEF part
    <3>. QED
      BY <1>2, <2>1, <2>4, PutBehind
  <2>6. /\ cursor' \in Seq(Nat) /\ Len(cursor') = n + 1
        /\ \A i \in 1..n : cursor'[i] = cursor[i]
    BY <1>2, <2>1, PutBehind
  <2> HIDE DEF n, part, file, name
  <2>7. SourceTypes'
    <3>1. /\ Len(cursor') = Len(parts') /\ Len(parts') <= Len(volumes')
          /\ parts' \in Seq(Parts) /\ cursor' \in Seq(Nat)
      BY <1>2, <2>1, <2>5, <2>6
    <3>2. /\ UNCHANGED <<handle, meddled, disk, size, bound, pc, volumes,
                         chain, window>>
      BY <2>1 DEF world, memo
    <3>. QED
      BY <1>1, <3>1, <3>2 DEF SourceTypes, Known
  <2>8. part.start = TotalLen /\ part.len = size[file] /\ part.file = file
    BY DEF part
  <2>9. TotalLen' = TotalLen + size[file]
    <3>1. TotalLen' = part.start + part.len
      BY <2>5 DEF TotalLen
    <3>. QED
      BY <2>8, <3>1
  <2>10. Contiguous'
    <3> SUFFICES ASSUME NEW i \in 1..(n + 1)
                 PROVE  parts'[i].start = EndOf(parts', i - 1)
      BY <2>5 DEF Contiguous
    <3>1. EndOf(parts', i - 1) = EndOf(parts, i - 1)
      <4>1. i = 1 \/ i - 1 \in 1..n
        BY <1>2
      <4>. QED
        BY <2>5, <4>1 DEF EndOf
    <3>2. CASE i \in 1..n
      BY <1>1, <2>5, <3>1, <3>2 DEF Contiguous, n
    <3>3. CASE i = n + 1
      <4>1. i - 1 = n
        BY <1>2, <3>3
      <4>. QED
        BY <2>2, <2>5, <2>8, <3>1, <3>3, <4>1
    <3>. QED
      BY <1>2, <3>2, <3>3
  <2>11. Course'
    <3>1. U64Max \in Nat /\ size[file] \in Nat /\ chain.pos \in Nat
      BY <1>1, <2>3, WidthAssumption DEF SourceTypes
    <3>2. TotalLen' <= U64Max /\ chain'.pos <= TotalLen'
      BY <1>1, <1>6, <2>1, <2>2, <2>9, <3>1 DEF Course
    <3>. QED
      BY <1>1, <1>2, <2>1, <3>2 DEF Course
  <2>12. Synced'
    BY <1>1, <1>2, <2>1, <2>5, <2>6 DEF Course, ClosedChain, ClosedWindow, Synced
  <2>13. BoundHolds'
    <3> SUFFICES ASSUME bound # Absent, disk[handle.path] = bound,
                        NEW i \in 1..(n + 1),
                        i \in DOMAIN volumes, volumes[i] = handle.path
                 PROVE  parts'[i].file = bound
      BY <2>1, <2>5 DEF BoundHolds, world, memo
    <3>1. CASE i \in 1..n
      BY <1>1, <1>2, <2>5, <3>1 DEF BoundHolds, n
    <3>2. CASE i = n + 1
      <4>1. file = bound
        BY <3>2 DEF file, name
      <4>. QED
        BY <2>5, <2>8, <3>2, <4>1
    <3>. QED
      BY <1>2, <3>1, <3>2
  <2>. QED
    BY <2>7, <2>10, <2>11, <2>12, <2>13 DEF SourceInv
<1>. QED
  BY <1>4, <1>5, <1>6

\* The window is put over all of the parts, and the archive parsed.
LEMMA ParsingKeeps ==
  ASSUME SourceInv, OpenWindow \/ ParseRefuses \/ Parse \/ Close
  PROVE  SourceInv'
<1>1. SourceTypes /\ Contiguous /\ Course /\ Synced /\ BoundHolds
  BY DEF SourceInv
<1>2. CASE OpenWindow
  <2>1. CASE handle.payload_offset > TotalLen
    BY <1>2, <2>1, RefusalsKeep DEF OpenWindow
  <2>2. CASE ~(handle.payload_offset > TotalLen)
    <3>1. /\ pc = "open" /\ pc' = "parse" /\ Len(parts) = Len(volumes)
          /\ window' = [start |-> handle.payload_offset,
                        len |-> TotalLen - handle.payload_offset,
                        pos |-> 0, inner_synced |-> FALSE]
          /\ UNCHANGED <<volumes, parts, cursor, chain, world, memo, answered>>
      BY <1>2, <2>2 DEF OpenWindow
    <3>2. handle.payload_offset \in Nat /\ TotalLen \in Nat
      BY <1>1, HandleTyped, TotalIsTheEnd DEF SourceTypes
    <3>3. /\ window' \in [start : Nat, len : Nat, pos : Nat,
                          inner_synced : BOOLEAN]
          /\ window'.start + window'.len = TotalLen
          /\ window'.pos = 0 /\ ~window'.inner_synced
      BY <2>2, <3>1, <3>2
    <3>4. SourceTypes'
      BY <1>1, <3>1, <3>3 DEF SourceTypes, Known, PcValues, world, memo
    <3>5. Contiguous' /\ TotalLen' = TotalLen
      BY <1>1, <3>1 DEF Contiguous, TotalLen
    <3>6. Course'
      BY <1>1, <3>1, <3>3, <3>5, WidthAssumption DEF Course
    <3>7. Synced'
      BY <1>1, <3>1, <3>3 DEF Synced
    <3>8. BoundHolds'
      BY <1>1, <3>1 DEF BoundHolds, world, memo
    <3>. QED
      BY <3>4, <3>5, <3>6, <3>7, <3>8 DEF SourceInv
  <2>. QED
    BY <2>1, <2>2
<1>3. CASE ParseRefuses
  BY <1>3, RefusalsKeep DEF ParseRefuses
<1>4. CASE Close
  BY <1>4, RefusalsKeep DEF Close
<1>5. CASE Parse
  <2>1. CASE FileIdentity # Bound
    BY <1>5, <2>1, RefusalsKeep DEF Parse
  <2>2. CASE FileIdentity = Bound
    <3>1. /\ pc = "parse" /\ pc' = "read" /\ bound' = Bound
          /\ UNCHANGED <<layered, world, answered>>
      BY <1>5, <2>2 DEF Parse
    <3>2. bound' \in Known
      <4>1. handle.path \in DOMAIN disk
        BY <1>1, HandleTyped
      <4>. QED
        BY <1>1, <3>1, <4>1 DEF SourceTypes, Bound, FileIdentity
    <3>3. SourceTypes'
      BY <1>1, <3>1, <3>2 DEF SourceTypes, Known, PcValues, world, layered
    <3>4. Contiguous' /\ TotalLen' = TotalLen /\ Synced'
      BY <1>1, <3>1 DEF Contiguous, TotalLen, Synced, layered
    <3>5. Course'
      BY <1>1, <3>1, <3>4 DEF Course, layered
    <3>6. BoundHolds'
      BY <3>1 DEF BoundHolds
    <3>. QED
      BY <3>3, <3>4, <3>5, <3>6 DEF SourceInv
  <2>. QED
    BY <2>1, <2>2
<1>. QED
  BY <1>2, <1>3, <1>4, <1>5

\* A seek moves the window's position, and nothing under it.
LEMMA SeeksKeep ==
  ASSUME SourceInv, pc = "read", UNCHANGED unmoved,
         \/ /\ answered' = Failed /\ UNCHANGED window
         \/ \E target \in 0..U64Max : set_pos(target)
  PROVE  SourceInv'
<1>1. SourceTypes /\ Contiguous /\ Course /\ Synced /\ BoundHolds
  BY DEF SourceInv
<1>2. UNCHANGED <<volumes, parts, cursor, chain, world, memo, pc>>
  BY DEF unmoved
<1>3. U64Max \in Nat
  BY WidthAssumption
<1>4. /\ window' \in [start : Nat, len : Nat, pos : Nat,
                      inner_synced : BOOLEAN]
      /\ window'.start = window.start /\ window'.len = window.len
      /\ window'.pos <= U64Max
      /\ window'.inner_synced =>
           window.inner_synced /\ window'.pos = window.pos
  <2>1. CASE UNCHANGED window
    BY <1>1, <2>1 DEF SourceTypes, Course
  <2>2. CASE \E target \in 0..U64Max : set_pos(target)
    <3>1. PICK target \in 0..U64Max : set_pos(target)
      BY <2>2
    <3>2. window' = [window EXCEPT !.pos = target,
                       !.inner_synced = @ /\ target = window.pos]
      BY <3>1 DEF set_pos
    <3>3. window \in [start : Nat, len : Nat, pos : Nat,
                      inner_synced : BOOLEAN]
      BY <1>1 DEF SourceTypes
    <3>4. PICK still \in BOOLEAN :
             /\ still = (window.inner_synced /\ target = window.pos)
             /\ window' = [window EXCEPT !.pos = target, !.inner_synced = still]
      BY <3>2
    <3>5. target \in Nat /\ target <= U64Max
      BY <1>3, <3>1
    <3>6. window' \in [start : Nat, len : Nat, pos : Nat,
                       inner_synced : BOOLEAN]
      BY <3>3, <3>4, <3>5
    <3>7. /\ window'.start = window.start /\ window'.len = window.len
          /\ window'.pos = target
      BY <3>3, <3>4
    <3>8. window'.inner_synced = still
      BY <3>3, <3>4
    <3>9. window'.inner_synced => window.inner_synced /\ target = window.pos
      BY <3>4, <3>8
    <3>. QED
      BY <3>5, <3>6, <3>7, <3>9
  <2>. QED
    BY <2>1, <2>2
<1>5. SourceTypes'
  BY <1>1, <1>2, <1>4 DEF SourceTypes, Known, PcValues, world, memo
<1>6. Contiguous' /\ TotalLen' = TotalLen
  BY <1>1, <1>2 DEF Contiguous, TotalLen
<1>7. Course'
  BY <1>1, <1>2, <1>4, <1>6 DEF Course
<1>8. Synced'
  BY <1>1, <1>2, <1>4 DEF Synced
<1>9. BoundHolds'
  BY <1>2 DEF BoundHolds
<1>. QED
  BY <1>5, <1>6, <1>7, <1>8, <1>9 DEF SourceInv

\* Others reach the files and the names, never the number of a file that was
\* there before them.
LEMMA OthersKeep ==
  ASSUME SourceInv, Replace \/ Delete \/ Shorten \/ Lengthen
  PROVE  SourceInv'
<1>1. SourceTypes /\ Contiguous /\ Course /\ Synced /\ BoundHolds
  BY DEF SourceInv
<1>2. /\ meddled < Meddles /\ meddled' = meddled + 1
      /\ UNCHANGED <<handle, layered, memo, pc, answered>>
  BY DEF Replace, Delete, Shorten, Lengthen, Meddle
<1>3. /\ FirstFresh \in Nat \ {0} /\ Meddles \in Nat /\ meddled \in Nat
      /\ handle.path \in DOMAIN disk
      /\ DOMAIN disk = DOMAIN handle.disk
      /\ FirstFresh + meddled \notin Known /\ Absent \in Known
      /\ FirstFresh + meddled \in Files
      /\ Known \subseteq Files \union {Absent}
  BY <1>1, <1>2, HandleTyped
<1>4. Known' = Known \union {FirstFresh + meddled}
  BY <1>2, <1>3 DEF Known
<1>5. bound' = bound /\ bound \in Known
  BY <1>1, <1>2 DEF SourceTypes, memo
<1>6. /\ disk' \in [DOMAIN disk -> Known'] /\ size' \in [Files -> Nat]
      /\ disk'[handle.path] \in
           {disk[handle.path], FirstFresh + meddled, Absent}
  <2>1. /\ disk \in [DOMAIN disk -> Known] /\ size \in [Files -> Nat]
    BY <1>1, <1>3 DEF SourceTypes
  <2>2. ASSUME NEW n \in Present PROVE disk[n] \in Files
    <3>1. n \in DOMAIN disk /\ disk[n] # Absent
      BY DEF Present, Names
    <3>. QED
      BY <1>3, <2>1, <3>1
  <2>3. CASE Replace
    <3>1. PICK n \in DOMAIN disk :
             /\ disk' = [disk EXCEPT ![n] = FirstFresh + meddled]
             /\ size' = [size EXCEPT ![FirstFresh + meddled] =
                           IF handle.disk[n] = Absent THEN 1
                           ELSE handle.size[handle.disk[n]]]
      BY <2>3 DEF Replace, Names
    <3>2. handle.disk[n] # Absent => handle.size[handle.disk[n]] \in Nat
      <4>1. /\ handle.disk \in [DOMAIN handle.disk -> 0..(FirstFresh - 1)]
            /\ handle.size \in [Files -> Nat]
        BY <1>1, StartAssumption DEF SourceTypes
      <4>2. handle.disk[n] \in 0..(FirstFresh - 1)
        BY <1>3, <3>1, <4>1
      <4>3. handle.disk[n] # Absent => handle.disk[n] \in Files
        BY <1>3, <4>2 DEF Files, Absent
      <4>. QED
        BY <4>1, <4>3
    <3>3. size' \in [Files -> Nat]
      <4>1. (IF handle.disk[n] = Absent THEN 1
             ELSE handle.size[handle.disk[n]]) \in Nat
        BY <3>2
      <4>. QED
        BY <2>1, <3>1, <4>1
    <3>. QED
      BY <1>3, <1>4, <2>1, <3>1, <3>3
  <2>4. CASE Delete
    BY <1>3, <1>4, <2>1, <2>4 DEF Delete, Present, Names
  <2>5. CASE Shorten
    <3>1. PICK n \in Present : /\ size[disk[n]] > 0
                               /\ size' = [size EXCEPT ![disk[n]] = @ - 1]
      BY <2>5 DEF Shorten
    <3>2. size[disk[n]] - 1 \in Nat
      BY <2>1, <2>2, <3>1
    <3>. QED
      BY <1>4, <2>1, <2>5, <3>1, <3>2 DEF Shorten
  <2>6. CASE Lengthen
    <3>1. PICK n \in Present : size' = [size EXCEPT ![disk[n]] = @ + 1]
      BY <2>6 DEF Lengthen
    <3>2. size[disk[n]] + 1 \in Nat
      BY <2>1, <2>2, <3>1
    <3>. QED
      BY <1>4, <2>1, <2>6, <3>1, <3>2 DEF Lengthen
  <2>. QED
    BY <2>3, <2>4, <2>5, <2>6
<1>7. SourceTypes'
  <2>1. DOMAIN disk' = DOMAIN disk /\ bound' \in Known'
    BY <1>4, <1>5, <1>6
  <2>2. meddled' \in 0..Meddles
    BY <1>2, <1>3
  <2>3. volumes' \in Seq(DOMAIN disk')
    BY <1>1, <1>2, <2>1 DEF SourceTypes, layered
  <2>. QED
    BY <1>1, <1>2, <1>3, <1>6, <2>1, <2>2, <2>3 DEF SourceTypes, layered
<1>8. Contiguous' /\ TotalLen' = TotalLen /\ Synced'
  BY <1>1, <1>2 DEF Contiguous, TotalLen, Synced, layered
<1>9. Course'
  BY <1>1, <1>2, <1>8 DEF Course, layered
<1>10. BoundHolds'
  <2>1. bound # Absent /\ disk'[handle.path] = bound =>
          disk[handle.path] = bound
    BY <1>3, <1>5, <1>6
  <2>. QED
    BY <1>1, <1>2, <1>5, <2>1 DEF BoundHolds, layered
<1>. QED
  BY <1>7, <1>8, <1>9, <1>10 DEF SourceInv

-----------------------------------------------------------------------------
(* Reading.                                                                *)

\* A position before the end is in one of the parts.
LEMMA PartAtPosition ==
  ASSUME SourceTypes, Contiguous, NEW pos \in Nat, pos < TotalLen
  PROVE  /\ part_at(pos) \in 1..Len(parts)
         /\ parts[part_at(pos)].start <= pos
         /\ pos < parts[part_at(pos)].start + parts[part_at(pos)].len
<1> DEFINE n == Len(parts)
           T == {i \in 1..n : parts[i].start <= pos}
<1>1. parts \in Seq(Parts) /\ n \in Nat /\ DOMAIN parts = 1..n
  BY DEF SourceTypes
<1>2. \A i \in 1..n : parts[i].start \in Nat /\ parts[i].len \in Nat
  <2> TAKE i \in 1..n
  <2>1. parts[i] \in Parts
    BY <1>1
  <2>. QED
    BY <2>1 DEF Parts
<1>3. n > 0 /\ parts # <<>> /\ TotalLen = parts[n].start + parts[n].len
  <2>1. parts # <<>>
    BY DEF TotalLen
  <2>. QED
    BY <1>1, <2>1 DEF TotalLen
<1>4. 1 \in T
  <2>1. parts[1].start = EndOf(parts, 0)
    BY <1>1, <1>3 DEF Contiguous
  <2>. QED
    BY <1>3, <2>1 DEF EndOf
<1>5. PICK top \in T : \A y \in T : top >= y
  <2> HIDE DEF n
  <2>. QED
    BY <1>1, <1>4, HasLast
<1>6. pos < parts[top].start + parts[top].len
  <2>1. CASE top = n
    BY <1>3, <2>1
  <2>2. CASE top # n
    <3>1. top + 1 \in 1..n /\ top \in 1..n /\ top + 1 \notin T
      <4>1. top \in 1..n
        BY <1>5
      <4>2. top + 1 \in 1..n /\ ~(top >= top + 1)
        BY <1>1, <2>2, <4>1
      <4>. QED
        BY <1>5, <4>1, <4>2
    <3>2. parts[top + 1].start = EndOf(parts, (top + 1) - 1)
      BY <3>1 DEF Contiguous
    <3>3. parts[top + 1].start = parts[top].start + parts[top].len
      BY <3>1, <3>2 DEF EndOf
    <3>4. ~(parts[top + 1].start <= pos)
      BY <3>1
    <3>5. PICK a : a = parts[top + 1].start
      OBVIOUS
    <3>6. a \in Nat
      BY <1>2, <3>1, <3>5
    <3>. QED
      BY <3>3, <3>4, <3>5, <3>6
  <2>. QED
    BY <2>1, <2>2
<1>7. \E i \in DOMAIN parts : /\ parts[i].len > 0
                              /\ pos >= parts[i].start
                              /\ pos < parts[i].start + parts[i].len
  <2>1. top \in 1..n /\ parts[top].start <= pos
    BY <1>5
  <2>2. parts[top].start \in Nat /\ parts[top].len \in Nat
    BY <1>2, <2>1
  <2>. QED
    BY <1>1, <1>6, <2>1, <2>2
<1>8. TotalLen \in Nat
  BY <1>1, <1>2, <1>3
<1>. QED
  BY <1>1, <1>7, <1>8 DEF part_at

LEMMA SmallerOfTwo ==
  ASSUME NEW m \in Int, NEW n \in Int
  PROVE  Smaller(m, n) \in Int /\ Smaller(m, n) <= m /\ Smaller(m, n) <= n
  BY DEF Smaller

\* The first k bytes of a part's file from `off`.
PartBytes(part, off, k) ==
    [kind |-> "bytes", bytes |-> [i \in 1..k |-> <<part.file, off + i - 1>>]]

\* What a read finds, k bytes of it: none of them when it failed.
Found(idx, off, k) ==
    /\ idx \in 1..Len(parts) /\ off \in Nat /\ k \in Nat
    /\ parts[idx].start + off = window.start + window.pos
    /\ off + k <= parts[idx].len /\ k <= window.len - window.pos
    /\ cursor' = [cursor EXCEPT ![idx] = off + k]
    /\ chain' = [pos |-> window.start + window.pos + k, synced |-> idx]
    /\ window' \in [start : Nat, len : Nat, pos : Nat, inner_synced : BOOLEAN]
    /\ window'.start = window.start /\ window'.len = window.len
    /\ window'.pos = window.pos + k
    /\ answered' = IF k = 0 THEN Failed ELSE PartBytes(parts[idx], off, k)

\* A read answers the end at the end, and else moves the descriptor, the
\* chain and the window by what it found.
LEMMA ReadFinds ==
  ASSUME SourceInv, NEW n \in Buffers, ReadSource(n)
  PROVE  \/ /\ window.pos >= window.len /\ answered' = AtEnd
            /\ UNCHANGED <<cursor, chain, window>>
         \/ \E idx \in 1..Len(parts), off \in Nat, k \in Nat :
               Found(idx, off, k)
<1> DEFINE c == SeekInner
           idx == part_at(c.pos)
           part == parts[idx]
           rest == Smaller(n, window.len - window.pos)
           want == Smaller(rest, part.start + part.len - c.pos)
           off == CursorAt(c, idx)
<1>1. SourceTypes /\ Contiguous /\ Course /\ Synced
  BY DEF SourceInv
<1>2. CASE window.pos >= window.len
  BY <1>2 DEF ReadSource
<1>3. CASE ~(window.pos >= window.len)
  <2>1. Delivers(c, idx, want, off) \/ Fails(c, idx, off)
    BY <1>3 DEF ReadSource
  <2>2. /\ window.start \in Nat /\ window.len \in Nat /\ window.pos \in Nat
        /\ window.inner_synced \in BOOLEAN
        /\ chain.pos \in Nat /\ chain.synced \in Nat
        /\ chain = [pos |-> chain.pos, synced |-> chain.synced]
        /\ n \in Nat /\ pc = "read"
    BY <1>1, BufferAssumption DEF SourceTypes, ReadSource
  <2>3. window.start + window.len = TotalLen
    BY <1>1, <2>2 DEF Course
  <2>4. /\ c.pos = window.start + window.pos
        /\ c = chain \/ c.synced = NoneSynced
    <3>1. CASE window.inner_synced
      BY <1>1, <3>1 DEF SeekInner, Synced
    <3>2. CASE ~window.inner_synced
      BY <2>2, <3>2 DEF SeekInner, ChainAt
    <3>. QED
      BY <3>1, <3>2
  <2>5. c.pos \in Nat /\ c.pos < TotalLen
    BY <1>3, <2>2, <2>3, <2>4
  <2> HIDE DEF c
  <2>6. /\ idx \in 1..Len(parts) /\ part.start <= c.pos
        /\ c.pos < part.start + part.len
    BY <1>1, <2>5, PartAtPosition
  <2>7. part.start \in Nat /\ part.len \in Nat /\ part \in Parts
    <3>1. parts \in Seq(Parts)
      BY <1>1 DEF SourceTypes
    <3>2. part \in Parts
      BY <2>6, <3>1
    <3>. QED
      BY <3>2 DEF Parts
  <2> HIDE DEF idx
  <2>8. off = c.pos - part.start
    <3>1. CASE c.synced = idx
      <4>1. idx # NoneSynced
        BY <2>6 DEF NoneSynced
      <4>2. c = chain
        BY <2>4, <3>1, <4>1
      <4>. QED
        BY <1>1, <3>1, <4>1, <4>2 DEF CursorAt, Synced
    <3>2. CASE c.synced # idx
      BY <3>2 DEF CursorAt
    <3>. QED
      BY <3>1, <3>2
  <2> HIDE DEF off, part
  <2>9. off \in Nat /\ off < part.len /\ part.start + off = c.pos
    BY <2>5, <2>6, <2>7, <2>8
  <2>10. window \in [start : Nat, len : Nat, pos : Nat, inner_synced : BOOLEAN]
    BY <1>1 DEF SourceTypes
  <2>11. CASE Fails(c, idx, off)
    <3>1. /\ answered' = Failed /\ cursor' = [cursor EXCEPT ![idx] = off]
          /\ chain' = [pos |-> c.pos, synced |-> idx]
          /\ window' = [window EXCEPT !.inner_synced = FALSE]
      BY <2>11 DEF Fails
    <3>2. /\ window' \in [start : Nat, len : Nat, pos : Nat,
                          inner_synced : BOOLEAN]
          /\ window'.start = window.start /\ window'.len = window.len
          /\ window'.pos = window.pos
      BY <2>10, <3>1
    <3>3. off + 0 = off /\ c.pos + 0 = c.pos /\ window.pos + 0 = window.pos
      BY <2>2, <2>5, <2>9
    <3>4. off + 0 <= part.len /\ 0 <= window.len - window.pos
      BY <1>3, <2>2, <2>7, <2>9
    <3>5. chain' = [pos |-> window.start + window.pos + 0, synced |-> idx]
      BY <2>4, <3>1, <3>3
    <3>6. Found(idx, off, 0)
      BY <2>4, <2>6, <2>9, <3>1, <3>2, <3>3, <3>4, <3>5 DEF Found, part
    <3>. QED
      BY <2>6, <2>9, <3>6
  <2>12. CASE Delivers(c, idx, want, off)
    <3>1. PICK k \in 1..Smaller(want, size[part.file] - off) :
             /\ answered' = PartBytes(part, off, k)
             /\ cursor' = [cursor EXCEPT ![idx] = off + k]
             /\ chain' = [pos |-> c.pos + k, synced |-> idx]
             /\ window' = [window EXCEPT !.pos = @ + k, !.inner_synced = TRUE]
      BY <2>12 DEF Delivers, PartBytes, part
    <3>2. size[part.file] \in Nat
      <4>1. size \in [Files -> Nat] /\ part.file \in Files
        BY <1>1, <2>7 DEF SourceTypes, Parts
      <4>. QED
        BY <4>1
    <3>3. /\ rest \in Int /\ rest <= window.len - window.pos
          /\ want \in Int /\ want <= rest
          /\ want <= part.start + part.len - c.pos
      BY <2>2, <2>5, <2>7, SmallerOfTwo
    <3> HIDE DEF rest, want
    <3>4. k \in Nat /\ k > 0 /\ k <= want
      BY <2>9, <3>1, <3>2, <3>3, SmallerOfTwo
    <3>5. off + k <= part.len /\ k <= window.len - window.pos
      BY <2>2, <2>5, <2>7, <2>9, <3>3, <3>4
    <3>6. /\ window' \in [start : Nat, len : Nat, pos : Nat,
                          inner_synced : BOOLEAN]
          /\ window'.start = window.start /\ window'.len = window.len
          /\ window'.pos = window.pos + k
      <4>1. PICK a : a = window.pos + k
        OBVIOUS
      <4>2. a \in Nat /\ window' = [window EXCEPT !.pos = a,
                                                  !.inner_synced = TRUE]
        BY <2>2, <3>1, <3>4, <4>1
      <4>. QED
        BY <2>10, <4>1, <4>2
    <3>7. answered' = IF k = 0 THEN Failed ELSE PartBytes(part, off, k)
      BY <3>1, <3>4
    <3>8. Found(idx, off, k)
      BY <2>4, <2>6, <2>9, <3>1, <3>4, <3>5, <3>6, <3>7 DEF Found, part
    <3>. QED
      BY <2>6, <2>9, <3>4, <3>8
  <2>. QED
    BY <2>1, <2>11, <2>12
<1>. QED
  BY <1>2, <1>3

\* Reading moves the window, the chain and one descriptor together.
LEMMA ReadsKeep ==
  ASSUME SourceInv, NEW n \in Buffers, ReadSource(n)
  PROVE  SourceInv'
<1>1. SourceTypes /\ Contiguous /\ Course /\ Synced /\ BoundHolds
  BY DEF SourceInv
<1>2. pc = "read" /\ UNCHANGED <<volumes, parts, world, memo, pc>>
  BY DEF ReadSource
<1>3. Contiguous' /\ TotalLen' = TotalLen /\ BoundHolds'
  BY <1>1, <1>2 DEF Contiguous, TotalLen, BoundHolds
<1>4. CASE UNCHANGED <<cursor, chain, window>>
  <2>1. SourceTypes'
    BY <1>1, <1>2, <1>4 DEF SourceTypes, Known, world, memo
  <2>2. Course'
    BY <1>1, <1>2, <1>3, <1>4 DEF Course
  <2>3. Synced'
    BY <1>1, <1>2, <1>4 DEF Synced
  <2>. QED
    BY <1>3, <2>1, <2>2, <2>3 DEF SourceInv
<1>5. CASE \E idx \in 1..Len(parts), off \in Nat, k \in Nat : Found(idx, off, k)
  <2>1. PICK idx \in 1..Len(parts), off \in Nat, k \in Nat : Found(idx, off, k)
    BY <1>5
  <2>2. /\ parts \in Seq(Parts) /\ cursor \in Seq(Nat)
        /\ Len(cursor) = Len(parts) /\ Len(parts) \in Nat
        /\ window.start \in Nat /\ window.len \in Nat /\ window.pos \in Nat
    BY <1>1 DEF SourceTypes
  <2>3. parts[idx].start \in Nat /\ parts[idx].len \in Nat
    <3>1. parts[idx] \in Parts
      BY <2>2
    <3>. QED
      BY <3>1 DEF Parts
  <2>4. window.start + window.len = TotalLen /\ TotalLen <= U64Max
        /\ U64Max \in Nat /\ TotalLen \in Nat
    BY <1>1, <1>2, <2>2, WidthAssumption, TotalIsTheEnd DEF Course
  <2>5. /\ cursor' \in Seq(Nat) /\ Len(cursor') = Len(cursor)
        /\ cursor'[idx] = off + k
    <3>1. cursor' = [cursor EXCEPT ![idx] = off + k] /\ off + k \in Nat
      BY <2>1 DEF Found
    <3>2. cursor \in [1..Len(cursor) -> Nat]
      BY <2>2
    <3>3. PICK m \in Nat : m = Len(cursor)
      BY <2>2
    <3>4. cursor' \in [1..m -> Nat] /\ cursor'[idx] = off + k
      BY <2>2, <3>1, <3>2, <3>3
    <3>5. cursor' \in Seq(Nat) /\ Len(cursor') = m
      BY <3>4
    <3>. QED
      BY <3>3, <3>4, <3>5
  <2>6. /\ chain' = [pos |-> window.start + window.pos + k, synced |-> idx]
        /\ parts[idx].start + off = window.start + window.pos
        /\ k <= window.len - window.pos
        /\ window' \in [start : Nat, len : Nat, pos : Nat,
                        inner_synced : BOOLEAN]
        /\ window'.start = window.start /\ window'.len = window.len
        /\ window'.pos = window.pos + k
    BY <2>1 DEF Found
  <2>7. /\ chain'.pos = window.start + window.pos + k /\ chain'.synced = idx
        /\ chain' \in [pos : Nat, synced : Nat]
    <3>1. PICK q : q = window.start + window.pos + k
      OBVIOUS
    <3>2. q \in Nat /\ idx \in Nat
      BY <2>2, <3>1
    <3>3. chain' = [pos |-> q, synced |-> idx]
      BY <2>6, <3>1
    <3>. QED
      BY <3>1, <3>2, <3>3
  <2>8. /\ chain'.pos <= TotalLen
        /\ chain'.pos = window'.start + window'.pos
        /\ parts[idx].start <= chain'.pos
        /\ off + k = chain'.pos - parts[idx].start
        /\ window'.pos <= U64Max
    <3>1. PICK start, len, pos, below :
             /\ start = window.start /\ len = window.len /\ pos = window.pos
             /\ below = parts[idx].start
      OBVIOUS
    <3>2. /\ start \in Nat /\ len \in Nat /\ pos \in Nat /\ below \in Nat
          /\ start + len = TotalLen /\ below + off = start + pos
          /\ k <= len - pos
      BY <2>2, <2>3, <2>4, <2>6, <3>1
    <3>3. /\ chain'.pos = start + pos + k /\ window'.pos = pos + k
          /\ window'.start = start
      BY <2>6, <2>7, <3>1
    <3>4. /\ start + pos + k <= TotalLen /\ start + pos + k = start + (pos + k)
          /\ below <= start + pos + k /\ off + k = (start + pos + k) - below
          /\ pos + k <= U64Max
      BY <2>4, <3>2
    <3>. QED
      BY <3>1, <3>3, <3>4
  <2>9. SourceTypes'
    BY <1>1, <1>2, <2>5, <2>6, <2>7 DEF SourceTypes, Known, world, memo
  <2>10. Course'
    BY <1>1, <1>2, <1>3, <2>6, <2>8 DEF Course
  <2>11. Synced'
    BY <1>2, <2>5, <2>7, <2>8 DEF Synced
  <2>. QED
    BY <1>3, <2>9, <2>10, <2>11 DEF SourceInv
<1>. QED
  BY <1>4, <1>5, ReadFinds

-----------------------------------------------------------------------------
(* What is measured is what is read.                                       *)

\* A part ends before the next begins, and before any later one.
LEMMA PartsInOrder ==
  ASSUME SourceTypes, Contiguous, NEW i \in 1..Len(parts),
         NEW j \in 1..Len(parts), i < j
  PROVE  parts[i].start + parts[i].len <= parts[j].start
<1> DEFINE n == Len(parts)
           T == {k \in 1..n : i < k /\
                   ~(parts[i].start + parts[i].len <= parts[k].start)}
<1>1. parts \in Seq(Parts) /\ n \in Nat
  BY DEF SourceTypes
<1>2. \A k \in 1..n : parts[k].start \in Nat /\ parts[k].len \in Nat
  <2> TAKE k \in 1..n
  <2>1. parts[k] \in Parts
    BY <1>1
  <2>. QED
    BY <2>1 DEF Parts
<1>3. ASSUME NEW k \in 1..n, k - 1 \in 1..n
      PROVE  parts[k].start = parts[k - 1].start + parts[k - 1].len
  BY <1>3 DEF Contiguous, EndOf
<1>4. T = {}
  <2> SUFFICES ASSUME T # {} PROVE FALSE
    OBVIOUS
  <2>1. T \in SUBSET Nat
    OBVIOUS
  <2>2. PICK k \in T : \A y \in T : k <= y
    <3> HIDE DEF T
    <3>. QED
      BY <2>1, HasLeast
  <2>3. /\ k \in 1..n /\ i < k
        /\ ~(parts[i].start + parts[i].len <= parts[k].start)
    BY <2>2
  <2>4. k - 1 \in 1..n /\ i <= k - 1 /\ k - 1 < k
    BY <1>1, <2>3
  <2>5. parts[k].start = parts[k - 1].start + parts[k - 1].len
    BY <1>3, <2>3, <2>4
  <2>6. CASE i = k - 1
    BY <1>2, <2>3, <2>5, <2>6
  <2>7. CASE i < k - 1
    <3>1. k - 1 \notin T
      BY <2>2, <2>4
    <3>2. parts[i].start + parts[i].len <= parts[k - 1].start
      BY <2>4, <2>7, <3>1
    <3>3. PICK a, b, c, d : /\ a = parts[i].start + parts[i].len
                            /\ b = parts[k - 1].start
                            /\ c = parts[k - 1].len /\ d = parts[k].start
      OBVIOUS
    <3>4. a \in Nat /\ b \in Nat /\ c \in Nat
      <4>1. /\ parts[i].start \in Nat /\ parts[i].len \in Nat
            /\ parts[k - 1].start \in Nat /\ parts[k - 1].len \in Nat
        BY <1>2, <2>4
      <4>2. PICK x \in Nat, y \in Nat :
               x = parts[i].start /\ y = parts[i].len
        BY <4>1
      <4>3. x + y \in Nat
        OBVIOUS
      <4>. QED
        BY <3>3, <4>1, <4>2, <4>3, Zenon
    <3>5. a <= b
      BY <3>2, <3>3
    <3>6. d = b + c
      BY <2>5, <3>3
    <3>7. ~(a <= d)
      BY <2>3, <3>3
    <3>. QED
      BY <3>4, <3>5, <3>6, <3>7
  <2>. QED
    BY <2>3, <2>4, <2>6, <2>7
<1>. QED
  BY <1>4

\* A position is in the only part that holds it.
LEMMA PartIsItsOwn ==
  ASSUME SourceTypes, Contiguous, NEW i \in 1..Len(parts),
         NEW j \in 0..(parts[i].len - 1), parts[i].start + j < TotalLen
  PROVE  part_at(parts[i].start + j) = i
<1> DEFINE pos == parts[i].start + j
           k == part_at(pos)
<1>1. parts \in Seq(Parts) /\ Len(parts) \in Nat
  BY DEF SourceTypes
<1>2. \A m \in 1..Len(parts) : parts[m].start \in Nat /\ parts[m].len \in Nat
  <2> TAKE m \in 1..Len(parts)
  <2>1. parts[m] \in Parts
    BY <1>1
  <2>. QED
    BY <2>1 DEF Parts
<1>3. pos \in Nat /\ pos < parts[i].start + parts[i].len
      /\ parts[i].start <= pos
  BY <1>2
<1>4. pos < TotalLen
  OBVIOUS
<1> HIDE DEF pos
<1>5. /\ k \in 1..Len(parts) /\ parts[k].start <= pos
      /\ pos < parts[k].start + parts[k].len
  BY <1>3, <1>4, PartAtPosition
<1> HIDE DEF k
<1>6. ~(i < k)
  <2> SUFFICES ASSUME i < k PROVE FALSE
    OBVIOUS
  <2>1. parts[i].start + parts[i].len <= parts[k].start
    BY <1>5, PartsInOrder
  <2>2. PICK e, b : e = parts[i].start + parts[i].len /\ b = parts[k].start
    OBVIOUS
  <2>3. pos < e /\ e <= b /\ b <= pos
    BY <1>3, <1>5, <2>1, <2>2
  <2>4. e \in Nat /\ b \in Nat /\ pos \in Nat
    BY <1>2, <1>3, <1>5, <2>2
  <2>. QED
    BY <2>3, <2>4
<1>7. ~(k < i)
  <2> SUFFICES ASSUME k < i PROVE FALSE
    OBVIOUS
  <2>1. parts[k].start + parts[k].len <= parts[i].start
    BY <1>5, PartsInOrder
  <2>2. PICK e, b : e = parts[k].start + parts[k].len /\ b = parts[i].start
    OBVIOUS
  <2>3. pos < e /\ e <= b /\ b <= pos
    BY <1>3, <1>5, <2>1, <2>2
  <2>4. e \in Nat /\ b \in Nat /\ pos \in Nat
    BY <1>2, <1>3, <1>5, <2>2
  <2>. QED
    BY <2>3, <2>4
<1>8. k = i
  BY <1>5, <1>6, <1>7
<1>. QED
  BY <1>8 DEF k, pos

\* The byte before position p, and the bytes of the first n parts.
ByteBefore(p) == LET i == part_at(p - 1)
                 IN <<parts[i].file, p - 1 - parts[i].start>>
BytesUpTo(n) == [p \in 1..EndOf(parts, n) |-> ByteBefore(p)]

\* The bytes of a part, as they are put behind those before it.
RunOf(n) == [i \in 1..parts[n].len |-> <<parts[n].file, i - 1>>]

\* Lists joined are the list that has both.
LEMMA JoinedLists ==
  ASSUME NEW S, NEW a \in Nat, NEW b \in Nat,
         NEW s \in [1..a -> S], NEW t \in [1..b -> S],
         NEW w \in [1..(a + b) -> S],
         \A i \in 1..a : w[i] = s[i], \A i \in 1..b : w[a + i] = t[i]
  PROVE  w = s \o t
<1>1. /\ s \in Seq(S) /\ t \in Seq(S) /\ w \in Seq(S)
      /\ Len(s) = a /\ Len(t) = b /\ Len(w) = a + b
  OBVIOUS
<1>2. /\ s \o t \in Seq(S) /\ Len(s \o t) = a + b
      /\ \A i \in 1..(a + b) :
           (s \o t)[i] = IF i <= a THEN s[i] ELSE t[i - a]
  BY <1>1, ConcatProperties
<1>3. \A i \in 1..Len(w) : w[i] = (s \o t)[i]
  <2> TAKE i \in 1..Len(w)
  <2>1. i \in 1..(a + b)
    BY <1>1
  <2>2. CASE i <= a
    BY <1>2, <2>1, <2>2
  <2>3. CASE ~(i <= a)
    <3>1. i - a \in 1..b /\ a + (i - a) = i
      BY <2>1, <2>3
    <3>2. w[a + (i - a)] = t[i - a]
      BY <3>1
    <3>. QED
      BY <1>2, <2>1, <2>3, <3>1, <3>2
  <2>. QED
    BY <2>2, <2>3
<1>. QED
  BY <1>1, <1>2, <1>3, SeqEqual

\* The parts up to the n-th, then the n-th.
LEMMA BytesGrow ==
  ASSUME SourceTypes, Contiguous, NEW n \in 1..Len(parts)
  PROVE  BytesUpTo(n) = BytesUpTo(n - 1) \o RunOf(n)
<1> DEFINE a == EndOf(parts, n - 1)
           b == parts[n].len
           S == Files \X Int
<1>1. parts \in Seq(Parts) /\ Len(parts) \in Nat
  BY DEF SourceTypes
<1>2. \A m \in 1..Len(parts) : /\ parts[m].start \in Nat /\ parts[m].len \in Nat
                               /\ parts[m].file \in Files
  <2> TAKE m \in 1..Len(parts)
  <2>1. parts[m] \in Parts
    BY <1>1
  <2>. QED
    BY <2>1 DEF Parts
<1>3. a \in Nat /\ b \in Nat /\ parts[n].start = a /\ EndOf(parts, n) = a + b
  <2>1. n - 1 \in 0..Len(parts) /\ n # 0
    BY <1>1
  <2>2. a \in Nat
    BY <1>1, <2>1, TotalIsTheEnd
  <2>3. parts[n].start = a
    BY DEF Contiguous
  <2>. QED
    BY <1>2, <2>1, <2>2, <2>3 DEF EndOf
<1>4. a + b <= TotalLen /\ TotalLen \in Nat
  <2>1. TotalLen = EndOf(parts, Len(parts)) /\ TotalLen \in Nat
    BY <1>1, TotalIsTheEnd
  <2>2. CASE n = Len(parts)
    BY <1>3, <2>1, <2>2
  <2>3. CASE n < Len(parts)
    <3>1. Len(parts) \in 1..Len(parts)
      BY <1>1, <2>3
    <3>2. parts[n].start + parts[n].len <= parts[Len(parts)].start
      BY <2>3, <3>1, PartsInOrder
    <3>3. TotalLen = parts[Len(parts)].start + parts[Len(parts)].len
      BY <2>1, <3>1 DEF EndOf
    <3>. QED
      BY <1>2, <1>3, <2>1, <3>1, <3>2, <3>3
  <2>. QED
    BY <1>1, <2>2, <2>3
<1>5. ASSUME NEW p \in 1..(a + b) PROVE ByteBefore(p) \in S
  <2>1. p - 1 \in Nat /\ p - 1 < TotalLen
    BY <1>3, <1>4
  <2>2. part_at(p - 1) \in 1..Len(parts)
    BY <2>1, PartAtPosition
  <2>. QED
    BY <1>2, <2>1, <2>2 DEF ByteBefore
<1>6. ASSUME NEW i \in 1..b PROVE ByteBefore(a + i) = RunOf(n)[i]
  <2>1. /\ (a + i) - 1 = parts[n].start + (i - 1)
        /\ i - 1 \in 0..(parts[n].len - 1)
        /\ parts[n].start + (i - 1) < TotalLen
        /\ ((a + i) - 1) - parts[n].start = i - 1
    BY <1>3, <1>4
  <2>2. part_at(parts[n].start + (i - 1)) = n
    BY <2>1, PartIsItsOwn
  <2>3. part_at((a + i) - 1) = n
    BY <2>1, <2>2
  <2>. QED
    BY <2>1, <2>3 DEF ByteBefore, RunOf
<1>7. /\ BytesUpTo(n) \in [1..(a + b) -> S]
      /\ BytesUpTo(n - 1) \in [1..a -> S]
      /\ RunOf(n) \in [1..b -> S]
  <2>1. 1..a \subseteq 1..(a + b)
    BY <1>3
  <2>2. BytesUpTo(n) \in [1..(a + b) -> S]
    BY <1>3, <1>5 DEF BytesUpTo
  <2>3. BytesUpTo(n - 1) \in [1..a -> S]
    BY <1>5, <2>1 DEF BytesUpTo
  <2>. QED
    BY <1>2, <1>3, <2>2, <2>3 DEF RunOf
<1>8. \A i \in 1..a : BytesUpTo(n)[i] = BytesUpTo(n - 1)[i]
  <2>1. 1..a \subseteq 1..(a + b)
    BY <1>3
  <2>. QED
    BY <1>3, <2>1 DEF BytesUpTo
<1>9. \A i \in 1..b : BytesUpTo(n)[a + i] = RunOf(n)[i]
  <2>1. \A i \in 1..b : a + i \in 1..(a + b)
    BY <1>3
  <2>2. \A i \in 1..b : BytesUpTo(n)[a + i] = ByteBefore(a + i)
    BY <1>3, <2>1 DEF BytesUpTo
  <2>. QED
    BY <1>6, <2>2
<1>10. a \in Nat /\ b \in Nat
  BY <1>3
<1> HIDE DEF a, b, S
<1>11. PICK s \in [1..a -> S], t \in [1..b -> S], w \in [1..(a + b) -> S] :
          s = BytesUpTo(n - 1) /\ t = RunOf(n) /\ w = BytesUpTo(n)
  BY <1>7
<1>12. \A i \in 1..a : w[i] = s[i]
  BY <1>8, <1>11
<1>13. \A i \in 1..b : w[a + i] = t[i]
  BY <1>9, <1>11
<1>14. w = s \o t
  BY <1>10, <1>12, <1>13, JoinedLists, SMTT(30)
<1>. QED
  BY <1>11, <1>14

\* What was measured is one list of bytes, as long as all of the parts.
LEMMA MeasuredBytes ==
  ASSUME SourceTypes, Contiguous
  PROVE  Measured = [p \in 1..TotalLen |-> ByteBefore(p)]
<1> DEFINE n == Len(parts)
           Joins(f) == f = [m \in 0..n |-> IF m = 0 THEN <<>>
                                           ELSE f[m - 1] \o RunOf(m)]
           w == [m \in 0..n |-> BytesUpTo(m)]
           u == CHOOSE f : Joins(f)
<1>1. n \in Nat /\ TotalLen = EndOf(parts, n)
  <2>1. parts \in Seq(Parts) /\ n \in Nat
    BY DEF SourceTypes
  <2>. QED
    BY <2>1, TotalIsTheEnd
<1>2. BytesUpTo(0) = <<>>
  BY DEF BytesUpTo, EndOf
<1>3. Joins(w)
  <2>1. \A m \in 0..n : BytesUpTo(m) =
          IF m = 0 THEN <<>> ELSE w[m - 1] \o RunOf(m)
    <3> TAKE m \in 0..n
    <3>1. CASE m = 0
      BY <1>2, <3>1
    <3>2. CASE m # 0
      <4>1. m \in 1..n /\ m - 1 \in 0..n
        BY <1>1, <3>2
      <4>2. w[m - 1] = BytesUpTo(m - 1)
        BY <4>1
      <4> HIDE DEF w
      <4>. QED
        BY <3>2, <4>1, <4>2, BytesGrow
    <3>. QED
      BY <3>1, <3>2
  <2>. QED
    BY <2>1
<1>4. Joins(u)
  <2> HIDE DEF w, Joins
  <2>. QED
    BY <1>3
<1>5. Measured = u[n]
  BY DEF Measured, RunOf
<1>6. \A m \in 0..n : u[m] = w[m]
  <2> DEFINE T == {m \in 0..n : u[m] # w[m]}
  <2>1. \A m \in 0..n : /\ u[m] = IF m = 0 THEN <<>> ELSE u[m - 1] \o RunOf(m)
                        /\ w[m] = IF m = 0 THEN <<>> ELSE w[m - 1] \o RunOf(m)
    <3>1. ASSUME NEW f, Joins(f)
          PROVE  \A m \in 0..n :
                   f[m] = IF m = 0 THEN <<>> ELSE f[m - 1] \o RunOf(m)
      BY <3>1
    <3> HIDE DEF Joins, u, w
    <3>. QED
      BY <1>3, <1>4, <3>1
  <2> HIDE DEF u, w
  <2>2. T = {}
    <3> SUFFICES ASSUME T # {} PROVE FALSE
      OBVIOUS
    <3>1. T \in SUBSET Nat
      OBVIOUS
    <3>2. PICK m \in T : \A y \in T : m <= y
      <4> HIDE DEF T
      <4>. QED
        BY <3>1, HasLeast
    <3>3. m \in 0..n /\ u[m] # w[m]
      BY <3>2
    <3>4. m # 0
      BY <2>1, <3>3
    <3>5. m - 1 \in 0..n /\ m - 1 \notin T
      <4>1. m - 1 \in 0..n /\ ~(m <= m - 1)
        BY <1>1, <3>3, <3>4
      <4>. QED
        BY <3>2, <4>1
    <3>6. u[m - 1] = w[m - 1]
      BY <3>5
    <3>. QED
      BY <2>1, <3>3, <3>4, <3>6
  <2>. QED
    BY <2>2
<1>7. w[n] = BytesUpTo(n)
  BY <1>1
<1> HIDE DEF u, w
<1>. QED
  BY <1>1, <1>5, <1>6, <1>7 DEF BytesUpTo

-----------------------------------------------------------------------------
(* The theorems.                                                           *)

\* Every step keeps all of it.
LEMMA SourceKeeps ==
  ASSUME SourceInv, [SourceNext]_sourceVars
  PROVE  SourceInv'
<1>1. CASE \E o \in {"list", "extract"} : Begin(o)
  BY <1>1, OpeningKeeps
<1>2. CASE ScanRefuses \/ Scan
  BY <1>2, OpeningKeeps
<1>3. CASE OpenPart
  BY <1>3, PartsKeep
<1>4. CASE OpenWindow \/ ParseRefuses \/ Parse \/ Close
  BY <1>4, ParsingKeeps
<1>5. CASE \E n \in Buffers : ReadSource(n)
  BY <1>5, ReadsKeep
<1>6. CASE \E offset \in 0..U64Max : SeekStart(offset)
  BY <1>6, SeeksKeep DEF SeekStart
<1>7. CASE \E delta \in Deltas : SeekCurrent(delta) \/ SeekEnd(delta)
  <2>1. PICK base, delta : SeekFrom(base, delta)
    BY <1>7 DEF SeekCurrent, SeekEnd
  <2>. QED
    BY <2>1, SeeksKeep DEF SeekFrom
<1>8. CASE Replace \/ Delete \/ Shorten \/ Lengthen
  BY <1>8, OthersKeep
<1>9. CASE UNCHANGED sourceVars
  <2>1. UNCHANGED <<layered, handle, disk, size, meddled, bound, pc, answered>>
    BY <1>9 DEF sourceVars, world, memo
  <2>2. SourceTypes'
    BY <2>1 DEF SourceInv, SourceTypes, Known, PcValues, layered
  <2>3. Contiguous' /\ Synced' /\ TotalLen' = TotalLen /\ BoundHolds'
    BY <2>1
    DEF SourceInv, Contiguous, Synced, TotalLen, BoundHolds, layered
  <2>4. Course'
    BY <2>1, <2>3 DEF SourceInv, Course, layered
  <2>. QED
    BY <2>2, <2>3, <2>4 DEF SourceInv
<1>. QED
  BY <1>1, <1>2, <1>3, <1>4, <1>5, <1>6, <1>7, <1>8, <1>9 DEF SourceNext

\* Whatever is scanned, opened, read and sought, and whatever others do to
\* the directory, the window, the chain and the descriptors keep their types
\* and the positions they believe each other to have (payload_window.rs,
\* volume_chain.rs).
THEOREM SourceTypeCorrect == SourceSpec => []SourceTypeOK
<1>1. SourceInv => SourceTypeOK
  <2> SUFFICES ASSUME SourceInv PROVE SourceTypeOK
    OBVIOUS
  <2>1. SourceTypes /\ Contiguous /\ Course /\ Synced
    BY DEF SourceInv
  <2>2. /\ disk \in [Names -> Files \union {Absent}]
        /\ bound \in Files \union {Absent}
    BY <2>1, HandleTyped DEF SourceTypes, Names
  <2>3. /\ parts \in Seq(Parts) /\ DOMAIN parts = 1..Len(parts)
        /\ TotalLen \in Nat /\ U64Max \in Nat
    BY <2>1, TotalIsTheEnd, WidthAssumption DEF SourceTypes
  <2>4. /\ window.pos \in 0..U64Max /\ chain.pos \in 0..TotalLen
        /\ chain.synced \in DOMAIN parts \union {NoneSynced}
    BY <2>1, <2>3 DEF SourceTypes, Course, Synced
  <2>. QED
    BY <2>1, <2>2, <2>4 DEF SourceTypeOK, SourceTypes, Synced
<1>. QED
  BY <1>1, SourceStarts, SourceKeeps, PTL DEF SourceSpec

\* Once a first operation has bound the handle, a source is handed to a reader
\* only when the part opened under the handle's own name is the bound file,
\* whatever was renamed while the source was opened again
\* (SevenZArchive::bind_or_check_identity).
THEOREM SourceIsBound == SourceSpec => ReaderIsBound
<1> DEFINE HandedBound == pc = "parse" /\ pc' = "read" /\ bound # Absent =>
              \A i \in DOMAIN volumes :
                volumes[i] = handle.path => parts[i].file = bound
<1>1. SourceInv /\ [SourceNext]_sourceVars => HandedBound
  <2> SUFFICES ASSUME SourceInv, [SourceNext]_sourceVars,
                      pc = "parse", pc' = "read", bound # Absent,
                      NEW i \in DOMAIN volumes, volumes[i] = handle.path
               PROVE  parts[i].file = bound
    OBVIOUS
  <2>1. Parse
    BY DEF SourceNext, sourceVars, Begin, ScanRefuses, Scan, OpenPart,
           OpenWindow, ParseRefuses, Close, RefuseOpen, ReadSource, SeekStart,
           SeekFrom, SeekCurrent, SeekEnd, Replace, Delete, Shorten,
           Lengthen, Meddle
  <2>2. disk[handle.path] = bound
    BY <2>1 DEF Parse, Bound, FileIdentity, RefuseOpen
  <2>3. i \in 1..Len(parts)
    BY DEF SourceInv, SourceTypes, Course
  <2>. QED
    BY <2>2, <2>3 DEF SourceInv, BoundHolds
<1>2. SourceInv /\ [SourceNext]_sourceVars => [HandedBound]_sourceVars
  BY <1>1
<1>. QED
  BY <1>2, SourceStarts, SourceKeeps, PTL DEF SourceSpec, ReaderIsBound

\* While a source is read, the slice is what the window is over.
LEMMA SliceOfMeasured ==
  ASSUME SourceInv, pc = "read"
  PROVE  /\ Len(Slice) = window.len
         /\ \A p \in 1..window.len :
              Slice[p] = ByteBefore(window.start + p)
<1>1. SourceTypes /\ Contiguous /\ Course
  BY DEF SourceInv
<1>2. /\ window.start \in Nat /\ window.len \in Nat
      /\ window.start + window.len = TotalLen
  BY <1>1 DEF SourceTypes, Course
<1>3. Slice = SubSeq([p \in 1..TotalLen |-> ByteBefore(p)],
                     window.start + 1, window.start + window.len)
  BY <1>1, MeasuredBytes DEF Slice
<1>4. PICK a \in Nat, b \in Nat : a = window.start /\ b = window.len
  BY <1>2
<1>5. Slice = SubSeq([p \in 1..(a + b) |-> ByteBefore(p)], a + 1, a + b)
  BY <1>2, <1>3, <1>4
<1>6. PICK m : m = [p \in 1..(a + b) |-> ByteBefore(p)]
  OBVIOUS
<1>7. \A p \in (a + 1)..(a + b) : m[p] \in {m[q] : q \in 1..(a + b)}
  <2>1. (a + 1)..(a + b) \subseteq 1..(a + b)
    BY <1>4
  <2>. QED
    BY <2>1
<1>8. /\ Len(SubSeq(m, a + 1, a + b)) =
           IF a + 1 <= a + b THEN (a + b) - (a + 1) + 1 ELSE 0
      /\ \A p \in 1..((a + b) - (a + 1) + 1) :
            SubSeq(m, a + 1, a + b)[p] = m[(a + 1) + p - 1]
  <2>1. a + 1 \in Int /\ a + b \in Int
    BY <1>4
  <2>. QED
    BY <1>7, <2>1, SubSeqProperties
<1>9. /\ (IF a + 1 <= a + b THEN (a + b) - (a + 1) + 1 ELSE 0) = b
      /\ (a + b) - (a + 1) + 1 = b
      /\ \A p \in 1..b : (a + 1) + p - 1 = a + p /\ a + p \in 1..(a + b)
  BY <1>4
<1>10. Slice = SubSeq(m, a + 1, a + b)
  BY <1>5, <1>6
<1>11. \A p \in 1..b : SubSeq(m, a + 1, a + b)[p] = ByteBefore(a + p)
  <2>1. \A p \in 1..b : SubSeq(m, a + 1, a + b)[p] = m[a + p]
    BY <1>8, <1>9
  <2>2. \A p \in 1..b : m[a + p] = ByteBefore(a + p)
    BY <1>6, <1>9
  <2>. QED
    BY <2>1, <2>2
<1>. QED
  BY <1>4, <1>8, <1>9, <1>10, <1>11

\* What a read found is what the slice has at its position.
LEMMA FoundIsOfSlice ==
  ASSUME SourceInv, pc = "read", NEW idx \in 1..Len(parts), NEW off \in Nat,
         NEW k \in Nat, k > 0, Found(idx, off, k)
  PROVE  /\ k \in 1..(Len(Slice) - window.pos)
         /\ answered' = [kind |-> "bytes",
                         bytes |-> SubSeq(Slice, window.pos + 1,
                                          window.pos + k)]
<1>1. SourceTypes /\ Contiguous /\ Course
  BY DEF SourceInv
<1>2. /\ parts \in Seq(Parts) /\ parts[idx] \in Parts
      /\ window.start \in Nat /\ window.len \in Nat /\ window.pos \in Nat
      /\ window.start + window.len = TotalLen
  BY <1>1 DEF SourceTypes, Course
<1>3. PICK a, b, pos, start, len :
         /\ a = window.start /\ b = window.len /\ pos = window.pos
         /\ start = parts[idx].start /\ len = parts[idx].len
  OBVIOUS
<1>4. /\ a \in Nat /\ b \in Nat /\ pos \in Nat /\ start \in Nat /\ len \in Nat
      /\ a + b = TotalLen /\ start + off = a + pos /\ off + k <= len
      /\ k <= b - pos
  BY <1>2, <1>3 DEF Parts, Found
<1>5. Len(Slice) = b /\ \A p \in 1..b : Slice[p] = ByteBefore(a + p)
  BY <1>3, SliceOfMeasured
<1>6. ASSUME NEW i \in 1..k
      PROVE  Slice[pos + i] = <<parts[idx].file, off + i - 1>>
  <2>1. /\ pos + i \in 1..b /\ a + (pos + i) - 1 = start + (off + i - 1)
        /\ off + i - 1 \in 0..(len - 1)
        /\ start + (off + i - 1) < TotalLen
        /\ (start + (off + i - 1)) - start = off + i - 1
    BY <1>4
  <2>2. part_at(start + (off + i - 1)) = idx
    BY <1>1, <1>3, <2>1, PartIsItsOwn
  <2>3. PICK p \in Int, q \in Int : p = a + (pos + i) /\ q = off + i - 1
    BY <1>4
  <2>4. p - 1 = start + q /\ (p - 1) - start = q
    BY <1>4, <2>3
  <2>5. part_at(p - 1) = idx
    BY <2>2, <2>3, <2>4
  <2>6. ByteBefore(p) = <<parts[idx].file, q>>
    BY <1>3, <2>4, <2>5 DEF ByteBefore
  <2>. QED
    BY <1>5, <2>1, <2>3, <2>6
<1>7. SubSeq(Slice, pos + 1, pos + k) =
        [i \in 1..k |-> <<parts[idx].file, off + i - 1>>]
  <2>1. /\ (pos + k) - (pos + 1) + 1 = k
        /\ \A i \in 1..k : (pos + 1) + i - 1 = pos + i
        /\ pos + 1 \in Int /\ pos + k \in Int /\ pos + 1 <= pos + k
    BY <1>4
  <2>2. PICK s : s = Slice
    OBVIOUS
  <2>3. PICK T : T = {s[q] : q \in (pos + 1)..(pos + k)}
    OBVIOUS
  <2>4. \A q \in (pos + 1)..(pos + k) : s[q] \in T
    BY <2>3
  <2>5. PICK m \in Int, n \in Int : m = pos + 1 /\ n = pos + k
    BY <2>1
  <2>6. PICK r : r = SubSeq(s, m, n)
    OBVIOUS
  <2>7. r \in Seq(T) /\ Len(r) = k /\ \A i \in 1..k : r[i] = s[pos + i]
    <3>1. /\ r \in Seq(T) /\ Len(r) = IF m <= n THEN n - m + 1 ELSE 0
          /\ \A i \in 1..(n - m + 1) : r[i] = s[m + i - 1]
      BY <2>4, <2>5, <2>6, SubSeqProperties
    <3>2. m <= n /\ n - m + 1 = k /\ \A i \in 1..k : m + i - 1 = pos + i
      BY <2>1, <2>5
    <3>. QED
      BY <3>1, <3>2
  <2>8. r = [i \in 1..k |-> s[pos + i]]
    BY <2>7
  <2>9. \A i \in 1..k : s[pos + i] = <<parts[idx].file, off + i - 1>>
    BY <1>6, <2>2
  <2>. QED
    BY <2>2, <2>5, <2>6, <2>8, <2>9
<1>8. answered' = [kind |-> "bytes",
                   bytes |-> [i \in 1..k |-> <<parts[idx].file, off + i - 1>>]]
  <2>1. answered' = PartBytes(parts[idx], off, k)
    BY DEF Found
  <2>. QED
    BY <2>1 DEF PartBytes
<1>9. k \in 1..(Len(Slice) - pos)
  BY <1>4, <1>5
<1>. QED
  BY <1>3, <1>7, <1>8, <1>9

\* A step that leaves the parts and the window over them leaves the slice.
LEMMA SliceStays ==
  ASSUME pc' = pc, parts' = parts,
         window'.start = window.start, window'.len = window.len
  PROVE  Slice' = Slice
  BY DEF Slice, Measured

\* A step outside of reading, but for the one that hands the source out, is
\* none of the slice's.
LEMMA NotYetOpen ==
  ASSUME pc # "read", pc' # "read", SourceInv, SourceInv'
  PROVE  UNCHANGED Abstract!vars
<1>1. answered = Nothing /\ answered' = Nothing
  BY DEF SourceInv, Course
<1>2. window.pos = 0 /\ window'.pos = 0
  <2>1. pc \in PcValues /\ pc' \in PcValues
    BY DEF SourceInv, SourceTypes
  <2>2. window.pos = 0
    BY <2>1 DEF SourceInv, Course, ClosedWindow, PcValues
  <2>3. window'.pos = 0
    BY <2>1 DEF SourceInv, Course, ClosedWindow, PcValues
  <2>. QED
    BY <2>2, <2>3
<1>3. Slice = <<>> /\ Slice' = <<>>
  BY DEF Slice
<1>4. (pc = "read") = FALSE /\ (pc' = "read") = FALSE
  OBVIOUS
<1>. QED
  BY <1>1, <1>2, <1>3, <1>4 DEF Abstract!vars

\* Every step is one of the slice's or none.
LEMMA SliceStep ==
  ASSUME SourceInv, [SourceNext]_sourceVars
  PROVE  [Abstract!Next]_(Abstract!vars)
<1>1. SourceInv'
  BY SourceKeeps
<1>2. CASE pc # "read" /\ pc' # "read"
  BY <1>1, <1>2, NotYetOpen
<1>3. CASE pc # "read" /\ pc' = "read"
  <2>1. window'.pos = 0 /\ answered' = Nothing
    <3>1. Parse
      BY <1>3
      DEF SourceNext, sourceVars, Begin, ScanRefuses, Scan, OpenPart,
          OpenWindow, ParseRefuses, Close, RefuseOpen, ReadSource, SeekStart,
          SeekFrom, SeekCurrent, SeekEnd, Replace, Delete, Shorten, Lengthen,
          Meddle
    <3>2. pc = "parse" /\ UNCHANGED <<window, answered>>
      BY <1>3, <3>1 DEF Parse, RefuseOpen, layered
    <3>. QED
      BY <1>3, <3>2 DEF SourceInv, Course
  <2>2. Abstract!Open
    BY <1>3, <2>1 DEF Abstract!Open, Abstract!Nothing, Nothing
  <2>. QED
    BY <2>2 DEF Abstract!Next
<1>4. CASE pc = "read" /\ pc' # "read"
  <2>1. answered' = Nothing /\ window'.pos = 0 /\ Slice' = <<>>
    <3>1. pc' \in PcValues /\ pc' # "parse"
      BY <1>1, <1>4
      DEF SourceInv, SourceTypes, SourceNext, sourceVars, Begin, ScanRefuses,
          Scan, OpenPart, OpenWindow, ParseRefuses, Parse, Close, RefuseOpen,
          ReadSource, SeekStart, SeekFrom, SeekCurrent, SeekEnd, unmoved,
          Replace, Delete, Shorten, Lengthen, Meddle
    <3>. QED
      BY <1>1, <1>4, <3>1 DEF SourceInv, Course, ClosedWindow, PcValues, Slice
  <2>2. Abstract!Close
    BY <1>4, <2>1 DEF Abstract!Close, Abstract!Nothing, Nothing
  <2>. QED
    BY <2>2 DEF Abstract!Next
<1>5. CASE pc = "read" /\ pc' = "read"
  <2>1. \/ \E n \in Buffers : ReadSource(n)
        \/ \E offset \in 0..U64Max : SeekStart(offset)
        \/ \E delta \in Deltas : SeekCurrent(delta) \/ SeekEnd(delta)
        \/ Replace \/ Delete \/ Shorten \/ Lengthen
        \/ UNCHANGED sourceVars
    BY <1>5
    DEF SourceNext, Begin, ScanRefuses, Scan, OpenPart, OpenWindow,
        ParseRefuses, Parse, Close, RefuseOpen
  <2>2. CASE \E n \in Buffers : ReadSource(n)
    <3>1. PICK n \in Buffers : ReadSource(n)
      BY <2>2
    <3>2. parts' = parts /\ pc' = pc
      BY <3>1 DEF ReadSource
    <3>3. CASE /\ window.pos >= window.len /\ answered' = AtEnd
               /\ UNCHANGED <<cursor, chain, window>>
      <4>1. Slice' = Slice /\ Len(Slice) = window.len
        BY <1>5, <3>2, <3>3, SliceStays, SliceOfMeasured
      <4>2. Abstract!ReadEnd
        BY <1>5, <3>3, <4>1 DEF Abstract!ReadEnd, Abstract!AtEnd, AtEnd
      <4>. QED
        BY <4>2 DEF Abstract!Next
    <3>4. CASE \E idx \in 1..Len(parts), off \in Nat, k \in Nat :
                  Found(idx, off, k)
      <4>1. PICK idx \in 1..Len(parts), off \in Nat, k \in Nat :
               Found(idx, off, k)
        BY <3>4
      <4>2. /\ window'.start = window.start /\ window'.len = window.len
            /\ window'.pos = window.pos + k /\ window.pos \in Nat
        BY <4>1 DEF Found, SourceInv, SourceTypes
      <4>3. Slice' = Slice
        BY <3>2, <4>2, SliceStays
      <4>4. CASE k = 0
        <5>1. answered' = Failed /\ window'.pos = window.pos
          BY <4>1, <4>2, <4>4 DEF Found
        <5>2. Abstract!Fail
          BY <1>5, <4>3, <5>1 DEF Abstract!Fail, Abstract!Failed, Failed
        <5>. QED
          BY <5>2 DEF Abstract!Next
      <4>5. CASE k > 0
        <5>1. /\ k \in 1..(Len(Slice) - window.pos)
              /\ answered' = [kind |-> "bytes",
                              bytes |-> SubSeq(Slice, window.pos + 1,
                                               window.pos + k)]
          BY <1>5, <4>1, <4>5, FoundIsOfSlice
        <5>2. answered' = Abstract!Bytes(k)
          BY <5>1 DEF Abstract!Bytes
        <5>3. Abstract!Read
          BY <1>5, <4>2, <4>3, <5>1, <5>2 DEF Abstract!Read
        <5>. QED
          BY <5>3 DEF Abstract!Next
      <4>. QED
        BY <4>4, <4>5
    <3>. QED
      BY <3>1, <3>3, <3>4, ReadFinds
  <2>3. ASSUME UNCHANGED unmoved,
               \/ answered' = Failed /\ UNCHANGED window
               \/ \E target \in 0..U64Max : set_pos(target)
        PROVE  Abstract!Next
    <3>1. parts' = parts /\ pc' = pc
      BY <2>3 DEF unmoved
    <3>2. CASE answered' = Failed /\ UNCHANGED window
      <4>1. Slice' = Slice
        BY <3>1, <3>2, SliceStays
      <4>2. Abstract!Fail
        BY <1>5, <3>2, <4>1 DEF Abstract!Fail, Abstract!Failed, Failed
      <4>. QED
        BY <4>2 DEF Abstract!Next
    <3>3. CASE \E target \in 0..U64Max : set_pos(target)
      <4>1. PICK target \in 0..U64Max : set_pos(target)
        BY <3>3
      <4>2. /\ answered' = Nothing
            /\ window'.start = window.start /\ window'.len = window.len
        BY <4>1 DEF set_pos, SourceInv, SourceTypes
      <4>3. Slice' = Slice
        BY <3>1, <4>2, SliceStays
      <4>4. Abstract!Seek
        BY <1>5, <4>2, <4>3 DEF Abstract!Seek, Abstract!Nothing, Nothing
      <4>. QED
        BY <4>4 DEF Abstract!Next
    <3>. QED
      BY <2>3, <3>2, <3>3
  <2>4. CASE \E offset \in 0..U64Max : SeekStart(offset)
    BY <2>3, <2>4 DEF SeekStart
  <2>5. CASE \E delta \in Deltas : SeekCurrent(delta) \/ SeekEnd(delta)
    <3>1. PICK base, delta : SeekFrom(base, delta)
      BY <2>5 DEF SeekCurrent, SeekEnd
    <3>. QED
      BY <2>3, <3>1 DEF SeekFrom
  <2>6. CASE Replace \/ Delete \/ Shorten \/ Lengthen \/ UNCHANGED sourceVars
    <3>1. UNCHANGED <<pc, parts, window, answered>>
      BY <2>6
      DEF Replace, Delete, Shorten, Lengthen, Meddle, sourceVars, layered
    <3>2. Slice' = Slice
      BY <3>1, SliceStays
    <3>. QED
      BY <1>5, <3>1, <3>2 DEF Abstract!vars
  <2>. QED
    BY <2>1, <2>2, <2>4, <2>5, <2>6
<1>. QED
  BY <1>2, <1>3, <1>4, <1>5

\* However seeks and reads follow each other, whatever is done to the files
\* meanwhile, the window over the chain of volumes reads as the one slice that
\* was measured when it was opened (PayloadWindow over VolumeChain): the
\* source implements ByteSlice.
THEOREM SourceImplementsSlice == SourceSpec => ReadsAsOneSlice
<1>1. SourceInit => Abstract!Init
  <2> SUFFICES ASSUME SourceInit PROVE Abstract!Init
    OBVIOUS
  <2>1. pc # "read" /\ window.pos = 0 /\ answered = Nothing
    BY DEF SourceInit, ClosedWindow
  <2>2. Slice = <<>>
    BY <2>1 DEF Slice
  <2>. QED
    BY <2>1, <2>2 DEF Abstract!Init, Abstract!Nothing, Nothing
<1>2. SourceInv /\ [SourceNext]_sourceVars => [Abstract!Next]_(Abstract!vars)
  BY SliceStep
<1>. QED
  BY <1>1, <1>2, SourceStarts, SourceKeeps, PTL
     DEF SourceSpec, Abstract!Spec, ReadsAsOneSlice
=============================================================================
