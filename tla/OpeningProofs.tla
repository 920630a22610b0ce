--------------------------- MODULE OpeningProofs ---------------------------
(***************************************************************************)
(* Theorems about Opening, for any contents, any calls and any number of   *)
(* changes other processes make in between.                                *)
(***************************************************************************)
EXTENDS Opening, NumberSetsProofs

-----------------------------------------------------------------------------
(* What the bytes say.                                                     *)

\* The earliest of some offsets is one of them, and none comes before it.
LEMMA FirstIsLeast ==
  ASSUME NEW S \in SUBSET Nat, S # {}
  PROVE  \E m \in S : First(S) = {m} /\ \A y \in S : m <= y
<1>1. PICK m \in S : \A y \in S : m <= y
  BY HasLeast
<1>2. Min(S) \in S /\ \A y \in S : Min(S) <= y
  BY <1>1 DEF Min
<1>. QED
  BY <1>2 DEF First

\* A mark is the signature of one format at most.
LEMMA SignatureIsOne ==
  ASSUME NEW mark
  PROVE  /\ Signature(mark) \subseteq {"zip", "rar", "sevenz", "gzip"}
         /\ \A f, g \in Signature(mark) : f = g
         /\ mark = "stub" => Signature(mark) = {}
         /\ Signature(mark) = {"rar"} => mark = "rar"
         /\ Signature(mark) = {"sevenz"} => mark = "sevenz"
  BY DEF Signature

\* A mark lies within the file, and in a slice where it lies in the file.
LEMMA MarkOf ==
  ASSUME NEW c \in Content, NEW o \in Nat
  PROVE  /\ At(c, o) \in Marks \union {"end"}
         /\ At(c, o) # "end" <=> o < Len(c.marks)
         /\ Slice(c, o) \in Content
         /\ At(c, o) # "end" => At(Slice(c, o), 0) = At(c, o)
<1>1. c.marks \in Seq(Marks) /\ Len(c.marks) \in Nat /\ c.zips \in SUBSET Nat
  BY DEF Content
<1>2. o < Len(c.marks) => c.marks[o + 1] \in Marks
  BY <1>1, ElementOfSeq
<1>3. "end" \notin Marks
  BY DEF Marks
<1>4. SubSeq(c.marks, o + 1, Len(c.marks)) \in Seq(Marks)
  BY <1>1, SubSeqProperties
<1>5. {z - o : z \in {y \in c.zips : y >= o}} \in SUBSET Nat
  BY <1>1
<1>6. Slice(c, o) \in Content
  BY <1>4, <1>5 DEF Slice, Content
<1>7. ASSUME o < Len(c.marks)
      PROVE  At(Slice(c, o), 0) = At(c, o)
  <2>1. Len(SubSeq(c.marks, o + 1, Len(c.marks))) = Len(c.marks) - o
    BY <1>1, <1>7, SubSeqProperties
  <2>2. SubSeq(c.marks, o + 1, Len(c.marks))[1] = c.marks[o + 1]
    BY <1>1, <1>7, SubSeqProperties
  <2>. QED
    BY <1>1, <1>7, <2>1, <2>2 DEF At, Slice
<1>. QED
  BY <1>1, <1>2, <1>3, <1>6, <1>7 DEF At

\* The first bytes and the name decide one format at most.
LEMMA DetectIsOne ==
  ASSUME NEW c, NEW suffix
  PROVE  /\ detect(c, suffix) \subseteq Formats
         /\ \A f, g \in detect(c, suffix) : f = g
         /\ At(c, 0) = "stub" => detect(c, suffix) = {}
<1>1. Signature(At(c, 0)) \subseteq {"zip", "rar", "sevenz", "gzip"}
  BY SignatureIsOne
<1>2. \A f, g \in Signature(At(c, 0)) : f = g
  BY SignatureIsOne
<1>3. At(c, 0) = "stub" => Signature(At(c, 0)) = {}
  BY SignatureIsOne
<1>. QED
  BY <1>1, <1>2, <1>3 DEF detect, detect_from_bytes, promote_to_compound_tar,
                          Formats

\* A detected payload is one, behind a stub, and begins with the signature of
\* its format.
LEMMA DetectSfxIsOne ==
  ASSUME NEW c \in Content
  PROVE  \/ detect_sfx(c) = {}
         \/ /\ At(c, 0) = "stub"
            /\ \E d \in [format : Formats, offset : Nat] :
                 /\ detect_sfx(c) = {d}
                 /\ Signature(At(c, d.offset)) = {d.format}
<1>. DEFINE P == {p \in scan_for_signatures(c) : Probe(c, p)}
<1>1. P \in SUBSET Nat /\ \A p \in P : Signature(At(c, p)) # {}
  BY SfxAssumption DEF scan_for_signatures
<1>2. CASE StubType(c) = "Unknown"
  BY <1>2 DEF detect_sfx
<1>3. CASE StubType(c) # "Unknown"
  <2>1. At(c, 0) = "stub"
    BY <1>3 DEF StubType
  <2>2. \/ Best(c, P) = {}
        \/ \E o \in P : Best(c, P) = {o}
    <3>. HIDE DEF P
    <3>. DEFINE strong == {o \in P : At(c, o) # "gzip"}
    <3>1. CASE strong # {}
      <4>1. \E m \in strong : First(strong) = {m}
        BY <1>1, <3>1, FirstIsLeast
      <4>. QED
        BY <3>1, <4>1 DEF Best
    <3>2. CASE strong = {} /\ P # {}
      <4>1. \E m \in P : First(P) = {m}
        BY <1>1, <3>2, FirstIsLeast
      <4>. QED
        BY <3>2, <4>1 DEF Best
    <3>3. CASE strong = {} /\ P = {}
      BY <3>3 DEF Best, First
    <3>. QED
      BY <3>1, <3>2, <3>3
  <2>3. detect_sfx(c) =
          {[format |-> CHOOSE f \in Signature(At(c, o)) : TRUE, offset |-> o] :
             o \in Best(c, P)}
    BY <1>3 DEF detect_sfx
  <2>4. CASE Best(c, P) = {}
    BY <2>3, <2>4
  <2>5. ASSUME NEW o \in P, Best(c, P) = {o}
        PROVE  \E d \in [format : Formats, offset : Nat] :
                 /\ detect_sfx(c) = {d}
                 /\ Signature(At(c, d.offset)) = {d.format}
    <3>. HIDE DEF P
    <3>. DEFINE f == CHOOSE f \in Signature(At(c, o)) : TRUE
                d == [format |-> f, offset |-> o]
    <3>1. o \in Nat /\ Signature(At(c, o)) # {}
      BY <1>1
    <3>2. f \in Signature(At(c, o))
      BY <3>1
    <3>3. Signature(At(c, o)) = {f} /\ f \in Formats
      <4>. HIDE DEF f
      <4>. QED
        BY <3>2, SignatureIsOne DEF Formats
    <3>4. detect_sfx(c) = {d}
      BY <2>3, <2>5
    <3>. HIDE DEF f
    <3>5. /\ d \in [format : Formats, offset : Nat]
          /\ d.format = f /\ d.offset = o
      BY <3>1, <3>3
    <3>. QED
      BY <3>3, <3>4, <3>5, Zenon
  <2>. QED
    BY <2>1, <2>2, <2>4, <2>5
<1>. QED
  BY <1>2, <1>3

\* What the gates are for: a payload that passes its backend's is the archive
\* that backend finds in the whole file, and the one it would find in a copy
\* from the offset on.
LEMMA GateNamesPayload ==
  ASSUME NEW c \in Content, NEW o \in Nat, NEW f \in {"zip", "rar", "sevenz"},
         Signature(At(c, o)) = {f}, Agrees(f, c, o),
         f = "rar" => rar_opens(c)
  PROVE  /\ Reads(f, c, IF f = "sevenz" THEN o ELSE 0) = {o}
         /\ Reads(f, Slice(c, o), 0) = {0}
<1>1. At(c, o) # "end"
  BY DEF Signature
<1>2. At(Slice(c, o), 0) = At(c, o)
  BY <1>1, MarkOf
<1>3. CASE f = "zip"
  <2>1. c.zips = {o}
    BY <1>3 DEF Agrees, zip_offset
  <2>2. {z - o : z \in {y \in c.zips : y >= o}} = {0}
    BY <2>1
  <2>. QED
    BY <1>3, <2>1, <2>2 DEF Reads, zip_offset, Slice
<1>4. CASE f = "sevenz"
  <2>1. At(c, o) = "sevenz"
    BY <1>4, SignatureIsOne
  <2>2. {p \in {o} : At(c, p) = "sevenz"} = {o}
    BY <2>1
  <2>3. {p \in {0} : At(Slice(c, o), p) = "sevenz"} = {0}
    BY <1>2, <2>1
  <2>. QED
    BY <1>4, <2>2, <2>3 DEF Reads
<1>5. CASE f = "rar"
  <2>1. At(c, o) = "rar"
    BY <1>5, SignatureIsOne
  <2>2. RarInReach(o) /\ \A p \in 0..(o - 1) : At(c, p) # "rar"
    BY <1>5 DEF Agrees, first_rar_signature_before
  <2>. DEFINE S == {p \in RarFirst..RarLast : At(c, p) \in RarMarks}
  <2>3. S \in SUBSET Nat /\ o \in S
    BY <2>1, <2>2, SfxAssumption DEF RarInReach, RarMarks
  <2>4. PICK m \in S : First(S) = {m} /\ \A y \in S : m <= y
    <3>. HIDE DEF S
    <3>. QED
      BY <2>3, FirstIsLeast
  <2>5. At(c, 0) # "rar"
    BY <2>2, SfxAssumption DEF RarInReach
  <2>6. At(c, 0) \notin RarMarks
    BY <1>5, <2>5 DEF rar_opens, rar_marker
  <2>7. rar_marker(c) = {m}
    BY <2>4, <2>6 DEF rar_marker
  <2>8. At(c, m) = "rar"
    BY <1>5, <2>7 DEF rar_opens
  <2>9. m = o
    <3>1. m \in Nat /\ m <= o
      BY <2>3, <2>4
    <3>. QED
      BY <2>2, <2>8, <3>1
  <2>10. rar_marker(Slice(c, o)) = {0}
    BY <1>2, <2>1 DEF rar_marker, RarMarks
  <2>. QED
    BY <1>5, <2>7, <2>9, <2>10 DEF Reads
<1>. QED
  BY <1>3, <1>4, <1>5

-----------------------------------------------------------------------------
(* The invariants.                                                         *)

Verdicts == [format : Formats \union {"any"}, offset : Nat]

Handles ==
    [format : Formats \union {"none"}, reads : 0..2, file : 0..Len(files),
     base : Nat, at : SUBSET Nat, owned : 0..2, bound : Identities]

Copies == [file : 0..Len(files), size : Nat, got : Nat]

Early == {"idle", "capture", "detect", "build", "sfx", "magic", "agree",
          "construct", "stage", "probe", "stat_stub", "open_stub",
          "read_stub", "stat_again"}

\* A backend is being opened at the path.
Constructing == {"native", "bracket", "revalidate"}

\* A payload behind a stub was found, and nothing is open yet.
Judged == {"magic", "agree", "construct", "stage", "copy", "staged"}

\* Files only ever come: the one at the path is the last, unless an earlier
\* one was put back.
WorldInv ==
    /\ files \in Seq(Content) /\ path \in 1..Len(files)
    /\ put_back \in BOOLEAN /\ (~put_back => path = Len(files))
    /\ meddles \in 0..MaxMeddles

ShapeInv ==
    /\ call \in Calls \union {NoCall}
    /\ pc \in Early \union Constructing \union {"copy", "staged", "open", "done"}
    /\ bound \in Identities /\ listed \in Identities
    /\ source \in 0..Len(files) /\ looks \subseteq 1..Len(files)
    /\ seen \subseteq Verdicts /\ \A d, e \in seen : d = e
    /\ copy \in Copies
    /\ temps = NoTemps \/ temps \in [{1} -> Content]
    /\ handle \in Handles
    /\ result \in {"none", "ok", "err"}

\* What a call holds at each of its steps: nothing until a handle is made or
\* a copy begun, and of an open handle either the path or the copy.
PhaseInv ==
    /\ pc \in Early \union {"copy", "staged"} => handle = NoHandle
    /\ pc \in Early \union Constructing => temps = NoTemps
    /\ pc \notin {"open", "done"} => listed = NoFile /\ result = "none"
    /\ pc # "done" => ratio = {}
    /\ pc \in {"copy", "staged"} => temps # NoTemps /\ copy.file # 0
    /\ pc \in {"build", "magic", "agree", "construct", "stage", "copy",
               "staged", "native", "bracket", "stat_stub", "open_stub"} =>
         seen # {}
    /\ pc \in {"build", "agree", "construct"} =>
         \A d \in seen : d.format \in Formats
    /\ pc \in Constructing \union {"open"} =>
         /\ handle.format # "none"
         /\ \A o, p \in handle.at : o = p
    /\ pc \in Constructing => handle.owned = 0 /\ handle.reads = 0
    /\ pc = "open" =>
         /\ result = "ok"
         /\ \/ handle.owned = 0 /\ handle.reads = 0 /\ temps = NoTemps
            \/ /\ handle.owned = 1 /\ handle.reads \in {1, 2}
               /\ handle.at = {} /\ temps # NoTemps
         /\ listed # NoFile =>
              \/ handle.reads = 0 /\ handle.bound = listed
              \/ handle.reads = 1 /\ listed.len = Len(temps[1].marks)

\* A failed call has removed its copy, and an owned one is on disk.
BackingInv ==
    /\ result = "err" => temps = NoTemps
    /\ handle.owned \in {0} \union DOMAIN temps

\* Why the second stat tells: the identity was taken no later than the
\* verdict was reached, and every look since is at that file or a later one.
OrderInv ==
    /\ pc \in Judged \union Constructing \union {"build"} /\ source # 0 =>
         /\ bound.file # 0
         /\ ~put_back => /\ bound.file <= source /\ source \in looks
                         /\ \A n \in looks : source <= n
    /\ \/ pc \in Judged
       \/ pc \in {"native", "bracket"} /\ handle.at # {}
       => (source # 0 => bound.file = source)
    /\ pc \in {"copy", "staged"} /\ source # 0 =>
         copy.file = source /\ (~put_back => looks = {source})
    /\ ~put_back /\ source # 0 /\ handle.format \notin Lazy =>
         /\ pc \in Constructing => source <= handle.bound.file
         /\ pc = "open" /\ handle.owned = 0 => handle.bound.file = source
    /\ pc = "detect" => bound.file # 0
    /\ pc = "idle" => source = 0
    /\ DetectedIsRead

\* A copy grows to the size it was begun with, which the ceiling was asked
\* about and the identity, where there is one, agrees with.
CopyInv ==
    /\ pc \in {"copy", "staged"} =>
         /\ Len(temps[1].marks) = copy.got
         /\ copy.got <= copy.size /\ copy.size <= call.cap
         /\ source # 0 => copy.size = bound.len - Sees(seen).offset
    /\ pc = "staged" => copy.got = copy.size
    /\ StagingBounded

\* A verdict without a format comes from a caller's offset alone.
HintInv ==
    /\ \A d \in seen : d.format = "any" => call.op = "open_at_offset"
    /\ \/ pc \in {"agree", "construct"}
       \/ pc \in {"native", "bracket"} /\ handle.at # {}
       => (copy.got = 1 => call.op = "open_at_offset")

\* What the verdict says of the one file there was.
VerdictInv ==
    meddles = 0 =>
         LET c == files[1] IN
         /\ path = 1
         /\ pc = "build" =>
              seen = {[format |-> f, offset |-> 0] :
                        f \in detect(c, call.suffix)}
         /\ pc \in {"magic", "agree", "construct"}
                /\ call.op # "open_at_offset" =>
              seen = detect_sfx(c)
         /\ pc \in {"agree", "construct"} =>
              /\ call.suffix = "exec"
              /\ Sees(seen).format \in Coded
              /\ Signature(At(c, Sees(seen).offset)) = {Sees(seen).format}
         /\ pc = "construct" => Agrees(Sees(seen).format, c, Sees(seen).offset)

\* The payload at o of the content c passed the gate of the backend f: the
\* one detected there, unless a caller named the offset.
Passed(f, c, o) ==
    /\ f \in Coded /\ Signature(At(c, o)) = {f} /\ Agrees(f, c, o)
    /\ call.suffix = "exec"
    /\ call.op # "open_at_offset" =>
         detect_sfx(c) = {[format |-> f, offset |-> o]}

\* What a handle reads of the one file there was: a payload that passed its
\* gate, once the backend has opened it.
PayloadInv ==
    meddles = 0 =>
        /\ pc = "native" =>
             \A o \in handle.at :
                 /\ Passed(handle.format, files[1], o)
                 /\ handle.base = IF handle.format = "sevenz" THEN o ELSE 0
        /\ pc \in {"bracket", "revalidate", "open"} =>
             \A o \in handle.at :
                 /\ Reads(handle.format, files[1], handle.base) = {o}
                 /\ Reads(handle.format, Slice(files[1], o), 0) = {0}
        /\ \/ pc \in {"bracket", "revalidate", "open"}
           \/ pc = "native" /\ handle.at = {}
           => (handle.format \in Coded /\ call.op # "open_at_offset" =>
                 ReopensAt(handle) = ReadsAt(handle))

IInv ==
    /\ WorldInv /\ ShapeInv /\ PhaseInv /\ BackingInv /\ OrderInv /\ CopyInv
    /\ RatioOfListed /\ HintInv /\ VerdictInv /\ PayloadInv

-----------------------------------------------------------------------------
(* The world and the shape of a call's state.                              *)

\* The file that stands at the path, and what other processes do to it.
LEMMA WorldStep ==
  ASSUME WorldInv, [Next]_vars
  PROVE  WorldInv' /\ Len(files') >= Len(files)
<1>. USE DEF WorldInv
<1>1. CASE Meddle
  <2>1. meddles' \in 0..MaxMeddles
    BY <1>1, OpeningAssumption DEF Meddle
  <2>2. ASSUME NEW c \in Contents, files' = Append(files, c),
               path' = Len(files) + 1, UNCHANGED put_back
        PROVE  WorldInv' /\ Len(files') >= Len(files)
    <3>1. c \in Content
      BY OpeningAssumption
    <3>. QED
      BY <2>1, <2>2, <3>1, AppendProperties
  <2>3. files[path] \in Content /\ Now \in Content
    BY ElementOfSeq DEF Now
  <2>4. ASSUME NEW c \in Content, files' = [files EXCEPT ![path] = c],
               UNCHANGED <<path, put_back>>
        PROVE  WorldInv' /\ Len(files') >= Len(files)
    BY <2>1, <2>4, ExceptSeq
  <2>5. CASE /\ files' = [files EXCEPT ![path].marks = Append(@, "fill")]
             /\ UNCHANGED <<path, put_back>>
    <3>1. Append(files[path].marks, "fill") \in Seq(Marks)
      BY <2>3, AppendProperties DEF Content, Marks
    <3>. DEFINE c == [files[path] EXCEPT !.marks = Append(@, "fill")]
    <3>2. c \in Content
      BY <2>3, <3>1 DEF Content
    <3>3. files' = [files EXCEPT ![path] = c]
      BY <2>5
    <3>. QED
      BY <2>4, <2>5, <3>2, <3>3
  <2>6. ASSUME NEW n \in 1..(Len(Now.marks) - 1),
               UNCHANGED <<path, put_back>>,
               files' = [files EXCEPT ![path] =
                           [marks |-> SubSeq(@.marks, 1, n), zips |-> {}]]
        PROVE  WorldInv' /\ Len(files') >= Len(files)
    <3>. DEFINE c == [marks |-> SubSeq(files[path].marks, 1, n), zips |-> {}]
    <3>1. Now.marks \in Seq(Marks) /\ Len(Now.marks) \in Nat
      BY <2>3 DEF Content
    <3>2. SubSeq(files[path].marks, 1, n) \in Seq(Marks)
      BY <3>1, SubSeqProperties DEF Now
    <3>3. c \in Content
      BY <3>2 DEF Content
    <3>4. files' = [files EXCEPT ![path] = c]
      BY <2>6
    <3>. QED
      BY <2>4, <2>6, <3>3, <3>4
  <2>7. CASE /\ path' \in DOMAIN files \ {path}
             /\ put_back' = TRUE /\ UNCHANGED files
    <3>1. path' \in 1..Len(files) /\ files' = files /\ put_back' = TRUE
      BY <2>7
    <3>2. put_back' \in BOOLEAN /\ (~put_back' => path' = Len(files'))
      BY <3>1, Zenon
    <3>. QED
      BY <2>1, <3>1, <3>2
  <2>. QED
    BY <1>1, <2>2, <2>5, <2>6, <2>7 DEF Meddle
<1>2. CASE UNCHANGED world
  BY <1>2 DEF world
<1>3. Meddle \/ UNCHANGED world
  BY Zenon DEF Next, vars, Call, capture_read_identity, Detect,
     open_as_format, revalidate_read_identity, DetectSfx, magic_at,
     try_open_in_place, open_in_place, OpenNative, StatAfter,
     stage_sfx_payload, CopyChunk, CopyFails, CopyEnds, OpenStaged, DetectAgain, StatStub, OpenStub,
     ReadStub, StatAgain, List, payload_size_for_ratio
<1>. QED
  BY <1>1, <1>2, <1>3

\* The identity of a file that came, and what is said of files so far holds
\* of them when more have come.
LEMMA IdentityOf ==
  ASSUME WorldInv
  PROVE  /\ \A n \in 1..Len(files) :
              /\ read_file_identity(n) \in Identities
              /\ read_file_identity(n).file = n
              /\ read_file_identity(n).len = Len(files[n].marks)
              /\ read_file_identity(n) # NoFile
         /\ path \in 1..Len(files) /\ Now \in Content
         /\ NoFile \in Identities /\ NoHandle \in Handles
         /\ NoCopy \in Copies
<1>0. \A n \in 1..Len(files) : files[n] \in Content
  BY ElementOfSeq DEF WorldInv
<1>1. \A n \in 1..Len(files) :
        files[n] \in Content /\ Len(files[n].marks) \in Nat
  BY <1>0 DEF Content
<1>. QED
  BY <1>1 DEF WorldInv, read_file_identity, Identities, NoFile, Now, NoHandle,
              Handles, Copies, NoCopy

\* What was typed over fewer files is typed over more.
LEMMA MoreFiles ==
  ASSUME WorldInv, WorldInv', Len(files') >= Len(files)
  PROVE  /\ Identities \subseteq Identities'
         /\ Handles \subseteq Handles' /\ Copies \subseteq Copies'
<1>1. Identities \subseteq Identities'
  BY DEF Identities, WorldInv
<1>. QED
  BY <1>1 DEF WorldInv, Handles, Copies

\* The handle a constructor is about to open at the path, on a payload that
\* is read where it lies or on the whole file.
LEMMA NewHandle ==
  ASSUME WorldInv, NEW f \in Formats
  PROVE  /\ new_read(f) \in Handles /\ new_read(f).format = f
         /\ new_read(f).reads = 0 /\ new_read(f).base = 0
         /\ new_read(f).at = {} /\ new_read(f).owned = 0
         /\ f \notin Lazy => new_read(f).bound = read_file_identity(path)
<1>. DEFINE b == IF f \in Lazy THEN NoFile ELSE read_file_identity(path)
<1>1. b \in Identities
  BY IdentityOf
<1>2. new_read(f) = [NoHandle EXCEPT !.format = f, !.bound = b]
  BY DEF new_read
<1>3. /\ NoHandle \in Handles /\ NoHandle.at = {} /\ NoHandle.owned = 0
      /\ NoHandle.reads = 0 /\ NoHandle.base = 0
  BY IdentityOf DEF NoHandle
<1>4. f \notin Lazy => b = read_file_identity(path)
  OBVIOUS
<1>. HIDE DEF b
<1>. QED
  BY <1>1, <1>2, <1>3, <1>4 DEF Handles

LEMMA InPlaceHandle ==
  ASSUME WorldInv, NEW f \in Formats, NEW o \in Nat
  PROVE  LET h == in_place_handle(f, o) IN
         /\ h \in Handles /\ h.format = f /\ h.reads = 0
         /\ h.base = IF f = "sevenz" THEN o ELSE 0
         /\ h.at = {o} /\ h.owned = 0
         /\ f \notin Lazy => h.bound = read_file_identity(path)
<1>. DEFINE h == new_read(f)
            base == IF f = "sevenz" THEN o ELSE 0
<1>1. /\ h \in Handles /\ h.format = f /\ h.reads = 0 /\ h.owned = 0
      /\ f \notin Lazy => h.bound = read_file_identity(path)
  BY NewHandle
<1>2. in_place_handle(f, o) = [h EXCEPT !.base = base, !.at = {o}]
  BY DEF in_place_handle
<1>3. base \in Nat
  OBVIOUS
<1>. HIDE DEF h, base
<1>. DEFINE g == in_place_handle(f, o)
            S == {o}
<1>40. S \in SUBSET Nat
  OBVIOUS
<1>41. g = [h EXCEPT !.base = base, !.at = S]
  BY <1>2
<1>42. S = {o}
  OBVIOUS
<1>. HIDE DEF g, S
<1>4. /\ g \in Handles /\ g.format = f /\ g.reads = 0 /\ g.base = base
      /\ g.at = S /\ g.owned = 0 /\ g.bound = h.bound
  BY <1>1, <1>3, <1>40, <1>41 DEF Handles
<1>5. /\ g \in Handles /\ g.format = f /\ g.reads = 0
      /\ g.base = IF f = "sevenz" THEN o ELSE 0
      /\ g.at = {o} /\ g.owned = 0
      /\ f \notin Lazy => g.bound = read_file_identity(path)
  BY <1>1, <1>4, <1>42 DEF base
<1>. QED
  BY <1>5 DEF g

\* A handle on a temporary file.
LEMMA OnTemporary ==
  ASSUME WorldInv, copy \in Copies, NEW f \in Formats, NEW t \in {1, 2},
         NEW base \in Nat, NEW at \in SUBSET Nat
  PROVE  LET h == staged(f, t, base, at) IN
         /\ h \in Handles /\ h.format = f /\ h.reads = t
         /\ h.file = copy.file /\ h.base = base
<1>1. NoHandle \in Handles /\ copy.file \in 0..Len(files) /\ t \in 0..2
  BY IdentityOf DEF Copies
<1>2. staged(f, t, base, at) =
        [NoHandle EXCEPT !.format = f, !.reads = t, !.file = copy.file,
                         !.base = base, !.at = at]
  BY DEF staged
<1>. QED
  BY <1>1, <1>2 DEF Handles

\* What the open of a staged copy returns reads it or a second copy of it.
LEMMA StagedHandle ==
  ASSUME WorldInv, copy \in Copies, NEW c \in Content, NEW suffix,
         NEW h \in Opens(c, suffix)
  PROVE  /\ h \in Handles /\ h.format \in Formats /\ h.reads \in {1, 2}
         /\ h.file = copy.file
         /\ detect(c, suffix) # {} =>
              h.format \in detect(c, suffix) /\ h.base = 0
         /\ detect(c, suffix) = {} => suffix = "exec"
<1>0. 0 \in Nat /\ 1 \in {1, 2} /\ 2 \in {1, 2} /\ {} \in SUBSET Nat
  OBVIOUS
<1>1. CASE detect(c, suffix) # {}
  <2>1. PICK f \in detect(c, suffix) : h = staged(f, 1, 0, {})
    BY <1>1 DEF Opens
  <2>2. f \in Formats
    BY DetectIsOne
  <2>. QED
    BY <1>0, <1>1, <2>1, <2>2, OnTemporary
<1>2. CASE detect(c, suffix) = {}
  <2>1. suffix = "exec" /\ \E d \in detect_sfx(c) : h \in OpenSfx(c, d)
    BY <1>2 DEF Opens
  <2>2. PICK d \in detect_sfx(c) : h \in OpenSfx(c, d)
    BY <2>1
  <2>3. d.format \in Formats /\ d.offset \in Nat
    BY DetectSfxIsOne
  <2>. DEFINE base == IF d.format = "sevenz" THEN d.offset ELSE 0
  <2>4. CASE h = staged(d.format, 1, base, {d.offset})
    <3>1. base \in Nat /\ {d.offset} \in SUBSET Nat
      BY <2>3
    <3>. HIDE DEF base
    <3>. QED
      BY <1>0, <1>2, <2>1, <2>3, <2>4, <3>1, OnTemporary
  <2>5. CASE \E g \in Restaged(c, d) : h = [g EXCEPT !.owned = 2]
    <3>1. PICK f \in detect(Slice(c, d.offset), d.format) :
                 h = [staged(f, 2, 0, {}) EXCEPT !.owned = 2]
      BY <2>5 DEF Restaged
    <3>2. f \in Formats
      BY DetectIsOne
    <3>. DEFINE g == staged(f, 2, 0, {})
    <3>3. /\ g \in Handles /\ g.format = f /\ g.reads = 2
          /\ g.file = copy.file
      BY <1>0, <3>2, OnTemporary
    <3>. HIDE DEF g
    <3>4. /\ g \in Handles /\ g.format = f /\ g.reads = 2
          /\ g.file = copy.file /\ h = [g EXCEPT !.owned = 2]
      BY <3>1, <3>3 DEF g
    <3>. QED
      BY <1>2, <2>1, <3>2, <3>4 DEF Handles
  <2>. QED
    BY <2>2, <2>4, <2>5 DEF OpenSfx
<1>. QED
  BY <1>1, <1>2

\* Verdicts that differ in nothing are one.
LEMMA VerdictsOf ==
  ASSUME NEW F \in SUBSET (Formats \union {"any"}), \A f, g \in F : f = g,
         NEW o \in Nat
  PROVE  LET S == {[format |-> f, offset |-> o] : f \in F} IN
         /\ S \subseteq Verdicts /\ \A d, e \in S : d = e
         /\ F # {} => S # {} /\ \A d \in S : d.format \in F
<1>1. CASE F = {}
  BY <1>1
<1>2. ASSUME NEW f \in F
      PROVE  LET S == {[format |-> g, offset |-> o] : g \in F} IN
             /\ S \subseteq Verdicts /\ \A d, e \in S : d = e
             /\ F # {} => S # {} /\ \A d \in S : d.format \in F
  <2>. DEFINE d == [format |-> f, offset |-> o]
  <2>1. F = {f}
    OBVIOUS
  <2>2. {[format |-> g, offset |-> o] : g \in F} = {d}
    BY <2>1
  <2>3. d \in Verdicts /\ d.format \in F
    BY DEF Verdicts
  <2>. HIDE DEF d
  <2>. QED
    BY <2>2, <2>3
<1>. QED
  BY <1>1, <1>2

\* A verdict that is declined is put back as it came.
LEMMA DeclinedVerdict ==
  ASSUME seen \subseteq Verdicts, \A d, e \in seen : d = e, Decline
  PROVE  /\ seen' \subseteq Verdicts /\ \A d, e \in seen' : d = e
         /\ seen # {} => seen' # {}
         /\ pc' = "stage" /\ copy' = NoCopy
         /\ \A d \in seen' : \E e \in seen :
              /\ d.offset = e.offset
              /\ d.format = IF copy.got = 1 THEN "any" ELSE e.format
<1>1. CASE seen = {}
  BY <1>1 DEF Decline, To
<1>2. ASSUME NEW d \in seen
      PROVE  /\ seen' \subseteq Verdicts /\ \A e, g \in seen' : e = g
             /\ seen # {} => seen' # {}
             /\ \A e \in seen' :
                  /\ e.offset = d.offset
                  /\ e.format = IF copy.got = 1 THEN "any" ELSE d.format
  <2>. DEFINE v == [d EXCEPT !.format = IF copy.got = 1 THEN "any" ELSE @]
  <2>1. seen' = {v} /\ seen = {d}
    BY DEF Decline
  <2>2. /\ v \in Verdicts /\ v.offset = d.offset
        /\ v.format = IF copy.got = 1 THEN "any" ELSE d.format
    BY DEF Verdicts
  <2>. HIDE DEF v
  <2>. QED
    BY <2>1, <2>2
<1>. QED
  BY <1>1, <1>2 DEF Decline, To

\* The one element of a set of one.
LEMMA Sole ==
  ASSUME NEW S, NEW d \in S, \A e \in S : e = d
  PROVE  Sees(S) = d /\ S = {d}
  BY DEF Sees

\* A constructor that fails leaves no handle, and nothing on disk: the payload
\* is staged under the verdict as it came, or the call ends.
LEMMA Abandoned ==
  ASSUME WorldInv, ShapeInv, PhaseInv, pc \in {"native", "bracket"}, Abandon
  PROVE  /\ handle' = NoHandle /\ temps' = NoTemps
         /\ seen' \subseteq Verdicts /\ \A d, e \in seen' : d = e
         /\ seen' # {} /\ copy' \in Copies
         /\ listed' = listed /\ ratio' = ratio
         /\ \/ /\ pc' = "stage" /\ result' = result
               /\ handle.at # {} /\ copy' = NoCopy
               /\ \A d \in seen' : \E e \in seen :
                    d.format = IF copy.got = 1 THEN "any" ELSE e.format
            \/ pc' = "done" /\ result' = "err" /\ seen' = seen
<1>1. /\ seen \subseteq Verdicts /\ seen # {} /\ temps = NoTemps
      /\ \A d, e \in seen : d = e
      /\ copy \in Copies /\ NoCopy \in Copies
  BY IdentityOf DEF ShapeInv, PhaseInv, Constructing
<1>2. CASE /\ handle.at # {} /\ handle' = NoHandle
           /\ Decline /\ UNCHANGED <<temps, listed, ratio, result>>
  <2>1. /\ seen' \subseteq Verdicts /\ seen' # {}
        /\ \A d, e \in seen' : d = e
        /\ pc' = "stage" /\ copy' = NoCopy
        /\ \A d \in seen' : \E e \in seen :
             /\ d.offset = e.offset
             /\ d.format = IF copy.got = 1 THEN "any" ELSE e.format
    BY <1>1, <1>2, DeclinedVerdict
  <2>. QED
    BY <1>1, <1>2, <2>1
<1>3. CASE handle.at = {} /\ Refuse /\ UNCHANGED <<seen, copy>>
  BY <1>1, <1>3 DEF Refuse, To
<1>. QED
  BY <1>2, <1>3 DEF Abandon

\* Each step leaves the call, its verdict, its copy and its handle in shape, and
\* holds what its place in the call allows.
LEMMA StateStep ==
  ASSUME WorldInv, ShapeInv, PhaseInv, [Next]_vars
  PROVE  ShapeInv' /\ PhaseInv'
<1>. USE DEF Early, Constructing, At_, To, world, verdict, answer
<1>0. /\ WorldInv' /\ Len(files') >= Len(files)
      /\ Identities \subseteq Identities' /\ Handles \subseteq Handles'
      /\ Copies \subseteq Copies'
  BY WorldStep, MoreFiles
<1>00. /\ \A n \in 1..Len(files) :
            /\ read_file_identity(n) \in Identities
            /\ read_file_identity(n).file = n
            /\ read_file_identity(n).len = Len(files[n].marks)
            /\ read_file_identity(n) # NoFile
       /\ path \in 1..Len(files) /\ Now \in Content
       /\ NoFile \in Identities /\ NoHandle \in Handles
       /\ NoCopy \in Copies
  BY IdentityOf
<1>000. source \in 0..Len(files')
  BY <1>0 DEF ShapeInv, WorldInv
<1>1. CASE Call
  <2>1. PICK k \in Calls :
          /\ call' = k
          /\ To(CASE k.op \in {"open", "open_encrypted"} -> "capture"
                  [] k.op = "open_sfx" -> "sfx"
                  [] k.op = "extract_stub" -> "probe"
                  [] OTHER -> IF k.offset = 0 THEN "capture" ELSE "magic")
          /\ seen' = IF k.op = "open_at_offset"
                     THEN {[format |-> "any", offset |-> k.offset]} ELSE {}
    BY <1>1 DEF Call
  <2>2. k.offset \in Nat /\ k.op \in Ops
    BY OpeningAssumption
  <2>3. pc' \in {"capture", "sfx", "probe", "magic"}
    BY <2>1
  <2>4. pc' = "magic" => k.op = "open_at_offset"
    BY <2>1, <2>2 DEF Ops
  <2>. DEFINE v == [format |-> "any", offset |-> k.offset]
  <2>5. v \in Verdicts
    BY <2>2 DEF Verdicts
  <2>50. seen' = IF k.op = "open_at_offset" THEN {v} ELSE {}
    BY <2>1
  <2>. HIDE DEF v
  <2>51. /\ seen' \subseteq Verdicts /\ \A d, e \in seen' : d = e
         /\ pc' = "magic" => seen' # {}
    BY <2>4, <2>5, <2>50
  <2>6. ShapeInv'
    BY <1>0, <1>000, <1>1, <2>1, <2>3, <2>51 DEF Call, ShapeInv
  <2>7. PhaseInv'
    BY <1>1, <2>3, <2>51 DEF Call, PhaseInv
  <2>. QED
    BY <2>6, <2>7
<1>2. CASE capture_read_identity
  <2>1. ShapeInv'
    BY <1>0, <1>00, <1>000, <1>2 DEF capture_read_identity, ShapeInv, PhaseInv
  <2>2. PhaseInv'
    BY <1>2 DEF capture_read_identity, PhaseInv
  <2>. QED
    BY <2>1, <2>2
<1>3. CASE Detect
  <2>1. ASSUME seen' = {[format |-> f, offset |-> 0] :
                          f \in detect(Now, call.suffix)},
               detect(Now, call.suffix) # {}
        PROVE  /\ seen' \subseteq Verdicts /\ \A d, e \in seen' : d = e
               /\ seen' # {} /\ \A d \in seen' : d.format \in Formats
    <3>1. /\ detect(Now, call.suffix) \subseteq Formats
          /\ \A f, g \in detect(Now, call.suffix) : f = g
      BY DetectIsOne
    <3>. DEFINE F == detect(Now, call.suffix)
    <3>2. F \in SUBSET (Formats \union {"any"}) /\ F # {} /\ 0 \in Nat
      BY <2>1, <3>1
    <3>3. seen' = {[format |-> f, offset |-> 0] : f \in F}
      BY <2>1
    <3>4. F \subseteq Formats /\ \A f, g \in F : f = g
      BY <3>1
    <3>. HIDE DEF F
    <3>. QED
      BY <3>2, <3>3, <3>4, VerdictsOf
  <2>20. looks' \subseteq 1..Len(files')
    BY <1>0, <1>00, <1>3 DEF Detect, ShapeInv
  <2>2. ShapeInv'
    BY <1>0, <1>00, <1>000, <1>3, <2>1, <2>20 DEF Detect, ShapeInv, Refuse
  <2>3. PhaseInv'
    BY <1>3, <2>1 DEF Detect, PhaseInv, Refuse
  <2>. QED
    BY <2>2, <2>3
<1>4. CASE open_as_format
  <2>1. seen # {} /\ seen \subseteq Verdicts
    BY <1>4 DEF open_as_format, PhaseInv, ShapeInv
  <2>2. Sees(seen) \in Verdicts
    BY <2>1 DEF Sees
  <2>. DEFINE f == Sees(seen).format
  <2>3. CASE Constructs(new_read(f)) /\ UNCHANGED <<temps, listed, ratio, result>>
    <3>1. f \in Formats
      BY <1>4, <2>1 DEF open_as_format, PhaseInv, Sees
    <3>2. /\ handle' \in Handles /\ handle'.format = f /\ handle'.reads = 0
          /\ handle'.at = {} /\ handle'.owned = 0
          /\ pc' \in {"native", "revalidate"}
      BY <2>3, <3>1, NewHandle DEF Constructs
    <3>3. ShapeInv'
      BY <1>0, <1>000, <1>4, <2>3, <3>2 DEF open_as_format, ShapeInv
    <3>4. PhaseInv'
      BY <1>4, <2>3, <3>1, <3>2 DEF open_as_format, PhaseInv, Formats
    <3>. QED
      BY <3>3, <3>4
  <2>4. CASE Refuse
    <3>1. ShapeInv'
      BY <1>0, <1>00, <1>000, <1>4, <2>4 DEF open_as_format, ShapeInv, Refuse
    <3>2. PhaseInv'
      BY <1>4, <2>4 DEF open_as_format, PhaseInv, Refuse
    <3>. QED
      BY <3>1, <3>2
  <2>. QED
    BY <1>4, <2>3, <2>4 DEF open_as_format
<1>5. CASE revalidate_read_identity
  <2>1. ShapeInv'
    BY <1>0, <1>00, <1>000, <1>5 DEF revalidate_read_identity, ShapeInv,
       PhaseInv, Grant, Refuse, Handles
  <2>2. PhaseInv'
    BY <1>5 DEF revalidate_read_identity, PhaseInv, Grant, Refuse, Handles
  <2>. QED
    BY <2>1, <2>2
<1>6. CASE DetectSfx
  <2>1. detect_sfx(Now) \subseteq Verdicts /\ \A d, e \in detect_sfx(Now) : d = e
    BY <1>00, DetectSfxIsOne DEF Verdicts
  <2>20. looks' \subseteq 1..Len(files')
    BY <1>0, <1>00, <1>6 DEF DetectSfx, ShapeInv
  <2>2. ShapeInv'
    BY <1>0, <1>00, <1>000, <1>6, <2>1, <2>20 DEF DetectSfx, ShapeInv, Refuse
  <2>3. PhaseInv'
    BY <1>6 DEF DetectSfx, PhaseInv, Refuse
  <2>. QED
    BY <2>2, <2>3
<1>7. CASE magic_at
  <2>1. Sees(seen) \in Verdicts
    BY <1>7 DEF magic_at, PhaseInv, ShapeInv, Sees
  <2>20. looks' \subseteq 1..Len(files')
    BY <1>0, <1>00, <1>7 DEF magic_at, Look, ShapeInv, WorldInv
  <2>2. CASE UNCHANGED <<seen, copy>> /\ pc' = "stage"
    <3>1. ShapeInv'
      BY <1>0, <1>000, <1>7, <2>2, <2>20 DEF magic_at, ShapeInv
    <3>2. PhaseInv'
      BY <1>7, <2>2 DEF magic_at, PhaseInv
    <3>. QED
      BY <3>1, <3>2
  <2>. DEFINE d == Sees(seen)
  <2>3. CASE /\ Arms(Now, d) # {} /\ pc' = "agree"
             /\ seen' = {[format |-> f, offset |-> d.offset] :
                           f \in Arms(Now, d)}
             /\ copy' = [NoCopy EXCEPT !.got = IF d.format = "any"
                                               THEN 1 ELSE 0]
    <3>1. Arms(Now, d) \subseteq Formats /\ \A f, g \in Arms(Now, d) : f = g
      BY DEF Arms, Coded, Formats
    <3>2. /\ seen' \subseteq Verdicts /\ \A e, g \in seen' : e = g
          /\ seen' # {} /\ \A e \in seen' : e.format \in Formats
      <4>1. d.offset \in Nat
        BY <2>1 DEF Verdicts
      <4>. QED
        BY <2>3, <3>1, <4>1, VerdictsOf
    <3>3. copy' \in Copies
      BY <1>00, <2>3 DEF Copies
    <3>4. ShapeInv'
      BY <1>0, <1>000, <1>7, <2>20, <2>3, <3>2, <3>3 DEF magic_at, ShapeInv
    <3>5. PhaseInv'
      BY <1>7, <2>3, <3>2 DEF magic_at, PhaseInv
    <3>. QED
      BY <3>4, <3>5
  <2>. QED
    BY <1>7, <2>2, <2>3 DEF magic_at
<1>8. CASE try_open_in_place
  <2>1. seen \subseteq Verdicts /\ \A d, e \in seen : d = e
    BY DEF ShapeInv
  <2>2. Decline => /\ seen' \subseteq Verdicts /\ \A d, e \in seen' : d = e
                   /\ seen # {} => seen' # {}
                   /\ pc' = "stage" /\ copy' \in Copies
    BY <1>00, <2>1, DeclinedVerdict, Zenon
  <2>20. looks' \subseteq 1..Len(files')
    <3>1. looks' = looks \/ looks' = looks \union {path}
      BY <1>8 DEF try_open_in_place, Look
    <3>2. looks \subseteq 1..Len(files') /\ path \in 1..Len(files')
      BY <1>0, <1>00 DEF ShapeInv, WorldInv
    <3>. QED
      BY <3>1, <3>2
  <2>3. ShapeInv'
    BY <1>0, <1>000, <1>8, <2>2, <2>20 DEF try_open_in_place, ShapeInv
  <2>4. PhaseInv'
    BY <1>8, <2>2 DEF try_open_in_place, PhaseInv
  <2>. QED
    BY <2>3, <2>4
<1>9. CASE open_in_place
  <2>1. Sees(seen) \in Verdicts /\ seen # {}
    BY <1>9 DEF open_in_place, PhaseInv, ShapeInv, Sees
  <2>. DEFINE d == Sees(seen)
  <2>2. d.format \in Formats /\ d.offset \in Nat
    BY <1>9, <2>1 DEF open_in_place, PhaseInv, Sees, Verdicts
  <2>3. /\ handle' \in Handles /\ handle'.format = d.format
        /\ handle'.reads = 0 /\ handle'.at = {d.offset}
        /\ handle'.owned = 0 /\ pc' \in {"native", "revalidate"}
    BY <1>9, <2>2, InPlaceHandle DEF open_in_place, Constructs
  <2>4. ShapeInv'
    BY <1>0, <1>000, <1>9, <2>3 DEF open_in_place, ShapeInv
  <2>5. PhaseInv'
    BY <1>9, <2>1, <2>2, <2>3 DEF open_in_place, PhaseInv, Formats
  <2>. QED
    BY <2>4, <2>5
<1>10. CASE stage_sfx_payload
  <2>. DEFINE o == Sees(seen).offset
              size == Len(Now.marks) - o
  <2>20. looks' \subseteq 1..Len(files')
    BY <1>0, <1>00, <1>10 DEF stage_sfx_payload, Look, ShapeInv, WorldInv
  <2>1. o \in Nat /\ Len(Now.marks) \in Nat
    BY <1>00, <1>10 DEF stage_sfx_payload, PhaseInv, ShapeInv, Sees, Verdicts,
                        Content
  <2>2. CASE /\ size > 0 /\ pc' = "copy" /\ UNCHANGED answer
             /\ copy' = [file |-> path, size |-> size, got |-> 0]
             /\ temps' = [t \in {1} |-> [marks |-> <<>>, zips |-> {}]]
    <3>1. copy' \in Copies
      BY <1>00, <2>1, <2>2 DEF Copies
    <3>2. temps' \in [{1} -> Content] /\ temps' # NoTemps
      <4>1. [marks |-> <<>>, zips |-> {}] \in Content
        BY EmptySeq DEF Content
      <4>2. DOMAIN temps' = {1} /\ DOMAIN NoTemps = {}
        BY <2>2 DEF NoTemps
      <4>. QED
        BY <2>2, <4>1, <4>2
    <3>3. ShapeInv'
      BY <1>0, <1>000, <1>10, <2>2, <2>20, <3>1, <3>2 DEF stage_sfx_payload,
         ShapeInv
    <3>4. PhaseInv'
      BY <1>10, <2>2, <3>2 DEF stage_sfx_payload, PhaseInv, WorldInv
    <3>. QED
      BY <3>3, <3>4
  <2>3. CASE Refuse /\ UNCHANGED copy
    <3>1. ShapeInv'
      BY <1>0, <1>00, <1>000, <1>10, <2>20, <2>3 DEF stage_sfx_payload,
         ShapeInv, Refuse
    <3>2. PhaseInv'
      BY <1>10, <2>3 DEF stage_sfx_payload, PhaseInv, Refuse
    <3>. QED
      BY <3>1, <3>2
  <2>. QED
    BY <1>10, <2>2, <2>3 DEF stage_sfx_payload
<1>11. CASE CopyChunk
  <2>1. temps \in [{1} -> Content] /\ temps # NoTemps /\ copy \in Copies
    BY <1>11 DEF CopyChunk, PhaseInv, ShapeInv
  <2>2. temps' = [temps EXCEPT ![1].marks = Append(@, Unread)]
        /\ Unread # "end" /\ copy' = [copy EXCEPT !.got = @ + 1]
    BY <1>11 DEF CopyChunk
  <2>3. Unread \in Marks
    <3>1. seen # {} /\ copy.file # 0
      BY <1>11 DEF CopyChunk, PhaseInv
    <3>2. Sees(seen).offset + copy.got \in Nat
      BY <2>1, <3>1 DEF Sees, ShapeInv, Verdicts, Copies
    <3>3. files[copy.file] \in Content
      BY <2>1, <3>1, ElementOfSeq DEF Copies, WorldInv
    <3>. QED
      BY <2>2, <3>2, <3>3, MarkOf DEF Unread
  <2>4. temps' \in [{1} -> Content] /\ temps' # NoTemps
    <3>1. Append(temps[1].marks, Unread) \in Seq(Marks)
      BY <2>1, <2>3, AppendProperties DEF Content
    <3>2. [temps[1] EXCEPT !.marks = Append(@, Unread)] \in Content
      BY <2>1, <3>1 DEF Content
    <3>3. temps' = [temps EXCEPT ![1] =
                      [temps[1] EXCEPT !.marks = Append(@, Unread)]]
      BY <2>2
    <3>4. DOMAIN temps' = {1} /\ DOMAIN NoTemps = {}
      BY <2>1, <3>3 DEF NoTemps
    <3>. QED
      BY <2>1, <3>2, <3>3, <3>4
  <2>5. copy' \in Copies
    BY <2>1, <2>2 DEF Copies
  <2>6. ShapeInv'
    BY <1>0, <1>000, <1>11, <2>4, <2>5 DEF CopyChunk, ShapeInv
  <2>7. PhaseInv'
    BY <1>11, <2>4 DEF CopyChunk, PhaseInv
  <2>. QED
    BY <2>6, <2>7
<1>12. CASE CopyFails
  <2>1. ShapeInv'
    BY <1>0, <1>00, <1>000, <1>12 DEF CopyFails, ShapeInv, PhaseInv, Refuse
  <2>2. PhaseInv'
    BY <1>12 DEF CopyFails, PhaseInv, Refuse
  <2>. QED
    BY <2>1, <2>2
<1>13. CASE CopyEnds
  <2>1. CASE /\ temps' = [temps EXCEPT ![1].zips =
                            Slice(files[copy.file], Sees(seen).offset).zips]
             /\ pc' = "staged" /\ UNCHANGED answer
    <3>1. temps \in [{1} -> Content] /\ temps # NoTemps
      BY <1>13 DEF CopyEnds, PhaseInv, ShapeInv
    <3>2. Slice(files[copy.file], Sees(seen).offset).zips \in SUBSET Nat
      <4>1. seen # {} /\ copy.file # 0 /\ copy \in Copies
        BY <1>13 DEF CopyEnds, PhaseInv, ShapeInv
      <4>2. Sees(seen).offset \in Nat
        BY <4>1 DEF Sees, ShapeInv, Verdicts
      <4>3. files[copy.file] \in Content
        BY <4>1, ElementOfSeq DEF Copies, WorldInv
      <4>4. Slice(files[copy.file], Sees(seen).offset) \in Content
        BY <4>2, <4>3, MarkOf
      <4>. QED
        BY <4>4 DEF Content
    <3>3. temps' \in [{1} -> Content] /\ temps' # NoTemps
      <4>. DEFINE z == Slice(files[copy.file], Sees(seen).offset).zips
      <4>1. temps' = [temps EXCEPT ![1] = [temps[1] EXCEPT !.zips = z]]
        BY <2>1
      <4>. HIDE DEF z
      <4>2. z \in SUBSET Nat
        BY <3>2 DEF z
      <4>3. [temps[1] EXCEPT !.zips = z] \in Content
        BY <3>1, <4>2 DEF Content
      <4>4. DOMAIN temps' = {1} /\ DOMAIN NoTemps = {}
        BY <3>1, <4>1 DEF NoTemps
      <4>. QED
        BY <3>1, <4>1, <4>3, <4>4
    <3>4. ShapeInv'
      BY <1>0, <1>000, <1>13, <2>1, <3>3 DEF CopyEnds, ShapeInv
    <3>5. PhaseInv'
      BY <1>13, <2>1, <3>3 DEF CopyEnds, PhaseInv
    <3>. QED
      BY <3>4, <3>5
  <2>2. CASE Refuse
    <3>1. ShapeInv'
      BY <1>0, <1>00, <1>000, <1>13, <2>2 DEF CopyEnds, ShapeInv, Refuse
    <3>2. PhaseInv'
      BY <1>13, <2>2 DEF CopyEnds, PhaseInv, Refuse
    <3>. QED
      BY <3>1, <3>2
  <2>. QED
    BY <1>13, <2>1, <2>2 DEF CopyEnds
<1>14. CASE OpenStaged
  <2>1. ASSUME NEW h \in Opens(temps[1], stage_suffix_for), UNCHANGED temps,
               Grant([h EXCEPT !.owned = 1, !.at = {}])
        PROVE  ShapeInv' /\ PhaseInv'
    <3>1. temps \in [{1} -> Content] /\ temps # NoTemps /\ copy \in Copies
      BY <1>14 DEF OpenStaged, PhaseInv, ShapeInv
    <3>2. /\ h \in Handles /\ h.format \in Formats /\ h.reads \in {1, 2}
      BY <2>1, <3>1, StagedHandle
    <3>3. /\ handle' \in Handles /\ handle'.format # "none"
          /\ handle'.reads \in {1, 2} /\ handle'.owned = 1
          /\ handle'.at = {} /\ pc' = "open" /\ result' = "ok"
      <4>1. handle' = [h EXCEPT !.owned = 1, !.at = {}]
        BY <2>1 DEF Grant
      <4>2. pc' = "open" /\ result' = "ok" /\ 1 \in 0..2
        BY <2>1 DEF Grant
      <4>3. "none" \notin Formats
        BY DEF Formats
      <4>. QED
        BY <3>2, <4>1, <4>2, <4>3 DEF Handles
    <3>4. ShapeInv'
      BY <1>0, <1>000, <1>14, <2>1, <3>3 DEF OpenStaged, ShapeInv, Grant
    <3>5. PhaseInv'
      BY <1>14, <2>1, <3>1, <3>3 DEF OpenStaged, PhaseInv, Grant
    <3>. QED
      BY <3>4, <3>5
  <2>2. CASE Refuse
    <3>1. ShapeInv'
      BY <1>0, <1>00, <1>000, <1>14, <2>2 DEF OpenStaged, ShapeInv, Refuse
    <3>2. PhaseInv'
      BY <1>14, <2>2 DEF OpenStaged, PhaseInv, Refuse
    <3>. QED
      BY <3>1, <3>2
  <2>. QED
    BY <1>14, <2>1, <2>2 DEF OpenStaged
<1>15. CASE DetectAgain
  <2>1. detect_sfx(Now) \subseteq Verdicts /\ \A d, e \in detect_sfx(Now) : d = e
    BY <1>00, DetectSfxIsOne DEF Verdicts
  <2>2. ShapeInv'
    BY <1>0, <1>00, <1>000, <1>15, <2>1 DEF DetectAgain, ShapeInv, Refuse
  <2>3. PhaseInv'
    BY <1>15 DEF DetectAgain, PhaseInv, Refuse
  <2>. QED
    BY <2>2, <2>3
<1>16. CASE StatStub
  <2>1. ShapeInv'
    BY <1>0, <1>00, <1>000, <1>16 DEF StatStub, ShapeInv, PhaseInv
  <2>2. PhaseInv'
    BY <1>16 DEF StatStub, PhaseInv
  <2>. QED
    BY <2>1, <2>2
<1>17. CASE OpenStub
  <2>1. seen # {} /\ seen \subseteq Verdicts
    BY <1>17 DEF OpenStub, PhaseInv, ShapeInv
  <2>2. Sees(seen).offset \in Nat
    BY <2>1 DEF Sees, Verdicts
  <2>3. [file |-> path, size |-> Sees(seen).offset, got |-> 0] \in Copies
    BY <1>00, <2>2 DEF Copies
  <2>4. ShapeInv'
    BY <1>0, <1>00, <1>000, <1>17, <2>3 DEF OpenStub, ShapeInv, Refuse
  <2>5. PhaseInv'
    BY <1>17 DEF OpenStub, PhaseInv, Refuse
  <2>. QED
    BY <2>4, <2>5
<1>18. CASE ReadStub
  <2>1. ShapeInv'
    BY <1>0, <1>00, <1>000, <1>18 DEF ReadStub, ShapeInv, PhaseInv, Refuse,
       Copies
  <2>2. PhaseInv'
    BY <1>18 DEF ReadStub, PhaseInv, Refuse, Copies
  <2>. QED
    BY <2>1, <2>2
<1>19. CASE StatAgain
  <2>1. ShapeInv'
    BY <1>0, <1>00, <1>000, <1>19 DEF StatAgain, ShapeInv, PhaseInv, Refuse
  <2>2. PhaseInv'
    BY <1>19 DEF StatAgain, PhaseInv, Refuse
  <2>. QED
    BY <2>1, <2>2
<1>20. CASE List
  <2>1. CASE /\ handle.reads = 0
             /\ handle' = [handle EXCEPT !.bound = read_file_identity(path),
                                        !.file = path]
             /\ listed' = read_file_identity(path) /\ Look
    <3>0. path \in 0..Len(files) /\ looks' \subseteq 1..Len(files')
      BY <1>0, <1>00, <2>1 DEF Look, ShapeInv, WorldInv
    <3>1. /\ handle' \in Handles /\ handle'.bound = listed'
          /\ handle'.format = handle.format /\ handle'.reads = handle.reads
          /\ handle'.at = handle.at /\ handle'.owned = handle.owned
          /\ listed' \in Identities
      BY <1>00, <2>1, <3>0 DEF Handles, ShapeInv
    <3>2. ShapeInv'
      BY <1>0, <1>000, <1>20, <3>0, <3>1 DEF List, ShapeInv
    <3>3. PhaseInv'
      BY <1>20, <2>1, <3>1 DEF List, PhaseInv
    <3>. QED
      BY <3>2, <3>3
  <2>2. CASE /\ handle.reads \in DOMAIN temps /\ UNCHANGED <<handle, looks>>
             /\ listed' = [file |-> handle.file,
                           len |-> Len(temps[handle.reads].marks)]
    <3>1. temps \in [{1} -> Content] /\ handle.reads = 1
      BY <2>2 DEF ShapeInv, NoTemps
    <3>2. Len(temps[1].marks) \in Nat
      BY <3>1 DEF Content
    <3>3. listed' \in Identities /\ listed'.len = Len(temps[1].marks)
      BY <2>2, <3>1, <3>2 DEF ShapeInv, Handles, Identities
    <3>4. ShapeInv'
      BY <1>0, <1>000, <1>20, <2>2, <3>3 DEF List, ShapeInv
    <3>5. PhaseInv'
      BY <1>20, <2>2, <3>1, <3>3 DEF List, PhaseInv
    <3>. QED
      BY <3>4, <3>5
  <2>. QED
    BY <1>20, <2>1, <2>2 DEF List
<1>21. CASE payload_size_for_ratio
  <2>1. ShapeInv'
    BY <1>0, <1>00, <1>000, <1>21 DEF payload_size_for_ratio, ShapeInv,
       PhaseInv
  <2>2. PhaseInv'
    BY <1>21 DEF payload_size_for_ratio, PhaseInv
  <2>. QED
    BY <2>1, <2>2
<1>22. CASE Meddle
  <2>1. ShapeInv'
    BY <1>0, <1>00, <1>000, <1>22 DEF Meddle, ShapeInv, PhaseInv
  <2>2. PhaseInv'
    BY <1>22 DEF Meddle, PhaseInv
  <2>. QED
    BY <2>1, <2>2
<1>23. CASE UNCHANGED vars
  BY <1>23 DEF vars, ShapeInv, PhaseInv, Identities, Handles, Copies
<1>24. CASE OpenNative
  <2>1. looks' \subseteq 1..Len(files')
    BY <1>0, <1>00, <1>24 DEF OpenNative, Look, ShapeInv, WorldInv
  <2>2. CASE /\ handle' = [handle EXCEPT !.file = path] /\ pc' = "bracket"
             /\ UNCHANGED <<seen, copy, temps, listed, ratio, result>>
    <3>1. /\ handle' \in Handles /\ handle'.format = handle.format
          /\ handle'.reads = handle.reads /\ handle'.at = handle.at
          /\ handle'.owned = handle.owned
      BY <1>00, <2>2 DEF Handles, ShapeInv
    <3>2. ShapeInv'
      BY <1>0, <1>000, <1>24, <2>1, <2>2, <3>1 DEF OpenNative, ShapeInv
    <3>3. PhaseInv'
      BY <1>24, <2>2, <3>1 DEF OpenNative, PhaseInv
    <3>. QED
      BY <3>2, <3>3
  <2>3. CASE Abandon
    <3>0. pc \in {"native", "bracket"}
      BY <1>24 DEF OpenNative
    <3>1. ShapeInv'
      BY <1>0, <1>00, <1>000, <1>24, <2>1, <2>3, <3>0, Abandoned
         DEF OpenNative, ShapeInv
    <3>2. PhaseInv'
      BY <1>24, <2>3, <3>0, Abandoned DEF OpenNative, PhaseInv
    <3>. QED
      BY <3>1, <3>2
  <2>. QED
    BY <1>24, <2>2, <2>3 DEF OpenNative
<1>25. CASE StatAfter
  <2>1. CASE pc' = "revalidate" /\ UNCHANGED <<seen, copy, temps, answer>>
    <3>1. ShapeInv'
      BY <1>0, <1>000, <1>25, <2>1 DEF StatAfter, ShapeInv
    <3>2. PhaseInv'
      BY <1>25, <2>1 DEF StatAfter, PhaseInv
    <3>. QED
      BY <3>1, <3>2
  <2>2. CASE Abandon
    <3>0. pc \in {"native", "bracket"}
      BY <1>25 DEF StatAfter
    <3>1. ShapeInv'
      BY <1>0, <1>00, <1>000, <1>25, <2>2, <3>0, Abandoned
         DEF StatAfter, ShapeInv
    <3>2. PhaseInv'
      BY <1>25, <2>2, <3>0, Abandoned DEF StatAfter, PhaseInv
    <3>. QED
      BY <3>1, <3>2
  <2>. QED
    BY <1>25, <2>1, <2>2 DEF StatAfter
<1>. QED
  BY <1>1, <1>2, <1>3, <1>4, <1>5, <1>6, <1>7, <1>8, <1>9, <1>10, <1>11, <1>12,
     <1>13, <1>14, <1>15, <1>16, <1>17, <1>18, <1>19, <1>20, <1>21, <1>22,
     <1>23, <1>24, <1>25, Zenon DEF Next

\* A handle owns a copy that is there; an error leaves none.
LEMMA BackingStep ==
  ASSUME WorldInv, ShapeInv, PhaseInv, BackingInv, [Next]_vars, PhaseInv'
  PROVE  BackingInv'
<1>. USE DEF Early, Constructing, At_, To, Refuse, Grant, verdict, answer, BackingInv
<1>1. NoHandle.owned = 0
  BY DEF NoHandle
<1>2. CASE Call
  BY <1>1, <1>2 DEF Call, PhaseInv, ShapeInv
<1>3. CASE capture_read_identity
  BY <1>1, <1>3 DEF capture_read_identity, PhaseInv, ShapeInv
<1>4. CASE Detect
  BY <1>1, <1>4 DEF Detect, PhaseInv, ShapeInv
<1>5. CASE open_as_format
  BY <1>1, <1>5 DEF open_as_format, Constructs, PhaseInv, ShapeInv
<1>6. CASE revalidate_read_identity
  BY <1>1, <1>6 DEF revalidate_read_identity, PhaseInv, ShapeInv
<1>7. CASE DetectSfx
  BY <1>1, <1>7 DEF DetectSfx, PhaseInv, ShapeInv
<1>8. CASE magic_at
  BY <1>1, <1>8 DEF magic_at, PhaseInv, ShapeInv
<1>9. CASE try_open_in_place
  BY <1>1, <1>9 DEF try_open_in_place, PhaseInv, ShapeInv, Decline
<1>10. CASE open_in_place
  BY <1>1, <1>10 DEF open_in_place, Constructs, PhaseInv, ShapeInv
<1>11. CASE stage_sfx_payload
  BY <1>1, <1>11 DEF stage_sfx_payload, PhaseInv, ShapeInv
<1>12. CASE CopyChunk
  BY <1>1, <1>12 DEF CopyChunk, PhaseInv, ShapeInv
<1>13. CASE CopyFails
  BY <1>1, <1>13 DEF CopyFails, PhaseInv, ShapeInv
<1>14. CASE CopyEnds
  BY <1>1, <1>14 DEF CopyEnds, PhaseInv, ShapeInv
<1>15. CASE OpenStaged
  <2>1. ASSUME NEW h \in Opens(temps[1], stage_suffix_for), UNCHANGED temps,
               Grant([h EXCEPT !.owned = 1, !.at = {}])
        PROVE  BackingInv'
    <3>1. temps \in [{1} -> Content] /\ copy \in Copies
      BY <1>15 DEF OpenStaged, PhaseInv, ShapeInv
    <3>2. h \in Handles /\ h.file = copy.file
      BY <2>1, <3>1, StagedHandle
    <3>3. handle'.owned = 1 /\ handle'.file = copy.file /\ pc' = "open"
      BY <2>1, <3>2 DEF Handles
    <3>. QED
      BY <1>15, <2>1, <3>1, <3>3 DEF OpenStaged, PhaseInv
  <2>2. CASE Refuse
    BY <1>15, <2>2, <1>1 DEF OpenStaged, PhaseInv
  <2>. QED
    BY <1>15, <2>1, <2>2 DEF OpenStaged
<1>16. CASE DetectAgain
  BY <1>1, <1>16 DEF DetectAgain, PhaseInv, ShapeInv
<1>17. CASE StatStub
  BY <1>1, <1>17 DEF StatStub, PhaseInv, ShapeInv
<1>18. CASE OpenStub
  BY <1>1, <1>18 DEF OpenStub, PhaseInv, ShapeInv
<1>19. CASE ReadStub
  BY <1>1, <1>19 DEF ReadStub, PhaseInv, ShapeInv
<1>20. CASE StatAgain
  BY <1>1, <1>20 DEF StatAgain, PhaseInv, ShapeInv
<1>21. CASE List
  <2>1. handle'.owned = handle.owned
    BY <1>21 DEF List, ShapeInv, Handles
  <2>. QED
    BY <1>21, <2>1 DEF List, PhaseInv
<1>22. CASE payload_size_for_ratio
  BY <1>1, <1>22 DEF payload_size_for_ratio, PhaseInv, ShapeInv
<1>23. CASE Meddle
  BY <1>1, <1>23 DEF Meddle, PhaseInv, ShapeInv
<1>24. CASE UNCHANGED vars
  BY <1>24 DEF vars
<1>25. CASE OpenNative
  <2>1. CASE handle' = [handle EXCEPT !.file = path] /\ UNCHANGED <<temps, result>>
    <3>1. handle'.owned = handle.owned
      BY <2>1 DEF ShapeInv, Handles
    <3>. QED
      BY <2>1, <3>1
  <2>2. CASE Abandon
    BY <1>1, <1>25, <2>2, Abandoned DEF OpenNative, PhaseInv
  <2>. QED
    BY <1>25, <2>1, <2>2 DEF OpenNative
<1>26. CASE StatAfter
  <2>1. CASE Abandon
    BY <1>1, <1>26, <2>1, Abandoned DEF StatAfter, PhaseInv
  <2>. QED
    BY <1>26, <2>1 DEF StatAfter
<1>. QED
  BY <1>2, <1>3, <1>4, <1>5, <1>6, <1>7, <1>8, <1>9, <1>10, <1>11, <1>12,
     <1>13, <1>14, <1>15, <1>16, <1>17, <1>18, <1>19, <1>20, <1>21, <1>22,
     <1>23, <1>24, <1>25, <1>26, Zenon DEF Next

\* Looks no earlier than the file at the path are at that file.
LEMMA OneLook ==
  ASSUME NEW n \in Nat, NEW S \in SUBSET (1..n), n \in S, \A k \in S : n <= k
  PROVE  S = {n}
<1>1. \A k \in S : k = n
  OBVIOUS
<1>. QED
  BY <1>1

\* A verdict is reached on a file no earlier than the identity that is kept, and
\* the stat after the open finds any later one.
LEMMA OrderStep ==
  ASSUME WorldInv, ShapeInv, PhaseInv, OrderInv, [Next]_vars
  PROVE  OrderInv'
<1>. USE DEF Early, Constructing, Judged, At_, To, Refuse, Grant, Look, world,
         verdict, answer, OrderInv, DetectedIsRead
<1>1. /\ \A n \in 1..Len(files) : read_file_identity(n).file = n
      /\ path \in 1..Len(files) /\ (~put_back => path = Len(files))
      /\ source \in 0..Len(files) /\ looks \subseteq 1..Len(files)
      /\ bound.file \in 0..Len(files)
      /\ handle.bound.file \in 0..Len(files)
  BY IdentityOf DEF WorldInv, ShapeInv, Identities, Handles
<1>2. /\ NoFile.file = 0 /\ bound \in Identities
      /\ NoHandle.owned = 0 /\ NoHandle.format = "none"
  BY DEF NoFile, NoHandle, ShapeInv
<1>3. CASE Call
  BY <1>1, <1>2, <1>3 DEF Call, PhaseInv
<1>4. CASE capture_read_identity
  BY <1>1, <1>2, <1>4 DEF capture_read_identity
<1>5. CASE Detect
  BY <1>1, <1>2, <1>5 DEF Detect
<1>6. CASE open_as_format
  <2>. DEFINE f == Sees(seen).format
  <2>1. f \in Formats
    BY <1>6 DEF open_as_format, PhaseInv, Sees
  <2>2. CASE Constructs(new_read(f))
    <3>1. /\ handle'.format = f /\ handle'.at = {} /\ handle'.owned = 0
          /\ f \notin Lazy => handle'.bound.file = path
          /\ pc' \in {"native", "revalidate"}
      BY <1>1, <2>1, <2>2, NewHandle DEF Constructs
    <3>. QED
      BY <1>1, <1>6, <3>1 DEF open_as_format
  <2>. QED
    BY <1>6, <2>2 DEF open_as_format
<1>7. CASE revalidate_read_identity
  <2>1. CASE Refuse
    BY <1>7, <2>1 DEF revalidate_read_identity
  <2>2. CASE (bound = NoFile \/ ~Drifted) /\ Grant(handle)
    <3>1. handle.owned = 0 /\ handle.reads = 0
      BY <1>7 DEF revalidate_read_identity, PhaseInv
    <3>2. source # 0 => bound.file = path
      BY <1>1, <1>2, <1>7, <2>2 DEF revalidate_read_identity, Drifted
    <3>3. source # 0 /\ ~put_back => source = path /\ looks = {source}
      BY <1>1, <1>7, <3>2, OneLook DEF revalidate_read_identity
    <3>. QED
      BY <1>1, <1>7, <2>2, <3>1, <3>2, <3>3 DEF revalidate_read_identity
  <2>. QED
    BY <1>7, <2>1, <2>2 DEF revalidate_read_identity
<1>8. CASE DetectSfx
  BY <1>1, <1>2, <1>8 DEF DetectSfx
<1>9. CASE magic_at
  BY <1>1, <1>2, <1>9 DEF magic_at
<1>10. CASE try_open_in_place
  BY <1>1, <1>2, <1>10 DEF try_open_in_place, Decline
<1>11. CASE open_in_place
  <2>. DEFINE d == Sees(seen)
  <2>1. d.format \in Formats /\ d.offset \in Nat
    BY <1>11 DEF open_in_place, PhaseInv, ShapeInv, Sees, Verdicts
  <2>2. /\ handle'.format = d.format /\ handle'.owned = 0
        /\ d.format \notin Lazy => handle'.bound.file = path
        /\ pc' \in {"native", "revalidate"}
    BY <1>1, <1>11, <2>1, InPlaceHandle DEF open_in_place, Constructs
  <2>. QED
    BY <1>1, <1>11, <2>2 DEF open_in_place
<1>12. CASE stage_sfx_payload
  <2>1. CASE Refuse
    BY <1>12, <2>1 DEF stage_sfx_payload
  <2>2. CASE /\ bound = NoFile \/ ~Drifted
             /\ copy'.file = path /\ pc' = "copy" /\ UNCHANGED answer
    <3>1. source # 0 => path = source
      BY <1>1, <1>2, <1>12, <2>2 DEF stage_sfx_payload, Drifted
    <3>2. source # 0 /\ ~put_back => looks = {source}
      BY <1>1, <1>12, <3>1, OneLook DEF stage_sfx_payload
    <3>3. source # 0 /\ ~put_back => looks' = {source}
      BY <1>12, <3>1, <3>2 DEF stage_sfx_payload
    <3>. QED
      BY <1>1, <1>12, <2>2, <3>1, <3>3 DEF stage_sfx_payload
  <2>. QED
    BY <1>12, <2>1, <2>2 DEF stage_sfx_payload
<1>13. CASE CopyChunk
  <2>1. copy'.file = copy.file
    BY <1>13 DEF CopyChunk, PhaseInv, ShapeInv, Copies
  <2>. QED
    BY <1>1, <1>2, <1>13, <2>1 DEF CopyChunk
<1>14. CASE CopyFails
  BY <1>1, <1>2, <1>14 DEF CopyFails
<1>15. CASE CopyEnds
  BY <1>1, <1>2, <1>15 DEF CopyEnds
<1>16. CASE OpenStaged
  <2>1. ASSUME NEW h \in Opens(temps[1], stage_suffix_for), UNCHANGED temps,
               Grant([h EXCEPT !.owned = 1, !.at = {}])
        PROVE  OrderInv'
    <3>1. temps \in [{1} -> Content] /\ copy \in Copies
      BY <1>16 DEF OpenStaged, PhaseInv, ShapeInv
    <3>2. h \in Handles /\ h.file = copy.file
      BY <2>1, <3>1, StagedHandle
    <3>3. handle'.owned = 1 /\ handle'.file = copy.file /\ pc' = "open"
      BY <2>1, <3>2 DEF Handles
    <3>4. source # 0 => copy.file = source /\ (~put_back => looks = {source})
      BY <1>16 DEF OpenStaged
    <3>5. UNCHANGED <<put_back, source, looks>>
      BY <1>16 DEF OpenStaged
    <3>. QED
      BY <3>3, <3>4, <3>5
  <2>2. CASE Refuse
    BY <1>16, <2>2 DEF OpenStaged, PhaseInv
  <2>. QED
    BY <1>16, <2>1, <2>2 DEF OpenStaged
<1>17. CASE DetectAgain
  BY <1>1, <1>2, <1>17 DEF DetectAgain
<1>18. CASE StatStub
  BY <1>1, <1>2, <1>18 DEF StatStub
<1>19. CASE OpenStub
  BY <1>1, <1>2, <1>19 DEF OpenStub
<1>20. CASE ReadStub
  BY <1>1, <1>2, <1>20 DEF ReadStub
<1>21. CASE StatAgain
  BY <1>1, <1>2, <1>21 DEF StatAgain
<1>22. CASE List
  <2>1. CASE /\ handle.reads = 0
             /\ handle.bound \in {NoFile, read_file_identity(path)}
             /\ handle' = [handle EXCEPT !.bound = read_file_identity(path),
                                        !.file = path]
             /\ listed' = read_file_identity(path) /\ Look
    <3>1. handle.owned = 0 /\ listed' # NoFile
      BY <1>22, <2>1, IdentityOf DEF List, PhaseInv
    <3>2. /\ handle'.owned = 0 /\ handle'.format = handle.format
          /\ handle'.bound.file = path
      BY <1>1, <2>1, <3>1 DEF ShapeInv, Handles
    <3>3. handle.bound.file \in {0, path}
      BY <1>1, <1>2, <2>1
    <3>4. source # 0 /\ ~put_back /\ handle.format \notin Lazy =>
            path = source /\ looks = {source}
      BY <1>22, <3>1, <3>3 DEF List
    <3>. QED
      BY <1>22, <2>1, <3>1, <3>2, <3>4 DEF List
  <2>2. CASE UNCHANGED <<handle, looks>> /\ handle.reads \in DOMAIN temps
    <3>1. handle.owned = 1
      BY <1>22, <2>2 DEF List, PhaseInv, NoTemps
    <3>. QED
      BY <1>22, <2>2, <3>1 DEF List
  <2>. QED
    BY <1>22, <2>1, <2>2 DEF List
<1>23. CASE payload_size_for_ratio
  BY <1>1, <1>2, <1>23 DEF payload_size_for_ratio
<1>24. CASE Meddle
  BY <1>1, <1>2, <1>24 DEF Meddle
<1>25. CASE UNCHANGED vars
  BY <1>25 DEF vars
<1>26. CASE OpenNative
  <2>1. CASE handle' = [handle EXCEPT !.file = path] /\ pc' = "bracket"
             /\ UNCHANGED <<seen, copy, temps, listed, ratio, result>>
    <3>1. /\ handle'.format = handle.format /\ handle'.at = handle.at
          /\ handle'.bound = handle.bound
      BY <2>1 DEF ShapeInv, Handles
    <3>. QED
      BY <1>1, <1>26, <2>1, <3>1 DEF OpenNative
  <2>2. CASE Abandon
    BY <1>1, <1>2, <1>26, <2>2, Abandoned DEF OpenNative, Lazy
  <2>. QED
    BY <1>26, <2>1, <2>2 DEF OpenNative
<1>27. CASE StatAfter
  <2>1. CASE pc' = "revalidate" /\ UNCHANGED <<seen, copy, temps, answer>>
    BY <1>1, <1>27, <2>1 DEF StatAfter
  <2>2. CASE Abandon
    BY <1>1, <1>2, <1>27, <2>2, Abandoned DEF StatAfter, Lazy
  <2>. QED
    BY <1>27, <2>1, <2>2 DEF StatAfter
<1>. QED
  BY <1>3, <1>4, <1>5, <1>6, <1>7, <1>8, <1>9, <1>10, <1>11, <1>12, <1>13,
     <1>14, <1>15, <1>16, <1>17, <1>18, <1>19, <1>20, <1>21, <1>22, <1>23,
     <1>24, <1>25, <1>26, <1>27, Zenon DEF Next

\* The copy loop stops at the size it was begun with.
LEMMA CopyStep ==
  ASSUME WorldInv, ShapeInv, PhaseInv, OrderInv, CopyInv, [Next]_vars
  PROVE  CopyInv'
<1>. USE DEF Early, Constructing, At_, To, Refuse, Grant, world, verdict, answer, CopyInv,
         StagingBounded
<1>1. /\ pc \in Early \union Constructing => temps = NoTemps
      /\ DOMAIN NoTemps = {}
  BY DEF PhaseInv, NoTemps
<1>2. temps # NoTemps =>
        /\ temps \in [{1} -> Content] /\ DOMAIN temps = {1}
        /\ Len(temps[1].marks) \in Nat
  BY DEF ShapeInv, Content
<1>3. CASE Call
  BY <1>1, <1>2, <1>3 DEF Call
<1>4. CASE capture_read_identity
  BY <1>1, <1>2, <1>4 DEF capture_read_identity
<1>5. CASE Detect
  BY <1>1, <1>2, <1>5 DEF Detect
<1>6. CASE open_as_format
  BY <1>1, <1>2, <1>6 DEF open_as_format, Constructs, PhaseInv
<1>7. CASE revalidate_read_identity
  BY <1>1, <1>2, <1>7 DEF revalidate_read_identity, PhaseInv
<1>8. CASE DetectSfx
  BY <1>1, <1>2, <1>8 DEF DetectSfx
<1>9. CASE magic_at
  BY <1>1, <1>2, <1>9 DEF magic_at
<1>10. CASE try_open_in_place
  BY <1>1, <1>2, <1>10 DEF try_open_in_place, Decline
<1>11. CASE open_in_place
  BY <1>1, <1>2, <1>11 DEF open_in_place, Constructs, PhaseInv
<1>12. CASE stage_sfx_payload
  <2>. DEFINE o == Sees(seen).offset
              size == Len(Now.marks) - o
  <2>1. o \in Nat
    BY <1>12 DEF stage_sfx_payload, PhaseInv, ShapeInv, Sees, Verdicts
  <2>10. /\ Now \in Content /\ path # 0
         /\ read_file_identity(path).len = Len(Now.marks)
    BY IdentityOf DEF Now
  <2>11. Len(Now.marks) \in Nat /\ NoFile.file = 0
    BY <2>10 DEF Content, NoFile
  <2>2. CASE /\ bound = NoFile \/ ~Drifted
             /\ size > 0 /\ size <= call.cap
             /\ copy' = [file |-> path, size |-> size, got |-> 0]
             /\ temps' = [t \in {1} |-> [marks |-> <<>>, zips |-> {}]]
             /\ pc' = "copy" /\ UNCHANGED answer
    <3>1. source # 0 => size = bound.len - o
      BY <1>12, <2>10, <2>11, <2>2 DEF OrderInv, Judged, stage_sfx_payload,
         Drifted
    <3>2. /\ DOMAIN temps' = {1} /\ temps'[1].marks = <<>>
          /\ Len(<<>>) = 0 /\ size \in Nat /\ call.cap \in Nat
      BY <2>1, <2>11, <2>2, OpeningAssumption DEF ShapeInv, NoCall
    <3>3. /\ copy'.got = 0 /\ copy'.size = size /\ seen' = seen
          /\ source' = source /\ bound' = bound /\ call' = call
      BY <1>12, <2>2 DEF stage_sfx_payload
    <3>. HIDE DEF size, o
    <3>. QED
      BY <2>2, <3>1, <3>2, <3>3 DEF o
  <2>3. CASE Refuse
    BY <1>1, <1>12, <2>3 DEF stage_sfx_payload
  <2>. QED
    BY <1>12, <2>2, <2>3 DEF stage_sfx_payload
<1>13. CASE CopyChunk
  <2>1. /\ temps \in [{1} -> Content] /\ copy \in Copies
        /\ call.cap \in Nat
    BY <1>13, OpeningAssumption DEF CopyChunk, PhaseInv, ShapeInv, NoCall
  <2>2. temps' = [temps EXCEPT ![1] =
                    [temps[1] EXCEPT !.marks = Append(@, Unread)]]
    BY <1>13 DEF CopyChunk
  <2>3. /\ DOMAIN temps' = {1}
        /\ temps'[1].marks = Append(temps[1].marks, Unread)
    BY <2>1, <2>2 DEF Content
  <2>4. Len(temps'[1].marks) = Len(temps[1].marks) + 1
    <3>1. temps[1].marks \in Seq(Marks)
      BY <2>1 DEF Content
    <3>2. Append(temps[1].marks, Unread) \in Seq(Marks \union {Unread})
      BY <3>1
    <3>. QED
      BY <2>3, <3>1, <3>2
  <2>5. /\ copy'.got = copy.got + 1 /\ copy'.size = copy.size
        /\ copy.got \in Nat /\ copy.size \in Nat
    BY <1>13, <2>1 DEF CopyChunk, Copies
  <2>6. copy.got < copy.size
    BY <1>13 DEF CopyChunk, Bounded
  <2>. QED
    BY <1>13, <2>1, <2>3, <2>4, <2>5, <2>6 DEF CopyChunk
<1>14. CASE CopyFails
  BY <1>1, <1>2, <1>14 DEF CopyFails
<1>15. CASE CopyEnds
  <2>1. CASE /\ temps' = [temps EXCEPT ![1].zips =
                            Slice(files[copy.file], Sees(seen).offset).zips]
             /\ copy.got = copy.size /\ pc' = "staged" /\ UNCHANGED answer
    <3>1. temps \in [{1} -> Content] /\ temps # NoTemps
      BY <1>15 DEF CopyEnds, PhaseInv, ShapeInv
    <3>. DEFINE z == Slice(files[copy.file], Sees(seen).offset).zips
    <3>2. temps' = [temps EXCEPT ![1] = [temps[1] EXCEPT !.zips = z]]
      BY <2>1
    <3>. HIDE DEF z
    <3>3. DOMAIN temps' = {1} /\ temps'[1].marks = temps[1].marks
      BY <3>1, <3>2 DEF Content
    <3>. QED
      BY <1>2, <1>15, <2>1, <3>1, <3>3 DEF CopyEnds
  <2>2. CASE Refuse
    BY <1>1, <1>15, <2>2 DEF CopyEnds
  <2>. QED
    BY <1>15, <2>1, <2>2 DEF CopyEnds
<1>16. CASE OpenStaged
  <2>1. CASE UNCHANGED temps /\ pc' = "open"
    BY <1>2, <1>16, <2>1 DEF OpenStaged, PhaseInv
  <2>2. CASE Refuse
    BY <1>1, <1>16, <2>2 DEF OpenStaged
  <2>. QED
    BY <1>16, <2>1, <2>2 DEF OpenStaged
<1>17. CASE DetectAgain
  BY <1>1, <1>2, <1>17 DEF DetectAgain
<1>18. CASE StatStub
  BY <1>1, <1>2, <1>18 DEF StatStub
<1>19. CASE OpenStub
  BY <1>1, <1>2, <1>19 DEF OpenStub
<1>20. CASE ReadStub
  BY <1>1, <1>2, <1>20 DEF ReadStub
<1>21. CASE StatAgain
  BY <1>1, <1>2, <1>21 DEF StatAgain
<1>22. CASE List
  <2>1. handle'.owned = handle.owned
    BY <1>22 DEF List, ShapeInv, Handles
  <2>. QED
    BY <1>22, <2>1 DEF List
<1>23. CASE payload_size_for_ratio
  BY <1>1, <1>2, <1>23 DEF payload_size_for_ratio
<1>24. CASE Meddle
  BY <1>1, <1>2, <1>24 DEF Meddle
<1>25. CASE UNCHANGED vars
  BY <1>25 DEF vars
<1>26. CASE OpenNative \/ StatAfter
  <2>1. pc \in {"native", "bracket"} /\ temps = NoTemps
    BY <1>1, <1>26 DEF OpenNative, StatAfter
  <2>2. temps' = NoTemps /\ pc' \in {"bracket", "revalidate", "stage", "done"}
    BY <1>26, <2>1, Abandoned DEF OpenNative, StatAfter
  <2>. QED
    BY <1>1, <2>2
<1>. QED
  BY <1>3, <1>4, <1>5, <1>6, <1>7, <1>8, <1>9, <1>10, <1>11, <1>12, <1>13,
     <1>14, <1>15, <1>16, <1>17, <1>18, <1>19, <1>20, <1>21, <1>22, <1>23,
     <1>24, <1>25, <1>26, Zenon DEF Next

\* The denominator is of the file that was listed.
LEMMA RatioStep ==
  ASSUME WorldInv, ShapeInv, PhaseInv, RatioOfListed, [Next]_vars
  PROVE  RatioOfListed'
<1>1. CASE payload_size_for_ratio
  <2>1. /\ pc = "open" /\ listed # NoFile /\ UNCHANGED <<handle, listed>>
        /\ ratio' = IF handle.owned # 0
                    THEN {Len(temps[handle.owned].marks)}
                    ELSE IF ~SameFile(handle) THEN {}
                    ELSE {IF o <= Len(Now.marks)
                          THEN Len(Now.marks) - o ELSE 0 :
                            o \in IF handle.at = {} THEN {0} ELSE handle.at}
    BY <1>1 DEF payload_size_for_ratio, At_, To
  <2>2. /\ listed.len \in Nat /\ handle.at \in SUBSET Nat
        /\ \A o, p \in handle.at : o = p
    BY <2>1 DEF PhaseInv, ShapeInv, Handles, Identities
  <2>3. CASE handle.owned # 0
    <3>1. handle.at = {} /\ ratio' = {listed.len}
      BY <2>1, <2>3 DEF PhaseInv
    <3>. QED
      BY <2>1, <2>2, <3>1 DEF RatioOfListed
  <2>4. CASE handle.owned = 0 /\ ~SameFile(handle)
    BY <2>1, <2>4 DEF RatioOfListed
  <2>5. CASE handle.owned = 0 /\ SameFile(handle)
    <3>1. listed = read_file_identity(path)
      BY <2>1, <2>5 DEF PhaseInv, SameFile
    <3>2. listed.len = Len(Now.marks)
      BY <3>1 DEF read_file_identity, Now
    <3>3. ratio' = {IF o <= listed.len THEN listed.len - o ELSE 0 :
                      o \in IF handle.at = {} THEN {0} ELSE handle.at}
      BY <2>1, <2>5, <3>2
    <3>4. ASSUME NEW size \in ratio'
          PROVE  /\ size <= listed.len
                 /\ \A o \in handle.at :
                      size = IF o <= listed.len THEN listed.len - o ELSE 0
      <4>1. PICK o \in IF handle.at = {} THEN {0} ELSE handle.at :
                   size = IF o <= listed.len THEN listed.len - o ELSE 0
        BY <3>3
      <4>2. o \in Nat /\ \A p \in handle.at : p = o
        BY <2>2, <4>1
      <4>. QED
        BY <2>2, <4>1, <4>2
    <3>. QED
      BY <2>1, <3>4 DEF RatioOfListed
  <2>. QED
    BY <2>3, <2>4, <2>5
<1>2. CASE UNCHANGED <<ratio, listed, handle>>
  BY <1>2 DEF RatioOfListed
<1>3. CASE ratio' = {}
  BY <1>3 DEF RatioOfListed
<1>4. ~payload_size_for_ratio /\ pc # "done" => ratio' = ratio
  BY Zenon DEF Next, vars, answer, Refuse, Grant, Call,
     capture_read_identity, Detect, open_as_format,
     revalidate_read_identity, DetectSfx, magic_at, try_open_in_place,
     open_in_place, OpenNative, StatAfter, Abandon, Decline, Constructs,
     stage_sfx_payload, CopyChunk, CopyFails, CopyEnds,
     OpenStaged, DetectAgain, StatStub, OpenStub, ReadStub, StatAgain, List,
     Meddle
<1>5. pc = "done" => UNCHANGED vars
  BY DEF Next, At_, Call, capture_read_identity, Detect, open_as_format,
     revalidate_read_identity, DetectSfx, magic_at, try_open_in_place,
     open_in_place, OpenNative, StatAfter, Abandon, Decline, Constructs,
     stage_sfx_payload, CopyChunk, CopyFails, CopyEnds,
     OpenStaged, DetectAgain, StatStub, OpenStub, ReadStub, StatAgain, List,
     payload_size_for_ratio, Meddle
<1>6. pc # "done" => ratio = {}
  BY DEF PhaseInv
<1>. QED
  BY <1>1, <1>2, <1>3, <1>4, <1>5, <1>6 DEF vars, answer

\* Only a caller's offset leads to a verdict without a format.
LEMMA HintStep ==
  ASSUME WorldInv, ShapeInv, PhaseInv, HintInv, [Next]_vars
  PROVE  HintInv'
<1>. USE DEF Early, At_, To, Refuse, Grant, world, verdict, answer, HintInv
<1>1. /\ Now \in Content /\ "any" \notin Formats
      /\ seen \subseteq Verdicts /\ \A d, e \in seen : d = e
  BY IdentityOf DEF Formats, ShapeInv
<1>2. CASE Call
  <2>1. /\ call'.op # "open_at_offset" => seen' = {}
        /\ pc' \in {"capture", "sfx", "probe", "magic"}
    BY <1>2 DEF Call
  <2>. QED
    BY <2>1
<1>3. CASE capture_read_identity
  BY <1>1, <1>3 DEF capture_read_identity
<1>4. CASE Detect
  <2>1. detect(Now, call.suffix) \subseteq Formats
    BY DetectIsOne
  <2>. QED
    BY <1>1, <1>4, <2>1 DEF Detect
<1>5. CASE open_as_format
  <2>. DEFINE f == Sees(seen).format
  <2>1. f \in Formats
    BY <1>5 DEF open_as_format, PhaseInv, Sees
  <2>2. Constructs(new_read(f)) => handle'.at = {}
    BY <2>1, NewHandle DEF Constructs
  <2>. QED
    BY <1>1, <1>5, <2>2 DEF open_as_format, Constructs
<1>6. CASE revalidate_read_identity
  BY <1>1, <1>6 DEF revalidate_read_identity
<1>7. CASE DetectSfx
  <2>1. \A d \in detect_sfx(Now) : d.format \in Formats
    BY <1>1, DetectSfxIsOne
  <2>. QED
    BY <1>1, <1>7, <2>1 DEF DetectSfx
<1>8. CASE magic_at
  <2>. DEFINE d == Sees(seen)
  <2>1. CASE UNCHANGED seen /\ pc' = "stage"
    BY <1>8, <2>1 DEF magic_at
  <2>2. CASE /\ seen' = {[format |-> f, offset |-> d.offset] :
                           f \in Arms(Now, d)}
             /\ copy' = [NoCopy EXCEPT !.got = IF d.format = "any"
                                               THEN 1 ELSE 0]
    <3>1. \A e \in seen' : e.format # "any"
      BY <2>2 DEF Arms, Coded
    <3>2. copy'.got = 1 => d.format = "any"
      BY <2>2 DEF NoCopy
    <3>3. d \in seen
      BY <1>8 DEF magic_at, PhaseInv, Sees
    <3>. QED
      BY <1>8, <3>1, <3>2, <3>3 DEF magic_at
  <2>. QED
    BY <1>8, <2>1, <2>2 DEF magic_at
<1>9. CASE try_open_in_place
  <2>1. CASE Decline
    <3>1. /\ pc' = "stage"
          /\ \A d \in seen' : \E e \in seen :
               d.format = IF copy.got = 1 THEN "any" ELSE e.format
      BY <1>1, <2>1, DeclinedVerdict, Zenon
    <3>. QED
      BY <1>9, <3>1 DEF try_open_in_place
  <2>. QED
    BY <1>9, <2>1 DEF try_open_in_place
<1>10. CASE open_in_place
  BY <1>10 DEF open_in_place
<1>11. CASE stage_sfx_payload
  BY <1>1, <1>11 DEF stage_sfx_payload
<1>12. CASE CopyChunk
  BY <1>1, <1>12 DEF CopyChunk
<1>13. CASE CopyFails
  BY <1>1, <1>13 DEF CopyFails
<1>14. CASE CopyEnds
  BY <1>1, <1>14 DEF CopyEnds
<1>15. CASE OpenStaged
  BY <1>1, <1>15 DEF OpenStaged
<1>16. CASE DetectAgain
  <2>1. \A d \in detect_sfx(Now) : d.format \in Formats
    BY <1>1, DetectSfxIsOne
  <2>. QED
    BY <1>1, <1>16, <2>1 DEF DetectAgain
<1>17. CASE StatStub
  BY <1>1, <1>17 DEF StatStub
<1>18. CASE OpenStub
  BY <1>1, <1>18 DEF OpenStub
<1>19. CASE ReadStub
  BY <1>1, <1>19 DEF ReadStub
<1>20. CASE StatAgain
  BY <1>1, <1>20 DEF StatAgain
<1>21. CASE List
  BY <1>1, <1>21 DEF List
<1>22. CASE payload_size_for_ratio
  BY <1>1, <1>22 DEF payload_size_for_ratio
<1>23. CASE Meddle
  BY <1>1, <1>23 DEF Meddle
<1>24. CASE UNCHANGED vars
  BY <1>24 DEF vars
<1>25. CASE OpenNative \/ StatAfter
  <2>1. pc \in {"native", "bracket"} /\ UNCHANGED call
    BY <1>25 DEF OpenNative, StatAfter
  <2>2. CASE Abandon
    BY <2>1, <2>2, Abandoned DEF NoCopy
  <2>3. CASE /\ handle' = [handle EXCEPT !.file = path] /\ pc' = "bracket"
             /\ UNCHANGED <<seen, copy>>
    <3>1. handle'.at = handle.at
      BY <2>3 DEF ShapeInv, Handles
    <3>. QED
      BY <2>1, <2>3, <3>1
  <2>4. CASE UNCHANGED <<seen, copy, handle>> /\ pc' = "revalidate"
    BY <2>1, <2>4
  <2>. QED
    BY <1>25, <2>2, <2>3, <2>4 DEF OpenNative, StatAfter
<1>. QED
  BY <1>2, <1>3, <1>4, <1>5, <1>6, <1>7, <1>8, <1>9, <1>10, <1>11, <1>12,
     <1>13, <1>14, <1>15, <1>16, <1>17, <1>18, <1>19, <1>20, <1>21, <1>22,
     <1>23, <1>24, <1>25, Zenon DEF Next

\* As long as nobody changes the file, verdicts are what detection finds in it.
LEMMA VerdictStep ==
  ASSUME WorldInv, ShapeInv, PhaseInv, HintInv, VerdictInv, [Next]_vars
  PROVE  VerdictInv'
<1>. USE DEF Early, Constructing, At_, To, Refuse, Grant, world, verdict, answer, VerdictInv
<1>1. /\ meddles \in Nat /\ files[path] \in Content
      /\ meddles = 0 => path = 1 /\ Now = files[1]
      /\ seen \subseteq Verdicts /\ \A d, e \in seen : d = e
  BY IdentityOf, OpeningAssumption DEF WorldInv, ShapeInv, Now
<1>2. CASE Call
  <2>1. /\ pc' \in {"capture", "sfx", "probe", "magic"}
        /\ pc' = "magic" => call'.op = "open_at_offset"
    <3>1. \A k \in Calls : k.op \in Ops
      BY OpeningAssumption
    <3>. QED
      BY <1>2, <3>1 DEF Call, Ops
  <2>. QED
    BY <1>1, <1>2, <2>1 DEF Call
<1>3. CASE capture_read_identity
  BY <1>1, <1>3 DEF capture_read_identity
<1>4. CASE Detect
  BY <1>1, <1>4 DEF Detect
<1>5. CASE open_as_format
  BY <1>1, <1>5 DEF open_as_format, Constructs
<1>6. CASE revalidate_read_identity
  BY <1>1, <1>6 DEF revalidate_read_identity
<1>7. CASE DetectSfx
  BY <1>1, <1>7 DEF DetectSfx
<1>8. CASE magic_at
  <2>. DEFINE d == Sees(seen)
  <2>1. d \in seen /\ seen = {d} /\ d \in Verdicts
    BY <1>1, <1>8 DEF magic_at, PhaseInv, Sees
  <2>2. CASE UNCHANGED seen /\ pc' = "stage"
    BY <1>1, <1>8, <2>2 DEF magic_at
  <2>3. CASE /\ call.suffix = "exec" /\ Arms(Now, d) # {} /\ pc' = "agree"
             /\ seen' = {[format |-> f, offset |-> d.offset] :
                           f \in Arms(Now, d)}
    <3>1. PICK f \in Arms(Now, d) : Arms(Now, d) = {f}
      BY <2>3 DEF Arms
    <3>2. /\ f \in Coded /\ Signature(At(Now, d.offset)) = {f}
          /\ d.format \in {"any", f}
      BY <3>1 DEF Arms
    <3>. DEFINE v == [format |-> f, offset |-> d.offset]
    <3>3. seen' = {v}
      BY <2>3, <3>1
    <3>4. v.format = f /\ v.offset = d.offset
      OBVIOUS
    <3>5. call.op # "open_at_offset" => v = d
      <4>1. call.op # "open_at_offset" => d.format = f
        BY <2>1, <3>2 DEF HintInv
      <4>. QED
        BY <2>1, <4>1 DEF Verdicts
    <3>. HIDE DEF v
    <3>6. Sees(seen') = v
      BY <3>3 DEF Sees
    <3>. QED
      BY <1>1, <1>8, <2>1, <2>3, <3>2, <3>3, <3>4, <3>5, <3>6 DEF magic_at
  <2>. QED
    BY <1>8, <2>2, <2>3 DEF magic_at
<1>9. CASE try_open_in_place
  <2>1. CASE Decline
    BY <1>1, <1>9, <2>1 DEF try_open_in_place, Decline
  <2>2. CASE /\ Agrees(Sees(seen).format, Now, Sees(seen).offset)
             /\ pc' = "construct" /\ UNCHANGED <<seen, copy>>
    BY <1>1, <1>9, <2>2 DEF try_open_in_place
  <2>. QED
    BY <1>9, <2>1, <2>2 DEF try_open_in_place
<1>10. CASE open_in_place
  BY <1>1, <1>10 DEF open_in_place, Constructs
<1>11. CASE stage_sfx_payload
  BY <1>1, <1>11 DEF stage_sfx_payload
<1>12. CASE CopyChunk
  BY <1>1, <1>12 DEF CopyChunk
<1>13. CASE CopyFails
  BY <1>1, <1>13 DEF CopyFails
<1>14. CASE CopyEnds
  BY <1>1, <1>14 DEF CopyEnds
<1>15. CASE OpenStaged
  BY <1>1, <1>15 DEF OpenStaged
<1>16. CASE DetectAgain
  BY <1>1, <1>16 DEF DetectAgain
<1>17. CASE StatStub
  BY <1>1, <1>17 DEF StatStub
<1>18. CASE OpenStub
  BY <1>1, <1>18 DEF OpenStub
<1>19. CASE ReadStub
  BY <1>1, <1>19 DEF ReadStub
<1>20. CASE StatAgain
  BY <1>1, <1>20 DEF StatAgain
<1>21. CASE List
  BY <1>1, <1>21 DEF List
<1>22. CASE payload_size_for_ratio
  BY <1>1, <1>22 DEF payload_size_for_ratio
<1>23. CASE Meddle
  BY <1>1, <1>23 DEF Meddle
<1>24. CASE UNCHANGED vars
  BY <1>24 DEF vars
<1>25. CASE OpenNative \/ StatAfter
  <2>1. pc' \in {"bracket", "revalidate", "stage", "done"} /\ UNCHANGED world
    BY <1>25 DEF OpenNative, StatAfter, Abandon, Decline
  <2>. QED
    BY <1>1, <2>1
<1>. QED
  BY <1>2, <1>3, <1>4, <1>5, <1>6, <1>7, <1>8, <1>9, <1>10, <1>11, <1>12,
     <1>13, <1>14, <1>15, <1>16, <1>17, <1>18, <1>19, <1>20, <1>21, <1>22,
     <1>23, <1>24, <1>25, Zenon DEF Next

\* The start of a copy is the offset it was copied from.
LEMMA ShiftOfStart ==
  ASSUME NEW o \in Nat
  PROVE  Shift({0}, o) = {o}
  BY DEF Shift

\* A handle on base reads the payload at o, and so does a re-open by the name.
IsRead(f, c, o, base) ==
    /\ Reads(f, c, base) = {o} /\ Reads(f, Slice(c, o), 0) = {0}
    /\ call.op # "open_at_offset" =>
         Reopened(c, call.suffix) = Reads(f, c, base)

\* A payload that passed its gate, and that UnRAR has opened where it is one,
\* is what the handle reads and what a re-open by the name reaches.
LEMMA PassedIsRead ==
  ASSUME NEW f, NEW c \in Content, NEW o \in Nat, Passed(f, c, o),
         f = "rar" => rar_opens(c),
         NEW base, base = IF f = "sevenz" THEN o ELSE 0
  PROVE  IsRead(f, c, o, base)
<1>1. Reads(f, c, base) = {o} /\ Reads(f, Slice(c, o), 0) = {0}
  BY GateNamesPayload DEF Passed, Coded
<1>. DEFINE d == [format |-> f, offset |-> o]
<1>2. ASSUME call.op # "open_at_offset"
      PROVE  Reopened(c, call.suffix) = {o}
  <2>1. detect_sfx(c) = {d} /\ call.suffix = "exec"
    BY <1>2 DEF Passed
  <2>2. detect(c, call.suffix) = {}
    <3>1. At(c, 0) = "stub"
      BY <2>1, DetectSfxIsOne
    <3>. QED
      BY <3>1, DetectIsOne
  <2>3. d.format = f /\ d.offset = o
    OBVIOUS
  <2>. HIDE DEF d
  <2>4. Reopened(c, call.suffix) =
          UNION {Shift(Reads(e.format, Slice(c, e.offset), 0), e.offset) :
                   e \in {d}}
    BY <2>1, <2>2 DEF Reopened
  <2>. QED
    BY <1>1, <2>3, <2>4, ShiftOfStart
<1>. QED
  BY <1>1, <1>2 DEF IsRead

\* Four actions give a call its handle, and one is what it lists.
LEMMA HandleFrom ==
  ASSUME ShapeInv, PhaseInv, [Next]_vars, meddles' = 0, WorldInv,
         pc' \in Constructing \union {"open"}
  PROVE  /\ \/ open_as_format \/ open_in_place \/ OpenStaged
            \/ pc = "native" /\ pc' = "bracket" /\ OpenNative
            \/ /\ \/ pc \in {"bracket", "revalidate", "open"} /\ pc' # "native"
                  \/ pc' = pc
               /\ UNCHANGED <<temps, seen>> /\ (UNCHANGED handle \/ List)
         /\ meddles = 0 /\ UNCHANGED <<files, path, call>>
<1>. USE DEF Early, Constructing, At_, To, Refuse, Grant, world, verdict,
         answer
<1>1. meddles \in Nat
  BY OpeningAssumption DEF WorldInv
<1>2. CASE Meddle
  BY <1>1, <1>2 DEF Meddle
<1>3. CASE UNCHANGED vars
  BY <1>3 DEF vars
<1>4. CASE Call
  <2>1. pc' \in {"capture", "sfx", "probe", "magic"}
    BY <1>4 DEF Call
  <2>. QED
    BY <2>1
<1>5. CASE capture_read_identity \/ Detect \/ DetectSfx \/ magic_at
  BY <1>5 DEF capture_read_identity, Detect, DetectSfx, magic_at
<1>6. CASE try_open_in_place \/ stage_sfx_payload \/ CopyChunk \/ CopyFails
             \/ CopyEnds
  BY <1>6 DEF try_open_in_place, stage_sfx_payload, CopyChunk, CopyFails,
              CopyEnds, Decline
<1>7. CASE DetectAgain \/ StatStub \/ OpenStub \/ ReadStub \/ StatAgain
  BY <1>7 DEF DetectAgain, StatStub, OpenStub, ReadStub, StatAgain
<1>8. CASE revalidate_read_identity \/ payload_size_for_ratio
  BY <1>8 DEF revalidate_read_identity, payload_size_for_ratio
<1>9. CASE open_as_format \/ open_in_place \/ OpenStaged
  BY <1>9 DEF open_as_format, open_in_place, OpenStaged
<1>10. CASE List
  BY <1>10 DEF List
<1>11. CASE OpenNative \/ StatAfter
  <2>1. Abandon => pc' \in {"stage", "done"}
    BY DEF Abandon, Decline
  <2>. QED
    BY <1>11, <2>1 DEF OpenNative, StatAfter
<1>. QED
  BY <1>2, <1>3, <1>4, <1>5, <1>6, <1>7, <1>8, <1>9, <1>10, <1>11, Zenon
     DEF Next

\* As long as nobody changes the file, a handle, its ratio and its re-opens are
\* of the payload detection named.
LEMMA PayloadStep ==
  ASSUME WorldInv, ShapeInv, PhaseInv, HintInv, VerdictInv, PayloadInv,
         [Next]_vars
  PROVE  PayloadInv'
<1>. USE DEF Constructing
<1>. SUFFICES ASSUME meddles' = 0, pc' \in Constructing \union {"open"}
              PROVE  PayloadInv'
  BY DEF PayloadInv
<1>1. /\ meddles = 0 /\ files' = files /\ call' = call
      /\ path = 1 /\ Now = files[1] /\ files[1] \in Content
      /\ path' = path
  <2>1. meddles = 0 /\ UNCHANGED <<files, path, call>>
    BY HandleFrom
  <2>. QED
    BY <2>1, IdentityOf DEF VerdictInv, Now
<1>. DEFINE c == files[1]
<1>2. CASE open_as_format
  <2>. DEFINE f == Sees(seen).format
              F == detect(c, call.suffix)
  <2>1. /\ handle' = new_read(f) /\ pc = "build"
        /\ UNCHANGED <<seen, temps>>
    BY <1>2 DEF open_as_format, Constructs, At_, To, Refuse, verdict
  <2>2. /\ seen # {} /\ Sees(seen) \in seen
        /\ seen = {[format |-> g, offset |-> 0] : g \in F}
    BY <1>1, <2>1 DEF PhaseInv, VerdictInv, Sees
  <2>3. f \in F /\ F = {f} /\ f \in Formats
    <3>1. PICK g \in F : Sees(seen) = [format |-> g, offset |-> 0]
      BY <2>2
    <3>. QED
      BY <3>1, DetectIsOne
  <2>4. /\ handle'.format = f /\ handle'.base = 0
        /\ handle'.at = {} /\ handle'.owned = 0
    BY <2>1, <2>3, NewHandle
  <2>. HIDE DEF f, F
  <2>5. ReadsAt(handle)' = Reads(f, c, 0)
    BY <1>1, <2>4 DEF ReadsAt, Now
  <2>6. ReopensAt(handle)' = Reopened(c, call.suffix)
    BY <1>1, <2>4 DEF ReopensAt, Now
  <2>7. Reopened(c, call.suffix) = UNION {Reads(g, c, 0) : g \in F}
    BY <2>3 DEF Reopened, F
  <2>8. UNION {Reads(g, c, 0) : g \in F} = Reads(f, c, 0)
    BY <2>3
  <2>. QED
    BY <2>4, <2>5, <2>6, <2>7, <2>8 DEF PayloadInv
<1>3. CASE open_in_place
  <2>. DEFINE d == Sees(seen)
              f == d.format
              o == d.offset
              base == IF f = "sevenz" THEN o ELSE 0
  <2>1. /\ handle' = in_place_handle(f, o) /\ pc = "construct"
        /\ pc' = IF handle'.format \in Lazy THEN "revalidate" ELSE "native"
        /\ UNCHANGED <<seen, temps>>
    BY <1>3 DEF open_in_place, Constructs, At_, To, verdict
  <2>2. d \in seen /\ d \in Verdicts /\ seen = {d} /\ o \in Nat
    BY <2>1, Sole DEF PhaseInv, ShapeInv, Sees, Verdicts
  <2>3. f \in Formats
    BY <1>1, <2>1 DEF VerdictInv, Coded, Formats
  <2>4. /\ handle'.format = f /\ handle'.base = base /\ handle'.at = {o}
        /\ handle'.owned = 0
    BY <2>1, <2>2, <2>3, InPlaceHandle
  <2>5. d = [format |-> f, offset |-> o]
    BY <2>2 DEF Verdicts
  <2>6. Passed(f, c, o)
    <3>1. /\ f \in Coded /\ Signature(At(c, o)) = {f} /\ Agrees(f, c, o)
          /\ call.suffix = "exec"
          /\ call.op # "open_at_offset" => seen = detect_sfx(c)
      BY <1>1, <2>1 DEF VerdictInv
    <3>. HIDE DEF d
    <3>. QED
      BY <2>2, <2>5, <3>1 DEF Passed
  <2>. HIDE DEF d, f, o
  <2>7. CASE pc' = "native"
    BY <1>1, <2>4, <2>6, <2>7 DEF PayloadInv, Passed
  <2>8. CASE f \in Lazy
    <3>1. f # "rar"
      BY <2>8 DEF Lazy
    <3>20. IsRead(f, c, o, base)
      BY <1>1, <2>2, <2>6, <3>1, PassedIsRead
    <3>2. /\ Reads(f, c, base) = {o} /\ Reads(f, Slice(c, o), 0) = {0}
          /\ call.op # "open_at_offset" =>
               Reopened(c, call.suffix) = Reads(f, c, base)
      BY <3>20 DEF IsRead
    <3>. HIDE DEF base
    <3>3. ReopensAt(handle)' = Reopened(c, call.suffix)
      BY <1>1, <2>4 DEF ReopensAt, Now
    <3>4. ReadsAt(handle)' = Reads(f, c, base)
      BY <1>1, <2>4 DEF ReadsAt, Now
    <3>5. pc' = "revalidate"
      BY <2>1, <2>4, <2>8
    <3>. QED
      BY <1>1, <2>4, <3>2, <3>3, <3>4, <3>5 DEF PayloadInv
  <2>. QED
    BY <2>1, <2>4, <2>7, <2>8
<1>4. CASE OpenStaged
  <2>1. PICK h \in Opens(temps[1], stage_suffix_for) :
               /\ handle' = [h EXCEPT !.owned = 1, !.at = {}]
               /\ UNCHANGED <<temps, seen>> /\ pc = "staged" /\ pc' = "open"
    BY <1>4 DEF OpenStaged, At_, To, Grant, Refuse, verdict
  <2>2. temps[1] \in Content /\ copy \in Copies
    BY <2>1 DEF PhaseInv, ShapeInv
  <2>. DEFINE t == temps[1]
              s == stage_suffix_for
  <2>3. /\ h \in Handles
        /\ detect(t, s) # {} => h.format \in detect(t, s) /\ h.base = 0
        /\ detect(t, s) = {} => s = "exec"
    BY <2>1, <2>2, StagedHandle
  <2>4. /\ handle'.format = h.format
        /\ handle'.base = h.base /\ handle'.owned = 1 /\ handle'.at = {}
    BY <2>1, <2>3 DEF Handles
  <2>6. ASSUME call.op # "open_at_offset"
        PROVE  Reopened(t, s) = Reads(h.format, t, h.base)
    <3>1. seen # {} /\ Sees(seen) \in seen /\ Sees(seen) \in Verdicts
      BY <2>1 DEF PhaseInv, ShapeInv, Sees
    <3>2. Sees(seen).format # "any" /\ Sees(seen).format \in Formats
      BY <2>6, <3>1 DEF HintInv, Verdicts
    <3>3. s # "exec"
      BY <3>2 DEF stage_suffix_for, Formats
    <3>. DEFINE F == detect(t, s)
    <3>4. h.format \in F /\ F = {h.format} /\ h.base = 0
      BY <2>3, <3>3, DetectIsOne
    <3>5. Reopened(t, s) = UNION {Reads(g, t, 0) : g \in F}
      BY <3>4 DEF Reopened
    <3>. HIDE DEF F
    <3>. QED
      BY <3>4, <3>5
  <2>7. ReopensAt(handle)' = Shift(Reopened(t, s), Sees(seen).offset)
    BY <1>1, <2>1, <2>4 DEF ReopensAt, stage_suffix_for
  <2>8. ReadsAt(handle)' =
          Shift(Reads(h.format, t, h.base), Sees(seen).offset)
    BY <1>1, <2>1, <2>4 DEF ReadsAt
  <2>. QED
    BY <1>1, <2>1, <2>4, <2>6, <2>7, <2>8 DEF PayloadInv
<1>5. CASE pc = "native" /\ pc' = "bracket" /\ OpenNative
  <2>1. /\ handle' = [handle EXCEPT !.file = path] /\ UNCHANGED <<seen, temps>>
        /\ handle.format = "rar" => rar_opens(c)
    BY <1>1, <1>5 DEF OpenNative, Abandon, Decline, Refuse, At_, To
  <2>2. /\ handle'.format = handle.format /\ handle'.base = handle.base
        /\ handle'.owned = handle.owned /\ handle'.at = handle.at
        /\ handle.owned = 0 /\ handle.at \in SUBSET Nat
    BY <1>5, <2>1 DEF PhaseInv, ShapeInv, Handles
  <2>3. ReopensAt(handle)' = ReopensAt(handle)
    BY <1>1, <2>1, <2>2 DEF ReopensAt, stage_suffix_for, Now
  <2>4. ReadsAt(handle)' = ReadsAt(handle)
    BY <1>1, <2>1, <2>2 DEF ReadsAt, Now
  <2>5. CASE handle.at = {}
    BY <1>1, <1>5, <2>2, <2>3, <2>4, <2>5 DEF PayloadInv
  <2>6. ASSUME NEW o \in handle.at
        PROVE  PayloadInv'
    <3>1. /\ Passed(handle.format, c, o) /\ o \in Nat /\ handle.at = {o}
          /\ handle.base = IF handle.format = "sevenz" THEN o ELSE 0
      BY <1>1, <1>5, <2>2, <2>6 DEF PayloadInv, PhaseInv
    <3>10. c \in Content /\ (handle.format = "rar" => rar_opens(c))
      BY <1>1, <2>1
    <3>11. IsRead(handle.format, c, o, handle.base)
      BY <3>1, <3>10, PassedIsRead
    <3>2. /\ Reads(handle.format, c, handle.base) = {o}
          /\ Reads(handle.format, Slice(c, o), 0) = {0}
          /\ call.op # "open_at_offset" =>
               Reopened(c, call.suffix) = Reads(handle.format, c, handle.base)
      BY <3>11 DEF IsRead
    <3>3. ReopensAt(handle) = Reopened(c, call.suffix)
      BY <1>1, <2>2 DEF ReopensAt
    <3>4. ReadsAt(handle) = Reads(handle.format, c, handle.base)
      BY <1>1, <2>2 DEF ReadsAt
    <3>. QED
      BY <1>1, <1>5, <2>2, <2>3, <2>4, <3>1, <3>2, <3>3, <3>4 DEF PayloadInv
  <2>. QED
    BY <2>5, <2>6
<1>6. CASE /\ \/ pc \in {"bracket", "revalidate", "open"} /\ pc' # "native"
              \/ pc' = pc
           /\ UNCHANGED <<temps, seen>> /\ (UNCHANGED handle \/ List)
  <2>1. /\ handle'.format = handle.format
        /\ handle'.base = handle.base /\ handle'.owned = handle.owned
        /\ handle'.at = handle.at
    BY <1>6 DEF List, ShapeInv, Handles
  <2>2. ReopensAt(handle)' = ReopensAt(handle)
    BY <1>1, <1>6, <2>1 DEF ReopensAt, stage_suffix_for, Now
  <2>3. ReadsAt(handle)' = ReadsAt(handle)
    BY <1>1, <1>6, <2>1 DEF ReadsAt, Now
  <2>4. \A f, o : Passed(f, files[1], o)' = Passed(f, files[1], o)
    BY <1>1 DEF Passed
  <2>. QED
    BY <1>1, <1>6, <2>1, <2>2, <2>3, <2>4 DEF PayloadInv
<1>. QED
  BY <1>2, <1>3, <1>4, <1>5, <1>6, HandleFrom, Zenon

-----------------------------------------------------------------------------
(* The invariant, and what it says.                                        *)

\* A call that has not begun holds nothing.
LEMMA IInvInit == Init => IInv
<1>. SUFFICES ASSUME Init PROVE IInv
  OBVIOUS
<1>1. PICK c \in Contents : files = <<c>>
  BY DEF Init
<1>2. c \in Content /\ 0 \in 0..MaxMeddles
  BY OpeningAssumption
<1>20. files \in Seq(Content) /\ Len(files) = 1
  BY <1>1, <1>2
<1>21. put_back \in BOOLEAN /\ path = 1 /\ meddles = 0
  BY DEF Init
<1>3. WorldInv
  BY <1>2, <1>20, <1>21 DEF WorldInv
<1>4. NoFile \in Identities /\ NoHandle \in Handles /\ NoCopy \in Copies
  BY <1>3, IdentityOf
<1>5. ShapeInv /\ PhaseInv
  BY <1>3, <1>4 DEF Init, ShapeInv, PhaseInv, Early, Constructing, WorldInv
<1>6. BackingInv
  BY DEF Init, BackingInv, NoHandle
<1>7. OrderInv
  BY DEF Init, OrderInv, Judged, Constructing, DetectedIsRead, NoHandle
<1>8. CopyInv
  BY DEF Init, CopyInv, StagingBounded, NoTemps
<1>9. RatioOfListed
  BY DEF Init, RatioOfListed
<1>10. HintInv /\ VerdictInv /\ PayloadInv
  BY DEF Init, HintInv, VerdictInv, PayloadInv, NoHandle
<1>. QED
  BY <1>3, <1>5, <1>6, <1>7, <1>8, <1>9, <1>10 DEF IInv

\* The parts of the invariant together.
LEMMA IInvStep == IInv /\ [Next]_vars => IInv'
  BY WorldStep, StateStep, BackingStep, OrderStep, CopyStep, RatioStep,
     HintStep, VerdictStep, PayloadStep, Zenon DEF IInv

\* The inductive invariant of opening a path: the files, the shape of what a call
\* holds, the order of its looks at the path, its copy and its verdicts.
THEOREM IInvariant == Spec => []IInv
  BY IInvInit, IInvStep, PTL DEF Spec

\* Whoever replaces the file between the identity that is kept and the last
\* look of an open is noticed, unless the file is put back: the gates, the
\* native open and the listing looked at the file of the verdict, and a copied
\* payload is of that file whatever was put back.
\* (archive.rs, revalidate_read_identity, stage_sfx_payload)
THEOREM ReadsWhatItDetected == Spec => []DetectedIsRead
<1>1. IInv => DetectedIsRead
  BY DEF IInv, OrderInv
<1>. QED
  BY <1>1, IInvariant, PTL

\* No copy of a payload passes the ceiling, and a finished one is as long as
\* the file was when it was identified.  (archive.rs, stage_sfx_payload)
THEOREM StagingIsBounded == Spec => []StagingBounded
<1>1. IInv => StagingBounded
  BY DEF IInv, CopyInv
<1>. QED
  BY <1>1, IInvariant, PTL

\* What a handle lists, what the ratio gate weighs it against and what an
\* extraction with a password opens again are one payload.
\* (archive.rs, try_open_in_place, payload_size_for_ratio)
THEOREM HandleHasOnePayload == Spec => []HandleKeepsPayload
<1>1. IInv => TypeOK
  <2>. SUFFICES ASSUME IInv PROVE TypeOK
    OBVIOUS
  <2>1. path \in 1..Len(files) /\ meddles \in 0..MaxMeddles
    BY DEF IInv, WorldInv
  <2>2. /\ bound \in Identities /\ listed \in Identities
        /\ source \in 0..Len(files) /\ copy.got \in Nat
        /\ \A d \in seen : d.format \in Formats \union {"any"}
                             /\ d.offset \in Nat
        /\ result \in {"none", "ok", "err"}
    BY DEF IInv, ShapeInv, Verdicts, Copies
  <2>3. DOMAIN temps \subseteq {1}
    BY DEF IInv, ShapeInv, NoTemps
  <2>4. pc = "open" => result = "ok" /\ handle # NoHandle
    BY DEF IInv, PhaseInv, NoHandle
  <2>. QED
    BY <2>1, <2>2, <2>3, <2>4 DEF IInv, BackingInv, TypeOK
<1>2. IInv => InPlaceReadsNamed
  BY DEF IInv, PayloadInv, VerdictInv, InPlaceReadsNamed, Now
<1>3. IInv => RatioOfListed
  BY DEF IInv
<1>4. IInv => ReopenReadsPayload
  BY DEF IInv, PayloadInv, ReopenReadsPayload
<1>. QED
  BY <1>1, <1>2, <1>3, <1>4, IInvariant, PTL DEF HandleKeepsPayload
=============================================================================
