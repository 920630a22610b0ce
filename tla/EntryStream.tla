---------------------------- MODULE EntryStream ----------------------------
(***************************************************************************)
(* One entry read without extracting it to disk: `extract_to_memory`,      *)
(* `extract_to_stream` under each `StreamBound`, and the digest of an      *)
(* entry whose listing carries no CRC32.                                   *)
(*                                                                         *)
(* ZIP and 7z buffer the entry, RAR stages it to a file, libarchive        *)
(* assembles its blocks in memory or hands out an incremental reader; the  *)
(* stream the caller reads is that source under up to two `HardCapReader`  *)
(* layers.  A payload is what the decoder hands over: its blocks (with the *)
(* holes of a sparse file, or an offset that goes backwards) and whether   *)
(* it then ends or fails; it need not agree with the declared size.        *)
(*                                                                         *)
(* A bound is a set of at most one number: {} is the code's `None`.        *)
(***************************************************************************)
EXTENDS NumberSets

CONSTANTS
    Payloads,       \* what decoders may produce
    Declarations,   \* what a listing may declare: a set of bounds
    Limits,         \* the caller's ExtractionLimits: [file, total]
    Bounds,         \* the StreamBounds a caller may choose: [kind, cap]
    Fallback,       \* MAX_UNKNOWN_MEMORY_EXTRACT
    DefaultMaxFile, \* DEFAULT_MAX_FILE_SIZE, the digest's ceiling
    Asks            \* the sizes of the buffers callers read into

IsBound(b) == b \subseteq Nat /\ \A m, n \in b : m = n

ASSUME PayloadAssumption ==
    Payloads \subseteq
      [blocks : Seq([hole : Int, size : Nat]), fails : BOOLEAN]

ASSUME BoundAssumption ==
    /\ \A d \in Declarations : IsBound(d)
    /\ \A l \in Limits : IsBound(l.file) /\ IsBound(l.total)
    /\ \A b \in Bounds : /\ b.kind \in {"DeclaredSize", "Cap", "Unbounded"}
                          /\ IsBound(b.cap) /\ (b.cap # {}) = (b.kind = "Cap")
    /\ Fallback \in Nat /\ DefaultMaxFile \in Nat

\* The digest reads into a buffer with room.
ASSUME AskAssumption ==
    Asks \subseteq Nat /\ \E m \in Asks : m > 0 /\ \A n \in Asks : n <= m

VARIABLES
    backend, declared, payload, limits,   \* chosen once
    call,       \* the operation and, of a stream, its bound
    phase,      \* idle, gated, filling, reading or done
    at,         \* how many of the payload's blocks were taken
    buffer,     \* bytes held in memory, staged, or pushed into a hasher
    result,     \* what the call returned
    raw,        \* the innermost reader
    layers,     \* the HardCapReaders above it, innermost first
    got,        \* bytes the caller received from the stream
    last,       \* the answer to its latest read
    failed      \* the first error one of its reads returned

subject == <<backend, declared, payload, limits>>
reader == <<raw, layers, got, last, failed>>
vars == <<subject, call, phase, at, buffer, result, reader>>

Backends == {"zip", "sevenzip", "rar", "libarchive"}
Verdicts == {"InvalidData", "UnexpectedEof"}
NoCall == [op |-> "none", kind |-> "none", cap |-> {}]

Exceeds(n, bounds) == \E b \in bounds : n > b

-----------------------------------------------------------------------------
\* The caller's limits and the bound it chose.

effective_entry_cap == limits.file \cup limits.total

stream_backend_cap ==
    effective_entry_cap
      \cup (IF call.kind = "DeclaredSize" THEN declared ELSE call.cap)

\* What the operation lets the backend materialize.
Budget ==
    IF call.op = "stream" THEN stream_backend_cap ELSE effective_entry_cap

-----------------------------------------------------------------------------
\* What a payload amounts to.

Backward(p) == {i \in DOMAIN p.blocks : p.blocks[i].hole < 0}

\* How many blocks come before an offset that goes backwards.
Readable(p) ==
    IF Backward(p) = {} THEN Len(p.blocks) ELSE Min(Backward(p)) - 1

\* How far the first n blocks reach, and all that can be read.
Reach(p, n) ==
    SumOver([i \in DOMAIN p.blocks |-> p.blocks[i].hole + p.blocks[i].size],
            1..n)
Extent(p) == Reach(p, Readable(p))

Breaks(p) == p.fails \/ Backward(p) # {}

-----------------------------------------------------------------------------
\* A read of the stream: the source, then each HardCapReader over it.  An
\* answer carries the readers' next state, what was said and how much.

Answer(rd, says, n) == [rd |-> rd, says |-> says, n |-> n]

\* Cursor over a staged buffer, or archive_read_data: the latter zero-fills
\* holes, gives up the call in which it fails, and latches the end.
RawRead(rd, want) ==
    LET left == rd.raw.length - rd.raw.pos
        moved(n) == [rd EXCEPT !.raw.pos = @ + n]
        ended == [rd EXCEPT !.raw.eof = TRUE]
    IN IF rd.raw.eof \/ want = 0 THEN Answer(rd, "eof", 0)
       ELSE IF rd.raw.breaks /\ left < want THEN Answer(ended, "fault", 0)
       ELSE IF left = 0 THEN Answer(ended, "eof", 0)
       ELSE Answer(moved(Min({left, want})), "bytes", Min({left, want}))

\* Mutant: the exact bound forgets what it expects.
exactForgets(n) ==
    [cap |-> n, expected |-> {}, seen |-> 0, violation |-> "none"]

exact(n) == [cap |-> n, expected |-> {n}, seen |-> 0, violation |-> "none"]
ceiling(n) == [cap |-> n, expected |-> {}, seen |-> 0, violation |-> "none"]

\* Mutant: an overrun is reported and not latched.
LatchedForgets(a, i, v) ==
    IF v = "InvalidData" THEN Answer(a.rd, v, 0)
    ELSE Answer([a.rd EXCEPT !.layers[i].violation = v], v, 0)

\* The verdict v, kept by layer i for every later read.
Latched(a, i, v) ==
    Answer([a.rd EXCEPT !.layers[i].violation = v], v, 0)

\* What layer i asks of the reader it wraps.
Allowed(i, rd, want) ==
    Min({want, rd.layers[i].cap - rd.layers[i].seen})

\* Layer i, given what the reader it wraps answers to one byte and to
\* Allowed.
HardCapRead(i, rd, want, probe, below) ==
    LET l == rd.layers[i]
    IN IF l.violation # "none" THEN Answer(rd, l.violation, 0)
       ELSE IF want = 0 THEN Answer(rd, "eof", 0)
       ELSE IF l.seen >= l.cap
            THEN IF probe.says = "bytes" THEN Latched(probe, i, "InvalidData")
                 ELSE probe
       ELSE IF below.says = "bytes"
            THEN [below EXCEPT !.rd.layers[i].seen = @ + below.n]
       ELSE IF below.says = "eof" /\ \E e \in l.expected : l.seen < e
            THEN Latched(below, i, "UnexpectedEof")
       ELSE below

InnerRead(rd, want) ==
    HardCapRead(1, rd, want, RawRead(rd, 1),
                RawRead(rd, Allowed(1, rd, want)))
OuterRead(rd, want) ==
    HardCapRead(2, rd, want, InnerRead(rd, 1),
                InnerRead(rd, Allowed(2, rd, want)))
ReadStack(rd, want) ==
    CASE Len(rd.layers) = 0 -> RawRead(rd, want)
      [] Len(rd.layers) = 1 -> InnerRead(rd, want)
      [] OTHER -> OuterRead(rd, want)

-----------------------------------------------------------------------------
NoRaw == [length |-> 0, breaks |-> FALSE, pos |-> 0, eof |-> FALSE]

\* Every backend but libarchive states the size of every file; only
\* libarchive's blocks may leave holes or run backwards.
Init ==
    /\ backend \in Backends
    /\ declared \in Declarations
    /\ backend # "libarchive" => declared # {}
    /\ payload \in Payloads
    /\ \/ backend = "libarchive"
       \/ \A i \in DOMAIN payload.blocks : payload.blocks[i].hole = 0
    /\ limits \in Limits
    /\ call = NoCall /\ phase = "idle" /\ at = 0 /\ buffer = 0
    /\ result = "none"
    /\ raw = NoRaw /\ layers = <<>> /\ got = 0
    /\ last = "none" /\ failed = "none"

Return(r) == phase' = "done" /\ result' = r

\* extract_to_memory, with the default limits or the caller's.
Memory == [op |-> "memory", kind |-> "none", cap |-> {}]

\* extract_to_stream under one of the bounds.
Stream(b) == [op |-> "stream", kind |-> b.kind, cap |-> b.cap]

\* The digest of an entry that lists no CRC32: a RAR entry split over
\* volumes is one.  The push route is taken where there is one, the reader
\* otherwise.
Digest == [op |-> "digest", kind |-> "none", cap |-> {}]

Call ==
    /\ phase = "idle"
    /\ call' \in {Memory, Digest} \cup {Stream(b) : b \in Bounds}
    /\ phase' = "gated"
    /\ UNCHANGED <<subject, at, buffer, result, reader>>

\* check_single_entry_safe_with_archive: an entry that declares more than
\* either limit is refused, and one whose declared size is too large for its
\* compressed size (which is not modelled).  The digest has no limits.
GateHolds ==
    call.op = "digest" \/ \A d \in declared : ~Exceeds(d, effective_entry_cap)

GateRefuses ==
    /\ phase = "gated" /\ call.op # "digest" /\ declared # {}
    /\ Return(IF GateHolds THEN "ratio" ELSE "blocked")
    /\ UNCHANGED <<subject, call, at, buffer, reader>>

\* The walk to the listed id meets another name there, or the end.
SeekDrifts ==
    /\ phase = "gated" /\ GateHolds
    /\ Return("drift")
    /\ UNCHANGED <<subject, call, at, buffer, reader>>

Incremental == backend = "libarchive" /\ call.op = "stream"
Pulled == backend = "libarchive" /\ call.op = "digest"

\* The staging backends judge the declared size before decoding anything.
StageRefuses ==
    /\ phase = "gated" /\ GateHolds
    /\ call.op # "digest" /\ backend # "libarchive"
    /\ \E d \in declared : Exceeds(d, Budget)
    /\ Return("blocked")
    /\ UNCHANGED <<subject, call, at, buffer, reader>>

Fits == \A d \in declared : ~Exceeds(d, Budget)

\* Who fills a buffer before the caller sees a byte, or a hasher.
ZipBuffers == backend = "zip" /\ call.op # "digest" /\ Fits
SevenZipBuffers == backend = "sevenzip" /\ call.op # "digest" /\ Fits
RarStages == backend = "rar" /\ call.op # "digest" /\ Fits
LibarchiveAssembles == backend = "libarchive" /\ call.op = "memory"
ZipPushes == backend = "zip" /\ call.op = "digest"
SevenZipPushes == backend = "sevenzip" /\ call.op = "digest"
RarPushes == backend = "rar" /\ call.op = "digest"

StartFilling ==
    /\ phase = "gated" /\ GateHolds
    /\ \/ ZipBuffers \/ SevenZipBuffers \/ RarStages
       \/ LibarchiveAssembles \/ ZipPushes \/ SevenZipPushes \/ RarPushes
    /\ phase' = "filling"
    /\ UNCHANGED <<subject, call, at, buffer, result, reader>>

Block == payload.blocks[at + 1]
Take == at < Len(payload.blocks) /\ at' = at + 1
DecoderFails == at = Len(payload.blocks) /\ payload.fails

Fill(ok) ==
    /\ buffer' = ok
    /\ UNCHANGED <<subject, call, phase, result, reader>>

Refuse(why) ==
    Return(why) /\ UNCHANGED <<subject, call, buffer, reader>>

\* read_entry_to_memory_bounded reads at most one byte past the declaration.
BufferBlock ==
    /\ phase = "filling" /\ backend \in {"zip", "sevenzip"}
    /\ call.op # "digest"
    /\ \A d \in declared : buffer <= d
    /\ Take
    /\ Fill(Min({buffer + Block.size} \cup {d + 1 : d \in declared}))

\* Mutant: the callback lets the crossing block be written.
DecodeBlockLate ==
    /\ phase = "filling" /\ backend = "rar" /\ call.op # "digest"
    /\ Take
    /\ \/ ~Exceeds(buffer, Budget) /\ Fill(buffer + Block.size)
       \/ Exceeds(buffer, Budget) /\ Refuse("blocked")

\* Any block that crosses the cap aborts the decode before it is written.
DecodeBlock ==
    /\ phase = "filling" /\ backend = "rar" /\ call.op # "digest"
    /\ Take
    /\ \/ /\ ~Exceeds(buffer + Block.size, Budget)
          /\ Fill(buffer + Block.size)
       \/ /\ Exceeds(buffer + Block.size, Budget)
          /\ Refuse("blocked")

\* extract_to_memory_with_max_bytes: holes count like payload, an offset
\* behind the assembled bytes is corrupt, and a breach of the ceiling is
\* blamed on the archive or on the caller's cap.
MemoryCap == Min((IF declared = {} THEN {Fallback} ELSE declared) \cup Budget)

AssembleBlock ==
    /\ phase = "filling" /\ backend = "libarchive"
    /\ Take
    /\ LET needed == Block.hole + Block.size IN
       \/ Block.hole < 0 /\ Refuse("corruption")
       \/ /\ Block.hole >= 0 /\ buffer + needed <= MemoryCap
          /\ Fill(buffer + needed)
       \/ /\ Block.hole >= 0 /\ needed > 0 /\ buffer + needed > MemoryCap
          /\ \/ /\ \E d \in declared : MemoryCap >= d
                /\ Refuse("corruption")
             \/ /\ \A d \in declared : MemoryCap < d
                /\ Refuse("blocked")

\* crc32_for_digest_via_sink: the sink refuses the chunk that crosses.
SinkCap == IF declared = {} THEN {DefaultMaxFile} ELSE declared

PushBlock ==
    /\ phase = "filling" /\ call.op = "digest"
    /\ Take
    /\ LET n == buffer + Block.size IN
       \/ ~Exceeds(n, SinkCap) /\ Fill(n)
       \/ Exceeds(n, SinkCap) /\ Refuse("corruption")

StageFails ==
    /\ phase = "filling" /\ DecoderFails
    /\ \A d \in declared : buffer <= d
    /\ Return("fault")
    /\ UNCHANGED <<subject, call, at, buffer, reader>>

\* Where the bound on the returned stream is chosen: extract_to_stream_impl.
BoundLayers ==
    CASE call.kind = "DeclaredSize" /\ declared # {} ->
            <<exact(Min(declared))>>
      [] /\ call.kind = "DeclaredSize" /\ declared = {}
         /\ effective_entry_cap # {} ->
            <<ceiling(Min(effective_entry_cap))>>
      [] call.kind = "Cap" -> <<ceiling(Min(call.cap))>>
      [] OTHER -> <<>>

HandOut(source, inner) ==
    /\ phase' = "reading" /\ result' = "ok"
    /\ raw' = source /\ layers' = inner \o BoundLayers
    /\ UNCHANGED <<got, last, failed>>

\* What was buffered, staged or pushed is all that was declared.
AsDeclared == \A d \in declared : buffer = d

\* The payload ended: a buffer that is not what was declared is corrupt,
\* otherwise it is the answer, or what the returned cursor reads.
StageEnds ==
    /\ phase = "filling"
    /\ \/ at = Len(payload.blocks) /\ ~payload.fails
       \/ \E d \in declared : buffer > d
    /\ \/ /\ ~AsDeclared
          /\ Return("corruption") /\ UNCHANGED reader
       \/ /\ AsDeclared
          /\ \/ call.op # "stream" /\ Return("ok") /\ UNCHANGED reader
             \/ /\ call.op = "stream"
                /\ HandOut([NoRaw EXCEPT !.length = buffer], <<>>)
    /\ UNCHANGED <<subject, call, at, buffer>>

DecoderSource ==
    [NoRaw EXCEPT !.length = Extent(payload), !.breaks = Breaks(payload)]

\* libarchive's stream: the trait's default wraps the backend's cap around
\* the reader, and extract_to_stream_impl the bound around that.
OpenStream ==
    /\ phase = "gated" /\ GateHolds /\ Incremental
    /\ HandOut(DecoderSource,
               IF Budget = {} THEN <<>> ELSE <<ceiling(Min(Budget))>>)
    /\ UNCHANGED <<subject, call, at, buffer>>

\* The caller reads, as often as it likes, also after an error.
Read ==
    /\ phase = "reading" /\ call.op = "stream"
    /\ \E k \in Asks :
         LET a == ReadStack([raw |-> raw, layers |-> layers], k) IN
         /\ raw' = a.rd.raw /\ layers' = a.rd.layers
         /\ got' = got + a.n
         /\ last' = IF k = 0 /\ a.says = "eof" THEN "empty" ELSE a.says
         /\ failed' = IF failed = "none" /\ a.says \notin {"bytes", "eof"}
                      THEN a.says ELSE failed
    /\ UNCHANGED <<subject, call, phase, at, buffer, result>>

\* libarchive's digest: one borrowed reader under the digest's own bound.
OpenVisit ==
    /\ phase = "gated" /\ Pulled
    /\ phase' = "reading"
    /\ raw' = DecoderSource
    /\ layers' = IF declared = {} THEN <<ceiling(DefaultMaxFile)>>
                 ELSE <<exact(Min(declared))>>
    /\ UNCHANGED <<subject, call, at, buffer, result, got, last, failed>>

\* compute_crc32_reader's loop, and crc32_of_bounded_payload's verdict.
VisitRead ==
    /\ phase = "reading" /\ call.op = "digest"
    /\ LET a == ReadStack([raw |-> raw, layers |-> layers], Max(Asks)) IN
       /\ raw' = a.rd.raw /\ layers' = a.rd.layers
       /\ buffer' = buffer + a.n
       /\ \/ a.says = "bytes" /\ UNCHANGED <<phase, result>>
          \/ a.says = "eof" /\ Return("ok")
          \/ /\ a.says \in Verdicts
             /\ Return(IF declared # {} THEN "corruption" ELSE "fault")
          \/ a.says = "fault" /\ Return("fault")
    /\ UNCHANGED <<subject, call, at, got, last, failed>>

Next ==
    \/ Call \/ GateRefuses \/ SeekDrifts
    \/ StageRefuses \/ StartFilling
    \/ BufferBlock \/ DecodeBlock \/ AssembleBlock \/ PushBlock
    \/ StageFails \/ StageEnds
    \/ OpenStream \/ Read \/ OpenVisit \/ VisitRead

Spec == Init /\ [][Next]_vars
-----------------------------------------------------------------------------
\* Properties.

\* Every variable stays within its kind.
TypeOK ==
    /\ backend \in Backends
    /\ phase \in {"idle", "gated", "filling", "reading", "done"}
    /\ call.op \in {"none", "memory", "stream", "digest"}
    /\ at \in 0..Len(payload.blocks) /\ buffer \in Nat /\ got \in Nat
    /\ result \in {"none", "ok", "blocked", "ratio", "drift", "corruption",
                  "fault"}
    /\ raw.pos \in 0..raw.length /\ Len(layers) \in 0..2
    /\ last \in Verdicts \cup {"none", "bytes", "eof", "empty", "fault"}
    /\ failed \in Verdicts \cup {"none", "fault"}

\* A short or long entry never reads as a complete one: under DeclaredSize on
\* every backend, under any bound on the staging backends, and in memory and
\* digest reads, a clean end means exactly the declared bytes, however the
\* caller mixed its buffers and whatever errors it retried.
NeverSilent ==
    \A d \in declared :
      /\ call.kind = "DeclaredSize" /\ last = "eof" => got = d
      /\ call.op = "stream" /\ backend # "libarchive" /\ last = "eof"
           => got = d
      /\ call.op \in {"memory", "digest"} /\ result = "ok" => buffer = d

\* A verdict about the bound is final: a caller that retries with any room in
\* its buffer gets the same error, never bytes or an end, and the retry takes
\* no byte from the source.
VerdictSticks ==
    [][(failed \in Verdicts) =>
         last' \in {failed, "empty"} /\ raw' = raw]_reader

\* Nothing past the budget is buffered, staged or delivered, for entries that
\* understate their size or state none; ZIP and 7z read the one byte that
\* shows the overrun.
WithinBudget ==
    LET probe == IF backend \in {"zip", "sevenzip"} THEN 1 ELSE 0 IN
    /\ call.op # "digest" =>
         ~Exceeds(buffer - probe, Budget) /\ ~Exceeds(got, Budget)
    /\ call.op = "digest" =>
         ~Exceeds(buffer, IF declared = {} THEN {DefaultMaxFile}
                          ELSE declared)
    /\ call.op = "memory" /\ backend = "libarchive" /\ declared = {} =>
         buffer <= Fallback

Whole == ~Breaks(payload) /\ \A d \in declared : Extent(payload) = d

\* An entry that is what it declares and fits the budget is never refused,
\* called corrupt, or cut: no bound turns a sound entry into an error.
SoundEntriesPass ==
    LET fits ==
          IF call.op = "digest"
          THEN declared # {} \/ Extent(payload) <= DefaultMaxFile
          ELSE /\ ~Exceeds(Extent(payload), Budget)
               /\ call.op = "memory" /\ declared = {} =>
                    Extent(payload) <= Fallback
    IN Whole /\ fits =>
         /\ result \in {"none", "ok", "ratio", "drift"} /\ failed = "none"
         /\ call.op = "stream" /\ last = "eof" => got = Extent(payload)

\* Errors name their cause: a limit is blamed only when the entry declares or
\* produces more than it, corruption only when the payload is not what was
\* declared, an early end only when it is short, an overrun only when it
\* passes the bound; so an unknown-size entry is never called corrupt for
\* exceeding a limit.
ErrorsNameTheCause ==
    LET size == Extent(payload) IN
    /\ result = "blocked" =>
         \/ Exceeds(size, Budget)
         \/ declared = {} /\ size > Fallback
         \/ \E d \in declared : Exceeds(d, Budget)
    /\ result = "corruption" =>
         \/ Backward(payload) # {}
         \/ \E d \in declared : size # d
    /\ failed = "UnexpectedEof" =>
         \E d \in declared : size < d \/ Breaks(payload)
    /\ failed = "InvalidData" => Exceeds(size, Budget)

\* What HardCapReader::read says of its latch: also a read into an empty
\* buffer repeats the verdict.
EmptyReadKeepsVerdict == failed \in Verdicts => last = failed

\* What a read says of an entry is true, in every mode and on every backend:
\* a clean end is a whole entry, a whole entry comes to a clean end, and an
\* error is about what it names.
VerdictsTrue ==
    TypeOK /\ NeverSilent /\ SoundEntriesPass /\ ErrorsNameTheCause
=============================================================================
