--------------------------- MODULE ContentDigest ---------------------------
(***************************************************************************)
(* The content digest and size total of a listing (inspection.rs):         *)
(* `calculate_content_multiset_digest_and_size`, its shims, and the cheap  *)
(* `calculate_archive_crc`.                                                *)
(*                                                                         *)
(* A listed CRC32 is used as it stands.  For the rest libarchive visits    *)
(* every payload in one forward walk before anything is summed; the other  *)
(* backends push each payload through a sink when its turn comes.  The     *)
(* reads themselves are EntryStream's; here a payload is its CRC32 and its *)
(* length.  The last fold of the joined elements to 32 bits is left out:   *)
(* the digest is what is joined.                                           *)
(*                                                                         *)
(* An archive `a` is its backend, whether its password is at hand, and its *)
(* listing, where an entry's id is its index.                              *)
(***************************************************************************)
EXTENDS Naturals, Sequences, SequencesExt, FiniteSetsExt

CONSTANTS
    MaxU64,         \* the largest size total
    CrcModulus,     \* 2^32
    DefaultMaxFile  \* DEFAULT_MAX_FILE_SIZE

\* What the backends list of a file.  libarchive knows no CRC32 and not
\* always a size; a CRC32 is missing of an AES entry of a ZIP, where a 7z
\* leaves it out, and of a RAR file split over volumes.  RAR alone lists one
\* for what is not a file.
Checksums(backend, type, crc) ==
    IF type = "other" THEN {IF backend = "rar" THEN {crc} ELSE {}}
    ELSE {{}} \cup IF backend = "libarchive" THEN {} ELSE {{crc}}
Sizes(backend, type, bytes) ==
    IF type = "other" THEN {{}}
    ELSE {{n} : n \in bytes} \cup IF backend = "libarchive" THEN {{}} ELSE {}

Ids(a) == DOMAIN a.entries
IsFile(a, id) == a.entries[id].type = "file"

\* The payload behind a listing id, never the one behind its path.
Payload(a, id) == a.entries[id].holds

\* crc32_of_bounded_payload, and the sink's bound, which is the same: the
\* declared size exactly, or else the default ceiling.
Verdict(a, id) ==
    LET declared == a.entries[id].size
        bytes == Payload(a, id).bytes IN
    IF declared # {}
    THEN IF bytes \in declared THEN "ok" ELSE "corruption"
    ELSE IF bytes <= DefaultMaxFile THEN "ok" ELSE "fault"

-----------------------------------------------------------------------------
\* resolve_crc32_single_pass: libarchive meets the entries without a CRC32
\* in id order, and the first that cannot be resolved ends the call.

Targets(a) == {id \in Ids(a) : IsFile(a, id) /\ a.entries[id].crc = {}}
Unsound(a) == {id \in Targets(a) : Verdict(a, id) # "ok"}

Walks(a) ==
    IF a.backend # "libarchive" \/ Targets(a) = {} THEN {"ok"}
    ELSE {"fault"} \cup
         {IF Unsound(a) = {} THEN "ok" ELSE Verdict(a, Min(Unsound(a)))}

-----------------------------------------------------------------------------
\* content_multiset_digest_and_size: one entry after the other.

NoTotal == [sized_bytes |-> 0, sized_entries |-> 0, unsized_entries |-> 0]
Begun == [result |-> "going", hashes |-> <<>>, total |-> NoTotal]
Ended(verdict) == [Begun EXCEPT !.result = verdict]

Overflows(p, entry) ==
    \E s \in entry.size : p.total.sized_bytes + s > MaxU64

\* Declared sizes are summed and counted, the others only counted.
Counted(total, entry) ==
    IF entry.size = {} THEN [total EXCEPT !.unsized_entries = @ + 1]
    ELSE [total EXCEPT !.sized_bytes = @ + Min(entry.size),
                       !.sized_entries = @ + 1]

\* The listing and the walk know a CRC32 without a read.
Known(a, id) ==
    a.entries[id].crc \cup
      IF a.backend = "libarchive" THEN {Payload(a, id).crc} ELSE {}

Sealed(a) == a.backend = "zip" /\ ~a.password

\* What a push through the sink may come to: its CRC32, or how it fails.
PushedCrc(a, id) ==
    IF ~Sealed(a) /\ Verdict(a, id) = "ok" THEN {Payload(a, id).crc} ELSE {}
PushFails(a, id) ==
    {"fault"} \cup IF Sealed(a) THEN {} ELSE {Verdict(a, id)} \ {"ok"}

\* What is so far, p, with one more element.
Element(p, crc, entry) ==
    [p EXCEPT !.hashes = Append(@, crc), !.total = Counted(@, entry)]

Take(a, p, id) ==
    LET entry == a.entries[id] IN
    IF p.result # "going" \/ ~IsFile(a, id) THEN {p}
    ELSE IF Overflows(p, entry) THEN {Ended("blocked")}
    ELSE IF Known(a, id) # {}
    THEN {Element(p, crc, entry) : crc \in Known(a, id)}
    ELSE {Element(p, crc, entry) : crc \in PushedCrc(a, id)}
         \cup {Ended(e) : e \in PushFails(a, id)}

\* Every element has one width, so sorting them sorts the CRC32s.
Finish(p) ==
    IF p.result # "going" THEN p
    ELSE [p EXCEPT !.result = "ok",
                   !.hashes = SortSeq(@, LAMBDA x, y : x < y)]

Folded(a) ==
    FoldLeft(LAMBDA ps, id : UNION {Take(a, p, id) : p \in ps}, {Begun},
             [id \in Ids(a) |-> id])

\* Every answer the call may give.
Answers(a) ==
    {Ended(w) : w \in Walks(a) \ {"ok"}}
    \cup IF "ok" \in Walks(a) THEN {Finish(p) : p \in Folded(a)} ELSE {}

-----------------------------------------------------------------------------
\* SizedContentTotal::exact.
exact(total) ==
    IF total.unsized_entries = 0 THEN {total.sized_bytes} ELSE {}

Sum(S, f(_)) == MapThenSumSet(f, S)

\* calculate_archive_crc: the wrapping sum of what the listing carries.
calculate_archive_crc(a) ==
    Sum({id \in Ids(a) : a.entries[id].crc # {}},
        LAMBDA id : Min(a.entries[id].crc)) % CrcModulus

-----------------------------------------------------------------------------
\* What an answer promises.

FileIds(a) == {id \in Ids(a) : IsFile(a, id)}
Sized(a) == {id \in FileIds(a) : a.entries[id].size # {}}
DeclaredBytes(a) == Sum(Sized(a), LAMBDA id : Min(a.entries[id].size))
Lies(a) == {id \in Targets(a) : \E d \in a.entries[id].size :
                                    Payload(a, id).bytes # d}

\* A digest is the sorted multiset of what the files really hold, so names,
\* order and the format do not matter and copies do; no truncated file
\* without a checksum is behind it.
DigestIsContent(a, r) ==
    /\ \A i, j \in DOMAIN r.hashes : i < j => r.hashes[i] <= r.hashes[j]
    /\ \A crc \in 0..(CrcModulus - 1) :
         Cardinality({i \in DOMAIN r.hashes : r.hashes[i] = crc})
           = Cardinality({id \in FileIds(a) : a.entries[id].holds.crc = crc})
    /\ Lies(a) = {}

\* The total is exact just when every file declares a size, and never wraps.
TotalIsExact(a, r) ==
    /\ r.total.sized_entries + r.total.unsized_entries
         = Cardinality(FileIds(a))
    /\ DeclaredBytes(a) <= MaxU64
    /\ exact(r.total) =
         IF Sized(a) = FileIds(a) THEN {DeclaredBytes(a)} ELSE {}

\* When the listing has the CRC32 of the files and of nothing else, the
\* cheap CRC is a function of the digest.
CheapCrcAgrees(a, r) ==
    (\A id \in Ids(a) : (a.entries[id].crc # {}) <=> IsFile(a, id)) =>
        calculate_archive_crc(a)
          = Sum(DOMAIN r.hashes, LAMBDA i : r.hashes[i]) % CrcModulus

\* Nothing is refused without cause.
RefusalHasCause(a, r) ==
    /\ r.result = "corruption" => Lies(a) # {}
    /\ r.result = "blocked" => DeclaredBytes(a) > MaxU64
    /\ r.result = "fault" => Targets(a) # {}

SummaryIsContent(a) ==
    \A r \in Answers(a) :
        /\ r.result = "ok" => /\ DigestIsContent(a, r)
                              /\ TotalIsExact(a, r) /\ CheapCrcAgrees(a, r)
        /\ RefusalHasCause(a, r)
=============================================================================
