---------------------------- MODULE SfxDetection ----------------------------
(***************************************************************************)
(* What the bytes of a file say about it: the format its first bytes       *)
(* announce (format.rs), the payload a self-extracting stub carries        *)
(* (sfx/detection.rs, sfx/signatures.rs, sfx/stub_types.rs), and where     *)
(* each backend finds the archive when it is handed the whole file.        *)
(*                                                                         *)
(* A file is a sequence of cells.  A cell is the header of an executable   *)
(* ("stub"), the first bytes of an archive, or "fill".  "badzip" is a ZIP  *)
(* signature over a header that fails the structural probe; "future" is a  *)
(* RAR marker UnRAR stops at and this crate's table does not know.  zips   *)
(* holds the start of the archive the ZIP record at the end of the file    *)
(* closes, and is empty when no such record is there.  gzip stands for     *)
(* every format read through libarchive.                                   *)
(***************************************************************************)
EXTENDS Integers, Sequences, FiniteSetsExt

CONSTANTS
    Scan,       \* cells searched for signatures
    Room,       \* cells an archive header needs, its signature included
    RarFirst,   \* the first offset UnRAR's own search reaches
    RarLast     \* and the last

ASSUME SfxAssumption ==
    /\ Scan \in Nat /\ Room \in Nat \ {0}
    /\ RarFirst \in Nat \ {0} /\ RarLast \in Nat

Marks == {"stub", "zip", "badzip", "rar", "sevenz", "gzip", "future", "fill"}
Content == [marks : Seq(Marks), zips : SUBSET Nat]

Formats == {"zip", "rar", "sevenz", "gzip", "targzip"}

At(c, o) == IF o < Len(c.marks) THEN c.marks[o + 1] ELSE "end"

Slice(c, o) == [marks |-> SubSeq(c.marks, o + 1, Len(c.marks)),
                zips |-> {z - o : z \in {y \in c.zips : y >= o}}]

\* At most the smallest of some offsets.
First(S) == IF S = {} THEN {} ELSE {Min(S)}

Signature(mark) ==
    CASE mark \in {"zip", "badzip"} -> {"zip"}
      [] mark \in {"rar", "sevenz", "gzip"} -> {mark}
      [] OTHER -> {}

-----------------------------------------------------------------------------
\* Content first, the name second: the name only tells a compressed tar from
\* the bare compressor.

detect_from_bytes(c) == Signature(At(c, 0))

promote_to_compound_tar(f, suffix) ==
    IF f = "gzip" /\ suffix = "targzip" THEN "targzip" ELSE f

detect(c, suffix) ==
    {promote_to_compound_tar(f, suffix) : f \in detect_from_bytes(c)}

-----------------------------------------------------------------------------
\* A payload behind a recognised stub.  A signature of several bytes wins
\* over gzip's two wherever it lies; the earliest wins within a kind.

StubType(c) == IF At(c, 0) = "stub" THEN "Known" ELSE "Unknown"

scan_for_signatures(c) ==
    {o \in 0..(Scan - 1) : o < Len(c.marks) /\ Signature(At(c, o)) # {}}

Probe(c, o) == At(c, o) # "badzip" /\ o + Room <= Len(c.marks)

Best(c, passing) ==
    LET strong == {o \in passing : At(c, o) # "gzip"}
    IN  IF strong # {} THEN First(strong) ELSE First(passing)

detect_sfx(c) ==
    IF StubType(c) = "Unknown" THEN {}
    ELSE {[format |-> CHOOSE f \in Signature(At(c, o)) : TRUE, offset |-> o] :
             o \in Best(c, {p \in scan_for_signatures(c) : Probe(c, p)})}

-----------------------------------------------------------------------------
\* Where the backends find the archive in a file they are given whole.

zip_offset(c) == c.zips

RarMarks == {"rar", "future"}

rar_marker(c) ==
    IF At(c, 0) \in RarMarks THEN {0}
    ELSE First({o \in RarFirst..RarLast : At(c, o) \in RarMarks})

rar_opens(c) == \E o \in rar_marker(c) : At(c, o) = "rar"

\* Where a backend of format f reads, opened at base.
Reads(f, c, base) ==
    CASE f = "zip" -> zip_offset(c)
      [] f = "rar" -> rar_marker(c)
      [] f = "sevenz" -> {o \in {base} : At(c, o) = "sevenz"}
      [] OTHER -> {0}

first_rar_signature_before(c, o) == \E p \in 0..(o - 1) : At(c, p) = "rar"

RarInReach(o) == o \in RarFirst..RarLast

\* A gate that takes the signature at the offset for proof enough.
AgreesByMagic(f, c, o) == f # "gzip"

\* The gate each backend puts before a payload is read where it lies.
Agrees(f, c, o) ==
    CASE f = "zip" -> zip_offset(c) = {o}
      [] f = "rar" -> RarInReach(o) /\ ~first_rar_signature_before(c, o)
      [] f = "sevenz" -> TRUE
      [] OTHER -> FALSE
=============================================================================
