--------------------------- MODULE RecoveryRecord ---------------------------
(* The percentage of a RAR recovery record, read from the raw blocks of     *)
(* the file (src/ffi/wrapper.rs: parse_rar5_recovery, parse_rar4_recovery). *)
(* A file is a chain of blocks and the length at which it was cut.  A block *)
(* has a kind, the bytes its header has beyond the basic header, the bytes  *)
(* of its data area, whether its checksum is right, and, when it is a       *)
(* recovery record, a percentage that its bytes give or do not: in RAR5 a   *)
(* number of any size, in RAR4 the rounded-down ratio of two counts.  The   *)
(* walk knows only offsets: a header read where no block starts is bytes    *)
(* whose checksum is wrong.                                                 *)
EXTENDS NumberSets

\* What a walk answers: a percentage, nothing, or an error.
Percent(p) == [says |-> "percent", value |-> p]
Nothing == [says |-> "none", value |-> 0]
Corrupt == [says |-> "corruption", value |-> 0]
Short == [says |-> "io", value |-> 0]
Malformed == [says |-> "format", value |-> 0]

Blocks ==
    [kind : {"main", "file", "service", "recovery", "end"}, extra : Nat,
     data : Nat, sound : BOOLEAN, legible : BOOLEAN, percent : Nat]

\* What a RAR5 record may give at most (u16::MAX), and a RAR4 one.
MaxPercent == 65535
Rar4Cap == 100

-----------------------------------------------------------------------------
\* Layout.  RAR5: CRC32 and one vint for the size.  RAR4: seven bytes, and
\* four more for ADD_SIZE when there is a data area (LONG_BLOCK).
Signature(file) == IF file.rar5 THEN 8 ELSE 7
Basic(file) == IF file.rar5 THEN 5 ELSE 7

HeaderEnd(file, pos, b) == pos + Basic(file) + b.extra

NextBlock(file, pos, b) == HeaderEnd(file, pos, b) + b.data

\* Where block i starts, which the writer of the file knew.
Sizes(file) ==
    [j \in DOMAIN file.blocks |->
        Basic(file) + file.blocks[j].extra + file.blocks[j].data]

StartsAt(file, i) == Signature(file) + SumOver(Sizes(file), 1..(i - 1))

\* A file is what its writer made of it, at least 16 bytes, or what a cut left
\* of that.
RawFiles ==
    {file \in [rar5 : BOOLEAN, blocks : Seq(Blocks), length : Nat] :
        LET whole == StartsAt(file, Len(file.blocks) + 1)
        IN 16 <= whole /\ file.length <= whole}

BlockAt(file, pos) ==
    {file.blocks[i] : i \in {j \in DOMAIN file.blocks : StartsAt(file, j) = pos}}

-----------------------------------------------------------------------------
Fixed(file) == IF file.rar5 THEN 4 ELSE 7

\* Mutant: a header that the file ends in is taken for the end of the file.
FilledForgets(file, pos) ==
    IF file.length < pos + Fixed(file) THEN "eof" ELSE "full"

\* fill_or_eof of the fixed part of a header: a clean end, all of it or a
\* part of it.
Filled(file, pos) ==
    IF pos >= file.length THEN "eof"
    ELSE IF file.length - pos < Fixed(file) THEN "partial" ELSE "full"

\* What a block that ends the walk says.  In RAR5 the first service header
\* does, be it a recovery record or not.
Verdict(file, b) ==
    IF b.kind # "recovery" \/ ~b.legible THEN Nothing
    ELSE IF ~file.rar5 THEN Percent(Min({b.percent, Rar4Cap}))
    ELSE IF b.percent \in 1..MaxPercent THEN Percent(b.percent)
    ELSE Nothing

\* The blocks that end a walk as soon as their header is read.
Ends(file, b) ==
    b.kind = "recovery" \/ (file.rar5 /\ b.kind \in {"service", "end"})

\* A RAR4 end block ends it after its data area has been checked.
EndsAfterData(file, b) == ~file.rar5 /\ b.kind = "end"

\* A look at the header at an offset, and the walk from what follows it.
Look(file, pos, walk) ==
    LET at == BlockAt(file, pos)
        b == CHOOSE x \in at : TRUE
        next == NextBlock(file, pos, b)
    IN IF Filled(file, pos) = "eof" THEN Nothing
       ELSE IF Filled(file, pos) = "partial" \/ at = {} THEN Corrupt
       ELSE IF pos + Basic(file) > file.length THEN Malformed
       ELSE IF HeaderEnd(file, pos, b) > file.length
            THEN IF file.rar5 THEN Corrupt ELSE Short
       ELSE IF ~b.sound THEN Corrupt
       ELSE IF Ends(file, b) THEN Verdict(file, b)
       ELSE IF next > file.length THEN Corrupt
       ELSE IF EndsAfterData(file, b) THEN Nothing
       ELSE walk[next]

Walked(file) ==
    LET walk[pos \in 0..file.length] == Look(file, pos, walk) IN walk

Walk(file) ==
    IF file.length < 16 THEN Short ELSE Walked(file)[Signature(file)]

-----------------------------------------------------------------------------
\* What may be said of a file, without offsets and without a walk.

\* Block i is a record whose percentage can be given, and what is given.
Known(file, i) ==
    LET b == file.blocks[i]
    IN /\ b.kind = "recovery" /\ b.legible
       /\ file.rar5 => b.percent \in 1..MaxPercent

Given(file, i) ==
    IF file.rar5 THEN file.blocks[i].percent
    ELSE Min({file.blocks[i].percent, Rar4Cap})

\* Nobody looks for a record behind another one, behind the end block or, in
\* RAR5, behind any other service header.
Hides(file, k) ==
    \/ file.blocks[k].kind \in {"recovery", "end"}
    \/ file.rar5 /\ file.blocks[k].kind = "service"

Hidden(file, i) == \E k \in 1..(i - 1) : Hides(file, k)

\* The file was cut before block i, exactly between two blocks.
CutBefore(file, i) == \E k \in 1..i : StartsAt(file, k) = file.length

\* All of block i is there.
Fits(file, i) ==
    StartsAt(file, i) + Sizes(file)[i] <= file.length

Healthy(file) ==
    \A i \in DOMAIN file.blocks : file.blocks[i].sound /\ Fits(file, i)

\* A percentage is that of a sound record which nothing hides and whose header
\* is all there; "none" is not said of a record, unless something hides it or
\* the file was cut between two blocks; and an error is damage.
Truthful(file, a) ==
    /\ a.says = "percent" =>
         \E i \in DOMAIN file.blocks :
            /\ Known(file, i) /\ ~Hidden(file, i) /\ file.blocks[i].sound
            /\ HeaderEnd(file, StartsAt(file, i), file.blocks[i]) <= file.length
            /\ a = Percent(Given(file, i))
    /\ a.says = "none" =>
         \A i \in DOMAIN file.blocks :
            Known(file, i) => Hidden(file, i) \/ CutBefore(file, i)
    /\ a.says \notin {"percent", "none"} => ~Healthy(file)
=============================================================================
