--------------------------- MODULE MCEntryStream ---------------------------
(***************************************************************************)
(* EntryStream on payloads of at most five bytes in at most three blocks:  *)
(* empty, short, whole and long ones, with holes at either end, with an    *)
(* offset that runs backwards, and decoders that fail at every position.   *)
(*                                                                         *)
(* Summary applies ContentDigest to every listing of at most three entries  *)
(* of two names, over two contents of different CRC32 and length; the      *)
(* largest total takes two long files and not a third.                     *)
(*                                                                         *)
(* ReaderEntry, the way of an entry into an archive, is checked beside it:  *)
(* an instance has either a call or a reader.  The readers have every      *)
(* length up to two bytes past the cap, or no end, and an unknown length or *)
(* one declared rightly or wrongly, also past what libarchive can say.     *)
(***************************************************************************)
EXTENDS EntryStream, ReaderEntry, SequencesExt

block(hole, size) == [hole |-> hole, size |-> size]

BlockLists ==
    {<<>>, <<block(0, 1)>>, <<block(0, 2)>>, <<block(0, 2), block(0, 1)>>,
     <<block(0, 1), block(0, 2), block(0, 2)>>,
     <<block(1, 1)>>, <<block(0, 1), block(2, 0)>>,
     <<block(0, 2), block(-1, 1)>>, <<block(0, 1), block(1, 2)>>}

MCPayloads == [blocks : BlockLists, fails : BOOLEAN]

MCDeclarations == {{}} \cup {{n} : n \in {0, 1, 2, 3}}

MCLimits == [file : {{}, {3}}, total : {{}, {2}}]

MCBounds ==
    {[kind |-> "DeclaredSize", cap |-> {}], [kind |-> "Unbounded", cap |-> {}]}
      \cup {[kind |-> "Cap", cap |-> {n}] : n \in {0, 2, 3}}

MCAsks == {0, 1, 2}

MCReaders ==
    [len : 0..6, endless : {FALSE}, size : -1..6]
      \cup [len : {0}, endless : {TRUE}, size : -1..6]

\* What stands for no reader, and for no call.
NoReader ==
    /\ writer = "zip"
    /\ queued = [len |-> 0, endless |-> FALSE, size |-> 0]

NoEntry ==
    /\ backend = "zip" /\ declared = {0}
    /\ payload = [blocks |-> <<>>, fails |-> FALSE]
    /\ limits = [file |-> {}, total |-> {}]

MCInit == Init /\ ReaderInit /\ (NoReader \/ NoEntry)

MCNext ==
    \/ NoReader /\ step = "queued" /\ Next /\ UNCHANGED readerVars
    \/ NoEntry /\ phase = "idle" /\ ReaderNext /\ UNCHANGED vars

MCSpec == MCInit /\ [][MCNext]_<<vars, readerVars>>

-----------------------------------------------------------------------------
Summary == INSTANCE ContentDigest
            WITH MaxU64 <- 4, CrcModulus <- 4, DefaultMaxFile <- 1

FileContents == {[crc |-> 1, bytes |-> 1], [crc |-> 3, bytes |-> 2]}

\* Every file or other entry a backend may list for a content.
Listed(b) ==
    UNION {{[type |-> t, path |-> n, holds |-> c, size |-> s, crc |-> k] :
               n \in {1, 2}, s \in Summary!Sizes(b, t, {1, 2}),
               k \in Summary!Checksums(b, t, c.crc)} :
           t \in {"file", "other"}, c \in FileContents}

\* A ZIP whose directory repeats a name is refused before any payload.
Listings(b) ==
    {s \in SeqOf(Listed(b), 3) :
        b = "zip" => \A i, j \in DOMAIN s : s[i].path = s[j].path => i = j}

Archives ==
    UNION {[backend : {b}, entries : Listings(b),
            password : IF b = "zip" THEN BOOLEAN ELSE {TRUE}] :
           b \in {"libarchive", "zip", "sevenzip", "rar"}}

\* A content digest and a size total are about what the files hold, on every
\* backend, and are refused only for a cause.
\* (inspection.rs; duplicate_path_tar_digests_both_payloads_distinctly)
ASSUME SummaryIsContent == \A a \in Archives : Summary!SummaryIsContent(a)
=============================================================================
