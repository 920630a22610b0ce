----------------------------- MODULE ByteSlice -----------------------------
(***************************************************************************)
(* What a backend is promised by the source it reads an archive from: one  *)
(* seekable slice, fixed when the source is opened.  A read returns the    *)
(* bytes at the position and moves it by as many; the end is reported at   *)
(* the end and nowhere else; a failure delivers nothing and moves nothing. *)
(* Implemented by ByteSource.                                              *)
(***************************************************************************)
EXTENDS Integers, Sequences

VARIABLES slice,  \* the bytes, position 0 first
          open,   \* whether a source is open
          pos,    \* the position of the next read
          got     \* the answer of the last call

vars == <<slice, open, pos, got>>

Nothing == [kind |-> "none", bytes |-> <<>>]
Failed == [kind |-> "error", bytes |-> <<>>]
AtEnd == [kind |-> "end", bytes |-> <<>>]
Bytes(k) == [kind |-> "bytes", bytes |-> SubSeq(slice, pos + 1, pos + k)]

Init == ~open /\ pos = 0 /\ got = Nothing /\ slice = <<>>

Open == ~open /\ open' /\ pos' = 0 /\ got' = Nothing
Close == open /\ ~open' /\ pos' = 0 /\ got' = Nothing /\ slice' = <<>>

Read == /\ open
        /\ \E k \in 1..(Len(slice) - pos) : pos' = pos + k /\ got' = Bytes(k)
        /\ UNCHANGED <<slice, open>>
ReadEnd == /\ open /\ pos >= Len(slice)
           /\ got' = AtEnd
           /\ UNCHANGED <<slice, open, pos>>
Fail == /\ open
        /\ got' = Failed
        /\ UNCHANGED <<slice, open, pos>>
Seek == /\ open
        /\ got' = Nothing
        /\ UNCHANGED <<slice, open>>

Next == Open \/ Close \/ Read \/ ReadEnd \/ Fail \/ Seek
Spec == Init /\ [][Next]_vars
=============================================================================
