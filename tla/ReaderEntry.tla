----------------------------- MODULE ReaderEntry -----------------------------
(***************************************************************************)
(* How the bytes of a queued reader become an entry of the archive a       *)
(* commit writes (modification.rs, ffi/zip_writer.rs,                      *)
(* ffi/libarchive_wrapper/writer.rs).  A reader of unknown length is       *)
(* drained into a temporary file first, up to a cap; one of declared       *)
(* length is copied by the writer, which reads one byte further than that  *)
(* to see a surplus.  A read gives any number of bytes up to the buffer's, *)
(* and none only at the end.  Byte counters are plain numbers: nobody      *)
(* reads 2^64 bytes.                                                       *)
(***************************************************************************)
EXTENDS Integers, FiniteSetsExt

CONSTANTS
    Readers,    \* [len, endless, size]: the readers, size -1 for unknown
    Buffer,     \* the 64 KiB of one read
    Cap,        \* ExtractionLimits::default().max_file_size()
    SignedMax   \* c_longlong::MAX

ASSUME ReaderAssumption ==
    /\ Readers \subseteq [len : Nat, endless : BOOLEAN, size : Nat \union {-1}]
    /\ Buffer \in Nat \ {0} /\ Cap \in Nat /\ SignedMax \in Nat
    /\ Cap <= SignedMax

VARIABLES
    writer,    \* the writer of the new archive
    queued,     \* the reader that was queued
    step,
    taken,      \* bytes the reader has given
    staged,     \* bytes in the temporary file
    written,    \* bytes of data in the entry
    poisoned,   \* the writer takes no more
    answered

readerVars ==
    <<writer, queued, step, taken, staged, written, poisoned, answered>>

ReaderInit ==
    /\ writer \in {"zip", "libarchive"} /\ queued \in Readers
    /\ step = "queued" /\ taken = 0 /\ staged = 0 /\ written = 0
    /\ poisoned = FALSE /\ answered = "none"

Known == queued.size # -1

\* The length the entry is written under.
expected_size == IF Known THEN queued.size ELSE staged

Done(answer) == step' = "done" /\ answered' = answer

\* with_writer, write_entry: whatever fails here poisons the writer.
Poison(error) ==
    /\ Done(error) /\ poisoned' = TRUE
    /\ UNCHANGED <<writer, queued, taken, staged, written>>

\* What one read may give, of `left` bytes and up to `room`.
Gives(left, room) ==
    IF left = 0 \/ room = 0 THEN {0} ELSE 1..Min({Buffer, left, room})

Left == IF queued.endless THEN Buffer ELSE queued.len - taken

-----------------------------------------------------------------------------
\* drain_into_tempfile

Begin ==
    /\ step = "queued"
    /\ step' = IF Known THEN "header" ELSE "drain"
    /\ UNCHANGED <<writer, queued, taken, staged, written, poisoned, answered>>

OverCap(total) == total > Cap

DrainChunk ==
    /\ step = "drain"
    /\ \E n \in Gives(Left, Buffer) \ {0} :
         /\ taken' = taken + n
         /\ \/ ~OverCap(staged + n) /\ staged' = staged + n
               /\ UNCHANGED <<step, answered>>
            \/ OverCap(staged + n) /\ Done("blocked") /\ UNCHANGED staged
    /\ UNCHANGED <<writer, queued, written, poisoned>>

DrainEnds ==
    /\ step = "drain" /\ 0 \in Gives(Left, Buffer)
    /\ step' = "header"
    /\ UNCHANGED <<writer, queued, taken, staged, written, poisoned, answered>>

\* A read or a write of the temporary file fails.
DrainFails ==
    /\ step = "drain" /\ Done("io")
    /\ UNCHANGED <<writer, queued, taken, staged, written, poisoned>>

-----------------------------------------------------------------------------
\* The writers.  libarchive puts the length into the header.

WriteHeader ==
    /\ step = "header"
    /\ \/ writer = "libarchive" /\ expected_size > SignedMax
          /\ Poison("blocked")
       \/ /\ writer = "libarchive" => expected_size <= SignedMax
          /\ step' = "copy"
          /\ UNCHANGED <<writer, queued, taken, staged, written, poisoned,
                         answered>>

\* The temporary file is copied by the ZIP writer to its end, by libarchive
\* like a reader.
Bounded == Known \/ writer = "libarchive"
Room == IF Bounded THEN expected_size + 1 - written ELSE Buffer
Source == IF Known THEN Left ELSE staged - written

TakeFrom(n) == taken' = IF Known THEN taken + n ELSE taken

\* ZIP writes what it reads and compares at the end; the surplus byte never
\* reaches libarchive.
CopyChunk ==
    /\ step = "copy"
    /\ \E n \in Gives(Source, Room) \ {0} :
         /\ TakeFrom(n)
         /\ \/ /\ writer = "libarchive" => written + n <= expected_size
               /\ written' = written + n
               /\ UNCHANGED <<step, poisoned, answered>>
            \/ /\ writer = "libarchive" /\ written + n > expected_size
               /\ Done("length") /\ poisoned' = TRUE /\ UNCHANGED written
    /\ UNCHANGED <<writer, queued, staged>>

\* Mutant: only a surplus is a mismatch.
ExactEnough == written <= expected_size

Exact == ~Bounded \/ written = expected_size

CopyEnds ==
    /\ step = "copy" /\ 0 \in Gives(Source, Room)
    /\ \/ /\ Exact /\ Done("ok")
          /\ UNCHANGED <<writer, queued, taken, staged, written, poisoned>>
       \/ ~Exact /\ Poison("length")

\* A read or a write fails, or the progress callback cancels.
CopyFails ==
    /\ step \in {"header", "copy"}
    /\ Poison("io") \/ (step = "copy" /\ Poison("cancelled"))

ReaderNext ==
    \/ Begin \/ DrainChunk \/ DrainEnds \/ DrainFails
    \/ WriteHeader \/ CopyChunk \/ CopyEnds \/ CopyFails

ReaderSpec == ReaderInit /\ [][ReaderNext]_readerVars

-----------------------------------------------------------------------------
\* Properties.

ReaderTypeOK ==
    /\ step \in {"queued", "drain", "header", "copy", "done"}
    /\ taken \in Nat /\ staged \in Nat /\ written \in Nat
    /\ answered \in {"none", "ok", "io", "cancelled", "blocked", "length"}
    /\ step = "done" <=> answered # "none"

\* However a reader cuts its bytes into reads: Ok is said of an entry that
\* holds all of them, of the declared length if there is one; and a reader
\* that keeps its word and stays within the cap is refused for no other reason
\* than a failure, down to the exact fit (add_entry_from_reader, R0075-0032,
\* R0080-0037, R0081-0037).
AnswersHonest ==
    /\ answered = "ok" =>
         /\ ~queued.endless /\ written = queued.len
         /\ Known => queued.size = queued.len
    /\ answered = "length" =>
         Known /\ (queued.endless \/ queued.size # queued.len)
    /\ answered = "blocked" =>
         IF Known THEN writer = "libarchive" /\ queued.size > SignedMax
         ELSE queued.endless \/ queued.len > Cap

\* A reader without end fills neither the disk nor the archive: the temporary
\* file stays within the cap, a declared length is passed by one byte at most,
\* in libarchive's data by none; and an entry that was begun and not ended
\* leaves a writer that takes no more.
BoundsHold ==
    /\ ReaderTypeOK
    /\ staged <= Cap
    /\ taken <= IF Known THEN queued.size + 1 ELSE Cap + Buffer
    /\ written <= expected_size + IF writer = "zip" /\ Known THEN 1 ELSE 0
    /\ answered \notin {"none", "ok"} /\ written > 0 => poisoned

\* Whatever sizes a reader's reads have, and wherever it stops or fails, the
\* answer says what became of its entry and no bound is passed on the way.
EntryIsReader == AnswersHonest /\ BoundsHold
=============================================================================
