-------------------------- MODULE ExtractionProofs --------------------------
(***************************************************************************)
(* Theorems about Extraction, for any paths, archives and limits.          *)
(***************************************************************************)
EXTENDS Extraction, NumberSetsProofs

-----------------------------------------------------------------------------
(* The listing, and the order of a walk.                                   *)

NamedIn(s) == {n \in DOMAIN s : Named(s[n])}
Place(s, n) == Cardinality({m \in 1..n : Named(s[m])})

\* The listing has the records that have a name, and an entry's index counts
\* those up to its record.
LEMMA ListedInOrder ==
  ASSUME NEW s \in Seq(Records)
  PROVE  /\ Listed(s) \in Seq(Records)
         /\ \A n \in NamedIn(s) : /\ Place(s, n) \in DOMAIN Listed(s)
                                  /\ Listed(s)[Place(s, n)] = s[n]
         /\ \A i \in DOMAIN Listed(s) : /\ Named(Listed(s)[i])
                                        /\ \E n \in NamedIn(s) : Place(s, n) = i
         /\ \A m, n \in NamedIn(s) : Place(s, m) = Place(s, n) => m = n
<1> DEFINE S == NamedIn(s)
           order == Ascending(S)
<1>1. Len(s) \in Nat /\ DOMAIN s = 1..Len(s)
  OBVIOUS
<1>2. S \in SUBSET (1..Len(s))
  BY <1>1 DEF NamedIn
<1>3. IsFiniteSet(S) /\ S \in SUBSET Nat
  BY <1>1, <1>2, PartOfRun
<1>4. /\ Cardinality(S) \in Nat
      /\ order \in [1..Cardinality(S) -> S]
      /\ Range(order) = S
      /\ \A k \in 1..Cardinality(S) : Cardinality({y \in S : y <= order[k]}) = k
  BY <1>3, AscendingLists
<1>5. Listed(s) = [k \in 1..Cardinality(S) |-> s[order[k]]]
  <2>1. Listed(s) = [k \in DOMAIN order |-> s[order[k]]]
    BY DEF Listed, NamedIn
  <2> HIDE DEF order
  <2>. QED
    BY <1>4, <2>1
<1>6. ASSUME NEW n \in S PROVE Place(s, n) = Cardinality({y \in S : y <= n})
  <2>1. {m \in 1..n : Named(s[m])} = {y \in S : y <= n}
    BY <1>1 DEF NamedIn
  <2>. QED
    BY <2>1 DEF Place
<1>7. \A k \in 1..Cardinality(S) : order[k] \in S /\ Place(s, order[k]) = k
  <2> HIDE DEF order, S
  <2>. QED
    BY <1>4, <1>6
<1>8. ASSUME NEW n \in S
      PROVE  Place(s, n) \in 1..Cardinality(S) /\ order[Place(s, n)] = n
  <2>1. PICK k \in 1..Cardinality(S) : order[k] = n
    BY <1>4 DEF Range
  <2>. QED
    BY <1>7, <2>1
<1>9. DOMAIN Listed(s) = 1..Cardinality(S)
  BY <1>5
<1>10. Listed(s) \in Seq(Records)
  <2> HIDE DEF order
  <2>1. \A k \in 1..Cardinality(S) : s[order[k]] \in Records
    BY <1>7 DEF NamedIn
  <2> HIDE DEF S
  <2>. QED
    BY <1>4, <1>5, <2>1
<1>11. \A n \in S : Place(s, n) \in DOMAIN Listed(s) /\ Listed(s)[Place(s, n)] = s[n]
  <2> HIDE DEF order, S
  <2>. QED
    BY <1>5, <1>8, <1>9
<1>12. \A i \in DOMAIN Listed(s) : Named(Listed(s)[i]) /\ \E n \in S : Place(s, n) = i
  <2> SUFFICES ASSUME NEW i \in DOMAIN Listed(s)
               PROVE  Named(Listed(s)[i]) /\ \E n \in S : Place(s, n) = i
    OBVIOUS
  <2>1. order[i] \in S /\ Place(s, order[i]) = i /\ Listed(s)[i] = s[order[i]]
    <3> HIDE DEF order, S
    <3>. QED
      BY <1>5, <1>7, <1>9
  <2> HIDE DEF order
  <2>. QED
    BY <2>1 DEF NamedIn
<1>13. \A m, n \in S : Place(s, m) = Place(s, n) => m = n
  <2> HIDE DEF order, S
  <2>. QED
    BY <1>8
<1>. QED
  BY <1>10, <1>11, <1>12, <1>13

\* Where every record has a name, the listing is the records.
LEMMA ListedAll ==
  ASSUME NEW s \in Seq(Records), \A n \in DOMAIN s : Named(s[n])
  PROVE  Listed(s) = s /\ \A n \in DOMAIN s : Place(s, n) = n
<1>1. Len(s) \in Nat /\ DOMAIN s = 1..Len(s)
  OBVIOUS
<1>2. ASSUME NEW n \in DOMAIN s PROVE Place(s, n) = n
  <2>1. {m \in 1..n : Named(s[m])} = 1..n
    BY <1>1
  <2>2. n \in Nat
    BY <1>1
  <2>. QED
    BY <2>1, <2>2, UpTo DEF Place
<1>3. NamedIn(s) = DOMAIN s
  BY DEF NamedIn
<1>4. /\ Listed(s) \in Seq(Records)
      /\ \A n \in DOMAIN s : n \in DOMAIN Listed(s) /\ Listed(s)[n] = s[n]
      /\ \A i \in DOMAIN Listed(s) : \E n \in DOMAIN s : n = i
  BY <1>2, <1>3, ListedInOrder
<1>5. Len(Listed(s)) = Len(s) /\ \A n \in 1..Len(s) : Listed(s)[n] = s[n]
  <2>1. Len(Listed(s)) \in Nat /\ DOMAIN Listed(s) = 1..Len(Listed(s))
    BY <1>4
  <2>2. 1..Len(Listed(s)) = 1..Len(s)
    BY <1>1, <1>4, <2>1
  <2>3. ASSUME NEW m \in Nat, NEW n \in Nat, 1..m = 1..n PROVE m = n
    <3>1. m = Cardinality(1..m) /\ n = Cardinality(1..n)
      BY UpTo
    <3>. QED
      BY <2>3, <3>1
  <2>4. Len(Listed(s)) = Len(s)
    BY <1>1, <2>1, <2>2, <2>3
  <2>. QED
    BY <1>1, <1>4, <2>4
<1>6. Listed(s) = s
  <2> DEFINE l == Listed(s)
  <2>1. l \in Seq(Records) /\ Len(l) = Len(s) /\ \A n \in 1..Len(s) : l[n] = s[n]
    BY <1>4, <1>5
  <2> HIDE DEF l
  <2>2. l = s
    BY <2>1
  <2>. QED
    BY <2>2 DEF l
<1>. QED
  BY <1>2, <1>6

\* A walk of 7z meets every entry once.
LEMMA VisitsAll ==
  ASSUME NEW s \in Seq(Records)
  PROVE  /\ VisitOrder(s) \in [DOMAIN s -> DOMAIN s]
         /\ \A i \in DOMAIN s : \E n \in DOMAIN s : VisitOrder(s)[n] = i
         /\ \A m, n \in DOMAIN s : VisitOrder(s)[m] = VisitOrder(s)[n] => m = n
<1> DEFINE A == {i \in DOMAIN s : HasStream(s[i])}
           B == DOMAIN s \ A
           a == Ascending(A)
           b == Ascending(B)
<1>1. Len(s) \in Nat /\ DOMAIN s = 1..Len(s)
  OBVIOUS
<1>2. A \in SUBSET (1..Len(s)) /\ B \in SUBSET (1..Len(s))
  BY <1>1
<1>3. IsFiniteSet(A) /\ A \in SUBSET Nat /\ IsFiniteSet(B) /\ B \in SUBSET Nat
  BY <1>1, <1>2, PartOfRun
<1>4. /\ Cardinality(A) \in Nat /\ a \in [1..Cardinality(A) -> A] /\ Range(a) = A
      /\ \A k \in 1..Cardinality(A) : Cardinality({y \in A : y <= a[k]}) = k
  BY <1>3, AscendingLists
<1>5. /\ Cardinality(B) \in Nat /\ b \in [1..Cardinality(B) -> B] /\ Range(b) = B
      /\ \A k \in 1..Cardinality(B) : Cardinality({y \in B : y <= b[k]}) = k
  BY <1>3, AscendingLists
<1>6. Cardinality(A) + Cardinality(B) = Len(s)
  <2>1. A \union B = 1..Len(s) /\ A \cap B = {}
    BY <1>1
  <2> HIDE DEF A, B
  <2>2. Cardinality(A \union B) =
          Cardinality(A) + Cardinality(B) - Cardinality(A \cap B)
    BY <1>3, FS_Union
  <2>3. Cardinality(1..Len(s)) = Len(s) /\ Cardinality({}) = 0
    BY <1>1, UpTo, FS_EmptySet
  <2>4. Len(s) = Cardinality(A) + Cardinality(B) - 0
    BY <2>1, <2>2, <2>3
  <2>. QED
    BY <1>1, <1>4, <1>5, <2>4
<1>7. VisitOrder(s) = a \o b
  BY DEF VisitOrder
<1>8. /\ A \cap B = {} /\ A \union B = 1..Len(s)
  BY <1>1
<1> HIDE DEF A, B, a, b
<1>9. /\ a \in Seq(A) /\ b \in Seq(B)
      /\ Len(a) = Cardinality(A) /\ Len(b) = Cardinality(B)
  <2>1. ASSUME NEW S, NEW n \in Nat, NEW f \in [1..n -> S]
        PROVE  f \in Seq(S) /\ Len(f) = n
    OBVIOUS
  <2>. QED
    BY <1>4, <1>5, <2>1
<1>10. /\ DOMAIN (a \o b) = 1..Len(s)
       /\ \A n \in 1..Len(s) :
            (a \o b)[n] = IF n <= Cardinality(A) THEN a[n]
                          ELSE b[n - Cardinality(A)]
  BY <1>4, <1>5, <1>6, <1>9
<1>11. ASSUME NEW n \in 1..Len(s)
       PROVE  /\ n <= Cardinality(A) => (a \o b)[n] = a[n] /\ a[n] \in A
              /\ n > Cardinality(A) =>
                   /\ n - Cardinality(A) \in 1..Cardinality(B)
                   /\ (a \o b)[n] = b[n - Cardinality(A)]
                   /\ b[n - Cardinality(A)] \in B
  <2>1. CASE n <= Cardinality(A)
    <3>1. n \in 1..Cardinality(A)
      BY <1>1, <1>4, <2>1
    <3>2. (a \o b)[n] = a[n] /\ a[n] \in A
      BY <1>4, <1>10, <2>1, <3>1
    <3>. QED
      BY <1>1, <1>4, <2>1, <3>2
  <2>2. CASE n > Cardinality(A)
    <3>1. n - Cardinality(A) \in 1..Cardinality(B)
      BY <1>1, <1>4, <1>5, <1>6, <2>2
    <3>2. ~(n <= Cardinality(A))
      BY <1>1, <1>4, <2>2
    <3>. QED
      BY <1>5, <1>10, <3>1, <3>2
  <2>. QED
    BY <1>1, <1>4, <2>1, <2>2
<1>12. \A n \in 1..Len(s) : (a \o b)[n] \in 1..Len(s)
  <2> SUFFICES ASSUME NEW n \in 1..Len(s) PROVE (a \o b)[n] \in A \union B
    BY <1>8
  <2>1. n <= Cardinality(A) \/ n > Cardinality(A)
    BY <1>1, <1>4
  <2>. QED
    BY <1>11, <2>1
<1>13. ASSUME NEW i \in 1..Len(s) PROVE \E n \in 1..Len(s) : (a \o b)[n] = i
  <2>1. CASE i \in A
    <3>1. PICK k \in 1..Cardinality(A) : a[k] = i
      BY <1>4, <2>1 DEF Range
    <3>2. k \in 1..Len(s) /\ k <= Cardinality(A)
      BY <1>1, <1>4, <1>5, <1>6
    <3>. QED
      BY <1>10, <3>1, <3>2
  <2>2. CASE i \in B
    <3>1. PICK k \in 1..Cardinality(B) : b[k] = i
      BY <1>5, <2>2 DEF Range
    <3> DEFINE n == k + Cardinality(A)
    <3>2. /\ n \in 1..Len(s) /\ ~(n <= Cardinality(A))
          /\ n - Cardinality(A) = k
      BY <1>1, <1>4, <1>5, <1>6
    <3> HIDE DEF n
    <3>. QED
      BY <1>10, <3>1, <3>2
  <2>. QED
    BY <1>8, <2>1, <2>2
<1>14. ASSUME NEW m \in 1..Len(s), NEW n \in 1..Len(s), (a \o b)[m] = (a \o b)[n]
       PROVE  m = n
  <2>1. CASE m <= Cardinality(A) /\ n <= Cardinality(A)
    <3>1. a[m] = a[n] /\ m \in 1..Cardinality(A) /\ n \in 1..Cardinality(A)
      BY <1>1, <1>4, <1>11, <1>14, <2>1
    <3>. QED
      BY <1>4, <3>1
  <2>2. CASE m > Cardinality(A) /\ n > Cardinality(A)
    <3> DEFINE k == m - Cardinality(A)
               l == n - Cardinality(A)
    <3>1. b[k] = b[l] /\ k \in 1..Cardinality(B) /\ l \in 1..Cardinality(B)
      BY <1>11, <1>14, <2>2
    <3>2. k = l
      <4> HIDE DEF k, l
      <4>. QED
        BY <1>5, <3>1
    <3>. QED
      BY <1>1, <1>4, <3>2
  <2>3. CASE m <= Cardinality(A) /\ n > Cardinality(A)
    BY <1>8, <1>11, <1>14, <2>3
  <2>4. CASE m > Cardinality(A) /\ n <= Cardinality(A)
    BY <1>8, <1>11, <1>14, <2>4
  <2>. QED
    BY <1>1, <1>4, <2>1, <2>2, <2>3, <2>4
<1>15. a \o b \in [1..Len(s) -> 1..Len(s)]
  <2> DEFINE c == a \o b
  <2>1. c \in Seq(A \union B)
    BY <1>9
  <2>2. DOMAIN c = 1..Len(s) /\ \A n \in 1..Len(s) : c[n] \in 1..Len(s)
    BY <1>10, <1>12
  <2> HIDE DEF c
  <2>3. c \in [1..Len(s) -> 1..Len(s)]
    BY <2>1, <2>2
  <2>. QED
    BY <2>3 DEF c
<1>. QED
  BY <1>1, <1>7, <1>13, <1>14, <1>15

-----------------------------------------------------------------------------
(* The steps.                                                              *)

\* The refusals of a call.
Refusal ==
  \/ GatesRefuse \/ PreflightRefuses \/ OpenRefuses \/ BracketRefuses
  \/ Cancel \/ CancelSingle \/ HeadDrifts \/ SingleDrifts \/ HeadUnplaceable
  \/ CopyOverruns \/ CopyFails \/ InstallFails

Answers == {"unsafe", "conflict", "collapsed", "identity", "cancelled",
            "drift", "unplaceable", "overrun", "corrupt", "exists"}

\* A refusal changes nothing but the answer.
LEMMA RefusalRefuses ==
  ASSUME Refusal
  PROVE  /\ \E r \in Answers : Refuse(r)
         /\ phase \in {"gates", "preflight", "open", "bracket", "head", "copy",
                       "install", "final"}
<1> USE DEF Answers
<1>1. CASE GatesRefuse
  BY <1>1 DEF GatesRefuse
<1>2. CASE PreflightRefuses
  BY <1>2 DEF PreflightRefuses
<1>3. CASE OpenRefuses
  BY <1>3 DEF OpenRefuses
<1>4. CASE BracketRefuses
  BY <1>4 DEF BracketRefuses
<1>5. CASE Cancel
  BY <1>5 DEF Cancel
<1>6. CASE CancelSingle
  BY <1>6 DEF CancelSingle
<1>7. CASE HeadDrifts
  BY <1>7 DEF HeadDrifts
<1>8. CASE SingleDrifts
  BY <1>8 DEF SingleDrifts
<1>9. CASE HeadUnplaceable
  BY <1>9 DEF HeadUnplaceable
<1>10. CASE CopyOverruns
  BY <1>10 DEF CopyOverruns
<1>11. CASE CopyFails
  BY <1>11 DEF CopyFails
<1>12. CASE InstallFails
  BY <1>12 DEF InstallFails
<1>. QED
  BY <1>1, <1>2, <1>3, <1>4, <1>5, <1>6, <1>7, <1>8, <1>9, <1>10, <1>11, <1>12
     DEF Refusal

\* A step is one of these.
LEMMA NextCases ==
  ASSUME [Next]_vars
  PROVE  \/ UNCHANGED vars \/ Call \/ GatesPass \/ PreflightEntry
         \/ PreflightEnds \/ StatArchive \/ OpenWalk \/ StartWalk
         \/ SingleSeeks \/ HeadSkips \/ HeadDirectory \/ HeadFile
         \/ SingleFile \/ HeadEnds \/ PrepareRefuses \/ Prepare \/ CopyChunk
         \/ CopyEnds \/ Install \/ InstallSingle \/ Finish \/ Meddle
         \/ ReplaceArchive \/ RewriteArchive \/ Refusal
  BY Zenon DEF Next, Walk, Refusal

\* The listing stays what it was.
LEMMA ListingStays == [Next]_vars => UNCHANGED <<backend, listing>>
<1> SUFFICES ASSUME [Next]_vars PROVE UNCHANGED <<backend, listing>>
  OBVIOUS
<1>1. CASE UNCHANGED vars
  BY <1>1 DEF vars, world, callVars
<1>2. CASE Call
  BY <1>2 DEF Call, world, callVars
<1>3. CASE GatesPass
  BY <1>3 DEF GatesPass, world, callVars
<1>4. CASE PreflightEntry
  BY <1>4 DEF PreflightEntry, world, callVars
<1>5. CASE PreflightEnds
  BY <1>5 DEF PreflightEnds, world, callVars
<1>6. CASE StatArchive
  BY <1>6 DEF StatArchive, world, callVars
<1>7. CASE OpenWalk
  BY <1>7 DEF OpenWalk, world, callVars
<1>8. CASE StartWalk
  BY <1>8 DEF StartWalk, world, callVars
<1>9. CASE SingleSeeks
  BY <1>9 DEF SingleSeeks, world, callVars
<1>10. CASE HeadSkips
  BY <1>10 DEF HeadSkips, world, callVars
<1>11. CASE HeadDirectory
  BY <1>11 DEF HeadDirectory, world, callVars
<1>12. CASE HeadFile
  BY <1>12 DEF HeadFile, world, callVars
<1>13. CASE SingleFile
  BY <1>13 DEF SingleFile, world, callVars
<1>14. CASE HeadEnds
  BY <1>14 DEF HeadEnds, world, callVars
<1>15. CASE PrepareRefuses
  BY <1>15 DEF PrepareRefuses, Answer, Cleanup, world, callVars
<1>16. CASE Prepare
  BY <1>16 DEF Prepare, world, callVars
<1>17. CASE CopyChunk
  BY <1>17 DEF CopyChunk, world, callVars
<1>18. CASE CopyEnds
  BY <1>18 DEF CopyEnds, world, callVars
<1>19. CASE Install
  BY <1>19 DEF Install, PutFile, Cleanup, world, callVars
<1>20. CASE InstallSingle
  BY <1>20 DEF InstallSingle, PutFile, Cleanup, world, callVars
<1>21. CASE Finish
  BY <1>21 DEF Finish, Answer, Cleanup, world, callVars
<1>22. CASE Meddle
  BY <1>22 DEF Meddle, world, callVars
<1>23. CASE ReplaceArchive
  BY <1>23 DEF ReplaceArchive, world, callVars
<1>24. CASE RewriteArchive
  BY <1>24 DEF RewriteArchive, world, callVars
<1>25. CASE Refusal
  <2>1. PICK r \in Answers : Refuse(r)
    BY <1>25, RefusalRefuses
  <2>. QED
    BY <2>1 DEF Refuse, world, callVars
<1>. QED
  BY <1>1, <1>2, <1>3, <1>4, <1>5, <1>6, <1>7, <1>8, <1>9, <1>10, <1>11,
     <1>12, <1>13, <1>14, <1>15, <1>16, <1>17, <1>18, <1>19, <1>20, <1>21,
     <1>22, <1>23, <1>24, <1>25, NextCases

-----------------------------------------------------------------------------
(* The inductive invariant: the archive, the listing and the file at hand. *)

\* The handle's listing and the call.
WorldInv ==
  /\ backend \in {"zip", "sevenzip", "libarchive"}
  /\ \A i \in DOMAIN listing : Named(listing[i])
  /\ backend # "libarchive" => \A i \in DOMAIN listing : Stated(listing[i])
  /\ call.op = "one" =>
       \E i \in DOMAIN listing : call.sel = {i} /\ listing[i].kind = "file"
  /\ (call.op = "none") = (phase = "idle")
  /\ swapped \in {"no", "replaced", "rewritten"}

\* What the records of the file the handle is bound to owe to its listing.
Corresponds(s) ==
  /\ backend # "libarchive" => \A n \in DOMAIN s : Stated(s[n])
  /\ \A i \in DOMAIN Listed(s) \cap DOMAIN listing :
       Listed(s)[i].name = listing[i].name =>
         Listed(s)[i].kind = listing[i].kind
  /\ swapped # "rewritten" => Listed(s) = listing

Early == {"idle", "gates", "preflight", "open", "opening"}
Walking == {"head", "prepare", "copy", "install", "final"}

\* Why the bracket around the open is enough: files come to stand under the
\* archive's name in one order, so what was opened lies between what the two
\* stats found.
SourceInv ==
  /\ disk.id = 1 => Corresponds(disk.records)
  /\ swapped = "no" => disk.id = 1
  /\ phase \in Early => source.id = 0
  /\ source.id <= disk.id
  /\ source.id = 1 => Corresponds(source.records)
  /\ backend = "zip" => source.id # 2
  /\ (backend = "zip" /\ source.id # 0) => source.records = listing
  /\ phase = "bracket" => source.id # 0
  /\ phase \in Walking => source.id = 1

\* The file at hand, and how much of it is staged.
FileInv ==
  /\ phase \in {"prepare", "copy", "install"} =>
       /\ at \in DOMAIN source.records
       /\ Wanted(at)
       /\ RecordAt(at).kind = "file"
  /\ phase = "copy" =>
       /\ stage.size <= RecordAt(at).data
       /\ stage.size <= Ceiling(RecordAt(at))
  /\ phase = "install" =>
       stage.size = RecordAt(at).data /\ Whole(RecordAt(at))
  /\ phase \notin {"copy", "install"} => stage = NoStage

BaseInv == TypeOK /\ WorldInv /\ SourceInv /\ FileInv

\* Where the walk stands it reads a record, and counts it.
LEMMA RecordsAt ==
  ASSUME source.records \in Seq(Records), NEW n \in DOMAIN source.records
  PROVE  /\ RecordAt(n) \in Records /\ RecordAt(n) \in Range(source.records)
         /\ IndexFor(n) \in Nat
<1>1. /\ Len(source.records) \in Nat
      /\ DOMAIN source.records = 1..Len(source.records)
  OBVIOUS
<1>2. CASE backend = "sevenzip"
  <2>1. VisitOrder(source.records)[n] \in DOMAIN source.records
    BY VisitsAll
  <2>. QED
    BY <1>1, <1>2, <2>1 DEF RecordAt, IndexFor, Range
<1>3. CASE backend # "sevenzip"
  <2>1. Cardinality({m \in 1..n : Named(source.records[m])}) \in Nat
    <3>1. n \in Nat /\ {m \in 1..n : Named(source.records[m])} \in SUBSET (1..n)
      BY <1>1
    <3>. QED
      BY <3>1, PartOfRun
  <2>. QED
    BY <1>3, <2>1 DEF RecordAt, IndexFor, Range
<1>. QED
  BY <1>2, <1>3

\* The walk of the bound file meets every entry of its own listing, once, and
\* at its index.
LEMMA Paired ==
  ASSUME source.records \in Seq(Records), Corresponds(source.records)
  PROVE  LET s == source.records
         IN  /\ \A n \in DOMAIN s :
                  Named(RecordAt(n)) => /\ IndexFor(n) \in DOMAIN Listed(s)
                                        /\ Listed(s)[IndexFor(n)] = RecordAt(n)
             /\ \A i \in DOMAIN Listed(s) :
                  \E n \in DOMAIN s : Named(RecordAt(n)) /\ IndexFor(n) = i
             /\ \A m, n \in DOMAIN s :
                  (/\ Named(RecordAt(m)) /\ Named(RecordAt(n))
                   /\ IndexFor(m) = IndexFor(n)) => m = n
<1> DEFINE s == source.records
<1>1. CASE backend = "sevenzip"
  <2>1. \A n \in DOMAIN s : Named(s[n])
    BY <1>1 DEF Corresponds, Stated
  <2>2. Listed(s) = s
    BY <2>1, ListedAll
  <2>3. \A n \in DOMAIN s : /\ IndexFor(n) = VisitOrder(s)[n]
                            /\ RecordAt(n) = s[VisitOrder(s)[n]]
    BY <1>1 DEF IndexFor, RecordAt
  <2>4. \A n \in DOMAIN s : VisitOrder(s)[n] \in DOMAIN s
    BY VisitsAll
  <2>. QED
    BY <2>1, <2>2, <2>3, <2>4, VisitsAll
<1>2. CASE backend # "sevenzip"
  <2>1. \A n \in DOMAIN s : IndexFor(n) = Place(s, n) /\ RecordAt(n) = s[n]
    BY <1>2 DEF IndexFor, RecordAt, Place
  <2>. QED
    BY <2>1, ListedInOrder DEF NamedIn
<1>. QED
  BY <1>1, <1>2

\* An entry of the walk that did not drift has its listed kind.
LEMMA WantedIsListed ==
  ASSUME BaseInv, source.id = 1, NEW n \in DOMAIN source.records, Wanted(n)
  PROVE  /\ IndexFor(n) \in DOMAIN listing /\ IndexFor(n) \in call.sel
         /\ RecordAt(n).name = listing[IndexFor(n)].name
         /\ RecordAt(n).kind = listing[IndexFor(n)].kind
         /\ (swapped # "rewritten" \/ backend = "zip") =>
              RecordAt(n) = listing[IndexFor(n)]
<1>1. /\ source.records \in Seq(Records) /\ Corresponds(source.records)
      /\ call.sel \subseteq DOMAIN listing
  BY DEF BaseInv, TypeOK, ArchiveOK, SourceInv
<1>2. /\ Named(RecordAt(n)) /\ IndexFor(n) \in call.sel
      /\ IndexFor(n) \in DOMAIN listing
      /\ RecordAt(n).name = listing[IndexFor(n)].name
  BY <1>1 DEF Wanted, Chosen, Drifts
<1>3. /\ IndexFor(n) \in DOMAIN Listed(source.records)
      /\ Listed(source.records)[IndexFor(n)] = RecordAt(n)
  BY <1>1, <1>2, Paired
<1>4. backend = "zip" => Listed(source.records) = listing
  <2>1. Listed(listing) = listing
    BY ListedAll DEF BaseInv, TypeOK, ArchiveOK, WorldInv
  <2>. QED
    BY <2>1 DEF BaseInv, SourceInv
<1>. QED
  BY <1>1, <1>2, <1>3, <1>4 DEF Corresponds


-----------------------------------------------------------------------------
(* The steps keep it.                                                      *)

\* A call selects entries of the listing; extract_file one regular file.
LEMMA CallSelects ==
  ASSUME Call
  PROVE  /\ call'.op \in {"bulk", "one"} /\ call'.sel \subseteq DOMAIN listing
         /\ call'.overwrite \in BOOLEAN
         /\ call'.op = "one" =>
              \E i \in DOMAIN listing :
                call'.sel = {i} /\ listing[i].kind = "file"
<1>1. CASE \E overwrite \in BOOLEAN,
              s \in SelectAll \cup SelectSome \cup SelectFiles \cup SelectByIds :
             call' = [op |-> "bulk", sel |-> s, overwrite |-> overwrite]
  <2>1. PICK overwrite \in BOOLEAN,
             s \in SelectAll \cup SelectSome \cup SelectFiles \cup SelectByIds :
          call' = [op |-> "bulk", sel |-> s, overwrite |-> overwrite]
    BY <1>1
  <2>2. s \subseteq DOMAIN listing
    BY DEF SelectAll, SelectSome, SelectFiles, SelectByIds
  <2>. QED
    BY <2>1, <2>2
<1>2. CASE \E overwrite \in BOOLEAN, s \in SelectOne :
             call' = [op |-> "one", sel |-> s, overwrite |-> overwrite]
  <2>1. PICK overwrite \in BOOLEAN, s \in SelectOne :
          call' = [op |-> "one", sel |-> s, overwrite |-> overwrite]
    BY <1>2
  <2>2. \E i \in DOMAIN listing : s = {i} /\ listing[i].kind = "file"
    BY DEF SelectOne
  <2>. QED
    BY <2>1, <2>2
<1>. QED
  BY <1>1, <1>2 DEF Call

\* The denominator is a number.
LEMMA DenominatorIsNat ==
  ASSUME BaseInv
  PROVE  Denominator \in Nat
<1> DEFINE W == Weighs(Table)
           f == [i \in W |-> Table[i].size]
<1>1. Table \in Seq(Records)
  BY DEF Table, BaseInv, TypeOK, ArchiveOK
<1>2. Len(Table) \in Nat /\ W \in SUBSET (1..Len(Table))
  BY <1>1 DEF Weighs
<1>3. IsFiniteSet(W)
  BY <1>2, PartOfRun
<1>4. \A i \in W : f[i] \in Nat
  <2> SUFFICES ASSUME NEW i \in W PROVE Table[i].size \in Nat
    OBVIOUS
  <2>1. i \in DOMAIN Table /\ Table[i].size # Undeclared
    BY DEF Weighs
  <2>2. Table[i] \in Records
    BY <1>1, <2>1
  <2>. QED
    BY <2>1, <2>2 DEF Records
<1> HIDE DEF W, f
<1>5. SumOver(f, W) \in Nat
  BY <1>3, <1>4, SumIsNat
<1>. QED
  BY <1>5 DEF Denominator, W, f

\* The archive, the listing and the call.
LEMMA ArchiveStep == BaseInv /\ [Next]_vars => ArchiveOK'
<1> SUFFICES ASSUME BaseInv, [Next]_vars PROVE ArchiveOK'
  OBVIOUS
<1>40. UNCHANGED <<backend, listing>>
  BY ListingStays
<1>41. /\ ArchiveOK /\ PhaseOK /\ TreeOK /\ WorldInv /\ SourceInv /\ FileInv
       /\ source.records \in Seq(Records)
  BY DEF BaseInv, TypeOK, ArchiveOK
<1> USE <1>40, <1>41 DEF ArchiveOK, world, callVars, barVars, out
<1>1. CASE UNCHANGED vars
  BY <1>1 DEF vars
<1>2. CASE Call
  BY <1>2, CallSelects DEF Call
<1>3. CASE GatesPass
  BY <1>3 DEF GatesPass
<1>4. CASE PreflightEntry
  BY <1>4 DEF PreflightEntry
<1>5. CASE PreflightEnds
  BY <1>5 DEF PreflightEnds
<1>6. CASE StatArchive
  BY <1>6 DEF StatArchive
<1>7. CASE OpenWalk
  <2>1. disk.records \in Seq(Records)
    BY ArchiveAssumption
  <2>. QED
    BY <1>7, <2>1 DEF OpenWalk
<1>8. CASE StartWalk
  BY <1>8 DEF StartWalk
<1>9. CASE SingleSeeks
  BY <1>9 DEF SingleSeeks
<1>10. CASE HeadSkips
  BY <1>10 DEF HeadSkips
<1>11. CASE HeadDirectory
  BY <1>11 DEF HeadDirectory
<1>12. CASE HeadFile
  BY <1>12 DEF HeadFile
<1>13. CASE SingleFile
  BY <1>13 DEF SingleFile
<1>14. CASE HeadEnds
  BY <1>14 DEF HeadEnds
<1>15. CASE PrepareRefuses
  BY <1>15 DEF PrepareRefuses, Answer, Cleanup
<1>16. CASE Prepare
  BY <1>16 DEF Prepare
<1>17. CASE CopyChunk
  BY <1>17 DEF CopyChunk
<1>18. CASE CopyEnds
  BY <1>18 DEF CopyEnds
<1>19. CASE Install
  BY <1>19 DEF Install, PutFile, Cleanup
<1>20. CASE InstallSingle
  BY <1>20 DEF InstallSingle, PutFile, Cleanup
<1>21. CASE Finish
  BY <1>21 DEF Finish, Answer, Cleanup
<1>22. CASE Meddle
  BY <1>22 DEF Meddle
<1>23. CASE ReplaceArchive
  BY <1>23 DEF ReplaceArchive
<1>24. CASE RewriteArchive
  BY <1>24 DEF RewriteArchive
<1>25. CASE Refusal
  <2>1. PICK r \in Answers : Refuse(r)
    BY <1>25, RefusalRefuses
  <2>. QED
    BY <2>1, <1>25 DEF Refuse, Answer, Cleanup
<1>. QED
  BY <1>1, <1>2, <1>3, <1>4, <1>5, <1>6, <1>7, <1>8, <1>9, <1>10, <1>11,
     <1>12, <1>13, <1>14, <1>15, <1>16, <1>17, <1>18, <1>19, <1>20, <1>21,
     <1>22, <1>23, <1>24, <1>25, NextCases

\* The counters.
LEMMA PhaseStep == BaseInv /\ [Next]_vars => PhaseOK'
<1> SUFFICES ASSUME BaseInv, [Next]_vars PROVE PhaseOK'
  OBVIOUS
<1>40. UNCHANGED <<backend, listing>>
  BY ListingStays
<1>41. /\ ArchiveOK /\ PhaseOK /\ TreeOK /\ WorldInv /\ SourceInv /\ FileInv
       /\ source.records \in Seq(Records)
  BY DEF BaseInv, TypeOK, ArchiveOK
<1> USE <1>40, <1>41 DEF PhaseOK, NoStage, Least, world, callVars, barVars, out
<1>1. CASE UNCHANGED vars
  BY <1>1 DEF vars
<1>2. CASE Call
  BY <1>2 DEF Call
<1>3. CASE GatesPass
  BY <1>3 DEF GatesPass
<1>4. CASE PreflightEntry
  BY <1>4 DEF PreflightEntry
<1>5. CASE PreflightEnds
  BY <1>5 DEF PreflightEnds
<1>6. CASE StatArchive
  BY <1>6 DEF StatArchive
<1>7. CASE OpenWalk
  BY <1>7 DEF OpenWalk
<1>8. CASE StartWalk
  BY <1>8, DenominatorIsNat DEF StartWalk
<1>9. CASE SingleSeeks
  <2>1. at' \in Nat \ {0}
    <3>1. CASE backend = "zip"
      <4>1. \E i \in call.sel : TRUE
        BY <1>9 DEF SingleSeeks, WorldInv
      <4>2. at' \in call.sel
        BY <1>9, <3>1, <4>1 DEF SingleSeeks
      <4>. QED
        BY <4>2 DEF ArchiveOK
    <3>2. CASE backend # "zip"
      BY <1>9, <3>2 DEF SingleSeeks
    <3>. QED
      BY <3>1, <3>2
  <2>. QED
    BY <1>9, <2>1 DEF SingleSeeks
<1>10. CASE HeadSkips
  BY <1>10 DEF HeadSkips
<1>11. CASE HeadDirectory
  BY <1>11 DEF HeadDirectory
<1>12. CASE HeadFile
  BY <1>12 DEF HeadFile
<1>13. CASE SingleFile
  BY <1>13 DEF SingleFile
<1>14. CASE HeadEnds
  BY <1>14 DEF HeadEnds
<1>15. CASE PrepareRefuses
  BY <1>15 DEF PrepareRefuses, Answer, Cleanup
<1>16. CASE Prepare
  BY <1>16 DEF Prepare
<1>17. CASE CopyChunk
  <2>1. stage' \in [on : BOOLEAN, size : Nat]
    BY <1>17 DEF CopyChunk
  <2>2. reported' \in Nat
    <3>1. SampleIn(RecordAt(at), stage.size + 1) \in Nat
      BY DEF SampleIn
    <3>. QED
      BY <1>17, <3>1 DEF CopyChunk
  <2>. QED
    BY <1>17, <2>1, <2>2 DEF CopyChunk
<1>18. CASE CopyEnds
  BY <1>18 DEF CopyEnds
<1>19. CASE Install
  BY <1>19 DEF Install, PutFile, Cleanup
<1>20. CASE InstallSingle
  BY <1>20 DEF InstallSingle, PutFile, Cleanup
<1>21. CASE Finish
  BY <1>21 DEF Finish, Answer, Cleanup
<1>22. CASE Meddle
  BY <1>22 DEF Meddle
<1>23. CASE ReplaceArchive
  BY <1>23 DEF ReplaceArchive
<1>24. CASE RewriteArchive
  BY <1>24 DEF RewriteArchive
<1>25. CASE Refusal
  <2>1. PICK r \in Answers : Refuse(r)
    BY <1>25, RefusalRefuses
  <2>2. r # "none"
    BY DEF Answers
  <2>. QED
    BY <2>1, <2>2 DEF Refuse, Answer, Cleanup
<1>. QED
  BY <1>1, <1>2, <1>3, <1>4, <1>5, <1>6, <1>7, <1>8, <1>9, <1>10, <1>11,
     <1>12, <1>13, <1>14, <1>15, <1>16, <1>17, <1>18, <1>19, <1>20, <1>21,
     <1>22, <1>23, <1>24, <1>25, NextCases

\* The destination.
LEMMA TreeStep == BaseInv /\ [Next]_vars => TreeOK'
<1> SUFFICES ASSUME BaseInv, [Next]_vars PROVE TreeOK'
  OBVIOUS
<1>40. UNCHANGED <<backend, listing>>
  BY ListingStays
<1>41. /\ ArchiveOK /\ PhaseOK /\ TreeOK /\ WorldInv /\ SourceInv /\ FileInv
       /\ source.records \in Seq(Records)
  BY DEF BaseInv, TypeOK, ArchiveOK
<1> USE <1>40, <1>41 DEF TreeOK, world, callVars, barVars, out
<1>1. CASE UNCHANGED vars
  BY <1>1 DEF vars
<1>2. CASE Call
  BY <1>2 DEF Call
<1>3. CASE GatesPass
  BY <1>3 DEF GatesPass
<1>4. CASE PreflightEntry
  BY <1>4 DEF PreflightEntry
<1>5. CASE PreflightEnds
  BY <1>5 DEF PreflightEnds
<1>6. CASE StatArchive
  BY <1>6 DEF StatArchive
<1>7. CASE OpenWalk
  BY <1>7 DEF OpenWalk
<1>8. CASE StartWalk
  BY <1>8 DEF StartWalk
<1>9. CASE SingleSeeks
  BY <1>9 DEF SingleSeeks
<1>10. CASE HeadSkips
  BY <1>10 DEF HeadSkips
<1>11. CASE HeadDirectory
  <2>1. RecordAt(at) \in Records
    BY <1>11, RecordsAt DEF HeadDirectory, AtEnd, PhaseOK
  <2>. QED
    BY <1>11, <2>1 DEF HeadDirectory, WithDirectory, WithParents, Foreign
<1>12. CASE HeadFile
  BY <1>12 DEF HeadFile
<1>13. CASE SingleFile
  BY <1>13 DEF SingleFile
<1>14. CASE HeadEnds
  BY <1>14 DEF HeadEnds
<1>15. CASE PrepareRefuses
  BY <1>15 DEF PrepareRefuses, WithParents, Foreign
<1>16. CASE Prepare
  BY <1>16 DEF Prepare, WithParents, Foreign
<1>17. CASE CopyChunk
  BY <1>17 DEF CopyChunk
<1>18. CASE CopyEnds
  BY <1>18 DEF CopyEnds
<1>19. CASE Install
  <2>1. RecordAt(at) \in Records /\ IndexFor(at) \in Nat
    BY <1>19, RecordsAt DEF Install, PutFile, FileInv
  <2>2. source.id = 1 /\ stage.size \in Nat
    BY <1>19 DEF Install, PutFile, SourceInv, Walking, PhaseOK
  <2>. QED
    BY <1>19, <2>1, <2>2 DEF Install, PutFile, WithFile, OwnFile, Records
<1>20. CASE InstallSingle
  <2>1. RecordAt(at) \in Records /\ IndexFor(at) \in Nat
    BY <1>20, RecordsAt DEF InstallSingle, PutFile, FileInv
  <2>2. source.id = 1 /\ stage.size \in Nat
    BY <1>20 DEF InstallSingle, PutFile, SourceInv, Walking, PhaseOK
  <2>. QED
    BY <1>20, <2>1, <2>2 DEF InstallSingle, PutFile, WithFile, OwnFile, Records
<1>21. CASE Finish
  BY <1>21 DEF Finish, Answer, Cleanup
<1>22. CASE Meddle
  <2>1. meddled' \in 0..MaxMeddling
    BY <1>22, LimitAssumption DEF Meddle
  <2>2. dest' \in [Paths -> [kind : {"none", "file", "dir", "link"},
                            own : BOOLEAN, size : Nat]]
    <3> DEFINE Node == [kind : {"none", "file", "dir", "link"},
                        own : BOOLEAN, size : Nat]
    <3>1. /\ Foreign("file") \in Node /\ Foreign("dir") \in Node
          /\ Absent \in Node
      BY DEF Foreign, Absent
    <3>2. PICK p \in Paths : \/ \E k \in {"file", "dir"} :
                                 dest' = [dest EXCEPT ![p] = Foreign(k)]
                            \/ dest' = [dest EXCEPT ![p] = Absent]
      BY <1>22 DEF Meddle
    <3> HIDE DEF Node
    <3>3. dest \in [Paths -> Node]
      BY DEF Node
    <3>4. dest' \in [Paths -> Node]
      BY <3>1, <3>2, <3>3
    <3>. QED
      BY <3>4 DEF Node
  <2>. QED
    BY <1>22, <2>1, <2>2 DEF Meddle
<1>23. CASE ReplaceArchive
  BY <1>23 DEF ReplaceArchive
<1>24. CASE RewriteArchive
  BY <1>24 DEF RewriteArchive
<1>25. CASE Refusal
  <2>1. PICK r \in Answers : Refuse(r)
    BY <1>25, RefusalRefuses
  <2>. QED
    BY <2>1, <1>25 DEF Refuse, Answer, Cleanup
<1>. QED
  BY <1>1, <1>2, <1>3, <1>4, <1>5, <1>6, <1>7, <1>8, <1>9, <1>10, <1>11,
     <1>12, <1>13, <1>14, <1>15, <1>16, <1>17, <1>18, <1>19, <1>20, <1>21,
     <1>22, <1>23, <1>24, <1>25, NextCases

\* The call names entries of the listing.
LEMMA WorldStep == BaseInv /\ [Next]_vars => WorldInv'
<1> SUFFICES ASSUME BaseInv, [Next]_vars PROVE WorldInv'
  OBVIOUS
<1>40. UNCHANGED <<backend, listing>>
  BY ListingStays
<1>41. /\ ArchiveOK /\ PhaseOK /\ TreeOK /\ WorldInv /\ SourceInv /\ FileInv
       /\ source.records \in Seq(Records)
  BY DEF BaseInv, TypeOK, ArchiveOK
<1> USE <1>40, <1>41 DEF WorldInv, world, callVars, barVars, out
<1>1. CASE UNCHANGED vars
  BY <1>1 DEF vars
<1>2. CASE Call
  BY <1>2, CallSelects DEF Call
<1>3. CASE GatesPass
  BY <1>3 DEF GatesPass
<1>4. CASE PreflightEntry
  BY <1>4 DEF PreflightEntry
<1>5. CASE PreflightEnds
  BY <1>5 DEF PreflightEnds
<1>6. CASE StatArchive
  BY <1>6 DEF StatArchive
<1>7. CASE OpenWalk
  BY <1>7 DEF OpenWalk
<1>8. CASE StartWalk
  BY <1>8 DEF StartWalk
<1>9. CASE SingleSeeks
  BY <1>9 DEF SingleSeeks
<1>10. CASE HeadSkips
  BY <1>10 DEF HeadSkips
<1>11. CASE HeadDirectory
  BY <1>11 DEF HeadDirectory
<1>12. CASE HeadFile
  BY <1>12 DEF HeadFile
<1>13. CASE SingleFile
  BY <1>13 DEF SingleFile
<1>14. CASE HeadEnds
  BY <1>14 DEF HeadEnds
<1>15. CASE PrepareRefuses
  BY <1>15 DEF PrepareRefuses, Answer, Cleanup
<1>16. CASE Prepare
  BY <1>16 DEF Prepare
<1>17. CASE CopyChunk
  BY <1>17 DEF CopyChunk
<1>18. CASE CopyEnds
  BY <1>18 DEF CopyEnds
<1>19. CASE Install
  BY <1>19 DEF Install, PutFile, Cleanup
<1>20. CASE InstallSingle
  BY <1>20 DEF InstallSingle, PutFile, Cleanup
<1>21. CASE Finish
  BY <1>21 DEF Finish, Answer, Cleanup
<1>22. CASE Meddle
  BY <1>22 DEF Meddle
<1>23. CASE ReplaceArchive
  BY <1>23 DEF ReplaceArchive
<1>24. CASE RewriteArchive
  BY <1>24 DEF RewriteArchive
<1>25. CASE Refusal
  <2>1. PICK r \in Answers : Refuse(r)
    BY <1>25, RefusalRefuses
  <2>. QED
    BY <1>25, <2>1, RefusalRefuses DEF Refuse, Answer
<1>. QED
  BY <1>1, <1>2, <1>3, <1>4, <1>5, <1>6, <1>7, <1>8, <1>9, <1>10, <1>11,
     <1>12, <1>13, <1>14, <1>15, <1>16, <1>17, <1>18, <1>19, <1>20, <1>21,
     <1>22, <1>23, <1>24, <1>25, NextCases

\* The records a file has do not owe more when the archive is left alone.
LEMMA StillCorresponds ==
  ASSUME UNCHANGED <<backend, listing>>, NEW s, Corresponds(s),
         swapped' = "rewritten" \/ swapped' = swapped \/ swapped = "no"
  PROVE  Corresponds(s)'
  BY DEF Corresponds

\* The bracket around the open.
LEMMA SourceStep == BaseInv /\ [Next]_vars => SourceInv'
<1> SUFFICES ASSUME BaseInv, [Next]_vars PROVE SourceInv'
  OBVIOUS
<1>40. UNCHANGED <<backend, listing>>
  BY ListingStays
<1>41. /\ ArchiveOK /\ PhaseOK /\ TreeOK /\ WorldInv /\ SourceInv /\ FileInv
       /\ source.records \in Seq(Records)
  BY DEF BaseInv, TypeOK, ArchiveOK
<1>42. ASSUME swapped' = swapped, disk' = disk, source' = source
       PROVE  /\ disk'.id = 1 => Corresponds(disk.records)'
              /\ source'.id = 1 => Corresponds(source.records)'
  BY <1>40, <1>41, <1>42 DEF Corresponds, SourceInv
<1> USE <1>40, <1>41, <1>42 DEF SourceInv, Early, Walking, world, callVars,
   barVars, out
<1>1. CASE UNCHANGED vars
  BY <1>1 DEF vars
<1>2. CASE Call
  BY <1>2 DEF Call
<1>3. CASE GatesPass
  BY <1>3 DEF GatesPass
<1>4. CASE PreflightEntry
  BY <1>4 DEF PreflightEntry
<1>5. CASE PreflightEnds
  BY <1>5 DEF PreflightEnds
<1>6. CASE StatArchive
  BY <1>6 DEF StatArchive
<1>7. CASE OpenWalk
  <2>1. CASE backend = "zip"
    <3>1. Corresponds(listing)'
      <4>1. Listed(listing) = listing
        BY ListedAll DEF ArchiveOK, WorldInv
      <4>2. Listed(listing)' = listing'
        BY <1>40, <4>1
      <4>. QED
        BY <4>2 DEF Corresponds, WorldInv
    <3>. QED
      BY <1>7, <2>1, <3>1 DEF OpenWalk, ArchiveOK, Corresponds
  <2>2. CASE backend # "zip"
    BY <1>7, <2>2 DEF OpenWalk, ArchiveOK, Corresponds
  <2>. QED
    BY <2>1, <2>2
<1>8. CASE StartWalk
  <2>1. source.id = 1
    BY <1>8 DEF StartWalk, Bound, ArchiveOK
  <2>. QED
    BY <1>8, <2>1 DEF StartWalk
<1>9. CASE SingleSeeks
  BY <1>9 DEF SingleSeeks
<1>10. CASE HeadSkips
  BY <1>10 DEF HeadSkips
<1>11. CASE HeadDirectory
  BY <1>11 DEF HeadDirectory
<1>12. CASE HeadFile
  BY <1>12 DEF HeadFile
<1>13. CASE SingleFile
  BY <1>13 DEF SingleFile
<1>14. CASE HeadEnds
  BY <1>14 DEF HeadEnds
<1>15. CASE PrepareRefuses
  BY <1>15 DEF PrepareRefuses, Answer, Cleanup
<1>16. CASE Prepare
  BY <1>16 DEF Prepare
<1>17. CASE CopyChunk
  BY <1>17 DEF CopyChunk
<1>18. CASE CopyEnds
  BY <1>18 DEF CopyEnds
<1>19. CASE Install
  BY <1>19 DEF Install, PutFile, Cleanup
<1>20. CASE InstallSingle
  BY <1>20 DEF InstallSingle, PutFile, Cleanup
<1>21. CASE Finish
  BY <1>21 DEF Finish, Answer, Cleanup
<1>22. CASE Meddle
  BY <1>22 DEF Meddle
<1>23. CASE ReplaceArchive
  BY <1>23 DEF ReplaceArchive, Corresponds, ArchiveOK
<1>24. CASE RewriteArchive
  <2>1. PICK s \in Archives :
          /\ \A i \in DOMAIN Listed(s) \cap DOMAIN listing :
               Listed(s)[i].name = listing[i].name =>
                 Listed(s)[i].kind = listing[i].kind
          /\ backend # "libarchive" => \A r \in Range(s) : Stated(r)
          /\ disk' = [id |-> 1, records |-> s]
    BY <1>24 DEF RewriteArchive
  <2>2. \A n \in DOMAIN s : s[n] \in Range(s)
    BY DEF Range
  <2>3. swapped' = "rewritten" /\ source' = source /\ phase' = phase
        /\ phase \in Early
    BY <1>24 DEF RewriteArchive
  <2>4. Corresponds(s)'
    BY <2>1, <2>2, <2>3 DEF Corresponds
  <2>. QED
    BY <2>1, <2>3, <2>4, <1>24
<1>25. CASE Refusal
  <2>1. PICK r \in Answers : Refuse(r)
    BY <1>25, RefusalRefuses
  <2>. QED
    BY <2>1, <1>25, RefusalRefuses DEF Refuse, Answer, Cleanup
<1>. QED
  BY <1>1, <1>2, <1>3, <1>4, <1>5, <1>6, <1>7, <1>8, <1>9, <1>10, <1>11,
     <1>12, <1>13, <1>14, <1>15, <1>16, <1>17, <1>18, <1>19, <1>20, <1>21,
     <1>22, <1>23, <1>24, <1>25, NextCases

\* The file at hand.
LEMMA FileStep == BaseInv /\ [Next]_vars => FileInv'
<1> SUFFICES ASSUME BaseInv, [Next]_vars PROVE FileInv'
  OBVIOUS
<1>40. UNCHANGED <<backend, listing>>
  BY ListingStays
<1>41. /\ ArchiveOK /\ PhaseOK /\ TreeOK /\ WorldInv /\ SourceInv /\ FileInv
       /\ source.records \in Seq(Records)
  BY DEF BaseInv, TypeOK, ArchiveOK
<1>42. UNCHANGED <<source, call>> =>
         \A n : /\ RecordAt(n)' = RecordAt(n)
               /\ Wanted(n)' = Wanted(n)
  BY <1>40 DEF RecordAt, IndexFor, Wanted, Chosen, Drifts
<1>43. UNCHANGED <<processed, call>> => \A r : Ceiling(r)' = Ceiling(r)
  BY <1>40 DEF Ceiling
<1>44. UNCHANGED stage => \A r : Whole(r)' = Whole(r)
  BY DEF Whole
<1>45. UNCHANGED <<source, call, at>> => UNCHANGED <<RecordAt(at), Wanted(at)>>
  BY <1>40 DEF RecordAt, IndexFor, Wanted, Chosen, Drifts
<1>46. UNCHANGED <<source, call, at, processed>> =>
         Ceiling(RecordAt(at))' = Ceiling(RecordAt(at))
  BY <1>40, <1>45 DEF Ceiling
<1>47. UNCHANGED <<source, call, at, stage>> =>
         Whole(RecordAt(at))' = Whole(RecordAt(at))
  BY <1>40, <1>45 DEF Whole
<1> USE <1>40, <1>41 DEF FileInv, NoStage, world, callVars, barVars, out
<1>1. CASE UNCHANGED vars
  BY <1>1, <1>45, <1>46, <1>47 DEF vars
<1>2. CASE Call
  BY <1>2, <1>45, <1>46, <1>47 DEF Call
<1>3. CASE GatesPass
  BY <1>3, <1>45, <1>46, <1>47 DEF GatesPass
<1>4. CASE PreflightEntry
  BY <1>4, <1>45, <1>46, <1>47 DEF PreflightEntry
<1>5. CASE PreflightEnds
  BY <1>5, <1>45, <1>46, <1>47 DEF PreflightEnds
<1>6. CASE StatArchive
  BY <1>6, <1>45, <1>46, <1>47 DEF StatArchive
<1>7. CASE OpenWalk
  BY <1>7, <1>45, <1>46, <1>47 DEF OpenWalk
<1>8. CASE StartWalk
  BY <1>8, <1>45, <1>46, <1>47 DEF StartWalk
<1>9. CASE SingleSeeks
  BY <1>9, <1>45, <1>46, <1>47 DEF SingleSeeks
<1>10. CASE HeadSkips
  BY <1>10, <1>45, <1>46, <1>47 DEF HeadSkips
<1>11. CASE HeadDirectory
  BY <1>11, <1>45, <1>46, <1>47 DEF HeadDirectory
<1>12. CASE HeadFile
  <2>1. at \in DOMAIN source.records
    BY <1>12 DEF HeadFile, AtEnd, PhaseOK
  <2>2. RecordAt(at).kind = "file"
    BY <1>12 DEF HeadFile
  <2>. QED
    BY <1>12, <2>1, <2>2, <1>45 DEF HeadFile
<1>13. CASE SingleFile
  <2>1. at \in DOMAIN source.records
    BY <1>13 DEF SingleFile, AtEnd, PhaseOK
  <2>2. RecordAt(at).kind = "file"
    <3>1. source.id = 1 /\ Wanted(at) /\ call.op = "one"
      BY <1>13 DEF SingleFile, SourceInv, Walking
    <3>. QED
      BY <2>1, <3>1, WantedIsListed DEF WorldInv
  <2>. QED
    BY <1>13, <2>1, <2>2, <1>45 DEF SingleFile
<1>14. CASE HeadEnds
  BY <1>14, <1>45, <1>46, <1>47 DEF HeadEnds
<1>15. CASE PrepareRefuses
  BY <1>15, <1>45, <1>46, <1>47 DEF PrepareRefuses, Answer, Cleanup
<1>16. CASE Prepare
  <2>1. Ceiling(RecordAt(at)) \in Nat /\ RecordAt(at).data \in Nat
    <3>1. RecordAt(at) \in Records
      BY <1>16, RecordsAt DEF Prepare
    <3>2. \A m, n \in Nat : Least(m, n) \in Nat
      BY DEF Least
    <3>3. SingleCap \in Nat
      BY <3>2, LimitAssumption DEF SingleCap
    <3> DEFINE r == RecordAt(at)
               cap == IF call.op = "one" THEN SingleCap ELSE MaxFile
               own == IF r.size # Undeclared THEN r.size ELSE cap
               left == IF processed < MaxTotal THEN MaxTotal - processed ELSE 0
    <3>4. cap \in Nat
      BY <3>3, LimitAssumption
    <3>5. own \in Nat /\ r.data \in Nat
      BY <3>1, <3>4 DEF Records
    <3>6. left \in Nat
      BY LimitAssumption DEF PhaseOK
    <3>7. Ceiling(r) \in {own, Least(own, left)}
      BY DEF Ceiling
    <3> HIDE DEF own, left, r
    <3>8. Ceiling(r) \in Nat
      BY <3>2, <3>5, <3>6, <3>7
    <3>. QED
      BY <3>5, <3>8 DEF r
  <2>. QED
    BY <1>16, <2>1, <1>45, <1>46 DEF Prepare
<1>17. CASE CopyChunk
  <2>1. /\ stage'.size = stage.size + 1 /\ phase' = "copy" /\ phase = "copy"
        /\ stage.size < RecordAt(at).data
        /\ stage.size + 1 <= Ceiling(RecordAt(at))
        /\ UNCHANGED <<source, call, at, processed>>
    BY <1>17 DEF CopyChunk, PhaseOK
  <2>2. RecordAt(at).data \in Nat /\ stage.size \in Nat
    BY <2>1, RecordsAt DEF Records, PhaseOK
  <2>3. stage'.size <= RecordAt(at)'.data /\ stage'.size <= Ceiling(RecordAt(at))'
    BY <2>1, <2>2, <1>45, <1>46
  <2>. QED
    BY <2>1, <2>3, <1>45
<1>18. CASE CopyEnds
  <2>1. /\ stage.size = RecordAt(at).data /\ Whole(RecordAt(at))
        /\ phase = "copy" /\ phase' = "install"
        /\ UNCHANGED <<source, call, at, stage>>
    BY <1>18 DEF CopyEnds
  <2>. QED
    BY <2>1, <1>45, <1>47
<1>19. CASE Install
  BY <1>19, <1>45, <1>46, <1>47 DEF Install, PutFile, Cleanup
<1>20. CASE InstallSingle
  BY <1>20, <1>45, <1>46, <1>47 DEF InstallSingle, PutFile, Cleanup
<1>21. CASE Finish
  BY <1>21, <1>45, <1>46, <1>47 DEF Finish, Answer, Cleanup
<1>22. CASE Meddle
  BY <1>22, <1>45, <1>46, <1>47 DEF Meddle
<1>23. CASE ReplaceArchive
  BY <1>23, <1>45, <1>46, <1>47 DEF ReplaceArchive
<1>24. CASE RewriteArchive
  BY <1>24, <1>45, <1>46, <1>47 DEF RewriteArchive
<1>25. CASE Refusal
  <2>1. PICK r \in Answers : Refuse(r)
    BY <1>25, RefusalRefuses
  <2>. QED
    BY <2>1, <1>25, <1>45, <1>46, <1>47 DEF Refuse, Answer, Cleanup
<1>. QED
  BY <1>1, <1>2, <1>3, <1>4, <1>5, <1>6, <1>7, <1>8, <1>9, <1>10, <1>11,
     <1>12, <1>13, <1>14, <1>15, <1>16, <1>17, <1>18, <1>19, <1>20, <1>21,
     <1>22, <1>23, <1>24, <1>25, NextCases

\* Every step keeps it.
LEMMA BaseStep == BaseInv /\ [Next]_vars => BaseInv'
  BY ArchiveStep, PhaseStep, TreeStep, WorldStep, SourceStep, FileStep
     DEF BaseInv, TypeOK

\* The first state: nothing is read, selected or written yet.
LEMMA BaseInit == Init => BaseInv
<1> SUFFICES ASSUME Init PROVE BaseInv
  OBVIOUS
<1> DEFINE s == disk.records
<1>1. s \in Seq(Records) /\ s \in Archives
  BY ArchiveAssumption DEF Init
<1>2. /\ listing = Listed(s) /\ listing \in Seq(Records)
      /\ \A i \in DOMAIN listing : Named(listing[i])
  BY <1>1, ListedInOrder DEF Init
<1>3. backend # "libarchive" => \A n \in DOMAIN s : Stated(s[n])
  <2>1. \A n \in DOMAIN s : s[n] \in Range(s)
    BY DEF Range
  <2>. QED
    BY <2>1 DEF Init
<1>4. backend # "libarchive" => \A i \in DOMAIN listing : Stated(listing[i])
  <2>1. backend # "libarchive" => \A n \in DOMAIN s : Named(s[n])
    BY <1>3 DEF Stated
  <2>2. backend # "libarchive" => listing = s
    BY <1>1, <1>2, <2>1, ListedAll
  <2>. QED
    BY <1>3, <2>2
<1>5. ArchiveOK
  BY <1>1, <1>2, ArchiveAssumption DEF Init, ArchiveOK
<1>6. PhaseOK
  BY DEF Init, PhaseOK, NoStage
<1>7. TreeOK
  <2> DEFINE Node == [kind : {"none", "file", "dir", "link"}, own : BOOLEAN,
                      size : Nat]
  <2>1. /\ Absent \in Node
        /\ \A k \in {"file", "dir", "link"} : Foreign(k) \in Node
    BY DEF Absent, Foreign
  <2>2. \/ dest = [p \in Paths |-> Absent]
        \/ \E q \in Paths, k \in {"file", "dir", "link"} :
             dest = [p \in Paths |-> IF p = q THEN Foreign(k) ELSE Absent]
    BY DEF Init
  <2> HIDE DEF Node
  <2>3. dest \in [Paths -> Node]
    BY <2>1, <2>2
  <2>4. installed = {} /\ meddled \in 0..MaxMeddling
    BY LimitAssumption DEF Init
  <2>. QED
    BY <2>3, <2>4 DEF TreeOK, Node
<1>8. WorldInv
  BY <1>2, <1>4 DEF Init, WorldInv
<1>9. Corresponds(s)
  BY <1>2, <1>3 DEF Corresponds
<1>10. SourceInv
  BY <1>9 DEF Init, SourceInv, Early, Walking
<1>11. FileInv
  BY DEF Init, FileInv
<1>. QED
  BY <1>5, <1>6, <1>7, <1>8, <1>10, <1>11 DEF BaseInv, TypeOK

-----------------------------------------------------------------------------
(* InstalledWhole: no partial file.                                        *)

\* What has a final name is a whole record of the archive.
OwnInv ==
  /\ source.id = 0 => Own = {}
  /\ \A p \in Own : \E r \in Range(source.records) :
       /\ r.name = p /\ r.data = dest[p].size
       /\ r.size # Undeclared => r.size = r.data

\* Only an install puts a file of the extraction in the destination.
LEMMA OnlyInstallsOwn ==
  ASSUME BaseInv, [Next]_vars, ~Install, ~InstallSingle
  PROVE  \A p \in Paths : dest'[p].own => dest'[p] = dest[p]
<1>1. CASE UNCHANGED vars
  BY <1>1 DEF vars, out
<1>2. CASE Call
  BY <1>2 DEF Call, out
<1>3. CASE GatesPass
  BY <1>3 DEF GatesPass, out
<1>4. CASE PreflightEntry
  BY <1>4 DEF PreflightEntry, out
<1>5. CASE PreflightEnds
  BY <1>5 DEF PreflightEnds, out
<1>6. CASE StatArchive
  BY <1>6 DEF StatArchive, out
<1>7. CASE OpenWalk
  BY <1>7 DEF OpenWalk, out
<1>8. CASE StartWalk
  BY <1>8 DEF StartWalk, out
<1>9. CASE SingleSeeks
  BY <1>9 DEF SingleSeeks, out
<1>10. CASE HeadSkips
  BY <1>10 DEF HeadSkips, out
<1>11. CASE HeadDirectory
  BY <1>11 DEF HeadDirectory, WithDirectory, WithParents, Foreign, out
<1>12. CASE HeadFile
  BY <1>12 DEF HeadFile, out
<1>13. CASE SingleFile
  BY <1>13 DEF SingleFile, out
<1>14. CASE HeadEnds
  BY <1>14 DEF HeadEnds, out
<1>15. CASE PrepareRefuses
  BY <1>15 DEF PrepareRefuses, Answer, Cleanup, WithParents, Foreign, out
<1>16. CASE Prepare
  BY <1>16 DEF Prepare, WithParents, Foreign, out
<1>17. CASE CopyChunk
  BY <1>17 DEF CopyChunk, out
<1>18. CASE CopyEnds
  BY <1>18 DEF CopyEnds, out
<1>19. CASE Install
  BY <1>19
<1>20. CASE InstallSingle
  BY <1>20
<1>21. CASE Finish
  BY <1>21 DEF Finish, Answer, Cleanup, out
<1>22. CASE Meddle
  <2>1. /\ dest \in [Paths -> [kind : {"none", "file", "dir", "link"},
                                own : BOOLEAN, size : Nat]]
        /\ ~Foreign("file").own /\ ~Foreign("dir").own /\ ~Absent.own
    BY DEF BaseInv, TypeOK, TreeOK, Foreign, Absent
  <2>2. PICK q \in Paths, d \in {Foreign("file"), Foreign("dir"), Absent} :
          dest' = [dest EXCEPT ![q] = d]
    BY <1>22 DEF Meddle
  <2>. QED
    BY <2>1, <2>2
<1>23. CASE ReplaceArchive
  BY <1>23 DEF ReplaceArchive, out
<1>24. CASE RewriteArchive
  BY <1>24 DEF RewriteArchive, out
<1>25. CASE Refusal
  <2>1. PICK r \in Answers : Refuse(r)
    BY <1>25, RefusalRefuses
  <2>. QED
    BY <2>1 DEF Refuse, out
<1>. QED
  BY <1>1, <1>2, <1>3, <1>4, <1>5, <1>6, <1>7, <1>8, <1>9, <1>10, <1>11,
     <1>12, <1>13, <1>14, <1>15, <1>16, <1>17, <1>18, <1>19, <1>20, <1>21,
     <1>22, <1>23, <1>24, <1>25, NextCases

\* An install puts the staged file under its name, whole.
LEMMA InstallPuts ==
  ASSUME BaseInv, Install \/ InstallSingle
  PROVE  LET r == RecordAt(at)
         IN  /\ at \in DOMAIN source.records /\ Wanted(at) /\ r.kind = "file"
             /\ r.name \in Paths /\ r \in Range(source.records)
             /\ Installable(r.name) /\ ~OverTotal
             /\ dest' = [dest EXCEPT ![r.name] = OwnFile(stage.size)]
             /\ stage.size = r.data /\ Whole(r) /\ source.id = 1
             /\ phase = "install" /\ phase' \in {"head", "final"}
             /\ stage' = NoStage /\ at' = at + 1
             /\ installed' = installed \cup
                  {[idx |-> IndexFor(at), id |-> source.id, name |-> r.name]}
             /\ UNCHANGED <<backend, listing, call, disk, meddled, swapped,
                            source, processed, counted, total, reported,
                            result, root>>
<1>1. PutFile /\ phase' \in {"head", "final"} /\ phase = "install"
  BY DEF Install, InstallSingle, PutFile
<1>2. /\ at \in DOMAIN source.records /\ Wanted(at)
      /\ RecordAt(at).kind = "file" /\ source.id = 1
      /\ stage.size = RecordAt(at).data /\ Whole(RecordAt(at))
  BY <1>1 DEF BaseInv, FileInv, SourceInv, Walking
<1>3. RecordAt(at) \in Records /\ RecordAt(at) \in Range(source.records)
  BY <1>2, RecordsAt DEF BaseInv, TypeOK, ArchiveOK
<1>. QED
  BY <1>1, <1>2, <1>3 DEF PutFile, WithFile, Cleanup, Records, world, callVars,
                          barVars

\* What was opened stays open.
LEMMA SourceStays ==
  ASSUME BaseInv, [Next]_vars
  PROVE  UNCHANGED source \/ (phase = "opening" /\ dest' = dest)
<1>1. CASE UNCHANGED vars
  BY <1>1 DEF vars, out
<1>2. CASE Call
  BY <1>2 DEF Call, out
<1>3. CASE GatesPass
  BY <1>3 DEF GatesPass, out
<1>4. CASE PreflightEntry
  BY <1>4 DEF PreflightEntry, out
<1>5. CASE PreflightEnds
  BY <1>5 DEF PreflightEnds, out
<1>6. CASE StatArchive
  BY <1>6 DEF StatArchive, out
<1>7. CASE OpenWalk
  BY <1>7 DEF OpenWalk, out
<1>8. CASE StartWalk
  BY <1>8 DEF StartWalk, out
<1>9. CASE SingleSeeks
  BY <1>9 DEF SingleSeeks, out
<1>10. CASE HeadSkips
  BY <1>10 DEF HeadSkips, out
<1>11. CASE HeadDirectory
  BY <1>11 DEF HeadDirectory, out
<1>12. CASE HeadFile
  BY <1>12 DEF HeadFile, out
<1>13. CASE SingleFile
  BY <1>13 DEF SingleFile, out
<1>14. CASE HeadEnds
  BY <1>14 DEF HeadEnds, out
<1>15. CASE PrepareRefuses
  BY <1>15 DEF PrepareRefuses, Answer, Cleanup, out
<1>16. CASE Prepare
  BY <1>16 DEF Prepare, out
<1>17. CASE CopyChunk
  BY <1>17 DEF CopyChunk, out
<1>18. CASE CopyEnds
  BY <1>18 DEF CopyEnds, out
<1>19. CASE Install
  BY <1>19 DEF Install, PutFile, Cleanup, out
<1>20. CASE InstallSingle
  BY <1>20 DEF InstallSingle, PutFile, Cleanup, out
<1>21. CASE Finish
  BY <1>21 DEF Finish, Answer, Cleanup, out
<1>22. CASE Meddle
  BY <1>22 DEF Meddle, out
<1>23. CASE ReplaceArchive
  BY <1>23 DEF ReplaceArchive, out
<1>24. CASE RewriteArchive
  BY <1>24 DEF RewriteArchive, out
<1>25. CASE Refusal
  <2>1. PICK r \in Answers : Refuse(r)
    BY <1>25, RefusalRefuses
  <2>. QED
    BY <2>1 DEF Refuse
<1>. QED
  BY <1>1, <1>2, <1>3, <1>4, <1>5, <1>6, <1>7, <1>8, <1>9, <1>10, <1>11,
     <1>12, <1>13, <1>14, <1>15, <1>16, <1>17, <1>18, <1>19, <1>20, <1>21,
     <1>22, <1>23, <1>24, <1>25, NextCases

\* Every step keeps the files whole.
LEMMA OwnStep == BaseInv /\ OwnInv /\ [Next]_vars => OwnInv'
<1> SUFFICES ASSUME BaseInv, OwnInv, [Next]_vars PROVE OwnInv'
  OBVIOUS
<1>1. CASE phase = "opening" /\ dest' = dest
  <2>1. Own = {} /\ Own' = Own
    BY <1>1 DEF BaseInv, SourceInv, Early, OwnInv, Own
  <2>. QED
    BY <2>1 DEF OwnInv
<1>2. CASE UNCHANGED source /\ ~Install /\ ~InstallSingle
  <2>1. \A p \in Own' : p \in Own /\ dest'[p] = dest[p]
    BY <1>2, OnlyInstallsOwn DEF Own
  <2>. QED
    BY <1>2, <2>1 DEF OwnInv
<1>3. CASE Install \/ InstallSingle
  <2> DEFINE r == RecordAt(at)
  <2>1. /\ r \in Range(source.records) /\ r.name \in Paths
        /\ dest' = [dest EXCEPT ![r.name] = OwnFile(stage.size)]
        /\ stage.size = r.data /\ Whole(r) /\ source.id = 1 /\ source' = source
    BY <1>3, InstallPuts
  <2>2. r.size # Undeclared => r.size = r.data
    BY <2>1 DEF Whole
  <2> HIDE DEF r
  <2>3. dest'[r.name].size = r.data
    BY <2>1 DEF OwnFile, BaseInv, TypeOK, TreeOK
  <2>4. ASSUME NEW p \in Own', p # r.name
        PROVE  p \in Own /\ dest'[p] = dest[p]
    BY <2>1, <2>4 DEF Own
  <2>. QED
    BY <2>1, <2>2, <2>3, <2>4 DEF OwnInv
<1>. QED
  BY <1>1, <1>2, <1>3, SourceStays

-----------------------------------------------------------------------------
(* NothingReplaced.                                                        *)

\* The file at hand has no link in its place.
NoLinkInv ==
  phase \in {"copy", "install"} => dest[RecordAt(at).name].kind # "link"

\* Placeable was asked of the name, and nobody puts a link there later.
LEMMA NoLinkStep == BaseInv /\ NoLinkInv /\ [Next]_vars => NoLinkInv'
<1> SUFFICES ASSUME BaseInv /\ NoLinkInv, [Next]_vars PROVE NoLinkInv'
  OBVIOUS
<1>40. UNCHANGED <<backend, listing>>
  BY ListingStays
<1>41. /\ ArchiveOK /\ PhaseOK /\ TreeOK /\ WorldInv /\ SourceInv /\ FileInv
       /\ source.records \in Seq(Records)
  BY DEF BaseInv, TypeOK, ArchiveOK
<1>42. UNCHANGED <<source, call, at>> => UNCHANGED RecordAt(at)
  BY <1>40 DEF RecordAt, IndexFor
<1> USE <1>40, <1>41, <1>42 DEF NoLinkInv, world, callVars, barVars, out
<1>1. CASE UNCHANGED vars
  BY <1>1 DEF vars
<1>2. CASE Call
  BY <1>2 DEF Call
<1>3. CASE GatesPass
  BY <1>3 DEF GatesPass
<1>4. CASE PreflightEntry
  BY <1>4 DEF PreflightEntry
<1>5. CASE PreflightEnds
  BY <1>5 DEF PreflightEnds
<1>6. CASE StatArchive
  BY <1>6 DEF StatArchive
<1>7. CASE OpenWalk
  BY <1>7 DEF OpenWalk
<1>8. CASE StartWalk
  BY <1>8 DEF StartWalk
<1>9. CASE SingleSeeks
  BY <1>9 DEF SingleSeeks
<1>10. CASE HeadSkips
  BY <1>10 DEF HeadSkips
<1>11. CASE HeadDirectory
  BY <1>11 DEF HeadDirectory
<1>12. CASE HeadFile
  BY <1>12 DEF HeadFile
<1>13. CASE SingleFile
  BY <1>13 DEF SingleFile
<1>14. CASE HeadEnds
  BY <1>14 DEF HeadEnds
<1>15. CASE PrepareRefuses
  BY <1>15 DEF PrepareRefuses, Answer, Cleanup
<1>16. CASE Prepare
  <2> DEFINE p == RecordAt(at).name
  <2>1. Placeable(p) /\ dest' = WithParents(dest, p) /\ RecordAt(at)' = RecordAt(at)
    BY <1>16 DEF Prepare
  <2>2. p \in Paths
    BY <1>16, RecordsAt DEF Prepare, FileInv, Records
  <2>3. dest'[p].kind # "link"
    <3> HIDE DEF p
    <3>. QED
      BY <2>1, <2>2 DEF Placeable, WithParents, Foreign
  <2>. QED
    BY <2>1, <2>3
<1>17. CASE CopyChunk
  BY <1>17 DEF CopyChunk
<1>18. CASE CopyEnds
  BY <1>18 DEF CopyEnds
<1>19. CASE Install
  BY <1>19 DEF Install, PutFile, Cleanup
<1>20. CASE InstallSingle
  BY <1>20 DEF InstallSingle, PutFile, Cleanup
<1>21. CASE Finish
  BY <1>21 DEF Finish, Answer, Cleanup
<1>22. CASE Meddle
  <2> DEFINE p == RecordAt(at).name
  <2>1. phase' = phase /\ UNCHANGED <<source, call, at>>
    BY <1>22 DEF Meddle
  <2>2. CASE phase \in {"copy", "install"}
    <3>1. dest[p].kind # "link" /\ p \in Paths
      BY <2>2, RecordsAt DEF FileInv, Records
    <3>2. PICK q \in Paths, d \in {Foreign("file"), Foreign("dir"), Absent} :
            dest' = [dest EXCEPT ![q] = d]
      BY <1>22 DEF Meddle
    <3>3. d.kind # "link"
      BY DEF Foreign, Absent
    <3> HIDE DEF p
    <3>4. dest'[p].kind # "link"
      BY <3>1, <3>2, <3>3 DEF TreeOK
    <3>. QED
      BY <2>1, <3>4 DEF p
  <2>3. CASE phase \notin {"copy", "install"}
    BY <2>1, <2>3
  <2>. QED
    BY <2>2, <2>3
<1>23. CASE ReplaceArchive
  BY <1>23 DEF ReplaceArchive
<1>24. CASE RewriteArchive
  BY <1>24 DEF RewriteArchive
<1>25. CASE Refusal
  <2>1. PICK r \in Answers : Refuse(r)
    BY <1>25, RefusalRefuses
  <2>. QED
    BY <2>1, <1>25 DEF Refuse, Answer, Cleanup
<1>. QED
  BY <1>1, <1>2, <1>3, <1>4, <1>5, <1>6, <1>7, <1>8, <1>9, <1>10, <1>11,
     <1>12, <1>13, <1>14, <1>15, <1>16, <1>17, <1>18, <1>19, <1>20, <1>21,
     <1>22, <1>23, <1>24, <1>25, NextCases

\* What NothingReplaced says of a step.
Kept ==
  \A p \in Paths : dest[p].kind # "none" /\ dest'[p] # dest[p] =>
    meddled' # meddled \/ (call.overwrite /\ dest[p].kind = "file")

\* No step replaces what was not let go.
LEMMA NothingReplacedStep == BaseInv /\ NoLinkInv /\ [Next]_vars => Kept
<1> SUFFICES ASSUME BaseInv, NoLinkInv, [Next]_vars,
                    NEW p \in Paths, dest[p].kind # "none", dest'[p] # dest[p],
                    meddled' = meddled
             PROVE  call.overwrite /\ dest[p].kind = "file"
  BY DEF Kept
<1>41. TreeOK /\ FileInv /\ ArchiveOK /\ source.records \in Seq(Records)
  BY DEF BaseInv, TypeOK, ArchiveOK
<1>1. CASE UNCHANGED vars
  BY <1>1 DEF vars, out
<1>2. CASE Call
  BY <1>2 DEF Call, out
<1>3. CASE GatesPass
  BY <1>3 DEF GatesPass, out
<1>4. CASE PreflightEntry
  BY <1>4 DEF PreflightEntry, out
<1>5. CASE PreflightEnds
  BY <1>5 DEF PreflightEnds, out
<1>6. CASE StatArchive
  BY <1>6 DEF StatArchive, out
<1>7. CASE OpenWalk
  BY <1>7 DEF OpenWalk, out
<1>8. CASE StartWalk
  BY <1>8 DEF StartWalk, out
<1>9. CASE SingleSeeks
  BY <1>9 DEF SingleSeeks, out
<1>10. CASE HeadSkips
  BY <1>10 DEF HeadSkips, out
<1>11. CASE HeadDirectory
  BY <1>11 DEF HeadDirectory, WithDirectory, WithParents, out
<1>12. CASE HeadFile
  BY <1>12 DEF HeadFile, out
<1>13. CASE SingleFile
  BY <1>13 DEF SingleFile, out
<1>14. CASE HeadEnds
  BY <1>14 DEF HeadEnds, out
<1>15. CASE PrepareRefuses
  BY <1>15 DEF PrepareRefuses, Answer, Cleanup, WithParents, out
<1>16. CASE Prepare
  BY <1>16 DEF Prepare, WithParents, out
<1>17. CASE CopyChunk
  BY <1>17 DEF CopyChunk, out
<1>18. CASE CopyEnds
  BY <1>18 DEF CopyEnds, out
<1>19. CASE Install
  <2>1. /\ dest' = [dest EXCEPT ![RecordAt(at).name] = OwnFile(stage.size)]
        /\ Installable(RecordAt(at).name) /\ phase = "install"
    BY <1>19, InstallPuts
  <2>2. p = RecordAt(at).name
    BY <1>41, <2>1 DEF TreeOK
  <2>. QED
    BY <1>41, <2>1, <2>2 DEF Installable, Replaceable, Occupied, NoLinkInv,
                             TreeOK
<1>20. CASE InstallSingle
  <2>1. /\ dest' = [dest EXCEPT ![RecordAt(at).name] = OwnFile(stage.size)]
        /\ Installable(RecordAt(at).name) /\ phase = "install"
    BY <1>20, InstallPuts
  <2>2. p = RecordAt(at).name
    BY <1>41, <2>1 DEF TreeOK
  <2>. QED
    BY <1>41, <2>1, <2>2 DEF Installable, Replaceable, Occupied, NoLinkInv,
                             TreeOK
<1>21. CASE Finish
  BY <1>21 DEF Finish, Answer, Cleanup, out
<1>22. CASE Meddle
  BY <1>22, <1>41 DEF Meddle, TreeOK
<1>23. CASE ReplaceArchive
  BY <1>23 DEF ReplaceArchive, out
<1>24. CASE RewriteArchive
  BY <1>24 DEF RewriteArchive, out
<1>25. CASE Refusal
  <2>1. PICK r \in Answers : Refuse(r)
    BY <1>25, RefusalRefuses
  <2>. QED
    BY <2>1 DEF Refuse, out
<1>. QED
  BY <1>1, <1>2, <1>3, <1>4, <1>5, <1>6, <1>7, <1>8, <1>9, <1>10, <1>11,
     <1>12, <1>13, <1>14, <1>15, <1>16, <1>17, <1>18, <1>19, <1>20, <1>21,
     <1>22, <1>23, <1>24, <1>25, NextCases

\* Nothing the caller did not let go is replaced, however late it appeared:
\* the early existence check may be out of date when the file is installed,
\* and the install decides.
THEOREM NothingIsReplaced == Spec => NothingReplaced
<1>1. Init => BaseInv /\ NoLinkInv
  BY BaseInit DEF Init, NoLinkInv
<1>2. BaseInv /\ NoLinkInv /\ [Next]_vars => (BaseInv /\ NoLinkInv)'
  BY BaseStep, NoLinkStep
<1>3. BaseInv /\ NoLinkInv /\ [Next]_vars => [Kept]_vars
  BY NothingReplacedStep
<1>4. [][Kept]_vars => NothingReplaced
  BY PTL DEF NothingReplaced, Kept
<1>. QED
  BY <1>1, <1>2, <1>3, <1>4, PTL DEF Spec

-----------------------------------------------------------------------------
(* WhatWasGated and CompleteOnOk.                                          *)

\* The walk stands where it stood.
LEMMA SameWalk ==
  ASSUME UNCHANGED <<backend, listing, call, source>>
  PROVE  \A n : /\ RecordAt(n)' = RecordAt(n) /\ IndexFor(n)' = IndexFor(n)
                /\ Drifts(n)' = Drifts(n) /\ Wanted(n)' = Wanted(n)
                /\ Chosen(n)' = Chosen(n)
  BY DEF RecordAt, IndexFor, Drifts, Wanted, Chosen

\* What was installed was selected, under its listed name.
GatedInv == (source.id = 0 => installed = {}) /\ WhatWasGated

\* Past the gates every selected file of a walk is installed in its turn.
TurnInv ==
  /\ phase = "bracket" => at = 1
  /\ (call.op = "bulk" /\ phase = "head") => at <= Len(source.records) + 1
  /\ (call.op = "bulk" /\ phase \in Walking) =>
       \A n \in DOMAIN source.records :
         n < at => /\ ~Drifts(n)
                   /\ (Wanted(n) /\ RecordAt(n).kind = "file") =>
                        \E m \in installed : m.idx = IndexFor(n)
  /\ (call.op = "bulk" /\ phase = "final") =>
       /\ at = Len(source.records) + 1
       /\ Len(Listed(source.records)) = Len(listing)
  /\ (call.op = "one" /\ phase = "final") =>
       \E m \in installed : m.idx \in call.sel

CompleteInv == BaseInv /\ GatedInv /\ TurnInv /\ CompleteOnOk

\* A call that runs is one that was made: no history without it.
LEMMA GatedStep == CompleteInv /\ [Next]_vars => GatedInv'
<1> SUFFICES ASSUME CompleteInv, [Next]_vars PROVE GatedInv'
  OBVIOUS
<1>40. UNCHANGED <<backend, listing>>
  BY ListingStays
<1>41. /\ BaseInv /\ GatedInv /\ ArchiveOK /\ PhaseOK /\ TreeOK /\ WorldInv
       /\ SourceInv /\ FileInv /\ source.records \in Seq(Records)
  BY DEF CompleteInv, BaseInv, TypeOK, ArchiveOK
<1> USE <1>40, <1>41 DEF GatedInv, WhatWasGated, SourceInv, Early, Walking,
                         world, callVars, out
<1>1. CASE UNCHANGED vars
  BY <1>1 DEF vars
<1>2. CASE Call
  BY <1>2 DEF Call
<1>3. CASE GatesPass
  BY <1>3 DEF GatesPass
<1>4. CASE PreflightEntry
  BY <1>4 DEF PreflightEntry
<1>5. CASE PreflightEnds
  BY <1>5 DEF PreflightEnds
<1>6. CASE StatArchive
  BY <1>6 DEF StatArchive
<1>7. CASE OpenWalk
  BY <1>7 DEF OpenWalk
<1>8. CASE StartWalk
  BY <1>8 DEF StartWalk
<1>9. CASE SingleSeeks
  BY <1>9 DEF SingleSeeks
<1>10. CASE HeadSkips
  BY <1>10 DEF HeadSkips
<1>11. CASE HeadDirectory
  BY <1>11 DEF HeadDirectory
<1>12. CASE HeadFile
  BY <1>12 DEF HeadFile
<1>13. CASE SingleFile
  BY <1>13 DEF SingleFile
<1>14. CASE HeadEnds
  BY <1>14 DEF HeadEnds
<1>15. CASE PrepareRefuses
  BY <1>15 DEF PrepareRefuses, Answer, Cleanup
<1>16. CASE Prepare
  BY <1>16 DEF Prepare
<1>17. CASE CopyChunk
  BY <1>17 DEF CopyChunk
<1>18. CASE CopyEnds
  BY <1>18 DEF CopyEnds
<1>19. CASE Install
  <2>1. /\ at \in DOMAIN source.records /\ Wanted(at) /\ source.id = 1
        /\ installed' = installed \cup
             {[idx |-> IndexFor(at), id |-> 1, name |-> RecordAt(at).name]}
        /\ UNCHANGED <<source, call>>
    BY <1>19, InstallPuts
  <2>2. /\ IndexFor(at) \in call.sel
        /\ RecordAt(at).name = listing[IndexFor(at)].name
    BY <2>1, WantedIsListed
  <2>. QED
    BY <2>1, <2>2
<1>20. CASE InstallSingle
  <2>1. /\ at \in DOMAIN source.records /\ Wanted(at) /\ source.id = 1
        /\ installed' = installed \cup
             {[idx |-> IndexFor(at), id |-> 1, name |-> RecordAt(at).name]}
        /\ UNCHANGED <<source, call>>
    BY <1>20, InstallPuts
  <2>2. /\ IndexFor(at) \in call.sel
        /\ RecordAt(at).name = listing[IndexFor(at)].name
    BY <2>1, WantedIsListed
  <2>. QED
    BY <2>1, <2>2
<1>21. CASE Finish
  BY <1>21 DEF Finish, Answer, Cleanup
<1>22. CASE Meddle
  BY <1>22 DEF Meddle
<1>23. CASE ReplaceArchive
  BY <1>23 DEF ReplaceArchive
<1>24. CASE RewriteArchive
  BY <1>24 DEF RewriteArchive
<1>25. CASE Refusal
  <2>1. PICK r \in Answers : Refuse(r)
    BY <1>25, RefusalRefuses
  <2>. QED
    BY <2>1 DEF Refuse
<1>. QED
  BY <1>1, <1>2, <1>3, <1>4, <1>5, <1>6, <1>7, <1>8, <1>9, <1>10, <1>11,
     <1>12, <1>13, <1>14, <1>15, <1>16, <1>17, <1>18, <1>19, <1>20, <1>21,
     <1>22, <1>23, <1>24, <1>25, NextCases

\* The walk passes no selected file.
LEMMA TurnStep == CompleteInv /\ [Next]_vars => TurnInv'
<1> SUFFICES ASSUME CompleteInv, [Next]_vars PROVE TurnInv'
  OBVIOUS
<1>40. UNCHANGED <<backend, listing>>
  BY ListingStays
<1>41. /\ BaseInv /\ TurnInv /\ ArchiveOK /\ PhaseOK /\ TreeOK /\ WorldInv
       /\ SourceInv /\ FileInv /\ source.records \in Seq(Records)
  BY DEF CompleteInv, BaseInv, TypeOK, ArchiveOK
<1>42. UNCHANGED <<source, call>> =>
         \A n : /\ RecordAt(n)' = RecordAt(n) /\ IndexFor(n)' = IndexFor(n)
               /\ Drifts(n)' = Drifts(n) /\ Wanted(n)' = Wanted(n)
  BY <1>40, SameWalk
<1>43. UNCHANGED <<source, call, phase, at, installed>> => TurnInv'
  BY <1>40, <1>41, <1>42 DEF TurnInv
<1>44. phase' \notin Walking \cup {"bracket"} => TurnInv'
  BY DEF TurnInv, Walking
<1>45. /\ Len(source.records) \in Nat
       /\ DOMAIN source.records = 1..Len(source.records)
  BY <1>41
<1>1. CASE UNCHANGED vars
  BY <1>1, <1>41, <1>43, <1>44 DEF vars, world, callVars, out, Walking
<1>2. CASE Call
  BY <1>2, <1>41, <1>43, <1>44 DEF Call, world, callVars, out, Walking
<1>3. CASE GatesPass
  BY <1>3, <1>41, <1>43, <1>44 DEF GatesPass, world, callVars, out, Walking
<1>4. CASE PreflightEntry
  BY <1>4, <1>41, <1>43, <1>44 DEF PreflightEntry, world, callVars, out,
     Walking
<1>5. CASE PreflightEnds
  BY <1>5, <1>41, <1>43, <1>44 DEF PreflightEnds, world, callVars, out, Walking
<1>6. CASE StatArchive
  BY <1>6, <1>41, <1>43, <1>44 DEF StatArchive, world, callVars, out, Walking
<1>7. CASE OpenWalk
  BY <1>7 DEF OpenWalk, TurnInv, Walking
<1>8. CASE StartWalk
  <2>1. at = 1
    BY <1>8, <1>41 DEF StartWalk, TurnInv
  <2>. QED
    BY <1>8, <1>45, <2>1 DEF StartWalk, TurnInv
<1>9. CASE SingleSeeks
  BY <1>9 DEF SingleSeeks, TurnInv, world, callVars
<1>10. CASE HeadSkips
  <2>1. /\ call.op = "bulk" /\ phase = "head" /\ phase' = "head"
        /\ at' = at + 1 /\ at \in Nat /\ at <= Len(source.records)
        /\ UNCHANGED <<source, call, installed>>
    BY <1>10, <1>41, <1>45 DEF HeadSkips, AtEnd, world, callVars, out, PhaseOK
  <2>2. ~Drifts(at) /\ (Wanted(at) => RecordAt(at).kind # "file")
    BY <1>10 DEF HeadSkips, Wanted
  <2>3. \A n \in DOMAIN source.records : n < at' => n < at \/ n = at
    BY <1>45, <2>1
  <2>. QED
    BY <1>40, <1>41, <1>42, <1>45, <2>1, <2>2, <2>3 DEF TurnInv, Walking
<1>11. CASE HeadDirectory
  <2>1. /\ call.op = "bulk" /\ phase = "head" /\ phase' = "head"
        /\ at' = at + 1 /\ at \in Nat /\ at <= Len(source.records)
        /\ UNCHANGED <<source, call, installed>>
    BY <1>11, <1>41, <1>45 DEF HeadDirectory, AtEnd, world, callVars, out,
       PhaseOK
  <2>2. ~Drifts(at) /\ (Wanted(at) => RecordAt(at).kind # "file")
    BY <1>11 DEF HeadDirectory, Wanted
  <2>3. \A n \in DOMAIN source.records : n < at' => n < at \/ n = at
    BY <1>45, <2>1
  <2>. QED
    BY <1>40, <1>41, <1>42, <1>45, <2>1, <2>2, <2>3 DEF TurnInv, Walking
<1>12. CASE HeadFile
  <2>1. /\ phase \in Walking /\ phase' \in {"prepare", "copy", "install"}
        /\ UNCHANGED <<source, call, at, installed>>
    BY <1>12 DEF HeadFile, world, callVars, out, Walking
  <2>. QED
    BY <1>40, <1>41, <1>42, <2>1 DEF TurnInv, Walking
<1>13. CASE SingleFile
  <2>1. /\ phase \in Walking /\ phase' \in {"prepare", "copy", "install"}
        /\ UNCHANGED <<source, call, at, installed>>
    BY <1>13 DEF SingleFile, world, callVars, out, Walking
  <2>. QED
    BY <1>40, <1>41, <1>42, <2>1 DEF TurnInv, Walking
<1>14. CASE HeadEnds
  <2>1. /\ call.op = "bulk" /\ phase = "head" /\ phase' = "final"
        /\ Len(Listed(source.records)) = Len(listing)
        /\ at > Len(source.records) /\ at \in Nat
        /\ UNCHANGED <<source, call, at, installed>>
    BY <1>14, <1>41 DEF HeadEnds, AtEnd, world, callVars, out, PhaseOK
  <2>2. at = Len(source.records) + 1
    BY <1>41, <1>45, <2>1 DEF TurnInv
  <2>. QED
    BY <1>40, <1>41, <1>42, <2>1, <2>2 DEF TurnInv, Walking
<1>15. CASE PrepareRefuses
  BY <1>15, <1>41, <1>43, <1>44 DEF PrepareRefuses, Answer, Cleanup, world,
     callVars, out, Walking
<1>16. CASE Prepare
  <2>1. /\ phase \in Walking /\ phase' \in {"prepare", "copy", "install"}
        /\ UNCHANGED <<source, call, at, installed>>
    BY <1>16 DEF Prepare, world, callVars, out, Walking
  <2>. QED
    BY <1>40, <1>41, <1>42, <2>1 DEF TurnInv, Walking
<1>17. CASE CopyChunk
  <2>1. /\ phase \in Walking /\ phase' \in {"prepare", "copy", "install"}
        /\ UNCHANGED <<source, call, at, installed>>
    BY <1>17 DEF CopyChunk, world, callVars, out, Walking
  <2>. QED
    BY <1>40, <1>41, <1>42, <2>1 DEF TurnInv, Walking
<1>18. CASE CopyEnds
  <2>1. /\ phase \in Walking /\ phase' \in {"prepare", "copy", "install"}
        /\ UNCHANGED <<source, call, at, installed>>
    BY <1>18 DEF CopyEnds, world, callVars, out, Walking
  <2>. QED
    BY <1>40, <1>41, <1>42, <2>1 DEF TurnInv, Walking
<1>19. CASE Install
  <2>1. /\ call.op = "bulk" /\ phase = "install" /\ phase' = "head"
        /\ at' = at + 1 /\ at \in Nat /\ at <= Len(source.records)
        /\ UNCHANGED <<source, call>>
        /\ Wanted(at)
    BY <1>19, <1>41, <1>45, InstallPuts DEF Install, PhaseOK
  <2>4. installed' = installed \cup
          {[idx |-> IndexFor(at), id |-> source.id, name |-> RecordAt(at).name]}
    BY <1>19, <1>41, InstallPuts
  <2>5. /\ \E m \in installed' : m.idx = IndexFor(at)
        /\ installed \subseteq installed'
    <3> DEFINE new == [idx |-> IndexFor(at), id |-> source.id,
                       name |-> RecordAt(at).name]
    <3>1. new.idx = IndexFor(at)
      OBVIOUS
    <3>2. installed' = installed \cup {new}
      BY <2>4
    <3> HIDE DEF new
    <3>. QED
      BY <3>1, <3>2
  <2>2. ~Drifts(at)
    BY <2>1 DEF Wanted
  <2>3. \A n \in DOMAIN source.records : n < at' => n < at \/ n = at
    BY <1>45, <2>1
  <2>. QED
    BY <1>40, <1>41, <1>42, <1>45, <2>1, <2>2, <2>3, <2>5
     DEF TurnInv, Walking
<1>20. CASE InstallSingle
  <2>1. /\ call.op = "one" /\ phase' = "final" /\ UNCHANGED <<source, call>>
        /\ Wanted(at) /\ phase' # "bracket" /\ IndexFor(at) \in call.sel
    BY <1>20, <1>41, InstallPuts DEF InstallSingle, Wanted, Chosen
  <2>2. installed' = installed \cup
          {[idx |-> IndexFor(at), id |-> source.id, name |-> RecordAt(at).name]}
    BY <1>20, <1>41, InstallPuts
  <2>3. \E m \in installed' : m.idx = IndexFor(at)
    <3> DEFINE new == [idx |-> IndexFor(at), id |-> source.id,
                       name |-> RecordAt(at).name]
    <3>1. new.idx = IndexFor(at)
      OBVIOUS
    <3>2. installed' = installed \cup {new}
      BY <2>2
    <3> HIDE DEF new
    <3>. QED
      BY <3>1, <3>2
  <2>. QED
    BY <2>1, <2>3 DEF TurnInv
<1>21. CASE Finish
  BY <1>21, <1>41, <1>43, <1>44 DEF Finish, Answer, Cleanup, world, callVars,
     out, Walking
<1>22. CASE Meddle
  BY <1>22, <1>41, <1>43, <1>44 DEF Meddle, world, callVars, out, Walking
<1>23. CASE ReplaceArchive
  BY <1>23, <1>41, <1>43, <1>44 DEF ReplaceArchive, world, callVars, out,
     Walking
<1>24. CASE RewriteArchive
  BY <1>24, <1>41, <1>43, <1>44 DEF RewriteArchive, world, callVars, out,
     Walking
<1>25. CASE Refusal
  <2>1. PICK r \in Answers : Refuse(r)
    BY <1>25, RefusalRefuses
  <2>. QED
    BY <2>1, <1>44 DEF Refuse, Answer, Walking
<1>. QED
  BY <1>1, <1>2, <1>3, <1>4, <1>5, <1>6, <1>7, <1>8, <1>9, <1>10, <1>11,
     <1>12, <1>13, <1>14, <1>15, <1>16, <1>17, <1>18, <1>19, <1>20, <1>21,
     <1>22, <1>23, <1>24, <1>25, NextCases

\* A success is complete: the listing and the records of the walk are of one
\* length, paired by place, alike in name and so in kind.
LEMMA CompleteStep == CompleteInv /\ [Next]_vars => CompleteOnOk'
<1> SUFFICES ASSUME CompleteInv, [Next]_vars PROVE CompleteOnOk'
  OBVIOUS
<1>40. UNCHANGED <<backend, listing>>
  BY ListingStays
<1>41. /\ BaseInv /\ TurnInv /\ ArchiveOK /\ PhaseOK /\ TreeOK /\ WorldInv
       /\ SourceInv /\ FileInv /\ CompleteOnOk
       /\ source.records \in Seq(Records)
  BY DEF CompleteInv, BaseInv, TypeOK, ArchiveOK
<1>42. result' # "ok" => CompleteOnOk'
  BY DEF CompleteOnOk
<1>43. UNCHANGED <<result, call, installed>> => CompleteOnOk'
  BY <1>40, <1>41 DEF CompleteOnOk, Files
<1>44. phase # "done" => result # "ok"
  BY <1>41 DEF PhaseOK
<1>1. CASE UNCHANGED vars
  BY <1>1, <1>42, <1>43, <1>44 DEF vars, world, callVars, out
<1>2. CASE Call
  BY <1>2, <1>42, <1>43, <1>44 DEF Call, world, callVars, out
<1>3. CASE GatesPass
  BY <1>3, <1>42, <1>43, <1>44 DEF GatesPass, world, callVars, out
<1>4. CASE PreflightEntry
  BY <1>4, <1>42, <1>43, <1>44 DEF PreflightEntry, world, callVars, out
<1>5. CASE PreflightEnds
  BY <1>5, <1>42, <1>43, <1>44 DEF PreflightEnds, world, callVars, out
<1>6. CASE StatArchive
  BY <1>6, <1>42, <1>43, <1>44 DEF StatArchive, world, callVars, out
<1>7. CASE OpenWalk
  BY <1>7, <1>42, <1>43, <1>44 DEF OpenWalk, world, callVars, out
<1>8. CASE StartWalk
  BY <1>8, <1>42, <1>43, <1>44 DEF StartWalk, world, callVars, out
<1>9. CASE SingleSeeks
  BY <1>9, <1>42, <1>43, <1>44 DEF SingleSeeks, world, callVars, out
<1>10. CASE HeadSkips
  BY <1>10, <1>42, <1>43, <1>44 DEF HeadSkips, world, callVars, out
<1>11. CASE HeadDirectory
  BY <1>11, <1>42, <1>43, <1>44 DEF HeadDirectory, world, callVars, out
<1>12. CASE HeadFile
  BY <1>12, <1>42, <1>43, <1>44 DEF HeadFile, world, callVars, out
<1>13. CASE SingleFile
  BY <1>13, <1>42, <1>43, <1>44 DEF SingleFile, world, callVars, out
<1>14. CASE HeadEnds
  BY <1>14, <1>42, <1>43, <1>44 DEF HeadEnds, world, callVars, out
<1>15. CASE PrepareRefuses
  BY <1>15, <1>42 DEF PrepareRefuses, Answer, Cleanup
<1>16. CASE Prepare
  BY <1>16, <1>42, <1>43, <1>44 DEF Prepare, world, callVars, out
<1>17. CASE CopyChunk
  BY <1>17, <1>42, <1>43, <1>44 DEF CopyChunk, world, callVars, out
<1>18. CASE CopyEnds
  BY <1>18, <1>42, <1>43, <1>44 DEF CopyEnds, world, callVars, out
<1>19. CASE Install
  BY <1>19, <1>41, <1>42, <1>44, InstallPuts
<1>20. CASE InstallSingle
  BY <1>20, <1>41, <1>42, <1>44, InstallPuts
<1>21. CASE Finish
  <2>1. phase = "final" /\ UNCHANGED <<call, installed>> /\ source.id = 1
    BY <1>21, <1>41 DEF Finish, SourceInv, Walking, world, callVars, out
  <2>2. ASSUME NEW i \in Files(call.sel)
        PROVE  \E m \in installed : m.idx = i
    <3>1. i \in call.sel /\ i \in DOMAIN listing /\ listing[i].kind = "file"
      BY <1>41 DEF Files, ArchiveOK
    <3>2. CASE call.op = "one"
      BY <1>41, <2>1, <3>1, <3>2 DEF TurnInv, WorldInv
    <3>3. CASE call.op = "bulk"
      <4> DEFINE s == source.records
      <4>1. /\ at = Len(s) + 1 /\ Len(Listed(s)) = Len(listing)
            /\ \A n \in DOMAIN s :
                 n < at => /\ ~Drifts(n)
                           /\ (Wanted(n) /\ RecordAt(n).kind = "file") =>
                                \E m \in installed : m.idx = IndexFor(n)
        BY <1>41, <2>1, <3>3 DEF TurnInv, Walking
      <4>2. Corresponds(s) /\ Listed(s) \in Seq(Records)
        BY <1>41, <2>1, ListedInOrder DEF SourceInv
      <4>3. i \in DOMAIN Listed(s)
        BY <1>41, <3>1, <4>1, <4>2 DEF ArchiveOK
      <4>4. PICK n \in DOMAIN s : Named(RecordAt(n)) /\ IndexFor(n) = i
        BY <1>41, <4>2, <4>3, Paired
      <4>5. n < at
        BY <1>41, <4>1
      <4>6. Wanted(n)
        BY <3>1, <4>1, <4>4, <4>5 DEF Wanted, Chosen
      <4>7. RecordAt(n).kind = "file"
        BY <1>41, <2>1, <3>1, <4>4, <4>6, WantedIsListed
      <4>. QED
        BY <4>1, <4>4, <4>5, <4>6, <4>7
    <3>. QED
      BY <1>41, <2>1, <3>2, <3>3 DEF WorldInv, ArchiveOK
  <2>3. Files(call.sel) \subseteq {m.idx : m \in installed}
    BY <2>2
  <2>4. Files(call.sel)' = Files(call.sel) /\ installed' = installed
    BY <1>40, <2>1 DEF Files
  <2>. QED
    BY <2>3, <2>4 DEF CompleteOnOk
<1>22. CASE Meddle
  BY <1>22, <1>42, <1>43, <1>44 DEF Meddle, world, callVars, out
<1>23. CASE ReplaceArchive
  BY <1>23, <1>42, <1>43, <1>44 DEF ReplaceArchive, world, callVars, out
<1>24. CASE RewriteArchive
  BY <1>24, <1>42, <1>43, <1>44 DEF RewriteArchive, world, callVars, out
<1>25. CASE Refusal
  <2>1. PICK r \in Answers : Refuse(r)
    BY <1>25, RefusalRefuses
  <2>. QED
    BY <2>1, <1>42 DEF Refuse, Answer, Answers
<1>. QED
  BY <1>1, <1>2, <1>3, <1>4, <1>5, <1>6, <1>7, <1>8, <1>9, <1>10, <1>11,
     <1>12, <1>13, <1>14, <1>15, <1>16, <1>17, <1>18, <1>19, <1>20, <1>21,
     <1>22, <1>23, <1>24, <1>25, NextCases

\* What was installed is what the gates and the preflight looked at.
LEMMA CompleteInvariant == Spec => []CompleteInv
<1>1. Init => CompleteInv
  <2> SUFFICES ASSUME Init PROVE CompleteInv
    OBVIOUS
  <2>1. BaseInv
    BY BaseInit
  <2>2. GatedInv /\ CompleteOnOk
    BY DEF Init, GatedInv, WhatWasGated, CompleteOnOk
  <2>3. TurnInv
    BY DEF Init, TurnInv, Walking
  <2>. QED
    BY <2>1, <2>2, <2>3 DEF CompleteInv
<1>2. CompleteInv /\ [Next]_vars => CompleteInv'
  <2> SUFFICES ASSUME CompleteInv, [Next]_vars PROVE CompleteInv'
    OBVIOUS
  <2>1. BaseInv'
    BY BaseStep DEF CompleteInv
  <2>. QED
    BY <2>1, GatedStep, TurnStep, CompleteStep DEF CompleteInv
<1>. QED
  BY <1>1, <1>2, PTL DEF Spec

\* What was installed is what the gates and the preflight looked at: the
\* selected entry, under its listed name, from the file the handle is bound to.
THEOREM InstalledWasGated == Spec => []WhatWasGated
<1>1. CompleteInv => WhatWasGated
  BY DEF CompleteInv, GatedInv
<1>. QED
  BY <1>1, CompleteInvariant, PTL

\* An extraction that reports success has installed every selected file.
THEOREM SuccessIsComplete == Spec => []CompleteOnOk
<1>1. CompleteInv => CompleteOnOk
  BY DEF CompleteInv
<1>. QED
  BY <1>1, CompleteInvariant, PTL

-----------------------------------------------------------------------------
(* InstalledWhole: the budget.                                             *)

\* What lies under final names is a number.
LEMMA WrittenIsNat ==
  ASSUME TreeOK, IsFiniteSet(Own)
  PROVE  Written \in Nat
<1> DEFINE f == [p \in Own |-> dest[p].size]
<1>1. \A p \in Own : f[p] \in Nat
  BY DEF TreeOK, Own
<1> HIDE DEF f
<1>2. SumOver(f, Own) \in Nat
  BY <1>1, SumIsNat
<1>. QED
  BY <1>2 DEF Written, f

\* Where nothing is installed, what is written does not grow.
LEMMA WrittenShrinks ==
  ASSUME TreeOK, TreeOK', IsFiniteSet(Own),
         \A p \in Paths : dest'[p].own => dest'[p] = dest[p]
  PROVE  IsFiniteSet(Own') /\ Written' <= Written
<1> DEFINE f == [p \in Own' |-> dest'[p].size]
           h == [p \in Own |-> IF p \in Own' THEN dest'[p].size ELSE 0]
           g == [p \in Own |-> dest[p].size]
<1>1. Own' \in SUBSET Own /\ \A p \in Own' : dest'[p] = dest[p]
  BY DEF Own
<1>2. IsFiniteSet(Own')
  BY <1>1, FS_Subset
<1>3. \A p \in Own : h[p] \in Int /\ g[p] \in Nat
  BY <1>1 DEF TreeOK, Own
<1>4. \A p \in Own' : f[p] \in Nat /\ h[p] = f[p] /\ h[p] <= g[p]
  <2>1. \A p \in Own' : dest'[p].size \in Nat
    BY DEF TreeOK, Own
  <2>. QED
    BY <1>1, <2>1
<1>5. Written' = SumOver(f, Own') /\ Written = SumOver(g, Own)
  BY DEF Written
<1> DEFINE T == Own'
<1> HIDE DEF f, g, h
<1>6. SumOver(f, T) = SumOver(h, T)
  BY <1>2, <1>4, SumSame
<1>7. SumOver(h, T) <= SumOver(g, Own)
  BY <1>1, <1>3, <1>4, SumGrows
<1>. QED
  BY <1>2, <1>5, <1>6, <1>7

\* An install adds its file at most.
LEMMA WrittenGrows ==
  ASSUME TreeOK, TreeOK', IsFiniteSet(Own), NEW q \in Paths, NEW n \in Nat,
         dest' = [dest EXCEPT ![q] = OwnFile(n)]
  PROVE  IsFiniteSet(Own') /\ Written' <= Written + n
<1> DEFINE f == [p \in Own' |-> dest'[p].size]
           g == [p \in Own |-> dest[p].size]
           T == Own'
<1>1. dest'[q] = OwnFile(n) /\ \A p \in Paths : p # q => dest'[p] = dest[p]
  BY DEF TreeOK
<1>2. T = Own \union {q}
  BY <1>1 DEF Own, OwnFile
<1>3. IsFiniteSet(T)
  BY <1>2, FS_AddElement
<1>4. \A p \in T : f[p] \in Int
  BY DEF TreeOK, Own
<1>5. \A p \in Own : f[p] \in Int /\ g[p] \in Nat
  BY <1>2, <1>4 DEF TreeOK, Own
<1>6. f[q] = n
  BY <1>1, <1>2 DEF OwnFile
<1>7. \A p \in T \ {q} : f[p] <= g[p]
  BY <1>1, <1>2 DEF TreeOK, Own
<1>8. T \ {q} \in SUBSET Own /\ q \in T
  BY <1>2
<1>9. Written' = SumOver(f, T) /\ Written = SumOver(g, Own)
  BY DEF Written
<1> HIDE DEF f, g, T
<1>10. SumOver(f, T) = f[q] + SumOver(f, T \ {q})
  BY <1>3, <1>4, <1>8, SumTakesOut
<1>11. SumOver(f, T \ {q}) <= SumOver(g, Own)
  BY <1>5, <1>7, <1>8, SumGrows
<1>12. SumOver(g, Own) \in Int /\ SumOver(f, T \ {q}) \in Int
  <2>1. IsFiniteSet(T \ {q}) /\ \A p \in T \ {q} : f[p] \in Int
    BY <1>3, <1>4, FS_RemoveElement
  <2>2. \A p \in Own : g[p] \in Int
    BY <1>5
  <2>. QED
    BY <2>1, <2>2, SumIsInt
<1>. QED
  BY <1>3, <1>6, <1>9, <1>10, <1>11, <1>12 DEF T

\* Nothing is written before the walk; the gates were passed before it; a
\* call for one entry decodes one.
WalkInv ==
  /\ IsFiniteSet(Own)
  /\ phase \in Early \cup {"bracket"} => processed = 0 /\ Own = {}
  /\ phase \notin {"idle", "gates", "done"} => Safe(call.sel)
  /\ (call.op = "one" /\ phase \in {"head", "prepare", "copy"}) =>
       processed = 0

\* The bytes of the file at hand that `processed` does not count yet.
Staged == IF phase = "copy" THEN stage.size ELSE 0

\* Whatever is written has been decoded.
WrittenInv == Written + stage.size <= processed + Staged

\* The entries whose files were decoded, and what the gates summed of them.
Passed == IF phase = "install" THEN 1..at ELSE 1..(at - 1)
Done == {i \in Sizes(call.sel) :
           \E n \in Passed \cap DOMAIN source.records :
             Named(RecordAt(n)) /\ IndexFor(n) = i}
GatedSum(S) == SumOver([i \in Sizes(call.sel) |-> listing[i].size], S)

\* A walk that keeps no budget decodes what the gates summed.
DoneInv ==
  (/\ phase \in Walking /\ call.op = "bulk" /\ backend # "libarchive"
   /\ SizesAreGated) => processed <= GatedSum(Done)

DecodedInv == SizesAreGated => processed + Staged <= MaxTotal

BudgetInv ==
  BaseInv /\ OwnInv /\ WalkInv /\ WrittenInv /\ DoneInv /\ DecodedInv

\* Before the walk, and at its gates.
LEMMA WalkStep == BudgetInv /\ [Next]_vars => WalkInv'
<1> SUFFICES ASSUME BudgetInv, [Next]_vars PROVE WalkInv'
  OBVIOUS
<1>40. UNCHANGED <<backend, listing>>
  BY ListingStays
<1>41. /\ BaseInv /\ ArchiveOK /\ PhaseOK /\ TreeOK /\ TreeOK' /\ WorldInv
       /\ SourceInv /\ FileInv /\ source.records \in Seq(Records)
       /\ WalkInv /\ WrittenInv /\ DoneInv /\ DecodedInv
  BY BaseStep DEF BudgetInv, BaseInv, TypeOK, ArchiveOK
<1>42. call' = call => Safe(call.sel)' = Safe(call.sel)
  BY <1>40 DEF Safe, FewEnough, Sizes, Declared, Files
<1>43. (~Install /\ ~InstallSingle) =>
         /\ IsFiniteSet(Own') /\ (Own = {} => Own' = {})
  <2> SUFFICES ASSUME ~Install, ~InstallSingle
               PROVE  IsFiniteSet(Own') /\ (Own = {} => Own' = {})
    OBVIOUS
  <2>1. \A p \in Paths : dest'[p].own => dest'[p] = dest[p]
    BY <1>41, OnlyInstallsOwn
  <2>2. IsFiniteSet(Own')
    BY <1>41, <2>1, WrittenShrinks DEF WalkInv
  <2>. QED
    BY <2>1, <2>2 DEF Own
<1> USE <1>40, <1>41
<1>1. CASE UNCHANGED vars
  BY <1>1, <1>42, <1>43 DEF vars, WalkInv, Early, Own, world, callVars, out,
     Install, InstallSingle, PutFile
<1>2. CASE Call
  BY <1>2, <1>42, <1>43 DEF Call, WalkInv, Early, Install, InstallSingle,
     PutFile, world, callVars
<1>3. CASE GatesPass
  BY <1>3, <1>42, <1>43 DEF GatesPass, WalkInv, Early, Install, InstallSingle,
     PutFile, world, callVars
<1>4. CASE PreflightEntry
  BY <1>4, <1>42, <1>43 DEF PreflightEntry, WalkInv, Early, Install,
     InstallSingle, PutFile, world, callVars
<1>5. CASE PreflightEnds
  BY <1>5, <1>42, <1>43 DEF PreflightEnds, WalkInv, Early, Install,
     InstallSingle, PutFile, world, callVars
<1>6. CASE StatArchive
  BY <1>6, <1>42, <1>43 DEF StatArchive, WalkInv, Early, Install,
     InstallSingle, PutFile, world, callVars
<1>7. CASE OpenWalk
  BY <1>7, <1>42, <1>43 DEF OpenWalk, WalkInv, Early, Install, InstallSingle,
     PutFile, world, callVars
<1>8. CASE StartWalk
  BY <1>8, <1>42, <1>43 DEF StartWalk, WalkInv, Early, Install, InstallSingle,
     PutFile, world, callVars
<1>9. CASE SingleSeeks
  BY <1>9, <1>42, <1>43 DEF SingleSeeks, WalkInv, Early, Install,
     InstallSingle, PutFile, world, callVars
<1>10. CASE HeadSkips
  BY <1>10, <1>42, <1>43 DEF HeadSkips, WalkInv, Early, Own, world, callVars,
     out, Install, InstallSingle, PutFile
<1>11. CASE HeadDirectory
  BY <1>11, <1>42, <1>43 DEF HeadDirectory, WalkInv, Early, Install,
     InstallSingle, PutFile, world, callVars
<1>12. CASE HeadFile
  BY <1>12, <1>42, <1>43 DEF HeadFile, WalkInv, Early, Install, InstallSingle,
     PutFile, world, callVars
<1>13. CASE SingleFile
  BY <1>13, <1>42, <1>43 DEF SingleFile, WalkInv, Early, Install,
     InstallSingle, PutFile, world, callVars
<1>14. CASE HeadEnds
  BY <1>14, <1>42, <1>43 DEF HeadEnds, WalkInv, Early, Install, InstallSingle,
     PutFile, world, callVars
<1>15. CASE PrepareRefuses
  BY <1>15, <1>42, <1>43 DEF PrepareRefuses, Answer, Cleanup, WalkInv, Early,
     Install, InstallSingle, PutFile, world, callVars
<1>16. CASE Prepare
  BY <1>16, <1>42, <1>43 DEF Prepare, WalkInv, Early, Install, InstallSingle,
     PutFile, world, callVars
<1>17. CASE CopyChunk
  BY <1>17, <1>42, <1>43 DEF CopyChunk, WalkInv, Early, Install, InstallSingle,
     PutFile, world, callVars
<1>18. CASE CopyEnds
  BY <1>18, <1>42, <1>43 DEF CopyEnds, WalkInv, Early, Install, InstallSingle,
     PutFile, world, callVars
<1>19. CASE Install
  <2>1. /\ RecordAt(at).name \in Paths /\ stage.size \in Nat
        /\ dest' = [dest EXCEPT ![RecordAt(at).name] = OwnFile(stage.size)]
        /\ phase = "install" /\ phase' \in {"head", "final"}
        /\ UNCHANGED <<call, processed>> /\ (call.op = "one" => phase' = "final")
    BY <1>19, InstallPuts DEF PhaseOK, Install, PutFile
  <2>2. IsFiniteSet(Own')
    BY <2>1, WrittenGrows DEF WalkInv
  <2>. QED
    BY <2>1, <2>2, <1>42 DEF WalkInv, Early
<1>20. CASE InstallSingle
  <2>1. /\ RecordAt(at).name \in Paths /\ stage.size \in Nat
        /\ dest' = [dest EXCEPT ![RecordAt(at).name] = OwnFile(stage.size)]
        /\ phase = "install" /\ phase' \in {"head", "final"}
        /\ UNCHANGED <<call, processed>> /\ (call.op = "one" => phase' = "final")
    BY <1>20, InstallPuts DEF PhaseOK, InstallSingle, PutFile
  <2>2. IsFiniteSet(Own')
    BY <2>1, WrittenGrows DEF WalkInv
  <2>. QED
    BY <2>1, <2>2, <1>42 DEF WalkInv, Early
<1>21. CASE Finish
  BY <1>21, <1>42, <1>43 DEF Finish, Answer, Cleanup, WalkInv, Early, Install,
     InstallSingle, PutFile, world, callVars
<1>22. CASE Meddle
  BY <1>22, <1>42, <1>43 DEF Meddle, WalkInv, Early, Install, InstallSingle,
     PutFile, world, callVars
<1>23. CASE ReplaceArchive
  BY <1>23, <1>42, <1>43 DEF ReplaceArchive, WalkInv, Early, Install,
     InstallSingle, PutFile, world, callVars
<1>24. CASE RewriteArchive
  BY <1>24, <1>42, <1>43 DEF RewriteArchive, WalkInv, Early, Install,
     InstallSingle, PutFile, world, callVars
<1>25. CASE Refusal
  <2>1. PICK r \in Answers : Refuse(r)
    BY <1>25, RefusalRefuses
  <2>. QED
    BY <2>1, <1>25, <1>43, RefusalRefuses DEF Refuse, Answer, Cleanup, WalkInv,
       Early, Install, InstallSingle, PutFile, world, callVars
<1>. QED
  BY <1>1, <1>2, <1>3, <1>4, <1>5, <1>6, <1>7, <1>8, <1>9, <1>10, <1>11,
     <1>12, <1>13, <1>14, <1>15, <1>16, <1>17, <1>18, <1>19, <1>20, <1>21,
     <1>22, <1>23, <1>24, <1>25, NextCases

\* An install moves its file from the stage.
LEMMA WrittenInstall ==
  ASSUME BaseInv, TreeOK', WalkInv, WrittenInv, Install \/ InstallSingle
  PROVE  WrittenInv'
<1>1. /\ RecordAt(at).name \in Paths
      /\ dest' = [dest EXCEPT ![RecordAt(at).name] = OwnFile(stage.size)]
      /\ phase = "install" /\ phase' # "copy"
      /\ stage' = NoStage /\ processed' = processed
  BY InstallPuts
<1>2. TreeOK /\ stage.size \in Nat /\ processed \in Nat /\ IsFiniteSet(Own)
  BY DEF BaseInv, TypeOK, PhaseOK, WalkInv
<1>3. IsFiniteSet(Own') /\ Written' <= Written + stage.size
  BY <1>1, <1>2, WrittenGrows
<1>4. Written + stage.size <= processed
  BY <1>1, <1>2, WrittenIsNat DEF WrittenInv, Staged
<1>5. Written \in Nat
  BY <1>2, WrittenIsNat
<1>6. Written' \in Nat
  <2> DEFINE S == Own'
             f == [p \in S |-> dest'[p].size]
  <2>1. \A p \in S : f[p] \in Nat
    BY DEF TreeOK, Own
  <2>2. IsFiniteSet(S) /\ Written' = SumOver(f, S)
    BY <1>3 DEF Written
  <2> HIDE DEF f, S
  <2>. QED
    BY <2>1, <2>2, SumIsNat
<1>7. Written' <= processed
  BY <1>2, <1>3, <1>4, <1>5, <1>6
<1>8. stage'.size = 0 /\ Staged' = 0
  BY <1>1 DEF NoStage, Staged
<1>9. Written' + stage'.size <= processed' + Staged'
  <2>1. \A w, p, x, y, q \in Int : w <= p /\ x = 0 /\ y = 0 /\ q = p
                                => w + x <= q + y
    OBVIOUS
  <2>2. stage'.size = 0
    BY <1>8
  <2>3. Staged' = 0
    BY <1>8
  <2>4. processed' = processed /\ processed \in Int /\ Written' \in Int
    BY <1>1, <1>2, <1>6
  <2>5. /\ Written' \in Int /\ processed \in Int /\ stage'.size \in Int
        /\ Staged' \in Int /\ processed' \in Int
    BY <2>2, <2>3, <2>4
  <2>. QED
    BY <1>7, <2>1, <2>2, <2>3, <2>4, <2>5, Zenon
<1>. QED
  BY <1>9 DEF WrittenInv

\* No step writes what was not decoded.
LEMMA WrittenStep == BudgetInv /\ [Next]_vars => WrittenInv'
<1> SUFFICES ASSUME BudgetInv, [Next]_vars PROVE WrittenInv'
  OBVIOUS
<1>40. UNCHANGED <<backend, listing>>
  BY ListingStays
<1>41. /\ BaseInv /\ ArchiveOK /\ PhaseOK /\ TreeOK /\ TreeOK' /\ WorldInv
       /\ SourceInv /\ FileInv /\ source.records \in Seq(Records)
       /\ WalkInv /\ WrittenInv /\ DoneInv /\ DecodedInv
  BY BaseStep DEF BudgetInv, BaseInv, TypeOK, ArchiveOK
<1>42. Written \in Nat /\ processed \in Nat /\ stage.size \in Nat
  BY <1>41, WrittenIsNat DEF WalkInv, PhaseOK
<1>43. (~Install /\ ~InstallSingle) => Written' <= Written /\ Written' \in Nat
  <2> SUFFICES ASSUME ~Install, ~InstallSingle
               PROVE  Written' <= Written /\ Written' \in Nat
    OBVIOUS
  <2>1. \A p \in Paths : dest'[p].own => dest'[p] = dest[p]
    BY <1>41, OnlyInstallsOwn
  <2>2. IsFiniteSet(Own') /\ Written' <= Written
    BY <1>41, <2>1, WrittenShrinks DEF WalkInv
  <2>3. ASSUME TreeOK', IsFiniteSet(Own') PROVE Written' \in Nat
    <3> DEFINE S == Own'
               f == [p \in S |-> dest'[p].size]
    <3>1. \A p \in S : f[p] \in Nat
      BY <1>41 DEF TreeOK, Own
    <3>2. IsFiniteSet(S) /\ Written' = SumOver(f, S)
      BY <2>3 DEF Written
    <3> HIDE DEF f, S
    <3>. QED
      BY <3>1, <3>2, SumIsNat
  <2>. QED
    BY <1>41, <2>2, <2>3
<1> USE <1>40, <1>41, <1>42
<1>1. CASE UNCHANGED vars
  BY <1>1, <1>43 DEF vars, WrittenInv, Staged, FileInv, NoStage, Install,
     InstallSingle, PutFile
<1>2. CASE Call
  BY <1>2, <1>43 DEF Call, WrittenInv, Staged, FileInv, NoStage, Install,
     InstallSingle, PutFile
<1>3. CASE GatesPass
  BY <1>3, <1>43 DEF GatesPass, WrittenInv, Staged, FileInv, NoStage, Install,
     InstallSingle, PutFile
<1>4. CASE PreflightEntry
  BY <1>4, <1>43 DEF PreflightEntry, WrittenInv, Staged, FileInv, NoStage,
     Install, InstallSingle, PutFile
<1>5. CASE PreflightEnds
  BY <1>5, <1>43 DEF PreflightEnds, WrittenInv, Staged, FileInv, NoStage,
     Install, InstallSingle, PutFile
<1>6. CASE StatArchive
  BY <1>6, <1>43 DEF StatArchive, WrittenInv, Staged, FileInv, NoStage,
     Install, InstallSingle, PutFile
<1>7. CASE OpenWalk
  BY <1>7, <1>43 DEF OpenWalk, WrittenInv, Staged, FileInv, NoStage, Install,
     InstallSingle, PutFile
<1>8. CASE StartWalk
  BY <1>8, <1>43 DEF StartWalk, WrittenInv, Staged, FileInv, NoStage, Install,
     InstallSingle, PutFile
<1>9. CASE SingleSeeks
  BY <1>9, <1>43 DEF SingleSeeks, WrittenInv, Staged, FileInv, NoStage,
     Install, InstallSingle, PutFile
<1>10. CASE HeadSkips
  BY <1>10, <1>43 DEF HeadSkips, WrittenInv, Staged, FileInv, NoStage, Install,
     InstallSingle, PutFile
<1>11. CASE HeadDirectory
  BY <1>11, <1>43 DEF HeadDirectory, WrittenInv, Staged, FileInv, NoStage,
     Install, InstallSingle, PutFile
<1>12. CASE HeadFile
  BY <1>12, <1>43 DEF HeadFile, WrittenInv, Staged, FileInv, NoStage, Install,
     InstallSingle, PutFile
<1>13. CASE SingleFile
  BY <1>13, <1>43 DEF SingleFile, WrittenInv, Staged, FileInv, NoStage,
     Install, InstallSingle, PutFile
<1>14. CASE HeadEnds
  BY <1>14, <1>43 DEF HeadEnds, WrittenInv, Staged, FileInv, NoStage, Install,
     InstallSingle, PutFile
<1>15. CASE PrepareRefuses
  BY <1>15, <1>43 DEF PrepareRefuses, Answer, Cleanup, WrittenInv, Staged,
     FileInv, NoStage, Install, InstallSingle, PutFile
<1>16. CASE Prepare
  BY <1>16, <1>43 DEF Prepare, WrittenInv, Staged, FileInv, NoStage, Install,
     InstallSingle, PutFile
<1>17. CASE CopyChunk
  BY <1>17, <1>43 DEF CopyChunk, WrittenInv, Staged, FileInv, NoStage, Install,
     InstallSingle, PutFile
<1>18. CASE CopyEnds
  BY <1>18, <1>43 DEF CopyEnds, WrittenInv, Staged, FileInv, NoStage, Install,
     InstallSingle, PutFile
<1>19. CASE Install
  BY <1>19, WrittenInstall
<1>20. CASE InstallSingle
  BY <1>20, WrittenInstall
<1>21. CASE Finish
  BY <1>21, <1>43 DEF Finish, Answer, Cleanup, WrittenInv, Staged, FileInv,
     NoStage, Install, InstallSingle, PutFile
<1>22. CASE Meddle
  BY <1>22, <1>43 DEF Meddle, WrittenInv, Staged, FileInv, NoStage, Install,
     InstallSingle, PutFile
<1>23. CASE ReplaceArchive
  BY <1>23, <1>43 DEF ReplaceArchive, WrittenInv, Staged, FileInv, NoStage,
     Install, InstallSingle, PutFile
<1>24. CASE RewriteArchive
  BY <1>24, <1>43 DEF RewriteArchive, WrittenInv, Staged, FileInv, NoStage,
     Install, InstallSingle, PutFile
<1>25. CASE Refusal
  <2>1. PICK r \in Answers : Refuse(r)
    BY <1>25, RefusalRefuses
  <2>. QED
    BY <2>1, <1>25, <1>43 DEF Refuse, Answer, Cleanup, WrittenInv, Staged,
       FileInv, NoStage, Install, InstallSingle, PutFile
<1>. QED
  BY <1>1, <1>2, <1>3, <1>4, <1>5, <1>6, <1>7, <1>8, <1>9, <1>10, <1>11,
     <1>12, <1>13, <1>14, <1>15, <1>16, <1>17, <1>18, <1>19, <1>20, <1>21,
     <1>22, <1>23, <1>24, <1>25, NextCases

\* The gates summed a number for any part of the selection, and no more for
\* a part of a part.
LEMMA GatedSums ==
  ASSUME ArchiveOK
  PROVE  /\ IsFiniteSet(Sizes(call.sel))
         /\ \A S \in SUBSET Sizes(call.sel) :
              /\ GatedSum(S) \in Nat
              /\ \A T \in SUBSET S : GatedSum(T) <= GatedSum(S)
              /\ \A i \in Sizes(call.sel) \ S :
                   GatedSum(S \union {i}) = listing[i].size + GatedSum(S)
         /\ Declared(call.sel) = GatedSum(Sizes(call.sel))
<1> DEFINE Z == Sizes(call.sel)
           z == [i \in Z |-> listing[i].size]
<1>1. Z \in SUBSET (1..Len(listing)) /\ Len(listing) \in Nat
  BY DEF ArchiveOK, Sizes, Files
<1>2. IsFiniteSet(Z)
  BY <1>1, PartOfRun
<1>3. \A i \in Z : z[i] \in Nat /\ z[i] = listing[i].size
  <2> SUFFICES ASSUME NEW i \in Z PROVE listing[i].size \in Nat
    OBVIOUS
  <2>1. listing[i] \in Records /\ listing[i].size # Undeclared
    BY <1>1 DEF ArchiveOK, Sizes
  <2>. QED
    BY <2>1 DEF Records
<1>4. \A S : GatedSum(S) = SumOver(z, S)
  BY DEF GatedSum
<1>5. Declared(call.sel) = SumOver(z, Z)
  BY DEF Declared
<1> HIDE DEF z
<1>6. ASSUME NEW S \in SUBSET Z
      PROVE  /\ SumOver(z, S) \in Nat
             /\ \A T \in SUBSET S : SumOver(z, T) <= SumOver(z, S)
             /\ \A i \in Z \ S :
                  SumOver(z, S \union {i}) = listing[i].size + SumOver(z, S)
  <2> HIDE DEF Z
  <2>1. IsFiniteSet(S) /\ \A i \in S : z[i] \in Nat
    BY <1>2, <1>3, FS_Subset
  <2>2. SumOver(z, S) \in Nat
    BY <2>1, SumIsNat
  <2>3. ASSUME NEW T \in SUBSET S PROVE SumOver(z, T) <= SumOver(z, S)
    <3>1. /\ \A i \in S : z[i] \in Int /\ z[i] \in Nat
          /\ \A i \in T : z[i] <= z[i]
      BY <2>1
    <3>. QED
      BY <2>1, <3>1, SumGrows
  <2>4. ASSUME NEW i \in Z \ S
        PROVE  SumOver(z, S \union {i}) = listing[i].size + SumOver(z, S)
    <3>1. \A j \in S \union {i} : z[j] \in Int
      BY <1>3
    <3>. QED
      BY <1>3, <2>1, <3>1, SumPutsIn
  <2>. QED
    BY <2>2, <2>3, <2>4
<1>. QED
  BY <1>2, <1>4, <1>5, <1>6

\* The file at hand, where the gates saw its size: it is not yet among the
\* decoded ones, and they summed it.
LEMMA FileIsGated ==
  ASSUME BaseInv, phase = "copy", swapped # "rewritten" \/ backend = "zip"
  PROVE  LET r == RecordAt(at)
         IN  /\ r = listing[IndexFor(at)] /\ IndexFor(at) \in call.sel
             /\ r.size # Undeclared => IndexFor(at) \in Sizes(call.sel) \ Done
             /\ backend # "libarchive" => r.size # Undeclared
<1>1. /\ at \in DOMAIN source.records /\ Wanted(at) /\ source.id = 1
      /\ RecordAt(at).kind = "file" /\ Corresponds(source.records)
      /\ source.records \in Seq(Records)
  BY DEF BaseInv, FileInv, SourceInv, Walking, TypeOK, ArchiveOK
<1>2. /\ IndexFor(at) \in DOMAIN listing /\ IndexFor(at) \in call.sel
      /\ RecordAt(at) = listing[IndexFor(at)]
  BY <1>1, WantedIsListed
<1>3. RecordAt(at).size # Undeclared => IndexFor(at) \in Sizes(call.sel)
  BY <1>1, <1>2 DEF Sizes, Files
<1>4. IndexFor(at) \notin Done
  <2> SUFFICES ASSUME NEW n \in Passed \cap DOMAIN source.records,
                      Named(RecordAt(n)), IndexFor(n) = IndexFor(at)
               PROVE  FALSE
    BY DEF Done
  <2>1. n = at
    BY <1>1, Paired DEF Wanted, Chosen
  <2>2. n < at /\ at \in Nat
    BY <1>1 DEF Passed
  <2>. QED
    BY <2>1, <2>2
<1>5. backend # "libarchive" => RecordAt(at).size # Undeclared
  BY <1>2 DEF BaseInv, WorldInv, Stated
<1>. QED
  BY <1>2, <1>3, <1>4, <1>5

\* On the walk, nothing changes what was asked.
LEMMA OnTheWalk ==
  ASSUME [Next]_vars, phase \in Walking
  PROVE  UNCHANGED <<call, swapped, source, listing>>
<1>1. CASE UNCHANGED vars
  BY <1>1 DEF vars, world, callVars, Walking
<1>2. CASE Call
  BY <1>2 DEF Call, world, callVars, Walking
<1>3. CASE GatesPass
  BY <1>3 DEF GatesPass, world, callVars, Walking
<1>4. CASE PreflightEntry
  BY <1>4 DEF PreflightEntry, world, callVars, Walking
<1>5. CASE PreflightEnds
  BY <1>5 DEF PreflightEnds, world, callVars, Walking
<1>6. CASE StatArchive
  BY <1>6 DEF StatArchive, world, callVars, Walking
<1>7. CASE OpenWalk
  BY <1>7 DEF OpenWalk, world, callVars, Walking
<1>8. CASE StartWalk
  BY <1>8 DEF StartWalk, world, callVars, Walking
<1>9. CASE SingleSeeks
  BY <1>9 DEF SingleSeeks, world, callVars, Walking
<1>10. CASE HeadSkips
  BY <1>10 DEF HeadSkips, world, callVars, Walking
<1>11. CASE HeadDirectory
  BY <1>11 DEF HeadDirectory, world, callVars, Walking
<1>12. CASE HeadFile
  BY <1>12 DEF HeadFile, world, callVars, Walking
<1>13. CASE SingleFile
  BY <1>13 DEF SingleFile, world, callVars, Walking
<1>14. CASE HeadEnds
  BY <1>14 DEF HeadEnds, world, callVars, Walking
<1>15. CASE PrepareRefuses
  BY <1>15 DEF PrepareRefuses, Answer, Cleanup, world, callVars, Walking
<1>16. CASE Prepare
  BY <1>16 DEF Prepare, world, callVars, Walking
<1>17. CASE CopyChunk
  BY <1>17 DEF CopyChunk, world, callVars, Walking
<1>18. CASE CopyEnds
  BY <1>18 DEF CopyEnds, world, callVars, Walking
<1>19. CASE Install
  BY <1>19 DEF Install, PutFile, Cleanup, world, callVars, Walking
<1>20. CASE InstallSingle
  BY <1>20 DEF InstallSingle, PutFile, Cleanup, world, callVars, Walking
<1>21. CASE Finish
  BY <1>21 DEF Finish, Answer, Cleanup, world, callVars, Walking
<1>22. CASE Meddle
  BY <1>22 DEF Meddle, world, callVars, Walking
<1>23. CASE ReplaceArchive
  BY <1>23 DEF ReplaceArchive, world, callVars, Walking
<1>24. CASE RewriteArchive
  BY <1>24 DEF RewriteArchive, world, callVars, Walking
<1>25. CASE Refusal
  <2>1. PICK r \in Answers : Refuse(r)
    BY <1>25, RefusalRefuses
  <2>. QED
    BY <2>1 DEF Refuse, world, callVars
<1>. QED
  BY <1>1, <1>2, <1>3, <1>4, <1>5, <1>6, <1>7, <1>8, <1>9, <1>10, <1>11,
     <1>12, <1>13, <1>14, <1>15, <1>16, <1>17, <1>18, <1>19, <1>20, <1>21,
     <1>22, <1>23, <1>24, <1>25, NextCases

\* The decoded files stay decoded.
LEMMA DoneGrows ==
  ASSUME ArchiveOK, PhaseOK, UNCHANGED <<backend, listing, call, source>>,
         Passed \subseteq Passed'
  PROVE  Done \subseteq Done' /\ GatedSum(Done) <= GatedSum(Done)'
<1>1. \A n : RecordAt(n)' = RecordAt(n) /\ IndexFor(n)' = IndexFor(n)
  BY DEF RecordAt, IndexFor
<1>2. Sizes(call.sel)' = Sizes(call.sel) /\ \A S : GatedSum(S)' = GatedSum(S)
  BY DEF Sizes, Files, GatedSum
<1>3. Done \subseteq Done' /\ Done' \subseteq Sizes(call.sel)
  BY <1>1, <1>2 DEF Done
<1> DEFINE D == Done
           E == Done'
<1>4. D \in SUBSET E /\ E \in SUBSET Sizes(call.sel)
  BY <1>3
<1>5. GatedSum(Done)' = GatedSum(E)
  BY <1>2 DEF GatedSum
<1> HIDE DEF D, E
<1>6. GatedSum(D) <= GatedSum(E)
  BY <1>4, GatedSums
<1>. QED
  BY <1>3, <1>5, <1>6 DEF D, E

\* What the gates summed for a walk that starts.
LEMMA GatedIsNat ==
  ASSUME ArchiveOK
  PROVE  GatedSum(Done) \in Nat
<1>1. Done \in SUBSET Sizes(call.sel)
  BY DEF Done
<1>. QED
  BY <1>1, GatedSums

\* A walk begins with StartWalk.
LEMMA NotWalking ==
  ASSUME BudgetInv, [Next]_vars, phase \notin Walking, phase' \in Walking
  PROVE  StartWalk
<1>1. CASE UNCHANGED vars
  BY <1>1 DEF vars, Walking
<1>2. CASE Call
  BY <1>2 DEF Call, Walking
<1>3. CASE GatesPass
  BY <1>3 DEF GatesPass, Walking
<1>4. CASE PreflightEntry
  BY <1>4 DEF PreflightEntry, Walking
<1>5. CASE PreflightEnds
  BY <1>5 DEF PreflightEnds, Walking
<1>6. CASE StatArchive
  BY <1>6 DEF StatArchive, Walking
<1>7. CASE OpenWalk
  BY <1>7 DEF OpenWalk, Walking
<1>8. CASE StartWalk
  BY <1>8
<1>9. CASE SingleSeeks
  BY <1>9 DEF SingleSeeks, Walking
<1>10. CASE HeadSkips
  BY <1>10 DEF HeadSkips, Walking
<1>11. CASE HeadDirectory
  BY <1>11 DEF HeadDirectory, Walking
<1>12. CASE HeadFile
  BY <1>12 DEF HeadFile, Walking
<1>13. CASE SingleFile
  BY <1>13 DEF SingleFile, Walking
<1>14. CASE HeadEnds
  BY <1>14 DEF HeadEnds, Walking
<1>15. CASE PrepareRefuses
  BY <1>15 DEF PrepareRefuses, Answer, Cleanup, Walking
<1>16. CASE Prepare
  BY <1>16 DEF Prepare, Walking
<1>17. CASE CopyChunk
  BY <1>17 DEF CopyChunk, Walking
<1>18. CASE CopyEnds
  BY <1>18 DEF CopyEnds, Walking
<1>19. CASE Install
  BY <1>19 DEF Install, PutFile, Cleanup, Walking
<1>20. CASE InstallSingle
  BY <1>20 DEF InstallSingle, PutFile, Cleanup, Walking
<1>21. CASE Finish
  BY <1>21 DEF Finish, Answer, Cleanup, Walking
<1>22. CASE Meddle
  BY <1>22 DEF Meddle, Walking
<1>23. CASE ReplaceArchive
  BY <1>23 DEF ReplaceArchive, Walking
<1>24. CASE RewriteArchive
  BY <1>24 DEF RewriteArchive, Walking
<1>25. CASE Refusal
  <2>1. PICK r \in Answers : Refuse(r)
    BY <1>25, RefusalRefuses
  <2>. QED
    BY <2>1 DEF Refuse, Answer, Walking
<1>. QED
  BY <1>1, <1>2, <1>3, <1>4, <1>5, <1>6, <1>7, <1>8, <1>9, <1>10, <1>11,
     <1>12, <1>13, <1>14, <1>15, <1>16, <1>17, <1>18, <1>19, <1>20, <1>21,
     <1>22, <1>23, <1>24, <1>25, NextCases

\* A walk of more than one entry goes forward.
LEMMA PassedGrows ==
  ASSUME BaseInv, [Next]_vars, phase \in Walking, phase' \in Walking,
         call.op = "bulk"
  PROVE  (processed' = processed /\ Passed \subseteq Passed') \/ CopyEnds
<1>41. PhaseOK /\ FileInv
  BY DEF BaseInv, TypeOK
<1>1. CASE UNCHANGED vars
  BY <1>1, <1>41 DEF vars, Walking, Passed, PhaseOK
<1>2. CASE Call
  BY <1>2, <1>41 DEF Call, Walking, Passed, PhaseOK
<1>3. CASE GatesPass
  BY <1>3, <1>41 DEF GatesPass, Walking, Passed, PhaseOK
<1>4. CASE PreflightEntry
  BY <1>4, <1>41 DEF PreflightEntry, Walking, Passed, PhaseOK
<1>5. CASE PreflightEnds
  BY <1>5, <1>41 DEF PreflightEnds, Walking, Passed, PhaseOK
<1>6. CASE StatArchive
  BY <1>6, <1>41 DEF StatArchive, Walking, Passed, PhaseOK
<1>7. CASE OpenWalk
  BY <1>7, <1>41 DEF OpenWalk, Walking, Passed, PhaseOK
<1>8. CASE StartWalk
  BY <1>8, <1>41 DEF StartWalk, Walking, Passed, PhaseOK
<1>9. CASE SingleSeeks
  BY <1>9, <1>41 DEF SingleSeeks, Walking, Passed, PhaseOK
<1>10. CASE HeadSkips
  BY <1>10, <1>41 DEF HeadSkips, Walking, Passed, PhaseOK
<1>11. CASE HeadDirectory
  BY <1>11, <1>41 DEF HeadDirectory, Walking, Passed, PhaseOK
<1>12. CASE HeadFile
  BY <1>12, <1>41 DEF HeadFile, Walking, Passed, PhaseOK
<1>13. CASE SingleFile
  BY <1>13, <1>41 DEF SingleFile, Walking, Passed, PhaseOK
<1>14. CASE HeadEnds
  BY <1>14, <1>41 DEF HeadEnds, Walking, Passed, PhaseOK
<1>15. CASE PrepareRefuses
  BY <1>15, <1>41 DEF PrepareRefuses, Answer, Cleanup, Walking, Passed, PhaseOK
<1>16. CASE Prepare
  BY <1>16, <1>41 DEF Prepare, Walking, Passed, PhaseOK
<1>17. CASE CopyChunk
  BY <1>17, <1>41 DEF CopyChunk, Walking, Passed, PhaseOK
<1>18. CASE CopyEnds
  BY <1>18
<1>19. CASE Install
  BY <1>19, <1>41, InstallPuts DEF Passed, PhaseOK
<1>20. CASE InstallSingle
  BY <1>20 DEF InstallSingle
<1>21. CASE Finish
  BY <1>21, <1>41 DEF Finish, Answer, Cleanup, Walking, Passed, PhaseOK
<1>22. CASE Meddle
  BY <1>22, <1>41 DEF Meddle, Walking, Passed, PhaseOK
<1>23. CASE ReplaceArchive
  BY <1>23, <1>41 DEF ReplaceArchive, Walking, Passed, PhaseOK
<1>24. CASE RewriteArchive
  BY <1>24, <1>41 DEF RewriteArchive, Walking, Passed, PhaseOK
<1>25. CASE Refusal
  <2>1. PICK r \in Answers : Refuse(r)
    BY <1>25, RefusalRefuses
  <2>. QED
    BY <2>1 DEF Refuse, Answer, Walking
<1>. QED
  BY <1>1, <1>2, <1>3, <1>4, <1>5, <1>6, <1>7, <1>8, <1>9, <1>10, <1>11,
     <1>12, <1>13, <1>14, <1>15, <1>16, <1>17, <1>18, <1>19, <1>20, <1>21,
     <1>22, <1>23, <1>24, <1>25, NextCases

\* A decoded file adds what the gates summed of it.
LEMMA DoneStep == BudgetInv /\ [Next]_vars => DoneInv'
<1> SUFFICES ASSUME BudgetInv, [Next]_vars, phase' \in Walking,
                    call'.op = "bulk", backend' # "libarchive", SizesAreGated'
             PROVE  processed' <= GatedSum(Done)'
  BY DEF DoneInv
<1>40. UNCHANGED <<backend, listing>>
  BY ListingStays
<1>41. /\ BaseInv /\ ArchiveOK /\ PhaseOK /\ TreeOK /\ TreeOK' /\ WorldInv
       /\ SourceInv /\ FileInv /\ source.records \in Seq(Records)
       /\ WalkInv /\ WrittenInv /\ DoneInv /\ DecodedInv
  BY BaseStep DEF BudgetInv, BaseInv, TypeOK, ArchiveOK
<1>42. phase \in Walking => UNCHANGED <<call, swapped, source, listing>>
  BY OnTheWalk
<1>43. SizesAreGated' /\ phase \in Walking => SizesAreGated
  BY <1>40, <1>42 DEF SizesAreGated
<1>44. GatedSum(Done) \in Nat /\ GatedSum(Done)' \in Nat /\ processed \in Nat
  <2>1. ArchiveOK' /\ ArchiveOK /\ PhaseOK
    BY BaseStep DEF BudgetInv, BaseInv, TypeOK
  <2>2. GatedSum(Done)' \in Nat
    <3> DEFINE D == Done'
               z == [i \in Sizes(call.sel)' |-> listing'[i].size]
    <3>1. D \in SUBSET Sizes(call.sel)'
      BY DEF Done
    <3>2. /\ Sizes(call.sel)' \in SUBSET (1..Len(listing)')
          /\ Len(listing)' \in Nat
      BY <2>1 DEF ArchiveOK, Sizes, Files
    <3>3. IsFiniteSet(D)
      <4> HIDE DEF D
      <4>. QED
        BY <3>1, <3>2, PartOfRun
    <3>4. \A i \in D : z[i] \in Nat
      <4> SUFFICES ASSUME NEW i \in Sizes(call.sel)' PROVE listing'[i].size \in Nat
        BY <3>1
      <4>1. listing'[i] \in Records /\ listing'[i].size # Undeclared
        BY <2>1 DEF ArchiveOK, Sizes, Files
      <4>. QED
        BY <4>1 DEF Records
    <3>5. GatedSum(Done)' = SumOver(z, D)
      BY DEF GatedSum
    <3> HIDE DEF z, D
    <3>. QED
      BY <3>3, <3>4, <3>5, SumIsNat
  <2>. QED
    BY <2>1, <2>2, GatedIsNat DEF PhaseOK
<1>45. CASE phase \notin Walking
  <2>1. processed' = 0
    <3>1. CASE StartWalk
      BY <1>41, <3>1 DEF StartWalk, WalkInv, Early
    <3>2. CASE ~StartWalk
      BY <1>45, <3>2, NotWalking
    <3>. QED
      BY <3>1, <3>2
  <2>. QED
    BY <1>44, <2>1
<1>46. CASE phase \in Walking
  <2>1. /\ call.op = "bulk" /\ backend # "libarchive" /\ SizesAreGated
        /\ processed <= GatedSum(Done)
    BY <1>40, <1>41, <1>42, <1>43, <1>46 DEF DoneInv
  <2>2. CASE processed' = processed /\ Passed \subseteq Passed'
    <3>1. GatedSum(Done) <= GatedSum(Done)'
      BY <1>40, <1>41, <1>42, <1>46, <2>2, DoneGrows
    <3>. QED
      BY <1>44, <2>1, <2>2, <3>1
  <2>3. CASE CopyEnds
    <3> DEFINE i == IndexFor(at)
    <3>1. /\ phase = "copy" /\ phase' = "install" /\ at' = at
          /\ processed' = processed + stage.size /\ UNCHANGED <<call, source>>
          /\ stage.size = RecordAt(at).data /\ Whole(RecordAt(at))
      BY <2>3 DEF CopyEnds, world, callVars
    <3>2. /\ RecordAt(at) = listing[i] /\ RecordAt(at).size # Undeclared
          /\ i \in Sizes(call.sel) \ Done
      BY <1>41, <2>1, <3>1, FileIsGated DEF SizesAreGated
    <3>3. stage.size = listing[i].size /\ stage.size \in Nat
      BY <1>41, <3>1, <3>2 DEF Whole, PhaseOK
    <3>4. Done' = Done \union {i}
      <4>1. /\ \A n : RecordAt(n)' = RecordAt(n) /\ IndexFor(n)' = IndexFor(n)
            /\ Sizes(call.sel)' = Sizes(call.sel)
        BY <1>40, <3>1 DEF RecordAt, IndexFor, Sizes, Files
      <4>2. Passed' = Passed \union {at}
        BY <1>41, <3>1 DEF Passed, PhaseOK
      <4>3. at \in DOMAIN source.records /\ Named(RecordAt(at))
        BY <1>41, <3>1 DEF FileInv, Wanted, Chosen
      <4>. QED
        BY <3>1, <3>2, <4>1, <4>2, <4>3 DEF Done
    <3>5. GatedSum(Done \union {i}) = listing[i].size + GatedSum(Done)
      <4>1. Done \in SUBSET Sizes(call.sel)
        BY DEF Done
      <4>. QED
        BY <1>41, <3>2, <4>1, GatedSums
    <3>6. GatedSum(Done)' = GatedSum(Done \union {i})
      <4>1. Sizes(call.sel)' = Sizes(call.sel) /\ listing' = listing
        BY <1>40, <3>1 DEF Sizes, Files
      <4>. QED
        BY <3>4, <4>1 DEF GatedSum
    <3>. QED
      BY <1>44, <2>1, <3>1, <3>3, <3>5, <3>6
  <2>4. (processed' = processed /\ Passed \subseteq Passed') \/ CopyEnds
    BY <1>41, <1>46, <2>1, PassedGrows
  <2>. QED
    BY <2>2, <2>3, <2>4
<1>. QED
  BY <1>45, <1>46

\* What the gates summed for a part of the selection and a file outside it
\* is within the limit.
LEMMA GatedFits ==
  ASSUME ArchiveOK, Safe(call.sel), NEW S \in SUBSET Sizes(call.sel),
         NEW i \in Sizes(call.sel) \ S
  PROVE  GatedSum(S) \in Nat /\ GatedSum(S) + listing[i].size <= MaxTotal
<1> DEFINE U == S \union {i}
<1>1. U \in SUBSET Sizes(call.sel)
  OBVIOUS
<1>2. /\ GatedSum(S) \in Nat /\ GatedSum(U) = listing[i].size + GatedSum(S)
      /\ Declared(call.sel) = GatedSum(Sizes(call.sel))
      /\ GatedSum(Sizes(call.sel)) \in Nat
  BY GatedSums
<1> HIDE DEF U
<1>3. GatedSum(U) <= GatedSum(Sizes(call.sel))
  <2>1. Sizes(call.sel) \in SUBSET Sizes(call.sel)
    OBVIOUS
  <2>. QED
    BY <1>1, <2>1, GatedSums
<1>4. Declared(call.sel) <= MaxTotal
  BY DEF Safe
<1>5. listing[i].size \in Int
  <2>1. i \in DOMAIN listing /\ listing \in Seq(Records)
    BY DEF Sizes, Files, ArchiveOK
  <2>2. listing[i] \in Records
    BY <2>1
  <2>. QED
    BY <2>2 DEF Records, Undeclared
<1>. QED
  BY <1>2, <1>3, <1>4, <1>5, LimitAssumption

\* The chunk that passed the ceiling is within what is left of the total.
LEMMA ChunkFits ==
  ASSUME BudgetInv, CopyChunk, SizesAreGated
  PROVE  processed + (stage.size + 1) <= MaxTotal
<1> DEFINE r == RecordAt(at)
           i == IndexFor(at)
<1>1. /\ phase = "copy" /\ stage.size + 1 <= Ceiling(r)
      /\ stage.size \in Nat /\ processed \in Nat
      /\ MaxTotal \in Nat /\ MaxFile \in Nat /\ ArchiveOK /\ BaseInv
  BY LimitAssumption DEF CopyChunk, BudgetInv, BaseInv, TypeOK, PhaseOK
<1>2. /\ call.op \in {"bulk", "one"}
      /\ Safe(call.sel)
      /\ call.op = "one" => processed = 0
      /\ (call.op = "bulk" /\ backend # "libarchive") =>
           processed <= GatedSum(Done)
  BY <1>1 DEF BudgetInv, BaseInv, WorldInv, ArchiveOK, WalkInv, DoneInv, Early,
     Walking
<1>3. r \in Records
  BY <1>1, RecordsAt DEF BaseInv, FileInv, ArchiveOK
<1>4. CASE backend = "libarchive" /\ call.op = "bulk"
  <2>1. Ceiling(r) <= IF processed < MaxTotal THEN MaxTotal - processed ELSE 0
    BY <1>1, <1>3, <1>4 DEF Ceiling, Least, Records, Undeclared
  <2>. QED
    BY <1>1, <2>1, <1>3, <1>4 DEF Ceiling, Least, Records, Undeclared
<1>5. CASE ~(backend = "libarchive" /\ call.op = "bulk")
  <2>1. /\ r.size # Undeclared => r = listing[i] /\ i \in Sizes(call.sel) \ Done
        /\ backend # "libarchive" => r.size # Undeclared
    BY <1>1, <1>5, FileIsGated DEF SizesAreGated
  <2>2. CASE r.size # Undeclared
    <3>1. stage.size + 1 <= listing[i].size /\ listing[i].size \in Nat
      BY <1>1, <1>3, <1>5, <2>1, <2>2 DEF Ceiling, Records
    <3>2. CASE call.op = "one"
      <4>1. {} \in SUBSET Sizes(call.sel) /\ i \in Sizes(call.sel) \ {}
        BY <2>1, <2>2
      <4>2. GatedSum({}) \in Nat /\ GatedSum({}) + listing[i].size <= MaxTotal
        BY <1>1, <1>2, <4>1, GatedFits
      <4>. QED
        BY <1>1, <1>2, <3>1, <3>2, <4>2
    <3>3. CASE call.op = "bulk"
      <4>1. Done \in SUBSET Sizes(call.sel)
        BY DEF Done
      <4>2. GatedSum(Done) \in Nat /\ GatedSum(Done) + listing[i].size <= MaxTotal
        BY <1>1, <1>2, <2>1, <2>2, <4>1, GatedFits
      <4>. QED
        BY <1>1, <1>2, <1>5, <3>1, <3>3, <4>2
    <3>. QED
      BY <1>2, <3>2, <3>3
  <2>3. CASE r.size = Undeclared
    <3>1. call.op = "one"
      BY <1>2, <1>5, <2>1, <2>3
    <3>2. Ceiling(r) <= MaxTotal
      BY <1>1, <2>3, <3>1 DEF Ceiling, SingleCap, Least
    <3>3. processed = 0
      BY <1>2, <3>1
    <3>4. \A m \in {Ceiling(r)} : m \in Int
      BY <1>1, <2>3, <3>1 DEF Ceiling, SingleCap, Least
    <3>. QED
      BY <1>1, <3>2, <3>3, <3>4
  <2>. QED
    BY <2>2, <2>3
<1>. QED
  BY <1>4, <1>5

\* No step decodes more than the total allows.
LEMMA DecodedStep == BudgetInv /\ [Next]_vars => DecodedInv'
<1> SUFFICES ASSUME BudgetInv, [Next]_vars PROVE DecodedInv'
  OBVIOUS
<1>40. UNCHANGED <<backend, listing>>
  BY ListingStays
<1>41. /\ BaseInv /\ ArchiveOK /\ PhaseOK /\ TreeOK /\ TreeOK' /\ WorldInv
       /\ SourceInv /\ FileInv /\ source.records \in Seq(Records)
       /\ WalkInv /\ WrittenInv /\ DoneInv /\ DecodedInv
  BY BaseStep DEF BudgetInv, BaseInv, TypeOK, ArchiveOK
<1>42. processed \in Nat /\ stage.size \in Nat /\ MaxTotal \in Nat
  BY <1>41, LimitAssumption DEF PhaseOK
<1>43. phase \in Early \union {"bracket"} => processed = 0
  BY <1>41 DEF WalkInv
<1> USE <1>40, <1>41, <1>42
<1>1. CASE UNCHANGED vars
  BY <1>1 DEF vars, world, callVars, DecodedInv, Staged, SizesAreGated
<1>2. CASE Call
  BY <1>2, <1>43 DEF Call, world, callVars, Early, DecodedInv, Staged,
     SizesAreGated
<1>3. CASE GatesPass
  BY <1>3 DEF GatesPass, world, callVars, DecodedInv, Staged, SizesAreGated
<1>4. CASE PreflightEntry
  BY <1>4 DEF PreflightEntry, world, callVars, DecodedInv, Staged,
     SizesAreGated
<1>5. CASE PreflightEnds
  BY <1>5 DEF PreflightEnds, world, callVars, DecodedInv, Staged, SizesAreGated
<1>6. CASE StatArchive
  BY <1>6 DEF StatArchive, world, callVars, DecodedInv, Staged, SizesAreGated
<1>7. CASE OpenWalk
  BY <1>7 DEF OpenWalk, world, callVars, DecodedInv, Staged, SizesAreGated
<1>8. CASE StartWalk
  BY <1>8 DEF StartWalk, world, callVars, DecodedInv, Staged, SizesAreGated
<1>9. CASE SingleSeeks
  BY <1>9 DEF SingleSeeks, world, callVars, DecodedInv, Staged, SizesAreGated
<1>10. CASE HeadSkips
  BY <1>10 DEF HeadSkips, world, callVars, DecodedInv, Staged, SizesAreGated
<1>11. CASE HeadDirectory
  BY <1>11 DEF HeadDirectory, world, callVars, DecodedInv, Staged,
     SizesAreGated
<1>12. CASE HeadFile
  BY <1>12 DEF HeadFile, world, callVars, DecodedInv, Staged, SizesAreGated
<1>13. CASE SingleFile
  BY <1>13 DEF SingleFile, world, callVars, DecodedInv, Staged, SizesAreGated
<1>14. CASE HeadEnds
  BY <1>14 DEF HeadEnds, world, callVars, DecodedInv, Staged, SizesAreGated
<1>15. CASE PrepareRefuses
  BY <1>15 DEF PrepareRefuses, Answer, Cleanup, world, callVars, DecodedInv,
     Staged, SizesAreGated
<1>16. CASE Prepare
  BY <1>16 DEF Prepare, world, callVars, DecodedInv, Staged, SizesAreGated,
     NoStage, FileInv
<1>17. CASE CopyChunk
  <2>1. /\ phase = "copy" /\ phase' = "copy" /\ stage'.size = stage.size + 1
        /\ processed' = processed /\ SizesAreGated' = SizesAreGated
    BY <1>17 DEF CopyChunk, PhaseOK, world, callVars, SizesAreGated
  <2>2. SizesAreGated => processed + (stage.size + 1) <= MaxTotal
    BY <1>17, ChunkFits
  <2>. QED
    BY <2>1, <2>2 DEF DecodedInv, Staged
<1>18. CASE CopyEnds
  BY <1>18 DEF CopyEnds, world, callVars, DecodedInv, Staged, SizesAreGated
<1>19. CASE Install
  BY <1>19 DEF Install, PutFile, Cleanup, world, callVars, DecodedInv, Staged,
     SizesAreGated
<1>20. CASE InstallSingle
  BY <1>20 DEF InstallSingle, PutFile, Cleanup, world, callVars, DecodedInv,
     Staged, SizesAreGated
<1>21. CASE Finish
  BY <1>21 DEF Finish, Answer, Cleanup, world, callVars, DecodedInv, Staged,
     SizesAreGated
<1>22. CASE Meddle
  BY <1>22 DEF Meddle, world, callVars, DecodedInv, Staged, SizesAreGated
<1>23. CASE ReplaceArchive
  BY <1>23, <1>43 DEF ReplaceArchive, world, callVars, Early, DecodedInv,
     Staged, SizesAreGated
<1>24. CASE RewriteArchive
  BY <1>24, <1>43 DEF RewriteArchive, world, callVars, Early, DecodedInv,
     Staged, SizesAreGated
<1>25. CASE Refusal
  <2>1. PICK r \in Answers : Refuse(r)
    BY <1>25, RefusalRefuses
  <2>. QED
    BY <2>1 DEF Refuse, Answer, Cleanup, world, callVars, DecodedInv, Staged,
                SizesAreGated
<1>. QED
  BY <1>1, <1>2, <1>3, <1>4, <1>5, <1>6, <1>7, <1>8, <1>9, <1>10, <1>11,
     <1>12, <1>13, <1>14, <1>15, <1>16, <1>17, <1>18, <1>19, <1>20, <1>21,
     <1>22, <1>23, <1>24, <1>25, NextCases

\* What holds of the budget before the call.
LEMMA BudgetInit == Init => BudgetInv
<1> SUFFICES ASSUME Init PROVE BudgetInv
  OBVIOUS
<1>1. BaseInv
  BY BaseInit
<1>2. Own = {}
  BY DEF Init, Own, Foreign, Absent
<1>3. IsFiniteSet(Own) /\ Written = 0
  <2>1. IsFiniteSet(Own)
    BY <1>2, FS_EmptySet
  <2>. QED
    BY <1>2, <2>1, SumEmpty DEF Written
<1>4. phase = "idle" /\ processed = 0 /\ stage = NoStage /\ source.id = 0
  BY DEF Init
<1>5. OwnInv
  BY <1>2 DEF OwnInv
<1>6. WalkInv
  BY <1>2, <1>3, <1>4, <1>1 DEF WalkInv, Early, BaseInv, WorldInv
<1>7. WrittenInv
  BY <1>3, <1>4 DEF WrittenInv, Staged, NoStage
<1>8. DoneInv /\ DecodedInv
  BY <1>4, LimitAssumption DEF DoneInv, DecodedInv, Staged, Walking
<1>. QED
  BY <1>1, <1>5, <1>6, <1>7, <1>8 DEF BudgetInv

\* Every step keeps the budget.
LEMMA BudgetStep == BudgetInv /\ [Next]_vars => BudgetInv'
<1>1. BudgetInv => BaseInv /\ OwnInv
  BY DEF BudgetInv
<1>. QED
  BY <1>1, BaseStep, OwnStep, WalkStep, WrittenStep, DoneStep, DecodedStep
     DEF BudgetInv

\* Under final names there are whole files only, and no more bytes than were
\* decoded.
LEMMA BudgetSays == BudgetInv => InstalledWhole
<1> SUFFICES ASSUME BudgetInv PROVE InstalledWhole
  OBVIOUS
<1>1. /\ TypeOK /\ OwnInv /\ TreeOK /\ PhaseOK /\ IsFiniteSet(Own)
      /\ Written + stage.size <= processed + Staged
      /\ SizesAreGated => processed + Staged <= MaxTotal
  BY DEF BudgetInv, BaseInv, TypeOK, WalkInv, WrittenInv, DecodedInv
<1>2. NoPartialFile
  BY <1>1 DEF BudgetInv, BaseInv, FileInv, NoPartialFile, OwnInv, NoStage
<1>3. /\ Written \in Nat /\ stage.size \in Nat /\ processed \in Nat
      /\ Staged \in Nat /\ MaxTotal \in Nat
  BY <1>1, WrittenIsNat, LimitAssumption DEF PhaseOK, Staged
<1>4. BudgetHolds
  BY <1>1, <1>3 DEF BudgetHolds
<1>. QED
  BY <1>1, <1>2, <1>4 DEF InstalledWhole

\* Whatever has a final name is whole, no staging file survives the call, and
\* what is written stays within the total limit wherever the sizes that were
\* read are those that were gated or a budget is kept.
THEOREM WhateverIsInstalledIsWhole == Spec => []InstalledWhole
<1>. QED
  BY BudgetInit, BudgetStep, BudgetSays, PTL DEF Spec

-----------------------------------------------------------------------------
(* PreflightPredicts.                                                      *)

\* Nobody else interferes.
Undisturbed == meddled = 0 /\ swapped = "no"

\* The entries that are still to be placed, of those the preflight has seen.
Pending ==
  {i \in call.sel :
     /\ listing[i].kind # "link"
     /\ \/ phase = "preflight" /\ i < at
        \/ phase \in {"open", "opening", "bracket"}
        \/ /\ phase \in Walking \ {"final"}
           /\ \E n \in DOMAIN source.records :
                n >= at /\ Named(RecordAt(n)) /\ IndexFor(n) = i}

\* Two entries that can both be placed, in whichever order.
Compatible(i, j) ==
  listing[i].kind = "file" => /\ listing[i].name # listing[j].name
                              /\ listing[i].name \notin Above[listing[j].name]

\* The preflight starts with the first entry.
StartInv == phase \in {"idle", "gates"} => at = 1

\* extract_file has its target before it.
SeekInv ==
  (Undisturbed /\ phase = "head" /\ call.op = "one") =>
    \E n \in DOMAIN source.records : n >= at /\ Chosen(n)

\* What is still to be placed can be placed, for all that was placed so far,
\* and nothing of it stands in the way of the rest.
Free == \A i \in Pending : Placeable(listing[i].name) /\ ~Taken(listing[i])
FreeInv == Undisturbed => Free
Pairs == \A i, j \in Pending : i # j => Compatible(i, j)
PairInv == Undisturbed => Pairs

ClearInv ==
  CompleteInv /\ StartInv /\ SeekInv /\ FreeInv /\ PairInv /\ PreflightPredicts

\* A walk nobody interfered with reads the listing.
LEMMA ReadsListing ==
  ASSUME BaseInv, swapped = "no", phase \in Walking \union {"bracket"}
  PROVE  /\ source.id = 1 /\ disk.id = 1
         /\ Len(Listed(source.records)) = Len(listing)
         /\ \A n \in DOMAIN source.records :
              /\ ~Drifts(n)
              /\ Named(RecordAt(n)) => /\ IndexFor(n) \in DOMAIN listing
                                       /\ listing[IndexFor(n)] = RecordAt(n)
         /\ \A i \in DOMAIN listing :
              \E n \in DOMAIN source.records :
                Named(RecordAt(n)) /\ IndexFor(n) = i
         /\ \A m, n \in DOMAIN source.records :
              (/\ Named(RecordAt(m)) /\ Named(RecordAt(n))
               /\ IndexFor(m) = IndexFor(n)) => m = n
<1>1. /\ source.records \in Seq(Records) /\ disk.id = 1
      /\ source.id \in {0, 1, 2} /\ source.id # 0 /\ source.id <= disk.id
  BY DEF BaseInv, TypeOK, ArchiveOK, SourceInv, Walking
<1>2. source.id = 1
  BY <1>1
<1>3. Corresponds(source.records) /\ Listed(source.records) = listing
  BY <1>2 DEF BaseInv, SourceInv, Corresponds
<1>4. \A n \in DOMAIN source.records :
        Named(RecordAt(n)) => /\ IndexFor(n) \in DOMAIN listing
                              /\ listing[IndexFor(n)] = RecordAt(n)
  BY <1>1, <1>3, Paired
<1>5. \A n \in DOMAIN source.records : ~Drifts(n)
  BY <1>4 DEF Drifts
<1>6. /\ \A i \in DOMAIN listing :
           \E n \in DOMAIN source.records :
             Named(RecordAt(n)) /\ IndexFor(n) = i
      /\ \A m, n \in DOMAIN source.records :
           (/\ Named(RecordAt(m)) /\ Named(RecordAt(n))
            /\ IndexFor(m) = IndexFor(n)) => m = n
  BY <1>1, <1>3, Paired
<1>. QED
  BY <1>1, <1>2, <1>3, <1>4, <1>5, <1>6

\* The entry at hand is one of those to be placed, and what is placed after
\* it is not.
LEMMA AtHand ==
  ASSUME BaseInv, swapped = "no", phase \in Walking \ {"final"},
         at \in DOMAIN source.records, Wanted(at), RecordAt(at).kind # "link"
  PROVE  /\ IndexFor(at) \in Pending /\ listing[IndexFor(at)] = RecordAt(at)
         /\ \A n \in DOMAIN source.records :
              (n > at /\ Named(RecordAt(n))) => IndexFor(n) # IndexFor(at)
<1>1. Named(RecordAt(at)) /\ IndexFor(at) \in call.sel /\ at \in Nat
  BY DEF Wanted, Chosen, BaseInv, TypeOK, PhaseOK
<1>2. listing[IndexFor(at)] = RecordAt(at)
  BY <1>1, ReadsListing
<1>3. IndexFor(at) \in Pending
  BY <1>1, <1>2 DEF Pending
<1>4. \A n \in DOMAIN source.records :
        (n > at /\ Named(RecordAt(n))) => IndexFor(n) # IndexFor(at)
  <2>1. \A n \in DOMAIN source.records :
          (Named(RecordAt(n)) /\ IndexFor(n) = IndexFor(at)) => n = at
    BY <1>1, ReadsListing
  <2>. QED
    BY <1>1, <2>1
<1>. QED
  BY <1>2, <1>3, <1>4

\* Once somebody interfered, it cannot be undone.
LEMMA StaysUndisturbed ==
  ASSUME BaseInv, [Next]_vars, Undisturbed'
  PROVE  Undisturbed
<1>41. TreeOK
  BY DEF BaseInv, TypeOK
<1> USE <1>41
<1>1. CASE UNCHANGED vars
  BY <1>1 DEF vars, world, Undisturbed, TreeOK
<1>2. CASE Call
  BY <1>2 DEF Call, world, Undisturbed, TreeOK
<1>3. CASE GatesPass
  BY <1>3 DEF GatesPass, world, Undisturbed, TreeOK
<1>4. CASE PreflightEntry
  BY <1>4 DEF PreflightEntry, world, Undisturbed, TreeOK
<1>5. CASE PreflightEnds
  BY <1>5 DEF PreflightEnds, world, Undisturbed, TreeOK
<1>6. CASE StatArchive
  BY <1>6 DEF StatArchive, world, Undisturbed, TreeOK
<1>7. CASE OpenWalk
  BY <1>7 DEF OpenWalk, world, Undisturbed, TreeOK
<1>8. CASE StartWalk
  BY <1>8 DEF StartWalk, world, Undisturbed, TreeOK
<1>9. CASE SingleSeeks
  BY <1>9 DEF SingleSeeks, world, Undisturbed, TreeOK
<1>10. CASE HeadSkips
  BY <1>10 DEF HeadSkips, world, Undisturbed, TreeOK
<1>11. CASE HeadDirectory
  BY <1>11 DEF HeadDirectory, world, Undisturbed, TreeOK
<1>12. CASE HeadFile
  BY <1>12 DEF HeadFile, world, Undisturbed, TreeOK
<1>13. CASE SingleFile
  BY <1>13 DEF SingleFile, world, Undisturbed, TreeOK
<1>14. CASE HeadEnds
  BY <1>14 DEF HeadEnds, world, Undisturbed, TreeOK
<1>15. CASE PrepareRefuses
  BY <1>15 DEF PrepareRefuses, Answer, Cleanup, world, Undisturbed, TreeOK
<1>16. CASE Prepare
  BY <1>16 DEF Prepare, world, Undisturbed, TreeOK
<1>17. CASE CopyChunk
  BY <1>17 DEF CopyChunk, world, Undisturbed, TreeOK
<1>18. CASE CopyEnds
  BY <1>18 DEF CopyEnds, world, Undisturbed, TreeOK
<1>19. CASE Install
  BY <1>19 DEF Install, PutFile, Cleanup, world, Undisturbed, TreeOK
<1>20. CASE InstallSingle
  BY <1>20 DEF InstallSingle, PutFile, Cleanup, world, Undisturbed, TreeOK
<1>21. CASE Finish
  BY <1>21 DEF Finish, Answer, Cleanup, world, Undisturbed, TreeOK
<1>22. CASE Meddle
  BY <1>22 DEF Meddle, world, Undisturbed, TreeOK
<1>23. CASE ReplaceArchive
  BY <1>23 DEF ReplaceArchive, world, Undisturbed, TreeOK
<1>24. CASE RewriteArchive
  BY <1>24 DEF RewriteArchive, world, Undisturbed, TreeOK
<1>25. CASE Refusal
  <2>1. PICK r \in Answers : Refuse(r)
    BY <1>25, RefusalRefuses
  <2>. QED
    BY <2>1 DEF Refuse, world, Undisturbed
<1>. QED
  BY <1>1, <1>2, <1>3, <1>4, <1>5, <1>6, <1>7, <1>8, <1>9, <1>10, <1>11,
     <1>12, <1>13, <1>14, <1>15, <1>16, <1>17, <1>18, <1>19, <1>20, <1>21,
     <1>22, <1>23, <1>24, <1>25, NextCases

\* The preflight starts with the first entry.
LEMMA StartStep == ClearInv /\ [Next]_vars => StartInv'
<1> SUFFICES ASSUME ClearInv, [Next]_vars PROVE StartInv'
  OBVIOUS
<1>40. UNCHANGED <<backend, listing>>
  BY ListingStays
<1>41. /\ BaseInv /\ ArchiveOK /\ PhaseOK /\ TreeOK /\ WorldInv /\ SourceInv
       /\ FileInv /\ TurnInv /\ source.records \in Seq(Records)
  BY DEF ClearInv, CompleteInv, BaseInv, TypeOK, ArchiveOK
<1>42. Undisturbed' => Undisturbed
  BY <1>41, StaysUndisturbed
<1>43. StartInv
  BY DEF ClearInv
<1> USE <1>43, <1>40, <1>41
<1>1. CASE UNCHANGED vars
  BY <1>1 DEF vars, StartInv
<1>2. CASE Call
  BY <1>2 DEF Call, StartInv
<1>3. CASE GatesPass
  BY <1>3 DEF GatesPass, StartInv
<1>4. CASE PreflightEntry
  BY <1>4 DEF PreflightEntry, StartInv
<1>5. CASE PreflightEnds
  BY <1>5 DEF PreflightEnds, StartInv
<1>6. CASE StatArchive
  BY <1>6 DEF StatArchive, StartInv
<1>7. CASE OpenWalk
  BY <1>7 DEF OpenWalk, StartInv
<1>8. CASE StartWalk
  BY <1>8 DEF StartWalk, StartInv
<1>9. CASE SingleSeeks
  BY <1>9 DEF SingleSeeks, StartInv
<1>10. CASE HeadSkips
  BY <1>10 DEF HeadSkips, StartInv
<1>11. CASE HeadDirectory
  BY <1>11 DEF HeadDirectory, StartInv
<1>12. CASE HeadFile
  BY <1>12 DEF HeadFile, StartInv
<1>13. CASE SingleFile
  BY <1>13 DEF SingleFile, StartInv
<1>14. CASE HeadEnds
  BY <1>14 DEF HeadEnds, StartInv
<1>15. CASE PrepareRefuses
  BY <1>15 DEF PrepareRefuses, Answer, Cleanup, StartInv
<1>16. CASE Prepare
  BY <1>16 DEF Prepare, StartInv
<1>17. CASE CopyChunk
  BY <1>17 DEF CopyChunk, StartInv
<1>18. CASE CopyEnds
  BY <1>18 DEF CopyEnds, StartInv
<1>19. CASE Install
  BY <1>19 DEF Install, PutFile, Cleanup, StartInv
<1>20. CASE InstallSingle
  BY <1>20 DEF InstallSingle, PutFile, Cleanup, StartInv
<1>21. CASE Finish
  BY <1>21 DEF Finish, Answer, Cleanup, StartInv
<1>22. CASE Meddle
  BY <1>22 DEF Meddle, StartInv
<1>23. CASE ReplaceArchive
  BY <1>23 DEF ReplaceArchive, StartInv
<1>24. CASE RewriteArchive
  BY <1>24 DEF RewriteArchive, StartInv
<1>25. CASE Refusal
  <2>1. PICK r \in Answers : Refuse(r)
    BY <1>25, RefusalRefuses
  <2>. QED
    BY <2>1, <1>25 DEF Refuse, Answer, Cleanup, StartInv
<1>. QED
  BY <1>1, <1>2, <1>3, <1>4, <1>5, <1>6, <1>7, <1>8, <1>9, <1>10, <1>11,
     <1>12, <1>13, <1>14, <1>15, <1>16, <1>17, <1>18, <1>19, <1>20, <1>21,
     <1>22, <1>23, <1>24, <1>25, NextCases

\* extract_file walks up to its target, not past it.
LEMMA SeekStep == ClearInv /\ [Next]_vars => SeekInv'
<1> SUFFICES ASSUME ClearInv, [Next]_vars PROVE SeekInv'
  OBVIOUS
<1>40. UNCHANGED <<backend, listing>>
  BY ListingStays
<1>41. /\ BaseInv /\ ArchiveOK /\ PhaseOK /\ TreeOK /\ WorldInv /\ SourceInv
       /\ FileInv /\ TurnInv /\ source.records \in Seq(Records)
  BY DEF ClearInv, CompleteInv, BaseInv, TypeOK, ArchiveOK
<1>42. Undisturbed' => Undisturbed
  BY <1>41, StaysUndisturbed
<1> USE <1>40, <1>41
<1>1. CASE UNCHANGED vars
  <2>1. UNCHANGED <<call, source, at, phase, meddled, swapped>>
    BY <1>1 DEF vars, world, callVars
  <2>2. \A n : Chosen(n)' = Chosen(n)
    BY <2>1, SameWalk
  <2>. QED
    BY <2>1, <2>2 DEF ClearInv, SeekInv, Undisturbed
<1>2. CASE Call
  BY <1>2 DEF Call, SeekInv, world, callVars
<1>3. CASE GatesPass
  BY <1>3 DEF GatesPass, SeekInv, world, callVars
<1>4. CASE PreflightEntry
  BY <1>4 DEF PreflightEntry, SeekInv, world, callVars
<1>5. CASE PreflightEnds
  BY <1>5 DEF PreflightEnds, SeekInv, world, callVars
<1>6. CASE StatArchive
  BY <1>6 DEF StatArchive, SeekInv, world, callVars
<1>7. CASE OpenWalk
  BY <1>7 DEF OpenWalk, SeekInv, world, callVars
<1>8. CASE StartWalk
  <2> SUFFICES ASSUME Undisturbed', call'.op = "one"
               PROVE  \E n \in DOMAIN source'.records : n >= at' /\ Chosen(n)'
    BY DEF SeekInv
  <2>1. /\ phase = "bracket" /\ UNCHANGED <<call, source, at>> /\ at = 1
    BY <1>8 DEF StartWalk, world, callVars, TurnInv
  <2>2. \A n : Chosen(n)' = Chosen(n)
    BY <2>1, SameWalk
  <2>3. PICK i \in DOMAIN listing : call.sel = {i}
    BY <2>1 DEF WorldInv
  <2>4. PICK n \in DOMAIN source.records : Named(RecordAt(n)) /\ IndexFor(n) = i
    BY <1>42, <2>1, ReadsListing DEF Undisturbed
  <2>5. Chosen(n) /\ n >= 1
    BY <2>3, <2>4 DEF Chosen
  <2>. QED
    BY <2>1, <2>2, <2>5
<1>9. CASE SingleSeeks
  <2> SUFFICES ASSUME Undisturbed'
               PROVE  \E n \in DOMAIN source'.records : n >= at' /\ Chosen(n)'
    BY DEF SeekInv
  <2>1. /\ phase = "head" /\ call.op = "one" /\ UNCHANGED <<call, source>>
        /\ ~Chosen(at)
        /\ at' = IF backend = "zip" THEN CHOOSE i \in call.sel : TRUE
                 ELSE at + 1
    BY <1>9 DEF SingleSeeks, world, callVars
  <2>2. \A n : Chosen(n)' = Chosen(n)
    BY <2>1, SameWalk
  <2>3. PICK n \in DOMAIN source.records : n >= at /\ Chosen(n)
    BY <1>42, <2>1 DEF ClearInv, SeekInv
  <2>4. CASE backend # "zip"
    <3>1. n # at /\ n \in Nat /\ at \in Nat
      BY <2>1, <2>3 DEF PhaseOK
    <3>2. n >= at + 1
      BY <2>3, <3>1
    <3>. QED
      BY <2>1, <2>2, <2>3, <2>4, <3>2
  <2>5. CASE backend = "zip"
    <3>1. PICK i \in DOMAIN listing : call.sel = {i}
      BY <2>1 DEF WorldInv
    <3>2. at' = i /\ i \in DOMAIN source.records
      <4>1. source.records = listing
        BY <2>1, <2>5 DEF SourceInv, Walking
      <4>. QED
        BY <2>1, <2>5, <3>1, <4>1
    <3>3. Chosen(i)
      <4>1. source.records = listing /\ i \in Nat
        BY <2>1, <2>5, <3>2 DEF SourceInv, Walking
      <4>2. {m \in 1..i : Named(source.records[m])} = 1..i
        <5>1. Len(listing) \in Nat /\ DOMAIN listing = 1..Len(listing)
          BY DEF ArchiveOK
        <5>2. \A m \in 1..i : m \in DOMAIN listing
          BY <3>1, <4>1, <5>1
        <5>. QED
          BY <4>1, <5>2 DEF WorldInv
      <4>3. IndexFor(i) = i
        BY <2>5, <4>1, <4>2, UpTo DEF IndexFor
      <4>4. RecordAt(i) = listing[i]
        BY <2>5, <4>1 DEF RecordAt
      <4>. QED
        BY <3>1, <4>3, <4>4 DEF Chosen, WorldInv
    <3>4. i >= i
      BY <3>2
    <3>. QED
      BY <2>1, <2>2, <3>2, <3>3, <3>4
  <2>. QED
    BY <2>4, <2>5
<1>10. CASE HeadSkips
  BY <1>10 DEF HeadSkips, SeekInv, world, callVars
<1>11. CASE HeadDirectory
  BY <1>11 DEF HeadDirectory, SeekInv, world, callVars
<1>12. CASE HeadFile
  BY <1>12 DEF HeadFile, SeekInv, world, callVars
<1>13. CASE SingleFile
  BY <1>13 DEF SingleFile, SeekInv, world, callVars
<1>14. CASE HeadEnds
  BY <1>14 DEF HeadEnds, SeekInv, world, callVars
<1>15. CASE PrepareRefuses
  BY <1>15 DEF PrepareRefuses, Answer, Cleanup, SeekInv, world, callVars
<1>16. CASE Prepare
  BY <1>16 DEF Prepare, SeekInv, world, callVars
<1>17. CASE CopyChunk
  BY <1>17 DEF CopyChunk, SeekInv, world, callVars
<1>18. CASE CopyEnds
  BY <1>18 DEF CopyEnds, SeekInv, world, callVars
<1>19. CASE Install
  BY <1>19 DEF Install, PutFile, Cleanup, SeekInv, world, callVars
<1>20. CASE InstallSingle
  BY <1>20 DEF InstallSingle, PutFile, Cleanup, SeekInv, world, callVars
<1>21. CASE Finish
  BY <1>21 DEF Finish, Answer, Cleanup, SeekInv, world, callVars
<1>22. CASE Meddle
  BY <1>22 DEF Meddle, SeekInv, Undisturbed, TreeOK
<1>23. CASE ReplaceArchive
  BY <1>23 DEF ReplaceArchive, SeekInv, Undisturbed, TreeOK
<1>24. CASE RewriteArchive
  BY <1>24 DEF RewriteArchive, SeekInv, Undisturbed, TreeOK
<1>25. CASE Refusal
  <2>1. PICK r \in Answers : Refuse(r)
    BY <1>25, RefusalRefuses
  <2>. QED
    BY <2>1 DEF Refuse, Answer, SeekInv
<1>. QED
  BY <1>1, <1>2, <1>3, <1>4, <1>5, <1>6, <1>7, <1>8, <1>9, <1>10, <1>11,
     <1>12, <1>13, <1>14, <1>15, <1>16, <1>17, <1>18, <1>19, <1>20, <1>21,
     <1>22, <1>23, <1>24, <1>25, NextCases

\* Past the preflight nothing is added to what is to be placed, and what
\* was placed is taken out of it.
LEMMA PendingShrinks ==
  ASSUME ClearInv, [Next]_vars, Undisturbed', ~PreflightEntry
  PROVE  /\ Pending' \subseteq Pending
         /\ Pending' # {} => call' = call
         /\ (HeadDirectory \/ Install) => IndexFor(at) \notin Pending'
<1>40. UNCHANGED <<backend, listing>>
  BY ListingStays
<1>41. /\ ArchiveOK /\ PhaseOK /\ TreeOK /\ WorldInv /\ SourceInv /\ FileInv
       /\ TurnInv /\ StartInv /\ BaseInv
  BY DEF ClearInv, CompleteInv, BaseInv, TypeOK
<1>42. Undisturbed
  BY <1>41, StaysUndisturbed
<1>43. UNCHANGED <<source, call>> =>
         \A n : RecordAt(n)' = RecordAt(n) /\ IndexFor(n)' = IndexFor(n)
  BY <1>40, SameWalk
<1>44. \A n \in DOMAIN source.records : n \in Nat
  BY DEF ArchiveOK, BaseInv, TypeOK, ClearInv, CompleteInv
<1> USE <1>40, <1>41, <1>42, <1>43, <1>44 DEF Pending, Walking
<1>1. CASE UNCHANGED vars
  <2>1. UNCHANGED <<call, source, at, phase>> /\ at \in Nat
    BY <1>1 DEF vars, world, callVars, PhaseOK
  <2>2. Pending' = Pending
    BY <2>1
  <2>3. ~HeadDirectory /\ ~Install
    BY <2>1 DEF HeadDirectory, Install, PutFile
  <2>. QED
    BY <2>1, <2>2, <2>3
<1>2. CASE Call
  <2>1. at' = 1 /\ phase' \in {"gates", "preflight"} /\ call'.sel \subseteq DOMAIN listing
    BY <1>2, CallSelects DEF Call, StartInv, ArchiveOK, world, callVars
  <2>2. Pending' = {}
    <3>1. \A i \in DOMAIN listing : ~(i < 1)
      BY DEF ArchiveOK
    <3>. QED
      BY <2>1, <3>1
  <2>. QED
    BY <1>2, <2>2 DEF Call, HeadDirectory, Install
<1>3. CASE GatesPass
  <2>1. at' = 1 /\ phase' \in {"gates", "preflight"} /\ call'.sel \subseteq DOMAIN listing
    BY <1>3, CallSelects DEF GatesPass, StartInv, ArchiveOK, world, callVars
  <2>2. Pending' = {}
    <3>1. \A i \in DOMAIN listing : ~(i < 1)
      BY DEF ArchiveOK
    <3>. QED
      BY <2>1, <3>1
  <2>. QED
    BY <1>3, <2>2 DEF GatesPass, HeadDirectory, Install
<1>4. CASE PreflightEntry
  BY <1>4
<1>5. CASE PreflightEnds
  <2>1. /\ UNCHANGED <<call, source, at>> /\ phase = "preflight"
        /\ at = Len(listing) + 1 /\ phase' = "open"
    BY <1>5 DEF PreflightEnds, world, callVars
  <2>2. \A i \in call.sel : i < at
    BY <2>1 DEF ArchiveOK
  <2>3. Pending' = Pending
    BY <2>1, <2>2
  <2>. QED
    BY <2>1, <2>3 DEF HeadDirectory, Install, PutFile
<1>6. CASE StatArchive
  BY <1>6 DEF StatArchive, world, callVars, HeadDirectory, Install
<1>7. CASE OpenWalk
  BY <1>7 DEF OpenWalk, world, callVars, HeadDirectory, Install
<1>8. CASE StartWalk
  <2>1. /\ phase = "bracket" /\ UNCHANGED <<call, source>>
        /\ phase' = "head"
    BY <1>8 DEF StartWalk, world, callVars
  <2>2. Pending' \subseteq Pending
    BY <2>1
  <2>. QED
    BY <2>1, <2>2 DEF HeadDirectory, Install, PutFile
<1>9. CASE SingleSeeks
  <2>1. /\ phase = "head" /\ phase' = "head" /\ UNCHANGED <<call, source>>
        /\ call.op = "one" /\ at \in Nat
        /\ at' = IF backend = "zip" THEN CHOOSE i \in call.sel : TRUE
                 ELSE at + 1
    BY <1>9 DEF SingleSeeks, world, callVars, PhaseOK
  <2>2. PICK i \in DOMAIN listing : call.sel = {i} /\ listing[i].kind = "file"
    BY <2>1 DEF WorldInv
  <2>3. i \in Pending
    <3>1. PICK n \in DOMAIN source.records : n >= at /\ Chosen(n)
      BY <2>1 DEF ClearInv, SeekInv
    <3>. QED
      BY <2>1, <2>2, <3>1 DEF Chosen
  <2>4. Pending' \subseteq {i}
    BY <2>1, <2>2
  <2>. QED
    BY <2>1, <2>3, <2>4 DEF HeadDirectory, Install
<1>10. CASE HeadSkips
  <2>1. /\ UNCHANGED <<source, call>> /\ phase \in Walking \ {"final"}
        /\ phase' \in Walking /\ at' = at + 1 /\ at \in Nat
    BY <1>10 DEF HeadSkips, world, callVars, PhaseOK
  <2>2. Pending' \subseteq Pending
    BY <2>1
  <2>. QED
    BY <1>10, <2>1, <2>2 DEF HeadSkips, HeadDirectory, Install, PutFile
<1>11. CASE HeadDirectory
  <2>1. /\ UNCHANGED <<source, call>> /\ phase \in Walking \ {"final"}
        /\ phase' \in Walking /\ at' = at + 1 /\ at \in Nat
    BY <1>11 DEF HeadDirectory, world, callVars, PhaseOK
  <2>2. /\ at \in DOMAIN source.records /\ Wanted(at)
        /\ RecordAt(at).kind # "link"
    BY <1>11 DEF HeadDirectory, AtEnd, FileInv, ArchiveOK, PhaseOK
  <2>3. /\ IndexFor(at) \in Pending
        /\ \A n \in DOMAIN source.records :
             (n > at /\ Named(RecordAt(n))) => IndexFor(n) # IndexFor(at)
    BY <2>1, <2>2, AtHand DEF Undisturbed
  <2>4. Pending' \subseteq Pending /\ IndexFor(at) \notin Pending'
    BY <2>1, <2>3
  <2>. QED
    BY <2>1, <2>4
<1>12. CASE HeadFile
  <2>1. /\ UNCHANGED <<source, call>> /\ phase \in Walking \ {"final"}
        /\ phase' \in Walking /\ at' = at /\ at \in Nat
    BY <1>12 DEF HeadFile, world, callVars, PhaseOK
  <2>2. Pending' \subseteq Pending
    BY <2>1
  <2>. QED
    BY <1>12, <2>1, <2>2 DEF HeadFile, HeadDirectory, Install, PutFile
<1>13. CASE SingleFile
  <2>1. /\ UNCHANGED <<source, call>> /\ phase \in Walking \ {"final"}
        /\ phase' \in Walking /\ at' = at /\ at \in Nat
    BY <1>13 DEF SingleFile, world, callVars, PhaseOK
  <2>2. Pending' \subseteq Pending
    BY <2>1
  <2>. QED
    BY <1>13, <2>1, <2>2 DEF SingleFile, HeadDirectory, Install, PutFile
<1>14. CASE HeadEnds
  <2>1. phase' = "final"
    BY <1>14 DEF HeadEnds
  <2>2. Pending' = {}
    BY <2>1
  <2>. QED
    BY <2>2
<1>15. CASE PrepareRefuses
  <2>1. phase' \in {"done", "final"}
    BY <1>15 DEF PrepareRefuses, Answer, Cleanup
  <2>2. Pending' = {}
    BY <2>1
  <2>. QED
    BY <2>2
<1>16. CASE Prepare
  <2>1. /\ UNCHANGED <<source, call>> /\ phase \in Walking \ {"final"}
        /\ phase' \in Walking /\ at' = at /\ at \in Nat
    BY <1>16 DEF Prepare, world, callVars, PhaseOK
  <2>2. Pending' \subseteq Pending
    BY <2>1
  <2>. QED
    BY <1>16, <2>1, <2>2 DEF Prepare, HeadDirectory, Install, PutFile
<1>17. CASE CopyChunk
  <2>1. /\ UNCHANGED <<source, call>> /\ phase \in Walking \ {"final"}
        /\ phase' \in Walking /\ at' = at /\ at \in Nat
    BY <1>17 DEF CopyChunk, world, callVars, PhaseOK
  <2>2. Pending' \subseteq Pending
    BY <2>1
  <2>. QED
    BY <1>17, <2>1, <2>2 DEF CopyChunk, HeadDirectory, Install, PutFile
<1>18. CASE CopyEnds
  <2>1. /\ UNCHANGED <<source, call>> /\ phase \in Walking \ {"final"}
        /\ phase' \in Walking /\ at' = at /\ at \in Nat
    BY <1>18 DEF CopyEnds, world, callVars, PhaseOK
  <2>2. Pending' \subseteq Pending
    BY <2>1
  <2>. QED
    BY <1>18, <2>1, <2>2 DEF CopyEnds, HeadDirectory, Install, PutFile
<1>19. CASE Install
  <2>1. /\ UNCHANGED <<source, call>> /\ phase \in Walking \ {"final"}
        /\ phase' \in Walking /\ at' = at + 1 /\ at \in Nat
    BY <1>19 DEF Install, PutFile, world, callVars, PhaseOK
  <2>2. /\ at \in DOMAIN source.records /\ Wanted(at)
        /\ RecordAt(at).kind # "link"
    BY <1>19 DEF Install, PutFile, AtEnd, FileInv, ArchiveOK, PhaseOK
  <2>3. /\ IndexFor(at) \in Pending
        /\ \A n \in DOMAIN source.records :
             (n > at /\ Named(RecordAt(n))) => IndexFor(n) # IndexFor(at)
    BY <2>1, <2>2, AtHand DEF Undisturbed
  <2>4. Pending' \subseteq Pending /\ IndexFor(at) \notin Pending'
    BY <2>1, <2>3
  <2>. QED
    BY <2>1, <2>4
<1>20. CASE InstallSingle
  <2>1. phase' \in {"done", "final"}
    BY <1>20 DEF InstallSingle, PutFile, Cleanup
  <2>2. Pending' = {}
    BY <2>1
  <2>. QED
    BY <2>2
<1>21. CASE Finish
  <2>1. phase' \in {"done", "final"}
    BY <1>21 DEF Finish, Answer, Cleanup
  <2>2. Pending' = {}
    BY <2>1
  <2>. QED
    BY <2>2
<1>22. CASE Meddle
  BY <1>22 DEF Meddle, Undisturbed, TreeOK
<1>23. CASE ReplaceArchive
  BY <1>23 DEF ReplaceArchive, Undisturbed, TreeOK
<1>24. CASE RewriteArchive
  BY <1>24 DEF RewriteArchive, Undisturbed, TreeOK
<1>25. CASE Refusal
  <2>1. PICK r \in Answers : Refuse(r)
    BY <1>25, RefusalRefuses
  <2>2. phase' = "done"
    BY <2>1 DEF Refuse, Answer
  <2>3. Pending' = {}
    BY <2>2
  <2>. QED
    BY <2>3
<1>. QED
  BY <1>1, <1>2, <1>3, <1>4, <1>5, <1>6, <1>7, <1>8, <1>9, <1>10, <1>11,
     <1>12, <1>13, <1>14, <1>15, <1>16, <1>17, <1>18, <1>19, <1>20, <1>21,
     <1>22, <1>23, <1>24, <1>25, NextCases

\* The preflight lets an entry through that fits what it has seen.
LEMMA EntryFits ==
  ASSUME ClearInv, PreflightEntry, Undisturbed
  PROVE  /\ Pending' \subseteq Pending \union {at}
         /\ at \in Pending' =>
              /\ Placeable(listing[at].name) /\ ~Taken(listing[at])
              /\ \A j \in Pending : Compatible(at, j) /\ Compatible(j, at)
<1>1. /\ phase = "preflight" /\ phase' = "preflight" /\ at' = at + 1
      /\ UNCHANGED <<call, listing, source>> /\ at \in DOMAIN listing
      /\ Checked(at) => ~Unfit(listing[at])
  BY DEF PreflightEntry, world, callVars
<1>2. /\ call.sel \subseteq DOMAIN listing /\ at \in Nat
      /\ \A i \in DOMAIN listing : i \in Nat
      /\ \A i \in DOMAIN listing : Named(listing[i]) /\ listing[i] \in Records
  BY DEF ClearInv, CompleteInv, BaseInv, TypeOK, ArchiveOK, PhaseOK, WorldInv
<1>3. Pending = {i \in call.sel : listing[i].kind # "link" /\ i < at}
  BY <1>1 DEF Pending, Walking
<1>4. Pending' = {i \in call.sel : listing[i].kind # "link" /\ i < at + 1}
  BY <1>1 DEF Pending, Walking
<1>5. Pending' \subseteq Pending \union {at}
  BY <1>2, <1>3, <1>4
<1>6. ASSUME at \in Pending'
      PROVE  /\ Placeable(listing[at].name) /\ ~Taken(listing[at])
             /\ \A j \in Pending : Compatible(at, j) /\ Compatible(j, at)
  <2>1. Checked(at)
    BY <1>4, <1>6 DEF Checked
  <2>2. /\ Placeable(listing[at].name) /\ ~Taken(listing[at])
        /\ ~Clash(listing[at])
    BY <1>1, <2>1 DEF Unfit
  <2>3. ASSUME NEW j \in Pending
        PROVE  Compatible(at, j) /\ Compatible(j, at)
    <3>1. /\ j \in call.sel /\ j < at
          /\ listing[j].kind \in {"file", "dir"}
          /\ listing[at].kind \in {"file", "dir"}
      BY <1>1, <1>2, <1>3, <2>1, <2>3 DEF Checked, Named, Records
    <3>2. listing[j].name \in Earlier({"file", "dir"})
      BY <3>1 DEF Earlier
    <3>3. listing[j].kind = "file" => listing[j].name \in Earlier({"file"})
      BY <3>1 DEF Earlier
    <3>4. \A a \in Above[listing[j].name] : a \in Required(Earlier({"file", "dir"}))
      BY <3>2 DEF Required
    <3>5. CASE listing[at].kind = "file"
      <4>1. /\ listing[at].name \notin Earlier({"file", "dir"})
            /\ listing[at].name \notin Required(Earlier({"file", "dir"}))
            /\ Above[listing[at].name] \cap Earlier({"file"}) = {}
        BY <2>2, <3>5 DEF Clash
      <4>. QED
        BY <3>2, <3>3, <3>4, <4>1 DEF Compatible
    <3>6. CASE listing[at].kind = "dir"
      <4>1. /\ listing[at].name \notin Earlier({"file"})
            /\ Above[listing[at].name] \cap Earlier({"file"}) = {}
        BY <2>2, <3>6 DEF Clash
      <4>. QED
        BY <3>3, <3>6, <4>1 DEF Compatible
    <3>. QED
      BY <3>1, <3>5, <3>6
  <2>. QED
    BY <2>2, <2>3
<1>. QED
  BY <1>5, <1>6

\* No two entries to be placed are in each other's way.
LEMMA PairStep == ClearInv /\ [Next]_vars => PairInv'
<1> SUFFICES ASSUME ClearInv, [Next]_vars, Undisturbed' PROVE Pairs'
  BY DEF PairInv
<1>40. UNCHANGED <<backend, listing>>
  BY ListingStays
<1>41. /\ ArchiveOK /\ PhaseOK /\ TreeOK /\ WorldInv /\ SourceInv /\ FileInv
       /\ BaseInv /\ source.records \in Seq(Records)
  BY DEF ClearInv, CompleteInv, BaseInv, TypeOK, ArchiveOK
<1>42. Undisturbed /\ Free /\ Pairs
  BY <1>41, StaysUndisturbed DEF ClearInv, FreeInv, PairInv
<1>43. \A i, j : Compatible(i, j)' = Compatible(i, j)
  BY <1>40 DEF Compatible
<1>44. CASE ~PreflightEntry
  <2>1. Pending' \subseteq Pending
    BY <1>44, PendingShrinks
  <2>. QED
    BY <1>42, <1>43, <2>1 DEF Pairs
<1>45. CASE PreflightEntry
  <2>1. /\ Pending' \subseteq Pending \union {at}
        /\ at \in Pending' =>
             \A j \in Pending : Compatible(at, j) /\ Compatible(j, at)
    BY <1>42, <1>45, EntryFits
  <2>. QED
    BY <1>42, <1>43, <2>1 DEF Pairs
<1>. QED
  BY <1>44, <1>45

\* What is placed leaves room for what is still to be placed.
LEMMA FreeStep == ClearInv /\ [Next]_vars => FreeInv'
<1> SUFFICES ASSUME ClearInv, [Next]_vars, Undisturbed' PROVE Free'
  BY DEF FreeInv
<1>40. UNCHANGED <<backend, listing>>
  BY ListingStays
<1>41. /\ ArchiveOK /\ PhaseOK /\ TreeOK /\ WorldInv /\ SourceInv /\ FileInv
       /\ BaseInv /\ source.records \in Seq(Records)
  BY DEF ClearInv, CompleteInv, BaseInv, TypeOK, ArchiveOK
<1>42. Undisturbed /\ Free /\ Pairs
  BY <1>41, StaysUndisturbed DEF ClearInv, FreeInv, PairInv
<1>43. ~PreflightEntry => /\ Pending' \subseteq Pending
                          /\ Pending' # {} => call' = call
                          /\ (HeadDirectory \/ Install) =>
                               IndexFor(at) \notin Pending'
  BY PendingShrinks
<1>44. ASSUME NEW i \in Pending', call' = call,
              Placeable(listing[i].name), ~Taken(listing[i]),
              dest'[listing[i].name] = dest[listing[i].name],
              \A a \in Above[listing[i].name] :
                dest'[a] = dest[a] \/ dest'[a].kind = "dir"
       PROVE  Placeable(listing[i].name)' /\ ~Taken(listing[i])'
  BY <1>40, <1>44 DEF Placeable, Taken, Occupied
<1>45. ASSUME UNCHANGED dest, ~PreflightEntry PROVE Free'
  <2>1. ASSUME NEW i \in Pending'
        PROVE  Placeable(listing[i].name)' /\ ~Taken(listing[i])'
    <3>1. i \in Pending /\ call' = call
      BY <1>43, <1>45, <2>1
    <3>2. Placeable(listing[i].name) /\ ~Taken(listing[i])
      BY <1>42, <3>1 DEF Free
    <3>. QED
      BY <1>45, <1>44, <2>1, <3>1, <3>2
  <2>. QED
    BY <2>1 DEF Free
<1>46. ASSUME Pending' = {} PROVE Free'
  BY <1>46 DEF Free
<1>47. \A i \in Pending : /\ i \in DOMAIN listing /\ listing[i] \in Records
                          /\ listing[i].kind \in {"file", "dir"}
                          /\ listing[i].name \in Paths
  <2> SUFFICES ASSUME NEW i \in Pending
               PROVE  /\ i \in DOMAIN listing /\ listing[i] \in Records
                      /\ listing[i].kind \in {"file", "dir"}
                      /\ listing[i].name \in Paths
    OBVIOUS
  <2>1. i \in DOMAIN listing /\ listing[i].kind # "link"
    BY <1>41 DEF Pending, ArchiveOK
  <2>2. listing[i] \in Records /\ listing[i].kind # "nameless"
    BY <1>41, <2>1 DEF ArchiveOK, WorldInv, Named
  <2>. QED
    BY <2>1, <2>2 DEF Records
<1>1. CASE UNCHANGED vars
  <2>1. UNCHANGED <<dest, at>> /\ at \in Nat
    BY <1>1, <1>41 DEF vars, out, PhaseOK
  <2>2. ~PreflightEntry
    BY <2>1 DEF PreflightEntry
  <2>. QED
    BY <1>45, <2>1, <2>2
<1>2. CASE Call
  <2>1. UNCHANGED dest /\ phase # "preflight"
    BY <1>2 DEF Call, out
  <2>2. ~PreflightEntry
    BY <2>1 DEF PreflightEntry
  <2>. QED
    BY <1>45, <2>1, <2>2
<1>3. CASE GatesPass
  <2>1. UNCHANGED dest /\ phase # "preflight"
    BY <1>3 DEF GatesPass, out
  <2>2. ~PreflightEntry
    BY <2>1 DEF PreflightEntry
  <2>. QED
    BY <1>45, <2>1, <2>2
<1>4. CASE PreflightEntry
  <2>1. UNCHANGED <<dest, call>>
    BY <1>4 DEF PreflightEntry, out, world, callVars
  <2>2. ASSUME NEW i \in Pending'
        PROVE  Placeable(listing[i].name)' /\ ~Taken(listing[i])'
    <3>1. Placeable(listing[i].name) /\ ~Taken(listing[i])
      BY <1>4, <1>42, <2>2, EntryFits DEF Free
    <3>. QED
      BY <1>44, <2>1, <2>2, <3>1
  <2>. QED
    BY <2>2 DEF Free
<1>5. CASE PreflightEnds
  <2>1. UNCHANGED <<dest, at>> /\ at \in Nat
    BY <1>5, <1>41 DEF PreflightEnds, out, PhaseOK
  <2>2. ~PreflightEntry
    BY <2>1 DEF PreflightEntry
  <2>. QED
    BY <1>45, <2>1, <2>2
<1>6. CASE StatArchive
  <2>1. UNCHANGED dest /\ phase # "preflight"
    BY <1>6 DEF StatArchive, out
  <2>2. ~PreflightEntry
    BY <2>1 DEF PreflightEntry
  <2>. QED
    BY <1>45, <2>1, <2>2
<1>7. CASE OpenWalk
  <2>1. UNCHANGED dest /\ phase # "preflight"
    BY <1>7 DEF OpenWalk, out
  <2>2. ~PreflightEntry
    BY <2>1 DEF PreflightEntry
  <2>. QED
    BY <1>45, <2>1, <2>2
<1>8. CASE StartWalk
  <2>1. UNCHANGED dest /\ phase # "preflight"
    BY <1>8 DEF StartWalk, out
  <2>2. ~PreflightEntry
    BY <2>1 DEF PreflightEntry
  <2>. QED
    BY <1>45, <2>1, <2>2
<1>9. CASE SingleSeeks
  <2>1. UNCHANGED dest /\ phase # "preflight"
    BY <1>9 DEF SingleSeeks, out
  <2>2. ~PreflightEntry
    BY <2>1 DEF PreflightEntry
  <2>. QED
    BY <1>45, <2>1, <2>2
<1>10. CASE HeadSkips
  <2>1. UNCHANGED dest /\ phase # "preflight"
    BY <1>10 DEF HeadSkips, out
  <2>2. ~PreflightEntry
    BY <2>1 DEF PreflightEntry
  <2>. QED
    BY <1>45, <2>1, <2>2
<1>11. CASE HeadDirectory
  <2>1. /\ phase \in Walking \ {"final"} /\ at \in DOMAIN source.records
        /\ Wanted(at) /\ RecordAt(at).kind # "link"
    BY <1>11, <1>41 DEF HeadDirectory, AtEnd, FileInv, ArchiveOK, PhaseOK,
       Walking
  <2> DEFINE k == IndexFor(at)
             p == RecordAt(at).name
  <2>2. k \in Pending /\ listing[k] = RecordAt(at) /\ p \in Paths
    BY <1>41, <1>42, <1>47, <2>1, AtHand DEF Undisturbed
  <2>3. ~PreflightEntry
    BY <2>1 DEF PreflightEntry, Walking
  <2>4. ASSUME NEW i \in Pending'
        PROVE  Placeable(listing[i].name)' /\ ~Taken(listing[i])'
    <3> DEFINE x == listing[i].name
    <3>1. /\ i \in Pending /\ call' = call /\ x \in Paths
          /\ Above[x] \subseteq Paths /\ x \notin Above[x]
          /\ Above[p] \subseteq Paths /\ p \notin Above[p]
      BY <1>43, <1>47, <2>2, <2>3, <2>4, PathAssumption
    <3>2. Placeable(x) /\ ~Taken(listing[i])
      BY <1>42, <3>1 DEF Free
    <3>3. i # k => Compatible(i, k) /\ Compatible(k, i)
      BY <1>42, <2>2, <3>1 DEF Pairs
    <3>4. dest \in [Paths -> [kind : {"none", "file", "dir", "link"},
                             own : BOOLEAN, size : Nat]]
      BY <1>41 DEF TreeOK
    <3>5. \A q \in Paths : dest'[q] = dest[q] \/ dest'[q].kind = "dir"
      BY <1>11, <2>2, <3>4 DEF HeadDirectory, WithDirectory, WithParents,
         Foreign
    <3>6. \A q \in Paths : (q # p /\ q \notin Above[p]) => dest'[q] = dest[q]
      BY <1>11, <2>2, <3>4 DEF HeadDirectory, WithDirectory, WithParents,
         Foreign
    <3>7. \A a \in Above[x] : dest'[a] = dest[a] \/ dest'[a].kind = "dir"
      BY <3>1, <3>5
    <3>8. CASE listing[i].kind = "file"
      <4>1. i # k
        BY <1>11, <1>43, <2>3, <2>4
      <4>2. x \notin Above[p] /\ x # p
        BY <2>2, <3>3, <3>8, <4>1 DEF Compatible
      <4>3. dest'[x] = dest[x]
        BY <3>1, <3>6, <4>2
      <4>. QED
        BY <1>44, <2>4, <3>1, <3>2, <3>7, <4>3
    <3>9. CASE listing[i].kind = "dir"
      <4>1. dest'[x] = dest[x] \/ dest'[x].kind = "dir"
        BY <3>1, <3>5
      <4>. QED
        BY <1>40, <3>1, <3>2, <3>7, <3>9, <4>1 DEF Placeable, Taken, Occupied
    <3>. QED
      BY <1>47, <3>1, <3>8, <3>9
  <2>. QED
    BY <2>4 DEF Free
<1>12. CASE HeadFile
  <2>1. UNCHANGED dest /\ phase # "preflight"
    BY <1>12 DEF HeadFile, out
  <2>2. ~PreflightEntry
    BY <2>1 DEF PreflightEntry
  <2>. QED
    BY <1>45, <2>1, <2>2
<1>13. CASE SingleFile
  <2>1. UNCHANGED dest /\ phase # "preflight"
    BY <1>13 DEF SingleFile, out
  <2>2. ~PreflightEntry
    BY <2>1 DEF PreflightEntry
  <2>. QED
    BY <1>45, <2>1, <2>2
<1>14. CASE HeadEnds
  <2>1. UNCHANGED dest /\ phase # "preflight"
    BY <1>14 DEF HeadEnds, out
  <2>2. ~PreflightEntry
    BY <2>1 DEF PreflightEntry
  <2>. QED
    BY <1>45, <2>1, <2>2
<1>15. CASE PrepareRefuses
  <2>1. phase' \in {"done", "final"}
    BY <1>15 DEF PrepareRefuses, Answer, Cleanup
  <2>2. Pending' = {}
    BY <2>1 DEF Pending, Walking
  <2>. QED
    BY <1>46, <2>2
<1>16. CASE Prepare
  <2>1. /\ phase \in Walking \ {"final"} /\ at \in DOMAIN source.records
        /\ Wanted(at) /\ RecordAt(at).kind # "link"
    BY <1>16, <1>41 DEF Prepare, AtEnd, FileInv, ArchiveOK, PhaseOK, Walking
  <2> DEFINE k == IndexFor(at)
             p == RecordAt(at).name
  <2>2. k \in Pending /\ listing[k] = RecordAt(at) /\ p \in Paths
    BY <1>41, <1>42, <1>47, <2>1, AtHand DEF Undisturbed
  <2>3. ~PreflightEntry
    BY <2>1 DEF PreflightEntry, Walking
  <2>4. ASSUME NEW i \in Pending'
        PROVE  Placeable(listing[i].name)' /\ ~Taken(listing[i])'
    <3> DEFINE x == listing[i].name
    <3>1. /\ i \in Pending /\ call' = call /\ x \in Paths
          /\ Above[x] \subseteq Paths /\ x \notin Above[x]
          /\ Above[p] \subseteq Paths /\ p \notin Above[p]
      BY <1>43, <1>47, <2>2, <2>3, <2>4, PathAssumption
    <3>2. Placeable(x) /\ ~Taken(listing[i])
      BY <1>42, <3>1 DEF Free
    <3>3. i # k => Compatible(i, k) /\ Compatible(k, i)
      BY <1>42, <2>2, <3>1 DEF Pairs
    <3>4. dest \in [Paths -> [kind : {"none", "file", "dir", "link"},
                             own : BOOLEAN, size : Nat]]
      BY <1>41 DEF TreeOK
    <3>5. /\ \A q \in Paths : dest'[q] = IF q \in Above[p] /\ dest[q].kind = "none"
                                     THEN Foreign("dir") ELSE dest[q]
          /\ RecordAt(at).kind = "file"
      BY <1>16, <1>41, <3>4 DEF Prepare, WithParents, FileInv
    <3>6. \A a \in Above[x] : dest'[a] = dest[a] \/ dest'[a].kind = "dir"
      BY <3>1, <3>5 DEF Foreign
    <3>7. CASE listing[i].kind = "file"
      <4>1. x \notin Above[p]
        BY <2>2, <3>1, <3>3, <3>7 DEF Compatible
      <4>2. dest'[x] = dest[x]
        BY <3>1, <3>5, <4>1
      <4>. QED
        BY <1>44, <2>4, <3>1, <3>2, <3>6, <4>2
    <3>8. CASE listing[i].kind = "dir"
      <4>1. dest'[x] = dest[x] \/ dest'[x].kind = "dir"
        BY <3>1, <3>5 DEF Foreign
      <4>. QED
        BY <1>40, <3>1, <3>2, <3>6, <3>8, <4>1 DEF Placeable, Taken, Occupied
    <3>. QED
      BY <1>47, <3>1, <3>7, <3>8
  <2>. QED
    BY <2>4 DEF Free
<1>17. CASE CopyChunk
  <2>1. UNCHANGED dest /\ phase # "preflight"
    BY <1>17 DEF CopyChunk, out
  <2>2. ~PreflightEntry
    BY <2>1 DEF PreflightEntry
  <2>. QED
    BY <1>45, <2>1, <2>2
<1>18. CASE CopyEnds
  <2>1. UNCHANGED dest /\ phase # "preflight"
    BY <1>18 DEF CopyEnds, out
  <2>2. ~PreflightEntry
    BY <2>1 DEF PreflightEntry
  <2>. QED
    BY <1>45, <2>1, <2>2
<1>19. CASE Install
  <2>1. /\ phase \in Walking \ {"final"} /\ at \in DOMAIN source.records
        /\ Wanted(at) /\ RecordAt(at).kind # "link"
    BY <1>19, <1>41 DEF Install, PutFile, AtEnd, FileInv, ArchiveOK, PhaseOK,
       Walking
  <2> DEFINE k == IndexFor(at)
             p == RecordAt(at).name
  <2>2. k \in Pending /\ listing[k] = RecordAt(at) /\ p \in Paths
    BY <1>41, <1>42, <1>47, <2>1, AtHand DEF Undisturbed
  <2>3. ~PreflightEntry
    BY <2>1 DEF PreflightEntry, Walking
  <2>4. ASSUME NEW i \in Pending'
        PROVE  Placeable(listing[i].name)' /\ ~Taken(listing[i])'
    <3> DEFINE x == listing[i].name
    <3>1. /\ i \in Pending /\ call' = call /\ x \in Paths
          /\ Above[x] \subseteq Paths /\ x \notin Above[x]
          /\ Above[p] \subseteq Paths /\ p \notin Above[p]
      BY <1>43, <1>47, <2>2, <2>3, <2>4, PathAssumption
    <3>2. Placeable(x) /\ ~Taken(listing[i])
      BY <1>42, <3>1 DEF Free
    <3>3. i # k => Compatible(i, k) /\ Compatible(k, i)
      BY <1>42, <2>2, <3>1 DEF Pairs
    <3>4. dest \in [Paths -> [kind : {"none", "file", "dir", "link"},
                             own : BOOLEAN, size : Nat]]
      BY <1>41 DEF TreeOK
    <3>5. /\ \A q \in Paths : q # p => dest'[q] = dest[q]
          /\ RecordAt(at).kind = "file"
      BY <1>19, <1>41, <3>4 DEF Install, PutFile, WithFile, FileInv
    <3>6. i # k
      BY <1>19, <1>43, <2>3, <2>4
    <3>7. p \notin Above[x] /\ x # p
      BY <2>2, <3>3, <3>5, <3>6 DEF Compatible
    <3>8. /\ dest'[x] = dest[x]
          /\ \A a \in Above[x] : dest'[a] = dest[a]
      BY <3>1, <3>5, <3>7
    <3>. QED
      BY <1>44, <2>4, <3>1, <3>2, <3>8
  <2>. QED
    BY <2>4 DEF Free
<1>20. CASE InstallSingle
  <2>1. phase' \in {"done", "final"}
    BY <1>20 DEF InstallSingle, PutFile, Cleanup
  <2>2. Pending' = {}
    BY <2>1 DEF Pending, Walking
  <2>. QED
    BY <1>46, <2>2
<1>21. CASE Finish
  <2>1. UNCHANGED dest /\ phase # "preflight"
    BY <1>21 DEF Finish, Answer, Cleanup, out
  <2>2. ~PreflightEntry
    BY <2>1 DEF PreflightEntry
  <2>. QED
    BY <1>45, <2>1, <2>2
<1>22. CASE Meddle
  BY <1>22, <1>41 DEF Meddle, Undisturbed, TreeOK
<1>23. CASE ReplaceArchive
  BY <1>23, <1>41 DEF ReplaceArchive, Undisturbed, TreeOK
<1>24. CASE RewriteArchive
  BY <1>24, <1>41 DEF RewriteArchive, Undisturbed, TreeOK
<1>25. CASE Refusal
  <2>1. PICK r \in Answers : Refuse(r)
    BY <1>25, RefusalRefuses
  <2>2. phase' = "done"
    BY <2>1 DEF Refuse, Answer
  <2>3. Pending' = {}
    BY <2>2 DEF Pending, Walking
  <2>. QED
    BY <1>46, <2>3
<1>. QED
  BY <1>1, <1>2, <1>3, <1>4, <1>5, <1>6, <1>7, <1>8, <1>9, <1>10, <1>11,
     <1>12, <1>13, <1>14, <1>15, <1>16, <1>17, <1>18, <1>19, <1>20, <1>21,
     <1>22, <1>23, <1>24, <1>25, NextCases

\* What the walk meets is as the preflight left it.
LEMMA RefusesFairly ==
  ASSUME ClearInv, Undisturbed, Refusal
  PROVE  result' \notin {"exists", "unplaceable", "drift", "identity"}
<1>40. /\ BaseInv /\ ArchiveOK /\ PhaseOK /\ WorldInv /\ SourceInv /\ FileInv
       /\ Free /\ TurnInv
  BY DEF ClearInv, CompleteInv, BaseInv, TypeOK, FreeInv
<1>41. ASSUME phase \in {"head", "prepare", "install"},
              at \in DOMAIN source.records, Wanted(at),
              RecordAt(at).kind # "link"
       PROVE  Placeable(RecordAt(at).name) /\ ~Taken(RecordAt(at))
  <2>1. IndexFor(at) \in Pending /\ listing[IndexFor(at)] = RecordAt(at)
    BY <1>40, <1>41, AtHand DEF Undisturbed, Walking
  <2>. QED
    BY <1>40, <2>1 DEF Free
<1>42. ASSUME ~AtEnd PROVE at \in DOMAIN source.records
  BY <1>40, <1>42 DEF AtEnd, ArchiveOK, PhaseOK
<1>43. phase \in Walking => \A n \in DOMAIN source.records : ~Drifts(n)
  BY <1>40, ReadsListing DEF Undisturbed
<1> USE DEF Refuse, Answer
<1>1. CASE GatesRefuse
  BY <1>1 DEF GatesRefuse
<1>2. CASE PreflightRefuses
  BY <1>2 DEF PreflightRefuses
<1>3. CASE OpenRefuses
  BY <1>3, <1>40 DEF OpenRefuses, SourceInv, Undisturbed
<1>4. CASE BracketRefuses
  BY <1>4, <1>40 DEF BracketRefuses, Bound, SourceInv, Undisturbed
<1>5. CASE Cancel
  BY <1>5 DEF Cancel
<1>6. CASE CancelSingle
  BY <1>6 DEF CancelSingle
<1>7. CASE HeadDrifts
  <2>1. /\ phase = "head"
        /\ IF AtEnd THEN Len(Listed(source.records)) # Len(listing)
           ELSE Drifts(at)
    BY <1>7 DEF HeadDrifts
  <2>2. Len(Listed(source.records)) = Len(listing)
    BY <1>40, <2>1, ReadsListing DEF Undisturbed, Walking
  <2>. QED
    BY <1>42, <1>43, <2>1, <2>2 DEF Walking
<1>8. CASE SingleDrifts
  <2>1. phase = "head" /\ call.op = "one" /\ (~AtEnd => Drifts(at))
    BY <1>8 DEF SingleDrifts
  <2>2. AtEnd
    BY <1>42, <1>43, <2>1 DEF Walking
  <2>3. PICK n \in DOMAIN source.records : n >= at
    BY <2>1 DEF ClearInv, SeekInv
  <2>. QED
    BY <1>40, <2>2, <2>3 DEF AtEnd, ArchiveOK, PhaseOK
<1>9. CASE HeadUnplaceable
  <2>1. /\ phase = "head" /\ ~AtEnd /\ Wanted(at)
        /\ \/ RecordAt(at).kind # "link" /\ ~Placeable(RecordAt(at).name)
           \/ RecordAt(at).kind = "dir" /\ ~DirectoryFits(RecordAt(at).name)
    BY <1>9 DEF HeadUnplaceable
  <2>2. /\ RecordAt(at).kind = "dir" /\ ~DirectoryFits(RecordAt(at).name)
        /\ ~Taken(RecordAt(at))
    BY <1>41, <1>42, <2>1
  <2>. QED
    BY <2>2 DEF DirectoryFits, Taken, Occupied
<1>10. CASE CopyOverruns
  BY <1>10 DEF CopyOverruns
<1>11. CASE CopyFails
  BY <1>11 DEF CopyFails
<1>12. CASE InstallFails
  <2>1. CASE result' \in {"overrun", "corrupt"}
    BY <2>1
  <2>2. CASE ~Installable(RecordAt(at).name) /\ phase = "install"
    <3>1. /\ ~Taken(RecordAt(at)) /\ RecordAt(at).kind = "file"
      BY <1>40, <1>41, <2>2 DEF FileInv
    <3>. QED
      BY <2>2, <3>1 DEF Installable, Replaceable, Taken, Occupied
  <2>. QED
    BY <1>12, <2>1, <2>2 DEF InstallFails
<1>. QED
  BY <1>1, <1>2, <1>3, <1>4, <1>5, <1>6, <1>7, <1>8, <1>9, <1>10, <1>11,
     <1>12 DEF Refusal

\* No step takes back what the preflight said.
LEMMA PredictStep == ClearInv /\ [Next]_vars => PreflightPredicts'
<1> SUFFICES ASSUME ClearInv, [Next]_vars, Undisturbed'
             PROVE  result' \notin {"exists", "unplaceable", "drift",
                                    "identity"}
  BY DEF PreflightPredicts, Undisturbed
<1>42. /\ Undisturbed
       /\ result \notin {"exists", "unplaceable", "drift", "identity"}
  BY StaysUndisturbed DEF ClearInv, CompleteInv, PreflightPredicts, Undisturbed
<1>1. CASE UNCHANGED vars
  BY <1>1, <1>42 DEF vars, vars
<1>2. CASE Call
  BY <1>2, <1>42 DEF Call, vars
<1>3. CASE GatesPass
  BY <1>3, <1>42 DEF GatesPass, vars
<1>4. CASE PreflightEntry
  BY <1>4, <1>42 DEF PreflightEntry, vars
<1>5. CASE PreflightEnds
  BY <1>5, <1>42 DEF PreflightEnds, vars
<1>6. CASE StatArchive
  BY <1>6, <1>42 DEF StatArchive, vars
<1>7. CASE OpenWalk
  BY <1>7, <1>42 DEF OpenWalk, vars
<1>8. CASE StartWalk
  BY <1>8, <1>42 DEF StartWalk, vars
<1>9. CASE SingleSeeks
  BY <1>9, <1>42 DEF SingleSeeks, vars
<1>10. CASE HeadSkips
  BY <1>10, <1>42 DEF HeadSkips, vars
<1>11. CASE HeadDirectory
  BY <1>11, <1>42 DEF HeadDirectory, vars
<1>12. CASE HeadFile
  BY <1>12, <1>42 DEF HeadFile, vars
<1>13. CASE SingleFile
  BY <1>13, <1>42 DEF SingleFile, vars
<1>14. CASE HeadEnds
  BY <1>14, <1>42 DEF HeadEnds, vars
<1>15. CASE PrepareRefuses
  <2>1. /\ phase = "prepare"
        /\ (~call.overwrite /\ Occupied(RecordAt(at).name))
             \/ ~Placeable(RecordAt(at).name)
    BY <1>15 DEF PrepareRefuses
  <2>2. /\ Placeable(RecordAt(at).name) /\ ~Taken(RecordAt(at))
        /\ RecordAt(at).kind = "file"
    <3>1. /\ at \in DOMAIN source.records /\ Wanted(at)
          /\ RecordAt(at).kind = "file" /\ BaseInv /\ Free
      BY <1>42, <2>1 DEF ClearInv, CompleteInv, BaseInv, FileInv, FreeInv
    <3>2. IndexFor(at) \in Pending /\ listing[IndexFor(at)] = RecordAt(at)
      BY <1>42, <2>1, <3>1, AtHand DEF Undisturbed, Walking
    <3>. QED
      BY <3>1, <3>2 DEF Free
  <2>. QED
    BY <2>1, <2>2 DEF Taken
<1>16. CASE Prepare
  BY <1>16, <1>42 DEF Prepare, vars
<1>17. CASE CopyChunk
  BY <1>17, <1>42 DEF CopyChunk, vars
<1>18. CASE CopyEnds
  BY <1>18, <1>42 DEF CopyEnds, vars
<1>19. CASE Install
  BY <1>19, <1>42 DEF Install, PutFile, Cleanup, vars
<1>20. CASE InstallSingle
  BY <1>20, <1>42 DEF InstallSingle, PutFile, Cleanup, vars
<1>21. CASE Finish
  BY <1>21 DEF Finish, Answer
<1>22. CASE Meddle
  BY <1>22, <1>42 DEF Meddle, vars
<1>23. CASE ReplaceArchive
  BY <1>23, <1>42 DEF ReplaceArchive, vars
<1>24. CASE RewriteArchive
  BY <1>24, <1>42 DEF RewriteArchive, vars
<1>25. CASE Refusal
  BY <1>25, <1>42, RefusesFairly
<1>. QED
  BY <1>1, <1>2, <1>3, <1>4, <1>5, <1>6, <1>7, <1>8, <1>9, <1>10, <1>11,
     <1>12, <1>13, <1>14, <1>15, <1>16, <1>17, <1>18, <1>19, <1>20, <1>21,
     <1>22, <1>23, <1>24, <1>25, NextCases

\* Where nobody else interferes, what the preflight accepted is neither
\* refused half-way because of what is there nor mistaken for a drift.
THEOREM PreflightIsRight == Spec => []PreflightPredicts
<1>1. Init => StartInv /\ SeekInv /\ FreeInv /\ PairInv /\ PreflightPredicts
  <2> SUFFICES ASSUME Init
               PROVE  StartInv /\ SeekInv /\ FreeInv /\ PairInv
                      /\ PreflightPredicts
    OBVIOUS
  <2>1. phase = "idle" /\ at = 1 /\ call.sel = {} /\ result = "none"
    BY DEF Init
  <2>2. Pending = {}
    BY <2>1 DEF Pending
  <2>. QED
    BY <2>1, <2>2 DEF StartInv, SeekInv, FreeInv, Free, PairInv, Pairs,
                      PreflightPredicts
<1> DEFINE Rest == StartInv /\ SeekInv /\ FreeInv /\ PairInv /\ PreflightPredicts
<1>2. CompleteInv /\ Rest /\ [Next]_vars => Rest'
  <2>1. CompleteInv /\ Rest => ClearInv
    BY DEF ClearInv
  <2>. QED
    BY <2>1, StartStep, SeekStep, FreeStep, PairStep, PredictStep
<1>3. Rest => PreflightPredicts
  OBVIOUS
<1>4. Init => Rest
  BY <1>1
<1> HIDE DEF Rest
<1>5. Spec => []Rest
  BY <1>2, <1>4, CompleteInvariant, PTL DEF Spec
<1>. QED
  BY <1>3, <1>5, PTL

=============================================================================
