-------------------------- MODULE ReadHandleProofs --------------------------
(***************************************************************************)
(* Theorems about ReadHandle, for any files, any calls and any bounds.     *)
(***************************************************************************)
EXTENDS ReadHandle, NumberSetsProofs

-----------------------------------------------------------------------------
(* The operators of the model.                                             *)

\* What an entry declares, 0 when it declares nothing.
LEMMA DeclaredSize ==
  ASSUME NEW e, NEW b, IsEntry(e, b)
  PROVE  /\ Max(e.declared \union {0}) \in Nat
         /\ \A d \in e.declared : d = Max(e.declared \union {0})
<1>1. CASE e.declared = {}
  <2>1. e.declared \union {0} = {0, 0}
    BY <1>1
  <2>. QED
    BY <1>1, <2>1, MaxOfTwo
<1>2. CASE e.declared # {}
  <2>1. PICK d \in e.declared : e.declared = {d}
    BY <1>2 DEF IsEntry
  <2>2. d \in Nat /\ e.declared \union {0} = {d, 0}
    BY <2>1 DEF IsEntry
  <2>. QED
    BY <2>1, <2>2, MaxOfTwo
<1>. QED
  BY <1>1, <1>2

-----------------------------------------------------------------------------
(* What the handle is bound to.                                            *)

\* The files are those of the world.
WorldInv ==
    /\ backend \in {"zip", "sevenz", "libarchive"}
    /\ Len(files) \in Nat \ {0} /\ DOMAIN files = 1..Len(files)
    /\ \A n \in DOMAIN files : IsFile(files[n], backend)

\* Why the two stats around an open tell which file was opened: files come
\* to stand at the path in one order, so what is opened lies between what the
\* stats found.  A 7z handle has no identity before its first open, and a
\* libarchive handle from its constructor on.
BracketInv ==
    /\ call = NoCall \/ call \in Calls
    /\ phase = "unopened" => Opens
    /\ Opens => phase \in {"unopened", "idle", "opening", "opened"}
    /\ (Opens /\ phase # "idle") => backend = "libarchive" /\ identity = 0
    /\ backend = "libarchive" => identity # 0 \/ (Opens /\ phase # "idle")
    /\ phase \in {"opening", "opened"} =>
         /\ ~zip /\ found <= path
         /\ ~Opens => found = IF identity = 0 THEN path ELSE identity
    /\ phase = "opened" =>
         reader \in found..path /\ reader # 0 /\ files[reader].sound

\* What a test has left are records of the file it reads, and a digest that
\* goes for a reader has something left.
TodoInv ==
    /\ phase \in {"test", "drain"} =>
         /\ todo \in Seq(DOMAIN files[reader].recs)
         /\ phase = "drain" => todo # << >>
    /\ (/\ call.op = "digest" /\ listing # 0
        /\ phase \in {"open", "opening", "opened", "use"}) => todo # << >>

BindInv == WorldInv /\ TypeOK /\ BoundToOneFile /\ BracketInv /\ TodoInv

\* A call that was made is not the constructor's.
LEMMA CallsAreCalls ==
  ASSUME NEW c \in Calls
  PROVE  c # NoCall
  BY CallAssumption DEF NoCall

\* The view of a file lists places of its records.
LEMMA ViewLists ==
  ASSUME WorldInv, NEW n \in DOMAIN files
  PROVE  View(n) \in Seq(DOMAIN files[n].recs)
<1> DEFINE a == files[n]
<1>1. IsFile(a, backend)
  BY DEF WorldInv
<1>2. CASE zip
  <2> DEFINE Same(i) == {j \in 1..a.toc : a.recs[j].name = a.recs[i].name}
             Firsts == {i \in 1..a.toc : i = Min(Same(i))}
             order == Ascending(Firsts)
  <2>1. a.toc \in Nat /\ 1..a.toc \subseteq DOMAIN a.recs
    BY <1>1 DEF IsFile
  <2>2. IsFiniteSet(Firsts) /\ Firsts \in SUBSET Nat
    <3>1. IsFiniteSet(1..a.toc)
      BY <2>1, FS_Interval
    <3>2. Firsts \in SUBSET (1..a.toc)
      OBVIOUS
    <3> HIDE DEF Firsts
    <3>3. IsFiniteSet(Firsts)
      BY <3>1, <3>2, FS_Subset
    <3>. QED
      BY <2>1, <3>2, <3>3
  <2>3. /\ Cardinality(Firsts) \in Nat
        /\ order \in [1..Cardinality(Firsts) -> Firsts]
    BY <2>2, AscendingLists
  <2>4. ASSUME NEW k \in DOMAIN order PROVE Max(Same(order[k])) \in DOMAIN a.recs
    <3> DEFINE T == Same(order[k])
    <3>1. order[k] \in T /\ T \in SUBSET (1..a.toc)
      BY <2>3
    <3>2. \E m \in T : \A y \in T : m >= y
      BY <2>1, <3>1, HasLast
    <3>3. Max(T) \in T
      BY <3>2 DEF Max
    <3>. QED
      BY <2>1, <3>1, <3>3
  <2>5. Crate(a) = [k \in DOMAIN order |-> Max(Same(order[k]))]
    BY DEF Crate
  <2>6. DOMAIN order = 1..Cardinality(Firsts)
    BY <2>3
  <2>7. Crate(a) \in [1..Cardinality(Firsts) -> DOMAIN a.recs]
    <3> DEFINE newest(k) == Max(Same(order[k]))
    <3>1. \A k \in DOMAIN order : newest(k) \in DOMAIN a.recs
      BY <2>4
    <3>2. Crate(a) = [k \in DOMAIN order |-> newest(k)]
      BY <2>5
    <3> HIDE DEF order, newest
    <3>. QED
      BY <2>6, <3>1, <3>2
  <2>8. Crate(a) \in Seq(DOMAIN a.recs)
    <3> HIDE DEF Firsts
    <3>. QED
      BY <2>3, <2>7
  <2>. QED
    BY <1>2, <2>8 DEF View
<1>3. CASE ~zip
  <2> DEFINE S == {k \in DOMAIN a.recs : a.recs[k].kind # "unseen"}
  <2>1. IsFiniteSet(S) /\ S \in SUBSET Nat
    <3>1. IsFiniteSet(DOMAIN a.recs) /\ DOMAIN a.recs \subseteq Nat
      BY <1>1, FS_Interval DEF IsFile
    <3>2. S \in SUBSET (DOMAIN a.recs)
      OBVIOUS
    <3>. QED
      BY <3>1, <3>2, FS_Subset
  <2>2. Cardinality(S) \in Nat /\ Ascending(S) \in [1..Cardinality(S) -> S]
    BY <2>1, AscendingLists
  <2>3. Ascending(S) \in Seq(DOMAIN a.recs)
    <3>1. S \subseteq DOMAIN a.recs
      OBVIOUS
    <3> HIDE DEF S
    <3>2. Ascending(S) \in [1..Cardinality(S) -> DOMAIN a.recs]
      BY <2>2, <3>1
    <3>. QED
      BY <2>2, <3>2
  <2>. QED
    BY <1>3, <2>3 DEF View
<1>. QED
  BY <1>2, <1>3

\* So does the order of a test.
LEMMA OrderLists ==
  ASSUME WorldInv, NEW n \in DOMAIN files,
         backend = "sevenz" => IsCensus(files[n])
  PROVE  Order(n) \in Seq(DOMAIN files[n].recs)
<1>1. IsFile(files[n], backend)
  BY DEF WorldInv
<1>2. CASE backend = "sevenz"
  <2>1. visit_order(files[n]) \in [DOMAIN files[n].recs -> DOMAIN files[n].recs]
    BY <1>2 DEF IsCensus
  <2>2. Order(n) = visit_order(files[n])
    BY <1>2 DEF Order, zip
  <2>. QED
    BY <1>1, <2>1, <2>2 DEF IsFile
<1>3. CASE zip
  BY <1>3, ViewLists DEF Order, zip
<1>4. CASE backend = "libarchive"
  <2>1. Order(n) = [k \in DOMAIN files[n].recs |-> k]
    BY <1>4 DEF Order, zip
  <2>. QED
    BY <1>1, <2>1 DEF IsFile
<1>. QED
  BY <1>2, <1>3, <1>4 DEF WorldInv, zip

\* The ids a digest starts with are ids of the listing.
LEMMA NeedsList ==
  ASSUME WorldInv, NEW n \in DOMAIN files
  PROVE  /\ Ascending(Needs(n)) \in Seq(Needs(n))
         /\ Range(Ascending(Needs(n))) = Needs(n)
         /\ Needs(n) \subseteq Nat
<1>1. View(n) \in Seq(DOMAIN files[n].recs)
  BY ViewLists
<1>2. DOMAIN View(n) = 1..Len(View(n)) /\ Len(View(n)) \in Nat
  BY <1>1
<1>3. IsFiniteSet(Needs(n)) /\ Needs(n) \in SUBSET Nat
  <2>1. IsFiniteSet(DOMAIN View(n)) /\ DOMAIN View(n) \subseteq Nat
    BY <1>2, FS_Interval
  <2>2. Needs(n) \in SUBSET (DOMAIN View(n))
    BY DEF Needs
  <2>. QED
    BY <2>1, <2>2, FS_Subset
<1>4. /\ Cardinality(Needs(n)) \in Nat
      /\ Ascending(Needs(n)) \in [1..Cardinality(Needs(n)) -> Needs(n)]
      /\ Range(Ascending(Needs(n))) = Needs(n)
  BY <1>3, AscendingLists
<1>. QED
  BY <1>3, <1>4

-----------------------------------------------------------------------------
(* HandleInv.                                                              *)

\* The handle starts unbound.
LEMMA BindInit == Init => BindInv
<1> SUFFICES ASSUME Init PROVE BindInv
  OBVIOUS
<1>1. WorldInv
  BY WorldAssumption DEF Init, WorldInv
<1>2. TypeOK
  <2>1. << >> \in Seq(Nat) /\ 0 \in 0..MaxFaults
    BY BoundAssumption
  <2>2. MemosOK
    BY <1>1, <2>1 DEF Init, MemosOK, WorldInv, Files
  <2>3. PhasesOK
    BY <1>1 DEF Init, PhasesOK, Files, WorldInv
  <2>4. WalkOK
    BY <2>1 DEF Init, WalkOK
  <2>. QED
    BY <2>2, <2>3, <2>4 DEF TypeOK
<1>3. BoundToOneFile
  BY DEF Init, BoundToOneFile
<1>4. BracketInv
  BY <1>1 DEF Init, BracketInv, Opens, WorldInv
<1>5. TodoInv
  BY <1>1 DEF Init, TodoInv, NoCall
<1>. QED
  BY <1>1, <1>2, <1>3, <1>4, <1>5 DEF BindInv

\* The entry a walk is at.
LEMMA ThisEntry ==
  ASSUME BindInv, phase \in {"test", "drain"}, todo # << >>
  PROVE  /\ reader \in DOMAIN files
         /\ Head(todo) \in DOMAIN files[reader].recs
         /\ Tail(todo) \in Seq(DOMAIN files[reader].recs)
         /\ Head(todo) \in Nat /\ Tail(todo) \in Seq(Nat)
         /\ IsEntry(This, backend)
         /\ Declared \in Nat /\ \A d \in This.declared : d = Declared
         /\ makes \in Nat /\ Rest \in Nat
<1>1. reader \in DOMAIN files /\ IsFile(files[reader], backend)
  BY DEF BindInv, WorldInv, TypeOK, PhasesOK, Files
<1>2. /\ Head(todo) \in DOMAIN files[reader].recs
      /\ Tail(todo) \in Seq(DOMAIN files[reader].recs)
  BY HeadTailProperties DEF BindInv, TodoInv
<1>3. Head(todo) \in Nat /\ Tail(todo) \in Seq(Nat)
  BY HeadTailProperties DEF BindInv, TypeOK, PhasesOK, WalkOK
<1>4. IsEntry(This, backend)
  BY <1>1, <1>2 DEF IsFile, This
<1>5. Declared \in Nat /\ \A d \in This.declared : d = Declared
  BY <1>4, DeclaredSize DEF Declared
<1>6. makes \in Nat /\ Rest \in Nat
  BY <1>4 DEF IsEntry, makes, Rest
<1>. QED
  BY <1>1, <1>2, <1>3, <1>4, <1>5, <1>6

\* Reading goes forward, draining too.
LEMMA UnitsRead ==
  ASSUME BindInv, ReadUnits
  PROVE  /\ got' \in Nat
         /\ then # "endless" /\ got <= makes => got' <= makes
<1>1. todo # << >> /\ phase \in {"test", "drain"} /\ got \in Nat
  BY DEF ReadUnits, Testing, BindInv, TypeOK, PhasesOK, WalkOK
<1>2. makes \in Nat /\ Declared \in Nat
  BY <1>1, ThisEntry
<1>3. PICK n \in 1..Available : got' = Min({got + n, Max({makes, Declared + 1})})
  BY DEF ReadUnits
<1>4. n \in Nat
  BY <1>3
<1>5. Max({makes, Declared + 1}) \in Nat
  BY <1>2, MaxOfTwo
<1>6. got' \in Nat /\ got' <= got + n
  <2> DEFINE m == Max({makes, Declared + 1})
  <2>1. m \in Nat /\ got + n \in Nat
    BY <1>1, <1>4, <1>5
  <2> HIDE DEF m
  <2>. QED
    BY <1>3, <2>1, MinOfTwo DEF m
<1>7. ASSUME then # "endless", got <= makes PROVE got' <= makes
  <2>1. Want \in Int
    <3>1. CASE backend = "sevenz"
      <4>1. Max({0, Declared - got}) \in Int
        BY <1>1, <1>2, MaxOfTwo
      <4> DEFINE m == Max({0, Declared - got}) + 1
      <4>2. m \in Int /\ Buf \in Int
        BY <4>1, BoundAssumption
      <4>3. Min({Buf, m}) \in Int
        <5> HIDE DEF m
        <5>. QED
          BY <4>2, MinOfTwo
      <4>. QED
        BY <3>1, <4>3 DEF Want
    <3>2. CASE backend # "sevenz"
      BY <3>2, BoundAssumption DEF Want
    <3>. QED
      BY <3>1, <3>2
  <2>2. Available <= makes - got /\ Available \in Int
    <3> HIDE DEF makes
    <3>. QED
      BY <1>1, <1>2, <1>7, <2>1, MinOfTwo DEF Available
  <2>. QED
    BY <1>1, <1>2, <1>3, <1>4, <1>6, <2>2
<1>. QED
  BY <1>6, <1>7

\* A drain stays within what there is to drain.
LEMMA UnitsDrained ==
  ASSUME BindInv, drain_to_realign
  PROVE  /\ got' \in Nat
         /\ got' <= Rest
<1>1. todo # << >> /\ phase \in {"test", "drain"}
      /\ got \in Nat /\ left \in Nat /\ got < Rest
  BY DEF drain_to_realign, BindInv, TypeOK, WalkOK, TodoInv
<1>2. Rest \in Nat
  BY <1>1, ThisEntry
<1>3. PICK n \in 1..(IF backend = "sevenz"
                        THEN Min({Buf, left - got, Rest - got})
                        ELSE Min({Buf, Rest - got})) : got' = got + n
  BY DEF drain_to_realign
<1>4. n \in Nat /\ n <= Rest - got
  <2> HIDE DEF Rest
  <2>1. CASE backend = "sevenz"
    <3>1. left - got \in Int /\ Rest - got \in Int /\ Buf \in Int
      BY <1>1, <1>2, BoundAssumption
    <3>2. Min({Buf, left - got, Rest - got}) <= Rest - got
      BY <3>1, MinOfThree
    <3>3. Min({Buf, left - got, Rest - got}) \in Int
      BY <3>1, MinOfThree
    <3>. QED
      BY <1>1, <1>2, <1>3, <2>1, <3>2, <3>3
  <2>2. CASE backend # "sevenz"
    BY <1>1, <1>2, <1>3, <2>2, BoundAssumption, MinOfTwo
  <2>. QED
    BY <2>1, <2>2
<1>. QED
  BY <1>1, <1>2, <1>3, <1>4

\* The files of the world stay what they are.
LEMMA FilesStay == [Next]_vars => UNCHANGED <<backend, files>>
<1> SUFFICES ASSUME [Next]_vars PROVE UNCHANGED <<backend, files>>
  OBVIOUS
<1> USE DEF world
<1>1. CASE UNCHANGED vars
  BY <1>1 DEF vars
<1>2. CASE Call
  BY <1>2 DEF Call
<1>3. CASE Replace
  BY <1>3 DEF Replace
<1>4. CASE open_zip_bound
  BY <1>4 DEF open_zip_bound, WantsZip, BoundTo, Absent
<1>5. CASE with_zip
  BY <1>5 DEF with_zip, Opened
<1>6. CASE CaptureIdentity
  BY <1>6 DEF CaptureIdentity
<1>7. CASE StatBefore
  BY <1>7 DEF StatBefore, check_identity, Return
<1>8. CASE OpenNative
  BY <1>8 DEF OpenNative, OpenFails, Return
<1>9. CASE StatAfter
  BY <1>9 DEF StatAfter, OpenFails, Revalidated, check_identity, Opened,
         Return
<1>10. CASE ReadListing
  BY <1>10 DEF ReadListing, Return
<1>11. CASE scan_raw_central_directory
  BY <1>11 DEF scan_raw_central_directory, Scans
<1>12. CASE ScanFails
  BY <1>12 DEF ScanFails, Scans
<1>13. CASE RebuildFails
  BY <1>13 DEF RebuildFails, Scans
<1>14. CASE Gate
  BY <1>14 DEF Gate, Guarded, Return
<1>15. CASE ReadByName
  BY <1>15 DEF ReadByName, Return
<1>16. CASE DigestEntry
  BY <1>16 DEF DigestEntry, Return
<1>17. CASE StartTest
  BY <1>17 DEF StartTest, Return
<1>18. CASE SkipEntry
  BY <1>18 DEF SkipEntry, NextEntry, Testing
<1>19. CASE ReadUnits
  BY <1>19 DEF ReadUnits, Testing
<1>20. CASE StopLong
  BY <1>20 DEF StopLong, Abort, Testing
<1>21. CASE EndEntry
  BY <1>21 DEF EndEntry, Read, Testing, NextEntry
<1>22. CASE StopOperational
  BY <1>22 DEF StopOperational, Read, Testing, Abort
<1>23. CASE EntryFails
  BY <1>23 DEF EntryFails, Read, Testing, NextEntry, Overproduces
<1>24. CASE drain_to_realign
  BY <1>24 DEF drain_to_realign
<1>25. CASE DrainEnds
  BY <1>25 DEF DrainEnds, Abort, NextEntry
<1>26. CASE WalkCut
  BY <1>26 DEF WalkCut, Testing, Return
<1>27. CASE EndTest
  BY <1>27 DEF EndTest, Return
<1>. QED
  BY <1>1, <1>2, <1>3, <1>4, <1>5, <1>6, <1>7, <1>8, <1>9, <1>10, <1>11,
     <1>12, <1>13, <1>14, <1>15, <1>16, <1>17, <1>18, <1>19, <1>20, <1>21,
     <1>22, <1>23, <1>24, <1>25, <1>26, <1>27 DEF Next, Handle

\* What the handle keeps are numbers of files.
LEMMA MemosStep == BindInv /\ [Next]_vars => MemosOK'
<1> SUFFICES ASSUME BindInv, [Next]_vars PROVE MemosOK'
  OBVIOUS
<1>40. UNCHANGED <<backend, files>>
  BY FilesStay
<1>41. WorldInv /\ TypeOK /\ BoundToOneFile /\ BracketInv /\ TodoInv
  BY DEF BindInv
<1> USE <1>40, <1>41 DEF TypeOK, MemosOK, PhasesOK, Files, zip, memos, world
<1>1. CASE UNCHANGED vars
  BY <1>1 DEF vars
<1>2. CASE Call
  BY <1>2 DEF Call
<1>3. CASE Replace
  BY <1>3 DEF Replace
<1>4. CASE open_zip_bound
  BY <1>4 DEF open_zip_bound, WantsZip, BoundTo, Absent
<1>5. CASE with_zip
  BY <1>5 DEF with_zip, Opened
<1>6. CASE CaptureIdentity
  BY <1>6 DEF CaptureIdentity
<1>7. CASE StatBefore
  BY <1>7 DEF StatBefore, check_identity, Return
<1>8. CASE OpenNative
  BY <1>8 DEF OpenNative, OpenFails, Return
<1>9. CASE StatAfter
  BY <1>9 DEF StatAfter, OpenFails, Revalidated, check_identity, Opened,
         Return
<1>10. CASE ReadListing
  BY <1>10 DEF ReadListing, Return
<1>11. CASE scan_raw_central_directory
  BY <1>11 DEF scan_raw_central_directory, Scans
<1>12. CASE ScanFails
  BY <1>12, BoundAssumption DEF ScanFails, Scans
<1>13. CASE RebuildFails
  BY <1>13, BoundAssumption DEF RebuildFails, Scans
<1>14. CASE Gate
  BY <1>14 DEF Gate, Guarded, Return
<1>15. CASE ReadByName
  BY <1>15 DEF ReadByName, Return
<1>16. CASE DigestEntry
  BY <1>16 DEF DigestEntry, Return
<1>17. CASE StartTest
  BY <1>17 DEF StartTest, Return
<1>18. CASE SkipEntry
  BY <1>18 DEF SkipEntry, NextEntry, Testing
<1>19. CASE ReadUnits
  BY <1>19 DEF ReadUnits, Testing
<1>20. CASE StopLong
  BY <1>20 DEF StopLong, Abort, Testing
<1>21. CASE EndEntry
  BY <1>21 DEF EndEntry, Read, Testing, NextEntry
<1>22. CASE StopOperational
  BY <1>22 DEF StopOperational, Read, Testing, Abort
<1>23. CASE EntryFails
  BY <1>23 DEF EntryFails, Read, Testing, NextEntry
<1>24. CASE drain_to_realign
  BY <1>24 DEF drain_to_realign
<1>25. CASE DrainEnds
  BY <1>25 DEF DrainEnds, Abort, NextEntry
<1>26. CASE WalkCut
  BY <1>26 DEF WalkCut, Testing, Return
<1>27. CASE EndTest
  BY <1>27 DEF EndTest, Return
<1>. QED
  BY <1>1, <1>2, <1>3, <1>4, <1>5, <1>6, <1>7, <1>8, <1>9, <1>10, <1>11,
     <1>12, <1>13, <1>14, <1>15, <1>16, <1>17, <1>18, <1>19, <1>20, <1>21,
     <1>22, <1>23, <1>24, <1>25, <1>26, <1>27 DEF Next, Handle

\* A phase that reads has its reader, and a phase that looks up ids has its
\* listing.
LEMMA PhasesStep == BindInv /\ [Next]_vars => PhasesOK'
<1> SUFFICES ASSUME BindInv, [Next]_vars PROVE PhasesOK'
  OBVIOUS
<1>40. UNCHANGED <<backend, files>>
  BY FilesStay
<1>41. WorldInv /\ TypeOK /\ BoundToOneFile /\ BracketInv /\ TodoInv
  BY DEF BindInv
<1> USE <1>40, <1>41 DEF TypeOK, MemosOK, PhasesOK, Files, memos, world
<1>1. CASE UNCHANGED vars
  BY <1>1 DEF vars
<1>2. CASE Call
  BY <1>2 DEF Call
<1>3. CASE Replace
  BY <1>3 DEF Replace
<1>4. CASE open_zip_bound
  BY <1>4 DEF open_zip_bound, WantsZip, BoundTo, Absent
<1>5. CASE with_zip
  BY <1>5 DEF with_zip, Opened
<1>6. CASE CaptureIdentity
  BY <1>6 DEF CaptureIdentity
<1>7. CASE StatBefore
  BY <1>7 DEF StatBefore, check_identity, Return
<1>8. CASE OpenNative
  BY <1>8 DEF OpenNative, OpenFails, Return
<1>9. CASE StatAfter
  BY <1>9 DEF StatAfter, OpenFails, Revalidated, check_identity, Opened,
         Return, BracketInv, Opens
<1>10. CASE ReadListing
  BY <1>10 DEF ReadListing, Return
<1>11. CASE scan_raw_central_directory
  BY <1>11 DEF scan_raw_central_directory, Scans
<1>12. CASE ScanFails
  BY <1>12, BoundAssumption DEF ScanFails, Scans
<1>13. CASE RebuildFails
  BY <1>13, BoundAssumption DEF RebuildFails, Scans
<1>14. CASE Gate
  BY <1>14 DEF Gate, Guarded, Return
<1>15. CASE ReadByName
  BY <1>15 DEF ReadByName, Return
<1>16. CASE DigestEntry
  BY <1>16 DEF DigestEntry, Return
<1>17. CASE StartTest
  BY <1>17 DEF StartTest, Return
<1>18. CASE SkipEntry
  BY <1>18 DEF SkipEntry, NextEntry, Testing
<1>19. CASE ReadUnits
  BY <1>19 DEF ReadUnits, Testing
<1>20. CASE StopLong
  BY <1>20 DEF StopLong, Abort, Testing
<1>21. CASE EndEntry
  BY <1>21 DEF EndEntry, Read, Testing, NextEntry
<1>22. CASE StopOperational
  BY <1>22 DEF StopOperational, Read, Testing, Abort
<1>23. CASE EntryFails
  BY <1>23 DEF EntryFails, Read, Testing, NextEntry
<1>24. CASE drain_to_realign
  BY <1>24 DEF drain_to_realign
<1>25. CASE DrainEnds
  BY <1>25 DEF DrainEnds, Abort, NextEntry
<1>26. CASE WalkCut
  BY <1>26 DEF WalkCut, Testing, Return
<1>27. CASE EndTest
  BY <1>27 DEF EndTest, Return
<1>. QED
  BY <1>1, <1>2, <1>3, <1>4, <1>5, <1>6, <1>7, <1>8, <1>9, <1>10, <1>11,
     <1>12, <1>13, <1>14, <1>15, <1>16, <1>17, <1>18, <1>19, <1>20, <1>21,
     <1>22, <1>23, <1>24, <1>25, <1>26, <1>27 DEF Next, Handle

\* The walk counts in numbers.
LEMMA WalkStep == BindInv /\ [Next]_vars => WalkOK'
<1> SUFFICES ASSUME BindInv, [Next]_vars PROVE WalkOK'
  OBVIOUS
<1>40. UNCHANGED <<backend, files>>
  BY FilesStay
<1>41. WorldInv /\ TypeOK /\ BoundToOneFile /\ BracketInv /\ TodoInv
  BY DEF BindInv
<1>42. phase \in {"test", "drain"} /\ todo # << >> =>
          /\ Head(todo) \in Nat /\ Tail(todo) \in Seq(Nat)
          /\ Declared \in Nat
  BY ThisEntry
<1>43. << >> \in Seq(Nat)
  OBVIOUS
<1>44. ReadUnits \/ drain_to_realign => got' \in Nat
  BY UnitsRead, UnitsDrained
<1> USE <1>40, <1>41 DEF TypeOK, WalkOK, walk
<1>1. CASE UNCHANGED vars
  BY <1>1 DEF vars
<1>2. CASE Call
  BY <1>2, <1>43 DEF Call
<1>3. CASE Replace
  BY <1>3 DEF Replace
<1>4. CASE open_zip_bound
  BY <1>4 DEF open_zip_bound, WantsZip, BoundTo, Absent
<1>5. CASE with_zip
  BY <1>5 DEF with_zip, Opened
<1>6. CASE CaptureIdentity
  BY <1>6 DEF CaptureIdentity
<1>7. CASE StatBefore
  BY <1>7 DEF StatBefore, check_identity, Return
<1>8. CASE OpenNative
  BY <1>8 DEF OpenNative, OpenFails, Return
<1>9. CASE StatAfter
  BY <1>9 DEF StatAfter, OpenFails, Revalidated, check_identity, Opened,
         Return
<1>10. CASE ReadListing
  BY <1>10 DEF ReadListing, Return
<1>11. CASE scan_raw_central_directory
  BY <1>11 DEF scan_raw_central_directory, Scans
<1>12. CASE ScanFails
  BY <1>12, BoundAssumption DEF ScanFails, Scans
<1>13. CASE RebuildFails
  BY <1>13, BoundAssumption DEF RebuildFails, Scans
<1>14. CASE Gate
  <2>1. todo' \in Seq(Nat)
    <3>1. CASE todo' = Ascending(Needs(listing))
      <4>1. listing \in DOMAIN files
        BY <1>14 DEF Gate, Guarded, PhasesOK, MemosOK, Files, WorldInv
      <4>2. Ascending(Needs(listing)) \in Seq(Nat)
        BY <4>1, NeedsList, SeqMonotonic
      <4>. QED
        BY <3>1, <4>2
    <3>2. CASE todo' # Ascending(Needs(listing))
      BY <1>14, <1>43, <3>2 DEF Gate, Return
    <3>. QED
      BY <3>1, <3>2
  <2>. QED
    BY <1>14, <2>1 DEF Gate, Return
<1>15. CASE ReadByName
  BY <1>15 DEF ReadByName, Return
<1>16. CASE DigestEntry
  <2>1. CASE Return("err")
    BY <2>1 DEF Return
  <2>2. CASE ~Return("err")
    <3>1. todo # << >> => Tail(todo) \in Seq(Nat)
      BY HeadTailProperties
    <3>2. Tail(todo) \in Seq(Nat)
      BY <1>16, <3>1 DEF DigestEntry, TodoInv, PhasesOK
    <3>. QED
      BY <1>16, <2>2, <3>2 DEF DigestEntry
  <2>. QED
    BY <2>1, <2>2
<1>17. CASE StartTest
  <2>1. todo' \in Seq(Nat)
    <3>1. CASE Return("err")
      BY <3>1 DEF Return
    <3>2. CASE ~Return("err")
      <4>1. /\ reader \in DOMAIN files /\ todo' = Order(reader)
            /\ backend = "sevenz" => IsCensus(files[reader])
        BY <1>17, <3>2 DEF StartTest, WorldInv, PhasesOK, Files
      <4>2. Order(reader) \in Seq(DOMAIN files[reader].recs)
        BY <4>1, OrderLists
      <4>3. DOMAIN files[reader].recs \subseteq Nat
        BY <4>1 DEF IsFile, WorldInv
      <4>. QED
        BY <4>1, <4>2, <4>3, SeqMonotonic
    <3>. QED
      BY <3>1, <3>2
  <2>. QED
    BY <1>17, <2>1 DEF StartTest, Return
<1>18. CASE SkipEntry
  BY <1>18, <1>42 DEF SkipEntry, NextEntry, Testing
<1>19. CASE ReadUnits
  BY <1>19, <1>44 DEF ReadUnits, Testing
<1>20. CASE StopLong
  BY <1>20, <1>42 DEF StopLong, Abort, Testing
<1>21. CASE EndEntry
  BY <1>21, <1>42 DEF EndEntry, Read, Testing, NextEntry
<1>22. CASE StopOperational
  BY <1>22 DEF StopOperational, Read, Testing, Abort
<1>23. CASE EntryFails
  <2>1. Head(todo) \in Nat /\ Tail(todo) \in Seq(Nat) /\ Declared \in Nat
    BY <1>23, <1>42 DEF EntryFails, Read, Testing
  <2>2. backend = "sevenz" => Declared - got \in Nat
    BY <1>23, <2>1 DEF EntryFails, Read, Overproduces
  <2>3. CASE zip
    <3>1. NextEntry(TRUE, FALSE)
      BY Zenon, <1>23, <2>3 DEF EntryFails
    <3>. QED
      BY <2>1, <3>1 DEF NextEntry
  <2>4. CASE ~zip
    <3>1. /\ got' = 0
          /\ left' = IF backend = "sevenz" THEN Declared - got ELSE 0
          /\ UNCHANGED <<todo, lost, failed, tested>>
      BY Zenon, <1>23, <2>4 DEF EntryFails
    <3>. QED
      BY <2>2, <3>1
  <2>. QED
    BY <2>3, <2>4
<1>24. CASE drain_to_realign
  BY <1>24, <1>44 DEF drain_to_realign
<1>25. CASE DrainEnds
  <2>1. Head(todo) \in Nat /\ Tail(todo) \in Seq(Nat)
    BY <1>25, <1>42 DEF DrainEnds, TodoInv
  <2>2. CASE LosesCursor
    BY <1>25, <2>1, <2>2 DEF DrainEnds, Abort
  <2>3. CASE ~LosesCursor
    <3>1. NextEntry(TRUE, Rest > got \/ last = "fails")
      BY <1>25, <2>3 DEF DrainEnds
    <3>2. (Rest > got \/ last = "fails" \/ Garbled) \in BOOLEAN
      OBVIOUS
    <3> HIDE DEF Rest, last, Garbled
    <3>. QED
      BY <2>1, <3>1, <3>2 DEF NextEntry
  <2>. QED
    BY <2>2, <2>3
<1>26. CASE WalkCut
  BY <1>26 DEF WalkCut, Testing, Return
<1>27. CASE EndTest
  BY <1>27 DEF EndTest, Return
<1>. QED
  BY <1>1, <1>2, <1>3, <1>4, <1>5, <1>6, <1>7, <1>8, <1>9, <1>10, <1>11,
     <1>12, <1>13, <1>14, <1>15, <1>16, <1>17, <1>18, <1>19, <1>20, <1>21,
     <1>22, <1>23, <1>24, <1>25, <1>26, <1>27 DEF Next, Handle

\* A file that was opened is the one the handle is bound to: the second
\* stat of the bracket, or the one descriptor of ZIP, says so.
LEMMA BoundStep == BindInv /\ [Next]_vars => BoundToOneFile'
<1> SUFFICES ASSUME BindInv, [Next]_vars PROVE BoundToOneFile'
  OBVIOUS
<1>40. UNCHANGED <<backend, files>>
  BY FilesStay
<1>41. WorldInv /\ TypeOK /\ BoundToOneFile /\ BracketInv /\ TodoInv
  BY DEF BindInv
<1> USE <1>40, <1>41 DEF TypeOK, BoundToOneFile, zip, memos, world
<1>1. CASE UNCHANGED vars
  BY <1>1 DEF vars
<1>2. CASE Call
  BY <1>2 DEF Call
<1>3. CASE Replace
  BY <1>3 DEF Replace
<1>4. CASE open_zip_bound
  BY <1>4 DEF open_zip_bound, WantsZip, BoundTo, Absent
<1>5. CASE with_zip
  BY <1>5 DEF with_zip, Opened
<1>6. CASE CaptureIdentity
  BY <1>6 DEF CaptureIdentity
<1>7. CASE StatBefore
  BY <1>7 DEF StatBefore, check_identity, Return
<1>8. CASE OpenNative
  BY <1>8 DEF OpenNative, OpenFails, Return
<1>9. CASE StatAfter
  <2>1. CASE Revalidated
    <3>1. reader = path /\ identity \in {0, path} /\ files[path].sound
      BY <1>9, <2>1 DEF StatAfter, Revalidated, check_identity, BracketInv,
                        Opens, MemosOK, PhasesOK, Files, WorldInv
    <3>. QED
      BY <1>9, <2>1, <3>1 DEF StatAfter, Opened, BracketInv, Opens
  <2>2. CASE ~Revalidated
    BY <1>9, <2>2 DEF StatAfter, OpenFails, Return
  <2>. QED
    BY <2>1, <2>2
<1>10. CASE ReadListing
  BY <1>10 DEF ReadListing, Return
<1>11. CASE scan_raw_central_directory
  BY <1>11 DEF scan_raw_central_directory, Scans
<1>12. CASE ScanFails
  BY <1>12, BoundAssumption DEF ScanFails, Scans
<1>13. CASE RebuildFails
  BY <1>13, BoundAssumption DEF RebuildFails, Scans
<1>14. CASE Gate
  BY <1>14 DEF Gate, Guarded, Return
<1>15. CASE ReadByName
  BY <1>15 DEF ReadByName, Return
<1>16. CASE DigestEntry
  BY <1>16 DEF DigestEntry, Return
<1>17. CASE StartTest
  BY <1>17 DEF StartTest, Return
<1>18. CASE SkipEntry
  BY <1>18 DEF SkipEntry, NextEntry, Testing
<1>19. CASE ReadUnits
  BY <1>19 DEF ReadUnits, Testing
<1>20. CASE StopLong
  BY <1>20 DEF StopLong, Abort, Testing
<1>21. CASE EndEntry
  BY <1>21 DEF EndEntry, Read, Testing, NextEntry
<1>22. CASE StopOperational
  BY <1>22 DEF StopOperational, Read, Testing, Abort
<1>23. CASE EntryFails
  BY <1>23 DEF EntryFails, Read, Testing, NextEntry
<1>24. CASE drain_to_realign
  BY <1>24 DEF drain_to_realign
<1>25. CASE DrainEnds
  BY <1>25 DEF DrainEnds, Abort, NextEntry
<1>26. CASE WalkCut
  BY <1>26 DEF WalkCut, Testing, Return
<1>27. CASE EndTest
  BY <1>27 DEF EndTest, Return
<1>. QED
  BY <1>1, <1>2, <1>3, <1>4, <1>5, <1>6, <1>7, <1>8, <1>9, <1>10, <1>11,
     <1>12, <1>13, <1>14, <1>15, <1>16, <1>17, <1>18, <1>19, <1>20, <1>21,
     <1>22, <1>23, <1>24, <1>25, <1>26, <1>27 DEF Next, Handle

\* What is opened lies between what the two stats of the bracket found.
LEMMA BracketStep == BindInv /\ [Next]_vars => BracketInv'
<1> SUFFICES ASSUME BindInv, [Next]_vars PROVE BracketInv'
  OBVIOUS
<1>40. UNCHANGED <<backend, files>>
  BY FilesStay
<1>41. WorldInv /\ TypeOK /\ BoundToOneFile /\ BracketInv /\ TodoInv
  BY DEF BindInv
<1> USE <1>40, <1>41 DEF TypeOK, BracketInv, PhasesOK, MemosOK, Files,
   WorldInv, Opens, zip, memos, world
<1>1. CASE UNCHANGED vars
  BY <1>1 DEF vars
<1>2. CASE Call
  <2>1. call' \in Calls /\ call' # NoCall
    BY <1>2, CallsAreCalls DEF Call
  <2>. QED
    BY <1>2, <2>1 DEF Call
<1>3. CASE Replace
  BY <1>3 DEF Replace
<1>4. CASE open_zip_bound
  BY <1>4 DEF open_zip_bound, WantsZip, BoundTo, Absent
<1>5. CASE with_zip
  BY <1>5 DEF with_zip, Opened
<1>6. CASE CaptureIdentity
  <2>1. found' \in {0, path}
    BY Zenon, <1>6 DEF CaptureIdentity
  <2>2. Opens /\ backend = "libarchive" /\ identity = 0
    BY <1>6 DEF CaptureIdentity
  <2>. QED
    BY <1>6, <2>1, <2>2 DEF CaptureIdentity
<1>7. CASE StatBefore
  BY <1>7 DEF StatBefore, check_identity, Return
<1>8. CASE OpenNative
  BY <1>8 DEF OpenNative, OpenFails, Return
<1>9. CASE StatAfter
  <2>1. CASE Revalidated
    <3>1. path # 0 /\ (Opens => phase = "opened")
      BY <1>9 DEF StatAfter, MemosOK, WorldInv
    <3>. QED
      BY <1>9, <2>1, <3>1 DEF StatAfter, Opened
  <2>2. CASE ~Revalidated
    BY <1>9, <2>2 DEF StatAfter, OpenFails, Return
  <2>. QED
    BY <2>1, <2>2
<1>10. CASE ReadListing
  BY <1>10 DEF ReadListing, Return
<1>11. CASE scan_raw_central_directory
  BY <1>11 DEF scan_raw_central_directory, Scans
<1>12. CASE ScanFails
  BY <1>12, BoundAssumption DEF ScanFails, Scans
<1>13. CASE RebuildFails
  BY <1>13, BoundAssumption DEF RebuildFails, Scans
<1>14. CASE Gate
  BY <1>14 DEF Gate, Guarded, Return
<1>15. CASE ReadByName
  BY <1>15 DEF ReadByName, Return
<1>16. CASE DigestEntry
  BY <1>16 DEF DigestEntry, Return
<1>17. CASE StartTest
  BY <1>17 DEF StartTest, Return
<1>18. CASE SkipEntry
  BY <1>18 DEF SkipEntry, NextEntry, Testing
<1>19. CASE ReadUnits
  BY <1>19 DEF ReadUnits, Testing
<1>20. CASE StopLong
  BY <1>20 DEF StopLong, Abort, Testing
<1>21. CASE EndEntry
  BY <1>21 DEF EndEntry, Read, Testing, NextEntry
<1>22. CASE StopOperational
  BY <1>22 DEF StopOperational, Read, Testing, Abort
<1>23. CASE EntryFails
  BY <1>23 DEF EntryFails, Read, Testing, NextEntry
<1>24. CASE drain_to_realign
  BY <1>24 DEF drain_to_realign
<1>25. CASE DrainEnds
  BY <1>25 DEF DrainEnds, Abort, NextEntry
<1>26. CASE WalkCut
  BY <1>26 DEF WalkCut, Testing, Return
<1>27. CASE EndTest
  BY <1>27 DEF EndTest, Return
<1>. QED
  BY <1>1, <1>2, <1>3, <1>4, <1>5, <1>6, <1>7, <1>8, <1>9, <1>10, <1>11,
     <1>12, <1>13, <1>14, <1>15, <1>16, <1>17, <1>18, <1>19, <1>20, <1>21,
     <1>22, <1>23, <1>24, <1>25, <1>26, <1>27 DEF Next, Handle

\* A test and a digest have their work listed before they begin.
LEMMA TodoStep == BindInv /\ [Next]_vars => TodoInv'
<1> SUFFICES ASSUME BindInv, [Next]_vars PROVE TodoInv'
  OBVIOUS
<1>40. UNCHANGED <<backend, files>>
  BY FilesStay
<1>41. WorldInv /\ TypeOK /\ BoundToOneFile /\ BracketInv /\ TodoInv
  BY DEF BindInv
<1>42. phase \in {"test", "drain"} /\ todo # << >> =>
          Tail(todo) \in Seq(DOMAIN files[reader].recs)
  BY ThisEntry
<1> USE <1>40, <1>41 DEF TypeOK, TodoInv, walk, memos, world
<1>1. CASE UNCHANGED vars
  BY <1>1 DEF vars
<1>2. CASE Call
  BY <1>2 DEF Call
<1>3. CASE Replace
  BY <1>3 DEF Replace
<1>4. CASE open_zip_bound
  BY <1>4 DEF open_zip_bound, WantsZip, BoundTo, Absent
<1>5. CASE with_zip
  BY <1>5 DEF with_zip, Opened
<1>6. CASE CaptureIdentity
  BY <1>6 DEF CaptureIdentity, BracketInv, Opens, NoCall
<1>7. CASE StatBefore
  BY <1>7 DEF StatBefore, check_identity, Return
<1>8. CASE OpenNative
  BY <1>8 DEF OpenNative, OpenFails, Return
<1>9. CASE StatAfter
  BY <1>9 DEF StatAfter, OpenFails, Revalidated, check_identity, Opened,
         Return
<1>10. CASE ReadListing
  BY <1>10 DEF ReadListing, Return
<1>11. CASE scan_raw_central_directory
  BY <1>11 DEF scan_raw_central_directory, Scans
<1>12. CASE ScanFails
  BY <1>12, BoundAssumption DEF ScanFails, Scans
<1>13. CASE RebuildFails
  BY <1>13, BoundAssumption DEF RebuildFails, Scans
<1>14. CASE Gate
  <2>1. CASE todo' = Ascending(Needs(listing)) /\ call.op = "digest"
               /\ Needs(listing) # {}
    <3>1. listing \in DOMAIN files
      BY <1>14 DEF Gate, Guarded, PhasesOK, MemosOK, Files, WorldInv
    <3>2. Range(todo') = Needs(listing)
      BY <2>1, <3>1, NeedsList
    <3>3. todo' # << >>
      BY <2>1, <3>2 DEF Range
    <3>. QED
      BY <1>14, <3>3 DEF Gate, Return
  <2>2. CASE ~(todo' = Ascending(Needs(listing)) /\ call.op = "digest"
                 /\ Needs(listing) # {})
    BY <1>14, <2>2 DEF Gate, Return, Answered
  <2>. QED
    BY <2>1, <2>2
<1>15. CASE ReadByName
  BY <1>15 DEF ReadByName, Return
<1>16. CASE DigestEntry
  BY <1>16 DEF DigestEntry, Return
<1>17. CASE StartTest
  <2>1. CASE phase' = "test"
    <3>1. /\ reader \in DOMAIN files /\ todo' = Order(reader)
          /\ backend = "sevenz" => IsCensus(files[reader])
      BY <1>17, <2>1 DEF StartTest, WorldInv, PhasesOK, Files, Return
    <3>2. Order(reader) \in Seq(DOMAIN files[reader].recs)
      BY <3>1, OrderLists
    <3>. QED
      BY <1>17, <2>1, <3>1, <3>2 DEF StartTest, Return
  <2>2. CASE phase' # "test"
    BY <1>17, <2>2 DEF StartTest, Return
  <2>. QED
    BY <2>1, <2>2
<1>18. CASE SkipEntry
  BY <1>18, <1>42 DEF SkipEntry, NextEntry, Testing
<1>19. CASE ReadUnits
  BY <1>19 DEF ReadUnits, Testing
<1>20. CASE StopLong
  BY <1>20, <1>42 DEF StopLong, Abort, Testing
<1>21. CASE EndEntry
  BY <1>21, <1>42 DEF EndEntry, Read, Testing, NextEntry
<1>22. CASE StopOperational
  BY <1>22 DEF StopOperational, Read, Testing, Abort
<1>23. CASE EntryFails
  BY <1>23, <1>42 DEF EntryFails, Read, Testing, NextEntry
<1>24. CASE drain_to_realign
  BY <1>24 DEF drain_to_realign
<1>25. CASE DrainEnds
  BY <1>25, <1>42 DEF DrainEnds, Abort, NextEntry
<1>26. CASE WalkCut
  BY <1>26 DEF WalkCut, Testing, Return
<1>27. CASE EndTest
  BY <1>27 DEF EndTest, Return
<1>. QED
  BY <1>1, <1>2, <1>3, <1>4, <1>5, <1>6, <1>7, <1>8, <1>9, <1>10, <1>11,
     <1>12, <1>13, <1>14, <1>15, <1>16, <1>17, <1>18, <1>19, <1>20, <1>21,
     <1>22, <1>23, <1>24, <1>25, <1>26, <1>27 DEF Next, Handle

\* The handle and its calls keep to one file, at every step.
LEMMA BindStep == BindInv /\ [Next]_vars => BindInv'
<1> SUFFICES ASSUME BindInv, [Next]_vars PROVE BindInv'
  OBVIOUS
<1>1. UNCHANGED <<backend, files>> /\ WorldInv
  BY FilesStay DEF BindInv
<1>2. WorldInv'
  BY <1>1 DEF WorldInv
<1>3. TypeOK'
  BY MemosStep, PhasesStep, WalkStep DEF TypeOK
<1>. QED
  BY <1>2, <1>3, BoundStep, BracketStep, TodoStep DEF BindInv

\* Of any files at the path, a handle keeps and reads one: the first that
\* could be parsed.
THEOREM HandleSafe == Spec => []HandleInv
<1>1. BindInv => HandleInv
  BY DEF BindInv, HandleInv
<1>. QED
  BY <1>1, BindInit, BindStep, PTL DEF Spec
-----------------------------------------------------------------------------
(* AnswersExact.                                                           *)

\* Before its walk a call has no verdicts, and no digests before its gate.
QuietInv ==
    /\ phase \in {"unopened", "idle", "open", "opening", "opened", "list",
                  "listed", "use"} =>
         failed = {} /\ tested = {} /\ got = 0 /\ ~lost
    /\ (\/ phase \in {"unopened", "idle", "list", "listed"}
        \/ phase \in {"open", "opening", "opened"} /\ listing = 0) =>
         resolved = {}

Uncollapsed == raw_directory # 0 /\ ~is_collapsed(files[raw_directory])

\* A call about every entry goes past the gate only when the scan has found
\* a record for each.
GateInv ==
    zip =>
      /\ (/\ listing # 0 /\ call.op \in {"test", "digest"}
          /\ phase \in {"open", "use", "test", "drain"}) => Uncollapsed
      /\ resolved # {} => Uncollapsed
      /\ (phase = "done" /\ call.op = "test" /\ result = "ok") => Uncollapsed

\* In the middle of a test: what is tested and what is left are all there
\* is, the verdicts so far are exact, the cursor is where it should be.
WalkInv ==
    phase \in {"test", "drain"} =>
      /\ call.op = "test" /\ ~lost
      /\ FileRecs(reader) =
           tested \union {k \in Range(todo) :
                            files[reader].recs[k].kind = "file"}
      /\ failed = {k \in tested : ~Sound(files[reader].recs[k])}
      /\ (phase = "test" /\ todo # << >> /\ This.then # "endless") =>
           got <= This.makes
      /\ phase = "drain" =>
           This.kind = "file" /\ ~Sound(This) /\ got <= This.rest

\* What a digest makes of an id of the listing.
Resolution(id) == [id |-> id, file |-> listing, rec |-> View(listing)[id]]

\* In the middle of a digest: what is resolved and what is left are all that
\* it needs.
DigestInv ==
    (/\ call.op = "digest" /\ listing # 0
     /\ phase \in {"open", "opening", "opened", "use"}) =>
       {Resolution(id) : id \in Needs(listing)} =
         resolved \union {Resolution(id) : id \in Range(todo)}

AnswerInv ==
    BindInv /\ QuietInv /\ GateInv /\ WalkInv /\ DigestInv /\ VerdictsExact
            /\ DigestOfOneFile


\* A directory that is not collapsed has a listed entry for every record.
LEMMA NothingCollapsed ==
  ASSUME NEW a, NEW b, IsFile(a, b), ~is_collapsed(a)
  PROVE  Range(Crate(a)) = DOMAIN a.recs
<1> DEFINE Same(i) == {j \in 1..a.toc : a.recs[j].name = a.recs[i].name}
           Firsts == {i \in 1..a.toc : i = Min(Same(i))}
           order == Ascending(Firsts)
<1>1. /\ Len(a.recs) \in Nat /\ DOMAIN a.recs = 1..Len(a.recs)
      /\ a.toc \in 0..Len(a.recs)
  BY DEF IsFile
<1>2. Repeated(a) = {}
  <2>1. duplicate_names(a) = {}
    BY DEF is_collapsed
  <2>2. ASSUME NEW raw \in Repeated(a) PROVE FALSE
    <3>1. ListedFor(a, raw) # {}
      BY DEF Repeated
    <3>. QED
      BY <2>1, <3>1 DEF duplicate_names
  <2>. QED
    BY <2>2
<1>3. Attributed(a) = 0
  BY <1>2, SumEmpty DEF Attributed
<1>4. /\ IsFiniteSet(Firsts) /\ Firsts \in SUBSET Nat
      /\ Firsts \subseteq 1..a.toc
  <2>1. IsFiniteSet(1..a.toc) /\ Firsts \in SUBSET (1..a.toc)
    BY <1>1, FS_Interval
  <2> HIDE DEF Firsts
  <2>2. IsFiniteSet(Firsts)
    BY <2>1, FS_Subset
  <2>. QED
    BY <1>1, <2>1, <2>2
<1>5. /\ Cardinality(Firsts) \in Nat
      /\ order \in [1..Cardinality(Firsts) -> Firsts]
      /\ Range(order) = Firsts
  BY <1>4, AscendingLists
<1>6. Crate(a) = [k \in DOMAIN order |-> Max(Same(order[k]))]
  BY DEF Crate
<1>7. Len(Crate(a)) = Cardinality(Firsts)
  BY <1>5, <1>6
<1>8. Len(a.recs) <= Cardinality(Firsts)
  <2>1. ~any_undetected(a)
    BY DEF is_collapsed
  <2> DEFINE n == Cardinality(Firsts)
             d == Len(a.recs) - n
  <2>2. n \in Nat /\ Len(a.recs) \in Nat /\ d \in Int
    BY <1>1, <1>5
  <2>3. ~(0 < Max({0, d}))
    BY <1>3, <1>7, <2>1 DEF any_undetected
  <2>4. Max({0, d}) = IF 0 >= d THEN 0 ELSE d
    <3> HIDE DEF d
    <3>. QED
      BY <2>2, MaxOfTwo
  <2>5. d <= 0
    <3> HIDE DEF d
    <3>. QED
      BY <2>2, <2>3, <2>4
  <2> HIDE DEF n
  <2>. QED
    BY <2>2, <2>5 DEF n
<1>9. Firsts = DOMAIN a.recs
  <2>1. IsFiniteSet(DOMAIN a.recs) /\ Cardinality(DOMAIN a.recs) = Len(a.recs)
    <3> HIDE DEF Firsts
    <3>1. ASSUME NEW n \in Nat
          PROVE  IsFiniteSet(1..n) /\ Cardinality(1..n) = n
      BY FS_Interval
    <3>. QED
      BY <1>1, <3>1
  <2>2. Firsts \in SUBSET (DOMAIN a.recs)
    BY <1>1, <1>4
  <2> HIDE DEF Firsts
  <2>. QED
    BY <1>1, <1>5, <1>8, <2>1, <2>2, FS_Subset
<1>10. a.toc = Len(a.recs)
  <2>1. CASE Len(a.recs) = 0
    BY <1>1, <2>1
  <2>2. CASE Len(a.recs) # 0
    <3>1. Len(a.recs) \in Firsts
      <4> HIDE DEF Firsts
      <4>. QED
        BY <1>1, <1>9, <2>2
    <3>. QED
      BY <1>1, <1>4, <3>1
  <2>. QED
    BY <2>1, <2>2
<1>11. ASSUME NEW i \in DOMAIN a.recs PROVE Same(i) = {i}
  <2>1. ASSUME NEW j \in Same(i) PROVE j = i
    <3>1. Same(j) = Same(i)
      OBVIOUS
    <3>2. i \in Firsts /\ j \in Firsts
      BY <1>1, <1>9, <1>10
    <3>. QED
      BY <3>1, <3>2
  <2>2. i \in Same(i)
    BY <1>1, <1>10
  <2>. QED
    BY <2>1, <2>2
<1>12. \A k \in DOMAIN order : Max(Same(order[k])) = order[k]
  <2>1. ASSUME NEW i \in DOMAIN a.recs PROVE Max({i}) = i
    BY <1>1 DEF Max
  <2> HIDE DEF Same, order
  <2>. QED
    BY <1>5, <1>9, <1>11, <2>1
<1>13. Crate(a) = order
  <2> DEFINE newest(k) == Max(Same(order[k]))
  <2>1. Crate(a) = [k \in DOMAIN order |-> newest(k)]
    BY <1>6
  <2>2. order = [k \in DOMAIN order |-> order[k]]
    BY <1>5
  <2>3. \A k \in DOMAIN order : newest(k) = order[k]
    BY <1>12
  <2> HIDE DEF last, order
  <2>. QED
    BY <2>1, <2>2, <2>3
<1>. QED
  BY <1>5, <1>9, <1>13

\* The first call finds nothing.
LEMMA AnswerInit == Init => AnswerInv
<1> SUFFICES ASSUME Init PROVE AnswerInv
  OBVIOUS
<1>1. BindInv
  BY BindInit
<1>2. phase \in {"unopened", "idle"} /\ call.op = "none"
  BY DEF Init, NoCall
<1>3. QuietInv
  BY DEF Init, QuietInv
<1>4. GateInv /\ WalkInv /\ DigestInv /\ VerdictsExact /\ DigestOfOneFile
  BY <1>2 DEF Init, GateInv, WalkInv, DigestInv, VerdictsExact,
              DigestOfOneFile
<1>. QED
  BY <1>1, <1>3, <1>4 DEF AnswerInv

\* The calls before leave nothing to this one.
LEMMA QuietStep == AnswerInv /\ [Next]_vars => QuietInv'
<1> SUFFICES ASSUME AnswerInv, [Next]_vars PROVE QuietInv'
  OBVIOUS
<1>40. UNCHANGED <<backend, files>>
  BY FilesStay
<1>41. /\ WorldInv /\ MemosOK /\ PhasesOK /\ BoundToOneFile /\ BracketInv
       /\ TodoInv /\ QuietInv /\ GateInv /\ WalkInv /\ DigestInv
       /\ VerdictsExact /\ DigestOfOneFile
  BY DEF AnswerInv, BindInv, TypeOK
<1> USE <1>40, <1>41 DEF QuietInv, memos, walk, world
<1>1. CASE UNCHANGED vars
  BY <1>1 DEF vars
<1>2. CASE Call
  BY <1>2 DEF Call
<1>3. CASE Replace
  BY <1>3 DEF Replace
<1>4. CASE open_zip_bound
  BY <1>4 DEF open_zip_bound, WantsZip, BoundTo, Absent
<1>5. CASE with_zip
  BY <1>5 DEF with_zip, Opened
<1>6. CASE CaptureIdentity
  BY <1>6 DEF CaptureIdentity
<1>7. CASE StatBefore
  BY <1>7 DEF StatBefore, check_identity, Return
<1>8. CASE OpenNative
  BY <1>8 DEF OpenNative, OpenFails, Return, Opens, BracketInv, BoundToOneFile,
     PhasesOK
<1>9. CASE StatAfter
  BY <1>9 DEF StatAfter, OpenFails, Revalidated, Opened, Return, Opens,
              BracketInv, BoundToOneFile
<1>10. CASE ReadListing
  BY <1>10 DEF ReadListing, Return
<1>11. CASE scan_raw_central_directory
  BY <1>11 DEF scan_raw_central_directory, Scans
<1>12. CASE ScanFails
  BY <1>12, BoundAssumption DEF ScanFails, Scans
<1>13. CASE RebuildFails
  BY <1>13, BoundAssumption DEF RebuildFails, Scans
<1>14. CASE Gate
  BY <1>14 DEF Gate, Guarded, Return
<1>15. CASE ReadByName
  BY <1>15 DEF ReadByName, Return
<1>16. CASE DigestEntry
  BY <1>16 DEF DigestEntry, Return, PhasesOK
<1>17. CASE StartTest
  BY <1>17 DEF StartTest, Return
<1>18. CASE SkipEntry
  BY <1>18 DEF SkipEntry, NextEntry, Testing
<1>19. CASE ReadUnits
  BY <1>19 DEF ReadUnits, Testing
<1>20. CASE StopLong
  BY <1>20 DEF StopLong, Abort, Testing
<1>21. CASE EndEntry
  BY <1>21 DEF EndEntry, Read, Testing, NextEntry
<1>22. CASE StopOperational
  BY <1>22 DEF StopOperational, Read, Testing, Abort
<1>23. CASE EntryFails
  BY <1>23 DEF EntryFails, Read, Testing, NextEntry
<1>24. CASE drain_to_realign
  BY <1>24 DEF drain_to_realign
<1>25. CASE DrainEnds
  BY <1>25 DEF DrainEnds, Abort, NextEntry
<1>26. CASE WalkCut
  BY <1>26 DEF WalkCut, Testing, Return
<1>27. CASE EndTest
  BY <1>27 DEF EndTest, Return
<1>. QED
  BY <1>1, <1>2, <1>3, <1>4, <1>5, <1>6, <1>7, <1>8, <1>9, <1>10, <1>11,
     <1>12, <1>13, <1>14, <1>15, <1>16, <1>17, <1>18, <1>19, <1>20, <1>21,
     <1>22, <1>23, <1>24, <1>25, <1>26, <1>27 DEF Next, Handle

\* Past the gate, the directory is not collapsed.
LEMMA GateStep == AnswerInv /\ [Next]_vars => GateInv'
<1> SUFFICES ASSUME AnswerInv, [Next]_vars PROVE GateInv'
  OBVIOUS
<1>40. UNCHANGED <<backend, files>>
  BY FilesStay
<1>41. /\ WorldInv /\ MemosOK /\ PhasesOK /\ BoundToOneFile /\ BracketInv
       /\ TodoInv /\ QuietInv /\ GateInv /\ WalkInv /\ DigestInv
       /\ VerdictsExact /\ DigestOfOneFile
  BY DEF AnswerInv, BindInv, TypeOK
<1> USE <1>40, <1>41 DEF GateInv, Uncollapsed, memos, walk, world, zip
<1>1. CASE UNCHANGED vars
  BY <1>1 DEF vars
<1>2. CASE Call
  BY <1>2 DEF Call
<1>3. CASE Replace
  BY <1>3 DEF Replace
<1>4. CASE open_zip_bound
  BY <1>4 DEF open_zip_bound, WantsZip
<1>5. CASE with_zip
  BY <1>5 DEF with_zip, Opened
<1>6. CASE CaptureIdentity
  BY <1>6 DEF CaptureIdentity
<1>7. CASE StatBefore
  BY <1>7 DEF StatBefore, check_identity, Return
<1>8. CASE OpenNative
  BY <1>8 DEF OpenNative, OpenFails, Return
<1>9. CASE StatAfter
  BY <1>9 DEF StatAfter, OpenFails, Revalidated, check_identity, Opened,
              Return, BracketInv
<1>10. CASE ReadListing
  BY <1>10 DEF ReadListing, Return
<1>11. CASE scan_raw_central_directory
  BY <1>11 DEF scan_raw_central_directory, Scans
<1>12. CASE ScanFails
  BY <1>12, BoundAssumption DEF ScanFails, Scans
<1>13. CASE RebuildFails
  BY <1>13, BoundAssumption DEF RebuildFails, Scans
<1>14. CASE Gate
  <2>1. zip => raw_directory # 0
    BY <1>14 DEF Gate, Guarded
  <2>2. zip /\ call.op = "test" => ~is_collapsed(Raw) \/ Return("err")
    BY <1>14 DEF Gate, Refused, Answered
  <2>3. zip /\ call.op = "digest" /\ phase' = "open" => ~is_collapsed(Raw)
    BY <1>14 DEF Gate, Refused, Answered, Return
  <2>. QED
    BY <1>14, <2>1, <2>2, <2>3 DEF Gate, Return, Raw, Answered
<1>15. CASE ReadByName
  BY <1>15 DEF ReadByName, Return
<1>16. CASE DigestEntry
  BY <1>16 DEF DigestEntry, Return, PhasesOK
<1>17. CASE StartTest
  BY <1>17 DEF StartTest, Return
<1>18. CASE SkipEntry
  BY <1>18 DEF SkipEntry, NextEntry, Testing
<1>19. CASE ReadUnits
  BY <1>19 DEF ReadUnits, Testing
<1>20. CASE StopLong
  BY <1>20 DEF StopLong, Abort, Testing
<1>21. CASE EndEntry
  BY <1>21 DEF EndEntry, Read, Testing, NextEntry
<1>22. CASE StopOperational
  BY <1>22 DEF StopOperational, Read, Testing, Abort
<1>23. CASE EntryFails
  BY <1>23 DEF EntryFails, Read, Testing, NextEntry
<1>24. CASE drain_to_realign
  BY <1>24, <1>41 DEF drain_to_realign
<1>25. CASE DrainEnds
  BY <1>25 DEF DrainEnds, Abort, NextEntry
<1>26. CASE WalkCut
  BY <1>26 DEF WalkCut, Testing, Return
<1>27. CASE EndTest
  BY <1>27 DEF EndTest, Return, PhasesOK
<1>. QED
  BY <1>1, <1>2, <1>3, <1>4, <1>5, <1>6, <1>7, <1>8, <1>9, <1>10, <1>11,
     <1>12, <1>13, <1>14, <1>15, <1>16, <1>17, <1>18, <1>19, <1>20, <1>21,
     <1>22, <1>23, <1>24, <1>25, <1>26, <1>27 DEF Next, Handle

\* From one entry of the walk to the next, this one marked when it is bad.
LEMMA WalkOn ==
  ASSUME BindInv, WalkInv, phase \in {"test", "drain"}, todo # << >>,
         UNCHANGED <<backend, files, call, reader>>,
         phase' = "test", todo' = Tail(todo), got' = 0, ~lost',
         tested' = IF This.kind = "file" THEN tested \union {Head(todo)}
                   ELSE tested,
         failed' = IF This.kind = "file" /\ ~Sound(This)
                   THEN failed \union {Head(todo)} ELSE failed
  PROVE  WalkInv'
<1> DEFINE recs == files[reader].recs
           FilesOf(s) == {k \in Range(s) : recs[k].kind = "file"}
<1>1. /\ reader \in DOMAIN files /\ IsFile(files[reader], backend)
      /\ todo \in Seq(DOMAIN recs) /\ Tail(todo) \in Seq(DOMAIN recs)
  BY ThisEntry DEF BindInv, TodoInv, WorldInv
<1>2. Range(todo) = {Head(todo)} \union Range(Tail(todo))
  BY <1>1, HeadAndTail
<1>3. FilesOf(todo) = FilesOf(Tail(todo)) \union
                        (IF This.kind = "file" THEN {Head(todo)} ELSE {})
  BY <1>2 DEF This
<1>4. FileRecs(reader)' = FileRecs(reader)
  BY DEF FileRecs, Order, View, zip
<1>5. FileRecs(reader) = tested' \union FilesOf(Tail(todo))
  BY <1>3 DEF WalkInv
<1>6. failed' = {k \in tested' : ~Sound(recs[k])}
  BY DEF WalkInv, This
<1>7. Tail(todo) # << >> => recs[Head(Tail(todo))].makes \in Nat
  <2>1. Tail(todo) # << >> => Head(Tail(todo)) \in DOMAIN recs
    BY <1>1, HeadTailProperties
  <2>. QED
    BY <1>1, <2>1 DEF IsFile, IsEntry
<1>8. call'.op = "test"
  BY DEF WalkInv
<1>. QED
  BY <1>4, <1>5, <1>6, <1>7, <1>8 DEF WalkInv, This

\* The walk is exact from entry to entry.
LEMMA WalkInvStep == AnswerInv /\ [Next]_vars => WalkInv'
<1> SUFFICES ASSUME AnswerInv, [Next]_vars PROVE WalkInv'
  OBVIOUS
<1>40. UNCHANGED <<backend, files>>
  BY FilesStay
<1>41. /\ WorldInv /\ MemosOK /\ PhasesOK /\ BoundToOneFile /\ BracketInv
       /\ TodoInv /\ QuietInv /\ GateInv /\ WalkInv /\ DigestInv
       /\ VerdictsExact /\ DigestOfOneFile
  BY DEF AnswerInv, BindInv, TypeOK
<1>42. phase \in {"test", "drain"} =>
          /\ ~Garbled /\ then = This.then /\ makes = This.makes
          /\ Rest = This.rest /\ last = This.last
  BY <1>41 DEF WalkInv, Garbled, then, makes, Rest, last
<1>43. BindInv /\ WalkInv
  BY DEF AnswerInv
<1>44. phase \in {"test", "drain"} /\ todo # << >> =>
          /\ IsEntry(This, backend)
          /\ Declared \in Nat /\ \A d \in This.declared : d = Declared
  BY <1>43, ThisEntry
<1> USE DEF memos, world
<1>1. CASE UNCHANGED vars
  <2>1. UNCHANGED <<call, phase, reader, walk>>
    BY <1>1 DEF Replace, vars
  <2>2. FileRecs(reader)' = FileRecs(reader)
    BY <1>40, <2>1 DEF FileRecs, Order, View, zip
  <2>. QED
    BY <1>40, <1>41, <2>1, <2>2 DEF WalkInv, walk, This, Sound
<1>2. CASE Call
  BY <1>2 DEF Call, WalkInv
<1>3. CASE Replace
  <2>1. UNCHANGED <<call, phase, reader, walk>>
    BY <1>3 DEF Replace, vars
  <2>2. FileRecs(reader)' = FileRecs(reader)
    BY <1>40, <2>1 DEF FileRecs, Order, View, zip
  <2>. QED
    BY <1>40, <1>41, <2>1, <2>2 DEF WalkInv, walk, This, Sound
<1>4. CASE open_zip_bound
  BY <1>4 DEF open_zip_bound, WantsZip, WalkInv
<1>5. CASE with_zip
  BY <1>5 DEF with_zip, Opened, WalkInv
<1>6. CASE CaptureIdentity
  BY <1>6 DEF CaptureIdentity, WalkInv
<1>7. CASE StatBefore
  BY <1>7 DEF StatBefore, check_identity, Return, WalkInv
<1>8. CASE OpenNative
  BY <1>8 DEF OpenNative, OpenFails, Return, WalkInv
<1>9. CASE StatAfter
  BY <1>9 DEF StatAfter, OpenFails, Revalidated, check_identity, Opened,
        Return, WalkInv
<1>10. CASE ReadListing
  BY <1>10 DEF ReadListing, Return, WalkInv
<1>11. CASE scan_raw_central_directory
  BY <1>11 DEF scan_raw_central_directory, Scans, WalkInv
<1>12. CASE ScanFails
  BY <1>12, BoundAssumption DEF ScanFails, Scans, WalkInv
<1>13. CASE RebuildFails
  BY <1>13, BoundAssumption DEF RebuildFails, Scans, WalkInv
<1>14. CASE Gate
  BY <1>14 DEF Gate, Guarded, Return, WalkInv
<1>15. CASE ReadByName
  BY <1>15 DEF ReadByName, Return, WalkInv
<1>16. CASE DigestEntry
  BY <1>16 DEF DigestEntry, Return, WalkInv
<1>17. CASE StartTest
  <2>1. CASE phase' = "test"
    <3>1. /\ reader \in DOMAIN files /\ todo' = Order(reader)
          /\ backend = "sevenz" => IsCensus(files[reader])
          /\ UNCHANGED <<call, reader, got, lost, failed, tested>>
          /\ call.op = "test" /\ failed = {} /\ tested = {} /\ got = 0 /\ ~lost
      BY <1>17, <1>41, <2>1 DEF StartTest, WorldInv, PhasesOK, MemosOK, Files,
                                Return, QuietInv, walk
    <3>2. Order(reader) \in Seq(DOMAIN files[reader].recs)
      BY <1>41, <3>1, OrderLists
    <3>3. todo' # << >> => files[reader].recs[Head(todo')].makes \in Nat
      <4>1. todo' # << >> => Head(todo') \in DOMAIN files[reader].recs
        BY <3>1, <3>2, HeadTailProperties
      <4>2. IsFile(files[reader], backend)
        BY <1>41, <3>1 DEF WorldInv
      <4>. QED
        BY <4>1, <4>2 DEF IsFile, IsEntry
    <3>4. FileRecs(reader)' = {k \in Range(todo') :
                                files[reader].recs[k].kind = "file"}
      <4>1. FileRecs(reader)' = FileRecs(reader)
        BY <1>40, <3>1 DEF FileRecs, Order, View, zip
      <4>. QED
        BY <3>1, <4>1 DEF FileRecs
    <3>. QED
      BY <1>40, <2>1, <3>1, <3>3, <3>4 DEF WalkInv, This
  <2>2. CASE phase' # "test"
    BY <1>17, <2>2 DEF StartTest, Return, WalkInv
  <2>. QED
    BY <2>1, <2>2
<1>18. CASE SkipEntry
  <2>1. Testing /\ This.kind # "file" /\ NextEntry(FALSE, FALSE)
    BY <1>18 DEF SkipEntry
  <2>. QED
    BY <1>40, <1>42, <1>43, <2>1, WalkOn DEF NextEntry, Testing
<1>19. CASE ReadUnits
  <2>1. /\ Testing /\ UNCHANGED <<call, phase, reader, todo, lost, failed, tested>>
    BY <1>19 DEF ReadUnits
  <2>2. then # "endless" /\ got <= makes => got' <= makes
    BY <1>19, <1>43, UnitsRead
  <2>3. FileRecs(reader)' = FileRecs(reader)
    BY <1>40, <2>1 DEF FileRecs, Order, View, zip
  <2>. QED
    BY <1>40, <1>41, <1>42, <2>1, <2>2, <2>3 DEF WalkInv, Testing, This
<1>20. CASE StopLong
  BY <1>20 DEF StopLong, Abort, Testing, WalkInv
<1>21. CASE EndEntry
  <2>1. /\ Read /\ then = "eof" /\ NextEntry(Short, FALSE)
    BY <1>21 DEF EndEntry
  <2>2. Testing /\ This.kind = "file" /\ got = This.makes
    BY <1>42, <2>1 DEF Read, Testing
  <2>3. Short <=> ~Sound(This)
    BY <1>42, <1>44, <2>1, <2>2 DEF Short, Sound, Testing
  <2>4. failed' = IF Short THEN failed \union {Head(todo)} ELSE failed
    BY <2>1 DEF NextEntry
  <2>. QED
    BY <1>40, <1>42, <1>43, <2>1, <2>2, <2>3, <2>4, WalkOn
       DEF NextEntry, Testing
<1>22. CASE StopOperational
  BY <1>22 DEF StopOperational, Read, Testing, Abort, WalkInv
<1>23. CASE EntryFails
  <2>1. /\ Testing /\ This.kind = "file" /\ got = makes /\ ~Sound(This)
        /\ makes \in Nat
    BY <1>23, <1>42, <1>44 DEF EntryFails, Read, Sound, Testing, IsEntry
  <2>2. CASE zip
    <3>1. NextEntry(TRUE, FALSE)
      BY Zenon, <1>23, <2>2 DEF EntryFails
    <3>. QED
      BY <1>40, <1>42, <1>43, <2>1, <3>1, WalkOn DEF NextEntry, Testing
  <2>3. CASE ~zip
    <3>1. /\ phase' = "drain" /\ got' = 0
          /\ UNCHANGED <<call, reader, todo, lost, failed, tested>>
      BY Zenon, <1>23, <2>3 DEF EntryFails
    <3>2. FileRecs(reader)' = FileRecs(reader)
      BY <1>40, <3>1 DEF FileRecs, Order, View, zip
    <3>3. This' = This /\ 0 <= This.rest
      BY <1>40, <1>44, <2>1, <3>1 DEF This, Testing, IsEntry
    <3>4. (~Sound(This))' /\ This'.kind = "file"
      BY <2>1, <3>3 DEF Sound
    <3>. QED
      BY <1>40, <1>41, <2>1, <3>1, <3>2, <3>3, <3>4 DEF WalkInv, Testing
  <2>. QED
    BY <2>2, <2>3
<1>24. CASE drain_to_realign
  <2>1. /\ phase = "drain"
        /\ UNCHANGED <<call, phase, reader, todo, lost, failed, tested>>
    BY <1>24 DEF drain_to_realign
  <2>2. got' <= Rest
    BY <1>24, <1>43, UnitsDrained
  <2>3. FileRecs(reader)' = FileRecs(reader)
    BY <1>40, <2>1 DEF FileRecs, Order, View, zip
  <2>4. This' = This
    BY <1>40, <2>1 DEF This
  <2>5. (~Sound(This))' <=> ~Sound(This)
    BY <2>4 DEF Sound
  <2>. QED
    BY <1>40, <1>41, <1>42, <2>1, <2>2, <2>3, <2>4, <2>5 DEF WalkInv
<1>25. CASE DrainEnds
  <2>1. phase = "drain" /\ todo # << >>
    BY <1>25, <1>41 DEF DrainEnds, TodoInv
  <2>2. /\ This.kind = "file" /\ ~Sound(This) /\ got <= Rest
        /\ got \in Nat /\ left \in Nat /\ Rest \in Nat
    BY <1>41, <1>42, <1>43, <1>44, <2>1 DEF WalkInv, BindInv, TypeOK, WalkOK,
                                           IsEntry
  <2>3. CASE LosesCursor
    BY <1>25, <2>3 DEF DrainEnds, Abort, WalkInv
  <2>4. CASE ~LosesCursor
    <3>1. NextEntry(TRUE, Rest > got \/ last = "fails")
      BY <1>25, <2>4 DEF DrainEnds
    <3>2. got = Rest /\ last # "fails"
      <4>1. got = Rest \/ (backend = "sevenz" /\ got = left)
        BY Zenon, <1>25, <2>4 DEF DrainEnds
      <4>. QED
        BY <2>2, <2>4, <4>1 DEF LosesCursor
    <3>3. ~(Rest > got \/ last = "fails")
      BY <2>2, <3>2
    <3>4. ~lost'
      BY <1>42, <2>1, <3>1, <3>3 DEF NextEntry
    <3>. QED
      BY <1>40, <1>43, <2>1, <2>2, <3>1, <3>4, WalkOn DEF NextEntry
  <2>. QED
    BY <2>3, <2>4
<1>26. CASE WalkCut
  BY <1>26 DEF WalkCut, Testing, Return, WalkInv
<1>27. CASE EndTest
  BY <1>27 DEF EndTest, Return, WalkInv
<1>. QED
  BY <1>1, <1>2, <1>3, <1>4, <1>5, <1>6, <1>7, <1>8, <1>9, <1>10, <1>11,
     <1>12, <1>13, <1>14, <1>15, <1>16, <1>17, <1>18, <1>19, <1>20, <1>21,
     <1>22, <1>23, <1>24, <1>25, <1>26, <1>27 DEF Next, Handle

\* Nothing of a digest is lost between its readers.
LEMMA DigestStep == AnswerInv /\ [Next]_vars => DigestInv'
<1> SUFFICES ASSUME AnswerInv, [Next]_vars PROVE DigestInv'
  OBVIOUS
<1>40. UNCHANGED <<backend, files>>
  BY FilesStay
<1>41. /\ WorldInv /\ MemosOK /\ PhasesOK /\ BoundToOneFile /\ BracketInv
       /\ TodoInv /\ QuietInv /\ GateInv /\ WalkInv /\ DigestInv
       /\ VerdictsExact /\ DigestOfOneFile
  BY DEF AnswerInv, BindInv, TypeOK
<1>42. View(listing)' = View(listing) \/ listing' # listing
  BY <1>40 DEF View, zip
<1>43. Needs(listing)' = Needs(listing) \/ listing' # listing
  BY <1>40 DEF Needs, Entry, View, zip
<1> USE <1>40, <1>41 DEF DigestInv, Resolution, memos, walk, world
<1>1. CASE UNCHANGED vars
  BY <1>1, <1>42, <1>43 DEF vars
<1>2. CASE Call
  BY <1>2, <1>42, <1>43 DEF Call
<1>3. CASE Replace
  BY <1>3, <1>42, <1>43 DEF Replace
<1>4. CASE open_zip_bound
  BY <1>4, <1>42, <1>43 DEF open_zip_bound, WantsZip, BoundTo, Absent
<1>5. CASE with_zip
  BY <1>5, <1>42, <1>43 DEF with_zip, Opened
<1>6. CASE CaptureIdentity
  BY <1>6 DEF CaptureIdentity, BracketInv, Opens, NoCall
<1>7. CASE StatBefore
  BY <1>7, <1>42, <1>43 DEF StatBefore, check_identity, Return
<1>8. CASE OpenNative
  BY <1>8, <1>42, <1>43 DEF OpenNative, OpenFails, Return
<1>9. CASE StatAfter
  BY <1>9, <1>42, <1>43 DEF StatAfter, OpenFails, Revalidated, check_identity,
     Opened, Return
<1>10. CASE ReadListing
  BY <1>10, <1>42, <1>43 DEF ReadListing, Return
<1>11. CASE scan_raw_central_directory
  BY <1>11, <1>42, <1>43 DEF scan_raw_central_directory, Scans
<1>12. CASE ScanFails
  BY <1>12, <1>42, <1>43 DEF ScanFails, Scans
<1>13. CASE RebuildFails
  BY <1>13, <1>42, <1>43 DEF RebuildFails, Scans
<1>14. CASE Gate
  <2>1. CASE phase' = "open"
    <3>1. /\ todo' = IF call.op = "digest"
                       THEN Ascending(Needs(listing)) ELSE <<>>
          /\ UNCHANGED <<listing, call, resolved>>
      BY <1>14, <2>1 DEF Gate, Return, memos
    <3>2. listing \in DOMAIN files /\ resolved = {}
      BY <1>14 DEF Gate, Guarded, PhasesOK, MemosOK, Files, WorldInv, QuietInv
    <3>3. call.op = "digest" => Range(todo') = Needs(listing)
      BY <1>41, <3>1, <3>2, NeedsList
    <3>. QED
      BY <1>42, <1>43, <3>1, <3>2, <3>3 DEF Resolution
  <2>2. CASE phase' # "open"
    BY <1>14, <2>2 DEF Gate, Return
  <2>. QED
    BY <2>1, <2>2
<1>15. CASE ReadByName
  BY <1>15, <1>42, <1>43 DEF ReadByName, Return
<1>16. CASE DigestEntry
  <2>1. CASE phase' = "done"
    BY <2>1
  <2>2. CASE phase' # "done"
    <3>1. /\ resolved' = resolved \union
               {[id |-> Head(todo), file |-> reader,
                 rec |-> View(reader)[Head(todo)]]}
          /\ todo' = Tail(todo) /\ phase = "use" /\ call.op = "digest"
          /\ UNCHANGED <<listing, call>>
      BY <1>16, <2>2 DEF DigestEntry, Return
    <3>2. reader = listing
      BY <3>1 DEF PhasesOK, BoundToOneFile
    <3>3. todo # << >> /\ todo \in Seq(Nat)
      BY <3>1 DEF TodoInv, PhasesOK, AnswerInv, BindInv, TypeOK, WalkOK
    <3>4. Range(todo) = {Head(todo)} \union Range(Tail(todo))
      BY <3>3, HeadAndTail
    <3>5. resolved' = resolved \union {Resolution(Head(todo))}
      BY <3>1, <3>2 DEF Resolution
    <3>6. {Resolution(id) : id \in Needs(listing)} =
             resolved' \union {Resolution(id) : id \in Range(Tail(todo))}
      BY <3>1, <3>4, <3>5 DEF PhasesOK
    <3>7. /\ View(listing)' = View(listing) /\ Needs(listing)' = Needs(listing)
          /\ listing' = listing /\ todo' = Tail(todo)
      BY <1>42, <1>43, <3>1
    <3>. QED
      BY <3>6, <3>7
  <2>. QED
    BY <2>1, <2>2
<1>17. CASE StartTest
  BY <1>17 DEF StartTest, Return
<1>18. CASE SkipEntry
  BY <1>18, <1>42, <1>43 DEF SkipEntry, NextEntry, Testing
<1>19. CASE ReadUnits
  BY <1>19, <1>42, <1>43 DEF ReadUnits, Testing
<1>20. CASE StopLong
  BY <1>20, <1>42, <1>43 DEF StopLong, Abort, Testing
<1>21. CASE EndEntry
  BY <1>21, <1>42, <1>43 DEF EndEntry, Read, Testing, NextEntry
<1>22. CASE StopOperational
  BY <1>22, <1>42, <1>43 DEF StopOperational, Read, Testing, Abort
<1>23. CASE EntryFails
  BY <1>23, <1>42, <1>43 DEF EntryFails, Read, Testing, NextEntry
<1>24. CASE drain_to_realign
  BY <1>24, <1>42, <1>43 DEF drain_to_realign
<1>25. CASE DrainEnds
  BY <1>25, <1>42, <1>43 DEF DrainEnds, Abort, NextEntry
<1>26. CASE WalkCut
  BY <1>26, <1>42, <1>43 DEF WalkCut, Testing, Return
<1>27. CASE EndTest
  BY <1>27, <1>42, <1>43 DEF EndTest, Return
<1>. QED
  BY <1>1, <1>2, <1>3, <1>4, <1>5, <1>6, <1>7, <1>8, <1>9, <1>10, <1>11,
     <1>12, <1>13, <1>14, <1>15, <1>16, <1>17, <1>18, <1>19, <1>20, <1>21,
     <1>22, <1>23, <1>24, <1>25, <1>26, <1>27 DEF Next, Handle

\* A test that answers is exact, and one that gives up blames no sound
\* entry.
LEMMA VerdictsStep == AnswerInv /\ [Next]_vars => VerdictsExact'
<1> SUFFICES ASSUME AnswerInv, [Next]_vars PROVE VerdictsExact'
  OBVIOUS
<1>40. UNCHANGED <<backend, files>>
  BY FilesStay
<1>41. /\ WorldInv /\ MemosOK /\ PhasesOK /\ BoundToOneFile /\ BracketInv
       /\ TodoInv /\ QuietInv /\ GateInv /\ WalkInv /\ DigestInv
       /\ VerdictsExact /\ DigestOfOneFile
  BY DEF AnswerInv, BindInv, TypeOK
<1>42. (call' = call /\ result' = "err" /\ failed' = {}) => VerdictsExact'
  BY DEF VerdictsExact
<1>43. phase' # "done" \/ call'.op # "test" => VerdictsExact'
  BY DEF VerdictsExact
<1>44. UNCHANGED identity => /\ FileRecs(identity)' = FileRecs(identity)
                            /\ Damaged(identity)' = Damaged(identity)
  BY <1>40 DEF Damaged, FileRecs, Order, View, zip, Sound
<1>45. phase \in {"test", "drain"} =>
          /\ reader = identity /\ tested \subseteq FileRecs(identity)
          /\ failed = {k \in tested : ~Sound(files[identity].recs[k])}
          /\ failed \subseteq Damaged(identity)
  BY <1>41 DEF BoundToOneFile, WalkInv, Damaged
<1>46. phase \in {"test", "drain"} /\ todo # << >> /\ This.kind = "file" =>
          Head(todo) \in FileRecs(identity)
  <2> SUFFICES ASSUME phase \in {"test", "drain"}, todo # << >>,
                      This.kind = "file"
               PROVE  Head(todo) \in FileRecs(identity)
    OBVIOUS
  <2>1. todo \in Seq(DOMAIN files[reader].recs)
    BY <1>41 DEF TodoInv
  <2>2. Head(todo) \in Range(todo)
    BY <2>1, HeadAndTail
  <2>. QED
    BY <1>41, <2>2 DEF BoundToOneFile, WalkInv, This
<1>47. ASSUME phase \in {"test", "drain"}, phase' = "done",
              result' = "err", UNCHANGED <<call, identity>>,
              failed' \subseteq Damaged(identity)
       PROVE  VerdictsExact'
  BY <1>44, <1>47 DEF VerdictsExact
<1> USE DEF memos, walk, world
<1>1. CASE UNCHANGED vars
  BY <1>1, <1>41, <1>44 DEF vars, VerdictsExact
<1>2. CASE Call
  <2>1. phase' # "done"
    BY <1>2 DEF Call
  <2>. QED
    BY <1>43, <2>1
<1>3. CASE Replace
  BY <1>3, <1>41, <1>44 DEF Replace, VerdictsExact
<1>4. CASE open_zip_bound
  BY <1>4, <1>41, <1>42, <1>43 DEF open_zip_bound, WantsZip, QuietInv
<1>5. CASE with_zip
  BY <1>5, <1>41, <1>43 DEF with_zip, Opened, WalkInv
<1>6. CASE CaptureIdentity
  BY <1>6, <1>41, <1>43 DEF CaptureIdentity, WalkInv
<1>7. CASE StatBefore
  BY <1>7, <1>41, <1>42, <1>43 DEF StatBefore, check_identity, Return, QuietInv
<1>8. CASE OpenNative
  BY <1>8, <1>41, <1>42, <1>43 DEF OpenNative, OpenFails, Return, QuietInv
<1>9. CASE StatAfter
  BY <1>9, <1>41, <1>42, <1>43 DEF StatAfter, OpenFails, Revalidated,
     check_identity, Opened, Return, QuietInv
<1>10. CASE ReadListing
  BY <1>10, <1>41, <1>42, <1>43 DEF ReadListing, Return, QuietInv
<1>11. CASE scan_raw_central_directory
  BY <1>11, <1>43 DEF scan_raw_central_directory, Scans
<1>12. CASE ScanFails
  BY <1>12, <1>41, <1>42, <1>43 DEF ScanFails, Scans, QuietInv
<1>13. CASE RebuildFails
  BY <1>13, <1>41, <1>42, <1>43 DEF RebuildFails, Scans, QuietInv
<1>14. CASE Gate
  <2>1. phase' # "done" \/ Return("err") \/ call'.op # "test"
    BY <1>14 DEF Gate, Answered, Return
  <2>. QED
    BY <1>14, <1>41, <1>42, <1>43, <2>1 DEF Gate, Guarded, Return, QuietInv
<1>15. CASE ReadByName
  <2>1. call'.op = "byname"
    BY <1>15 DEF ReadByName, Return
  <2>. QED
    BY <1>43, <2>1
<1>16. CASE DigestEntry
  <2>1. call'.op = "digest"
    BY <1>16 DEF DigestEntry, Return
  <2>. QED
    BY <1>43, <2>1
<1>17. CASE StartTest
  BY <1>17, <1>41, <1>42, <1>43 DEF StartTest, Return, QuietInv
<1>18. CASE SkipEntry
  BY <1>18, <1>41, <1>43 DEF SkipEntry, NextEntry, Testing, WalkInv
<1>19. CASE ReadUnits
  BY <1>19, <1>41, <1>43 DEF ReadUnits, Testing, WalkInv
<1>20. CASE StopLong
  <2>1. /\ phase = "test" /\ todo # << >> /\ This.kind = "file" /\ Overproduces
        /\ phase' = "done" /\ result' = "err" /\ UNCHANGED <<call, identity>>
        /\ failed' = failed \union {Head(todo)}
    BY <1>20 DEF StopLong, Testing, Abort
  <2>2. /\ BindInv /\ IsEntry(This, backend) /\ Declared \in Nat
        /\ \A d \in This.declared : d = Declared
        /\ got \in Nat
    BY <2>1, ThisEntry DEF AnswerInv, BindInv, TypeOK, WalkOK
  <2>3. ~Sound(This)
    <3>1. This.declared # {} /\ got > Declared
      BY <2>1, <2>2 DEF IsEntry, Overproduces
    <3>2. This.then # "endless" => got <= This.makes
      BY <1>41, <2>1 DEF WalkInv
    <3>3. This.makes \in Nat
      BY <2>2 DEF IsEntry
    <3>. QED
      BY <2>2, <3>1, <3>2, <3>3 DEF Sound
  <2>4. Head(todo) \in Damaged(identity)
    BY <1>45, <1>46, <2>1, <2>3 DEF Damaged, This
  <2>. QED
    BY <1>45, <1>47, <2>1, <2>4
<1>21. CASE EndEntry
  BY <1>21, <1>41, <1>43 DEF EndEntry, Read, Testing, NextEntry, WalkInv
<1>22. CASE StopOperational
  <2>1. /\ phase = "test" /\ phase' = "done" /\ result' = "err"
        /\ UNCHANGED <<call, identity, failed>>
    BY <1>22 DEF StopOperational, Read, Testing, Abort
  <2>. QED
    BY <1>45, <1>47, <2>1
<1>23. CASE EntryFails
  BY <1>23, <1>41, <1>43 DEF EntryFails, Read, Testing, NextEntry, WalkInv
<1>24. CASE drain_to_realign
  BY <1>24, <1>41, <1>43 DEF drain_to_realign, WalkInv
<1>25. CASE DrainEnds
  <2>1. /\ phase = "drain" /\ todo # << >> /\ This.kind = "file"
        /\ ~Sound(This)
    BY <1>25, <1>41 DEF DrainEnds, WalkInv, TodoInv
  <2>2. Head(todo) \in Damaged(identity)
    BY <1>45, <1>46, <2>1 DEF Damaged, This
  <2>3. CASE LosesCursor
    <3>1. /\ phase' = "done" /\ result' = "err" /\ UNCHANGED <<call, identity>>
          /\ failed' \subseteq failed \union {Head(todo)}
      BY <1>25, <2>3 DEF DrainEnds, Abort
    <3>. QED
      BY <1>45, <1>47, <2>1, <2>2, <3>1
  <2>4. CASE ~LosesCursor
    BY <1>25, <1>43, <2>4 DEF DrainEnds, NextEntry
  <2>. QED
    BY <2>3, <2>4
<1>26. CASE WalkCut
  <2>1. /\ phase = "test" /\ phase' = "done" /\ result' = "err"
        /\ UNCHANGED <<call, identity, failed>>
    BY <1>26 DEF WalkCut, Testing, Return
  <2>. QED
    BY <1>45, <1>47, <2>1
<1>27. CASE EndTest
  <2>1. /\ phase = "test" /\ todo = << >> /\ UNCHANGED <<identity, failed, tested>>
    BY <1>27 DEF EndTest, Return, memos, walk
  <2>2. Range(todo) = {}
    BY <2>1 DEF Range
  <2>3. tested = FileRecs(identity)
    BY <1>41, <1>45, <2>1, <2>2 DEF WalkInv
  <2>4. failed = Damaged(identity)
    BY <1>45, <2>1, <2>3 DEF Damaged
  <2>. QED
    BY <1>44, <2>1, <2>3, <2>4 DEF VerdictsExact
<1>. QED
  BY <1>1, <1>2, <1>3, <1>4, <1>5, <1>6, <1>7, <1>8, <1>9, <1>10, <1>11,
     <1>12, <1>13, <1>14, <1>15, <1>16, <1>17, <1>18, <1>19, <1>20, <1>21,
     <1>22, <1>23, <1>24, <1>25, <1>26, <1>27 DEF Next, Handle

\* A digest that answers is complete.
LEMMA DigestsStep == AnswerInv /\ [Next]_vars => DigestOfOneFile'
<1> SUFFICES ASSUME AnswerInv, [Next]_vars PROVE DigestOfOneFile'
  OBVIOUS
<1>40. UNCHANGED <<backend, files>>
  BY FilesStay
<1>41. /\ WorldInv /\ MemosOK /\ PhasesOK /\ BoundToOneFile /\ BracketInv
       /\ TodoInv /\ QuietInv /\ GateInv /\ WalkInv /\ DigestInv
       /\ VerdictsExact /\ DigestOfOneFile
  BY DEF AnswerInv, BindInv, TypeOK
<1>42. (phase' # "done" \/ result' # "ok" \/ call'.op # "digest") => DigestOfOneFile'
  BY DEF DigestOfOneFile
<1>43. UNCHANGED listing => /\ View(listing)' = View(listing)
                           /\ Needs(listing)' = Needs(listing)
  BY <1>40 DEF Needs, Entry, View, zip
<1> USE DEF memos, walk, world
<1>1. CASE UNCHANGED vars
  BY <1>1, <1>41, <1>43 DEF vars, DigestOfOneFile
<1>2. CASE Call
  <2>1. phase' # "done"
    BY <1>2 DEF Call
  <2>. QED
    BY <1>42, <2>1
<1>3. CASE Replace
  BY <1>3, <1>41, <1>43 DEF Replace, DigestOfOneFile
<1>4. CASE open_zip_bound
  BY <1>4, <1>42 DEF open_zip_bound, WantsZip, BoundTo, Absent
<1>5. CASE with_zip
  BY <1>5, <1>42 DEF with_zip, Opened
<1>6. CASE CaptureIdentity
  BY <1>6, <1>42 DEF CaptureIdentity
<1>7. CASE StatBefore
  BY <1>7, <1>42 DEF StatBefore, check_identity, Return
<1>8. CASE OpenNative
  BY <1>8, <1>42 DEF OpenNative, OpenFails, Return
<1>9. CASE StatAfter
  BY <1>9, <1>42 DEF StatAfter, OpenFails, Revalidated, check_identity, Opened,
     Return
<1>10. CASE ReadListing
  BY <1>10, <1>42 DEF ReadListing, Return
<1>11. CASE scan_raw_central_directory
  BY <1>11, <1>42 DEF scan_raw_central_directory, Scans
<1>12. CASE ScanFails
  BY <1>12, <1>42 DEF ScanFails, Scans
<1>13. CASE RebuildFails
  BY <1>13, <1>42 DEF RebuildFails, Scans
<1>14. CASE Gate
  <2>1. CASE phase' = "done" /\ result' = "ok" /\ call'.op = "digest"
    <3>1. /\ Needs(listing) = {} /\ resolved' = {} /\ UNCHANGED listing
      BY <1>14, <1>41, <2>1 DEF Gate, Guarded, Answered, Return, QuietInv
    <3>. QED
      BY <1>43, <3>1 DEF DigestOfOneFile
  <2>2. CASE ~(phase' = "done" /\ result' = "ok" /\ call'.op = "digest")
    BY <1>42, <2>2
  <2>. QED
    BY <2>1, <2>2
<1>15. CASE ReadByName
  <2>1. call'.op = "byname"
    BY <1>15 DEF ReadByName, Return
  <2>. QED
    BY <1>42, <2>1
<1>16. CASE DigestEntry
  <2>1. CASE phase' = "done" /\ result' = "ok" /\ call'.op = "digest"
    <3>1. /\ resolved' = resolved \union
               {[id |-> Head(todo), file |-> reader,
                 rec |-> View(reader)[Head(todo)]]}
          /\ Tail(todo) = << >> /\ phase = "use" /\ call.op = "digest"
          /\ UNCHANGED <<listing, call>>
      BY <1>16, <2>1 DEF DigestEntry, Return
    <3>2. reader = listing /\ listing # 0
      BY <1>41, <3>1 DEF PhasesOK, BoundToOneFile
    <3>3. todo # << >> /\ todo \in Seq(Nat)
      BY <1>41, <3>1, <3>2 DEF TodoInv, AnswerInv, BindInv, TypeOK, WalkOK
    <3>4. Range(todo) = {Head(todo)}
      <4>1. Range(<< >>) = {}
        BY DEF Range
      <4>. QED
        BY <3>1, <3>3, <4>1, HeadAndTail
    <3>5. resolved' = resolved \union {Resolution(Head(todo))}
      BY <3>1, <3>2 DEF Resolution
    <3>6. {Resolution(id) : id \in Needs(listing)} = resolved'
      <4>1. {Resolution(id) : id \in Range(todo)} = {Resolution(Head(todo))}
        BY <3>4
      <4>. QED
        BY <1>41, <3>1, <3>2, <3>5, <4>1 DEF DigestInv
    <3>. QED
      BY <1>43, <3>1, <3>6 DEF DigestOfOneFile, Resolution
  <2>2. CASE ~(phase' = "done" /\ result' = "ok" /\ call'.op = "digest")
    BY <1>42, <2>2
  <2>. QED
    BY <2>1, <2>2
<1>17. CASE StartTest
  BY <1>17, <1>42 DEF StartTest, Return
<1>18. CASE SkipEntry
  BY <1>18, <1>42 DEF SkipEntry, NextEntry, Testing
<1>19. CASE ReadUnits
  BY <1>19, <1>42 DEF ReadUnits, Testing
<1>20. CASE StopLong
  BY <1>20, <1>42 DEF StopLong, Abort, Testing
<1>21. CASE EndEntry
  BY <1>21, <1>42 DEF EndEntry, Read, Testing, NextEntry
<1>22. CASE StopOperational
  BY <1>22, <1>42 DEF StopOperational, Read, Testing, Abort
<1>23. CASE EntryFails
  BY <1>23, <1>42 DEF EntryFails, Read, Testing, NextEntry
<1>24. CASE drain_to_realign
  BY <1>24, <1>42 DEF drain_to_realign
<1>25. CASE DrainEnds
  BY <1>25, <1>42 DEF DrainEnds, Abort, NextEntry
<1>26. CASE WalkCut
  BY <1>26, <1>42 DEF WalkCut, Testing, Return
<1>27. CASE EndTest
  <2>1. call'.op = "test"
    BY <1>27, <1>41 DEF EndTest, Return, WalkInv
  <2>. QED
    BY <1>42, <2>1
<1>. QED
  BY <1>1, <1>2, <1>3, <1>4, <1>5, <1>6, <1>7, <1>8, <1>9, <1>10, <1>11,
     <1>12, <1>13, <1>14, <1>15, <1>16, <1>17, <1>18, <1>19, <1>20, <1>21,
     <1>22, <1>23, <1>24, <1>25, <1>26, <1>27 DEF Next, Handle


\* Every step keeps what the answers rest on.
LEMMA AnswerStep == AnswerInv /\ [Next]_vars => AnswerInv'
<1> SUFFICES ASSUME AnswerInv, [Next]_vars PROVE AnswerInv'
  OBVIOUS
<1>1. BindInv'
  BY BindStep DEF AnswerInv
<1>. QED
  BY <1>1, QuietStep, GateStep, WalkInvStep, DigestStep, VerdictsStep,
     DigestsStep DEF AnswerInv

\* An answer about every entry is about every record, and exact: that of the
\* integrity test, that of the digest.
THEOREM AnswersAreExact == Spec => []AnswersExact
<1>1. AnswerInv => AnswersExact
  <2> SUFFICES ASSUME AnswerInv PROVE AnswersExact
    OBVIOUS
  <2>1. NothingShadowed
    <3> SUFFICES ASSUME zip,
                        \/ phase = "done" /\ result = "ok" /\ call.op = "test"
                        \/ phase = "done" /\ result = "ok" /\ resolved # {}
                 PROVE  Range(View(identity)) = DOMAIN files[identity].recs
      BY DEF NothingShadowed
    <3>1. Uncollapsed
      BY DEF AnswerInv, GateInv
    <3>2. raw_directory = identity /\ identity \in DOMAIN files
      BY <3>1 DEF AnswerInv, BindInv, TypeOK, MemosOK, BoundToOneFile,
                  Uncollapsed, Files, WorldInv
    <3>3. IsFile(files[identity], backend)
      BY <3>2 DEF AnswerInv, BindInv, WorldInv
    <3>. QED
      BY <3>1, <3>2, <3>3, NothingCollapsed DEF Uncollapsed, View
  <2>. QED
    BY <2>1 DEF AnswerInv, AnswersExact
<1>. QED
  BY <1>1, AnswerInit, AnswerStep, PTL DEF Spec


-----------------------------------------------------------------------------
(* NameMeansOneRecord.                                                     *)

\* The view has one record for each name among the declared ones.
LEMMA CrateHasNames ==
  ASSUME NEW a, NEW b, IsFile(a, b)
  PROVE  /\ Len(Crate(a)) \in Nat /\ DOMAIN Crate(a) = 1..Len(Crate(a))
         /\ Range(Crate(a)) \subseteq DOMAIN a.recs
         /\ \A k, l \in DOMAIN Crate(a) :
              a.recs[Crate(a)[k]].name = a.recs[Crate(a)[l]].name => k = l
<1> DEFINE Same(i) == {j \in 1..a.toc : a.recs[j].name = a.recs[i].name}
           Firsts == {i \in 1..a.toc : i = Min(Same(i))}
           order == Ascending(Firsts)
           newest(k) == Max(Same(order[k]))
<1>1. /\ Len(a.recs) \in Nat /\ DOMAIN a.recs = 1..Len(a.recs)
      /\ a.toc \in Nat /\ 1..a.toc \subseteq DOMAIN a.recs
  BY DEF IsFile
<1>2. IsFiniteSet(Firsts) /\ Firsts \in SUBSET Nat
  <2>1. Firsts \in SUBSET (1..a.toc)
    OBVIOUS
  <2>2. IsFiniteSet(1..a.toc)
    BY <1>1, FS_Interval
  <2> HIDE DEF Firsts
  <2>3. IsFiniteSet(Firsts)
    BY <2>1, <2>2, FS_Subset
  <2>4. Firsts \in SUBSET Nat
    BY <1>1, <2>1
  <2>. QED
    BY <2>3, <2>4
<1>3. /\ Cardinality(Firsts) \in Nat
      /\ order \in [1..Cardinality(Firsts) -> Firsts]
      /\ \A k \in 1..Cardinality(Firsts) :
           Cardinality({y \in Firsts : y <= order[k]}) = k
  BY <1>2, AscendingLists
<1>4. Crate(a) = [k \in 1..Cardinality(Firsts) |-> newest(k)]
  <2>1. Crate(a) = [k \in DOMAIN order |-> newest(k)]
    BY DEF Crate
  <2> HIDE DEF order, newest
  <2>. QED
    BY <1>3, <2>1
<1>5. ASSUME NEW k \in 1..Cardinality(Firsts) PROVE newest(k) \in Same(order[k])
  <2> DEFINE T == Same(order[k])
  <2>1. order[k] \in T /\ T \in SUBSET (1..a.toc)
    BY <1>3
  <2>2. \E m \in T : \A y \in T : m >= y
    <3> HIDE DEF T
    <3>. QED
      BY <1>1, <2>1, HasLast
  <2>. QED
    BY <2>2 DEF Max
<1>6. ASSUME NEW k \in 1..Cardinality(Firsts), NEW l \in 1..Cardinality(Firsts),
             a.recs[newest(k)].name = a.recs[newest(l)].name
      PROVE  k = l
  <2>1. a.recs[order[k]].name = a.recs[order[l]].name
    BY <1>5, <1>6
  <2>2. Same(order[k]) = Same(order[l])
    BY <2>1
  <2>3. order[k] = order[l]
    <3>1. order[k] = Min(Same(order[k])) /\ order[l] = Min(Same(order[l]))
      BY <1>3
    <3>. QED
      BY <2>2, <3>1
  <2> HIDE DEF order, Firsts
  <2>. QED
    BY <1>3, <2>3
<1>7. Range(Crate(a)) \subseteq DOMAIN a.recs
  <2> HIDE DEF newest, Firsts
  <2>1. \A k \in 1..Cardinality(Firsts) : newest(k) \in DOMAIN a.recs
    BY <1>1, <1>5
  <2>. QED
    BY <1>4, <2>1 DEF Range
<1> HIDE DEF newest, Firsts
<1>. QED
  BY <1>3, <1>4, <1>6, <1>7

\* When the names that the listing repeats account for all that is missing
\* from it, every spelling on the disk is in it.
LEMMA EverySpellingListed ==
  ASSUME NEW a, NEW b, IsFile(a, b), DecodesAlike(a), ~any_undetected(a),
         NEW i \in DOMAIN a.recs
  PROVE  \E j \in Range(Crate(a)) : a.recs[j].raw = a.recs[i].raw
<1> DEFINE C == Range(Crate(a))
           raw == [k \in DOMAIN a.recs |-> a.recs[k].raw]
           M == DOMAIN a.recs \ C
           U == {raw[k] : k \in DOMAIN a.recs} \ {raw[i]}
           size == [r \in U |-> Cardinality({k \in M : raw[k] = r})]
           hidden == [r \in Repeated(a) |->
                      Max({0, Cardinality(Spelled(a, r))
                                - Cardinality(ListedFor(a, r))})]
<1>1. /\ Len(a.recs) \in Nat /\ DOMAIN a.recs = 1..Len(a.recs)
      /\ IsFiniteSet(DOMAIN a.recs) /\ Cardinality(DOMAIN a.recs) = Len(a.recs)
  <2>1. Len(a.recs) \in Nat /\ DOMAIN a.recs = 1..Len(a.recs)
    BY DEF IsFile
  <2>2. ASSUME NEW n \in Nat PROVE IsFiniteSet(1..n) /\ Cardinality(1..n) = n
    BY FS_Interval
  <2>. QED
    BY <2>1, <2>2
<1>2. /\ Len(Crate(a)) \in Nat /\ C \subseteq DOMAIN a.recs
      /\ IsFiniteSet(C) /\ Cardinality(C) = Len(Crate(a))
      /\ \A j, k \in C : a.recs[j].name = a.recs[k].name => j = k
  <2>1. /\ Len(Crate(a)) \in Nat /\ DOMAIN Crate(a) = 1..Len(Crate(a))
        /\ C \subseteq DOMAIN a.recs
        /\ \A k, l \in DOMAIN Crate(a) :
             a.recs[Crate(a)[k]].name = a.recs[Crate(a)[l]].name => k = l
    BY CrateHasNames
  <2>2. ASSUME NEW n \in Nat PROVE IsFiniteSet(1..n) /\ Cardinality(1..n) = n
    BY FS_Interval
  <2>3. C = {Crate(a)[k] : k \in 1..Len(Crate(a))}
    BY <2>1 DEF Range
  <2>4. IsFiniteSet(C) /\ Cardinality(C) = Len(Crate(a))
    <3> DEFINE S == 1..Len(Crate(a))
    <3>1. IsFiniteSet(S) /\ Cardinality(S) = Len(Crate(a))
      BY <2>1, <2>2
    <3>2. \A k, l \in S : Crate(a)[k] = Crate(a)[l] => k = l
      BY <2>1
    <3>3. C = {Crate(a)[k] : k \in S}
      BY <2>3
    <3> HIDE DEF S, C
    <3>. QED
      BY <3>1, <3>2, <3>3, ImageIsFinite
  <2>5. \A j, k \in C : a.recs[j].name = a.recs[k].name => j = k
    BY <2>1 DEF Range
  <2>. QED
    BY <2>1, <2>4, <2>5
<1>3. /\ IsFiniteSet(M) /\ Cardinality(M) = Len(a.recs) - Len(Crate(a))
  <2>1. M \union C = DOMAIN a.recs /\ M \cap C = {} /\ M \in SUBSET (DOMAIN a.recs)
    BY <1>2
  <2> HIDE DEF M, C
  <2>2. IsFiniteSet(M) /\ Cardinality(M) \in Nat /\ Cardinality({}) = 0
    BY <1>1, <2>1, FS_Subset, FS_CardinalityType, FS_EmptySet
  <2>3. Cardinality(M \union C) =
          Cardinality(M) + Cardinality(C) - Cardinality(M \cap C)
    BY <1>2, <2>2, FS_Union
  <2>4. /\ Cardinality(M \union C) = Len(a.recs)
        /\ Cardinality(M \cap C) = 0
    BY <1>1, <2>1, <2>2
  <2>. QED
    BY <1>1, <1>2, <2>2, <2>3, <2>4
<1>4. IsFiniteSet(U)
  <2>1. IsFiniteSet({raw[k] : k \in DOMAIN a.recs})
    <3> HIDE DEF raw
    <3>. QED
      BY <1>1, ImageIsFinite
  <2>2. U \in SUBSET {raw[k] : k \in DOMAIN a.recs}
    OBVIOUS
  <2> HIDE DEF raw, U
  <2>. QED
    BY <2>1, <2>2, FS_Subset
<1> SUFFICES ASSUME \A j \in C : a.recs[j].raw # a.recs[i].raw PROVE FALSE
  OBVIOUS
<1>5. Repeated(a) \in SUBSET U
  <2> SUFFICES ASSUME NEW r \in Repeated(a) PROVE r \in U
    OBVIOUS
  <2>1. PICK k \in DOMAIN a.recs : r = a.recs[k].raw
    BY DEF Repeated
  <2>2. ListedFor(a, r) # {}
    BY DEF Repeated
  <2>3. \E j \in C : a.recs[j].raw = r
    BY <2>2 DEF ListedFor
  <2>. QED
    BY <2>1, <2>3
<1>6. ASSUME NEW r \in U
      PROVE  size[r] \in Nat /\ IsFiniteSet({k \in M : raw[k] = r})
  <2>1. {k \in M : raw[k] = r} \in SUBSET M
    OBVIOUS
  <2>2. size[r] = Cardinality({k \in M : raw[k] = r})
    OBVIOUS
  <2> HIDE DEF size, M, raw
  <2>. QED
    BY <1>3, <2>1, <2>2, FS_Subset, FS_CardinalityType
<1>7. ASSUME NEW r \in Repeated(a) PROVE hidden[r] \in Nat /\ hidden[r] <= size[r]
  <2> DEFINE F == {k \in M : raw[k] = r}
  <2>1. PICK j \in C : a.recs[j].raw = r
    <3>1. ListedFor(a, r) # {}
      BY DEF Repeated
    <3>. QED
      BY <3>1 DEF ListedFor
  <2>2. Spelled(a, r) = F \union {j} /\ j \notin F
    <3>1. ASSUME NEW k \in Spelled(a, r) PROVE k \in F \union {j}
      <4>1. a.recs[k].raw = r /\ k \in DOMAIN a.recs
        BY DEF Spelled
      <4>2. a.recs[k].name = a.recs[j].name
        BY <1>2, <2>1, <4>1 DEF DecodesAlike
      <4>3. k \in C => k = j
        BY <1>2, <4>2
      <4>. QED
        BY <4>1, <4>3
    <3>2. F \union {j} \subseteq Spelled(a, r)
      BY <1>2, <2>1 DEF Spelled
    <3>. QED
      BY <3>1, <3>2
  <2>3. IsFiniteSet(F) /\ size[r] = Cardinality(F) /\ size[r] \in Nat
    BY <1>5, <1>6
  <2>4. Cardinality(Spelled(a, r)) = size[r] + 1
    <3>1. Cardinality(F \union {j}) = Cardinality(F) + 1
      <4> HIDE DEF F
      <4>. QED
        BY <2>2, <2>3, FS_AddElement
    <3>. QED
      BY <2>2, <2>3, <3>1
  <2>5. ListedFor(a, r) = {a.recs[j].path}
    <3>1. ASSUME NEW k \in C, a.recs[k].raw = r PROVE k = j
      BY <1>2, <2>1, <3>1 DEF DecodesAlike
    <3>. QED
      BY <2>1, <3>1 DEF ListedFor
  <2>6. Cardinality(ListedFor(a, r)) = 1
    BY <2>5, FS_Singleton
  <2>7. hidden[r] = Max({0, (size[r] + 1) - 1})
    BY <2>4, <2>6
  <2> HIDE DEF size, hidden
  <2>8. Max({0, (size[r] + 1) - 1}) = size[r]
    <3>1. (size[r] + 1) - 1 \in Int
      BY <2>3
    <3>. QED
      BY <2>3, <3>1, MaxOfTwo
  <2>. QED
    BY <2>3, <2>7, <2>8
<1>8. Attributed(a) <= SumOver(size, U)
  <2> DEFINE all == [r \in U |-> IF r \in Repeated(a) THEN hidden[r] ELSE 0]
  <2>1. ASSUME NEW r \in U PROVE all[r] \in Int /\ size[r] \in Nat
    <3>1. all[r] = IF r \in Repeated(a) THEN hidden[r] ELSE 0
      OBVIOUS
    <3>2. r \in Repeated(a) => hidden[r] \in Nat
      BY <1>7
    <3>3. size[r] \in Nat
      BY <1>6
    <3> HIDE DEF size, hidden, U, all
    <3>. QED
      BY <3>1, <3>2, <3>3
  <2>2. \A r \in Repeated(a) : all[r] <= size[r]
    BY <1>5, <1>7
  <2>3. \A r \in Repeated(a) : hidden[r] \in Nat /\ all[r] = hidden[r]
    BY <1>5, <1>7
  <2>4. Attributed(a) = SumOver(hidden, Repeated(a))
    BY DEF Attributed
  <2>5. IsFiniteSet(Repeated(a))
    BY <1>4, <1>5, FS_Subset
  <2> HIDE DEF hidden, size, all, U
  <2>6. SumOver(hidden, Repeated(a)) = SumOver(all, Repeated(a))
    BY <2>3, <2>5, SumSame
  <2>7. SumOver(all, Repeated(a)) <= SumOver(size, U)
    BY <1>4, <1>5, <2>1, <2>2, SumGrows
  <2>. QED
    BY <2>4, <2>6, <2>7
<1>9. SumOver(size, U) = Cardinality({k \in M : raw[k] \in U})
  <2> HIDE DEF raw, M, U
  <2>. QED
    BY <1>3, <1>4, SumOfFibres
<1>10. Cardinality({k \in M : raw[k] \in U}) < Cardinality(M)
  <2> DEFINE K == {k \in M : raw[k] \in U}
  <2>1. i \in M /\ K \in SUBSET M /\ i \notin K
    OBVIOUS
  <2> HIDE DEF K, M
  <2>2. Cardinality(M) \in Nat /\ Cardinality(K) \in Nat
    BY <1>3, <2>1, FS_Subset, FS_CardinalityType
  <2>3. Cardinality(K) <= Cardinality(M) /\ (Cardinality(M) = Cardinality(K) => M = K)
    BY <1>3, <2>1, FS_Subset
  <2>4. M # K
    BY <2>1
  <2>5. Cardinality(K) < Cardinality(M)
    BY <2>2, <2>3, <2>4
  <2>. QED
    BY <2>5 DEF K
<1>11. Attributed(a) \in Int
  <2>1. Attributed(a) = SumOver(hidden, Repeated(a))
    BY DEF Attributed
  <2>2. IsFiniteSet(Repeated(a))
    <3> HIDE DEF U
    <3>. QED
      BY <1>4, <1>5, FS_Subset
  <2>3. ASSUME NEW r \in Repeated(a) PROVE hidden[r] \in Int
    <3>1. hidden[r] \in Nat
      BY <1>7
    <3> HIDE DEF hidden
    <3>. QED
      BY <3>1
  <2> HIDE DEF hidden, U
  <2>. QED
    BY <2>1, <2>2, <2>3, SumIsInt
<1>12. Attributed(a) >= Len(a.recs) - Len(Crate(a))
  <2> DEFINE d == Len(a.recs) - Len(Crate(a))
  <2>1. d \in Int
    BY <1>1, <1>2
  <2>2. ~(Attributed(a) < Max({0, d}))
    BY DEF any_undetected
  <2> HIDE DEF d
  <2>4. Max({0, d}) = IF 0 >= d THEN 0 ELSE d
    BY <2>1, MaxOfTwo
  <2>5. Attributed(a) >= d
    BY <1>11, <2>1, <2>2, <2>4
  <2>. QED
    BY <2>5 DEF d
<1>13. Attributed(a) \in Int /\ SumOver(size, U) \in Int /\ Cardinality(M) \in Int
  <2>2. SumOver(size, U) \in Int
    <3>1. ASSUME NEW r \in U PROVE size[r] \in Int
      <4>1. size[r] \in Nat
        BY <1>6
      <4> HIDE DEF size, U
      <4>. QED
        BY <4>1
    <3> HIDE DEF size, U
    <3>. QED
      BY <1>4, <3>1, SumIsInt
  <2>. QED
    BY <1>3, <1>11, <2>2, FS_CardinalityType
<1> HIDE DEF size, U, M, raw, C, hidden
<1>. QED
  BY <1>3, <1>8, <1>9, <1>10, <1>12, <1>13

\* What the guard on a name is for: behind a directory that it lets pass, the
\* one entry of a path is the one record of it.
LEMMA OneListedOneStored ==
  ASSUME NEW a, NEW b, IsFile(a, b), DecodesAlike(a), NEW p, ~Ambiguous(a, p),
         NEW c \in Range(Crate(a)), a.recs[c].path = p,
         \A j \in Range(Crate(a)) : a.recs[j].path = p => j = c
  PROVE  IsTheOnlyRecord(a, p)
<1>1. ~any_undetected(a) /\ p \notin duplicate_names(a)
  BY DEF Ambiguous
<1>2. c \in DOMAIN a.recs
  BY CrateHasNames
<1>3. ASSUME NEW i \in DOMAIN a.recs, a.recs[i].path = p, i # c PROVE FALSE
  <2>1. PICK j \in Range(Crate(a)) : a.recs[j].raw = a.recs[i].raw
    BY <1>1, EverySpellingListed
  <2>2. j \in DOMAIN a.recs
    BY CrateHasNames
  <2>3. a.recs[j].path = p
    BY <1>3, <2>1, <2>2 DEF DecodesAlike
  <2>4. j = c /\ a.recs[i].raw = a.recs[c].raw
    BY <2>1, <2>3
  <2> DEFINE raw == a.recs[c].raw
             S == Spelled(a, raw)
  <2>5. IsFiniteSet(S) /\ i \in S /\ c \in S
    <3>1. IsFiniteSet(DOMAIN a.recs)
      <4>1. ASSUME NEW n \in Nat PROVE IsFiniteSet(1..n)
        BY FS_Interval
      <4>. QED
        BY <4>1 DEF IsFile
    <3>2. S \in SUBSET (DOMAIN a.recs) /\ i \in S /\ c \in S
      BY <1>2, <2>4 DEF Spelled
    <3> HIDE DEF S
    <3>. QED
      BY <3>1, <3>2, FS_Subset
  <2>6. Cardinality(S) > 1
    <3> HIDE DEF S
    <3>1. {i, c} \in SUBSET S
      BY <2>5
    <3>2. Cardinality({i, c}) = 2
      <4>1. IsFiniteSet({c}) /\ Cardinality({c}) = 1
        BY FS_Singleton
      <4>2. {i, c} = {c} \union {i} /\ i \notin {c}
        BY <1>3
      <4>3. Cardinality({c} \union {i}) = Cardinality({c}) + 1
        BY <4>1, <4>2, FS_AddElement
      <4>. QED
        BY <4>1, <4>2, <4>3
    <3>3. Cardinality({i, c}) <= Cardinality(S) /\ Cardinality(S) \in Nat
      BY <2>5, <3>1, FS_Subset, FS_CardinalityType
    <3>. QED
      BY <3>2, <3>3
  <2>7. a.recs[c].path \in ListedFor(a, raw)
    BY DEF ListedFor
  <2>8. raw \in Repeated(a)
    BY <1>2, <2>6, <2>7 DEF Repeated
  <2>. QED
    BY <1>1, <2>7, <2>8 DEF duplicate_names
<1>4. {i \in DOMAIN a.recs : a.recs[i].path = p} = {c}
  BY <1>2, <1>3
<1>. QED
  BY <1>4, FS_Singleton DEF IsTheOnlyRecord

\* The names of a ZIP file decode alike wherever their bytes are the same.
NamesDecodeAlike ==
    \A w \in Worlds :
        w.backend = "zip" =>
          \A n \in DOMAIN w.files : DecodesAlike(w.files[n])

AlikeInv == zip => \A n \in DOMAIN files : DecodesAlike(files[n])

\* A call by name goes past its gate for one entry of a name that is not
\* ambiguous, and no further but to its answer.
NameGate ==
    (/\ zip /\ call.op = "byname" /\ listing # 0
     /\ phase \in {"open", "use"} \/ (phase = "done" /\ result = "ok")) =>
       /\ raw_directory # 0 /\ validate_single_entry
       /\ ~Ambiguous(files[raw_directory], call.path)

\* No call by name is answered before there is a listing.
AnsweredFromListing ==
    (phase = "done" /\ result = "ok" /\ call.op = "byname") => listing # 0

NameInv == AnswerInv /\ AlikeInv /\ NameGate /\ AnsweredFromListing

\* The gate holds its name until the answer.
LEMMA NameGateStep == NameInv /\ [Next]_vars => NameGate'
<1> SUFFICES ASSUME NameInv, [Next]_vars PROVE NameGate'
  OBVIOUS
<1>40. UNCHANGED <<backend, files>>
  BY FilesStay
<1>41. /\ WorldInv /\ MemosOK /\ PhasesOK /\ BoundToOneFile /\ BracketInv
       /\ TodoInv /\ WalkInv /\ NameGate /\ AnsweredFromListing
  BY DEF NameInv, AnswerInv, BindInv, TypeOK
<1>42. UNCHANGED <<call, listing>> =>
         (validate_single_entry' <=> validate_single_entry)
  BY <1>40 DEF validate_single_entry, Matching, Entry, View, zip
<1> USE <1>40, <1>41, <1>42 DEF NameGate, memos, walk, world, zip
<1>1. CASE UNCHANGED vars
  BY <1>1 DEF vars
<1>2. CASE Call
  BY <1>2 DEF Call
<1>3. CASE Replace
  BY <1>3 DEF Replace
<1>4. CASE open_zip_bound
  BY <1>4 DEF open_zip_bound, WantsZip
<1>5. CASE with_zip
  BY <1>5 DEF with_zip, Opened
<1>6. CASE CaptureIdentity
  BY <1>6 DEF CaptureIdentity
<1>7. CASE StatBefore
  BY <1>7 DEF StatBefore, check_identity, Return
<1>8. CASE OpenNative
  BY <1>8 DEF OpenNative, OpenFails, Return
<1>9. CASE StatAfter
  BY <1>9 DEF StatAfter, OpenFails, Opened, Return, BracketInv
<1>10. CASE ReadListing
  BY <1>10 DEF ReadListing, Return
<1>11. CASE scan_raw_central_directory
  BY <1>11 DEF scan_raw_central_directory, Scans
<1>12. CASE ScanFails
  BY <1>12 DEF ScanFails, Scans
<1>13. CASE RebuildFails
  BY <1>13 DEF RebuildFails, Scans
<1>14. CASE Gate
  <2>1. CASE phase' = "open" \/ result' = "ok"
    <3>1. ~Refused /\ Guarded /\ UNCHANGED <<call, memos>>
      BY <1>14, <2>1 DEF Gate, Return
    <3>. QED
      BY <3>1 DEF Refused, Guarded, Raw
  <2>2. CASE ~(phase' = "open" \/ result' = "ok")
    BY <1>14, <2>2 DEF Gate, Return
  <2>. QED
    BY <2>1, <2>2
<1>15. CASE ReadByName
  <2>1. /\ phase = "use" /\ phase' = "done" /\ UNCHANGED <<call, memos>>
    BY <1>15 DEF ReadByName, Return
  <2>. QED
    BY <2>1 DEF PhasesOK
<1>16. CASE DigestEntry
  BY <1>16 DEF DigestEntry, Return
<1>17. CASE StartTest
  BY <1>17 DEF StartTest, Return
<1>18. CASE SkipEntry
  BY <1>18 DEF SkipEntry, NextEntry, Testing
<1>19. CASE ReadUnits
  BY <1>19 DEF ReadUnits, Testing
<1>20. CASE StopLong
  BY <1>20 DEF StopLong, Abort, Testing
<1>21. CASE EndEntry
  BY <1>21 DEF EndEntry, Read, Testing, NextEntry
<1>22. CASE StopOperational
  BY <1>22 DEF StopOperational, Read, Testing, Abort
<1>23. CASE EntryFails
  BY <1>23 DEF EntryFails, Read, Testing, NextEntry
<1>24. CASE drain_to_realign
  BY <1>24 DEF drain_to_realign
<1>25. CASE DrainEnds
  BY <1>25 DEF DrainEnds, Abort, NextEntry
<1>26. CASE WalkCut
  BY <1>26 DEF WalkCut, Testing, Return
<1>27. CASE EndTest
  BY <1>27 DEF EndTest, Return, WalkInv
<1>. QED
  BY <1>1, <1>2, <1>3, <1>4, <1>5, <1>6, <1>7, <1>8, <1>9, <1>10, <1>11, <1>12,
     <1>13, <1>14, <1>15, <1>16, <1>17, <1>18, <1>19, <1>20, <1>21, <1>22,
     <1>23, <1>24, <1>25, <1>26, <1>27 DEF Next, Handle

\* The listing stays.
LEMMA AnsweredStep == NameInv /\ [Next]_vars => AnsweredFromListing'
<1> SUFFICES ASSUME NameInv, [Next]_vars PROVE AnsweredFromListing'
  OBVIOUS
<1>40. UNCHANGED <<backend, files>>
  BY FilesStay
<1>41. /\ WorldInv /\ MemosOK /\ PhasesOK /\ BoundToOneFile /\ BracketInv
       /\ TodoInv /\ WalkInv /\ NameGate /\ AnsweredFromListing
  BY DEF NameInv, AnswerInv, BindInv, TypeOK
<1> USE <1>40, <1>41 DEF AnsweredFromListing, memos, walk, world
<1>1. CASE UNCHANGED vars
  BY <1>1 DEF vars
<1>2. CASE Call
  BY <1>2 DEF Call
<1>3. CASE Replace
  BY <1>3 DEF Replace
<1>4. CASE open_zip_bound
  BY <1>4 DEF open_zip_bound, WantsZip
<1>5. CASE with_zip
  BY <1>5 DEF with_zip, Opened
<1>6. CASE CaptureIdentity
  BY <1>6 DEF CaptureIdentity
<1>7. CASE StatBefore
  BY <1>7 DEF StatBefore, check_identity, Return
<1>8. CASE OpenNative
  BY <1>8 DEF OpenNative, OpenFails, Return
<1>9. CASE StatAfter
  BY <1>9 DEF StatAfter, OpenFails, Opened, Return, BracketInv
<1>10. CASE ReadListing
  BY <1>10 DEF ReadListing, Return
<1>11. CASE scan_raw_central_directory
  BY <1>11 DEF scan_raw_central_directory, Scans
<1>12. CASE ScanFails
  BY <1>12 DEF ScanFails, Scans
<1>13. CASE RebuildFails
  BY <1>13 DEF RebuildFails, Scans
<1>14. CASE Gate
  BY <1>14 DEF Gate, Guarded, Return, PhasesOK
<1>15. CASE ReadByName
  BY <1>15 DEF ReadByName, Return, PhasesOK
<1>16. CASE DigestEntry
  BY <1>16 DEF DigestEntry, Return
<1>17. CASE StartTest
  BY <1>17 DEF StartTest, Return
<1>18. CASE SkipEntry
  BY <1>18 DEF SkipEntry, NextEntry, Testing
<1>19. CASE ReadUnits
  BY <1>19 DEF ReadUnits, Testing
<1>20. CASE StopLong
  BY <1>20 DEF StopLong, Abort, Testing
<1>21. CASE EndEntry
  BY <1>21 DEF EndEntry, Read, Testing, NextEntry
<1>22. CASE StopOperational
  BY <1>22 DEF StopOperational, Read, Testing, Abort
<1>23. CASE EntryFails
  BY <1>23 DEF EntryFails, Read, Testing, NextEntry
<1>24. CASE drain_to_realign
  BY <1>24 DEF drain_to_realign
<1>25. CASE DrainEnds
  BY <1>25 DEF DrainEnds, Abort, NextEntry
<1>26. CASE WalkCut
  BY <1>26 DEF WalkCut, Testing, Return
<1>27. CASE EndTest
  BY <1>27 DEF EndTest, Return, WalkInv
<1>. QED
  BY <1>1, <1>2, <1>3, <1>4, <1>5, <1>6, <1>7, <1>8, <1>9, <1>10, <1>11, <1>12,
     <1>13, <1>14, <1>15, <1>16, <1>17, <1>18, <1>19, <1>20, <1>21, <1>22,
     <1>23, <1>24, <1>25, <1>26, <1>27 DEF Next, Handle

\* When the same bytes always decode alike, an entry that was read by its
\* name is the only one of that name on the disk.
THEOREM NamesMeanRecords ==
  ASSUME NamesDecodeAlike
  PROVE  Spec => []NameMeansOneRecord
<1>1. Init => NameInv
  <2> SUFFICES ASSUME Init PROVE NameInv
    OBVIOUS
  <2>1. AnswerInv
    BY AnswerInit
  <2>2. AlikeInv
    BY DEF Init, NamesDecodeAlike, AlikeInv, zip
  <2>3. NameGate /\ AnsweredFromListing
    BY DEF Init, NameGate, AnsweredFromListing
  <2>. QED
    BY <2>1, <2>2, <2>3 DEF NameInv
<1>2. NameInv /\ [Next]_vars => NameInv'
  <2> SUFFICES ASSUME NameInv, [Next]_vars PROVE NameInv'
    OBVIOUS
  <2>1. AnswerInv'
    BY AnswerStep DEF NameInv
  <2>2. AlikeInv'
    BY FilesStay DEF NameInv, AlikeInv, zip
  <2>. QED
    BY <2>1, <2>2, NameGateStep, AnsweredStep DEF NameInv
<1>3. NameInv => NameMeansOneRecord
  <2> SUFFICES ASSUME NameInv, zip, phase = "done", result = "ok",
                      call.op = "byname"
               PROVE  IsTheOnlyRecord(files[identity], call.path)
    BY DEF NameMeansOneRecord
  <2>1. /\ WorldInv /\ MemosOK /\ BoundToOneFile /\ AlikeInv
        /\ NameGate /\ AnsweredFromListing
    BY DEF NameInv, AnswerInv, BindInv, TypeOK
  <2>2. /\ listing # 0 /\ raw_directory # 0 /\ validate_single_entry
        /\ ~Ambiguous(files[raw_directory], call.path)
    BY <2>1 DEF NameGate, AnsweredFromListing
  <2>3. /\ listing = identity /\ raw_directory = identity
        /\ identity \in DOMAIN files
    BY <2>1, <2>2 DEF BoundToOneFile, MemosOK, Files, WorldInv
  <2> DEFINE a == files[identity]
  <2>4. IsFile(a, backend) /\ DecodesAlike(a)
    BY <2>1, <2>3 DEF WorldInv, AlikeInv
  <2>5. Cardinality(Matching) = 1
    BY <2>2 DEF validate_single_entry
  <2>6. PICK id : Matching = {id}
    <3>1. IsFiniteSet(Matching)
      <4>1. Matching \in SUBSET (DOMAIN View(listing))
        BY DEF Matching
      <4>2. View(listing) \in Seq(DOMAIN files[listing].recs)
        BY <2>1, <2>3, ViewLists
      <4>3. Len(View(listing)) \in Nat
            /\ DOMAIN View(listing) = 1..Len(View(listing))
        BY <4>2
      <4>4. ASSUME NEW n \in Nat PROVE IsFiniteSet(1..n)
        BY FS_Interval
      <4>. QED
        BY <4>1, <4>3, <4>4, FS_Subset
    <3>. QED
      BY <2>5, <3>1, FS_Singleton
  <2>7. /\ View(listing) = Crate(a) /\ DOMAIN Crate(a) = 1..Len(Crate(a))
        /\ id \in DOMAIN Crate(a)
        /\ a.recs[Crate(a)[id]].path = call.path
        /\ \A k \in DOMAIN Crate(a) :
             a.recs[Crate(a)[k]].path = call.path => k = id
    <3>1. View(listing) = Crate(a)
      BY <2>3 DEF View
    <3>2. DOMAIN Crate(a) = 1..Len(Crate(a))
      BY <2>4, CrateHasNames
    <3>3. \A k : k \in Matching <=> /\ k \in DOMAIN Crate(a)
                                    /\ a.recs[Crate(a)[k]].path = call.path
      BY <2>3, <3>1 DEF Matching, Entry
    <3>. QED
      BY <2>6, <3>1, <3>2, <3>3
  <2>8. /\ Crate(a)[id] \in Range(Crate(a))
        /\ \A j \in Range(Crate(a)) :
             a.recs[j].path = call.path => j = Crate(a)[id]
    BY <2>7 DEF Range
  <2>. QED
    BY <2>2, <2>3, <2>4, <2>7, <2>8, OneListedOneStored
<1>. QED
  BY <1>1, <1>2, <1>3, PTL DEF Spec

=============================================================================
