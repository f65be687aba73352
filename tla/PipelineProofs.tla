--------------------------- MODULE PipelineProofs ---------------------------
(***************************************************************************)
(* Theorems about WaterCollector and TelemetryPipeline, for every set of   *)
(* records and sources and every tuning that TuningAssumption admits.      *)
(*                                                                         *)
(* The collector: pages are cut from a list that grows while they are      *)
(* fetched.  The inductive invariant says that a record listed before the  *)
(* window ends never moves to a page already fetched, and that a record    *)
(* listed later is late by MaxLate at most.                                *)
(*                                                                         *)
(* The pipeline: what EMQX drops while configure has its rule deleted is   *)
(* collected again, for every order of the interface, failures of either   *)
(* program and repeated runs of configure.  The inductive invariant ties   *)
(* the clock of configure to the window that is being collected: what the  *)
(* database lacks is at most MaxLag + MaxLate older than the run under     *)
(* way, so that the overlap reaches back to it; but for a record that the  *)
(* last call of ingest_telemetry raised for.                               *)
(***************************************************************************)
EXTENDS TelemetryPipeline, FiniteSetTheorems, TLAPS

\* A source's cursor is not ahead of the clock.
CursorsPast == \A i \in SourceId : cursor[i] # None => cursor[i] <= now

\* What is not listed yet is late by MaxLate at most, and nothing is before Initial.
Punctual ==
  \A r \in Record : Initial <= at[r] /\ (r \notin listed => now <= at[r] + MaxLate)

\* The window under way was made from the cursor as it is.
WindowFromCursor ==
  window # None =>
    /\ window.start = StartOf(turn)
    /\ window.end <= now
    /\ LET c == cursor[IdOf[turn]] IN c # None => c <= window.end

\* A call begins with the first page.
FirstPage == window = None => page = 1 /\ pages = 1

\* The records of the window that were listed before it was made, however late.
Settled(r) ==
  /\ OfSource[r] = turn
  /\ window.start <= at[r] /\ at[r] + MaxLate < window.end

\* The page, counted from zero, a record is on.
Position(r) == Cardinality({q \in Matching(window) : Precedes(q, r)}) \div PageSize

\* Each of those has been fetched, or is on a page still to be fetched.
PagesComplete ==
  window # None =>
    \A r \in listed :
      Settled(r) =>
        \/ r \in todo \cup sent \cup Blank
        \/ page <= pages /\ page - 1 <= Position(r)

CollectorInv ==
  /\ TypeOK
  /\ CursorsPast
  /\ Punctual
  /\ WindowFromCursor
  /\ FirstPage
  /\ PagesComplete
  /\ NothingSkipped

-----------------------------------------------------------------------------
(* The collector: the constants and the helpers. *)

\* The overlap reaches back at least as far as a record may be late, and a window
\* reaches further than the overlap.
LEMMA OverlapType ==
  /\ Overlap \in Nat /\ MaxLate <= Overlap /\ Overlap < MaximumWindow
  /\ MaxLate \in Nat /\ MaximumWindow \in Nat /\ Initial \in Nat /\ MaxTime \in Nat
  /\ PageSize \in Nat \ {0} /\ None \notin Nat
BY FileAssumption, TuningAssumption, BoundAssumption DEF Overlap

\* A source has a cursor, and no other source has the same.
LEMMA IdType ==
  ASSUME NEW s \in Source
  PROVE  /\ IdOf[s] \in SourceId /\ Following(s) \in Source
         /\ \A t \in Source : t # s => IdOf[t] # IdOf[s]
BY IdAssumption, RecordAssumption DEF Source, Following

\* Division rounds down: the two bounds it gives.
LEMMA DivBounds ==
  ASSUME NEW a \in Nat, NEW b \in Nat \ {0}
  PROVE  /\ a \div b \in Nat
         /\ b * (a \div b) <= a
         /\ a < b * (a \div b) + b
<1>1. /\ a \div b \in Int
      /\ a = b * (a \div b) + (a % b)
      /\ a % b \in 0..(b - 1)
  BY SMT
<1> QED BY <1>1, SMT

\* A larger number has the same quotient or a larger one.
LEMMA DivMonotone ==
  ASSUME NEW a \in Nat, NEW c \in Nat, NEW b \in Nat \ {0}, a <= c
  PROVE  a \div b <= c \div b
<1> DEFINE x == a \div b
           y == c \div b
<1>1. x \in Nat /\ b * x <= a /\ y \in Nat /\ c < b * y + b
  BY DivBounds
<1> HIDE DEF x, y
<1>2. ASSUME y + 1 <= x PROVE FALSE
  <2>1. b * (y + 1) <= b * x
    BY <1>1, <1>2, SMT
  <2>2. b * (y + 1) = b * y + b
    BY <1>1, SMT
  <2> QED BY <1>1, <2>1, <2>2, SMT
<1>3. x <= y
  BY <1>1, <1>2, SMT
<1> QED BY <1>3 DEF x, y

\* Rounding up counts every page: the last of n records is on one of them.
LEMMA DivCeiling ==
  ASSUME NEW a \in Nat, NEW n \in Nat, NEW b \in Nat \ {0}, a < n
  PROVE  a \div b + 1 <= (n + b - 1) \div b
<1> DEFINE x == a \div b
           y == (n + b - 1) \div b
<1>1. x \in Nat /\ b * x <= a
  BY DivBounds
<1>2. n + b - 1 \in Nat
  BY SMT
<1>3. y \in Nat /\ n + b - 1 < b * y + b
  BY <1>2, DivBounds
<1> HIDE DEF x, y
<1>4. ASSUME y <= x PROVE FALSE
  <2>1. b * y <= b * x
    BY <1>1, <1>3, <1>4, SMT
  <2> QED BY <1>1, <1>3, <2>1, SMT
<1>5. x + 1 <= y
  BY <1>1, <1>3, <1>4, SMT
<1> QED BY <1>5 DEF x, y

\* A window begins at Initial or after, and no more than the overlap before the cursor.
LEMMA StartOfType ==
  ASSUME TypeOK, NEW s \in Source
  PROVE  /\ StartOf(s) \in Nat
         /\ cursor[IdOf[s]] # None =>
              cursor[IdOf[s]] \in Nat /\ cursor[IdOf[s]] <= StartOf(s) + Overlap
<1>1. cursor[IdOf[s]] \in Times \cup {None}
  BY IdType DEF TypeOK
<1> QED BY <1>1, OverlapType DEF StartOf, Times

\* Any set of records is finite, and so are the pages it takes.
LEMMA FiniteRecords ==
  ASSUME NEW S \in SUBSET Record
  PROVE  IsFiniteSet(S) /\ Cardinality(S) \in Nat /\ Cardinality(S) \div PageSize \in Nat
<1>1. IsFiniteSet(S) /\ Cardinality(S) \in Nat
  BY RecordAssumption, FS_Subset, FS_CardinalityType
<1> QED BY <1>1, OverlapType, DivBounds

\* What is listed is finite, and so is every window's part of it.
LEMMA MatchingType ==
  ASSUME TypeOK, NEW S \in SUBSET Matching(window)
  PROVE  /\ Matching(window) \subseteq listed /\ listed \subseteq Record
         /\ IsFiniteSet(S) /\ Cardinality(S) \in Nat
         /\ Cardinality(S) <= Cardinality(Matching(window))
         /\ Cardinality(Matching(window)) \in Nat
<1>1. Matching(window) \subseteq listed /\ listed \subseteq Record
  BY DEF Matching, TypeOK
<1>2. IsFiniteSet(Matching(window)) /\ Cardinality(Matching(window)) \in Nat
  BY <1>1, FiniteRecords
<1> QED BY <1>1, <1>2, FS_Subset, FS_CardinalityType

\* A window has at least one page.
LEMMA PageCountType ==
  ASSUME TypeOK
  PROVE  PageCount(window) \in Nat \ {0}
<1> DEFINE n == Cardinality(Matching(window)) + PageSize - 1
<1>1. n \in Nat
  BY MatchingType, OverlapType
<1>2. n \div PageSize \in Nat
  BY <1>1, OverlapType, DivBounds
<1> QED BY <1>2 DEF PageCount

\* A record of the window is on one of the pages counted.
LEMMA PositionBound ==
  ASSUME TypeOK, NEW r \in Matching(window)
  PROVE  Position(r) \in Nat /\ Position(r) + 1 <= PageCount(window)
<1> DEFINE M == Matching(window)
           S == {q \in M : Precedes(q, r)}
<1>1. r \notin S
  <2>1. r \in Nat
    BY RecordAssumption DEF Matching, TypeOK
  <2> QED BY <2>1 DEF Precedes
<1>2. S \in SUBSET (M \ {r})
  BY <1>1
<1>3. IsFiniteSet(M) /\ Cardinality(M) \in Nat /\ IsFiniteSet(S) /\ Cardinality(S) \in Nat
  BY MatchingType
<1>4. IsFiniteSet(M \ {r}) /\ Cardinality(M \ {r}) = Cardinality(M) - 1
  BY <1>3, FS_RemoveElement
<1>5. Cardinality(S) <= Cardinality(M \ {r})
  BY <1>2, <1>4, FS_Subset
<1>6. Cardinality(S) < Cardinality(M)
  BY <1>3, <1>4, <1>5
<1>7. /\ Cardinality(S) \div PageSize \in Nat
      /\ Cardinality(S) \div PageSize + 1 <= (Cardinality(M) + PageSize - 1) \div PageSize
  BY <1>3, <1>6, OverlapType, DivBounds, DivCeiling
<1>8. (Cardinality(M) + PageSize - 1) \div PageSize \in Nat
  BY <1>3, OverlapType, DivBounds
<1> QED BY <1>7, <1>8 DEF Position, PageCount

\* A record that is not listed yet lies behind no window to come.
LEMMA LateIsAhead ==
  ASSUME TypeOK, CursorsPast, Punctual, NEW n \in Record \ listed
  PROVE  StartOf(OfSource[n]) <= at[n]
<1> DEFINE c == cursor[IdOf[OfSource[n]]]
<1>1. /\ at[n] \in Nat /\ now \in Nat /\ OfSource[n] \in Source
      /\ now <= at[n] + MaxLate /\ Initial <= at[n]
  BY RecordAssumption DEF TypeOK, Times, Punctual
<1>2. c # None => c \in Nat /\ c <= now
  BY <1>1, IdType DEF TypeOK, Times, CursorsPast
<1> QED BY <1>1, <1>2, OverlapType DEF StartOf

\* However many records are listed, none moves to an earlier page.
LEMMA PositionGrows ==
  ASSUME TypeOK, TypeOK', listed \subseteq listed', UNCHANGED <<at, newest, turn, window>>,
         NEW n \in Int, NEW r, n <= Position(r)
  PROVE  n <= Position(r)'
<1> DEFINE S == {q \in Matching(window) : Precedes(q, r)}
<1>1. S \subseteq S'
  BY DEF Matching, Precedes
<1>2. IsFiniteSet(S') /\ Cardinality(S') \in Nat /\ Cardinality(S) \in Nat
  <2>1. S' \in SUBSET Record /\ S \in SUBSET Record
    BY DEF Matching, TypeOK
  <2> QED BY <2>1, FiniteRecords
<1>3. Cardinality(S) <= Cardinality(S')
  BY <1>1, <1>2, FS_Subset
<1>4. /\ Cardinality(S) \div PageSize <= Cardinality(S') \div PageSize
      /\ Cardinality(S) \div PageSize \in Nat /\ Cardinality(S') \div PageSize \in Nat
  BY <1>2, <1>3, OverlapType, DivMonotone, DivBounds
<1> QED BY <1>4 DEF Position

\* A fetch takes a record of the window, or leaves it on a page still to come.
LEMMA FetchTakes ==
  ASSUME TypeOK, FetchPage, NEW r \in Matching(window), page - 1 <= Position(r)
  PROVE  \/ r \in todo'
         \/ page' <= pages' /\ page' - 1 <= Position(r)'
<1>1. /\ UNCHANGED <<at, newest, listed, turn, window>>
      /\ page' = page + 1 /\ pages' = PageCount(window) /\ page \in Nat
      /\ todo' = todo \cup PageOf(window, page)
  BY DEF FetchPage, outside, TypeOK
<1>2. Position(r)' = Position(r)
  BY <1>1 DEF Position, Matching, Precedes
<1>3. Position(r) \in Nat /\ Position(r) + 1 <= PageCount(window) /\ PageCount(window) \in Nat
  BY PositionBound, PageCountType
<1>4. CASE page - 1 = Position(r)
  BY <1>1, <1>4 DEF PageOf, Position
<1>5. CASE page <= Position(r)
  BY <1>1, <1>2, <1>3, <1>5
<1> QED BY <1>1, <1>3, <1>4, <1>5

-----------------------------------------------------------------------------
(* The collector: type correctness. *)

\* Every step keeps the variables in their types.  A saved cursor is a time of the
\* model because the window ends no later than the clock.
LEMMA TypeStep == TypeOK /\ WindowFromCursor /\ [Next]_vars => TypeOK'
<1> SUFFICES ASSUME TypeOK, WindowFromCursor, [Next]_vars PROVE TypeOK'
  OBVIOUS
<1> USE DEF outside, call, Times
<1>1. turn \in Source /\ Following(turn) \in Source
  BY IdType DEF TypeOK
<1>2. Leave => window' = None /\ todo' = {} /\ page' \in Nat \ {0} /\ pages' \in Nat \ {0}
               /\ turn' \in Source /\ up' \in BOOLEAN
  BY <1>1 DEF Leave, TypeOK
<1>3. ASSUME NEW r \in Record, List(r) PROVE TypeOK'
  BY <1>3 DEF List, TypeOK
<1>4. CASE Tick
  BY <1>4, OverlapType DEF Tick, TypeOK
<1>5. CASE Start
  BY <1>5 DEF Start, TypeOK
<1>6. CASE Open
  <2>1. StartOf(turn) \in Nat
    BY <1>1, StartOfType
  <2>2. EndOf(turn) \in Nat
    BY <2>1, OverlapType DEF EndOf, TypeOK
  <2> QED BY <1>6, <2>1, <2>2 DEF Open, TypeOK, Window
<1>7. CASE Skip
  BY <1>2, <1>7 DEF Skip, TypeOK
<1>8. CASE FetchPage
  <2>1. PageOf(window, page) \subseteq Record
    BY DEF PageOf, Matching, TypeOK
  <2> QED BY <1>8, <2>1, PageCountType DEF FetchPage, TypeOK
<1>9. ASSUME NEW r \in Record, Handle(r) PROVE TypeOK'
  BY <1>9 DEF Handle, Finish, TypeOK
<1>10. ASSUME NEW r \in Record, Reject(r) PROVE TypeOK'
  BY <1>2, <1>10 DEF Reject, TypeOK
<1>11. CASE Save
  <2>1. window.end \in Times
    BY <1>11, OverlapType DEF Save, Handling, TypeOK, Window, WindowFromCursor
  <2> QED BY <1>2, <1>11, <2>1 DEF Save, TypeOK
<1>12. CASE FetchFails
  BY <1>2, <1>12, BoundAssumption DEF FetchFails, TypeOK
<1>13. ASSUME NEW r \in Record, PublishFails(r) PROVE TypeOK'
  BY <1>2, <1>13, BoundAssumption DEF PublishFails, TypeOK
<1>14. CASE Crash
  <2>1. 1 \in Source
    BY RecordAssumption DEF Source
  <2>2. faults' \in 0..MaxFaults
    BY <1>14, BoundAssumption DEF Crash, TypeOK
  <2>3. up' \in BOOLEAN
    BY <1>14 DEF Crash
  <2>4. UNCHANGED <<now, at, newest, listed, cursor, sent>>
    BY <1>14 DEF Crash
  <2>5. window' = None /\ todo' = {} /\ page' = 1 /\ pages' = 1 /\ turn' = 1
    BY <1>14 DEF Crash
  <2> QED BY <2>1, <2>2, <2>3, <2>4, <2>5 DEF TypeOK
<1>15. CASE UNCHANGED vars
  BY <1>15 DEF vars, TypeOK
<1> QED BY <1>3, <1>4, <1>5, <1>6, <1>7, <1>8, <1>9, <1>10, <1>11, <1>12, <1>13, <1>14, <1>15
        DEF Next, Collect

-----------------------------------------------------------------------------
(* The collector: safety; the steps outside a call, then those of one. *)

\* What the steps that fetch and publish leave alone: the clock, the interface and the cursors.
LEMMA Frame ==
  ASSUME CollectorInv, TypeOK', UNCHANGED <<outside, cursor>>
  PROVE  CursorsPast' /\ Punctual' /\ (sent \subseteq sent' => NothingSkipped')
<1>1. \A s : StartOf(s)' = StartOf(s)
  BY DEF StartOf
<1> QED BY <1>1 DEF CollectorInv, CursorsPast, Punctual, NothingSkipped, outside, Poison, Blank

\* Time passes: nothing that is not listed is later than it may be.
LEMMA TickStep == CollectorInv /\ TypeOK' /\ Tick => CollectorInv'
<1> SUFFICES ASSUME CollectorInv, TypeOK', Tick PROVE CollectorInv'
  OBVIOUS
<1> USE DEF call
<1>1. now' = now + 1 /\ now \in Nat
  BY DEF Tick, CollectorInv, TypeOK, Times
<1>2. CursorsPast'
  BY <1>1, OverlapType DEF Tick, CollectorInv, TypeOK, Times, CursorsPast
<1>3. Punctual'
  BY <1>1, OverlapType DEF Tick, CollectorInv, TypeOK, Times, Punctual
<1>4. \A s : StartOf(s)' = StartOf(s)
  BY DEF Tick, StartOf
<1>5. WindowFromCursor' /\ FirstPage'
  BY <1>1, <1>4 DEF Tick, CollectorInv, TypeOK, WindowFromCursor, FirstPage, Window
<1>6. PagesComplete'
  <2>1. \A r : Settled(r)' = Settled(r) /\ Position(r)' = Position(r)
    BY DEF Tick, Settled, Position, Matching, Precedes
  <2> QED BY <2>1 DEF Tick, CollectorInv, PagesComplete
<1>7. NothingSkipped'
  BY <1>4 DEF Tick, CollectorInv, NothingSkipped
<1> QED BY <1>2, <1>3, <1>5, <1>6, <1>7 DEF CollectorInv

\* A record that is listed is at most MaxLate old: it lies behind no cursor, and none of
\* the records listed before it moves to an earlier page.
LEMMA ListStep ==
  ASSUME CollectorInv, TypeOK', NEW n \in Record, List(n)
  PROVE  CollectorInv'
<1> USE DEF call
<1>1. /\ TypeOK /\ CursorsPast /\ Punctual /\ WindowFromCursor /\ FirstPage
      /\ PagesComplete /\ NothingSkipped
      /\ listed' = listed \cup {n} /\ n \notin listed
      /\ UNCHANGED <<now, at, newest, cursor, up, turn, window, page, pages, todo, sent>>
  BY DEF CollectorInv, List
<1>2. /\ at[n] \in Nat /\ now \in Nat /\ OfSource[n] \in Source
      /\ now <= at[n] + MaxLate /\ Initial <= at[n]
  BY <1>1, RecordAssumption DEF TypeOK, Times, Punctual
<1>3. \A s : StartOf(s)' = StartOf(s)
  BY <1>1 DEF StartOf
<1>4. CursorsPast' /\ Punctual' /\ WindowFromCursor' /\ FirstPage'
  BY <1>1, <1>3 DEF CursorsPast, Punctual, WindowFromCursor, FirstPage
<1>5. StartOf(OfSource[n]) <= at[n]
  BY <1>1, LateIsAhead
<1>6. NothingSkipped'
  BY <1>1, <1>3, <1>5 DEF NothingSkipped
<1>7. ASSUME NEW r \in listed, page - 1 <= Position(r)
      PROVE  page - 1 <= Position(r)'
  <2>1. page - 1 \in Int
    BY <1>1 DEF TypeOK
  <2> QED BY <1>1, <1>7, <2>1, PositionGrows
<1>8. PagesComplete'
  <2>1. \A r : Settled(r)' = Settled(r)
    BY <1>1 DEF Settled
  <2>2. window # None => ~Settled(n)
    BY <1>1, <1>2, OverlapType DEF WindowFromCursor, Settled, TypeOK, Window
  <2> QED BY <1>1, <1>7, <2>1, <2>2 DEF PagesComplete
<1> QED BY <1>4, <1>6, <1>8 DEF CollectorInv

\* Between two calls there is nothing to say of a window.
LEMMA LeaveStep ==
  ASSUME CollectorInv, TypeOK', UNCHANGED <<outside, cursor>>,
         window' = None, page' = 1, pages' = 1, sent \subseteq sent'
  PROVE  CollectorInv'
<1>1. WindowFromCursor' /\ FirstPage' /\ PagesComplete'
  BY DEF WindowFromCursor, FirstPage, PagesComplete
<1> QED BY <1>1, Frame DEF CollectorInv

\* A new window is made from the cursor, and has its first page to fetch.
LEMMA OpenStep == CollectorInv /\ TypeOK' /\ (\/ Open \/ Start) => CollectorInv'
<1>1. ASSUME CollectorInv, TypeOK', Start PROVE CollectorInv'
  <2>1. UNCHANGED <<now, at, newest, listed, cursor, turn, window, page, pages, todo, sent>>
    BY <1>1 DEF Start, outside
  <2>2. CursorsPast' /\ Punctual' /\ NothingSkipped'
    BY <1>1, <2>1, Frame DEF outside
  <2>3. WindowFromCursor' /\ FirstPage' /\ PagesComplete'
    BY <1>1, <2>1 DEF CollectorInv, WindowFromCursor, FirstPage, PagesComplete, StartOf, Settled,
                      Position, Matching, Precedes
  <2> QED BY <1>1, <2>2, <2>3 DEF CollectorInv
<1>2. ASSUME CollectorInv, TypeOK', Open PROVE CollectorInv'
  <2>1. /\ UNCHANGED <<now, at, newest, listed, cursor, turn, page, pages, todo, sent>>
        /\ window = None /\ window' = [start |-> StartOf(turn), end |-> EndOf(turn)]
    BY <1>2 DEF Open, outside
  <2>2. CursorsPast' /\ Punctual' /\ NothingSkipped'
    BY <1>2, <2>1, Frame DEF outside
  <2>3. /\ turn \in Source /\ StartOf(turn) \in Nat /\ now \in Nat
        /\ cursor[IdOf[turn]] # None =>
             /\ cursor[IdOf[turn]] \in Nat /\ cursor[IdOf[turn]] <= now
             /\ cursor[IdOf[turn]] <= StartOf(turn) + Overlap
    BY <1>2, StartOfType, IdType DEF CollectorInv, TypeOK, Times, CursorsPast
  <2>4. WindowFromCursor'
    <3>1. EndOf(turn) <= now /\ (cursor[IdOf[turn]] # None => cursor[IdOf[turn]] <= EndOf(turn))
      BY <2>3, OverlapType DEF EndOf
    <3>2. StartOf(turn)' = StartOf(turn)
      BY <2>1 DEF StartOf
    <3> QED BY <2>1, <3>1, <3>2 DEF WindowFromCursor
  <2>5. PagesComplete'
    <3>1. page' = 1 /\ pages' = 1
      BY <1>2, <2>1 DEF CollectorInv, FirstPage
    <3>2. \A r \in listed' : Position(r)' \in Nat
      <4>1. Matching(window)' \subseteq Record
        BY <1>2 DEF Matching, TypeOK
      <4> QED BY <4>1, FiniteRecords DEF Position
    <3> QED BY <3>1, <3>2 DEF PagesComplete
  <2>6. FirstPage'
    BY <1>2, <2>1 DEF CollectorInv, FirstPage
  <2> QED BY <1>2, <2>2, <2>4, <2>5, <2>6 DEF CollectorInv
<1> QED BY <1>1, <1>2

\* A page fetched takes the records that were on it; those after it are not fewer.
LEMMA FetchStep == CollectorInv /\ TypeOK' /\ FetchPage => CollectorInv'
<1> SUFFICES ASSUME CollectorInv, TypeOK', FetchPage PROVE CollectorInv'
  OBVIOUS
<1>1. /\ UNCHANGED <<now, at, newest, listed, cursor, turn, window, sent>>
      /\ window # None /\ page <= pages /\ page' = page + 1 /\ pages' = PageCount(window)
      /\ todo' = todo \cup PageOf(window, page)
      /\ page \in Nat /\ TypeOK
  BY DEF FetchPage, outside, CollectorInv, TypeOK
<1>2. CursorsPast' /\ Punctual' /\ NothingSkipped'
  BY <1>1, Frame DEF outside
<1>3. WindowFromCursor' /\ FirstPage'
  BY <1>1 DEF CollectorInv, WindowFromCursor, FirstPage, StartOf
<1>4. ASSUME NEW r \in listed, Settled(r)
      PROVE  \/ r \in todo' \cup sent \cup Blank
             \/ page' <= pages' /\ page' - 1 <= Position(r)'
  <2>1. r \in Matching(window)
    <3>1. at[r] \in Nat /\ window.end \in Nat
      BY <1>1, OverlapType DEF TypeOK, Times, Window
    <3> QED BY <1>4, <3>1, OverlapType DEF Settled, Matching
  <2>2. CASE r \in todo \cup sent \cup Blank
    BY <1>1, <2>2
  <2>3. CASE page - 1 <= Position(r)
    BY <1>1, <2>1, <2>3, FetchTakes
  <2> QED BY <1>1, <1>4, <2>2, <2>3 DEF CollectorInv, PagesComplete
<1>5. PagesComplete'
  <2>1. \A r : Settled(r)' = Settled(r)
    BY <1>1 DEF Settled
  <2> QED BY <1>1, <1>4, <2>1 DEF PagesComplete, Blank
<1> QED BY <1>2, <1>3, <1>5 DEF CollectorInv

\* A record handled is sent, or has nothing to send.
LEMMA HandleStep ==
  ASSUME CollectorInv, TypeOK', NEW n \in Record, Finish(n)
  PROVE  CollectorInv'
<1>1. /\ UNCHANGED <<now, at, newest, listed, cursor, turn, window, page, pages>>
      /\ todo' = todo \ {n} /\ sent' = IF n \in Blank THEN sent ELSE sent \cup {n}
  BY DEF Finish, outside
<1>2. CursorsPast' /\ Punctual' /\ NothingSkipped'
  BY <1>1, Frame DEF outside
<1>3. WindowFromCursor' /\ FirstPage'
  BY <1>1 DEF CollectorInv, WindowFromCursor, FirstPage, StartOf
<1>4. PagesComplete'
  <2>1. \A r : Settled(r)' = Settled(r) /\ Position(r)' = Position(r)
    BY <1>1 DEF Settled, Position, Matching, Precedes
  <2>2. todo \cup sent \cup Blank \subseteq todo' \cup sent' \cup Blank'
    BY <1>1 DEF Blank
  <2> QED BY <1>1, <2>1, <2>2 DEF CollectorInv, PagesComplete
<1> QED BY <1>2, <1>3, <1>4 DEF CollectorInv

\* The window's records are all sent when the cursor moves, but for those that were
\* late: the overlap goes back to them.
LEMMA SaveStep == CollectorInv /\ TypeOK' /\ Save => CollectorInv'
<1> SUFFICES ASSUME CollectorInv, TypeOK', Save PROVE CollectorInv'
  OBVIOUS
<1>1. /\ UNCHANGED <<now, at, newest, listed, sent>>
      /\ window # None /\ page > pages /\ todo = {}
      /\ cursor' = [cursor EXCEPT ![IdOf[turn]] = window.end]
      /\ window' = None /\ page' = 1 /\ pages' = 1
      /\ TypeOK /\ turn \in Source /\ window \in Window /\ page \in Nat /\ pages \in Nat
  BY DEF Save, Handling, Leave, outside, CollectorInv, TypeOK
<1>2. /\ window.start = StartOf(turn) /\ window.end <= now
      /\ window.start \in Nat /\ window.end \in Nat /\ now \in Nat
  BY <1>1 DEF CollectorInv, WindowFromCursor, Window, TypeOK, Times
<1>3. /\ IdOf[turn] \in SourceId /\ cursor'[IdOf[turn]] = window.end
      /\ \A i \in SourceId : i # IdOf[turn] => cursor'[i] = cursor[i]
  BY <1>1, IdType DEF TypeOK
<1>4. CursorsPast' /\ Punctual' /\ WindowFromCursor' /\ FirstPage' /\ PagesComplete'
  BY <1>1, <1>2, <1>3 DEF CollectorInv, CursorsPast, Punctual, WindowFromCursor, FirstPage,
                          PagesComplete
<1>5. ASSUME NEW r \in listed \ (sent \cup Blank)
      PROVE  StartOf(OfSource[r])' <= at[r]
  <2>1. /\ r \in Record /\ OfSource[r] \in Source /\ at[r] \in Nat
        /\ Initial <= at[r] /\ StartOf(OfSource[r]) <= at[r]
    BY <1>1, RecordAssumption DEF CollectorInv, TypeOK, Times, Punctual, NothingSkipped
  <2>2. CASE OfSource[r] # turn
    <3>1. cursor'[IdOf[OfSource[r]]] = cursor[IdOf[OfSource[r]]]
      BY <1>1, <1>3, <2>1, <2>2, IdType
    <3> QED BY <2>1, <3>1 DEF StartOf
  <2>3. CASE OfSource[r] = turn
    <3>1. ~Settled(r)
      BY <1>1, <1>5 DEF CollectorInv, PagesComplete
    <3>2. window.end <= at[r] + MaxLate
      BY <1>2, <2>1, <2>3, <3>1, OverlapType DEF Settled
    <3> QED BY <1>2, <1>3, <2>1, <2>3, <3>2, OverlapType DEF StartOf
  <2> QED BY <2>2, <2>3
<1>6. NothingSkipped'
  BY <1>1, <1>5 DEF NothingSkipped, Blank
<1> QED BY <1>4, <1>6 DEF CollectorInv

-----------------------------------------------------------------------------
(* The collector: theorems. *)

\* The inductive invariant holds before the first call.
LEMMA InvInit == Init => CollectorInv
<1> SUFFICES ASSUME Init PROVE CollectorInv
  OBVIOUS
<1>1. at \in [Record -> Times] /\ \A r \in Record : at[r] \in Nat /\ Initial <= at[r]
  BY OverlapType DEF Init, Times
<1>2. 1 \in Source
  BY RecordAssumption DEF Source
<1>3. TypeOK
  <2>1. now \in Times /\ faults \in 0..MaxFaults
    BY BoundAssumption DEF Init, Times
  <2>2. cursor \in [SourceId -> Times \cup {None}]
    BY DEF Init
  <2>3. newest \in BOOLEAN /\ up \in BOOLEAN
    BY DEF Init
  <2>4. listed = {} /\ todo = {} /\ sent = {} /\ turn = 1 /\ window = None /\ page = 1 /\ pages = 1
    BY DEF Init
  <2> QED BY <1>1, <1>2, <2>1, <2>2, <2>3, <2>4 DEF TypeOK
<1>4. CursorsPast /\ WindowFromCursor /\ FirstPage /\ PagesComplete /\ NothingSkipped
  BY DEF Init, CursorsPast, WindowFromCursor, FirstPage, PagesComplete, NothingSkipped
<1>5. Punctual
  BY <1>1, OverlapType DEF Init, Punctual
<1> QED BY <1>3, <1>4, <1>5 DEF CollectorInv

\* Every step keeps the inductive invariant.
LEMMA InvStep == CollectorInv /\ [Next]_vars => CollectorInv'
<1> SUFFICES ASSUME CollectorInv, [Next]_vars PROVE CollectorInv'
  OBVIOUS
<1>1. TypeOK'
  BY TypeStep DEF CollectorInv
<1>2. ASSUME NEW r \in Record, List(r) \/ Handle(r) PROVE CollectorInv'
  BY <1>1, <1>2, ListStep, HandleStep DEF Handle
<1>3. CASE Skip \/ FetchFails \/ Crash
  BY <1>1, <1>3, LeaveStep DEF Skip, FetchFails, Crash, Leave, outside
<1>4. ASSUME NEW r \in Record, Reject(r) \/ PublishFails(r) PROVE CollectorInv'
  <2>1. sent \subseteq sent' /\ UNCHANGED <<outside, cursor>> /\ Leave
    BY <1>4 DEF Reject, PublishFails
  <2> QED BY <1>1, <2>1, LeaveStep DEF Leave
<1>5. CASE Tick \/ Open \/ Start \/ FetchPage \/ Save
  BY <1>1, <1>5, TickStep, OpenStep, FetchStep, SaveStep
<1>6. CASE UNCHANGED vars
  BY <1>6 DEF vars, CollectorInv, TypeOK, CursorsPast, Punctual, WindowFromCursor, FirstPage,
              PagesComplete, NothingSkipped, Settled, Position, Matching, Precedes,
              StartOf, Blank
<1> QED BY <1>2, <1>3, <1>4, <1>5, <1>6 DEF Next, Collect

\* The inductive invariant holds in every reachable state.
THEOREM Invariance == Spec => []CollectorInv
BY InvInit, InvStep, PTL DEF Spec

\* Every variable keeps its type; cursors are times that have been.
THEOREM TypeCorrect == Spec => []TypeOK
<1>1. CollectorInv => TypeOK
  BY DEF CollectorInv
<1> QED BY <1>1, Invariance, PTL

\* A record the broker lacks is never behind the next window of its source: not when it
\* is listed late, moves between pages, is rejected, fails or meets a crash.
THEOREM NoneSkipped == Spec => []NothingSkipped
<1>1. CollectorInv => NothingSkipped
  BY DEF CollectorInv
<1> QED BY <1>1, Invariance, PTL

\* A cursor moves only forward, and never past the clock.
THEOREM CursorsInStep == Spec => CursorInStep
<1>1. ASSUME CollectorInv, [Next]_vars, NEW s \in SourceId, cursor'[s] # cursor[s]
      PROVE  cursor'[s] <= now /\ (cursor[s] # None => cursor[s] <= cursor'[s])
  <2>1. CASE Save
    <3>1. /\ cursor' = [cursor EXCEPT ![IdOf[turn]] = window.end]
          /\ window # None /\ cursor \in [SourceId -> Times \cup {None}]
      BY <1>1, <2>1 DEF Save, Handling, CollectorInv, TypeOK
    <3>2. s = IdOf[turn] /\ cursor'[s] = window.end
      BY <1>1, <3>1
    <3> QED BY <3>1, <3>2, <1>1 DEF CollectorInv, WindowFromCursor
  <2>2. CASE ~Save
    <3>1. UNCHANGED cursor
      BY <1>1, <2>2 DEF Next, Collect, vars, List, Tick, Start, Open, Skip, FetchPage, Handle,
                        Finish, Reject, FetchFails, PublishFails, Crash
    <3> QED BY <1>1, <3>1
  <2> QED BY <2>1, <2>2
<1>2. CollectorInv /\ [Next]_vars =>
        [\A s \in SourceId : cursor'[s] # cursor[s] =>
           /\ cursor'[s] <= now
           /\ (cursor[s] # None => cursor[s] <= cursor'[s])]_vars
  BY <1>1
<1> QED BY <1>2, Invariance, PTL DEF Spec, CursorInStep

-----------------------------------------------------------------------------
(* The pipeline: its inductive invariant. *)

\* What is there as configure goes through its calls.
RulesInOrder ==
  /\ \A o \in emqx : Uses(o) \subseteq emqx
  /\ step = 0 => emqx = Object
  /\ step \in 6..8 => "connector" \in emqx
  /\ step \in 7..8 => "action" \in emqx
  /\ step = 8 => "rule" \in emqx

\* A run of configure has a beginning, and lasts MaxGap at most.
RunIsShort ==
  /\ step = 0 <=> since = None
  /\ since # None => since <= now /\ now <= since + MaxGap

\* What has been fetched is of the window.
TodoInWindow ==
  /\ window = None => todo = {}
  /\ window # None => \A r \in todo : OfSource[r] = turn /\ window.start <= at[r]

\* What is owed is not much older than the run of configure under way.
LacksOnlyRecent == since # None => \A r \in Owed : since <= at[r] + MaxLag + MaxLate

\* What is owed in the window being collected is near its end, yet to be handled, or was
\* handled by a call that raised.
LacksOnlyPending ==
  window # None =>
    \A r \in Owed : OfSource[r] = turn =>
      \/ window.end <= at[r] + Overlap
      \/ r \in todo \cup refused
      \/ page <= pages /\ page - 1 <= Position(r)

PipelineInv ==
  /\ CollectorInv
  /\ PipelineTypeOK
  /\ RulesInOrder
  /\ RunIsShort
  /\ TodoInWindow
  /\ LacksOnlyRecent
  /\ LacksOnlyPending
  /\ NothingLost

-----------------------------------------------------------------------------
(* configure: its calls, and how long it has been at them. *)

\* There are eight calls, four deletions and then four creations.
LEMMA CallsDomain == DOMAIN Calls = 1..8 /\ Len(Calls) = 8
BY DEF Calls

LEMMA CallsOrder ==
  ASSUME NEW i \in 1..8
  PROVE  /\ i <= 4 => Calls[i][1] = "delete"
         /\ i > 4  => Calls[i][1] = "create"
         /\ Calls[i][2] \in Object
         /\ i = 5 => Calls[i][2] = "connector"
         /\ i = 6 => Calls[i][2] = "action"
         /\ i = 7 => Calls[i][2] = "rule"
         /\ i = 8 => Calls[i][2] = "raw rule"
<1>1. CASE i = 1
  BY <1>1 DEF Calls, Object
<1>2. CASE i = 2
  BY <1>2 DEF Calls, Object
<1>3. CASE i = 3
  BY <1>3 DEF Calls, Object
<1>4. CASE i = 4
  BY <1>4 DEF Calls, Object
<1>5. CASE i = 5
  BY <1>5 DEF Calls, Object
<1>6. CASE i = 6
  BY <1>6 DEF Calls, Object
<1>7. CASE i = 7
  BY <1>7 DEF Calls, Object
<1>8. CASE i = 8
  BY <1>8 DEF Calls, Object
<1>9. i = 1 \/ i = 2 \/ i = 3 \/ i = 4 \/ i = 5 \/ i = 6 \/ i = 7 \/ i = 8
  OBVIOUS
<1> QED BY <1>1, <1>2, <1>3, <1>4, <1>5, <1>6, <1>7, <1>8, <1>9

\* A call that is answered moves to the next one, and from the last one to the end.
LEMMA NextCall ==
  ASSUME NEW i \in 1..8
  PROVE  (i + 1) % 9 = IF i = 8 THEN 0 ELSE i + 1
BY SMT

\* What a call that is answered does.
LEMMA CallEffect ==
  ASSUME Call
  PROVE  /\ step \in 1..8 /\ step' = IF step = 8 THEN 0 ELSE step + 1
         /\ step <= 4 => \/ emqx' = emqx
                         \/ \E o \in Object : /\ emqx' = emqx \ {o}
                                             /\ \A p \in emqx : o \notin Uses(p)
         /\ step > 4 => emqx' = emqx \cup {Calls[step][2]}
         /\ UNCHANGED <<vars, runs, database>> /\ since' = IF step' = 0 THEN None ELSE since
<1>1. step \in 1..8 /\ step' = (step + 1) % 9
  BY CallsDomain DEF Call
<1>2. step' = IF step = 8 THEN 0 ELSE step + 1
  BY <1>1, NextCall
<1>3. Calls[step][2] \in Object
  BY <1>1, CallsOrder
<1>4. step <= 4 => Calls[step][1] = "delete"
  BY <1>1, CallsOrder
<1>5. step > 4 => Calls[step][1] = "create"
  BY <1>1, CallsOrder
<1>6. UNCHANGED <<vars, runs, database>> /\ since' = IF step' = 0 THEN None ELSE since
  BY DEF Call
<1>7. ASSUME step <= 4
      PROVE  \/ emqx' = emqx
             \/ \E o \in Object : emqx' = emqx \ {o} /\ \A p \in emqx : o \notin Uses(p)
  BY <1>3, <1>4, <1>7 DEF Call
<1>8. ASSUME step > 4
      PROVE  emqx' = emqx \cup {Calls[step][2]}
  BY <1>5, <1>8 DEF Call
<1> QED BY <1>1, <1>2, <1>6, <1>7, <1>8

\* What a call that fails does.
LEMMA FailEffect ==
  ASSUME CallFails
  PROVE  /\ step \in 1..8 /\ step' = IF step <= 4 THEN step + 1 ELSE Died
         /\ UNCHANGED <<outside, cursor, call, sent, emqx, since, runs, database>>
         /\ faults < MaxFaults /\ faults' = faults + 1
<1>1. step \in 1..8
  BY CallsDomain DEF CallFails
<1>2. CASE step <= 4
  <2>1. Calls[step][1] = "delete"
    BY <1>1, <1>2, CallsOrder
  <2> QED BY <1>1, <1>2, <2>1 DEF CallFails
<1>3. CASE step > 4
  <2>1. Calls[step][1] = "create"
    BY <1>1, <1>3, CallsOrder
  <2> QED BY <1>1, <1>3, <2>1 DEF CallFails
<1> QED BY <1>1, <1>2, <1>3

\* A record of the collector's is not ahead, and the steps of configure are none of its.
LEMMA CollectorStep == PipelineInv /\ [PipelineNext]_allVars => CollectorInv'
<1> SUFFICES ASSUME PipelineInv, [PipelineNext]_allVars PROVE CollectorInv'
  OBVIOUS
<1>1. CASE CallFails
  <2>1. /\ UNCHANGED <<outside, cursor, call, sent>>
        /\ faults < MaxFaults /\ faults' = faults + 1
    BY <1>1 DEF CallFails
  <2>2. faults' \in 0..MaxFaults
    BY <2>1, BoundAssumption DEF PipelineInv, CollectorInv, TypeOK
  <2>3. TypeOK'
    BY <2>1, <2>2 DEF PipelineInv, CollectorInv, TypeOK, outside, call
  <2> QED
    BY <2>1, <2>3 DEF PipelineInv, CollectorInv, CursorsPast, Punctual, WindowFromCursor,
                      FirstPage, PagesComplete, NothingSkipped, Settled, Position, Matching,
                      Precedes, StartOf, Blank, outside, call
<1>2. ASSUME NEW r \in Record, CallRaises(r) PROVE CollectorInv'
  <2>1. faults' \in 0..MaxFaults
    BY <1>2, BoundAssumption DEF CallRaises, PipelineInv, CollectorInv, TypeOK
  <2>2. TypeOK'
    BY <1>2, <2>1 DEF CallRaises, Finish, PipelineInv, CollectorInv, TypeOK, outside
  <2> QED BY <1>2, <2>2, HandleStep DEF CallRaises, PipelineInv
<1>3. CASE [Next]_vars
  BY <1>3, InvStep DEF PipelineInv
<1>4. CallFails \/ (\E r \in Record : CallRaises(r)) \/ [Next]_vars
  BY DEF PipelineNext, CollectStep, CollectFails, Deliver, Blank, PassTime, ListRecord,
         Configure, Call, allVars, Next, Collect
<1> QED BY <1>1, <1>2, <1>3, <1>4

\* The rows of the database are records, whichever a message replaces.
LEMMA ArrivedType == ASSUME NEW r \in Record, stored \subseteq Record
                     PROVE  Arrived(r) \subseteq Record
BY DEF Arrived

\* What a step can do to the interface's records and to the rows, and that a call raises
\* or ends well only for a record in hand.
LEMMA DataStep ==
  ASSUME PipelineTypeOK, [PipelineNext]_allVars
  PROVE  /\ at' = at /\ listed \subseteq listed'
         /\ stored' = stored \/ \E r \in Record : stored' = Arrived(r)
         /\ \/ refused' = refused
            \/ \E r \in Record : /\ Handling /\ r \in todo
                                 /\ refused' \in {refused \cup {r}, refused \ {r}}
<1>1. CASE CollectStep
  BY <1>1 DEF CollectStep, Deliver, Blank, Start, Open, Skip, FetchPage, Save, Reject, Handle,
              Finish, outside, database
<1>2. CASE CollectFails
  BY <1>2 DEF CollectFails, CallRaises, Finish, FetchFails, Crash, PublishFails, outside, database
<1>3. CASE PassTime \/ ListRecord
  BY <1>3 DEF PassTime, ListRecord, Tick, List, database
<1>4. CASE Configure \/ Call \/ CallFails \/ UNCHANGED allVars
  BY <1>4 DEF Configure, Call, CallFails, allVars, vars, outside, database
<1> QED BY <1>1, <1>2, <1>3, <1>4 DEF PipelineNext

\* Every variable of configure keeps its type.
LEMMA PipelineTypeStep == PipelineInv /\ [PipelineNext]_allVars => PipelineTypeOK'
<1> SUFFICES ASSUME PipelineInv, [PipelineNext]_allVars PROVE PipelineTypeOK'
  OBVIOUS
<1>1. TypeOK' /\ PipelineTypeOK
  BY CollectorStep DEF PipelineInv, CollectorInv
<1>2. stored' \subseteq Record /\ refused' \subseteq Record
  BY <1>1, DataStep, ArrivedType DEF PipelineTypeOK
<1>3. CASE Configure
  <2>1. emqx' = emqx /\ step' = 1 /\ since' \in {since, now}
    BY <1>3 DEF Configure
  <2>2. runs' \in 0..MaxConfigures
    BY <1>1, <1>3, ConfigureAssumption DEF Configure, PipelineTypeOK
  <2>3. step' \in DOMAIN Calls
    BY <2>1, CallsDomain
  <2>4. now \in Times
    BY <1>1 DEF PipelineTypeOK, TypeOK
  <2> QED BY <1>1, <1>2, <2>1, <2>2, <2>3, <2>4 DEF PipelineTypeOK
<1>4. CASE Call
  <2>1. step \in 1..8 /\ step' = IF step = 8 THEN 0 ELSE step + 1
    BY <1>4, CallEffect
  <2>2. emqx' \subseteq Object
    <3>1. CASE step <= 4
      BY <1>1, <1>4, <2>1, <3>1, CallEffect DEF PipelineTypeOK
    <3>2. CASE step > 4
      <4>1. Calls[step][2] \in Object
        BY <2>1, CallsOrder
      <4> QED BY <1>1, <1>4, <3>2, <4>1, CallEffect DEF PipelineTypeOK
    <3> QED BY <2>1, <3>1, <3>2
  <2>3. since' \in Times \cup {None} /\ runs' = runs
    BY <1>1, <1>4 DEF Call, PipelineTypeOK
  <2>4. step' \in DOMAIN Calls \cup {0}
    BY <2>1, CallsDomain
  <2> QED BY <1>1, <1>2, <2>2, <2>3, <2>4 DEF PipelineTypeOK
<1>5. CASE CallFails
  <2>1. step' \in DOMAIN Calls \cup {Died}
    BY <1>5, FailEffect, CallsDomain
  <2>2. UNCHANGED <<emqx, since, runs>>
    BY <1>5 DEF CallFails
  <2> QED BY <1>1, <1>2, <2>1, <2>2 DEF PipelineTypeOK
<1>6. CASE UNCHANGED pipeline
  BY <1>1, <1>2, <1>6 DEF PipelineTypeOK, pipeline
<1> QED BY <1>3, <1>4, <1>5, <1>6 DEF PipelineNext, PassTime, ListRecord, allVars, pipeline

\* EMQX deletes nothing in use, and the calls create what the next ones need.
LEMMA RulesStep == PipelineInv /\ [PipelineNext]_allVars => RulesInOrder'
<1> SUFFICES ASSUME PipelineInv, [PipelineNext]_allVars PROVE RulesInOrder'
  OBVIOUS
<1>1. RulesInOrder /\ emqx \subseteq Object /\ emqx' \subseteq Object
  BY PipelineTypeStep DEF PipelineInv, PipelineTypeOK
<1>2. CASE Configure
  BY <1>1, <1>2 DEF Configure, RulesInOrder
<1>3. CASE Call
  <2>1. step \in 1..8 /\ step' = IF step = 8 THEN 0 ELSE step + 1
    BY <1>3, CallEffect
  <2>2. CASE step <= 4
    <3>1. emqx' # emqx => \E o \in Object : /\ emqx' = emqx \ {o}
                                          /\ \A p \in emqx : o \notin Uses(p)
      BY <1>3, <2>2, CallEffect
    <3>2. \A o \in emqx' : Uses(o) \subseteq emqx'
      BY <1>1, <3>1 DEF RulesInOrder
    <3>3. step' \in 2..5
      BY <2>1, <2>2
    <3> QED BY <3>2, <3>3 DEF RulesInOrder
  <2>3. CASE step > 4
    <3>1. emqx' = emqx \cup {Calls[step][2]}
      BY <1>3, <2>3, CallEffect
    <3>2. step \in 5..8
      BY <2>1, <2>3
    <3>3. /\ step = 5 => Calls[step][2] = "connector"
          /\ step = 6 => Calls[step][2] = "action"
          /\ step = 7 => Calls[step][2] = "rule"
          /\ step = 8 => Calls[step][2] = "raw rule"
      BY <2>1, CallsOrder
    <3>4. CASE step = 5
      BY <1>1, <2>1, <3>1, <3>3, <3>4 DEF RulesInOrder, Uses
    <3>5. CASE step = 6
      BY <1>1, <2>1, <3>1, <3>3, <3>5 DEF RulesInOrder, Uses
    <3>6. CASE step = 7
      BY <1>1, <2>1, <3>1, <3>3, <3>6 DEF RulesInOrder, Uses
    <3>7. CASE step = 8
      <4>1. emqx' = emqx \cup {"raw rule"} /\ step' = 0
            /\ {"connector", "action", "rule"} \subseteq emqx
        <5>1. emqx' = emqx \cup {"raw rule"}
          BY <3>1, <3>3, <3>7
        <5>2. {"connector", "action", "rule"} \subseteq emqx
          BY <1>1, <3>7 DEF RulesInOrder
        <5> QED BY <2>1, <3>7, <5>1, <5>2
      <4>2. emqx' = Object
        BY <1>1, <4>1 DEF Object
      <4>3. \A o \in emqx' : Uses(o) \subseteq emqx'
        BY <1>1, <4>1 DEF RulesInOrder, Uses
      <4> QED BY <4>1, <4>2, <4>3 DEF RulesInOrder
    <3> QED BY <3>2, <3>4, <3>5, <3>6, <3>7
  <2> QED BY <2>1, <2>2, <2>3
<1>4. CASE CallFails
  BY <1>1, <1>4, FailEffect DEF RulesInOrder, Died
<1>5. CASE UNCHANGED pipeline
  BY <1>1, <1>5 DEF RulesInOrder, pipeline
<1> QED BY <1>2, <1>3, <1>4, <1>5 DEF PipelineNext, PassTime, ListRecord, allVars, pipeline

\* Time does not pass beyond MaxGap while configure is at its calls.
LEMMA RunStep == PipelineInv /\ [PipelineNext]_allVars => RunIsShort'
<1> SUFFICES ASSUME PipelineInv, [PipelineNext]_allVars PROVE RunIsShort'
  OBVIOUS
<1>1. /\ RunIsShort /\ now \in Nat /\ now' \in Nat /\ since \in Nat \cup {None}
      /\ MaxGap \in Nat /\ None \notin Nat
  BY CollectorStep, ConfigureAssumption, OverlapType
     DEF PipelineInv, PipelineTypeOK, TypeOK, CollectorInv, Times
<1>2. CASE Configure
  <2>1. step' = 1 /\ now' = now /\ since' = IF step = Died THEN since ELSE now
    BY <1>2 DEF Configure, vars
  <2> QED BY <1>1, <2>1 DEF RunIsShort, Died
<1>3. CASE Call
  BY <1>1, <1>3, CallEffect DEF RunIsShort, vars
<1>4. CASE CallFails
  BY <1>1, <1>4, FailEffect DEF RunIsShort, Died, outside
<1>5. CASE PassTime
  BY <1>1, <1>5 DEF PassTime, Tick, RunIsShort, pipeline
<1>6. CASE UNCHANGED <<pipeline, now>>
  BY <1>1, <1>6 DEF RunIsShort, pipeline
<1> QED BY <1>2, <1>3, <1>4, <1>5, <1>6
        DEF PipelineNext, CollectStep, CollectFails, Deliver, CallRaises, ListRecord, List, Start,
            Open, Skip, FetchPage, Save, Reject, Handle, Finish, FetchFails, Crash, PublishFails,
            outside, allVars, vars

-----------------------------------------------------------------------------
(* The pipeline: what the database lacks. *)

\* A message replaces the row of the same observation, and no other.
LEMMA StillStored ==
  ASSUME PipelineTypeOK, [PipelineNext]_allVars, NEW r, InStore(r)
  PROVE  InStore(r)'
<1>1. PICK q \in stored : SameObservation(q, r)
  BY DEF InStore
<1>2. at' = at /\ (stored' = stored \/ \E n \in Record : stored' = Arrived(n))
  BY DataStep
<1>3. CASE stored' = stored
  BY <1>1, <1>2, <1>3 DEF InStore, SameObservation
<1>4. ASSUME NEW n \in Record, stored' = Arrived(n)
      PROVE  InStore(r)'
  <2>1. CASE q \in stored'
    BY <1>1, <1>2, <2>1 DEF InStore, SameObservation
  <2>2. CASE q \notin stored'
    <3>1. n \in stored' /\ SameObservation(q, n)
      BY <1>1, <1>4, <2>2 DEF Arrived
    <3>2. SameObservation(n, r)
      BY <1>1, <3>1 DEF SameObservation
    <3> QED BY <1>2, <3>1, <3>2 DEF InStore, SameObservation
  <2> QED BY <2>1, <2>2
<1> QED BY <1>2, <1>3, <1>4

\* A row with the rule in place is there afterwards.
LEMMA IsStored ==
  ASSUME NEW r \in Record, "rule" \in emqx, Storable(r), stored' = Arrived(r), at' = at
  PROVE  InStore(r)'
BY DEF Arrived, InStore, SameObservation

\* Nothing comes to be lacking but what is newly listed.
LEMMA LackingStep ==
  ASSUME PipelineTypeOK, [PipelineNext]_allVars, NEW r \in Lacking'
  PROVE  /\ r \in Record /\ r \in listed' /\ Healthy(OfSource[r]) /\ Due(r) /\ ~InStore(r)
         /\ r \in Lacking \/ r \notin listed
<1>1. r \in listed' /\ Healthy(OfSource[r]) /\ Due(r) /\ ~InStore(r)'
  BY DEF Lacking, Healthy, Due, Poison, Blank, Storable
<1>2. ~InStore(r)
  BY <1>1, StillStored
<1>3. r \in Record
  <2>1. CASE ListRecord
    BY <1>1, <2>1 DEF ListRecord, List, PipelineTypeOK, TypeOK
  <2>2. CASE ~ListRecord
    <3>1. listed' = listed
      BY <2>2 DEF PipelineNext, CollectStep, CollectFails, Deliver, CallRaises, PassTime,
                  Configure, Call, CallFails, Start, Open, Skip, FetchPage, Save, Reject, Handle,
                  Finish, FetchFails, Crash, PublishFails, Tick, outside, allVars, vars
    <3> QED BY <1>1, <3>1 DEF PipelineTypeOK, TypeOK
  <2> QED BY <2>1, <2>2
<1> QED BY <1>1, <1>2, <1>3 DEF Lacking

\* The types a record's times and cursor have.
LEMMA LackingType ==
  ASSUME PipelineInv, NEW r \in Record
  PROVE  /\ at[r] \in Nat /\ OfSource[r] \in Source /\ now \in Nat /\ Initial <= at[r]
         /\ cursor[IdOf[OfSource[r]]] # None => cursor[IdOf[OfSource[r]]] \in Nat
         /\ r \notin listed => now <= at[r] + MaxLate
         /\ MaxLag \in Nat /\ MaxGap \in Nat /\ MaxLate \in Nat /\ Overlap \in Nat
BY RecordAssumption, IdType, ConfigureAssumption, OverlapType
   DEF PipelineInv, CollectorInv, TypeOK, Times, Punctual

\* What has been fetched is of the window that is under way.
LEMMA TodoStep == PipelineInv /\ [PipelineNext]_allVars => TodoInWindow'
<1> SUFFICES ASSUME PipelineInv, [PipelineNext]_allVars PROVE TodoInWindow'
  OBVIOUS
<1>1. TodoInWindow /\ at' = at
  BY DataStep DEF PipelineInv
<1>2. CASE Open
  BY <1>1, <1>2 DEF Open, TodoInWindow
<1>3. CASE FetchPage
  BY <1>1, <1>3 DEF FetchPage, PageOf, Matching, TodoInWindow
<1>4. CASE UNCHANGED <<turn, window>> /\ todo' \subseteq todo
  BY <1>1, <1>4 DEF TodoInWindow
<1>5. CASE window' = None /\ todo' = {}
  BY <1>5 DEF TodoInWindow
<1>6. \/ Open \/ FetchPage
      \/ UNCHANGED <<turn, window>> /\ todo' \subseteq todo
      \/ window' = None /\ todo' = {}
  BY DEF PipelineNext, CollectStep, CollectFails, Deliver, CallRaises, PassTime, ListRecord,
         Configure, Call, CallFails, Start, Skip, Save, Reject, Handle, Finish, FetchFails, Crash,
         PublishFails, Leave, Tick, List, call, outside, allVars, vars
<1> QED BY <1>2, <1>3, <1>4, <1>5, <1>6

\* No source's next window begins earlier than it would have.
LEMMA StartGrows ==
  ASSUME PipelineInv, [PipelineNext]_allVars, NEW s \in Source
  PROVE  StartOf(s) \in Nat /\ StartOf(s)' \in Nat /\ StartOf(s) <= StartOf(s)'
<1>1. TypeOK /\ TypeOK' /\ WindowFromCursor
  BY CollectorStep DEF PipelineInv, CollectorInv
<1>2. StartOf(s) \in Nat /\ StartOf(s)' \in Nat
  <2>1. cursor'[IdOf[s]] \in Times \cup {None}
    BY <1>1, IdType DEF TypeOK
  <2>2. StartOf(s)' \in Nat
    BY <2>1, OverlapType DEF StartOf, Times
  <2> QED BY <1>1, <2>2, StartOfType
<1>3. CASE cursor'[IdOf[s]] = cursor[IdOf[s]]
  BY <1>2, <1>3 DEF StartOf
<1>4. CASE Save
  <2>1. /\ cursor' = [cursor EXCEPT ![IdOf[turn]] = window.end] /\ window # None
        /\ window \in Window /\ turn \in Source /\ cursor \in [SourceId -> Times \cup {None}]
    BY <1>1, <1>4 DEF Save, Handling, TypeOK
  <2>2. CASE IdOf[s] # IdOf[turn]
    <3>1. cursor'[IdOf[s]] = cursor[IdOf[s]]
      BY <2>1, <2>2
    <3> QED BY <1>3, <3>1
  <2>3. CASE IdOf[s] = IdOf[turn]
    <3> DEFINE c == cursor[IdOf[s]]
    <3>1. IdOf[s] \in SourceId
      BY IdType
    <3>2. cursor'[IdOf[s]] = window.end /\ window.end \in Nat
      BY <2>1, <2>3, <3>1 DEF Window
    <3>3. c \in Nat \cup {None} /\ (c # None => c <= window.end)
      BY <1>1, <2>1, <2>3, <3>1 DEF WindowFromCursor, Times
    <3> HIDE DEF c
    <3>4. StartOf(s) = IF c = None \/ c - Overlap < Initial THEN Initial ELSE c - Overlap
      BY DEF StartOf, c
    <3>5. StartOf(s)' = IF window.end = None \/ window.end - Overlap < Initial
                        THEN Initial ELSE window.end - Overlap
      BY <3>2 DEF StartOf
    <3> QED BY <3>2, <3>3, <3>4, <3>5, OverlapType
  <2> QED BY <2>2, <2>3
<1>5. cursor' = cursor \/ Save
  BY DEF PipelineNext, CollectStep, CollectFails, Deliver, CallRaises, PassTime, ListRecord,
         Configure, Call, CallFails, Start, Open, Skip, FetchPage, Reject, Handle, Finish,
         FetchFails, Crash, PublishFails, Tick, List, outside, allVars, vars
<1> QED BY <1>2, <1>3, <1>4, <1>5

\* What is owed lies where the next window begins or after.
LEMMA OwedAhead ==
  ASSUME PipelineInv, NEW r \in Owed
  PROVE  StartOf(OfSource[r]) <= at[r]
<1>1. r \in Lacking /\ ~Lapsed(r)
  BY DEF Owed
<1>2. r \in Record
  BY <1>1 DEF Lacking, PipelineInv, CollectorInv, TypeOK
<1>3. at[r] \in Nat /\ StartOf(OfSource[r]) \in Nat
  BY <1>2, LackingType, StartOfType DEF PipelineInv, CollectorInv
<1>4. at[r] < StartOf(OfSource[r]) => r \in refused
  BY <1>1 DEF PipelineInv, NothingLost
<1> QED BY <1>1, <1>3, <1>4 DEF Lapsed

\* Nothing comes to be owed but what is newly listed: a record that has lapsed is in no
\* window, so no call is made for it again.
LEMMA OwedStep ==
  ASSUME PipelineInv, [PipelineNext]_allVars, NEW r \in Owed'
  PROVE  /\ r \in Record /\ r \in listed' /\ Healthy(OfSource[r]) /\ Due(r) /\ ~InStore(r)
         /\ r \in Owed \/ r \notin listed
<1>1. PipelineTypeOK /\ r \in Lacking' /\ ~Lapsed(r)'
  BY DEF PipelineInv, Owed
<1>2. /\ r \in Record /\ r \in listed' /\ Healthy(OfSource[r]) /\ Due(r) /\ ~InStore(r)
      /\ r \in Lacking \/ r \notin listed
  BY <1>1, LackingStep
<1>3. ASSUME r \in Lacking, Lapsed(r) PROVE FALSE
  <2>1. /\ r \in refused /\ at[r] < StartOf(OfSource[r]) /\ at' = at
        /\ at[r] \in Nat /\ OfSource[r] \in Source
    BY <1>1, <1>2, <1>3, DataStep, LackingType DEF Lapsed
  <2>2. /\ StartOf(OfSource[r]) <= StartOf(OfSource[r])'
        /\ StartOf(OfSource[r]) \in Nat /\ StartOf(OfSource[r])' \in Nat
    BY <2>1, StartGrows
  <2>3. at[r] < StartOf(OfSource[r])'
    BY <2>1, <2>2
  <2>4. r \notin refused'
    BY <1>1, <2>1, <2>3 DEF Lapsed
  <2>5. window # None /\ r \in todo
    BY <1>1, <2>1, <2>4, DataStep DEF Handling
  <2>6. StartOf(OfSource[r]) <= at[r]
    BY <2>5 DEF PipelineInv, TodoInWindow, CollectorInv, WindowFromCursor
  <2> QED BY <2>1, <2>2, <2>6
<1> QED BY <1>2, <1>3 DEF Owed

\* configure is started when what is owed is recent.
LEMMA RecentStep == PipelineInv /\ [PipelineNext]_allVars => LacksOnlyRecent'
<1> SUFFICES ASSUME PipelineInv, [PipelineNext]_allVars, since' # None, NEW r \in Owed'
             PROVE  since' <= at[r]' + MaxLag + MaxLate
  BY DEF LacksOnlyRecent
<1>1. PipelineTypeOK /\ RunIsShort /\ LacksOnlyRecent
  BY DEF PipelineInv
<1>2. /\ r \in Record /\ Healthy(OfSource[r]) /\ at' = at
      /\ r \in Owed \/ r \notin listed
  BY <1>1, OwedStep, DataStep
<1>3. CASE since' = since
  <2>1. since \in Nat /\ since <= now
    BY <1>1, <1>3, OverlapType DEF PipelineTypeOK, RunIsShort, Times
  <2>2. CASE r \in Owed
    BY <1>1, <1>2, <1>3, <2>2 DEF LacksOnlyRecent
  <2>3. CASE r \notin listed
    BY <1>2, <1>3, <2>1, <2>3, LackingType
  <2> QED BY <1>2, <2>2, <2>3
<1>4. CASE Configure /\ step # Died
  <2>1. since' = now /\ CaughtUp /\ listed' = listed
    BY <1>4 DEF Configure, vars
  <2>2. r \in Owed
    BY <1>2, <2>1, OwedStep
  <2> DEFINE c == cursor[IdOf[OfSource[r]]]
  <2>3. c # None /\ now - c <= MaxLag /\ c <= at[r] + MaxLate
    BY <1>2, <2>1, <2>2, LackingType DEF CaughtUp
  <2> QED BY <1>2, <2>1, <2>3, LackingType
<1>5. since' = since \/ (Configure /\ step # Died)
  BY DEF PipelineNext, PassTime, ListRecord, Configure, Call, CallFails, pipeline, allVars
<1> QED BY <1>3, <1>4, <1>5

\* What is dropped while the rule is missing lies within the overlap of the window's end.
LEMMA HandledIsStored ==
  ASSUME PipelineInv, NEW r \in Owed, window # None, "rule" \notin emqx
  PROVE  window.end <= at[r] + Overlap
<1>1. since # None /\ since \in Nat /\ now <= since + MaxGap
  <2>1. step # 0
    BY DEF PipelineInv, RulesInOrder, Object
  <2> QED BY <2>1, OverlapType DEF PipelineInv, RunIsShort, PipelineTypeOK, Times
<1>2. since <= at[r] + MaxLag + MaxLate
  BY <1>1 DEF PipelineInv, LacksOnlyRecent
<1>3. window.end \in Nat /\ window.end <= now
  BY DEF PipelineInv, CollectorInv, WindowFromCursor, TypeOK, Window
<1>4. r \in Record
  BY DEF Owed, Lacking, PipelineInv, CollectorInv, TypeOK
<1> QED BY <1>1, <1>2, <1>3, <1>4, LackingType, GapAssumption

\* Every record of the window that is not near its end is fetched, handled and stored.
LEMMA PendingStep == PipelineInv /\ [PipelineNext]_allVars => LacksOnlyPending'
<1> SUFFICES ASSUME PipelineInv, [PipelineNext]_allVars, window' # None,
                    NEW r \in Owed', OfSource[r] = turn'
             PROVE  (\/ window.end <= at[r] + Overlap
                     \/ r \in todo \cup refused
                     \/ page <= pages /\ page - 1 <= Position(r))'
  BY DEF LacksOnlyPending
<1> USE DEF call
<1>1. /\ PipelineTypeOK /\ TypeOK /\ TypeOK' /\ LacksOnlyPending
      /\ at' = at /\ listed \subseteq listed'
      /\ CollectorInv /\ CollectorInv'
  BY DataStep, CollectorStep DEF PipelineInv, CollectorInv
<1>2. /\ r \in Record /\ Healthy(OfSource[r]) /\ Due(r) /\ r \in listed'
      /\ r \in Owed \/ r \notin listed
  BY <1>1, OwedStep
<1>3. at[r] \in Nat /\ window' \in Window /\ window.end' \in Nat
  BY <1>1, <1>2, LackingType DEF TypeOK, Window
<1>4. CASE Open
  <2>1. page' = 1 /\ pages' = 1
    BY <1>1, <1>4 DEF Open, CollectorInv, FirstPage
  <2>2. Position(r)' \in Nat
    <3>1. Matching(window)' \subseteq Record
      BY <1>1 DEF Matching, TypeOK
    <3> QED BY <3>1, FiniteRecords DEF Position
  <2> QED BY <2>1, <2>2
<1>5. CASE r \notin listed
  <2>1. now' = now /\ window' = window
    BY <1>2, <1>5 DEF PipelineNext, CollectStep, CollectFails, Deliver, CallRaises, PassTime,
                      ListRecord, Configure, Call, CallFails, Start, Open, Skip, FetchPage, Save,
                      Reject, Handle, Finish, FetchFails, Crash, PublishFails, Tick, List,
                      outside, allVars, vars
  <2>2. window.end <= now /\ window.end \in Nat
    BY <1>1, <2>1 DEF CollectorInv, WindowFromCursor, TypeOK, Window
  <2> QED BY <1>1, <1>2, <1>5, <2>1, <2>2, LackingType, OverlapType
<1>6. ASSUME r \in Owed, UNCHANGED <<newest, turn, window, page, pages>>,
             todo \cup refused \subseteq todo' \cup refused'
      PROVE  (\/ window.end <= at[r] + Overlap
              \/ r \in todo \cup refused
              \/ page <= pages /\ page - 1 <= Position(r))'
  <2>1. CASE page <= pages /\ page - 1 <= Position(r)
    <3>1. page - 1 \in Int
      BY <1>1 DEF TypeOK
    <3>2. page - 1 <= Position(r)'
      BY <1>1, <1>6, <2>1, <3>1, PositionGrows
    <3> QED BY <1>6, <2>1, <3>2
  <2> QED BY <1>1, <1>6, <2>1 DEF LacksOnlyPending
<1>7. CASE FetchPage /\ r \in Owed
  <2>1. /\ UNCHANGED <<turn, window>> /\ window # None
        /\ todo \cup refused \subseteq todo' \cup refused'
    BY <1>1, <1>7, DataStep DEF FetchPage, Handling, TypeOK
  <2>2. CASE page <= pages /\ page - 1 <= Position(r) /\ ~(window.end <= at[r] + Overlap)
    <3>1. window.start <= at[r]
      BY <1>1, <1>7, <2>1, OwedAhead DEF CollectorInv, WindowFromCursor
    <3>2. r \in Matching(window)
      BY <1>3, <1>7, <2>1, <2>2, <3>1, OverlapType DEF Matching, Owed, Lacking
    <3> QED BY <1>1, <1>7, <2>2, <3>2, FetchTakes
  <2> QED BY <1>1, <1>7, <2>1, <2>2 DEF LacksOnlyPending
<1>8. ASSUME NEW n \in Record \ Blank, Deliver(n), r \in Owed
      PROVE  (\/ window.end <= at[r] + Overlap
              \/ r \in todo \cup refused
              \/ page <= pages /\ page - 1 <= Position(r))'
  <2>1. /\ UNCHANGED <<outside, turn, window, page, pages>>
        /\ todo' = todo \ {n} /\ refused' = refused \ {n}
        /\ page > pages /\ page \in Nat /\ pages \in Nat
    BY <1>1, <1>8 DEF Deliver, Handle, Finish, Handling, TypeOK
  <2>2. CASE r # n
    BY <1>1, <1>8, <2>1, <2>2 DEF LacksOnlyPending
  <2>3. CASE r = n
    <3>1. stored' = Arrived(r) /\ Storable(r) /\ ~InStore(r)'
      BY <1>2, <1>8, <2>3 DEF Deliver, Due, Owed, Lacking
    <3>2. "rule" \notin emqx
      BY <1>1, <1>2, <3>1, IsStored
    <3> QED BY <1>1, <1>8, <2>1, <3>2, HandledIsStored
  <2> QED BY <2>2, <2>3
<1>9. ASSUME NEW n \in Blank, Handle(n), UNCHANGED refused, r \in Owed
      PROVE  (\/ window.end <= at[r] + Overlap
              \/ r \in todo \cup refused
              \/ page <= pages /\ page - 1 <= Position(r))'
  <2>1. /\ UNCHANGED <<outside, turn, window, page, pages>> /\ todo' = todo \ {n}
        /\ page > pages /\ page \in Nat /\ pages \in Nat
    BY <1>1, <1>9 DEF Handle, Finish, Handling, TypeOK
  <2>2. r # n
    BY <1>2, <1>9 DEF Due
  <2> QED BY <1>1, <1>9, <2>1, <2>2 DEF LacksOnlyPending
<1>10. \/ Open \/ FetchPage
       \/ \E n \in Blank : Handle(n) /\ UNCHANGED refused
       \/ \E n \in Record \ Blank : Deliver(n)
       \/ /\ UNCHANGED <<newest, turn, window, page, pages>>
          /\ todo \cup refused \subseteq todo' \cup refused'
  BY DEF PipelineNext, CollectStep, CollectFails, CallRaises, PassTime, ListRecord, Configure,
         Call, CallFails, Start, Skip, Save, Reject, Finish, FetchFails, Crash, PublishFails,
         Leave, Tick, List, outside, database, allVars, vars
<1> QED BY <1>2, <1>4, <1>5, <1>6, <1>7, <1>8, <1>9, <1>10

\* A cursor moves to the end of a window whose records are stored, but for those near it
\* and those a call raised for.
LEMMA LostStep == PipelineInv /\ [PipelineNext]_allVars => NothingLost'
<1> SUFFICES ASSUME PipelineInv, [PipelineNext]_allVars, NEW r \in Owed', r \notin refused'
             PROVE  ~(at[r]' < StartOf(OfSource[r])')
  <2>1. \A r \in Lacking' : r \in Owed' \/ r \in refused'
    BY DEF Owed, Lapsed
  <2> QED BY <2>1 DEF NothingLost
<1>1. /\ TypeOK /\ CollectorInv /\ LacksOnlyPending /\ at' = at
  BY DataStep DEF PipelineInv, CollectorInv
<1>2. /\ r \in Record /\ at[r] \in Nat /\ Initial <= at[r] /\ OfSource[r] \in Source
      /\ r \in Owed \/ r \notin listed
  BY <1>1, OwedStep, LackingType
<1>3. StartOf(OfSource[r]) <= at[r] /\ StartOf(OfSource[r]) \in Nat
  BY <1>1, <1>2, OwedAhead, LateIsAhead, StartOfType DEF CollectorInv
<1>4. CASE cursor' = cursor
  <2>1. StartOf(OfSource[r])' = StartOf(OfSource[r])
    BY <1>4 DEF StartOf
  <2> QED BY <1>1, <1>2, <1>3, <2>1
<1>5. CASE Save /\ UNCHANGED refused
  <2>1. /\ cursor' = [cursor EXCEPT ![IdOf[turn]] = window.end]
        /\ window # None /\ window \in Window /\ turn \in Source /\ ~(page <= pages)
        /\ todo = {} /\ listed' = listed
        /\ cursor \in [SourceId -> Times \cup {None}]
    BY <1>1, <1>5 DEF Save, Handling, TypeOK, outside
  <2>2. CASE OfSource[r] # turn
    <3>1. cursor'[IdOf[OfSource[r]]] = cursor[IdOf[OfSource[r]]]
      BY <1>2, <2>1, <2>2, IdType
    <3>2. StartOf(OfSource[r])' = StartOf(OfSource[r])
      BY <3>1 DEF StartOf
    <3> QED BY <1>1, <1>2, <1>3, <3>2
  <2>3. CASE OfSource[r] = turn
    <3>1. r \in Owed /\ r \notin todo \cup refused
      BY <1>2, <1>5, <2>1, OwedStep
    <3>2. window.end <= at[r] + Overlap
      BY <1>1, <2>1, <2>3, <3>1 DEF LacksOnlyPending
    <3>3. cursor'[IdOf[turn]] = window.end /\ window.end \in Nat
      BY <2>1, IdType DEF Window
    <3> QED BY <1>1, <1>2, <2>3, <3>2, <3>3, OverlapType DEF StartOf
  <2> QED BY <2>2, <2>3
<1>6. cursor' = cursor \/ (Save /\ UNCHANGED refused)
  BY DEF PipelineNext, CollectStep, CollectFails, Deliver, CallRaises, PassTime, ListRecord,
         Configure, Call, CallFails, Start, Open, Skip, FetchPage, Reject, Handle, Finish,
         FetchFails, Crash, PublishFails, Tick, List, outside, database, allVars, vars
<1> QED BY <1>4, <1>5, <1>6

-----------------------------------------------------------------------------
(* The pipeline: theorems. *)

\* The inductive invariant holds when configure has been run and the collector not yet.
LEMMA PipelineInvInit == PipelineInit => PipelineInv
<1> SUFFICES ASSUME PipelineInit PROVE PipelineInv
  OBVIOUS
<1>1. CollectorInv /\ TypeOK
  BY InvInit DEF PipelineInit, CollectorInv
<1>2. PipelineTypeOK
  BY <1>1, ConfigureAssumption DEF PipelineInit, PipelineTypeOK
<1>3. RulesInOrder
  BY DEF PipelineInit, RulesInOrder, Uses, Object
<1>4. RunIsShort /\ LacksOnlyRecent
  BY DEF PipelineInit, RunIsShort, LacksOnlyRecent
<1>5. TodoInWindow /\ LacksOnlyPending /\ NothingLost
  BY DEF PipelineInit, Init, TodoInWindow, LacksOnlyPending, NothingLost, Lacking
<1> QED BY <1>1, <1>2, <1>3, <1>4, <1>5 DEF PipelineInv

\* Every step of the collector, the interface, EMQX and configure keeps it.
LEMMA PipelineInvStep == PipelineInv /\ [PipelineNext]_allVars => PipelineInv'
BY CollectorStep, PipelineTypeStep, RulesStep, RunStep, TodoStep, RecentStep, PendingStep, LostStep
   DEF PipelineInv

\* The inductive invariant holds in every reachable state.
THEOREM PipelineInvariance == PipelineSpec => []PipelineInv
BY PipelineInvInit, PipelineInvStep, PTL DEF PipelineSpec

\* Every variable of the composition keeps its type.
THEOREM PipelineTypeCorrect == PipelineSpec => []PipelineTypeOK
<1>1. PipelineInv => PipelineTypeOK
  BY DEF PipelineInv
<1> QED BY <1>1, PipelineInvariance, PTL

\* However the calls of configure fail and are repeated, a rule always has its action and
\* connector, and when a run has ended well everything is there.
THEOREM RulesAreRouted == PipelineSpec => []Routed
<1>1. PipelineInv => Routed
  BY DEF PipelineInv, RulesInOrder, Routed
<1> QED BY <1>1, PipelineInvariance, PTL

\* A record that the database lacks, though the broker may have acknowledged it, is behind
\* the next window of its source only if the last call of ingest_telemetry for it raised.
THEOREM NoneLost == PipelineSpec => []NothingLost
<1>1. PipelineInv => NothingLost
  BY DEF PipelineInv
<1> QED BY <1>1, PipelineInvariance, PTL

=============================================================================
