---------------------------- MODULE ConsoleProofs ----------------------------
(***************************************************************************)
(* For every number of events, every size of the pages and every fault: the*)
(* page of a run receives its events in order and without a hole that it   *)
(* could have seen, a stream that ends and a report are complete, and the  *)
(* audit log claims no success that was not committed. Of evidence and     *)
(* preflights: a completed run has no failed step, what is frozen stays,   *)
(* and a READY plan whose inputs are unchanged places its volumes.         *)
(***************************************************************************)
EXTENDS Console, FiniteSetTheorems, SequenceTheorems, TLAPS

-----------------------------------------------------------------------------
(***************************************************************************)
(* Sets of ids.                                                            *)
(***************************************************************************)
LEMMA LeastElement ==
  ASSUME NEW S \in SUBSET Nat, S # {}
  PROVE  \E x \in S : \A y \in S : x <= y
<1> DEFINE UpTo(x) == {y \in S : y <= x}
<1>1. \A x \in S : IsFiniteSet(UpTo(x))
  <2> SUFFICES ASSUME NEW x \in S PROVE IsFiniteSet(UpTo(x))
    OBVIOUS
  <2>1. UpTo(x) \in SUBSET Nat /\ x \in Nat /\ \A y \in UpTo(x) : y <= x
    OBVIOUS
  <2>2. QED
    BY <2>1, FS_BoundedSetOfNaturals
<1> DEFINE Initial == {UpTo(x) : x \in S}
<1>2. Initial \subseteq FiniteSubsetsOf(S) /\ Initial # {}
  BY <1>1 DEF FiniteSubsetsOf
<1>3. PICK U \in Initial : \A V \in Initial : ~(<<V, U>> \in StrictSubsetOrdering(S))
  <2>1. IsWellFoundedOn(StrictSubsetOrdering(S), FiniteSubsetsOf(S))
    BY FS_StrictSubsetOrderingWellFounded
  <2>2. \A T : T \subseteq FiniteSubsetsOf(S) /\ T # {} =>
          \E U \in T : \A V \in T : ~(<<V, U>> \in StrictSubsetOrdering(S))
    BY <2>1, WFMin, Zenon
  <2> HIDE DEF Initial
  <2>3. QED
    BY <1>2, <2>2
<1>4. PICK x \in S : U = UpTo(x)
  OBVIOUS
<1>5. ASSUME NEW y \in S PROVE x <= y
  <2> SUFFICES ASSUME y < x PROVE FALSE
    OBVIOUS
  <2>1. UpTo(y) \subseteq UpTo(x) /\ x \in UpTo(x) /\ x \notin UpTo(y)
    <3>1. x \in Nat /\ y \in Nat /\ y <= x
      OBVIOUS
    <3>2. ASSUME NEW z \in S, z <= y PROVE z <= x
      <4>1. z \in Nat
        OBVIOUS
      <4>2. QED
        BY <3>1, <3>2, <4>1
    <3>3. UpTo(y) \subseteq UpTo(x)
      BY <3>2
    <3>4. x \in UpTo(x)
      BY <3>1
    <3>5. x \notin UpTo(y)
      BY <3>1
    <3>6. QED
      BY <3>3, <3>4, <3>5
  <2>2. /\ UpTo(y) \in SUBSET S /\ U \in SUBSET S
        /\ UpTo(y) \subseteq U /\ UpTo(y) # U
    BY <1>4, <2>1
  <2>3. <<UpTo(y), U>> \in StrictSubsetOrdering(S)
    BY <2>2 DEF StrictSubsetOrdering
  <2>4. UpTo(y) \in Initial
    OBVIOUS
  <2>5. QED
    BY <1>3, <2>3, <2>4
<1>6. QED
  BY <1>5

LEMMA GreatestElement ==
  ASSUME NEW S \in SUBSET Nat, S # {}, NEW n \in Nat, \A x \in S : x <= n
  PROVE  \E x \in S : \A y \in S : y <= x
<1> DEFINE Bounds == {m \in Nat : \A x \in S : x <= m}
<1>1. PICK m \in Bounds : \A k \in Bounds : m <= k
  <2>1. Bounds \in SUBSET Nat /\ Bounds # {}
    OBVIOUS
  <2> HIDE DEF Bounds
  <2>2. QED
    BY <2>1, LeastElement
<1>2. m \in S
  <2>1. CASE m = 0
    <3>1. PICK x \in S : TRUE
      OBVIOUS
    <3>2. x = 0
      BY <1>1, <2>1
    <3>3. QED
      BY <2>1, <3>2
  <2>2. CASE m # 0
    <3>1. m - 1 \in Nat /\ m - 1 \notin Bounds
      BY <1>1, <2>2
    <3>2. PICK x \in S : ~(x <= m - 1)
      BY <3>1
    <3>3. x = m
      BY <1>1, <3>1, <3>2
    <3>4. QED
      BY <3>3
  <2>3. QED
    BY <2>1, <2>2
<1>3. QED
  BY <1>1, <1>2

IdSet(S) == IsFiniteSet(S) /\ \A i \in S : i \in Nat

LEMMA IdsAreFinite ==
  ASSUME NEW S, IdSet(S)
  PROVE  IsFiniteSet(S) /\ Cardinality(S) \in Nat /\ \A i \in S : i \in Nat
  BY FS_CardinalityType DEF IdSet

LEMMA SubsetOfIds ==
  ASSUME NEW S, IdSet(S), NEW T, T \subseteq S
  PROVE  IdSet(T) /\ Cardinality(T) <= Cardinality(S) /\ (Cardinality(T) = Cardinality(S) => T = S)
<1>1. IsFiniteSet(S) /\ T \in SUBSET S
  BY DEF IdSet
<1>2. QED
  BY <1>1, FS_Subset DEF IdSet

\* The number of ids up to one.
CountTo(S, i) == Cardinality({j \in S : j <= i})

LEMMA CountGrows ==
  ASSUME NEW S, IdSet(S), NEW i \in S, NEW j \in S, i < j
  PROVE  CountTo(S, i) < CountTo(S, j)
<1> DEFINE low == {k \in S : k <= i}  high == {k \in S : k <= j}
<1>1. \A k \in S : k \in Nat
  BY IdsAreFinite
<1>2. \A k \in S : k <= i => k <= j
  BY <1>1
<1>3. low \subseteq high /\ low \subseteq S /\ high \subseteq S
  BY <1>2
<1>4. j \in high /\ j \notin low
  BY <1>1
<1> HIDE DEF low, high
<1>5. IdSet(low) /\ IdSet(high)
  BY <1>3, SubsetOfIds
<1>6. Cardinality(low) \in Nat /\ Cardinality(high) \in Nat
  BY <1>5, IdsAreFinite
<1>7. Cardinality(low) <= Cardinality(high) /\ Cardinality(low) # Cardinality(high)
  BY <1>3, <1>4, <1>5, SubsetOfIds
<1>8. QED
  BY <1>6, <1>7 DEF CountTo, low, high

LEMMA CountIsPosition ==
  ASSUME NEW S, IdSet(S), NEW i \in S
  PROVE  CountTo(S, i) \in 1..Cardinality(S)
<1> DEFINE low == {k \in S : k <= i}
<1>1. i \in Nat
  BY IdsAreFinite
<1>2. low \subseteq S /\ i \in low
  BY <1>1
<1> HIDE DEF low
<1>3. IdSet(low) /\ Cardinality(low) <= Cardinality(S)
  BY <1>2, SubsetOfIds
<1>4. IsFiniteSet(low) /\ Cardinality(low) \in Nat /\ Cardinality(S) \in Nat
  BY <1>3, IdsAreFinite
<1>5. Cardinality(low) # 0
  BY <1>2, <1>4, FS_EmptySet
<1>6. QED
  BY <1>3, <1>4, <1>5 DEF CountTo, low

\* Two ids with the same position are the same.
LEMMA CountIdentifies ==
  ASSUME NEW S, IdSet(S), NEW i \in S, NEW j \in S, CountTo(S, i) <= CountTo(S, j)
  PROVE  i <= j
<1>1. i \in Nat /\ j \in Nat
  BY IdsAreFinite
<1>2. CountTo(S, i) \in Int /\ CountTo(S, j) \in Int
  BY CountIsPosition
<1>3. ~(j < i)
  BY <1>2, CountGrows
<1>4. QED
  BY <1>1, <1>3

LEMMA EveryPositionIsTaken ==
  ASSUME NEW S, IdSet(S), NEW k \in 1..Cardinality(S)
  PROVE  \E i \in S : CountTo(S, i) = k
<1> DEFINE position == [i \in S |-> CountTo(S, i)]  T == 1..Cardinality(S)
<1>1. IsFiniteSet(S) /\ Cardinality(S) \in Nat
  BY IdsAreFinite
<1>2. IsFiniteSet(T) /\ Cardinality(T) = Cardinality(S)
  BY <1>1, FS_Interval
<1>3. \A i \in S : CountTo(S, i) \in T
  BY CountIsPosition
<1>4. \A i, j \in S : CountTo(S, i) = CountTo(S, j) => i = j
  <2> SUFFICES ASSUME NEW i \in S, NEW j \in S, CountTo(S, i) = CountTo(S, j) PROVE i = j
    OBVIOUS
  <2>1. CountTo(S, i) \in Nat /\ i \in Nat /\ j \in Nat
    BY <1>1, <1>3, IdsAreFinite
  <2>2. i <= j
    BY <2>1, CountIdentifies
  <2>3. j <= i
    BY <2>1, CountIdentifies
  <2>4. QED
    BY <2>1, <2>2, <2>3
<1>5. position \in Injection(S, T)
  BY <1>3, <1>4 DEF Injection, IsInjective
<1>6. position \in Surjection(S, T)
  <2> HIDE DEF position, T
  <2>1. QED
    BY <1>2, <1>5, FS_Injection
<1>7. QED
  BY <1>6 DEF Surjection

LEMMA AscendingEnumerates ==
  ASSUME NEW S, IdSet(S)
  PROVE  /\ Ascending(S) \in Seq(S) /\ Len(Ascending(S)) = Cardinality(S)
         /\ \A k \in 1..Cardinality(S) : Ascending(S)[k] \in S
         /\ \A i \in S : \E k \in 1..Cardinality(S) : Ascending(S)[k] = i
         /\ \A k, m \in 1..Cardinality(S) : k < m => Ascending(S)[k] < Ascending(S)[m]
<1>1. Cardinality(S) \in Nat /\ \A i \in S : i \in Nat
  BY IdsAreFinite
<1>2. ASSUME NEW k \in 1..Cardinality(S)
      PROVE  Ascending(S)[k] \in S /\ CountTo(S, Ascending(S)[k]) = k
  <2>1. PICK i \in S : CountTo(S, i) = k
    BY EveryPositionIsTaken
  <2>2. Ascending(S)[k] = CHOOSE j \in S : CountTo(S, j) = k
    BY DEF Ascending, CountTo
  <2>3. QED
    BY <2>1, <2>2
<1>3. Ascending(S) \in [1..Cardinality(S) -> S]
  BY <1>2 DEF Ascending
<1>4. Ascending(S) \in Seq(S) /\ Len(Ascending(S)) = Cardinality(S)
  BY <1>1, <1>3
<1>5. ASSUME NEW i \in S PROVE \E k \in 1..Cardinality(S) : Ascending(S)[k] = i
  <2>1. PICK k \in 1..Cardinality(S) : k = CountTo(S, i)
    BY CountIsPosition
  <2>2. PICK j \in S : j = Ascending(S)[k] /\ CountTo(S, j) = k
    BY <1>2
  <2>3. i <= j
    BY <1>1, <2>1, <2>2, CountIdentifies
  <2>4. j <= i
    BY <1>1, <2>1, <2>2, CountIdentifies
  <2>5. QED
    BY <1>1, <2>2, <2>3, <2>4
<1>6. ASSUME NEW k \in 1..Cardinality(S), NEW m \in 1..Cardinality(S), k < m
      PROVE  Ascending(S)[k] < Ascending(S)[m]
  <2>1. PICK i \in S : i = Ascending(S)[k] /\ CountTo(S, i) = k
    BY <1>2
  <2>2. PICK j \in S : j = Ascending(S)[m] /\ CountTo(S, j) = m
    BY <1>2
  <2>3. i <= j
    BY <1>1, <1>6, <2>1, <2>2, CountIdentifies
  <2>4. i # j
    BY <1>1, <1>6, <2>1, <2>2
  <2>5. QED
    BY <1>1, <2>1, <2>2, <2>3, <2>4
<1>7. QED
  BY <1>2, <1>4, <1>5, <1>6

LEMMA GreatestOfIds ==
  ASSUME NEW S, IdSet(S), NEW n \in Nat, \A i \in S : i <= n, NEW otherwise
  PROVE  /\ S = {} => Greatest(S, otherwise) = otherwise
         /\ S # {} => Greatest(S, otherwise) \in S
         /\ \A i \in S : i <= Greatest(S, otherwise)
<1>1. S \in SUBSET Nat
  BY IdsAreFinite
<1>2. CASE S = {}
  BY <1>2 DEF Greatest
<1>3. CASE S # {}
  <2>1. \E i \in S : \A j \in S : j <= i
    BY <1>1, <1>3, GreatestElement
  <2>2. Greatest(S, otherwise) = CHOOSE i \in S : \A j \in S : j <= i
    BY <1>3 DEF Greatest
  <2>3. QED
    BY <1>3, <2>1, <2>2
<1>4. QED
  BY <1>2, <1>3

LEMMA IdsAreBounded ==
  ASSUME NEW S, IdSet(S), S # {}
  PROVE  \E n \in Nat : \A i \in S : i <= n
<1>1. Cardinality(S) \in Nat /\ Cardinality(S) # 0 /\ \A i \in S : i \in Nat
  BY IdsAreFinite, FS_EmptySet
<1>2. PICK i \in S : CountTo(S, i) = Cardinality(S)
  BY <1>1, EveryPositionIsTaken
<1>3. ASSUME NEW j \in S PROVE j <= i
  BY <1>1, <1>2, CountIsPosition, CountIdentifies
<1>4. QED
  BY <1>1, <1>3

-----------------------------------------------------------------------------
(***************************************************************************)
(* A page of the table: without a gap, and the rest if it is not full.     *)
(***************************************************************************)
Visible(cursor) == {i \in CommittedIds : i > cursor}

LEMMA PageIsPrefix ==
  ASSUME IdSet(CommittedIds), NEW cursor, NEW limit \in Nat \ {0}, limit <= MaxPage
  PROVE  /\ Page(cursor, limit) \subseteq Visible(cursor) /\ IdSet(Page(cursor, limit))
         /\ \A i \in Visible(cursor), j \in Page(cursor, limit) : i <= j => i \in Page(cursor, limit)
         /\ Cardinality(Page(cursor, limit)) < limit => Page(cursor, limit) = Visible(cursor)
         /\ Cardinality(Page(cursor, limit)) <= limit
<1> DEFINE visible == Visible(cursor)  page == Page(cursor, limit)
           before(i) == {j \in visible : j < i}
<1>1. visible \subseteq CommittedIds
  BY DEF Visible
<1>2. EffectiveLimit(limit) = limit
  BY StreamAssumption DEF EffectiveLimit
<1>3. page = {i \in visible : Cardinality(before(i)) < limit}
  BY <1>2 DEF Page, Visible
<1> HIDE DEF visible, page
<1>4. IdSet(visible) /\ \A i \in visible : i \in Nat
  BY <1>1, SubsetOfIds, IdsAreFinite
<1>5. \A i : IdSet(before(i)) /\ Cardinality(before(i)) \in Nat
  BY <1>4, SubsetOfIds, IdsAreFinite
<1>6. page \subseteq visible /\ IdSet(page) /\ Cardinality(page) \in Nat
  BY <1>3, <1>4, SubsetOfIds, IdsAreFinite
<1>7. ASSUME NEW i \in visible, NEW j \in page, i <= j PROVE i \in page
  <2>1. i \in Nat /\ j \in Nat /\ \A k \in visible : k \in Nat
    BY <1>4, <1>6
  <2>2. \A k \in visible : k < i => k < j
    BY <1>7, <2>1
  <2>3. Cardinality(before(i)) <= Cardinality(before(j))
    <3>1. before(i) \subseteq before(j)
      BY <2>2
    <3>2. QED
      BY <1>5, <3>1, SubsetOfIds
  <2>4. Cardinality(before(j)) < limit
    BY <1>3
  <2>5. Cardinality(before(i)) < limit
    BY <1>5, <2>3, <2>4
  <2>6. QED
    BY <1>3, <2>5
<1>8. ASSUME Cardinality(page) < limit, NEW i \in visible \ page PROVE FALSE
  <2>1. visible \ page \in SUBSET Nat /\ visible \ page # {}
    BY <1>4, <1>8
  <2>2. PICK k \in visible \ page : \A j \in visible \ page : k <= j
    BY <2>1, LeastElement
  <2>3. ASSUME NEW j \in before(k) PROVE j \in page
    <3>1. j \in visible /\ j < k /\ j \in Nat /\ k \in Nat
      BY <1>4
    <3>2. QED
      BY <2>2, <3>1
  <2>4. Cardinality(before(k)) <= Cardinality(page)
    BY <1>6, <2>3, SubsetOfIds
  <2>5. Cardinality(before(k)) < limit
    BY <1>5, <1>6, <1>8, <2>4
  <2>6. QED
    BY <1>3, <2>5
<1>9. Cardinality(page) <= limit
  <2>1. CASE page = {}
    <3>1. Cardinality(page) = 0
      BY <2>1, FS_EmptySet
    <3>2. QED
      BY <3>1
  <2>2. CASE page # {}
    <3>1. PICK g \in page : \A j \in page : j <= g
      <4>1. page \in SUBSET Nat
        BY <1>4, <1>6
      <4>2. PICK n \in Nat : \A j \in page : j <= n
        BY <1>4, <1>6, <2>2, IdsAreBounded
      <4>3. QED
        BY <2>2, <4>1, <4>2, GreatestElement
    <3>2. g \in visible /\ g \notin before(g) /\ \A j \in page : j # g => j < g
      BY <1>4, <1>6, <3>1
    <3>3. \A j \in page : j # g => j \in before(g)
      BY <1>6, <3>2
    <3>4. page \subseteq before(g) \cup {g}
      BY <3>3
    <3>5. IsFiniteSet(before(g)) /\ Cardinality(before(g)) \in Nat /\ Cardinality(before(g)) < limit
      BY <1>3, <1>5, IdsAreFinite
    <3> DEFINE earlier == before(g)
    <3> HIDE DEF earlier
    <3>6. IsFiniteSet(earlier \cup {g}) /\ Cardinality(earlier \cup {g}) = Cardinality(earlier) + 1
      BY <3>2, <3>5, FS_AddElement DEF earlier
    <3>7. Cardinality(page) <= Cardinality(earlier \cup {g})
      BY <3>4, <3>6, FS_Subset DEF earlier
    <3>8. QED
      BY <1>6, <3>5, <3>6, <3>7 DEF earlier
  <2>3. QED
    BY <2>1, <2>2
<1>10. QED
  BY <1>6, <1>7, <1>8, <1>9 DEF visible, page

LEMMA CommittedRows ==
  ASSUME StreamTypeOK
  PROVE  IdSet(CommittedIds) /\ CommittedIds \subseteq Ids /\ CommittedIds \subseteq DOMAIN rows
<1>1. Len(rows) \in Nat /\ DOMAIN rows = 1..Len(rows) /\ Len(rows) <= MaxEvents /\ MaxEvents \in Nat
  BY StreamAssumption DEF StreamTypeOK
<1>2. IsFiniteSet(DOMAIN rows)
  BY <1>1, FS_Interval
<1>3. CommittedIds \subseteq DOMAIN rows /\ \A i \in DOMAIN rows : i \in Ids /\ i \in Nat
  BY <1>1 DEF CommittedIds, Ids
<1>4. QED
  BY <1>2, <1>3, FS_Subset DEF IdSet

\* What a reader does with a page: its cursor moves over the page and not back.
LEMMA CursorMovesOverPage ==
  ASSUME StreamTypeOK, NEW cursor \in 0..MaxEvents, NEW limit \in Nat \ {0}, limit <= MaxPage
  PROVE  /\ Page(cursor, limit) \subseteq Visible(cursor) /\ Page(cursor, limit) \subseteq Ids
         /\ Greatest(Page(cursor, limit), cursor) \in 0..MaxEvents
         /\ cursor <= Greatest(Page(cursor, limit), cursor)
         /\ \A i \in Page(cursor, limit) : i <= Greatest(Page(cursor, limit), cursor)
         /\ \A i \in Visible(cursor) : i <= Greatest(Page(cursor, limit), cursor) => i \in Page(cursor, limit)
<1> DEFINE page == Page(cursor, limit)  g == Greatest(page, cursor)
<1>1. IdSet(CommittedIds) /\ CommittedIds \subseteq Ids
  BY CommittedRows
<1>2. page \subseteq Visible(cursor) /\ IdSet(page)
      /\ \A i \in Visible(cursor), j \in page : i <= j => i \in page
  BY <1>1, PageIsPrefix
<1>3. \A i \in Visible(cursor) : i \in Ids /\ i > cursor
  BY <1>1 DEF Visible
<1>4. MaxEvents \in Nat /\ \A i \in page : i <= MaxEvents
  BY <1>2, <1>3, StreamAssumption DEF Ids
<1> HIDE DEF page
<1>5. /\ page = {} => g = cursor
      /\ page # {} => g \in page
      /\ \A i \in page : i <= g
  BY <1>2, <1>4, GreatestOfIds
<1>6. g \in 0..MaxEvents /\ cursor <= g
  BY <1>2, <1>3, <1>4, <1>5 DEF Ids
<1>7. \A i \in Visible(cursor) : i <= g => i \in page
  BY <1>2, <1>3, <1>4, <1>5 DEF Ids
<1>8. QED
  BY <1>2, <1>3, <1>5, <1>6, <1>7 DEF page

LEMMA WrittenPage ==
  ASSUME StreamTypeOK, NEW cursor \in 0..MaxEvents
  PROVE  /\ Ascending(Page(cursor, StreamPage)) \in Seq(Ids)
         /\ \A k \in DOMAIN Ascending(Page(cursor, StreamPage)) :
              Ascending(Page(cursor, StreamPage))[k] \in Page(cursor, StreamPage)
         /\ \A i \in Page(cursor, StreamPage) :
              \E k \in DOMAIN Ascending(Page(cursor, StreamPage)) : Ascending(Page(cursor, StreamPage))[k] = i
         /\ \A k, m \in DOMAIN Ascending(Page(cursor, StreamPage)) : k < m =>
              Ascending(Page(cursor, StreamPage))[k] < Ascending(Page(cursor, StreamPage))[m]
<1> DEFINE page == Page(cursor, StreamPage)
<1>1. StreamPage \in Nat \ {0} /\ StreamPage <= MaxPage
  BY StreamAssumption
<1>2. IdSet(page)
  BY <1>1, CommittedRows, PageIsPrefix
<1>3. page \subseteq Ids
  BY <1>1, CursorMovesOverPage
<1> HIDE DEF page
<1>4. Ascending(page) \in Seq(page) /\ Len(Ascending(page)) = Cardinality(page) /\ Cardinality(page) \in Nat
  BY <1>2, AscendingEnumerates, IdsAreFinite
<1>5. DOMAIN Ascending(page) = 1..Cardinality(page)
  BY <1>4
<1>6. Ascending(page) \in Seq(Ids)
  BY <1>3, <1>4
<1>7. /\ \A k \in DOMAIN Ascending(page) : Ascending(page)[k] \in page
      /\ \A i \in page : \E k \in DOMAIN Ascending(page) : Ascending(page)[k] = i
      /\ \A k, m \in DOMAIN Ascending(page) : k < m => Ascending(page)[k] < Ascending(page)[m]
  BY <1>2, <1>5, AscendingEnumerates
<1>8. QED
  BY <1>6, <1>7 DEF page

-----------------------------------------------------------------------------
(***************************************************************************)
(* The types.                                                              *)
(***************************************************************************)
RowsTypeOK ==
  /\ rows \in Seq([kind : Kinds, state : RowStates]) /\ Len(rows) <= MaxEvents
  /\ active \in BOOLEAN
  /\ holder \in 0..Len(rows)

RequestTypeOK ==
  /\ request \in [op : Operations \cup {"none"}, row : 0..MaxEvents,
                  stage : {"none", "executing"} \cup Results]
  /\ audit \in [op : Operations, row : Ids, result : Results] \cup {NoEntry}

PageTypeOK ==
  /\ conn \in [stage : Stages, cursor : 0..MaxEvents, ended : BOOLEAN, full : BOOLEAN,
               wire : Seq(Ids), unsent : SUBSET Ids]
  /\ seen \in Seq(Ids)

ReportTypeOK ==
  report \in [stage : {"none", "paging", "done"}, cursor : 0..MaxEvents, unread : SUBSET Ids]

OtherTypesOK ==
  /\ reader \in Readers /\ session \in {"absent", "live", "expired"}
  /\ late \subseteq Ids /\ faults \in 0..MaxFaults

LEMMA StreamTypeParts ==
  StreamTypeOK <=> RowsTypeOK /\ RequestTypeOK /\ PageTypeOK /\ ReportTypeOK /\ OtherTypesOK
BY DEF StreamTypeOK, RowsTypeOK, RequestTypeOK, PageTypeOK, ReportTypeOK, OtherTypesOK

LEMMA InsertTypeOK ==
  ASSUME StreamTypeOK, NEW kind \in Kinds, Insert(kind)
  PROVE  RowsTypeOK' /\ Len(rows) + 1 \in Ids /\ Len(rows') = Len(rows) + 1
         /\ \A i \in DOMAIN rows : i \in DOMAIN rows' /\ rows'[i] = rows[i]
<1>1. MaxEvents \in Nat /\ Len(rows) \in Nat /\ Len(rows) + 1 <= MaxEvents
  BY StreamAssumption DEF StreamTypeOK, Insert
<1>2. [kind |-> kind, state |-> "open"] \in [kind : Kinds, state : RowStates]
  BY DEF RowStates
<1>3. rows' \in Seq([kind : Kinds, state : RowStates]) /\ Len(rows') = Len(rows) + 1
  BY <1>2 DEF StreamTypeOK, Insert
<1>4. holder' \in 0..Len(rows')
  BY <1>1, <1>3 DEF StreamTypeOK, Insert
<1>5. active' = active
  BY DEF Insert
<1>6. \A i \in DOMAIN rows : i \in DOMAIN rows' /\ rows'[i] = rows[i]
  BY <1>1, <1>2 DEF StreamTypeOK, Insert
<1>7. QED
  BY <1>1, <1>3, <1>4, <1>5, <1>6 DEF StreamTypeOK, RowsTypeOK, Ids

LEMMA RowSetTypeOK ==
  ASSUME StreamTypeOK, NEW i \in DOMAIN rows, NEW state \in RowStates,
         rows' = [rows EXCEPT ![i].state = state]
  PROVE  rows' \in Seq([kind : Kinds, state : RowStates]) /\ Len(rows') = Len(rows)
         /\ DOMAIN rows' = DOMAIN rows
         /\ \A j \in DOMAIN rows : /\ rows'[j].kind = rows[j].kind
                                   /\ rows'[j].state = IF j = i THEN state ELSE rows[j].state
<1> DEFINE Row == [kind : Kinds, state : RowStates]
<1>1. rows \in Seq(Row) /\ Len(rows) \in Nat /\ DOMAIN rows = 1..Len(rows) /\ \A j \in DOMAIN rows : rows[j] \in Row
  <2>1. rows \in Seq(Row)
    BY DEF StreamTypeOK
  <2> HIDE DEF Row
  <2>2. QED
    BY <2>1
<1>2. \A j \in DOMAIN rows : /\ rows'[j] \in [kind : Kinds, state : RowStates]
                             /\ rows'[j].kind = rows[j].kind
                             /\ rows'[j].state = IF j = i THEN state ELSE rows[j].state
  <2> SUFFICES ASSUME NEW j \in DOMAIN rows
               PROVE  /\ rows'[j] \in [kind : Kinds, state : RowStates]
                      /\ rows'[j].kind = rows[j].kind
                      /\ rows'[j].state = IF j = i THEN state ELSE rows[j].state
    OBVIOUS
  <2>1. rows[j] \in [kind : Kinds, state : RowStates]
    BY <1>1
  <2>2. rows'[j] = IF j = i THEN [rows[j] EXCEPT !.state = state] ELSE rows[j]
    OBVIOUS
  <2>3. QED
    BY <2>1, <2>2
<1>3. DOMAIN rows' = 1..Len(rows) /\ \A j \in 1..Len(rows) : rows'[j] \in Row
  BY <1>1, <1>2
<1>4. rows' \in [1..Len(rows) -> Row]
  <2> HIDE DEF Row
  <2>1. rows' = [j \in 1..Len(rows) |-> rows'[j]]
    BY <1>1
  <2>2. QED
    BY <1>3, <2>1
<1>5. rows' \in Seq(Row) /\ Len(rows') = Len(rows)
  <2> HIDE DEF Row
  <2>1. QED
    BY <1>1, <1>4
<1>6. QED
  BY <1>1, <1>2, <1>3, <1>5

LEMMA InitTypeOK ==
  ASSUME Init PROVE StreamTypeOK
<1>1. MaxEvents \in Nat /\ MaxFaults \in Nat
  BY StreamAssumption
<1>2. RowsTypeOK /\ RequestTypeOK
  BY <1>1 DEF Init, RowsTypeOK, RequestTypeOK, NoRequest
<1>3. PageTypeOK /\ ReportTypeOK /\ OtherTypesOK
  BY <1>1 DEF Init, PageTypeOK, ReportTypeOK, OtherTypesOK, NoConnection, NoReport, Stages
<1>4. QED
  BY <1>2, <1>3, StreamTypeParts

\* The parts that a step leaves alone.
LEMMA UnchangedTypes ==
  ASSUME StreamTypeOK
  PROVE  /\ UNCHANGED <<rows, active, holder>> => RowsTypeOK'
         /\ UNCHANGED requestVars => RequestTypeOK'
         /\ UNCHANGED clientVars => PageTypeOK'
         /\ UNCHANGED report => ReportTypeOK'
         /\ UNCHANGED <<reader, session, late, faults>> => OtherTypesOK'
<1>1. RowsTypeOK /\ RequestTypeOK /\ PageTypeOK /\ ReportTypeOK /\ OtherTypesOK
  BY StreamTypeParts
<1>2. UNCHANGED <<rows, active, holder>> => RowsTypeOK'
  BY <1>1 DEF RowsTypeOK
<1>3. UNCHANGED requestVars => RequestTypeOK'
  BY <1>1 DEF RequestTypeOK, requestVars
<1>4. UNCHANGED clientVars => PageTypeOK'
  BY <1>1 DEF PageTypeOK, clientVars
<1>5. UNCHANGED report => ReportTypeOK'
  BY <1>1 DEF ReportTypeOK
<1>6. UNCHANGED <<reader, session, late, faults>> => OtherTypesOK'
  BY <1>1 DEF OtherTypesOK
<1>7. QED
  BY <1>2, <1>3, <1>4, <1>5, <1>6

NewTypes == RowsTypeOK' /\ RequestTypeOK' /\ PageTypeOK' /\ ReportTypeOK' /\ OtherTypesOK'

LEMMA TransactionsKeepTypes ==
  ASSUME StreamTypeOK,
         \/ \E kind \in Kinds : OtherTransaction(kind)
         \/ \E i \in DOMAIN rows : Commit(i) \/ Abort(i)
  PROVE  NewTypes
<1>1. ASSUME NEW kind \in Kinds, OtherTransaction(kind) PROVE NewTypes
  <2>1. Insert(kind)
    BY <1>1 DEF OtherTransaction
  <2>2. RowsTypeOK'
    BY <2>1, InsertTypeOK
  <2>3. UNCHANGED <<requestVars, clientVars, report, reader, session, late, faults>>
    BY <1>1, <2>1 DEF OtherTransaction, Insert
  <2>4. QED
    BY <2>2, <2>3, UnchangedTypes DEF NewTypes
<1>2. ASSUME NEW i \in DOMAIN rows, Commit(i) PROVE NewTypes
  <2>1. rows' = [rows EXCEPT ![i].state = "committed"] /\ holder' = 0
        /\ late' \in {late, late \cup {i}}
        /\ active' \in {TRUE, FALSE, active}
    <3>1. active' \in {TRUE, FALSE, active}
      BY <1>2 DEF Commit
    <3>2. QED
      BY <1>2, <3>1 DEF Commit
  <2>2. rows' \in Seq([kind : Kinds, state : RowStates]) /\ Len(rows') = Len(rows)
    BY <2>1, RowSetTypeOK DEF RowStates
  <2>3. i \in Ids /\ Len(rows) \in Nat
    BY StreamAssumption DEF StreamTypeOK, Ids
  <2>4. RowsTypeOK'
    <3>1. holder' \in 0..Len(rows') /\ Len(rows') <= MaxEvents
      BY <2>1, <2>2, <2>3 DEF StreamTypeOK
    <3>2. active' \in BOOLEAN
      BY <2>1 DEF StreamTypeOK
    <3>3. QED
      BY <2>2, <3>1, <3>2 DEF RowsTypeOK
  <2>5. UNCHANGED <<requestVars, clientVars, report, reader, session, faults>>
    BY <1>2 DEF Commit
  <2>6. OtherTypesOK'
    BY <2>1, <2>3, <2>5 DEF StreamTypeOK, OtherTypesOK
  <2>7. QED
    BY <2>4, <2>5, <2>6, UnchangedTypes DEF NewTypes
<1>3. ASSUME NEW i \in DOMAIN rows, Abort(i) PROVE NewTypes
  <2>1. rows' = [rows EXCEPT ![i].state = "aborted"] /\ holder' \in {0, holder}
        /\ UNCHANGED <<reader, active, requestVars, session, clientVars, report, late, faults>>
    BY <1>3 DEF Abort
  <2>2. rows' \in Seq([kind : Kinds, state : RowStates]) /\ Len(rows') = Len(rows)
    BY <2>1, RowSetTypeOK DEF RowStates
  <2>3. RowsTypeOK'
    <3>1. Len(rows) \in Nat /\ holder' \in 0..Len(rows)
      BY <2>1 DEF StreamTypeOK
    <3>2. QED
      BY <2>1, <2>2, <3>1 DEF StreamTypeOK, RowsTypeOK
  <2>4. QED
    BY <2>1, <2>3, UnchangedTypes DEF NewTypes
<1>4. QED
  BY <1>1, <1>2, <1>3

LEMMA StreamKeepsTypes ==
  ASSUME StreamTypeOK, Serve \/ Heartbeat \/ Receive \/ ConnectionLost \/ ReloadPage
  PROVE  NewTypes
<1> USE StreamAssumption
<1>1. PageTypeOK /\ conn.cursor \in 0..MaxEvents /\ conn.wire \in Seq(Ids) /\ seen \in Seq(Ids)
  BY StreamTypeParts DEF PageTypeOK
<1>2. CommittedIds \subseteq Ids
  BY CommittedRows
<1>3. LastEventID \in 0..MaxEvents
  BY <1>1 DEF LastEventID, Ids
<1>4. \A stage \in Stages :
        NoConnection(stage) \in [stage : Stages, cursor : 0..MaxEvents, ended : BOOLEAN, full : BOOLEAN,
                                 wire : Seq(Ids), unsent : SUBSET Ids]
  BY DEF NoConnection
<1>5. ASSUME Connect PROVE NewTypes
  <2>1. UNCHANGED <<tableVars, requestVars, session, seen, report, late, faults>>
    BY <1>5 DEF Connect
  <2>2. PageTypeOK'
    <3>1. CASE conn' = NoConnection("refused")
      BY <1>1, <1>4, <2>1, <3>1 DEF PageTypeOK, Stages
    <3>2. CASE conn' = [NoConnection("reading") EXCEPT
                          !.cursor = LastEventID, !.ended = ~active,
                          !.unsent = {i \in CommittedIds : i > LastEventID}]
      <4>1. {i \in CommittedIds : i > LastEventID} \in SUBSET Ids
        BY <1>2
      <4>2. QED
        BY <1>1, <1>3, <1>4, <2>1, <3>2, <4>1 DEF PageTypeOK, Stages
    <3>3. QED
      BY <1>5, <3>1, <3>2 DEF Connect
  <2>3. QED
    BY <2>1, <2>2, UnchangedTypes DEF NewTypes, tableVars
<1>6. ASSUME SendPage PROVE NewTypes
  <2> DEFINE page == Page(conn.cursor, StreamPage)
  <2>1. UNCHANGED <<tableVars, requestVars, session, seen, report, late, faults>>
    BY <1>6 DEF SendPage
  <2>2. Greatest(page, conn.cursor) \in 0..MaxEvents
    BY <1>1, CursorMovesOverPage
  <2>3. Ascending(page) \in Seq(Ids)
    BY <1>1, WrittenPage
  <2>4. conn' = [conn EXCEPT !.stage = AfterPage(conn.ended),
                             !.cursor = Greatest(page, conn.cursor),
                             !.full = conn.ended /\ Cardinality(page) = StreamPage,
                             !.wire = conn.wire \o Ascending(page),
                             !.unsent = IF conn.ended THEN conn.unsent \ page ELSE {}]
    BY <1>6 DEF SendPage
  <2> HIDE DEF page
  <2>5. PageTypeOK'
    <3>1. conn.wire \o Ascending(page) \in Seq(Ids)
      BY <1>1, <2>3
    <3>2. AfterPage(conn.ended) \in Stages
      BY DEF AfterPage, Stages
    <3>3. (IF conn.ended THEN conn.unsent \ page ELSE {}) \in SUBSET Ids
      BY <1>1 DEF PageTypeOK
    <3>4. (conn.ended /\ Cardinality(page) = StreamPage) \in BOOLEAN
      OBVIOUS
    <3>5. QED
      BY <1>1, <2>1, <2>2, <2>4, <3>1, <3>2, <3>3, <3>4 DEF PageTypeOK
  <2>6. QED
    BY <2>1, <2>5, UnchangedTypes DEF NewTypes, tableVars
<1>7. ASSUME Poll PROVE NewTypes
  <2>1. UNCHANGED <<tableVars, requestVars, session, seen, report, late, faults>>
    BY <1>7 DEF Poll
  <2>2. {i \in CommittedIds : i > conn.cursor} \in SUBSET Ids
    BY <1>2
  <2>3. PageTypeOK'
    BY <1>1, <1>7, <2>1, <2>2 DEF Poll, PageTypeOK, Stages
  <2>4. QED
    BY <2>1, <2>3, UnchangedTypes DEF NewTypes, tableVars
<1>8. ASSUME Heartbeat PROVE NewTypes
  <2>1. UNCHANGED <<tableVars, requestVars, session, seen, report, late, faults>>
    BY <1>8 DEF Heartbeat
  <2>2. PageTypeOK'
    BY <1>1, <1>8, <2>1 DEF Heartbeat, PageTypeOK, Stages
  <2>3. QED
    BY <2>1, <2>2, UnchangedTypes DEF NewTypes, tableVars
<1>9. ASSUME Receive PROVE NewTypes
  <2>1. UNCHANGED <<tableVars, requestVars, session, report, late, faults>>
    BY <1>9 DEF Receive
  <2>2. Head(conn.wire) \in Ids /\ Tail(conn.wire) \in Seq(Ids)
    BY <1>1, <1>9, HeadTailProperties DEF Receive
  <2>3. seen' \in Seq(Ids) /\ conn' = [conn EXCEPT !.wire = Tail(conn.wire)]
    BY <1>1, <1>9, <2>2 DEF Receive
  <2>4. PageTypeOK'
    BY <1>1, <2>2, <2>3 DEF PageTypeOK
  <2>5. QED
    BY <2>1, <2>4, UnchangedTypes DEF NewTypes, tableVars
<1>10. ASSUME ConnectionEnds PROVE NewTypes
  <2>1. UNCHANGED <<tableVars, requestVars, session, seen, report, late, faults>>
        /\ conn' = NoConnection("idle")
    BY <1>10 DEF ConnectionEnds
  <2>2. PageTypeOK'
    BY <1>1, <1>4, <2>1 DEF PageTypeOK, Stages
  <2>3. QED
    BY <2>1, <2>2, UnchangedTypes DEF NewTypes, tableVars
<1>11. ASSUME ConnectionLost \/ ReloadPage PROVE NewTypes
  <2>1. UNCHANGED <<tableVars, requestVars, session, report, late>>
        /\ conn' = NoConnection("idle") /\ seen' \in {seen, << >>}
    BY <1>11 DEF ConnectionLost, ReloadPage
  <2>2. PageTypeOK'
    <3>1. seen' = seen \/ seen' = << >>
      BY <2>1
    <3>2. << >> \in Seq(Ids)
      BY EmptySeq
    <3>3. seen' \in Seq(Ids)
      BY <1>1, <3>1, <3>2
    <3>4. QED
      BY <1>4, <2>1, <3>3 DEF PageTypeOK, Stages
  <2>3. OtherTypesOK'
    BY <1>11, <2>1 DEF ConnectionLost, ReloadPage, Fault, StreamTypeOK, OtherTypesOK, tableVars
  <2>4. QED
    BY <2>1, <2>2, <2>3, UnchangedTypes DEF NewTypes, tableVars
<1>12. QED
  BY <1>5, <1>6, <1>7, <1>8, <1>9, <1>10, <1>11 DEF Serve

LEMMA OperatorsAndReportsKeepTypes ==
  ASSUME StreamTypeOK,
         \/ Login \/ Logout \/ SessionExpires \/ Operate
         \/ BeginReport \/ ReadReportPage \/ AnswerReport,
         RequestIsCommitted
  PROVE  NewTypes
<1> USE StreamAssumption
<1>1. ASSUME Login \/ Logout \/ SessionExpires PROVE NewTypes
  <2>1. UNCHANGED <<tableVars, requestVars, clientVars, report, late>> /\ faults' \in {faults, faults + 1}
        /\ session' \in {"absent", "live", "expired"} /\ (faults' = faults + 1 => faults < MaxFaults)
    BY <1>1 DEF Login, Logout, SessionExpires, SetSession, Fault, StreamTypeOK
  <2>2. OtherTypesOK'
    BY <2>1 DEF StreamTypeOK, OtherTypesOK, tableVars
  <2>3. QED
    BY <2>1, <2>2, UnchangedTypes DEF NewTypes, tableVars
<1>2. ASSUME NEW op \in Operations, NEW kind \in Kinds, Execute(op, kind) PROVE NewTypes
  <2>1. Insert(kind) /\ UNCHANGED <<audit, session, clientVars, report, late, faults>>
        /\ request' = [op |-> op, row |-> Len(rows) + 1, stage |-> "executing"]
    BY <1>2 DEF Execute
  <2>2. RowsTypeOK' /\ Len(rows) + 1 \in Ids
    BY <2>1, InsertTypeOK
  <2>3. RequestTypeOK'
    BY <2>1, <2>2 DEF StreamTypeOK, RequestTypeOK, Ids
  <2>4. reader' = reader
    BY <2>1 DEF Insert
  <2>5. QED
    BY <2>1, <2>2, <2>3, <2>4, UnchangedTypes DEF NewTypes
<1>3. ASSUME CancelHandler \/ RollbackHandler \/ ConfirmCutoverHandler \/ RestoreSourceHandler \/ CleanupHandler
      PROVE  NewTypes
  <2>1. \E op \in Operations, kind \in Kinds : Execute(op, kind)
    BY <1>3 DEF CancelHandler, RollbackHandler, ConfirmCutoverHandler, RestoreSourceHandler, CleanupHandler,
                Operations, Kinds
  <2>2. QED
    BY <1>2, <2>1
<1>4. ASSUME NEW result \in Results, ServiceReturns(result) PROVE NewTypes
  <2>1. UNCHANGED <<tableVars, audit, session, clientVars, report, late, faults>>
        /\ request' = [request EXCEPT !.stage = result]
    BY <1>4 DEF ServiceReturns
  <2>2. RequestTypeOK'
    BY <2>1 DEF StreamTypeOK, RequestTypeOK
  <2>3. QED
    BY <2>1, <2>2, UnchangedTypes DEF NewTypes, tableVars
<1>5. ASSUME AuditIsLost PROVE NewTypes
  <2>1. UNCHANGED <<tableVars, audit, session, clientVars, report, late, faults>> /\ request' = NoRequest
    BY <1>5 DEF AuditIsLost
  <2>2. RequestTypeOK'
    BY <2>1 DEF StreamTypeOK, RequestTypeOK, NoRequest
  <2>3. QED
    BY <2>1, <2>2, UnchangedTypes DEF NewTypes, tableVars
<1>6. ASSUME BeginReport \/ ReadReportPage \/ AnswerReport PROVE NewTypes
  <2>1. UNCHANGED <<tableVars, requestVars, session, clientVars, late, faults>>
    BY <1>6 DEF BeginReport, ReadReportPage, AnswerReport
  <2>2. report \in [stage : {"none", "paging", "done"}, cursor : 0..MaxEvents, unread : SUBSET Ids]
    BY DEF StreamTypeOK
  <2>3. ReportTypeOK'
    <3>1. CASE BeginReport
      <4>1. report' = [NoReport EXCEPT !.stage = "paging", !.unread = CommittedIds]
        BY <3>1 DEF BeginReport
      <4>2. CommittedIds \in SUBSET Ids /\ 0 \in 0..MaxEvents
        BY CommittedRows
      <4>3. QED
        BY <4>1, <4>2 DEF NoReport, ReportTypeOK
    <3>2. CASE AnswerReport
      BY <3>2 DEF AnswerReport, NoReport, ReportTypeOK
    <3>3. CASE ReadReportPage
      <4>1. ReportPage \in Nat \ {0} /\ ReportPage <= MaxPage
        OBVIOUS
      <4>2. Greatest(Page(report.cursor, ReportPage), report.cursor) \in 0..MaxEvents
        BY <2>2, <4>1, CursorMovesOverPage
      <4>3. report.unread \ Page(report.cursor, ReportPage) \in SUBSET Ids
        BY <2>2
      <4>4. QED
        BY <2>2, <3>3, <4>2, <4>3 DEF ReadReportPage, ReportTypeOK
    <3>4. QED
      BY <1>6, <3>1, <3>2, <3>3
  <2>4. QED
    BY <2>1, <2>3, UnchangedTypes DEF NewTypes, tableVars
\* The row of a request is the one that its transaction has inserted.
<1>7. ASSUME RecordAudit PROVE NewTypes
  <2>1. UNCHANGED <<tableVars, session, clientVars, report, late, faults>> /\ request' = NoRequest
        /\ audit' = [op |-> request.op, row |-> request.row, result |-> request.stage]
        /\ request.stage \in Results
    BY <1>7 DEF RecordAudit
  <2>2. request.op \in Operations /\ request.row \in Ids
    BY <1>7, <2>1 DEF RequestIsCommitted, StreamTypeOK, NoRequest, Results, Ids
  <2>3. RequestTypeOK'
    BY <2>1, <2>2 DEF RequestTypeOK, NoRequest
  <2>4. QED
    BY <2>1, <2>3, UnchangedTypes DEF NewTypes, tableVars
<1>8. QED
  BY <1>1, <1>3, <1>4, <1>5, <1>6, <1>7 DEF Operate

LEMMA StepKeepsTypes ==
  ASSUME StreamTypeOK, StreamInvariant, [Next]_vars
  PROVE  StreamTypeOK'
<1> USE DEF StreamInvariant
<1>1. NewTypes => StreamTypeOK'
  BY DEF NewTypes, StreamTypeOK, RowsTypeOK, RequestTypeOK, PageTypeOK, ReportTypeOK, OtherTypesOK
<1>2. CASE \/ \E kind \in Kinds : OtherTransaction(kind)
           \/ \E i \in DOMAIN rows : Commit(i) \/ Abort(i)
  BY <1>1, <1>2, TransactionsKeepTypes
<1>3. CASE Serve \/ Heartbeat \/ Receive \/ ConnectionLost \/ ReloadPage
  BY <1>1, <1>3, StreamKeepsTypes
<1>4. CASE \/ Login \/ Logout \/ SessionExpires \/ Operate
           \/ BeginReport \/ ReadReportPage \/ AnswerReport
  BY <1>1, <1>4, OperatorsAndReportsKeepTypes
<1>5. CASE UNCHANGED vars
  BY <1>5 DEF StreamTypeOK, vars
<1>6. QED
  BY <1>2, <1>3, <1>4, <1>5 DEF Next

-----------------------------------------------------------------------------
(***************************************************************************)
(* What a step does to the table.                                          *)
(***************************************************************************)
RowsStay ==
  /\ \A i \in DOMAIN rows : i \in DOMAIN rows' /\ rows'[i].kind = rows[i].kind
  /\ CommittedIds \subseteq CommittedIds'

LEMMA InsertedRows ==
  ASSUME StreamTypeOK, NEW kind \in Kinds, Insert(kind)
  PROVE  CommittedIds' = CommittedIds /\ RowsStay /\ UNCHANGED <<reader, active>>
         /\ Len(rows) + 1 \in DOMAIN rows' /\ ~(Len(rows) + 1 \in DOMAIN rows)
<1>1. rows \in Seq([kind : Kinds, state : RowStates])
      /\ rows' = Append(rows, [kind |-> kind, state |-> "open"])
  BY DEF StreamTypeOK, Insert
<1> DEFINE new == [kind |-> kind, state |-> "open"]  Row == [kind : Kinds, state : RowStates]
<1>2. new \in Row /\ new.state = "open"
  BY DEF RowStates
<1> HIDE DEF new, Row
<1>3. /\ Len(rows) \in Nat /\ DOMAIN rows = 1..Len(rows) /\ DOMAIN rows' = 1..(Len(rows) + 1)
      /\ rows'[Len(rows) + 1] = new /\ \A i \in 1..Len(rows) : rows'[i] = rows[i]
  BY <1>1, <1>2, AppendProperties DEF new, Row
<1>4. \A i \in DOMAIN rows' : i \in DOMAIN rows \/ i = Len(rows) + 1
  BY <1>3
<1>5. CommittedIds' = CommittedIds
  BY <1>2, <1>3, <1>4 DEF CommittedIds
<1>6. UNCHANGED <<reader, active>>
  BY DEF Insert
<1>7. QED
  BY <1>3, <1>5, <1>6 DEF RowsStay

LEMMA CommittedRow ==
  ASSUME StreamTypeOK, NEW i \in DOMAIN rows, Commit(i)
  PROVE  CommittedIds' = CommittedIds \cup {i} /\ RowsStay
<1>1. /\ DOMAIN rows' = DOMAIN rows
      /\ \A j \in DOMAIN rows : /\ rows'[j].kind = rows[j].kind
                                /\ rows'[j].state = IF j = i THEN "committed" ELSE rows[j].state
  BY RowSetTypeOK DEF Commit, RowStates
<1>2. CommittedIds' = CommittedIds \cup {i}
  BY <1>1 DEF CommittedIds
<1>3. QED
  BY <1>1, <1>2 DEF RowsStay

LEMMA AbortedRow ==
  ASSUME StreamTypeOK, NEW i \in DOMAIN rows, Abort(i)
  PROVE  CommittedIds' = CommittedIds /\ RowsStay
<1>1. /\ DOMAIN rows' = DOMAIN rows
      /\ \A j \in DOMAIN rows : /\ rows'[j].kind = rows[j].kind
                                /\ rows'[j].state = IF j = i THEN "aborted" ELSE rows[j].state
  BY RowSetTypeOK DEF Abort, RowStates
<1>2. CommittedIds' = CommittedIds
  BY <1>1 DEF CommittedIds, Abort
<1>3. QED
  BY <1>1, <1>2 DEF RowsStay

LEMMA SameRows ==
  ASSUME UNCHANGED rows
  PROVE  CommittedIds' = CommittedIds /\ RowsStay
BY DEF CommittedIds, RowsStay

\* An operation's transaction, whatever the operation.
AnyExecute == \E op \in Operations, kind \in Kinds : Execute(op, kind)

LEMMA OperationsExecute ==
  ASSUME Operate
  PROVE  AnyExecute \/ (\E result \in Results : ServiceReturns(result)) \/ RecordAudit \/ AuditIsLost
BY DEF Operate, AnyExecute, CancelHandler, RollbackHandler, ConfirmCutoverHandler, RestoreSourceHandler,
       CleanupHandler, Operations, Kinds

\* A step inserts a row, commits or aborts one, or leaves the table alone.
LEMMA TableSteps ==
  ASSUME StreamTypeOK, [Next]_vars
  PROVE  \/ \E kind \in Kinds : Insert(kind) /\ UNCHANGED <<clientVars, report, late, audit>>
         \/ \E i \in DOMAIN rows : Commit(i)
         \/ \E i \in DOMAIN rows : Abort(i)
         \/ UNCHANGED tableVars
<1>1. CASE \E kind \in Kinds : OtherTransaction(kind)
  BY <1>1 DEF OtherTransaction, requestVars
<1>2. CASE Serve \/ Heartbeat \/ Receive \/ ConnectionLost \/ ReloadPage
  <2>1. UNCHANGED tableVars
    BY <1>2 DEF Serve, Connect, SendPage, Poll, ConnectionEnds, Heartbeat, Receive, ConnectionLost, ReloadPage
  <2>2. QED
    BY <2>1
<1>3. CASE Login \/ Logout \/ SessionExpires \/ BeginReport \/ ReadReportPage \/ AnswerReport
  <2>1. UNCHANGED tableVars
    BY <1>3 DEF Login, Logout, SessionExpires, SetSession, BeginReport, ReadReportPage, AnswerReport
  <2>2. QED
    BY <2>1
<1>4. CASE Operate
  BY <1>4, OperationsExecute DEF AnyExecute, Execute, ServiceReturns, RecordAudit, AuditIsLost
<1>5. CASE UNCHANGED vars
  BY <1>5 DEF vars, tableVars
<1>6. QED
  BY <1>1, <1>2, <1>3, <1>4, <1>5 DEF Next

LEMMA RowsStayInStep ==
  ASSUME StreamTypeOK, [Next]_vars
  PROVE  RowsStay
BY TableSteps, InsertedRows, CommittedRow, AbortedRow, SameRows DEF tableVars

-----------------------------------------------------------------------------
(***************************************************************************)
(* The audit log.                                                          *)
(***************************************************************************)
LEMMA InitRequestIsCommitted ==
  ASSUME Init PROVE RequestIsCommitted
BY DEF Init, RequestIsCommitted, AuditedSuccessWasCommitted, NoRequest, NoEntry

LEMMA StepKeepsRequests ==
  ASSUME StreamTypeOK, RequestIsCommitted, [Next]_vars
  PROVE  RequestIsCommitted'
<1> USE DEF RequestIsCommitted, AuditedSuccessWasCommitted
<1>1. RowsStay
  BY RowsStayInStep
<1>2. CASE UNCHANGED requestVars
  BY <1>1, <1>2 DEF RowsStay, requestVars
<1>3. CASE AnyExecute
  <2>1. PICK op \in Operations, kind \in Kinds : Execute(op, kind)
    BY <1>3 DEF AnyExecute
  <2>2. request' = [op |-> op, row |-> Len(rows) + 1, stage |-> "executing"] /\ audit' = audit /\ Insert(kind)
    BY <2>1 DEF Execute
  <2>3. Len(rows) + 1 \in DOMAIN rows' /\ CommittedIds' = CommittedIds
    BY <2>2, InsertedRows
  <2>4. QED
    BY <2>2, <2>3
<1>4. ASSUME NEW result \in Results, ServiceReturns(result) PROVE RequestIsCommitted'
  <2>1. /\ request.stage = "executing" /\ request' = [request EXCEPT !.stage = result]
        /\ rows' = rows /\ audit' = audit
        /\ rows[request.row].state = "committed" \/ result = "FAILURE"
    BY <1>4 DEF ServiceReturns, tableVars
  <2>2. request' # NoRequest /\ request'.op = request.op /\ request'.row = request.row /\ request'.stage = result
    BY <2>1 DEF StreamTypeOK, NoRequest, Results
  <2>3. request # NoRequest
    BY <2>1 DEF NoRequest
  <2>4. request.op \in Operations /\ request.row \in DOMAIN rows
    BY <2>3
  <2>5. result = "SUCCESS" => request.row \in CommittedIds
    BY <2>1, <2>4 DEF CommittedIds
  <2>6. CommittedIds' = CommittedIds
    BY <2>1, SameRows
  <2>7. QED
    BY <2>1, <2>2, <2>4, <2>5, <2>6
<1>5. CASE RecordAudit
  <2>1. /\ request' = NoRequest /\ rows' = rows
        /\ audit' = [op |-> request.op, row |-> request.row, result |-> request.stage]
    BY <1>5 DEF RecordAudit, tableVars
  <2>2. CommittedIds' = CommittedIds
    BY <2>1, SameRows
  <2>3. QED
    BY <2>1, <2>2 DEF NoRequest
<1>6. CASE AuditIsLost
  <2>1. request' = NoRequest /\ audit' = audit
    BY <1>6 DEF AuditIsLost
  <2>2. QED
    BY <1>1, <2>1 DEF RowsStay, NoRequest
<1>7. CASE \E kind \in Kinds : OtherTransaction(kind)
  BY <1>2, <1>7 DEF OtherTransaction
<1>8. CASE \E i \in DOMAIN rows : Commit(i) \/ Abort(i)
  BY <1>2, <1>8 DEF Commit, Abort
<1>9. CASE Serve \/ Heartbeat \/ Receive \/ ConnectionLost \/ ReloadPage
  <2>1. UNCHANGED requestVars
    BY <1>9 DEF Serve, Connect, SendPage, Poll, ConnectionEnds, Heartbeat, Receive, ConnectionLost, ReloadPage
  <2>2. QED
    BY <1>2, <2>1
<1>10. CASE Login \/ Logout \/ SessionExpires \/ BeginReport \/ ReadReportPage \/ AnswerReport
  <2>1. UNCHANGED requestVars
    BY <1>10 DEF Login, Logout, SessionExpires, SetSession, BeginReport, ReadReportPage, AnswerReport
  <2>2. QED
    BY <1>2, <2>1
<1>11. CASE UNCHANGED vars
  BY <1>2, <1>11 DEF vars, requestVars
<1>12. QED
  BY <1>3, <1>4, <1>5, <1>6, <1>7, <1>8, <1>9, <1>10, <1>11, OperationsExecute DEF Next

-----------------------------------------------------------------------------
(***************************************************************************)
(* The report.                                                             *)
(***************************************************************************)
LEMMA InitReportIsBehind ==
  ASSUME Init PROVE ReportIsBehind
BY DEF Init, ReportIsBehind, ReportIsComplete, NoReport

LEMMA StepKeepsReport ==
  ASSUME StreamTypeOK, ReportIsBehind, [Next]_vars
  PROVE  ReportIsBehind'
<1> USE DEF ReportIsBehind, ReportIsComplete
<1>1. RowsStay
  BY RowsStayInStep
<1>2. CASE UNCHANGED report
  BY <1>1, <1>2 DEF RowsStay
<1>3. CASE BeginReport
  <2>1. rows' = rows /\ report' = [NoReport EXCEPT !.stage = "paging", !.unread = CommittedIds]
    BY <1>3 DEF BeginReport, tableVars
  <2>2. CommittedIds' = CommittedIds /\ \A i \in CommittedIds : i > 0
    BY <2>1, SameRows, CommittedRows, StreamAssumption DEF Ids
  <2>3. QED
    BY <2>1, <2>2 DEF NoReport
<1>4. CASE ReadReportPage
  <2> DEFINE page == Page(report.cursor, ReportPage)  g == Greatest(page, report.cursor)
  <2>1. /\ report.stage = "paging" /\ rows' = rows
        /\ report' = [report EXCEPT !.unread = report.unread \ page, !.cursor = g,
                                    !.stage = IF Cardinality(page) < ReportPage THEN "done" ELSE "paging"]
    BY <1>4 DEF ReadReportPage, tableVars
  <2>2. report.cursor \in 0..MaxEvents /\ ReportPage \in Nat \ {0} /\ ReportPage <= MaxPage
    BY StreamAssumption DEF StreamTypeOK
  <2>3. /\ g \in 0..MaxEvents
        /\ \A i \in Visible(report.cursor) : i <= g => i \in page
    BY <2>2, CursorMovesOverPage
  <2>4. Cardinality(page) < ReportPage => page = Visible(report.cursor)
    BY <2>2, CommittedRows, PageIsPrefix
  <2>5. CommittedIds' = CommittedIds /\ \A i \in CommittedIds : i \in Nat
    BY <2>1, SameRows, CommittedRows, IdsAreFinite
  <2>6. \A i \in report.unread : i \in CommittedIds /\ i \in Visible(report.cursor)
    BY <2>1 DEF Visible
  <2> HIDE DEF page, g
  <2>7. /\ report'.unread = report.unread \ page /\ report'.cursor = g
        /\ report'.stage = IF Cardinality(page) < ReportPage THEN "done" ELSE "paging"
    BY <2>1 DEF StreamTypeOK
  <2>8. \A i \in report.unread \ page : i \in CommittedIds /\ i > g
    BY <2>3, <2>5, <2>6, StreamAssumption
  <2>9. QED
    BY <2>4, <2>5, <2>6, <2>7, <2>8
<1>5. CASE AnswerReport
  BY <1>5 DEF AnswerReport, NoReport
<1>6. CASE \E kind \in Kinds : OtherTransaction(kind)
  BY <1>2, <1>6 DEF OtherTransaction
<1>7. CASE \E i \in DOMAIN rows : Commit(i) \/ Abort(i)
  BY <1>2, <1>7 DEF Commit, Abort
<1>8. CASE Serve \/ Heartbeat \/ Receive \/ ConnectionLost \/ ReloadPage
  <2>1. UNCHANGED report
    BY <1>8 DEF Serve, Connect, SendPage, Poll, ConnectionEnds, Heartbeat, Receive, ConnectionLost, ReloadPage
  <2>2. QED
    BY <1>2, <2>1
<1>9. CASE Login \/ Logout \/ SessionExpires \/ Operate
  <2>1. UNCHANGED report
    BY <1>9, OperationsExecute DEF Login, Logout, SessionExpires, SetSession, AnyExecute, Execute,
                                   ServiceReturns, RecordAudit, AuditIsLost
  <2>2. QED
    BY <1>2, <2>1
<1>10. CASE UNCHANGED vars
  BY <1>2, <1>10 DEF vars
<1>11. QED
  BY <1>3, <1>4, <1>5, <1>6, <1>7, <1>8, <1>9, <1>10 DEF Next

-----------------------------------------------------------------------------
(***************************************************************************)
(* The stream.                                                             *)
(***************************************************************************)
PageStep ==
  \/ Connect \/ SendPage \/ Poll \/ Heartbeat \/ Receive
  \/ ConnectionEnds \/ ConnectionLost \/ ReloadPage

LEMMA PageOrTableSteps ==
  ASSUME StreamTypeOK, [Next]_vars
  PROVE  \/ PageStep /\ UNCHANGED <<rows, active, late>>
         \/ (\E i \in DOMAIN rows : Commit(i)) /\ UNCHANGED <<conn, seen>>
         \/ CommittedIds' = CommittedIds /\ UNCHANGED <<active, late, conn, seen>>
<1>1. CASE Serve \/ Heartbeat \/ Receive \/ ConnectionLost \/ ReloadPage
  <2>1. PageStep
    BY <1>1 DEF PageStep, Serve
  <2>2. UNCHANGED <<rows, active, late>>
    BY <1>1 DEF Serve, Connect, SendPage, Poll, ConnectionEnds, Heartbeat, Receive, ConnectionLost, ReloadPage,
                tableVars
  <2>3. QED
    BY <2>1, <2>2
<1>2. CASE \E kind \in Kinds : OtherTransaction(kind)
  BY <1>2, InsertedRows DEF OtherTransaction, clientVars
<1>3. CASE \E i \in DOMAIN rows : Commit(i)
  BY <1>3 DEF Commit, clientVars
<1>4. CASE \E i \in DOMAIN rows : Abort(i)
  BY <1>4, AbortedRow DEF Abort, clientVars
<1>5. CASE AnyExecute
  BY <1>5, InsertedRows DEF AnyExecute, Execute, clientVars
<1>6. CASE \/ Login \/ Logout \/ SessionExpires \/ BeginReport \/ ReadReportPage \/ AnswerReport
           \/ (\E result \in Results : ServiceReturns(result)) \/ RecordAudit \/ AuditIsLost
  <2>1. UNCHANGED <<tableVars, clientVars, late>>
    BY <1>6 DEF Login, Logout, SessionExpires, SetSession, BeginReport, ReadReportPage, AnswerReport,
                ServiceReturns, RecordAudit, AuditIsLost
  <2>2. QED
    BY <2>1, SameRows DEF tableVars, clientVars
<1>7. CASE UNCHANGED vars
  BY <1>7, SameRows DEF vars
<1>8. QED
  BY <1>1, <1>2, <1>3, <1>4, <1>5, <1>6, <1>7, OperationsExecute DEF Next

LEMMA InitStreamKnowsItsEnd ==
  ASSUME Init PROVE StreamKnowsItsEnd
BY DEF Init, StreamKnowsItsEnd, EndedStreamIsComplete, NoConnection

\* What the table does cannot hide an ending that the stream has read.
LEMMA TableKeepsEnd ==
  ASSUME StreamTypeOK, StreamKnowsItsEnd, RowsStay, UNCHANGED <<conn, seen>>,
         ~active' => ~active \/ \E i \in CommittedIds' : rows'[i].kind = "end"
  PROVE  StreamKnowsItsEnd'
<1>1. \A i \in CommittedIds : i \in CommittedIds' /\ rows'[i].kind = rows[i].kind
  BY CommittedRows DEF RowsStay
<1>2. (~active => \E i \in CommittedIds : rows[i].kind = "end")'
  BY <1>1 DEF StreamKnowsItsEnd
<1>3. (conn.stage = "polling" => ~conn.ended)'
  BY DEF StreamKnowsItsEnd
<1>4. (conn.stage = "reading" /\ conn.ended =>
         /\ \A i \in conn.unsent : i \in CommittedIds /\ i > conn.cursor
         /\ \E i \in CommittedIds : rows[i].kind = "end" /\ (i <= conn.cursor \/ i \in conn.unsent))'
  BY <1>1 DEF StreamKnowsItsEnd
<1>5. EndedStreamIsComplete'
  BY <1>1 DEF StreamKnowsItsEnd, EndedStreamIsComplete
<1>6. QED
  BY <1>2, <1>3, <1>4, <1>5 DEF StreamKnowsItsEnd

LEMMA StepKeepsEnd ==
  ASSUME StreamTypeOK, StreamKnowsItsEnd, [Next]_vars
  PROVE  StreamKnowsItsEnd'
<1>1. RowsStay
  BY RowsStayInStep
<1>2. ASSUME NEW i \in DOMAIN rows, Commit(i), UNCHANGED <<conn, seen>> PROVE StreamKnowsItsEnd'
  <2>1. CommittedIds' = CommittedIds \cup {i} /\ rows'[i].kind = rows[i].kind
    BY <1>1, <1>2, CommittedRow DEF RowsStay
  <2>2. ~active' => ~active \/ rows[i].kind = "end"
    BY <1>2 DEF Commit
  <2>3. QED
    BY <1>1, <1>2, <2>1, <2>2, TableKeepsEnd
<1>3. CASE CommittedIds' = CommittedIds /\ UNCHANGED <<active, late, conn, seen>>
  BY <1>1, <1>3, TableKeepsEnd
<1>4. CASE PageStep /\ UNCHANGED <<rows, active, late>>
  <2>1. CommittedIds' = CommittedIds
    BY <1>4, SameRows
  <2>2. conn.cursor \in 0..MaxEvents /\ conn.ended \in BOOLEAN /\ \A i \in CommittedIds : i \in Nat
    BY CommittedRows, IdsAreFinite DEF StreamTypeOK
  <2>3. CASE conn' \in {NoConnection("idle"), NoConnection("refused")}
    BY <1>4, <2>1, <2>3 DEF StreamKnowsItsEnd, EndedStreamIsComplete, NoConnection
  <2>4. ASSUME NEW ended \in BOOLEAN, NEW cursor \in 0..MaxEvents, ended => ~active,
               conn'.stage = "reading", conn'.ended = ended, conn'.cursor = cursor,
               conn'.unsent = {i \in CommittedIds : i > cursor}
        PROVE  StreamKnowsItsEnd'
    <3>1. \A i \in CommittedIds : i <= cursor \/ i \in conn'.unsent
      BY <2>2, <2>4
    <3>2. QED
      BY <1>4, <2>1, <2>4, <3>1 DEF StreamKnowsItsEnd, EndedStreamIsComplete
  <2>5. CASE Connect
    <3>1. CASE conn' = [NoConnection("reading") EXCEPT
                          !.cursor = LastEventID, !.ended = ~active,
                          !.unsent = {i \in CommittedIds : i > LastEventID}]
      <4>1. LastEventID \in 0..MaxEvents
        BY StreamAssumption DEF LastEventID, StreamTypeOK, Ids
      <4>2. conn'.stage = "reading" /\ conn'.ended = ~active /\ conn'.cursor = LastEventID
            /\ conn'.unsent = {i \in CommittedIds : i > LastEventID}
        BY <3>1 DEF NoConnection
      <4>3. QED
        BY <2>4, <4>1, <4>2
    <3>2. QED
      BY <2>3, <2>5, <3>1 DEF Connect
  <2>6. CASE Poll
    <3>1. conn'.stage = "reading" /\ conn'.ended = ~active /\ conn'.cursor = conn.cursor
          /\ conn'.unsent = {i \in CommittedIds : i > conn.cursor}
      BY <2>6 DEF Poll, StreamTypeOK
    <3>2. QED
      BY <2>2, <2>4, <3>1
  <2>7. CASE Heartbeat
    <3>1. conn.stage = "polling" /\ conn' = [conn EXCEPT !.stage = "reading"]
      BY <2>7 DEF Heartbeat
    <3>2. ~conn'.ended /\ conn'.stage = "reading"
      BY <3>1 DEF StreamKnowsItsEnd, StreamTypeOK
    <3>3. QED
      BY <1>4, <2>1, <3>2 DEF StreamKnowsItsEnd, EndedStreamIsComplete
  <2>8. CASE SendPage
    <3> DEFINE page == Page(conn.cursor, StreamPage)  g == Greatest(page, conn.cursor)
    <3>1. /\ conn.stage = "reading"
          /\ conn'.stage = AfterPage(conn.ended) /\ conn'.cursor = g /\ conn'.ended = conn.ended
          /\ conn.ended /\ Cardinality(page) = StreamPage => conn'.full
          /\ conn'.unsent = IF conn.ended THEN conn.unsent \ page ELSE {}
      BY <2>8 DEF SendPage, StreamTypeOK
    <3>2. StreamPage \in Nat \ {0} /\ StreamPage <= MaxPage
      BY StreamAssumption
    <3>3. /\ Cardinality(page) \in Nat /\ Cardinality(page) <= StreamPage
          /\ Cardinality(page) < StreamPage => page = Visible(conn.cursor)
      BY <3>2, CommittedRows, PageIsPrefix, IdsAreFinite
    <3>4. g \in 0..MaxEvents /\ conn.cursor <= g /\ \A i \in page : i <= g
      BY <2>2, <3>2, CursorMovesOverPage
    <3> HIDE DEF page, g
    <3>5. CASE ~conn.ended
      <4>1. conn'.stage = "polling" /\ ~conn'.ended
        BY <3>1, <3>5 DEF AfterPage
      <4>2. QED
        BY <1>4, <2>1, <4>1 DEF StreamKnowsItsEnd, EndedStreamIsComplete
    <3>6. CASE conn.ended
      <4>1. conn'.stage = "closing"
        BY <3>1, <3>6 DEF AfterPage
      <4>2. ASSUME ~conn'.full PROVE conn'.unsent = {} /\ \E i \in CommittedIds : rows[i].kind = "end" /\ i <= g
        <5>1. page = Visible(conn.cursor)
          BY <3>1, <3>2, <3>3, <3>6, <4>2
        <5>2. \A i \in conn.unsent : i \in page
          BY <3>1, <3>6, <5>1 DEF StreamKnowsItsEnd, Visible
        <5>3. PICK i \in CommittedIds : rows[i].kind = "end" /\ (i <= conn.cursor \/ i \in conn.unsent)
          BY <3>1, <3>6 DEF StreamKnowsItsEnd
        <5>4. i <= g
          BY <2>2, <3>4, <5>2, <5>3
        <5>5. QED
          BY <3>1, <3>6, <5>2, <5>3, <5>4
      <4>3. QED
        BY <1>4, <2>1, <3>1, <4>1, <4>2 DEF StreamKnowsItsEnd, EndedStreamIsComplete
    <3>7. QED
      BY <2>2, <3>5, <3>6
  <2>9. CASE Receive
    <3>1. /\ conn'.stage = conn.stage /\ conn'.cursor = conn.cursor /\ conn'.ended = conn.ended
          /\ conn'.full = conn.full /\ conn'.unsent = conn.unsent
      BY <2>9 DEF Receive, StreamTypeOK
    <3>2. QED
      BY <1>4, <2>1, <3>1 DEF StreamKnowsItsEnd, EndedStreamIsComplete
  <2>10. CASE ConnectionEnds \/ ConnectionLost \/ ReloadPage
    <3>1. conn' = NoConnection("idle")
      BY <2>10 DEF ConnectionEnds, ConnectionLost, ReloadPage
    <3>2. QED
      BY <2>3, <3>1
  <2>11. QED
    BY <1>4, <2>5, <2>6, <2>7, <2>8, <2>9, <2>10 DEF PageStep
<1>5. QED
  BY <1>2, <1>3, <1>4, PageOrTableSteps

LEMMA SentProperties ==
  ASSUME StreamTypeOK
  PROVE  /\ Sent \in Seq(Ids) /\ Len(seen) \in Nat /\ Len(conn.wire) \in Nat
         /\ DOMAIN Sent = 1..(Len(seen) + Len(conn.wire)) /\ DOMAIN seen = 1..Len(seen)
         /\ \A k \in DOMAIN seen : k \in DOMAIN Sent /\ Sent[k] = seen[k]
         /\ \A k \in DOMAIN Sent : Sent[k] \in Nat
         /\ conn.wire = << >> => Sent = seen
         /\ conn.wire # << >> => /\ Len(seen) + 1 \in DOMAIN Sent
                                 /\ Sent[Len(seen) + 1] = Head(conn.wire)
<1>1. seen \in Seq(Ids) /\ conn.wire \in Seq(Ids)
  BY DEF StreamTypeOK
<1>2. /\ Sent \in Seq(Ids) /\ Len(Sent) = Len(seen) + Len(conn.wire)
      /\ \A k \in 1..Len(seen) + Len(conn.wire) :
           Sent[k] = IF k <= Len(seen) THEN seen[k] ELSE conn.wire[k - Len(seen)]
  BY <1>1, ConcatProperties DEF Sent
<1>3. /\ Len(seen) \in Nat /\ Len(conn.wire) \in Nat /\ DOMAIN seen = 1..Len(seen)
      /\ DOMAIN Sent = 1..(Len(seen) + Len(conn.wire))
  BY <1>1, <1>2
<1>4. conn.wire = << >> => Sent = seen
  BY <1>1, ConcatEmptySeq DEF Sent
<1>5. ASSUME conn.wire # << >>
      PROVE  Len(seen) + 1 \in DOMAIN Sent /\ Sent[Len(seen) + 1] = Head(conn.wire)
  <2>1. Len(conn.wire) >= 1 /\ Head(conn.wire) = conn.wire[1]
    BY <1>1, <1>3, <1>5, EmptySeq
  <2>2. QED
    BY <1>2, <1>3, <2>1
<1>6. \A k \in DOMAIN Sent : Sent[k] \in Nat
  <2>1. \A k \in DOMAIN Sent : Sent[k] \in Ids
    BY <1>2
  <2>2. QED
    BY <2>1, StreamAssumption DEF Ids
<1>7. QED
  BY <1>2, <1>3, <1>4, <1>5, <1>6

LEMMA ConcatIds ==
  \A a, b, c \in Seq(Ids) : (a \o b) \o c = a \o (b \o c)
OBVIOUS

LEMMA HeadMoves ==
  ASSUME NEW S, NEW s \in Seq(S), NEW t \in Seq(S), t # << >>
  PROVE  Append(s, Head(t)) \o Tail(t) = s \o t
<1>1. /\ Head(t) \in S /\ Tail(t) \in Seq(S) /\ Len(Tail(t)) = Len(t) - 1
      /\ \A i \in 1..Len(Tail(t)) : Tail(t)[i] = t[i + 1]
  BY HeadTailProperties
<1> DEFINE h == Head(t)  r == Tail(t)
<1>2. Len(t) \in Nat \ {0} /\ h = t[1]
  BY EmptySeq
<1> HIDE DEF h, r
<1>3. Append(s, h) = s \o <<h>>
  BY <1>1, AppendIsConcat DEF h
<1> DEFINE one == <<h>>
<1>4. one \in Seq(S) /\ Len(one) = 1 /\ one[1] = h
  BY <1>1 DEF h
<1> HIDE DEF one
<1>5. r \in Seq(S) /\ Len(r) \in Nat /\ Len(one) + Len(r) = Len(t)
  BY <1>1, <1>2, <1>4 DEF r
<1>6. (s \o one) \o r = s \o (one \o r)
  BY <1>4, <1>5
<1>7. one \o r = t
  <2>1. /\ one \o r \in Seq(S) /\ Len(one \o r) = Len(one) + Len(r)
        /\ \A i \in 1..Len(one) + Len(r) : (one \o r)[i] = IF i <= Len(one) THEN one[i] ELSE r[i - Len(one)]
    BY <1>4, <1>5, ConcatProperties
  <2>2. ASSUME NEW i \in 1..Len(t) PROVE (one \o r)[i] = t[i]
    <3>1. CASE i = 1
      <4>1. (one \o r)[i] = one[i]
        BY <1>4, <1>5, <2>1, <3>1
      <4>2. one[i] = h /\ t[i] = h
        BY <1>2, <1>4, <3>1
      <4>3. QED
        BY <4>1, <4>2, Zenon
    <3>2. CASE i > 1
      <4>1. i - 1 \in 1..Len(r) /\ (i - 1) + 1 = i
        BY <1>2, <1>4, <1>5, <3>2
      <4>2. r[i - 1] = t[i]
        BY <1>1, <4>1 DEF r
      <4>3. (one \o r)[i] = r[i - 1]
        BY <1>4, <1>5, <2>1, <3>2
      <4>4. QED
        BY <4>2, <4>3
    <3>3. i = 1 \/ i > 1
      BY <1>2
    <3>4. QED
      BY <3>1, <3>2, <3>3, Zenon
  <2>3. Len(one \o r) = Len(t)
    BY <1>5, <2>1
  <2>4. QED
    BY <2>1, <2>2, <2>3, SeqEqual
<1>8. QED
  BY <1>3, <1>6, <1>7 DEF h, r, one

SentInOrder == \A j, k \in DOMAIN Sent : j < k => Sent[j] < Sent[k]

SentUpToCursor ==
  /\ \A k \in DOMAIN Sent : Sent[k] <= conn.cursor
  /\ \A i \in CommittedIds : i <= conn.cursor => i \in late \/ \E k \in DOMAIN Sent : Sent[k] = i

LEMMA StreamOrderParts ==
  StreamIsOrdered <=>
    SentInOrder /\ (~Connected => conn.wire = << >>) /\ (Connected => SentUpToCursor) /\ OnlyLateEventsAreMissing
BY DEF StreamIsOrdered, SentInOrder, SentUpToCursor

LEMMA InitStreamIsOrdered ==
  ASSUME Init PROVE StreamIsOrdered
<1>1. StreamTypeOK
  BY InitTypeOK
<1>2. conn.wire = << >> /\ seen = << >> /\ ~Connected /\ rows = << >>
  BY DEF Init, NoConnection, Connected
<1>3. Sent = << >>
  BY <1>1, <1>2, SentProperties
<1>4. QED
  BY <1>2, <1>3, StreamOrderParts DEF SentInOrder, OnlyLateEventsAreMissing, CommittedIds

\* What commits behind the cursor is recorded as late.
LEMMA TableKeepsOrder ==
  ASSUME StreamTypeOK, StreamIsOrdered, UNCHANGED <<conn, seen>>, late \subseteq late',
         \A i \in CommittedIds' : i \in CommittedIds \/ (Covered(i) => i \in late')
  PROVE  StreamIsOrdered'
<1>1. Sent' = Sent /\ LastEventID' = LastEventID /\ Connected' = Connected
  BY DEF Sent, LastEventID, Connected
<1>2. SentInOrder' /\ (~Connected => conn.wire = << >>)'
  BY <1>1, StreamOrderParts DEF SentInOrder
<1>3. (Connected => SentUpToCursor)'
  BY <1>1, StreamOrderParts DEF SentUpToCursor, Covered
<1>4. OnlyLateEventsAreMissing'
  BY <1>1, StreamOrderParts DEF OnlyLateEventsAreMissing, Covered
<1>5. SentInOrder' /\ (~Connected => conn.wire = << >>)' /\ (Connected => SentUpToCursor)'
      /\ OnlyLateEventsAreMissing' => StreamIsOrdered'
  BY DEF StreamIsOrdered, SentInOrder, SentUpToCursor
<1>6. QED
  BY <1>2, <1>3, <1>4, <1>5

LEMMA SeenUpToLastEventID ==
  ASSUME StreamTypeOK, SentInOrder
  PROVE  LastEventID \in Nat /\ \A k \in DOMAIN seen : seen[k] <= LastEventID
<1>1. seen \in Seq(Ids) /\ Len(seen) \in Nat /\ DOMAIN seen = 1..Len(seen) /\ \A k \in DOMAIN seen : seen[k] \in Nat
  BY SentProperties DEF StreamTypeOK
<1>2. \A j, k \in DOMAIN seen : j < k => seen[j] < seen[k]
  BY SentProperties DEF SentInOrder
<1>3. CASE seen = << >>
  BY <1>1, <1>3 DEF LastEventID
<1>4. CASE seen # << >>
  <2>1. Len(seen) \in DOMAIN seen /\ LastEventID = seen[Len(seen)]
    BY <1>1, <1>4, EmptySeq DEF LastEventID
  <2>2. QED
    BY <1>1, <1>2, <2>1
<1>5. QED
  BY <1>3, <1>4

NewOrder ==
  SentInOrder' /\ (~Connected => conn.wire = << >>)' /\ (Connected => SentUpToCursor)' /\ OnlyLateEventsAreMissing'

\* A handler begins, reads or ends: nothing is written or received.
LEMMA QuietStepKeepsOrder ==
  ASSUME StreamTypeOK, StreamIsOrdered, UNCHANGED <<rows, late, seen>>,
         conn'.wire = conn.wire \/ conn'.wire = << >>,
         (~Connected => conn.wire = << >>)', (Connected => SentUpToCursor)'
  PROVE  NewOrder
<1>1. SentInOrder /\ OnlyLateEventsAreMissing
  BY StreamOrderParts
<1>2. CASE conn'.wire = conn.wire
  <2>1. Sent' = Sent
    BY <1>2 DEF Sent
  <2>2. QED
    BY <1>1, <2>1, SameRows DEF NewOrder, SentInOrder, OnlyLateEventsAreMissing, LastEventID
<1>3. CASE conn'.wire = << >>
  <2>1. Sent' = seen
    BY <1>3, ConcatEmptySeq DEF Sent, StreamTypeOK
  <2>2. \A j, k \in DOMAIN seen : j < k => seen[j] < seen[k]
    BY <1>1, SentProperties DEF SentInOrder
  <2>3. QED
    BY <1>1, <2>1, <2>2, SameRows DEF NewOrder, SentInOrder, OnlyLateEventsAreMissing, LastEventID
<1>4. QED
  BY <1>2, <1>3

LEMMA ConnectKeepsOrder ==
  ASSUME StreamTypeOK, StreamIsOrdered, Connect, UNCHANGED <<rows, late>>
  PROVE  NewOrder
<1>1. SentInOrder /\ OnlyLateEventsAreMissing
  BY StreamOrderParts
<1>2. conn.stage = "idle" /\ seen' = seen
  BY DEF Connect
<1>3. conn' = NoConnection("refused") \/ (conn'.stage = "reading" /\ conn'.cursor = LastEventID /\ conn'.wire = << >>)
  BY DEF Connect, NoConnection
<1>4. conn'.wire = << >> /\ Sent' = seen
  <2>1. conn'.wire = << >>
    BY <1>3 DEF NoConnection
  <2>2. QED
    BY <1>2, <2>1, ConcatEmptySeq DEF Sent, StreamTypeOK
<1>5. (Connected => SentUpToCursor)'
  <2>1. CASE conn'.cursor = LastEventID
    BY <1>1, <1>4, <2>1, SameRows, SeenUpToLastEventID DEF SentUpToCursor, OnlyLateEventsAreMissing
  <2>2. CASE conn' = NoConnection("refused")
    BY <2>2 DEF Connected, NoConnection
  <2>3. QED
    BY <1>3, <2>1, <2>2
<1>6. QED
  BY <1>2, <1>4, <1>5, QuietStepKeepsOrder

LEMMA SendPageKeepsOrder ==
  ASSUME StreamTypeOK, StreamIsOrdered, SendPage, UNCHANGED <<rows, late>>
  PROVE  NewOrder
<1> DEFINE page == Page(conn.cursor, StreamPage)  g == Greatest(page, conn.cursor)  written == Ascending(page)
<1>1. SentInOrder /\ SentUpToCursor /\ OnlyLateEventsAreMissing
  BY StreamOrderParts DEF Connected, SendPage
<1>2. /\ seen' = seen /\ Connected' /\ conn'.cursor = g /\ conn'.wire = conn.wire \o written
  BY DEF SendPage, AfterPage, Connected, StreamTypeOK
<1>3. conn.cursor \in 0..MaxEvents /\ conn.wire \in Seq(Ids) /\ seen \in Seq(Ids)
      /\ StreamPage \in Nat \ {0} /\ StreamPage <= MaxPage
  BY StreamAssumption DEF StreamTypeOK
<1>4. /\ page \subseteq Visible(conn.cursor) /\ g \in 0..MaxEvents /\ conn.cursor <= g
      /\ \A i \in page : i <= g
      /\ \A i \in Visible(conn.cursor) : i <= g => i \in page
  BY <1>3, CursorMovesOverPage
<1>5. /\ written \in Seq(Ids)
      /\ \A k \in DOMAIN written : written[k] \in page
      /\ \A i \in page : \E k \in DOMAIN written : written[k] = i
      /\ \A k, m \in DOMAIN written : k < m => written[k] < written[m]
  BY <1>3, WrittenPage
<1>6. CommittedIds' = CommittedIds /\ \A i \in CommittedIds : i \in Nat
  BY SameRows, CommittedRows, IdsAreFinite
<1>7. \A i \in page : i \in Nat /\ i > conn.cursor
  BY <1>4, <1>6 DEF Visible
<1> HIDE DEF page, g, written
<1>8. Sent' = Sent \o written
  <2>1. Sent' = seen \o (conn.wire \o written)
    BY <1>2 DEF Sent
  <2>2. (seen \o conn.wire) \o written = seen \o (conn.wire \o written)
    <3>1. seen \in Seq(Ids) /\ conn.wire \in Seq(Ids) /\ written \in Seq(Ids)
      BY <1>3, <1>5
    <3>2. QED
      BY <3>1, ConcatIds, Zenon
  <2>3. QED
    BY <2>1, <2>2 DEF Sent
<1>9. /\ Sent \in Seq(Ids) /\ Len(Sent) \in Nat /\ DOMAIN Sent = 1..Len(Sent)
      /\ Len(written) \in Nat /\ DOMAIN written = 1..Len(written)
      /\ \A k \in DOMAIN Sent : Sent[k] \in Nat
  BY <1>5, SentProperties
<1>10. /\ DOMAIN Sent' = 1..(Len(Sent) + Len(written))
       /\ \A k \in 1..(Len(Sent) + Len(written)) :
            Sent'[k] = IF k <= Len(Sent) THEN Sent[k] ELSE written[k - Len(Sent)]
  BY <1>5, <1>8, <1>9, ConcatProperties
<1>11. \A k \in DOMAIN Sent' : \/ k \in DOMAIN Sent /\ k <= Len(Sent) /\ Sent'[k] = Sent[k]
                               \/ /\ k - Len(Sent) \in DOMAIN written /\ k > Len(Sent)
                                  /\ Sent'[k] = written[k - Len(Sent)]
  BY <1>9, <1>10
<1>12. SentInOrder'
  <2> SUFFICES ASSUME NEW j \in DOMAIN Sent', NEW k \in DOMAIN Sent', j < k PROVE Sent'[j] < Sent'[k]
    BY DEF SentInOrder
  <2>1. j \in Nat /\ k \in Nat
    BY <1>9, <1>10
  <2>2. CASE k <= Len(Sent)
    BY <1>1, <1>9, <1>11, <2>1, <2>2 DEF SentInOrder
  <2>3. CASE j > Len(Sent)
    <3>1. j - Len(Sent) \in DOMAIN written /\ Sent'[j] = written[j - Len(Sent)]
      BY <1>9, <1>11, <2>1, <2>3
    <3>2. k - Len(Sent) \in DOMAIN written /\ Sent'[k] = written[k - Len(Sent)]
      BY <1>9, <1>11, <2>1, <2>3
    <3>3. j - Len(Sent) < k - Len(Sent)
      BY <1>9, <2>1
    <3>4. QED
      BY <1>5, <3>1, <3>2, <3>3
  <2>4. CASE j <= Len(Sent) /\ k > Len(Sent)
    <3>1. j \in DOMAIN Sent /\ Sent'[j] = Sent[j] /\ Sent[j] <= conn.cursor /\ Sent[j] \in Nat
      BY <1>1, <1>9, <1>11, <2>1, <2>4 DEF SentUpToCursor
    <3>2. Sent'[k] \in page
      BY <1>5, <1>9, <1>11, <2>1, <2>4
    <3>3. QED
      BY <1>3, <1>7, <3>1, <3>2
  <2>5. QED
    BY <1>9, <2>1, <2>2, <2>3, <2>4
<1>13. SentUpToCursor'
  <2>1. ASSUME NEW k \in DOMAIN Sent' PROVE Sent'[k] <= conn'.cursor
    <3>1. CASE k \in DOMAIN Sent /\ Sent'[k] = Sent[k]
      BY <1>1, <1>2, <1>3, <1>4, <1>9, <3>1 DEF SentUpToCursor
    <3>2. CASE k - Len(Sent) \in DOMAIN written /\ Sent'[k] = written[k - Len(Sent)]
      BY <1>2, <1>4, <1>5, <3>2
    <3>3. QED
      BY <1>11, <3>1, <3>2
  <2>2. ASSUME NEW i \in CommittedIds, i <= g PROVE i \in late \/ \E k \in DOMAIN Sent' : Sent'[k] = i
    <3>1. CASE i <= conn.cursor
      <4>1. CASE \E k \in DOMAIN Sent : Sent[k] = i
        BY <1>9, <1>10, <4>1
      <4>2. QED
        BY <1>1, <3>1, <4>1 DEF SentUpToCursor
    <3>2. CASE i > conn.cursor
      <4>1. i \in page
        BY <1>4, <2>2, <3>2 DEF Visible
      <4>2. PICK m \in DOMAIN written : written[m] = i
        BY <1>5, <4>1
      <4>3. m + Len(Sent) \in DOMAIN Sent' /\ Sent'[m + Len(Sent)] = i
        <5>1. m \in Nat /\ m >= 1 /\ m <= Len(written)
          BY <1>9
        <5>2. /\ m + Len(Sent) \in 1..(Len(Sent) + Len(written)) /\ ~(m + Len(Sent) <= Len(Sent))
              /\ (m + Len(Sent)) - Len(Sent) = m
          BY <1>9, <5>1
        <5>3. QED
          BY <1>10, <4>2, <5>2
      <4>4. QED
        BY <4>3
    <3>3. QED
      BY <1>3, <1>6, <3>1, <3>2
  <2>3. QED
    BY <1>2, <1>6, <2>1, <2>2 DEF SentUpToCursor
<1>14. OnlyLateEventsAreMissing'
  BY <1>1, <1>2, <1>6 DEF OnlyLateEventsAreMissing, LastEventID
<1>15. QED
  BY <1>2, <1>12, <1>13, <1>14 DEF NewOrder

LEMMA ReceiveKeepsOrder ==
  ASSUME StreamTypeOK, StreamIsOrdered, Receive, UNCHANGED <<rows, late>>
  PROVE  NewOrder
<1>1. SentInOrder /\ OnlyLateEventsAreMissing /\ conn.wire # << >> /\ Connected /\ SentUpToCursor
  BY StreamOrderParts DEF Receive
<1>2. /\ conn'.stage = conn.stage /\ conn'.cursor = conn.cursor /\ conn'.wire = Tail(conn.wire)
      /\ seen' = Append(seen, Head(conn.wire))
  BY DEF Receive, StreamTypeOK
<1>3. seen \in Seq(Ids) /\ conn.wire \in Seq(Ids) /\ Head(conn.wire) \in Ids /\ Tail(conn.wire) \in Seq(Ids)
  BY <1>1, HeadTailProperties DEF StreamTypeOK
<1>4. /\ seen' \in Seq(Ids) /\ Len(seen') = Len(seen) + 1 /\ Len(seen) \in Nat /\ seen' # << >>
      /\ \A i \in 1..Len(seen) : seen'[i] = seen[i] 
      /\ seen'[Len(seen) + 1] = Head(conn.wire)
  BY <1>2, <1>3, AppendProperties
<1>5. Sent' = Sent
  <2>1. Sent' = Append(seen, Head(conn.wire)) \o Tail(conn.wire)
    BY <1>2 DEF Sent
  <2>2. Append(seen, Head(conn.wire)) \o Tail(conn.wire) = seen \o conn.wire
    BY <1>1, <1>3, HeadMoves
  <2>3. QED
    BY <2>1, <2>2 DEF Sent
<1>6. CommittedIds' = CommittedIds /\ Connected' /\ \A i \in CommittedIds : i \in Nat
  BY <1>1, <1>2, SameRows, CommittedRows, IdsAreFinite DEF Connected
<1>7. SentInOrder' /\ SentUpToCursor'
  BY <1>1, <1>2, <1>5, <1>6 DEF SentInOrder, SentUpToCursor
<1>8. /\ LastEventID' = Sent[Len(seen) + 1] /\ Len(seen) + 1 \in DOMAIN Sent
      /\ DOMAIN Sent = 1..(Len(seen) + Len(conn.wire)) /\ Len(conn.wire) \in Nat
      /\ \A k \in DOMAIN Sent : Sent[k] \in Nat
      /\ \A k \in DOMAIN seen : Sent[k] = seen[k]
      /\ DOMAIN seen = 1..Len(seen) /\ DOMAIN seen' = 1..(Len(seen) + 1)
  BY <1>1, <1>3, <1>4, SentProperties DEF LastEventID
<1>9. ASSUME NEW i \in CommittedIds, i <= LastEventID', i \notin late PROVE \E k \in DOMAIN seen' : seen'[k] = i
  <2>1. i <= conn.cursor
    <3>1. conn.cursor \in Nat
      BY StreamAssumption DEF StreamTypeOK
    <3>2. LastEventID' \in Nat /\ LastEventID' <= conn.cursor
      BY <1>1, <1>8 DEF SentUpToCursor
    <3>3. QED
      BY <1>6, <1>9, <3>1, <3>2
  <2>2. PICK k \in DOMAIN Sent : Sent[k] = i
    BY <1>1, <1>9, <2>1 DEF SentUpToCursor
  <2>3. k <= Len(seen) + 1
    BY <1>1, <1>4, <1>6, <1>8, <1>9, <2>2 DEF SentInOrder
  <2>4. k \in DOMAIN seen' /\ seen'[k] = i
    BY <1>4, <1>8, <2>2, <2>3, SentProperties
  <2>5. QED
    BY <2>4
<1>10. OnlyLateEventsAreMissing'
  BY <1>6, <1>9 DEF OnlyLateEventsAreMissing
<1>11. QED
  BY <1>6, <1>7, <1>10 DEF NewOrder

LEMMA StepKeepsOrder ==
  ASSUME StreamTypeOK, StreamIsOrdered, [Next]_vars
  PROVE  StreamIsOrdered'
<1>1. NewOrder => StreamIsOrdered'
  BY DEF NewOrder, StreamIsOrdered, SentInOrder, SentUpToCursor
<1>2. ASSUME NEW i \in DOMAIN rows, Commit(i), UNCHANGED <<conn, seen>> PROVE StreamIsOrdered'
  <2>1. CommittedIds' = CommittedIds \cup {i}
    BY <1>2, CommittedRow
  <2>2. late' = IF Covered(i) THEN late \cup {i} ELSE late
    BY <1>2 DEF Commit
  <2>3. QED
    BY <1>2, <2>1, <2>2, TableKeepsOrder
<1>3. CASE CommittedIds' = CommittedIds /\ UNCHANGED <<active, late, conn, seen>>
  BY <1>3, TableKeepsOrder
<1>4. CASE PageStep /\ UNCHANGED <<rows, active, late>>
  <2>1. CASE Connect
    BY <1>1, <1>4, <2>1, ConnectKeepsOrder
  <2>2. CASE SendPage
    BY <1>1, <1>4, <2>2, SendPageKeepsOrder
  <2>3. CASE Receive
    BY <1>1, <1>4, <2>3, ReceiveKeepsOrder
  <2>4. CASE Poll \/ Heartbeat
    <3>1. conn'.stage = "reading" /\ conn'.cursor = conn.cursor /\ conn'.wire = conn.wire /\ seen' = seen
          /\ conn.stage = "polling"
      BY <2>4 DEF Poll, Heartbeat, StreamTypeOK
    <3>2. SentUpToCursor /\ Connected' /\ Sent' = Sent
      BY <3>1, StreamOrderParts DEF Connected, Sent
    <3>3. SentUpToCursor'
      BY <1>4, <3>1, <3>2, SameRows DEF SentUpToCursor
    <3>4. QED
      BY <1>1, <1>4, <3>1, <3>2, <3>3, QuietStepKeepsOrder
  <2>5. CASE ConnectionEnds \/ ConnectionLost
    <3>1. conn' = NoConnection("idle") /\ seen' = seen
      BY <2>5 DEF ConnectionEnds, ConnectionLost
    <3>2. conn'.wire = << >> /\ ~Connected'
      BY <3>1 DEF NoConnection, Connected
    <3>3. QED
      BY <1>1, <1>4, <3>1, <3>2, QuietStepKeepsOrder
  <2>6. CASE ReloadPage
    <3>1. conn' = NoConnection("idle") /\ seen' = << >>
      BY <2>6 DEF ReloadPage
    <3>2. conn'.wire = << >> /\ ~Connected' /\ LastEventID' = 0
      BY <3>1 DEF NoConnection, Connected, LastEventID
    <3>3. Sent' = << >>
      BY <3>1, <3>2, EmptySeq, ConcatEmptySeq DEF Sent
    <3>4. CommittedIds' = CommittedIds /\ \A i \in CommittedIds : i \in Nat /\ ~(i <= 0)
      BY <1>4, SameRows, CommittedRows, StreamAssumption DEF Ids
    <3>5. NewOrder
      BY <3>2, <3>3, <3>4 DEF NewOrder, SentInOrder, OnlyLateEventsAreMissing
    <3>6. QED
      BY <1>1, <3>5
  <2>7. QED
    BY <1>4, <2>1, <2>2, <2>3, <2>4, <2>5, <2>6 DEF PageStep
<1>5. QED
  BY <1>2, <1>3, <1>4, PageOrTableSteps

-----------------------------------------------------------------------------
(***************************************************************************)
(* The stream as a part of the console.                                    *)
(***************************************************************************)
LEMMA ConsoleStreamStep ==
  ASSUME ConsoleNext \/ UNCHANGED consoleVars
  PROVE  [Next]_vars
<1>1. CASE watched = "progress" /\ Next
  BY <1>1
<1>2. CASE UNCHANGED vars
  BY <1>2
<1>3. QED
  BY <1>1, <1>2 DEF ConsoleNext, consoleVars

\* The types of the stream, and what the invariants of its runs rest on.
THEOREM StreamIsConsistent == ConsoleSpec => [](StreamTypeOK /\ StreamInvariant)
<1>1. ConsoleInit => StreamTypeOK /\ StreamInvariant
  BY InitTypeOK, InitStreamIsOrdered, InitStreamKnowsItsEnd, InitReportIsBehind, InitRequestIsCommitted
     DEF ConsoleInit, StreamInvariant
<1>2. StreamTypeOK /\ StreamInvariant /\ [ConsoleNext]_consoleVars => (StreamTypeOK /\ StreamInvariant)'
  <2> SUFFICES ASSUME StreamTypeOK, StreamInvariant, ConsoleNext \/ UNCHANGED consoleVars
               PROVE  StreamTypeOK' /\ StreamInvariant'
    OBVIOUS
  <2>1. [Next]_vars
    BY ConsoleStreamStep
  <2>2. StreamTypeOK'
    BY <2>1, StepKeepsTypes
  <2>3. StreamIsOrdered' /\ StreamKnowsItsEnd'
    BY <2>1, StepKeepsOrder, StepKeepsEnd DEF StreamInvariant
  <2>4. ReportIsBehind' /\ RequestIsCommitted'
    BY <2>1, StepKeepsReport, StepKeepsRequests DEF StreamInvariant
  <2>5. QED
    BY <2>2, <2>3, <2>4 DEF StreamInvariant
<1>3. QED
  BY <1>1, <1>2, PTL DEF ConsoleSpec

\* A page receives the events of its run in the order of their ids and none
\* twice, however often its connection is lost and taken up again
\* (streamMigrationEventsHandler, Last-Event-ID).
THEOREM EventsArriveInOrder == ConsoleSpec => []EventsInOrder
<1>1. StreamTypeOK /\ StreamInvariant => EventsInOrder
  BY SentProperties, StreamOrderParts DEF StreamInvariant, SentInOrder, EventsInOrder
<1>2. QED
  BY <1>1, StreamIsConsistent, PTL

\* Of the events before the last one received, a page lacks only those that
\* committed when the cursor was already beyond their ids: neither a page of
\* the table nor a reconnection skips an event that could be read.
THEOREM StreamSkipsNothing == ConsoleSpec => []OnlyLateEventsAreMissing
<1>1. StreamTypeOK /\ StreamInvariant => OnlyLateEventsAreMissing
  BY DEF StreamInvariant, StreamIsOrdered
<1>2. QED
  BY <1>1, StreamIsConsistent, PTL

\* A stream that the server ends has sent the event of the ending and all that
\* was committed when the terminal status was read, unless its last page was full
\* (streamMigrationEventsHandler reads the run before the page).
THEOREM EndedStreamsAreComplete == ConsoleSpec => []EndedStreamIsComplete
<1>1. StreamTypeOK /\ StreamInvariant => EndedStreamIsComplete
  BY DEF StreamInvariant, StreamKnowsItsEnd
<1>2. QED
  BY <1>1, StreamIsConsistent, PTL

\* A finished report contains every event that was committed when it was begun
\* (RunService.Report pages until a page is not full).
THEOREM ReportsAreComplete == ConsoleSpec => []ReportIsComplete
<1>1. StreamTypeOK /\ StreamInvariant => ReportIsComplete
  BY DEF StreamInvariant, ReportIsBehind
<1>2. QED
  BY <1>1, StreamIsConsistent, PTL

\* The audit log calls an operation a success only if its transaction committed
\* (the handlers of runs, whose services answer after the commit).
THEOREM AuditedSuccessesAreCommitted == ConsoleSpec => []AuditedSuccessWasCommitted
<1>1. StreamTypeOK /\ StreamInvariant => AuditedSuccessWasCommitted
  BY DEF StreamInvariant, RequestIsCommitted
<1>2. QED
  BY <1>1, StreamIsConsistent, PTL

-----------------------------------------------------------------------------
(***************************************************************************)
(* Evidence: the shape of its variables.                                   *)
(***************************************************************************)
AreNodes(graph) == \A n \in graph : "status" \in DOMAIN n /\ n.status \in NodeStatuses

IsRow(row) ==
  /\ row = [f \in {"found", "terminal", "graph", "limited", "inside", "column", "filled"} |-> row[f]]
  /\ AreNodes(row.graph)

IsRequest(r) ==
  /\ r = [f \in {"at", "op", "by", "status", "row", "inventory", "observed"} |-> r[f]]
  /\ r.at \in ViewStages /\ r.status \in RunStages /\ IsRow(r.row)

RunHasType ==
  run \in [status : RunStages, failed : SUBSET FailingSteps, undo : {"nothing", "failure", "cancel", "request"}]

EvidenceShape ==
  /\ RunHasType
  /\ \A id \in DOMAIN results : results[id] \in {"SUCCEEDED", "WARNING", "FAILED"}
  /\ IsRow(topology)
  /\ view = [v \in Viewers |-> view[v]]
  /\ \A v \in Viewers : IsRequest(view[v])

LEMMA EmptyRequests ==
  /\ IsRow(NoTopology) /\ IsRequest(NoView) /\ IsRequest(Done)
  /\ NoView.at = "idle" /\ NoView.status = "NONE" /\ Done.at = "done" /\ Done.status = "NONE"
  /\ NoTopology.terminal = FALSE
<1>1. IsRow(NoTopology) /\ NoTopology.terminal = FALSE
  BY DEF IsRow, NoTopology, AreNodes
<1>2. NoView.at = "idle" /\ NoView.status = "NONE" /\ NoView.row = NoTopology
  BY DEF NoView
<1>3. Done.at = "done" /\ Done.status = "NONE" /\ Done.row = NoTopology
  BY DEF Done, NoView
<1>4. IsRequest(NoView)
  BY <1>1, <1>2 DEF NoView, IsRequest, ViewStages, RunStages
<1>5. IsRequest(Done)
  BY <1>1, <1>3 DEF Done, NoView, IsRequest, ViewStages, RunStages
<1>6. QED
  BY <1>1, <1>2, <1>3, <1>4, <1>5

LEMMA WhereItGoes ==
  ASSUME NEW op
  PROVE  IsRequest(Goes(op)) /\ Goes(op).at \in {"refresh", "done"} /\ Goes(op).status = "NONE"
BY EmptyRequests DEF Goes, NoView, IsRequest, ViewStages, RunStages

LEMMA GraphsAreNodes ==
  ASSUME NEW inventory, NEW status \in NodeStatuses
  PROVE  AreNodes(GraphFromInventory(inventory, status))
BY DEF AreNodes, GraphFromInventory, Node

LEMMA PlannedNodes ==
  ASSUME NEW inventory PROVE AreNodes(Planned(inventory))
<1>1. "PLANNED" \in NodeStatuses /\ "DISCOVERED" \in NodeStatuses
  BY DEF NodeStatuses
<1>2. \A kind, item, required, attrs, changed :
        /\ "status" \in DOMAIN ComposeNode(kind, item, required, attrs, changed)
        /\ ComposeNode(kind, item, required, attrs, changed).status = "PLANNED"
  BY DEF ComposeNode, Node
<1>3. AreNodes(BuildComposeTarget)
  <2>1. \A n \in BuildComposeTarget : \E kind, item, required, attrs, changed :
          n = ComposeNode(kind, item, required, attrs, changed)
    BY DEF BuildComposeTarget
  <2>2. QED
    BY <1>1, <1>2, <2>1 DEF AreNodes
<1>4. \A node : "status" \in DOMAIN node => "status" \in DOMAIN PlannedNode(node) /\ PlannedNode(node).status = "PLANNED"
  BY DEF PlannedNode
<1>5. AreNodes(BuildKubernetesTarget(inventory))
  BY <1>1, <1>4, GraphsAreNodes DEF AreNodes, BuildKubernetesTarget
<1>6. QED
  BY <1>3, <1>5 DEF Planned

LEMMA InitEvidence ==
  ASSUME EvidenceInit PROVE EvidenceShape /\ EvidenceInvariant
<1>1. /\ run = [status |-> "NONE", failed |-> {}, undo |-> "nothing"] /\ results = << >>
      /\ topology = NoTopology /\ view = [v \in Viewers |-> NoView]
  BY DEF EvidenceInit
<1>2. RunHasType /\ \A id \in DOMAIN results : results[id] \in {"SUCCEEDED", "WARNING", "FAILED"}
  BY <1>1 DEF RunHasType, RunStages
<1>3. EvidenceShape
  BY <1>1, <1>2, EmptyRequests DEF EvidenceShape
<1>4. RunKnowsItsFailure /\ \A v \in Viewers : ReconciliationIsSound(v)
  BY <1>1, EmptyRequests DEF RunKnowsItsFailure, ReconciliationIsSound
<1>5. EvidenceFollowsRun
  BY <1>1, EmptyRequests DEF EvidenceFollowsRun
<1>6. QED
  BY <1>3, <1>4, <1>5 DEF EvidenceInvariant

LEMMA NewRequest ==
  ASSUME EvidenceShape, NEW v \in Viewers, NEW value, Sees(v, value), IsRequest(value)
  PROVE  /\ view'[v] = value /\ \A u \in Viewers : u # v => view'[u] = view[u]
         /\ view' = [u \in Viewers |-> view'[u]] /\ \A u \in Viewers : IsRequest(view'[u])
<1>1. view' = [view EXCEPT ![v] = value] /\ DOMAIN view = Viewers /\ \A u \in Viewers : IsRequest(view[u])
  BY DEF Sees, EvidenceShape
<1>2. DOMAIN view' = Viewers /\ view'[v] = value /\ \A u \in Viewers : u # v => view'[u] = view[u]
  BY <1>1
<1>3. view' = [u \in Viewers |-> view'[u]]
  BY <1>1
<1>4. \A u \in Viewers : IsRequest(view'[u])
  BY <1>1, <1>2
<1>5. QED
  BY <1>2, <1>3, <1>4

\* What a step of a request has to keep, while the run stays as it is.
LEMMA RequestStepKeepsEvidence ==
  ASSUME EvidenceShape, EvidenceInvariant, UNCHANGED <<run, results>>,
         NEW v \in Viewers, NEW value, Sees(v, value), IsRequest(value), run.status # "NONE",
         value.status = "FAILED" \/ value.at = "reconcile" => HasEndedFailed,
         value.at = "reconcile" /\ HasFailedValidation(run.failed) =>
           run.failed = {"VALIDATION"} /\ run.status = "FAILED",
         value.at \in {"events", "save"} /\ IsTerminal(value.status) /\ ~value.row.limited =>
           IsConcluded(value.row.graph),
         IsRow(topology'), topology'.terminal /\ ~topology'.limited => IsConcluded(topology'.graph)
  PROVE  EvidenceShape' /\ EvidenceInvariant'
<1>1. /\ view'[v] = value /\ \A u \in Viewers : u # v => view'[u] = view[u]
      /\ view' = [u \in Viewers |-> view'[u]] /\ \A u \in Viewers : IsRequest(view'[u])
  BY NewRequest
<1>2. EvidenceShape'
  BY <1>1 DEF EvidenceShape, RunHasType, IsRequest, IsRow
<1>3. RunKnowsItsFailure'
  BY DEF EvidenceInvariant, RunKnowsItsFailure
<1>4. ASSUME NEW u \in Viewers PROVE ReconciliationIsSound(u)'
  <2>1. ReconciliationIsSound(u)
    BY DEF EvidenceInvariant
  <2>2. CASE u = v
    BY <1>1, <2>2 DEF ReconciliationIsSound, HasEndedFailed
  <2>3. CASE u # v
    BY <1>1, <2>1, <2>3 DEF ReconciliationIsSound, HasEndedFailed
  <2>4. QED
    BY <2>2, <2>3
<1>5. ASSUME NEW u \in Viewers, view'[u].at \in {"events", "save"}, IsTerminal(view'[u].status),
             ~view'[u].row.limited
      PROVE  IsConcluded(view'[u].row.graph)
  <2>1. CASE u = v
    BY <1>1, <1>5, <2>1
  <2>2. CASE u # v
    BY <1>1, <1>5, <2>2 DEF EvidenceInvariant, EvidenceFollowsRun, EndedWhenRead
  <2>3. QED
    BY <2>1, <2>2
<1>6. EvidenceFollowsRun'
  BY <1>5 DEF EvidenceFollowsRun, EndedWhenRead, IsConcluded
<1>7. QED
  BY <1>2, <1>3, <1>4, <1>6 DEF EvidenceInvariant

(***************************************************************************)
(* Evidence: the run.                                                      *)
(***************************************************************************)
\* A step of the run that opens no request: it may only add a failure to a run
\* of which no request believes that its validation alone has failed.
LEMMA RunStepKeepsEvidence ==
  ASSUME EvidenceShape, EvidenceInvariant, UNCHANGED view, RunHasType', RunKnowsItsFailure',
         \A id \in DOMAIN results' : results'[id] \in {"SUCCEEDED", "WARNING", "FAILED"},
         IsRow(topology'), topology'.terminal /\ ~topology'.limited => IsConcluded(topology'.graph),
         run'.status # "NONE",
         HasEndedFailed => HasEndedFailed',
         HasEndedFailed /\ HasFailedValidation(run'.failed) => run' = run
  PROVE  EvidenceShape' /\ EvidenceInvariant'
<1>1. EvidenceShape'
  BY DEF EvidenceShape, IsRow, IsRequest
<1>2. ASSUME NEW v \in Viewers PROVE ReconciliationIsSound(v)'
  <2>1. ReconciliationIsSound(v)
    BY DEF EvidenceInvariant
  <2>2. QED
    BY <2>1 DEF ReconciliationIsSound
<1>3. EvidenceFollowsRun'
  BY DEF EvidenceInvariant, EvidenceFollowsRun, EndedWhenRead, IsConcluded
<1>4. QED
  BY <1>1, <1>2, <1>3 DEF EvidenceInvariant

LEMMA RunKeepsEvidence ==
  ASSUME EvidenceShape, EvidenceInvariant,
         \/ RestoreFails \/ CancelRun \/ ConfirmCutover \/ RestoreSource \/ RollbackEnds
  PROVE  EvidenceShape' /\ EvidenceInvariant'
<1>1. UNCHANGED <<results, topology, view>>
  BY DEF RestoreFails, CancelRun, ConfirmCutover, RestoreSource, RollbackEnds, RunBecomes
<1>2. RunHasType /\ RunKnowsItsFailure
  BY DEF EvidenceShape, EvidenceInvariant
<1> DEFINE Was(status) == run.status \in status
           Is(status, failed, undo) ==
             /\ run' = [run EXCEPT !.status = status, !.failed = failed, !.undo = undo]
             /\ run'.status = status /\ run'.failed = failed /\ run'.undo = undo
<1>3. \/ Was({"RESTORE"}) /\ Is("ROLLING_BACK", {"another"}, "failure")
      \/ Was({"RESTORE", "AWAITING_CUTOVER"}) /\ Is("ROLLING_BACK", run.failed, "cancel")
      \/ Was({"AWAITING_CUTOVER"}) /\ Is("COMPLETED", run.failed, run.undo)
      \/ Was({"COMPLETED"}) /\ Is("ROLLING_BACK", run.failed, "request")
      \/ Was({"ROLLING_BACK"}) /\ run.undo = "failure" /\ Is("FAILED", run.failed, "nothing")
      \/ Was({"ROLLING_BACK"}) /\ run.undo = "cancel" /\ Is("CANCELLED", run.failed, "nothing")
      \/ Was({"ROLLING_BACK"}) /\ run.undo = "request" /\ Is("COMPLETED", run.failed, "nothing")
      \/ Was({"ROLLING_BACK"}) /\ Is("FAILED", run.failed \cup {"another"}, "nothing")
  <2>1. CASE RestoreFails
    BY <1>2, <2>1 DEF RestoreFails, RunBecomes, RunHasType
  <2>2. CASE CancelRun
    BY <1>2, <2>2 DEF CancelRun, RunBecomes, RunHasType
  <2>3. CASE ConfirmCutover
    BY <1>2, <2>3 DEF ConfirmCutover, RunBecomes, RunHasType
  <2>4. CASE RestoreSource
    BY <1>2, <2>4 DEF RestoreSource, RunBecomes, RunHasType
  <2>5. CASE RollbackEnds
    <3>1. run.status = "ROLLING_BACK" /\ run.undo \in {"failure", "cancel", "request"}
      BY <1>2, <2>5 DEF RollbackEnds, RunHasType, RunKnowsItsFailure
    <3>2. CASE run' = [run EXCEPT !.status = Ending[run.undo], !.undo = "nothing"]
      <4>1. CASE run.undo = "failure"
        <5>1. Ending[run.undo] = "FAILED"
          BY <4>1 DEF Ending
        <5>2. QED
          BY <1>2, <3>1, <3>2, <4>1, <5>1 DEF RunHasType
      <4>2. CASE run.undo = "cancel"
        <5>1. Ending[run.undo] = "CANCELLED"
          BY <4>2 DEF Ending
        <5>2. QED
          BY <1>2, <3>1, <3>2, <4>2, <5>1 DEF RunHasType
      <4>3. CASE run.undo = "request"
        <5>1. Ending[run.undo] = "COMPLETED"
          BY <4>3 DEF Ending
        <5>2. QED
          BY <1>2, <3>1, <3>2, <4>3, <5>1 DEF RunHasType
      <4>4. QED
        BY <3>1, <4>1, <4>2, <4>3
    <3>3. CASE run' = [run EXCEPT !.status = "FAILED", !.failed = @ \cup {"another"}, !.undo = "nothing"]
      BY <1>2, <3>1, <3>3 DEF RunHasType
    <3>4. QED
      BY <2>5, <3>2, <3>3 DEF RollbackEnds, RunBecomes
  <2>6. QED
    BY <2>1, <2>2, <2>3, <2>4, <2>5
<1>4. RunHasType' /\ run'.status # "NONE"
  BY <1>2, <1>3 DEF RunHasType, RunStages, FailingSteps
<1>5. RunKnowsItsFailure' /\ (HasEndedFailed => HasEndedFailed' /\ ~HasFailedValidation(run'.failed))
  <2> HIDE DEF Is
  <2>1. \A status, failed, undo : Is(status, failed, undo) =>
          run'.status = status /\ run'.failed = failed /\ run'.undo = undo
    BY DEF Is
  <2>2. QED
    BY <1>2, <1>3, <2>1 DEF RunHasType, RunKnowsItsFailure, HasEndedFailed, HasFailedValidation
<1>6. IsRow(topology') /\ (topology'.terminal /\ ~topology'.limited => IsConcluded(topology'.graph))
  BY <1>1 DEF EvidenceShape, EvidenceInvariant, EvidenceFollowsRun
<1>7. \A id \in DOMAIN results' : results'[id] \in {"SUCCEEDED", "WARNING", "FAILED"}
  BY <1>1 DEF EvidenceShape
<1>8. QED
  BY <1>1, <1>4, <1>5, <1>6, <1>7, RunStepKeepsEvidence

LEMMA StartRunKeepsEvidence ==
  ASSUME EvidenceShape, EvidenceInvariant, StartRun
  PROVE  EvidenceShape' /\ EvidenceInvariant'
<1>1. RunHasType /\ RunKnowsItsFailure /\ run.status = "NONE" /\ ~topology.terminal /\ IsRow(topology)
  BY DEF EvidenceShape, EvidenceInvariant, EvidenceFollowsRun, StartRun
<1>2. /\ run' = [run EXCEPT !.status = "RESTORE"] /\ UNCHANGED <<results, view>>
      /\ topology' = topology \/ topology' = [topology EXCEPT !.found = TRUE, !.graph = Planned(application.inventory)]
  BY DEF StartRun
<1>3. IsRow(topology') /\ ~topology'.terminal
  BY <1>1, <1>2, PlannedNodes DEF IsRow
<1>4. RunHasType' /\ run'.status # "NONE" /\ RunKnowsItsFailure' /\ ~HasEndedFailed
  BY <1>1, <1>2 DEF RunHasType, RunStages, RunKnowsItsFailure, HasEndedFailed
<1>5. \A id \in DOMAIN results' : results'[id] \in {"SUCCEEDED", "WARNING", "FAILED"}
  BY <1>2 DEF EvidenceShape
<1>6. QED
  BY <1>2, <1>3, <1>4, <1>5, RunStepKeepsEvidence

LEMMA MergedAttributes ==
  ASSUME NEW first, NEW second, NEW T,
         \A a \in DOMAIN first : first[a] \in T, \A a \in DOMAIN second : second[a] \in T
  PROVE  \A a \in DOMAIN MergeAttributes(first, second) : MergeAttributes(first, second)[a] \in T
BY DEF MergeAttributes

LEMMA ValidationKeepsEvidence ==
  ASSUME EvidenceShape, EvidenceInvariant, ValidateTarget
  PROVE  EvidenceShape' /\ EvidenceInvariant'
<1>1. RunHasType /\ RunKnowsItsFailure /\ run.status = "RESTORE"
  BY DEF EvidenceShape, EvidenceInvariant, ValidateTarget
<1>2. /\ UNCHANGED <<topology, view>> /\ results' = MergeAttributes(results, ValidateNamespace(target))
      /\ \/ run' = [run EXCEPT !.status = "AWAITING_CUTOVER"]
         \/ run' = [run EXCEPT !.status = "ROLLING_BACK", !.failed = {"VALIDATION"}, !.undo = "failure"]
         \/ run' = run
  BY DEF ValidateTarget
<1>3. RunHasType' /\ run'.status # "NONE" /\ RunKnowsItsFailure' /\ ~HasEndedFailed
  BY <1>1, <1>2 DEF RunHasType, RunStages, FailingSteps, RunKnowsItsFailure, HasEndedFailed
<1>4. \A id \in DOMAIN results' : results'[id] \in {"SUCCEEDED", "WARNING", "FAILED"}
  <2>1. \A id \in DOMAIN ValidateNamespace(target) : ValidateNamespace(target)[id] \in {"SUCCEEDED", "WARNING", "FAILED"}
    BY DEF ValidateNamespace
  <2>2. \A id \in DOMAIN results : results[id] \in {"SUCCEEDED", "WARNING", "FAILED"}
    BY DEF EvidenceShape
  <2> DEFINE T == {"SUCCEEDED", "WARNING", "FAILED"}
  <2> HIDE DEF T
  <2>3. \A id \in DOMAIN results' : results'[id] \in T
    BY <1>2, <2>1, <2>2, MergedAttributes DEF T
  <2>4. QED
    BY <2>3 DEF T
<1>5. IsRow(topology') /\ (topology'.terminal /\ ~topology'.limited => IsConcluded(topology'.graph))
  BY <1>2 DEF EvidenceShape, EvidenceInvariant, EvidenceFollowsRun
<1>6. QED
  BY <1>2, <1>3, <1>4, <1>5, RunStepKeepsEvidence

(***************************************************************************)
(* Evidence: the requests.                                                 *)
(***************************************************************************)
\* An observation of the target of an ended run concludes every node.
LEMMA ObservedNodes ==
  ASSUME NEW expected, AreNodes(expected), NEW observed, AreNodes(observed), NEW status \in RunStages
  PROVE  /\ AreNodes(MergeObservedTopology(expected, observed, status))
         /\ IsTerminal(status) =>
              \A n \in MergeObservedTopology(expected, observed, status) :
                n.status \in {"SUCCEEDED", "WARNING", "FAILED", "MISSING", "SKIPPED"}
<1> DEFINE Decided == {"SUCCEEDED", "WARNING", "FAILED", "MISSING", "SKIPPED"}
           Good(n) == /\ "status" \in DOMAIN n /\ n.status \in NodeStatuses
                      /\ IsTerminal(status) => n.status \in Decided
<1>1. \A n, s : "status" \in DOMAIN n => "status" \in DOMAIN [n EXCEPT !.status = s] /\ [n EXCEPT !.status = s].status = s
  OBVIOUS
<1>2. ASSUME NEW n \in expected PROVE Good(MergedNode(n, observed, status))
  <2> DEFINE found == {a \in observed : a.id = n.id}
             actual == CHOOSE a \in found : TRUE
             merged == [n EXCEPT !.attrs = MergeAttributes(n.attrs, actual.attrs)]
  <2>1. "status" \in DOMAIN n /\ "status" \in DOMAIN merged
    BY DEF AreNodes
  <2>2. MergedNode(n, observed, status) =
          IF found = {} THEN [n EXCEPT !.status = IF IsConclusive(status) THEN "MISSING" ELSE n.status]
          ELSE [merged EXCEPT !.status = IF \E c \in n.changes : ~MappingAppearsApplied(c, actual) THEN "FAILED"
                                         ELSE StatusOfExisting(merged, status)]
    BY DEF MergedNode
  <2> HIDE DEF found, actual, merged
  <2>3. /\ IsTerminal(status) => IsConclusive(status) /\ StatusOfExisting(merged, status) \in Decided
        /\ StatusOfExisting(merged, status) \in NodeStatuses /\ n.status \in NodeStatuses
        /\ "MISSING" \in NodeStatuses /\ "FAILED" \in NodeStatuses
    BY DEF IsTerminal, IsConclusive, StatusOfExisting, NodeStatuses, AreNodes
  <2>4. CASE found = {}
    BY <1>1, <2>1, <2>2, <2>3, <2>4
  <2>5. CASE found # {}
    BY <1>1, <2>1, <2>2, <2>3, <2>5
  <2>6. QED
    BY <2>4, <2>5
<1>3. ASSUME NEW a \in observed
      PROVE  Good(IF IsGeneratedClusterResource(a) THEN [a EXCEPT !.required = FALSE, !.status = "SKIPPED"]
                  ELSE [a EXCEPT !.status = "WARNING"])
  BY DEF AreNodes, NodeStatuses
<1> HIDE DEF Good
<1>4. \A n \in MergeObservedTopology(expected, observed, status) : Good(n)
  BY <1>2, <1>3, Zenon DEF MergeObservedTopology
<1>5. QED
  BY <1>4 DEF AreNodes, Good

LEMMA EventsAreApplied ==
  ASSUME NEW graph, AreNodes(graph), \A id \in DOMAIN results : results[id] \in {"SUCCEEDED", "WARNING", "FAILED"}
  PROVE  /\ AreNodes(ApplyEventEvidence(graph))
         /\ IsConcluded(graph) => IsConcluded(ApplyEventEvidence(graph))
BY DEF AreNodes, ApplyEventEvidence, IsConcluded, NodeStatuses

LEMMA ObservationConcludes ==
  ASSUME NEW expected, AreNodes(expected), NEW status \in RunStages, NEW failing
  PROVE  /\ AreNodes(ObserveTarget(expected, status, failing))
         /\ IsTerminal(status) => IsConcluded(ObserveTarget(expected, status, failing))
<1>1. \A inventory : AreNodes(GraphFromInventory(inventory, "CREATED"))
  BY GraphsAreNodes DEF NodeStatuses
<1>2. QED
  BY <1>1, ObservedNodes DEF ObserveTarget, IsConcluded

\* The reads of a request, what it decides with them, and its failure.
LEMMA ReadsKeepEvidence ==
  ASSUME EvidenceShape, EvidenceInvariant, NEW v \in Viewers,
         \/ \E op \in {"topology", "refresh"} : OpenTopology(v, op)
         \/ GetRun(v) \/ GetApplication(v) \/ ResolveMappingProfile(v) \/ ReconcileValidationResult(v)
         \/ RequestFails(v)
  PROVE  EvidenceShape' /\ EvidenceInvariant'
<1>1. /\ RunHasType /\ RunKnowsItsFailure /\ IsRequest(view[v]) /\ IsRow(topology) /\ IsRow(view[v].row)
      /\ topology.terminal /\ ~topology.limited => IsConcluded(topology.graph)
      /\ view[v].status = "FAILED" \/ view[v].at = "reconcile" => HasEndedFailed
      /\ view[v].at # "idle" => run.status # "NONE"
  BY DEF EvidenceShape, EvidenceInvariant, EvidenceFollowsRun, ReconciliationIsSound, IsRequest
\* The failed steps of a run that has ended as FAILED and counts as failed by
\* its validation alone.
<1>2. HasEndedFailed /\ run.failed = {"VALIDATION"} => run.status = "FAILED"
  BY <1>1 DEF HasEndedFailed, RunKnowsItsFailure
<1>3. run.status = "FAILED" => HasEndedFailed
  BY DEF HasEndedFailed
<1>4. UNCHANGED <<run, results, topology>> /\ run.status # "NONE"
  BY <1>1 DEF OpenTopology, Arrives, GetRun, GetApplication, ResolveMappingProfile, ReconcileValidationResult,
              RequestFails, Quiet, observedVars
\* So does a request that is told nothing about a run, or looks at one that has
\* not been found healthy.
<1>5. ASSUME NEW value, Sees(v, value), IsRequest(value), value.at \notin {"events", "save", "reconcile"},
             value.status = "FAILED" => HasEndedFailed
      PROVE  EvidenceShape' /\ EvidenceInvariant'
  BY <1>1, <1>4, <1>5, RequestStepKeepsEvidence
<1>6. ASSUME NEW op \in {"topology", "refresh"}, OpenTopology(v, op) PROVE EvidenceShape' /\ EvidenceInvariant'
  <2> DEFINE opened == [NoView EXCEPT !.op = op, !.by = "topology"]
             stored == StoredObservation(topology)
             row == IF topology.found THEN [topology EXCEPT !.inside = stored] ELSE NoTopology
             resolves == [opened EXCEPT !.at = "resolve", !.row = row]
             shown == [opened EXCEPT !.at = "stored", !.observed = stored]
  <2>1. Sees(v, resolves) \/ Sees(v, shown) \/ Sees(v, Goes(op))
    BY <1>6 DEF OpenTopology
  <2>2. IsRow(row)
    BY <1>1, EmptyRequests DEF IsRow
  <2> HIDE DEF row, stored
  <2>3. IsRequest(resolves) /\ resolves.at = "resolve" /\ resolves.status = "NONE"
    BY <2>2 DEF IsRequest, NoView, ViewStages, RunStages
  <2>4. IsRequest(shown) /\ shown.at = "stored" /\ shown.status = "NONE"
    BY EmptyRequests DEF IsRequest, NoView, ViewStages, RunStages
  <2> HIDE DEF resolves, shown
  <2>5. QED
    BY <1>5, <2>1, <2>3, <2>4, WhereItGoes
<1>7. ASSUME GetRun(v) PROVE EvidenceShape' /\ EvidenceInvariant'
  <2> DEFINE at == IF view[v].at = "stored" THEN "steps"
                   ELSE IF view[v].at = "resolve" /\ view[v].row.found THEN "observe" ELSE "application"
             value == [view[v] EXCEPT !.status = run.status, !.at = at]
  <2>1. Sees(v, value)
    BY <1>7 DEF GetRun
  <2>2. value.at \in {"steps", "observe", "application"} /\ value.status = run.status /\ IsRequest(value)
    BY <1>1 DEF IsRequest, ViewStages, RunHasType
  <2> HIDE DEF value
  <2>3. QED
    BY <1>3, <1>5, <2>1, <2>2
<1>8. ASSUME GetApplication(v) PROVE EvidenceShape' /\ EvidenceInvariant'
  <2> DEFINE value == [view[v] EXCEPT !.at = "profile", !.inventory = application.inventory]
  <2>1. Sees(v, value)
    BY <1>8 DEF GetApplication
  <2>2. value.at = "profile" /\ value.status = view[v].status /\ IsRequest(value)
    BY <1>1 DEF IsRequest, ViewStages
  <2> HIDE DEF value
  <2>3. QED
    BY <1>1, <1>5, <2>1, <2>2
<1>9. ASSUME ResolveMappingProfile(v) PROVE EvidenceShape' /\ EvidenceInvariant'
  <2> DEFINE at == IF view[v].by = "refresh" THEN "current" ELSE "observe"
             value == [view[v] EXCEPT !.at = at, !.row.graph = Planned(view[v].inventory),
                                      !.inventory = NoInventory]
  <2>1. Sees(v, value)
    BY <1>9 DEF ResolveMappingProfile
  <2>2. value.at \in {"current", "observe"} /\ value.status = view[v].status /\ IsRequest(value)
    BY <1>1, PlannedNodes DEF IsRequest, IsRow, ViewStages
  <2> HIDE DEF value
  <2>3. QED
    BY <1>1, <1>5, <2>1, <2>2
<1>10. ASSUME ReconcileValidationResult(v) PROVE EvidenceShape' /\ EvidenceInvariant'
  <2> DEFINE value == [view[v] EXCEPT !.at = "reconcile", !.status = "NONE"]
  <2>1. CASE /\ ValidationFailureCanBeReconciled(view[v].status, run.failed, view[v].observed)
             /\ Sees(v, value)
    <3>1. value.at = "reconcile" /\ value.status = "NONE" /\ IsRequest(value)
      BY <1>1 DEF IsRequest, ViewStages, RunStages
    <3>2. HasEndedFailed /\ run.failed = {"VALIDATION"} /\ run.status = "FAILED"
      BY <1>1, <1>2, <2>1 DEF ValidationFailureCanBeReconciled
    <3> HIDE DEF value
    <3>3. QED
      BY <1>1, <1>4, <2>1, <3>1, <3>2, RequestStepKeepsEvidence
  <2>2. CASE Sees(v, AfterReconciliation(v))
    BY <1>5, <2>2, WhereItGoes, EmptyRequests DEF AfterReconciliation
  <2>3. QED
    BY <1>10, <2>1, <2>2 DEF ReconcileValidationResult
<1>11. ASSUME RequestFails(v) PROVE EvidenceShape' /\ EvidenceInvariant'
  BY <1>5, <1>11, EmptyRequests DEF RequestFails
<1>12. QED
  BY <1>6, <1>7, <1>8, <1>9, <1>10, <1>11

\* What a request sees of the target, and what it stores.
LEMMA ObservationsKeepEvidence ==
  ASSUME EvidenceShape, EvidenceInvariant, NEW v \in Viewers,
         Observe(v) \/ ApplyEvents(v) \/ SaveTopologyEvidence(v) \/ RefreshTopology(v)
         \/ SaveCurrentTopologyObservation(v)
  PROVE  EvidenceShape' /\ EvidenceInvariant'
<1>1. /\ IsRequest(view[v]) /\ IsRow(topology) /\ IsRow(view[v].row)
      /\ \A id \in DOMAIN results : results[id] \in {"SUCCEEDED", "WARNING", "FAILED"}
      /\ topology.terminal /\ ~topology.limited => IsConcluded(topology.graph)
      /\ view[v].at \in {"events", "save"} /\ IsTerminal(view[v].status) /\ ~view[v].row.limited =>
           IsConcluded(view[v].row.graph)
      /\ view[v].status = "FAILED" => HasEndedFailed
      /\ view[v].at # "idle" => run.status # "NONE"
  BY DEF EvidenceShape, EvidenceInvariant, EvidenceFollowsRun, ReconciliationIsSound, EndedWhenRead, IsRequest
<1>2. UNCHANGED <<run, results>> /\ run.status # "NONE"
  BY <1>1 DEF Observe, ApplyEvents, SaveTopologyEvidence, RefreshTopology, SaveCurrentTopologyObservation,
              Quiet, observedVars
\* What it has seen is not stored yet.
<1>3. ASSUME NEW value, Sees(v, value), IsRequest(value), value.at # "reconcile", value.status = view[v].status,
             UNCHANGED topology,
             value.at \in {"events", "save"} /\ IsTerminal(value.status) /\ ~value.row.limited =>
               IsConcluded(value.row.graph)
      PROVE  EvidenceShape' /\ EvidenceInvariant'
  BY <1>1, <1>2, <1>3, RequestStepKeepsEvidence
<1>4. ASSUME Observe(v) PROVE EvidenceShape' /\ EvidenceInvariant'
  <2> DEFINE expected == view[v].row.graph
             graph(failing) == ObserveTarget(expected, view[v].status, failing)
             observed(failing) == [view[v] EXCEPT !.at = "events", !.row.graph = graph(failing),
                                     !.row.inside = Observation(graph(failing), AllReady(expected))]
             unobserved == [view[v] EXCEPT !.at = "save", !.row.limited = TRUE]
  <2>1. UNCHANGED topology
    BY <1>4 DEF Observe
  <2>2. ASSUME NEW failing, Sees(v, observed(failing)) PROVE EvidenceShape' /\ EvidenceInvariant'
    <3> DEFINE sight == graph(failing)
               value == [view[v] EXCEPT !.at = "events", !.row.graph = sight,
                           !.row.inside = Observation(sight, AllReady(expected))]
    <3>1. AreNodes(sight) /\ (IsTerminal(view[v].status) => IsConcluded(sight))
      BY <1>1, ObservationConcludes DEF IsRow, IsRequest
    <3>2. Sees(v, value)
      BY <2>2
    <3> HIDE DEF sight
    <3>3. value.at = "events" /\ value.status = view[v].status /\ value.row.graph = sight
      BY <1>1 DEF IsRequest, IsRow
    <3>4. IsRequest(value)
      BY <1>1, <3>1 DEF IsRequest, IsRow, ViewStages
    <3> HIDE DEF value
    <3>5. QED
      BY <1>3, <2>1, <3>1, <3>2, <3>3, <3>4
  <2>3. CASE Sees(v, unobserved)
    <3>1. unobserved.at = "save" /\ unobserved.status = view[v].status /\ unobserved.row.limited
      BY <1>1 DEF IsRequest, IsRow
    <3>2. IsRequest(unobserved)
      BY <1>1 DEF IsRequest, IsRow, ViewStages
    <3> HIDE DEF unobserved
    <3>3. QED
      BY <1>3, <2>1, <2>3, <3>1, <3>2
  <2>4. (\E failing : Sees(v, observed(failing))) \/ Sees(v, unobserved)
    BY <1>4, Zenon DEF Observe
  <2>5. QED
    BY <2>2, <2>3, <2>4
<1>5. ASSUME ApplyEvents(v) PROVE EvidenceShape' /\ EvidenceInvariant'
  <2>1. view[v].at = "events" /\ UNCHANGED topology
    BY <1>5 DEF ApplyEvents, Quiet
  <2> DEFINE row == view[v].row
             after(graph) == [view[v] EXCEPT !.at = "save", !.row.graph = graph,
                                             !.row.inside = Observation(graph, view[v].row.inside.proved)]
  <2>2. PICK graph \in {ApplyEventEvidence(row.graph), row.graph} : Sees(v, after(graph))
    BY <1>5 DEF ApplyEvents
  <2>3. AreNodes(graph) /\ (IsTerminal(view[v].status) /\ ~row.limited => IsConcluded(graph))
    BY <1>1, <2>1, EventsAreApplied DEF IsRow
  <2> DEFINE value == after(graph)
  <2>4. value.at = "save" /\ value.status = view[v].status /\ value.row.graph = graph
        /\ value.row.limited = row.limited
    BY <1>1 DEF IsRequest, IsRow
  <2>5. IsRequest(value)
    BY <1>1, <2>3 DEF IsRequest, IsRow, ViewStages
  <2>6. Sees(v, value)
    BY <2>2
  <2> HIDE DEF value
  <2>7. QED
    BY <1>3, <2>1, <2>3, <2>4, <2>5, <2>6
<1>6. ASSUME SaveTopologyEvidence(v) PROVE EvidenceShape' /\ EvidenceInvariant'
  <2>1. view[v].at = "save" /\ Sees(v, Goes(view[v].op))
    BY <1>6 DEF SaveTopologyEvidence
  <2> DEFINE row == view[v].row
             saved == [topology EXCEPT !.found = TRUE, !.terminal = EndedWhenRead(v), !.graph = row.graph,
                         !.limited = row.limited, !.inside = row.inside]
  <2>2. topology' = topology \/ topology' = saved
    BY <1>6 DEF SaveTopologyEvidence
  <2>3. IsRow(saved) /\ saved.terminal = EndedWhenRead(v) /\ saved.graph = row.graph /\ saved.limited = row.limited
    BY <1>1 DEF IsRow
  <2> HIDE DEF saved
  <2>4. IsRow(topology') /\ (topology'.terminal /\ ~topology'.limited => IsConcluded(topology'.graph))
    BY <1>1, <2>1, <2>2, <2>3 DEF EndedWhenRead
  <2>5. QED
    BY <1>2, <2>1, <2>4, WhereItGoes, RequestStepKeepsEvidence
<1>7. ASSUME RefreshTopology(v) PROVE EvidenceShape' /\ EvidenceInvariant'
  <2>1. UNCHANGED topology
    BY <1>7 DEF RefreshTopology
  <2>2. PICK observed : Sees(v, [view[v] EXCEPT !.at = "store", !.row = NoTopology, !.observed = observed])
    BY <1>7 DEF RefreshTopology
  <2> DEFINE value == [view[v] EXCEPT !.at = "store", !.row = NoTopology, !.observed = observed]
  <2>3. value.at = "store" /\ value.status = view[v].status /\ IsRequest(value)
    BY <1>1, EmptyRequests DEF IsRequest, ViewStages
  <2>4. Sees(v, value)
    BY <2>2
  <2> HIDE DEF value
  <2>5. QED
    BY <1>3, <2>1, <2>3, <2>4
<1>8. ASSUME SaveCurrentTopologyObservation(v) PROVE EvidenceShape' /\ EvidenceInvariant'
  <2> DEFINE kept == [view[v] EXCEPT !.at = "steps"]
  <2>1. /\ topology' = [topology EXCEPT !.column = view[v].observed, !.filled = TRUE]
        /\ Sees(v, kept) \/ Sees(v, Done)
    BY <1>8 DEF SaveCurrentTopologyObservation
  <2>2. IsRow(topology') /\ (topology'.terminal /\ ~topology'.limited => IsConcluded(topology'.graph))
    BY <1>1, <2>1 DEF IsRow
  <2>3. kept.at = "steps" /\ kept.status = view[v].status /\ IsRequest(kept)
    BY <1>1 DEF IsRequest, ViewStages
  <2> HIDE DEF kept
  <2>4. QED
    BY <1>1, <1>2, <2>1, <2>2, <2>3, EmptyRequests, RequestStepKeepsEvidence
<1>9. QED
  BY <1>4, <1>5, <1>6, <1>7, <1>8

LEMMA RequestsKeepEvidence ==
  ASSUME EvidenceShape, EvidenceInvariant, NEW v \in Viewers,
         (View(v) /\ ~ReconcileValidationSuccess(v)) \/ SaveTopologyEvidence(v) \/ RequestFails(v)
  PROVE  EvidenceShape' /\ EvidenceInvariant'
BY ReadsKeepEvidence, ObservationsKeepEvidence DEF View

\* Only a run that its validation alone has failed becomes COMPLETED; every
\* other request that believes so then finds nothing to reconcile.
LEMMA ReconciliationKeepsEvidence ==
  ASSUME EvidenceShape, EvidenceInvariant, NEW v \in Viewers, ReconcileValidationSuccess(v)
  PROVE  EvidenceShape' /\ EvidenceInvariant'
<1>1. /\ RunHasType /\ RunKnowsItsFailure /\ IsRequest(view[v]) /\ IsRow(topology)
      /\ topology.terminal /\ ~topology.limited => IsConcluded(topology.graph)
      /\ view[v].at = "reconcile" /\ run.status # "NONE"
      /\ HasFailedValidation(run.failed) => run.failed = {"VALIDATION"} /\ run.status = "FAILED"
  BY DEF EvidenceShape, EvidenceInvariant, EvidenceFollowsRun, ReconciliationIsSound, ReconcileValidationSuccess
<1> DEFINE value == AfterReconciliation(v)
<1>2. UNCHANGED <<results, topology>>
  BY DEF ReconcileValidationSuccess
<1>3. IsRequest(value) /\ value.at \in {"refresh", "done"} /\ value.status = "NONE"
  BY WhereItGoes, EmptyRequests DEF AfterReconciliation
<1>4. CASE UNCHANGED run
  <2>1. Sees(v, value) \/ Sees(v, Done)
    BY <1>1, <1>4 DEF ReconcileValidationSuccess, RunHasType
  <2> HIDE DEF value
  <2>2. QED
    BY <1>1, <1>2, <1>3, <1>4, <2>1, EmptyRequests, RequestStepKeepsEvidence
<1>5. CASE /\ run.status = "FAILED" /\ HasFailedValidation(run.failed)
           /\ run' = [run EXCEPT !.status = "COMPLETED", !.failed = run.failed \ {"VALIDATION"}]
           /\ Sees(v, value)
  <2> HIDE DEF value
  <2>1. run'.status = "COMPLETED" /\ run'.failed = {} /\ run'.undo = run.undo /\ RunHasType'
    BY <1>1, <1>5 DEF RunHasType, RunStages, FailingSteps
  <2>2. /\ view'[v] = value /\ \A u \in Viewers : u # v => view'[u] = view[u]
        /\ view' = [u \in Viewers |-> view'[u]] /\ \A u \in Viewers : IsRequest(view'[u])
    BY <1>3, <1>5, NewRequest
  <2>3. EvidenceShape'
    BY <1>2, <2>1, <2>2 DEF EvidenceShape, IsRow, IsRequest
  <2>4. RunKnowsItsFailure'
    BY <1>1, <1>5, <2>1 DEF RunKnowsItsFailure
  <2>5. \A u \in Viewers : ReconciliationIsSound(u)'
    BY <2>1 DEF ReconciliationIsSound, HasEndedFailed, HasFailedValidation
  <2>6. ASSUME NEW u \in Viewers, view'[u].at \in {"events", "save"}, IsTerminal(view'[u].status),
             ~view'[u].row.limited
        PROVE  IsConcluded(view'[u].row.graph)
    BY <1>3, <2>2, <2>6 DEF EvidenceInvariant, EvidenceFollowsRun, EndedWhenRead
  <2>7. EvidenceFollowsRun'
    BY <1>1, <1>2, <2>1, <2>6 DEF EvidenceFollowsRun, EndedWhenRead, IsConcluded
  <2>8. QED
    BY <2>3, <2>4, <2>5, <2>7 DEF EvidenceInvariant
<1>6. QED
  BY <1>4, <1>5 DEF ReconcileValidationSuccess

LEMMA NothingRecordedKeepsEvidence ==
  ASSUME EvidenceShape, EvidenceInvariant, UNCHANGED <<run, results, topology, view>>
  PROVE  EvidenceShape' /\ EvidenceInvariant'
<1>1. EvidenceShape'
  BY DEF EvidenceShape, RunHasType, IsRow, IsRequest
<1>2. RunKnowsItsFailure'
  BY DEF EvidenceInvariant, RunKnowsItsFailure
<1>3. \A v \in Viewers : ReconciliationIsSound(v)'
  BY DEF EvidenceInvariant, ReconciliationIsSound, HasEndedFailed
<1>4. EvidenceFollowsRun'
  BY DEF EvidenceInvariant, EvidenceFollowsRun, EndedWhenRead, IsConcluded
<1>5. QED
  BY <1>1, <1>2, <1>3, <1>4 DEF EvidenceInvariant

\* A step of the console, as far as the evidence goes.
EvidenceStep ==
  \/ EvidenceNext
  \/ UNCHANGED <<run, results, topology, view>>

LEMMA StepKeepsEvidence ==
  ASSUME EvidenceShape, EvidenceInvariant, EvidenceStep
  PROVE  EvidenceShape' /\ EvidenceInvariant'
<1>1. DOMAIN view = Viewers
  BY DEF EvidenceShape
<1>2. CASE EvidenceNext
  <2>1. CASE \E v \in Viewers : View(v)
    BY <2>1, RequestsKeepEvidence, ReconciliationKeepsEvidence DEF View
  <2>2. CASE \E v \in DOMAIN view : SaveTopologyEvidence(v) \/ RequestFails(v)
    BY <1>1, <2>2, RequestsKeepEvidence
  <2>3. CASE StartRun
    BY <2>3, StartRunKeepsEvidence
  <2>4. CASE ValidateTarget
    BY <2>4, ValidationKeepsEvidence
  <2>5. CASE RestoreFails \/ CancelRun \/ ConfirmCutover \/ RestoreSource \/ RollbackEnds
    BY <2>5, RunKeepsEvidence
  <2>6. CASE RestoreTarget \/ TargetChanges \/ (InventoryNext /\ UNCHANGED <<observedVars, topology, view>>)
    <3>1. UNCHANGED <<run, results, topology, view>>
      BY <2>6 DEF RestoreTarget, TargetChanges, observedVars
    <3>2. QED
      BY <3>1, NothingRecordedKeepsEvidence
  <2>7. QED
    BY <1>2, <2>1, <2>2, <2>3, <2>4, <2>5, <2>6 DEF EvidenceNext
<1>3. QED
  BY <1>2, NothingRecordedKeepsEvidence DEF EvidenceStep

LEMMA ConsoleEvidenceStep ==
  ASSUME [ConsoleNext]_consoleVars PROVE EvidenceStep
<1>1. CASE watched = "progress" /\ Next /\ UNCHANGED <<evidenceVars, planVars, watched>>
  BY <1>1 DEF EvidenceStep, evidenceVars, observedVars
<1>2. CASE watched = "evidence" /\ EvidenceNext /\ UNCHANGED <<vars, planVars, watched>>
  BY <1>2 DEF EvidenceStep
<1>3. CASE watched = "plan" /\ PlanNext /\ UNCHANGED <<vars, watched>>
  <2>1. UNCHANGED <<observedVars, topology, view>>
    BY <1>3 DEF PlanNext, CreateAssessment, BeginPreflight, ReadReference, UpdatePlanStatus, PreflightFails, StartPlan,
                EnvironmentChanges, Outdated, evidenceVars
  <2>2. QED
    BY <2>1 DEF EvidenceStep, observedVars
<1>4. CASE UNCHANGED consoleVars
  BY <1>4 DEF EvidenceStep, consoleVars, evidenceVars, observedVars
<1>5. QED
  BY <1>1, <1>2, <1>3, <1>4 DEF ConsoleNext

\* Whatever the requests for the topology of a run do: a run has failed steps
\* only while it has failed or rolls back for that; a request that would make it
\* COMPLETED knows that its validation alone has failed, or will be refused; and
\* what an observation of an ended run stores leaves nothing to wait for.
THEOREM EvidenceIsConsistent == ConsoleSpec => [](EvidenceShape /\ EvidenceInvariant)
<1>1. ConsoleInit => EvidenceShape /\ EvidenceInvariant
  BY InitEvidence DEF ConsoleInit, PlanInit
<1>2. EvidenceShape /\ EvidenceInvariant /\ [ConsoleNext]_consoleVars => (EvidenceShape /\ EvidenceInvariant)'
  BY ConsoleEvidenceStep, StepKeepsEvidence
<1>3. QED
  BY <1>1, <1>2, PTL DEF ConsoleSpec

\* A run that is COMPLETED has no failed step: the second of two requests that
\* both decided to reconcile it changes nothing, also after its source has been
\* restored, and a failed rollback is never taken for a healthy validation.
THEOREM CompletedRunsHaveNoFailure == ConsoleSpec => []CompletedRunHasNoFailure
<1>1. EvidenceInvariant => CompletedRunHasNoFailure
  BY DEF EvidenceInvariant, RunKnowsItsFailure, CompletedRunHasNoFailure
<1>2. QED
  BY <1>1, EvidenceIsConsistent, PTL

\* Once evidence is frozen, only the column of refreshed observations changes.
LEMMA FrozenRowStays ==
  ASSUME EvidenceShape, EvidenceInvariant, topology.terminal, EvidenceStep
  PROVE  topology' = [topology EXCEPT !.column = topology'.column, !.filled = topology'.filled]
<1>1. IsRow(topology) /\ run.status # "NONE"
  BY DEF EvidenceShape, EvidenceInvariant, EvidenceFollowsRun
<1>2. topology' = topology => topology' = [topology EXCEPT !.column = topology'.column, !.filled = topology'.filled]
  BY <1>1 DEF IsRow
<1>3. ASSUME NEW v, SaveCurrentTopologyObservation(v)
      PROVE  topology' = [topology EXCEPT !.column = topology'.column, !.filled = topology'.filled]
  <2>1. topology' = [topology EXCEPT !.column = view[v].observed, !.filled = TRUE]
    BY <1>3 DEF SaveCurrentTopologyObservation
  <2>2. topology'.column = view[v].observed /\ topology'.filled = TRUE
    BY <1>1, <2>1 DEF IsRow
  <2>3. QED
    BY <2>1, <2>2
<1>4. topology' = topology \/ \E v : SaveCurrentTopologyObservation(v)
  BY <1>1 DEF EvidenceStep, EvidenceNext, View, OpenTopology, GetRun, GetApplication, ResolveMappingProfile, Observe,
              ApplyEvents, SaveTopologyEvidence, RefreshTopology, ReconcileValidationResult, Quiet,
              ReconcileValidationSuccess, RequestFails, StartRun, RestoreTarget, TargetChanges, ValidateTarget,
              RestoreFails, CancelRun, ConfirmCutover, RestoreSource, RollbackEnds, RunBecomes
<1>5. QED
  BY <1>2, <1>3, <1>4

\* Evidence is frozen only with an observation that was made, or tried, after
\* the run had ended, and never changes afterwards, whatever slower requests
\* store: neither an older graph nor a reconstructed plan.
THEOREM FrozenEvidenceNeverChanges == ConsoleSpec => FrozenEvidenceIsFinal
<1>1. EvidenceInvariant => (topology.terminal /\ ~topology.limited => IsConcluded(topology.graph))
  BY DEF EvidenceInvariant, EvidenceFollowsRun
<1>2. EvidenceShape /\ EvidenceInvariant /\ [ConsoleNext]_consoleVars
        => [topology.terminal => topology' = [topology EXCEPT !.column = topology'.column,
                                                              !.filled = topology'.filled]]_evidenceVars
  BY ConsoleEvidenceStep, FrozenRowStays
<1>3. QED
  BY <1>1, <1>2, EvidenceIsConsistent, PTL DEF ConsoleSpec, FrozenEvidenceIsFinal

-----------------------------------------------------------------------------
(***************************************************************************)
(* Plan: the shape of its variables.                                       *)
(***************************************************************************)
IsChecker(r) ==
  /\ r = [f \in {"at", "fresh", "source", "target", "application", "profile"} |-> r[f]]
  /\ r.at \in CheckStages /\ r.fresh \in BOOLEAN

\* Resources have identities, and so has what they depend on.
HasIds(inventory) ==
  /\ \A r \in inventory.resources : DOMAIN r.id = {"kind", "name"}
  /\ \A d \in inventory.dependencies : DOMAIN d.to = {"kind", "name"}

PlanShape ==
  /\ plan = [f \in {"status", "fresh", "mode", "blockers", "assessed"} |-> plan[f]]
  /\ environment = [side \in {"source", "target"} |-> environment[side]]
  /\ checker = [c \in Checkers |-> checker[c]]
  /\ \A c \in Checkers : IsChecker(checker[c])
  /\ HasIds(application.inventory)
  /\ application = [f \in {"type", "selection", "inventory"} |-> application[f]]
  /\ watched # "plan" => plan.status = "NONE" /\ ~plan.assessed /\ \A c \in Checkers : ~checker[c].fresh

Described(inventory) == HasIds(inventory) /\ ClassesAreOfVolumes(inventory)

LEMMA InventoriesAreDescribed ==
  ASSUME NEW objects \in SUBSET SourceObjects PROVE Described(BuildInventory(objects))
<1>1. \A o : /\ DOMAIN ResourceSummary(o).id = {"kind", "name"} /\ ResourceSummary(o).id = IdOf(o)
             /\ IdOf(o).kind = o.kind /\ DOMAIN IdOf(o) = {"kind", "name"}
             /\ "storageClass" \notin DOMAIN ResourceSummary(o).attrs
  BY DEF ResourceSummary, VolumeFields, IdOf, Id
<1>2. \A o : "storageClass" \in DOMAIN VolumeSummary(o).attrs /\ VolumeSummary(o).id = IdOf(o)
  BY DEF VolumeSummary, VolumeFields
<1>3. ASSUME NEW d \in BuildInventory(objects).dependencies PROVE DOMAIN d.to = {"kind", "name"}
  <2>1. d \in UNION {ObjectDependencies(o) : o \in objects} \/ d \in SelectorDependencies(objects)
    BY DEF BuildInventory
  <2>2. CASE d \in UNION {ObjectDependencies(o) : o \in objects}
    BY <2>2, DependencyAssumption
  <2>3. CASE d \in SelectorDependencies(objects)
    <3>1. PICK pair : d = Dependency(pair[1], IdOf(pair[2]), TRUE)
      BY <2>3 DEF SelectorDependencies
    <3>2. QED
      BY <1>1, <3>1 DEF Dependency
  <2>4. QED
    BY <2>1, <2>2, <2>3
<1>4. \A r \in BuildInventory(objects).resources :
        r.id.kind = "PersistentVolumeClaim" => \E v \in BuildInventory(objects).volumes : v.id = r.id
  BY <1>1, <1>2 DEF BuildInventory, IsClaim
<1>5. QED
  BY <1>1, <1>2, <1>3, <1>4 DEF Described, HasIds, ClassesAreOfVolumes, BuildInventory

LEMMA FilteredInventoriesAreDescribed ==
  ASSUME NEW inventory, Described(inventory), NEW selected
  PROVE  Described(FilterInventory(inventory, selected))
BY DEF Described, HasIds, ClassesAreOfVolumes, FilterInventory

LEMMA PreviewsAreDescribed ==
  ASSUME NEW failing PROVE Described(Preview(failing)) /\ Described(DiscoverNamespaceCore(SourceObjects, failing))
BY InventoriesAreDescribed DEF Preview, DiscoverNamespace, DiscoverNamespaceCore, CoreObjects, CustomObjects

LEMMA DiscoveriesAreDescribed ==
  ASSUME NEW selection, NEW inventory \in Discoveries(selection) PROVE Described(inventory)
BY PreviewsAreDescribed, FilteredInventoriesAreDescribed DEF Discoveries

LEMMA BulkDiscoveriesAreDescribed ==
  ASSUME NEW inventory \in BulkDiscoveries PROVE Described(inventory)
BY PreviewsAreDescribed DEF BulkDiscoveries

LEMMA InventoryStepDescribes ==
  ASSUME Described(application.inventory), InventoryNext,
         application = [f \in {"type", "selection", "inventory"} |-> application[f]]
  PROVE  /\ Described(application'.inventory)
         /\ application' = [f \in {"type", "selection", "inventory"} |-> application'[f]]
<1>1. CASE DiscoverSelected
  BY <1>1, DiscoveriesAreDescribed DEF DiscoverSelected, Upsert
<1>2. CASE DiscoverAll
  BY <1>2, BulkDiscoveriesAreDescribed DEF DiscoverAll, Upsert
<1>3. CASE UpdateProfile
  BY <1>3 DEF UpdateProfile
<1>4. QED
  BY <1>1, <1>2, <1>3 DEF InventoryNext

(***************************************************************************)
(* Plan: its invariant.                                                    *)
(***************************************************************************)
LEMMA InitPlan ==
  ASSUME ConsoleInit PROVE PlanShape /\ PlanInvariant
<1>1. /\ plan \in [status : {"NONE"}, fresh : {FALSE}, mode : Modes, blockers : {{}}, assessed : {FALSE}]
      /\ environment \in [source : Environments(SourceCapabilities), target : Environments(TargetCapabilities)]
      /\ checker = [c \in Checkers |-> NoRead]
  BY DEF ConsoleInit, PlanInit
<1>2. InventoryInit
  BY DEF ConsoleInit, PlanInit, EvidenceInit
<1>3. \A selection : Described(IF selection = {} THEN Preview({}) ELSE FilterInventory(Preview({}), selection))
  BY PreviewsAreDescribed, FilteredInventoriesAreDescribed
<1>4. Described(application.inventory) /\ application = [f \in {"type", "selection", "inventory"} |-> application[f]]
  BY <1>2, <1>3 DEF InventoryInit
<1>5. IsChecker(NoRead) /\ NoRead.fresh = FALSE
  BY DEF IsChecker, NoRead, CheckStages
<1>6. PlanShape
  BY <1>1, <1>4, <1>5 DEF PlanShape, Described
<1>7. PlanInvariant
  BY <1>1, <1>4, <1>5 DEF PlanInvariant, ReadsAreCurrent, Described
<1>8. QED
  BY <1>6, <1>7

\* A step of one preflight, while what it refers to stays as it is.
LEMMA CheckerStepKeepsPlan ==
  ASSUME PlanShape, PlanInvariant, watched = "plan", UNCHANGED <<inventoryVars, environment, watched>>,
         NEW c \in Checkers, NEW value, checker' = [checker EXCEPT ![c] = value], IsChecker(value),
         value.fresh => \A part \in ReadBefore[value.at] : value[part] = References[part],
         plan' = [f \in {"status", "fresh", "mode", "blockers", "assessed"} |-> plan'[f]],
         plan'.mode = plan.mode /\ plan'.blockers = plan.blockers /\ plan'.assessed = plan.assessed,
         plan'.status = "READY" /\ plan'.fresh => HasNoBlocker(References)
  PROVE  PlanShape' /\ PlanInvariant'
<1>1. UNCHANGED <<application, profile, environment, watched>>
  BY DEF inventoryVars
<1>2. checker' = [b \in Checkers |-> checker'[b]] /\ \A b \in Checkers : checker'[b] = IF b = c THEN value ELSE checker[b]
  BY DEF PlanShape
<1>3. PlanShape'
  BY <1>1, <1>2 DEF PlanShape, IsChecker, HasIds
<1>4. References' = References
  BY <1>1 DEF References
<1>5. ASSUME NEW b \in Checkers PROVE ReadsAreCurrent(b)'
  BY <1>2, <1>4 DEF PlanInvariant, ReadsAreCurrent
<1>6. HasNoBlocker(References) => HasNoBlocker(References)'
  BY <1>1, <1>4 DEF HasNoBlocker, AssessmentChecks, StrategyChecks
<1>7. PlanInvariant'
  BY <1>1, <1>5, <1>6 DEF PlanInvariant, ClassesAreOfVolumes
<1>8. QED
  BY <1>3, <1>7

LEMMA ReadsDecide ==
  ASSUME NEW read, \A part \in {"source", "target", "application", "profile"} : read[part] = References[part],
         HasNoBlocker(read)
  PROVE  HasNoBlocker(References)
<1>1. /\ read.source = References.source /\ read.target = References.target
      /\ read.application = References.application /\ read.profile = References.profile
  OBVIOUS
<1>2. QED
  BY <1>1 DEF HasNoBlocker

\* What is checked has changed: no preflight and no plan is fresh any more.
LEMMA OutdatedKeepsPlan ==
  ASSUME PlanShape, PlanInvariant, Outdated, watched = "plan", watched' = watched,
         environment' = [side \in {"source", "target"} |-> environment'[side]],
         Described(application'.inventory),
         application' = [f \in {"type", "selection", "inventory"} |-> application'[f]]
  PROVE  PlanShape' /\ PlanInvariant'
<1>1. /\ plan' = [plan EXCEPT !.fresh = FALSE, !.assessed = plan.assessed /\ application' = application]
      /\ checker' = [c \in Checkers |-> [checker[c] EXCEPT !.fresh = FALSE]]
  BY DEF Outdated
<1>2. /\ plan' = [f \in {"status", "fresh", "mode", "blockers", "assessed"} |-> plan'[f]] /\ ~plan'.fresh
      /\ plan'.blockers = plan.blockers /\ (plan'.assessed => plan.assessed /\ application' = application)
  BY <1>1 DEF PlanShape
<1>3. checker' = [c \in Checkers |-> checker'[c]] /\ \A c \in Checkers : IsChecker(checker'[c]) /\ ~checker'[c].fresh
  <2>1. \A c \in Checkers : IsChecker(checker[c])
    BY DEF PlanShape
  <2>2. \A c \in Checkers : checker'[c] = [checker[c] EXCEPT !.fresh = FALSE]
    BY <1>1
  <2>3. checker' = [c \in Checkers |-> checker'[c]]
    BY <1>1
  <2>4. ASSUME NEW c \in Checkers PROVE IsChecker(checker'[c]) /\ ~checker'[c].fresh
    <3>1. checker'[c] = [checker[c] EXCEPT !.fresh = FALSE] /\ IsChecker(checker[c])
      BY <2>1, <2>2
    <3>2. QED
      BY <3>1 DEF IsChecker
  <2>5. QED
    BY <2>3, <2>4
<1>4. PlanShape'
  BY <1>2, <1>3 DEF PlanShape, IsChecker, Described, HasIds
<1>5. PlanInvariant'
  BY <1>2, <1>3 DEF PlanInvariant, ReadsAreCurrent, Described, ClassesAreOfVolumes
<1>6. QED
  BY <1>4, <1>5

LEMMA PreflightKeepsPlan ==
  ASSUME PlanShape, PlanInvariant, watched = "plan", watched' = watched, NEW c \in Checkers,
         BeginPreflight(c) \/ ReadReference(c) \/ UpdatePlanStatus(c) \/ PreflightFails(c)
  PROVE  PlanShape' /\ PlanInvariant'
<1>1. /\ IsChecker(checker[c]) /\ ReadsAreCurrent(c)
      /\ plan = [f \in {"status", "fresh", "mode", "blockers", "assessed"} |-> plan[f]]
      /\ plan.status = "READY" /\ plan.fresh => HasNoBlocker(References)
  BY DEF PlanShape, PlanInvariant
<1>2. IsChecker(NoRead) /\ NoRead.fresh = FALSE
  BY DEF IsChecker, NoRead, CheckStages
<1>3. UNCHANGED <<inventoryVars, environment, watched>>
  BY DEF BeginPreflight, ReadReference, UpdatePlanStatus, PreflightFails, evidenceVars
<1>4. CASE BeginPreflight(c)
  <2> DEFINE value == [NoRead EXCEPT !.at = "source", !.fresh = TRUE]
  <2>1. value.at = "source" /\ IsChecker(value) /\ ReadBefore["source"] = {}
    BY <1>2 DEF IsChecker, ReadBefore, CheckStages
  <2>2. checker' = [checker EXCEPT ![c] = value] /\ plan' = plan
    BY <1>4 DEF BeginPreflight
  <2> HIDE DEF value
  <2>3. QED
    BY <1>1, <1>3, <2>1, <2>2, CheckerStepKeepsPlan
<1>5. CASE ReadReference(c)
  <2> DEFINE at == checker[c].at
             value == [checker[c] EXCEPT ![at] = References[at], !.at = NextStage[at]]
  <2>1. at \in {"source", "target", "application", "profile"}
    BY <1>5 DEF ReadReference, NextStage
  <2>2. checker' = [checker EXCEPT ![c] = value] /\ plan' = plan
    BY <1>5 DEF ReadReference, PlanShape
  <2>3. NextStage[at] \in CheckStages /\ ReadBefore[NextStage[at]] = ReadBefore[at] \cup {at}
        /\ ReadBefore[at] \subseteq {"source", "target", "application", "profile"}
    BY <2>1 DEF NextStage, CheckStages, ReadBefore
  <2>4. /\ value.at = NextStage[at] /\ value.fresh = checker[c].fresh /\ value[at] = References[at]
        /\ \A part \in {"source", "target", "application", "profile"} : part # at => value[part] = checker[c][part]
    BY <1>1, <2>1 DEF IsChecker
  <2>5. IsChecker(value)
    BY <1>1, <2>1, <2>3 DEF IsChecker
  <2> HIDE DEF value
  <2>6. value.fresh => \A part \in ReadBefore[value.at] : value[part] = References[part]
    BY <1>1, <2>1, <2>3, <2>4 DEF ReadsAreCurrent
  <2>7. QED
    BY <1>1, <1>3, <2>2, <2>5, <2>6, CheckerStepKeepsPlan
<1>6. CASE UpdatePlanStatus(c)
  <2>1. checker[c].at = "update" /\ checker' = [checker EXCEPT ![c] = NoRead]
    BY <1>6 DEF UpdatePlanStatus
  <2> DEFINE checked == [plan EXCEPT !.status = IF HasNoBlocker(checker[c]) THEN "READY" ELSE "BLOCKED",
                                     !.fresh = checker[c].fresh]
  <2>2. plan' = plan \/ plan' = checked
    BY <1>6 DEF UpdatePlanStatus
  <2>3. /\ checked = [f \in {"status", "fresh", "mode", "blockers", "assessed"} |-> checked[f]]
        /\ checked.mode = plan.mode /\ checked.blockers = plan.blockers /\ checked.assessed = plan.assessed
        /\ checked.fresh = checker[c].fresh
        /\ checked.status = "READY" => HasNoBlocker(checker[c])
    BY <1>1
  <2>4. ReadBefore["update"] = {"source", "target", "application", "profile"}
    BY DEF ReadBefore
  <2>5. checked.status = "READY" /\ checked.fresh => HasNoBlocker(References)
    BY <1>1, <2>1, <2>3, <2>4, ReadsDecide DEF ReadsAreCurrent
  <2> HIDE DEF checked
  <2>6. QED
    BY <1>1, <1>2, <1>3, <2>1, <2>2, <2>3, <2>5, CheckerStepKeepsPlan
<1>7. CASE PreflightFails(c)
  <2>1. checker' = [checker EXCEPT ![c] = NoRead] /\ plan' = plan
    BY <1>7 DEF PreflightFails
  <2>2. QED
    BY <1>1, <1>2, <1>3, <2>1, CheckerStepKeepsPlan
<1>8. QED
  BY <1>4, <1>5, <1>6, <1>7

LEMMA StartPlanKeepsPlan ==
  ASSUME PlanShape, PlanInvariant, watched = "plan", watched' = watched, StartPlan
  PROVE  PlanShape' /\ PlanInvariant'
<1>1. plan' = [plan EXCEPT !.status = "RUNNING"] /\ UNCHANGED <<application, profile, environment, checker>>
  BY DEF StartPlan, evidenceVars, inventoryVars
<1>2. /\ plan' = [f \in {"status", "fresh", "mode", "blockers", "assessed"} |-> plan'[f]] /\ plan'.status = "RUNNING"
      /\ plan'.assessed = plan.assessed /\ plan'.blockers = plan.blockers
  BY <1>1 DEF PlanShape
<1>3. PlanShape'
  BY <1>1, <1>2 DEF PlanShape, IsChecker, HasIds
<1>4. PlanInvariant'
  BY <1>1, <1>2 DEF PlanInvariant, ReadsAreCurrent, References, ClassesAreOfVolumes
<1>5. QED
  BY <1>3, <1>4

LEMMA CreateAssessmentKeepsPlan ==
  ASSUME PlanShape, PlanInvariant, watched = "plan", watched' = watched, CreateAssessment
  PROVE  PlanShape' /\ PlanInvariant'
<1>1. UNCHANGED <<application, profile, environment, checker>>
  BY DEF CreateAssessment, evidenceVars, inventoryVars
<1>2. PICK others : plan' = [plan EXCEPT !.status = "DRAFT", !.assessed = TRUE,
                               !.blockers = others \cup RequiredDependencyRule(application.inventory)]
  BY DEF CreateAssessment
<1>3. /\ plan' = [f \in {"status", "fresh", "mode", "blockers", "assessed"} |-> plan'[f]] /\ plan'.status = "DRAFT"
      /\ plan'.blockers = others \cup RequiredDependencyRule(application.inventory)
  BY <1>2 DEF PlanShape
<1>4. PlanShape'
  BY <1>1, <1>3 DEF PlanShape, IsChecker, HasIds
<1>5. PlanInvariant'
  BY <1>1, <1>3 DEF PlanInvariant, ReadsAreCurrent, References, ClassesAreOfVolumes
<1>6. QED
  BY <1>4, <1>5

LEMMA ConsoleStepKeepsPlan ==
  ASSUME PlanShape, PlanInvariant, [ConsoleNext]_consoleVars
  PROVE  PlanShape' /\ PlanInvariant'
<1>1. /\ Described(application.inventory)
      /\ application = [f \in {"type", "selection", "inventory"} |-> application[f]]
      /\ environment = [side \in {"source", "target"} |-> environment[side]]
  BY DEF PlanShape, PlanInvariant, Described
<1>2. CASE UNCHANGED <<application, profile, planVars, watched>>
  <2>1. PlanShape'
    BY <1>2 DEF PlanShape, IsChecker, HasIds, planVars
  <2>2. HasNoBlocker(References) => HasNoBlocker(References)'
    BY <1>2 DEF planVars, HasNoBlocker, References, AssessmentChecks, StrategyChecks
  <2>3. \A c \in Checkers : ReadsAreCurrent(c)'
    BY <1>2 DEF planVars, PlanInvariant, ReadsAreCurrent, References
  <2>4. PlanInvariant'
    BY <1>2, <2>2, <2>3 DEF PlanInvariant, ClassesAreOfVolumes, planVars
  <2>5. QED
    BY <2>1, <2>4
<1>3. CASE watched = "evidence" /\ EvidenceNext /\ UNCHANGED <<planVars, watched>>
  <2>1. UNCHANGED <<application, profile>> \/ InventoryNext
    BY <1>3 DEF EvidenceNext, View, Arrives, OpenTopology, GetRun, GetApplication, ResolveMappingProfile, Observe,
                ApplyEvents, SaveTopologyEvidence, RefreshTopology, ReconcileValidationResult, Quiet,
                SaveCurrentTopologyObservation, ReconcileValidationSuccess, RequestFails, StartRun, RestoreTarget,
                TargetChanges, ValidateTarget, RestoreFails, CancelRun, ConfirmCutover, RestoreSource, RollbackEnds,
                RunBecomes, inventoryVars
  <2>2. CASE InventoryNext
    <3>1. /\ Described(application'.inventory)
          /\ application' = [f \in {"type", "selection", "inventory"} |-> application'[f]]
      BY <1>1, <2>2, InventoryStepDescribes
    <3>2. PlanShape'
      BY <1>3, <3>1 DEF PlanShape, IsChecker, HasIds, Described, planVars
    <3>3. plan'.status = "NONE" /\ ~plan'.assessed /\ \A c \in Checkers : ~checker'[c].fresh
      BY <1>3 DEF PlanShape, planVars
    <3>4. PlanInvariant'
      BY <3>1, <3>3 DEF PlanInvariant, ReadsAreCurrent, Described, ClassesAreOfVolumes
    <3>5. QED
      BY <3>2, <3>4
  <2>3. QED
    BY <1>2, <1>3, <2>1, <2>2
<1>4. CASE watched = "plan" /\ PlanNext /\ UNCHANGED <<vars, watched>>
  <2>1. CASE \E c \in Checkers : BeginPreflight(c) \/ ReadReference(c) \/ UpdatePlanStatus(c) \/ PreflightFails(c)
    BY <1>4, <2>1, PreflightKeepsPlan
  <2>2. CASE CreateAssessment \/ StartPlan
    BY <1>4, <2>2, CreateAssessmentKeepsPlan, StartPlanKeepsPlan
  <2>3. ASSUME NEW side \in {"source", "target"}, NEW capabilities, EnvironmentChanges(side, capabilities)
        PROVE  PlanShape' /\ PlanInvariant'
    <3>1. Outdated /\ UNCHANGED application /\ \E value : environment' = [environment EXCEPT ![side] = value]
      BY <2>3 DEF EnvironmentChanges
    <3>2. environment' = [s \in {"source", "target"} |-> environment'[s]]
      BY <1>1, <3>1
    <3>3. QED
      BY <1>1, <1>4, <3>1, <3>2, OutdatedKeepsPlan
  <2>4. CASE InventoryNext /\ Outdated /\ UNCHANGED environment
    BY <1>1, <1>4, <2>4, InventoryStepDescribes, OutdatedKeepsPlan
  <2>5. QED
    BY <1>4, <2>1, <2>2, <2>3, <2>4 DEF PlanNext
<1>5. CASE watched = "progress" /\ Next /\ UNCHANGED <<evidenceVars, planVars, watched>>
  BY <1>2, <1>5 DEF evidenceVars, inventoryVars
<1>6. CASE UNCHANGED consoleVars
  BY <1>2, <1>6 DEF consoleVars, evidenceVars, inventoryVars
<1>7. QED
  BY <1>3, <1>4, <1>5, <1>6 DEF ConsoleNext

\* A preflight that has seen no change has read what is stored now, and a READY
\* plan that has seen none passes the checks of what is stored now.
THEOREM ChecksAreConsistent == ConsoleSpec => [](PlanShape /\ PlanInvariant)
<1>1. ConsoleInit => PlanShape /\ PlanInvariant
  BY InitPlan
<1>2. PlanShape /\ PlanInvariant /\ [ConsoleNext]_consoleVars => (PlanShape /\ PlanInvariant)'
  BY ConsoleStepKeepsPlan
<1>3. QED
  BY <1>1, <1>2, PTL DEF ConsoleSpec

(***************************************************************************)
(* Plan: the claims of the target.                                         *)
(***************************************************************************)
\* Only a claim that was listed with its volume has a class, its volume's.
LEMMA ClassOfNode ==
  ASSUME NEW inventory, Described(inventory), NEW m \in GraphFromInventory(inventory, "DISCOVERED"),
         "storageClass" \in DOMAIN m.attrs
  PROVE  /\ DOMAIN m.id = {"kind", "name"}
         /\ DOMAIN m = {"id", "required", "status", "attrs", "changes"}
         /\ \E v \in inventory.volumes : m.attrs["storageClass"] = ClassOf(v)
<1>1. \A id, required : LET n == Node(id, required, "DISCOVERED", << >>)
                        IN  "storageClass" \notin DOMAIN n.attrs
  BY DEF Node
<1>2. PICK r \in inventory.resources : m = Node(r.id, TRUE, "DISCOVERED", WithVolume(r, inventory))
  BY <1>1 DEF GraphFromInventory
<1>3. m.id = r.id /\ m.attrs = WithVolume(r, inventory) /\ DOMAIN m = {"id", "required", "status", "attrs", "changes"}
  BY <1>2 DEF Node
<1> DEFINE volume == {v \in inventory.volumes : v.id = r.id}
           chosen == CHOOSE v \in volume : TRUE
<1>4. WithVolume(r, inventory) = IF volume = {} THEN r.attrs ELSE MergeAttributes(r.attrs, chosen.attrs)
  BY DEF WithVolume
<1>5. "storageClass" \notin DOMAIN r.attrs /\ \A v \in inventory.volumes : "storageClass" \in DOMAIN v.attrs
  BY DEF Described, ClassesAreOfVolumes
<1>6. volume # {} => chosen \in volume
  OBVIOUS
<1>7. volume # {}
  BY <1>3, <1>4, <1>5
<1> HIDE DEF chosen
<1>8. chosen \in inventory.volumes /\ m.attrs["storageClass"] = ClassOf(chosen)
  BY <1>3, <1>4, <1>5, <1>6, <1>7 DEF MergeAttributes, ClassOf
<1>9. QED
  BY <1>3, <1>8 DEF Described, HasIds

\* The plan gives it the class that the profile maps that class to.
LEMMA ClassOfPlannedNode ==
  ASSUME NEW m, DOMAIN m.id = {"kind", "name"}, DOMAIN m = {"id", "required", "status", "attrs", "changes"},
         "storageClass" \in DOMAIN m.attrs, PlannedNode(m).id.kind = "PersistentVolumeClaim"
  PROVE  PlannedNode(m).attrs["storageClass"] = TargetClass(profile, m.attrs["storageClass"])
<1> DEFINE changed == MappingChanges(m)
           NewValue(a) == (CHOOSE c \in changed : c.attribute = a).to
           name == IF \E c \in changed : c.attribute = "name" THEN NewValue("name") ELSE m.id.name
           attrs == [a \in DOMAIN m.attrs |-> IF \E c \in changed : c.attribute = a THEN NewValue(a) ELSE m.attrs[a]]
           class == m.attrs["storageClass"]
<1>1. PlannedNode(m) = [m EXCEPT !.status = "PLANNED", !.changes = changed, !.id.name = name, !.attrs = attrs]
  BY DEF PlannedNode
<1>2. attrs["storageClass"] = IF \E c \in changed : c.attribute = "storageClass" THEN NewValue("storageClass") ELSE class
  OBVIOUS
<1> HIDE DEF changed, name, attrs
<1>3. PlannedNode(m).attrs = attrs /\ PlannedNode(m).id.kind = m.id.kind
  BY <1>1
<1>4. changed = {[attribute |-> a, to |-> Mapped(a, m.attrs[a])] : a \in {b \in DOMAIN m.attrs : IsMapped(b, m.attrs[b])}}
  BY <1>3 DEF changed, MappingChanges
<1>5. CASE IsMapped("storageClass", class)
  <2>1. [attribute |-> "storageClass", to |-> Mapped("storageClass", class)] \in changed
    BY <1>4, <1>5
  <2>2. \A c \in changed : c.attribute = "storageClass" => c.to = Mapped("storageClass", class)
    BY <1>4
  <2>3. NewValue("storageClass") = Mapped("storageClass", class)
    BY <2>1, <2>2
  <2>4. (\E c \in changed : c.attribute = "storageClass") /\ Mapped("storageClass", class) = TargetClass(profile, class)
    BY <1>5, <2>1 DEF IsMapped, Mapped, TargetClass
  <2>5. QED
    BY <1>2, <1>3, <2>3, <2>4
<1>6. CASE ~IsMapped("storageClass", class)
  <2>1. ~\E c \in changed : c.attribute = "storageClass"
    BY <1>4, <1>6
  <2>2. TargetClass(profile, class) = class
    BY <1>6 DEF IsMapped, TargetClass
  <2>3. QED
    BY <1>2, <1>3, <2>1, <2>2
<1>7. QED
  BY <1>5, <1>6

\* Of an application that was assessed as it is, every claim that is needed was
\* listed, with its volume.
LEMMA NeededClaimsAreListed ==
  ASSUME PlanShape, PlanInvariant, HasNoBlocker(References), plan.assessed,
         NEW m \in GraphFromInventory(application.inventory, "DISCOVERED"),
         m.id.kind = "PersistentVolumeClaim", m.required
  PROVE  "storageClass" \in DOMAIN m.attrs
<1> DEFINE inventory == application.inventory
           listed == {Node(r.id, TRUE, "DISCOVERED", WithVolume(r, inventory)) : r \in inventory.resources}
           others == {d.to : d \in inventory.dependencies} \ {n.id : n \in listed}
           First(id) == CHOOSE d \in inventory.dependencies : d.to = id
<1>1. MissingDependencies(inventory) = {}
  BY DEF PlanInvariant, HasNoBlocker, AssessmentChecks, RequiredDependencyRule
<1>2. \A r \in inventory.resources : Node(r.id, TRUE, "DISCOVERED", WithVolume(r, inventory)).id = r.id
  BY DEF Node
<1>3. m \in listed \/ \E id \in others : m = Node(id, First(id).required, "DISCOVERED", << >>)
  BY DEF GraphFromInventory
<1>4. CASE m \in listed
  <2>1. PICK r \in inventory.resources : m = Node(r.id, TRUE, "DISCOVERED", WithVolume(r, inventory))
    BY <1>4
  <2>2. m.id = r.id /\ m.attrs = WithVolume(r, inventory)
    BY <2>1 DEF Node
  <2> DEFINE volume == {v \in inventory.volumes : v.id = r.id}
             chosen == CHOOSE v \in volume : TRUE
  <2>3. WithVolume(r, inventory) = IF volume = {} THEN r.attrs ELSE MergeAttributes(r.attrs, chosen.attrs)
    BY DEF WithVolume
  <2>4. volume # {} /\ \A v \in volume : "storageClass" \in DOMAIN v.attrs
    BY <2>2 DEF PlanInvariant, ClassesAreOfVolumes
  <2>5. chosen \in volume
    BY <2>4
  <2> HIDE DEF chosen
  <2>6. QED
    BY <2>2, <2>3, <2>4, <2>5 DEF MergeAttributes
<1>5. ASSUME NEW id \in others, m = Node(id, First(id).required, "DISCOVERED", << >>) PROVE FALSE
  <2>1. First(id) \in inventory.dependencies /\ First(id).to = id
    OBVIOUS
  <2> HIDE DEF First
  <2>2. id.kind = "PersistentVolumeClaim" /\ First(id).required
    BY <1>5 DEF Node
  <2>3. id \notin {r.id : r \in inventory.resources}
    BY <1>2
  <2>4. First(id) \in MissingDependencies(inventory)
    BY <2>1, <2>2, <2>3 DEF MissingDependencies, Unlisted
  <2>5. QED
    BY <1>1, <2>4
<1>6. QED
  BY <1>3, <1>4, <1>5

LEMMA PlannedClaimsHaveAClass ==
  ASSUME PlanShape, PlanInvariant, HasNoBlocker(References), plan.assessed, application.type = "KUBERNETES",
         NEW n \in BuildKubernetesTarget(application.inventory),
         n.id.kind = "PersistentVolumeClaim", n.required
  PROVE  /\ "storageClass" \in DOMAIN n.attrs
         /\ \E c \in environment.target.capabilities.classes :
              IF n.attrs["storageClass"] = "" THEN c.default ELSE c.name = n.attrs["storageClass"]
<1>1. PICK m \in GraphFromInventory(application.inventory, "DISCOVERED") : n = PlannedNode(m)
  BY DEF BuildKubernetesTarget
<1>2. Described(application.inventory)
  BY DEF PlanShape, PlanInvariant, Described
<1>3. DOMAIN m = {"id", "required", "status", "attrs", "changes"} /\ DOMAIN m.id = {"kind", "name"}
  <2>1. \A id, required, attrs : LET node == Node(id, required, "DISCOVERED", attrs)
                                 IN  DOMAIN node = {"id", "required", "status", "attrs", "changes"} /\ node.id = id
    BY DEF Node
  <2>2. \E id, required, attrs : /\ m = Node(id, required, "DISCOVERED", attrs)
                                 /\ \/ id \in {r.id : r \in application.inventory.resources}
                                    \/ id \in {d.to : d \in application.inventory.dependencies}
    BY Zenon DEF GraphFromInventory
  <2>3. QED
    BY <1>2, <2>1, <2>2 DEF Described, HasIds
<1>4. n.id.kind = m.id.kind /\ n.required = m.required /\ DOMAIN n.attrs = DOMAIN m.attrs
  BY <1>1, <1>3 DEF PlannedNode
<1>5. "storageClass" \in DOMAIN m.attrs
  BY <1>4, NeededClaimsAreListed
<1>6. PICK v \in application.inventory.volumes : m.attrs["storageClass"] = ClassOf(v)
  BY <1>2, <1>5, ClassOfNode
<1>7. n.attrs["storageClass"] = TargetClass(profile, ClassOf(v))
  BY <1>1, <1>2, <1>3, <1>5, <1>6, ClassOfNode, ClassOfPlannedNode
<1>8. IF TargetClass(profile, ClassOf(v)) = "" THEN DefaultClass(environment.target.capabilities) # {}
      ELSE \E c \in environment.target.capabilities.classes : c.name = TargetClass(profile, ClassOf(v))
  BY DEF HasNoBlocker, StorageMappingChecks, References
<1>9. QED
  BY <1>4, <1>5, <1>7, <1>8 DEF DefaultClass

LEMMA VolumesCanBeMoved ==
  ASSUME HasNoBlocker(References), NEW v \in application.inventory.volumes
  PROVE  /\ IsBlock(v) => plan.mode = "CSI_DATA_MOVER"
         /\ plan.mode = "CSI_DATA_MOVER" =>
              \E c \in environment.source.capabilities.classes :
                /\ IF ClassOf(v) = "" THEN c.default ELSE c.name = ClassOf(v)
                /\ c.driver \in environment.source.capabilities.snapshots
<1>1. StrategyChecks(environment.source, environment.target, application)
  BY DEF HasNoBlocker, References
<1>2. IsBlock(v) => plan.mode = "CSI_DATA_MOVER"
  BY <1>1 DEF StrategyChecks
<1>3. ASSUME plan.mode = "CSI_DATA_MOVER"
      PROVE  SnapshotDriverForStorageClass(environment.source.capabilities, ClassOf(v))
  BY <1>1, <1>3 DEF StrategyChecks, DataMoverStrategyChecks
<1> DEFINE class == ClassOf(v)
           named == {c \in environment.source.capabilities.classes : IF class = "" THEN c.default ELSE c.name = class}
<1>4. ASSUME plan.mode = "CSI_DATA_MOVER"
      PROVE  \E c \in named : c.driver \in environment.source.capabilities.snapshots
  <2>1. {c.driver : c \in named} # {} /\ {c.driver : c \in named} \subseteq environment.source.capabilities.snapshots
    BY <1>3, <1>4 DEF SnapshotDriverForStorageClass
  <2>2. PICK c \in named : TRUE
    BY <2>1
  <2>3. QED
    BY <2>1, <2>2
<1>5. QED
  BY <1>2, <1>4

\* Whatever the preflights read and in whatever order others change it: a plan
\* that is READY, and of which nothing has changed since its preflight began, has
\* a way to move every volume of its source; as long as the application is still
\* what was assessed, the target also has a storage class for every claim that
\* is needed there.  A claim that is only known by what mounts it, because the
\* list of claims failed, has none: its plan is never READY.
THEOREM ReadyPlansPlaceTheirVolumes == ConsoleSpec => []ReadyPlanPlacesItsVolumes
<1>1. PlanShape /\ PlanInvariant => ReadyPlanPlacesItsVolumes
  <2> SUFFICES ASSUME PlanShape, PlanInvariant, plan.status = "READY", plan.fresh
               PROVE  VolumesAreMovable /\ (plan.assessed => ClaimsArePlaced)
    BY DEF ReadyPlanPlacesItsVolumes
  <2>1. HasNoBlocker(References)
    BY DEF PlanInvariant
  <2>2. VolumesAreMovable
    BY <2>1, VolumesCanBeMoved DEF VolumesAreMovable
  <2>3. plan.assessed => ClaimsArePlaced
    BY <2>1, PlannedClaimsHaveAClass DEF ClaimsArePlaced
  <2>4. QED
    BY <2>2, <2>3
<1>2. QED
  BY <1>1, ChecksAreConsistent, PTL

-----------------------------------------------------------------------------
(***************************************************************************)
(* Types.                                                                  *)
(***************************************************************************)
SourceIds == {IdOf(o) : o \in SourceObjects}
IsOfSource(inventory) == {r.id : r \in inventory.resources} \subseteq SourceIds
IsApplication == application = [f \in {"type", "selection", "inventory"} |-> application[f]]

LEMMA DiscoveriesAreOfSource ==
  /\ \A selection : \A inventory \in Discoveries(selection) : IsOfSource(inventory)
  /\ \A inventory \in BulkDiscoveries : IsOfSource(inventory)
  /\ IsOfSource(Preview({})) /\ \A selected : IsOfSource(FilterInventory(Preview({}), selected))
<1>1. \A objects \in SUBSET SourceObjects : IsOfSource(BuildInventory(objects))
  <2>1. \A o : ResourceSummary(o).id = IdOf(o)
    BY DEF ResourceSummary
  <2>2. \A objects : BuildInventory(objects).resources = {ResourceSummary(o) : o \in objects}
    BY DEF BuildInventory
  <2>3. QED
    BY <2>1, <2>2 DEF IsOfSource, SourceIds
<1>2. \A failing : CoreObjects(SourceObjects, failing) \cup CustomObjects(SourceObjects, failing) \subseteq SourceObjects
  BY DEF CoreObjects, CustomObjects
<1>3. \A failing : IsOfSource(Preview(failing)) /\ IsOfSource(DiscoverNamespaceCore(SourceObjects, failing))
  BY <1>1, <1>2 DEF Preview, DiscoverNamespace, DiscoverNamespaceCore
<1>4. \A inventory, selected : IsOfSource(inventory) => IsOfSource(FilterInventory(inventory, selected))
  BY DEF IsOfSource, FilterInventory
<1>5. QED
  BY <1>3, <1>4 DEF Discoveries, BulkDiscoveries

LEMMA ChangesAreCounted ==
  ASSUME changes \in 0..MaxChanges
  PROVE  /\ Changed => changes' \in 0..MaxChanges
         /\ \A failing : Lists(failing) => changes' \in 0..MaxChanges
BY InventoryAssumption DEF Changed, Lists

LEMMA InventoryKeepsTypes ==
  ASSUME InventoryTypeOK, IsApplication, InventoryNext
  PROVE  InventoryTypeOK' /\ application'.type = application.type
<1>1. /\ application.type \in ApplicationTypes /\ application.selection \in Selections \cup {{}}
      /\ IsDiscovery(application.selection, application.inventory) /\ IsOfSource(application.inventory)
      /\ profile \in Profiles /\ changes' \in 0..MaxChanges
  BY ChangesAreCounted
     DEF InventoryTypeOK, InventoryNext, DiscoverSelected, DiscoverAll, UpdateProfile, IsOfSource, SourceIds
<1>2. ASSUME NEW inventory, IsDiscovery(application.selection, inventory), IsOfSource(inventory), Upsert(inventory),
             UNCHANGED profile
      PROVE  InventoryTypeOK' /\ application'.type = application.type
  <2>1. /\ application'.type = application.type /\ application'.selection = application.selection
        /\ application'.inventory = inventory
    BY <1>2 DEF Upsert, IsApplication
  <2>2. QED
    BY <1>1, <1>2, <2>1 DEF InventoryTypeOK, IsDiscovery, IsOfSource, SourceIds
<1>3. CASE DiscoverSelected
  <2>1. PICK inventory \in Discoveries(application.selection) : Upsert(inventory)
    BY <1>3 DEF DiscoverSelected
  <2>2. IsDiscovery(application.selection, inventory)
    BY <2>1 DEF Discoveries
  <2>3. QED
    BY <1>2, <1>3, <2>1, <2>2, DiscoveriesAreOfSource DEF DiscoverSelected
<1>4. CASE DiscoverAll
  <2>1. PICK inventory \in BulkDiscoveries : Upsert(inventory)
    BY <1>4 DEF DiscoverAll
  <2>2. IsDiscovery(application.selection, inventory)
    BY <1>4 DEF DiscoverAll, IsDiscovery
  <2>3. QED
    BY <1>2, <1>4, <2>1, <2>2, DiscoveriesAreOfSource DEF DiscoverAll
<1>5. CASE UpdateProfile
  BY <1>1, <1>5 DEF UpdateProfile, InventoryTypeOK, IsDiscovery, IsOfSource, SourceIds
<1>6. QED
  BY <1>3, <1>4, <1>5 DEF InventoryNext

LEMMA OnlyChangesAreCounted ==
  ASSUME InventoryTypeOK, UNCHANGED <<application, profile>>, changes' \in 0..MaxChanges
  PROVE  InventoryTypeOK' /\ application'.type = application.type
BY DEF InventoryTypeOK, IsDiscovery

\* What the evidence's shape does not say of the types.
InputsHaveTypes == InventoryTypeOK /\ target \in Targets[application.type] \cup {{}}

LEMMA EvidenceKeepsInputs ==
  ASSUME InputsHaveTypes, IsApplication, DOMAIN view = Viewers, EvidenceNext
  PROVE  InputsHaveTypes'
<1>1. InventoryTypeOK /\ target \in Targets[application.type] \cup {{}} /\ changes \in 0..MaxChanges
  BY DEF InputsHaveTypes, InventoryTypeOK
<1>2. CASE UNCHANGED <<inventoryVars, target>>
  BY <1>1, <1>2, OnlyChangesAreCounted DEF inventoryVars, InputsHaveTypes
<1>3. CASE UNCHANGED <<application, profile, target>> /\ changes' \in 0..MaxChanges
  BY <1>1, <1>3, OnlyChangesAreCounted DEF InputsHaveTypes
<1>4. ASSUME NEW v \in Viewers, View(v) PROVE InputsHaveTypes'
  <2>1. CASE \E op \in {"topology", "refresh"} : OpenTopology(v, op)
    <3>1. Arrives(v) /\ UNCHANGED target
      BY <2>1 DEF OpenTopology, observedVars
    <3>2. UNCHANGED inventoryVars \/ (Changed /\ UNCHANGED <<application, profile>>)
      BY <3>1 DEF Arrives
    <3>3. QED
      BY <1>1, <1>2, <1>3, <3>1, <3>2, ChangesAreCounted
  <2>2. CASE Observe(v) \/ RefreshTopology(v)
    <3>1. UNCHANGED <<application, profile, target>> /\ \E failing : Lists(failing)
      BY <2>2 DEF Observe, RefreshTopology, observedVars
    <3>2. QED
      BY <1>1, <1>3, <3>1, ChangesAreCounted
  <2>3. CASE \/ GetRun(v) \/ GetApplication(v) \/ ResolveMappingProfile(v) \/ ApplyEvents(v)
             \/ SaveCurrentTopologyObservation(v) \/ ReconcileValidationResult(v) \/ ReconcileValidationSuccess(v)
    BY <1>2, <2>3 DEF GetRun, GetApplication, ResolveMappingProfile, ApplyEvents, SaveCurrentTopologyObservation,
                      ReconcileValidationResult, ReconcileValidationSuccess, Quiet, observedVars
  <2>4. QED
    BY <1>4, <2>1, <2>2, <2>3 DEF View
<1>5. CASE RestoreTarget
  <2>1. UNCHANGED <<application, profile, changes>> /\ target' \in Targets[application.type]
    BY <1>5 DEF RestoreTarget, inventoryVars
  <2>2. QED
    BY <1>1, <2>1, OnlyChangesAreCounted DEF InputsHaveTypes
<1>6. CASE TargetChanges
  <2>1. UNCHANGED <<application, profile>> /\ Changed /\ target' \in Targets[application.type]
    BY <1>6 DEF TargetChanges
  <2>2. QED
    BY <1>1, <2>1, ChangesAreCounted, OnlyChangesAreCounted DEF InputsHaveTypes
<1>7. CASE InventoryNext /\ UNCHANGED <<observedVars, topology, view>>
  BY <1>1, <1>7, InventoryKeepsTypes DEF observedVars, InputsHaveTypes
<1>8. CASE \/ \E v \in Viewers : SaveTopologyEvidence(v) \/ RequestFails(v)
           \/ StartRun \/ ValidateTarget \/ RestoreFails \/ CancelRun \/ ConfirmCutover \/ RestoreSource \/ RollbackEnds
  BY <1>2, <1>8 DEF SaveTopologyEvidence, RequestFails, StartRun, ValidateTarget, RestoreFails, CancelRun, ConfirmCutover,
                    RestoreSource, RollbackEnds, RunBecomes, Quiet, observedVars
<1>9. QED
  BY <1>4, <1>5, <1>6, <1>7, <1>8 DEF EvidenceNext

RowStatuses == {"NONE", "DRAFT", "READY", "BLOCKED", "RUNNING"}
PlanHasType ==
  plan \in [status : RowStatuses, fresh : BOOLEAN, mode : Modes,
            blockers : SUBSET {"DEPENDENCY_REQUIRED_MISSING", "another"}, assessed : BOOLEAN]
EnvironmentHasType ==
  environment \in [source : Environments(SourceCapabilities), target : Environments(TargetCapabilities)]

LEMMA PlanKeepsTypes ==
  ASSUME PlanShape, PlanHasType, EnvironmentHasType, InputsHaveTypes, PlanNext
  PROVE  PlanHasType' /\ EnvironmentHasType' /\ InputsHaveTypes'
<1>1. \A c \in Checkers : checker[c].fresh \in BOOLEAN
  BY DEF PlanShape, IsChecker
<1>2. InventoryTypeOK /\ target \in Targets[application.type] \cup {{}} /\ changes \in 0..MaxChanges /\ IsApplication
  BY DEF InputsHaveTypes, InventoryTypeOK, PlanShape, IsApplication
<1>3. ASSUME UNCHANGED evidenceVars PROVE InputsHaveTypes'
  BY <1>2, <1>3, OnlyChangesAreCounted DEF evidenceVars, inventoryVars, observedVars, InputsHaveTypes
<1>4. CASE \E c \in Checkers : BeginPreflight(c) \/ ReadReference(c) \/ PreflightFails(c)
  BY <1>3, <1>4 DEF BeginPreflight, ReadReference, PreflightFails, PlanHasType, EnvironmentHasType
<1>5. ASSUME NEW c \in Checkers, UpdatePlanStatus(c) PROVE PlanHasType' /\ EnvironmentHasType' /\ InputsHaveTypes'
  <2>1. UNCHANGED <<evidenceVars, environment>>
    BY <1>5 DEF UpdatePlanStatus
  <2>2. \/ plan' = plan
        \/ \E status \in {"READY", "BLOCKED"} : plan' = [plan EXCEPT !.status = status, !.fresh = checker[c].fresh]
    BY <1>5 DEF UpdatePlanStatus
  <2>3. PlanHasType'
    BY <1>1, <2>2 DEF PlanHasType, RowStatuses
  <2>4. QED
    BY <1>3, <2>1, <2>3 DEF EnvironmentHasType
<1>6. CASE CreateAssessment \/ StartPlan
  <2>1. UNCHANGED <<evidenceVars, environment>>
    BY <1>6 DEF CreateAssessment, StartPlan
  <2>2. CASE CreateAssessment
    <3>1. PICK others \in {{}, {"another"}} :
            plan' = [plan EXCEPT !.status = "DRAFT", !.assessed = TRUE,
                       !.blockers = others \cup RequiredDependencyRule(application.inventory)]
      BY <2>2 DEF CreateAssessment
    <3>2. others \cup RequiredDependencyRule(application.inventory) \subseteq {"DEPENDENCY_REQUIRED_MISSING", "another"}
      BY DEF RequiredDependencyRule
    <3>3. QED
      BY <1>3, <2>1, <3>1, <3>2 DEF PlanHasType, RowStatuses, EnvironmentHasType
  <2>3. CASE StartPlan
    BY <1>3, <2>1, <2>3 DEF StartPlan, PlanHasType, RowStatuses, EnvironmentHasType
  <2>4. QED
    BY <1>6, <2>2, <2>3
<1>7. ASSUME Outdated PROVE PlanHasType' /\ UNCHANGED target
  <2>1. plan' = [plan EXCEPT !.fresh = FALSE, !.assessed = plan.assessed /\ application' = application]
    BY <1>7 DEF Outdated
  <2>2. (plan.assessed /\ application' = application) \in BOOLEAN
    OBVIOUS
  <2>3. QED
    BY <1>7, <2>1, <2>2 DEF Outdated, PlanHasType, observedVars
<1>8. ASSUME NEW side \in {"source", "target"}, NEW capabilities, EnvironmentChanges(side, capabilities),
             environment[side] \in Environments(capabilities)
      PROVE  InputsHaveTypes' /\ \E value \in Environments(capabilities) : environment' = [environment EXCEPT ![side] = value]
  <2>1. Changed /\ Outdated /\ UNCHANGED <<application, profile>>
    BY <1>8 DEF EnvironmentChanges
  <2>2. InputsHaveTypes'
    BY <1>2, <1>7, <2>1, ChangesAreCounted, OnlyChangesAreCounted DEF InputsHaveTypes
  <2>3. PICK found \in capabilities \cup {environment[side].capabilities}, connected \in BOOLEAN :
          environment' = [environment EXCEPT ![side] = [connected |-> connected, capabilities |-> found]]
    BY <1>8 DEF EnvironmentChanges
  <2>4. found \in capabilities \cup {NoCapabilities}
    BY <1>8 DEF Environments
  <2>5. [connected |-> connected, capabilities |-> found] \in Environments(capabilities)
    BY <2>4 DEF Environments
  <2>6. QED
    BY <2>2, <2>3, <2>5
<1>9. CASE EnvironmentChanges("source", SourceCapabilities)
  <2>1. environment.source \in Environments(SourceCapabilities) /\ environment["source"] = environment.source
    BY DEF EnvironmentHasType
  <2>2. PICK value \in Environments(SourceCapabilities) : environment' = [environment EXCEPT !.source = value]
    BY <1>8, <1>9, <2>1
  <2>3. QED
    BY <1>7, <1>8, <1>9, <2>1, <2>2 DEF EnvironmentChanges, EnvironmentHasType
<1>10. CASE EnvironmentChanges("target", TargetCapabilities)
  <2>1. environment.target \in Environments(TargetCapabilities) /\ environment["target"] = environment.target
    BY DEF EnvironmentHasType
  <2>2. PICK value \in Environments(TargetCapabilities) : environment' = [environment EXCEPT !.target = value]
    BY <1>8, <1>10, <2>1
  <2>3. QED
    BY <1>7, <1>8, <1>10, <2>1, <2>2 DEF EnvironmentChanges, EnvironmentHasType
<1>11. CASE InventoryNext /\ Outdated /\ UNCHANGED environment
  BY <1>2, <1>7, <1>11, InventoryKeepsTypes DEF InputsHaveTypes, EnvironmentHasType
<1>12. QED
  BY <1>4, <1>5, <1>6, <1>9, <1>10, <1>11 DEF PlanNext

ConsoleTypes == watched \in Watched /\ InputsHaveTypes /\ PlanHasType /\ EnvironmentHasType

LEMMA InitConsoleTypes ==
  ASSUME ConsoleInit PROVE ConsoleTypes
<1>1. InventoryInit /\ target = {} /\ watched \in Watched
  BY DEF ConsoleInit, PlanInit, EvidenceInit
<1>2. PICK type \in ApplicationTypes, selection \in Selections \cup {{}} :
        /\ application = [type |-> type, selection |-> selection,
                          inventory |-> IF selection = {} THEN Preview({}) ELSE FilterInventory(Preview({}), selection)]
        /\ IsDiscovery(selection, application.inventory)
  BY <1>1 DEF InventoryInit
<1>3. IsOfSource(application.inventory)
  BY <1>2, DiscoveriesAreOfSource
<1>4. profile \in Profiles /\ changes \in 0..MaxChanges
  BY <1>1, InventoryAssumption DEF InventoryInit
<1>5. InputsHaveTypes
  BY <1>1, <1>2, <1>3, <1>4 DEF InputsHaveTypes, InventoryTypeOK, IsOfSource, SourceIds
<1>6. PlanHasType /\ EnvironmentHasType
  BY DEF ConsoleInit, PlanInit, PlanHasType, EnvironmentHasType, RowStatuses
<1>7. QED
  BY <1>1, <1>5, <1>6 DEF ConsoleTypes

LEMMA ConsoleKeepsTypes ==
  ASSUME ConsoleTypes, EvidenceShape, PlanShape, [ConsoleNext]_consoleVars
  PROVE  ConsoleTypes'
<1>1. InputsHaveTypes /\ PlanHasType /\ EnvironmentHasType /\ watched \in Watched /\ IsApplication /\ DOMAIN view = Viewers
  BY DEF ConsoleTypes, EvidenceShape, PlanShape, IsApplication
<1>2. CASE UNCHANGED <<evidenceVars, planVars, watched>>
  BY <1>1, <1>2 DEF ConsoleTypes, InputsHaveTypes, InventoryTypeOK, IsDiscovery, PlanHasType, EnvironmentHasType,
                    evidenceVars, inventoryVars, observedVars, planVars
<1>3. CASE watched = "evidence" /\ EvidenceNext /\ UNCHANGED <<vars, planVars, watched>>
  BY <1>1, <1>3, EvidenceKeepsInputs DEF ConsoleTypes, PlanHasType, EnvironmentHasType, planVars
<1>4. CASE watched = "plan" /\ PlanNext /\ UNCHANGED <<vars, watched>>
  BY <1>1, <1>4, PlanKeepsTypes DEF ConsoleTypes
<1>5. QED
  BY <1>2, <1>3, <1>4 DEF ConsoleNext, consoleVars

\* Rows, requests, evidence and preflights keep their types, whatever events are
\* committed, lists fail and clusters change: what a selection stored is never empty,
\* and nothing but an object of the source is ever listed.
THEOREM ConsoleTypesHold == ConsoleSpec => []ConsoleTypeOK
<1> DEFINE Shapes == EvidenceShape /\ EvidenceInvariant
           Checks == PlanShape /\ PlanInvariant
           Streams == StreamTypeOK /\ StreamInvariant
<1>1. ConsoleInit => ConsoleTypes
  BY InitConsoleTypes
<1>2. ConsoleTypes /\ Shapes /\ Checks /\ [ConsoleNext]_consoleVars => ConsoleTypes'
  BY ConsoleKeepsTypes
<1>3. ConsoleTypes /\ Shapes /\ Checks /\ Streams => ConsoleTypeOK
  <2> SUFFICES ASSUME ConsoleTypes, EvidenceShape, PlanShape, StreamTypeOK PROVE ConsoleTypeOK
    OBVIOUS
  <2>1. InventoryTypeOK /\ target \in Targets[application.type] \cup {{}}
    BY DEF ConsoleTypes, InputsHaveTypes
  <2>2. DOMAIN view = Viewers /\ \A v \in Viewers : view[v].at \in ViewStages /\ view[v].status \in RunStages
    BY DEF EvidenceShape, IsRequest
  <2>3. EvidenceTypeOK
    BY <2>1, <2>2 DEF EvidenceTypeOK, EvidenceShape, RunHasType, IsRow, AreNodes
  <2>4. PlanTypeOK
    BY DEF PlanTypeOK, ConsoleTypes, PlanHasType, RowStatuses, EnvironmentHasType, PlanShape, IsChecker
  <2>5. QED
    BY <2>3, <2>4 DEF ConsoleTypeOK, ConsoleTypes
<1> HIDE DEF Shapes, Checks, Streams
<1>4. ConsoleSpec => []Shapes
  BY EvidenceIsConsistent DEF Shapes
<1>5. ConsoleSpec => []Checks
  BY ChecksAreConsistent DEF Checks
<1>6. ConsoleSpec => []Streams
  BY StreamIsConsistent DEF Streams
<1>7. QED
  BY <1>1, <1>2, <1>3, <1>4, <1>5, <1>6, PTL DEF ConsoleSpec

-----------------------------------------------------------------------------
(***************************************************************************)
(* Reconciliation of a Compose project by a refresh.                       *)
(***************************************************************************)
\* The plan of a project has nothing that an observation could leave unsaid.
ComposeKinds == {"Deployment", "Service", "PersistentVolumeClaim"}
NodeFields == {"id", "required", "status", "attrs", "changes"}
IsComposeNode(n) ==
  n = [f \in NodeFields |-> n[f]] /\ n.id.kind \in ComposeKinds /\ DOMAIN n.attrs \subseteq {"image"}

LEMMA ComposePlans == \A n \in BuildComposeTarget : IsComposeNode(n)
<1>1. \A kind \in ComposeKinds : \A item, required, attrs, changed :
        DOMAIN attrs \subseteq {"image"} => IsComposeNode(ComposeNode(kind, item, required, attrs, changed))
  BY DEF IsComposeNode, NodeFields, ComposeNode, Node, Id
<1>2. \A value : DOMAIN [attribute \in {"image"} |-> value] \subseteq {"image"}
  OBVIOUS
<1>3. DOMAIN << >> \subseteq {"image"}
  OBVIOUS
<1>4. "Deployment" \in ComposeKinds /\ "Service" \in ComposeKinds /\ "PersistentVolumeClaim" \in ComposeKinds
  BY DEF ComposeKinds
<1>5. ASSUME NEW n \in BuildComposeTarget
      PROVE  \E kind \in ComposeKinds : \E item, required, attrs, changed :
               DOMAIN attrs \subseteq {"image"} /\ n = ComposeNode(kind, item, required, attrs, changed)
  BY <1>2, <1>3, <1>4 DEF BuildComposeTarget
<1>6. QED
  BY <1>1, <1>5

\* What an observed node tells: the attributes of an object, or nothing.
Shows(node, o) ==
  /\ node.id = IdOf(o)
  /\ o.kind = "Deployment" =>
       /\ "replicas" \in DOMAIN node.attrs => node.attrs["replicas"] = o.fields["replicas"]
       /\ "availableReplicas" \in DOMAIN node.attrs => node.attrs["availableReplicas"] = o.fields["availableReplicas"]
  /\ IsClaim(o) => node.attrs["phase"] = o.fields["phase"]

HaveNames(objects) == \A o, p \in objects : IdOf(o) = IdOf(p) => o = p

LEMMA ListedNodesShow ==
  ASSUME NEW objects, HaveNames(objects), NEW o \in objects
  PROVE  Shows(Node(IdOf(o), TRUE, "CREATED", WithVolume(ResourceSummary(o), BuildInventory(objects))), o)
<1> DEFINE inventory == BuildInventory(objects)
           summary == ResourceSummary(o)
           volumes == {v \in inventory.volumes : v.id = IdOf(o)}
<1>1. /\ summary.id = IdOf(o)
      /\ \A f \in DOMAIN summary.attrs : summary.attrs[f] = o.fields[f]
  BY DEF ResourceSummary
<1>2. inventory.volumes = {VolumeSummary(c) : c \in {c \in objects : IsClaim(c)}}
  BY DEF BuildInventory
<1>3. \A c \in objects : VolumeSummary(c).id = IdOf(c)
  BY DEF VolumeSummary
<1>4. volumes = IF IsClaim(o) THEN {VolumeSummary(o)} ELSE {}
  BY <1>2, <1>3 DEF HaveNames
<1> DEFINE attrs == WithVolume(summary, inventory)
<1>5. CASE IsClaim(o)
  <2>1. attrs = MergeAttributes(summary.attrs, VolumeSummary(o).attrs)
    BY <1>1, <1>4, <1>5 DEF WithVolume
  <2>2. "phase" \in DOMAIN VolumeSummary(o).attrs /\ VolumeSummary(o).attrs["phase"] = o.fields["phase"]
    BY DEF VolumeSummary, VolumeFields
  <2> HIDE DEF attrs, summary
  <2>3. attrs["phase"] = o.fields["phase"]
    BY <2>1, <2>2 DEF MergeAttributes
  <2>4. QED
    BY <1>5, <2>3 DEF Shows, Node, IsClaim, attrs, summary
<1>6. CASE ~IsClaim(o)
  <2>1. attrs = summary.attrs
    BY <1>1, <1>4, <1>6 DEF WithVolume
  <2> HIDE DEF summary
  <2>2. QED
    BY <1>1, <1>6, <2>1 DEF Shows, Node, summary
<1>7. QED
  BY <1>5, <1>6

LEMMA ObservedNodesShow ==
  ASSUME NEW objects, HaveNames(objects), NEW a \in GraphFromInventory(BuildInventory(objects), "CREATED")
  PROVE  \/ \E o \in objects : Shows(a, o)
         \/ a.attrs = << >> /\ \E d \in BuildInventory(objects).dependencies : d.to = a.id
<1> DEFINE inventory == BuildInventory(objects)
           listed == {Node(r.id, TRUE, "CREATED", WithVolume(r, inventory)) : r \in inventory.resources}
           others == {d.to : d \in inventory.dependencies} \ {n.id : n \in listed}
<1>1. CASE a \in listed
  <2>1. PICK r \in inventory.resources : a = Node(r.id, TRUE, "CREATED", WithVolume(r, inventory))
    BY <1>1
  <2>2. PICK o \in objects : r = ResourceSummary(o)
    BY <2>1 DEF BuildInventory
  <2>3. r.id = IdOf(o)
    BY <2>2 DEF ResourceSummary
  <2>4. QED
    BY <2>1, <2>2, <2>3, ListedNodesShow
<1>2. CASE a \notin listed
  <2>1. PICK id \in others : \E required : a = Node(id, required, "CREATED", << >>)
    BY <1>2 DEF GraphFromInventory
  <2>2. a.id = id /\ a.attrs = << >>
    BY <2>1 DEF Node
  <2>3. QED
    BY <2>1, <2>2
<1>3. QED
  BY <1>1, <1>2

\* An Ingress may name a Service that is missing, and the node its name leaves
\* is taken for the Service; but no plan of a project has an Ingress.
Listed(failing) == CoreObjects(target, failing) \cup CustomObjects(target, failing)
ListsNoIngress(failing) == \A o \in Listed(failing) : o.kind # "Ingress"

LEMMA DependenciesAreOfObjects ==
  ASSUME NEW objects, NEW d \in BuildInventory(objects).dependencies
  PROVE  (\E o \in objects : d \in ObjectDependencies(o)) \/ (\E o \in objects : d.to = IdOf(o))
<1>1. BuildInventory(objects).dependencies = (UNION {ObjectDependencies(o) : o \in objects}) \cup SelectorDependencies(objects)
  BY DEF BuildInventory
<1>2. CASE d \in SelectorDependencies(objects)
  <2>1. PICK pair \in objects \X objects : d = Dependency(pair[1], IdOf(pair[2]), TRUE)
    BY <1>2 DEF SelectorDependencies
  <2>2. d.to = IdOf(pair[2]) /\ pair[2] \in objects
    BY <2>1 DEF Dependency
  <2>3. QED
    BY <2>2
<1>3. QED
  BY <1>1, <1>2

\* A planned node that a refresh finds healthy stands for an object that is ready.
LEMMA HealthyNodesAreReady ==
  ASSUME application.type = "DOCKER_COMPOSE", InputsHaveTypes, NEW n, IsComposeNode(n), NEW failing, ListsNoIngress(failing),
         MergedNode(n, GraphFromInventory(DiscoverNamespace(target, failing), "CREATED"), "FAILED").status = "SUCCEEDED"
  PROVE  \E o \in target : IdOf(o) = n.id /\ IsReady(o)
<1> DEFINE objects == Listed(failing)
           observed == GraphFromInventory(BuildInventory(objects), "CREATED")
           found == {a \in observed : a.id = n.id}
           actual == CHOOSE a \in found : TRUE
           merged == [n EXCEPT !.attrs = MergeAttributes(n.attrs, actual.attrs)]
           status == IF \E c \in n.changes : ~MappingAppearsApplied(c, actual) THEN "FAILED"
                     ELSE StatusOfExisting(merged, "FAILED")
<1>1. /\ objects \subseteq target /\ observed = GraphFromInventory(DiscoverNamespace(target, failing), "CREATED")
      /\ target \in Targets["DOCKER_COMPOSE"] \cup {{}} /\ \A o \in objects : o.kind # "Ingress"
  BY DEF Listed, ListsNoIngress, CoreObjects, CustomObjects, DiscoverNamespace, InputsHaveTypes
<1>2. /\ HaveNames(objects) /\ \A o \in target : o.kind = "Deployment" => o.fields["replicas"] \in Nat
      /\ \A o \in target : \A d \in ObjectDependencies(o) : d.to.kind = "Service" => o.kind = "Ingress"
  <2>1. "DOCKER_COMPOSE" \in ApplicationTypes
    BY DEF ApplicationTypes
  <2>2. CASE target = {}
    BY <1>1, <2>2 DEF HaveNames
  <2>3. CASE target \in Targets["DOCKER_COMPOSE"]
    BY <1>1, <2>1, <2>3, ObjectAssumption, ReferenceAssumption DEF HaveNames
  <2>4. QED
    BY <1>1, <2>2, <2>3
<1> HIDE DEF objects
<1>3. MergedNode(n, observed, "FAILED") =
        IF found = {} THEN [n EXCEPT !.status = IF IsConclusive("FAILED") THEN "MISSING" ELSE n.status]
        ELSE [merged EXCEPT !.status = status]
  BY DEF MergedNode
<1>4. /\ merged.id = n.id /\ merged.attrs = MergeAttributes(n.attrs, actual.attrs) /\ "status" \in DOMAIN merged
      /\ "status" \in DOMAIN n /\ DOMAIN n.attrs \subseteq {"image"} /\ n.id.kind \in ComposeKinds
  BY DEF IsComposeNode, NodeFields
<1>5. IsConclusive("FAILED")
  BY DEF IsConclusive, IsTerminal
<1>6. found # {} /\ CurrentlyHealthy(merged)
  <2> HIDE DEF merged, found, observed, status
  <2>1. MergedNode(n, observed, "FAILED").status = "SUCCEEDED"
    BY <1>1
  <2>2. found # {}
    BY <1>3, <1>4, <1>5, <2>1
  <2>3. status = "SUCCEEDED"
    BY <1>3, <1>4, <2>1, <2>2
  <2>4. StatusOfExisting(merged, "FAILED") = "SUCCEEDED"
    BY <2>3 DEF status
  <2>5. QED
    BY <2>2, <2>4 DEF StatusOfExisting
<1>7. actual \in observed /\ actual.id = n.id
  BY <1>6
<1> HIDE DEF actual, merged, observed, found, status
<1>8. \A f \in {"replicas", "availableReplicas", "phase"} :
        /\ f \in DOMAIN merged.attrs <=> f \in DOMAIN actual.attrs
        /\ f \in DOMAIN merged.attrs => merged.attrs[f] = actual.attrs[f]
  BY <1>4 DEF MergeAttributes
<1>9. n.id.kind = "Deployment" => Number(merged, "availableReplicas") >= Number(merged, "replicas") /\ Number(merged, "replicas") > 0
  BY <1>4, <1>6 DEF CurrentlyHealthy
<1>10. n.id.kind = "PersistentVolumeClaim" => "phase" \in DOMAIN merged.attrs /\ merged.attrs["phase"] = "Bound"
  BY <1>4, <1>6 DEF CurrentlyHealthy
<1>11. CASE \E o \in objects : Shows(actual, o)
  <2>1. PICK o \in objects : Shows(actual, o)
    BY <1>11
  <2>2. o \in target /\ IdOf(o) = n.id /\ o.kind = n.id.kind
    BY <1>1, <1>7, <2>1 DEF Shows, IdOf, Id
  <2>3. CASE n.id.kind = "Deployment"
    <3>1. "replicas" \in DOMAIN merged.attrs /\ o.fields["replicas"] \in Nat /\ o.fields["replicas"] > 0
      BY <1>2, <1>8, <1>9, <2>1, <2>2, <2>3 DEF Number, Shows
    <3>2. "availableReplicas" \in DOMAIN merged.attrs
      BY <1>8, <1>9, <2>1, <2>2, <2>3, <3>1 DEF Number, Shows
    <3>3. o.fields["availableReplicas"] >= o.fields["replicas"]
      BY <1>8, <1>9, <2>1, <2>2, <2>3, <3>1, <3>2 DEF Number, Shows
    <3>4. IsReady(o)
      BY <2>2, <2>3, <3>3 DEF IsReady, IsClaim
    <3>5. QED
      BY <2>2, <3>4
  <2>4. CASE n.id.kind = "PersistentVolumeClaim"
    BY <1>8, <1>10, <2>1, <2>2, <2>4 DEF IsReady, IsClaim, Shows
  <2>5. CASE n.id.kind = "Service"
    BY <2>2, <2>5 DEF IsReady, IsClaim
  <2>6. QED
    BY <1>4, <2>3, <2>4, <2>5 DEF ComposeKinds
<1>12. CASE actual.attrs = << >> /\ \E d \in BuildInventory(objects).dependencies : d.to = actual.id
  <2>1. \A f \in {"replicas", "phase"} : f \notin DOMAIN merged.attrs
    BY <1>8, <1>12
  <2>2. n.id.kind = "Service"
    BY <1>4, <1>9, <1>10, <2>1 DEF Number, ComposeKinds
  <2>3. PICK d \in BuildInventory(objects).dependencies : d.to = n.id
    BY <1>7, <1>12
  <2>4. (\E o \in objects : d \in ObjectDependencies(o)) \/ (\E o \in objects : d.to = IdOf(o))
    BY DependenciesAreOfObjects
  <2>5. PICK p \in target : IdOf(p) = n.id
    BY <1>1, <1>2, <2>2, <2>3, <2>4
  <2>6. p.kind = "Service"
    BY <2>2, <2>5 DEF IdOf, Id
  <2>7. QED
    BY <2>5, <2>6 DEF IsReady, IsClaim
<1>13. QED
  BY <1>2, <1>7, <1>11, <1>12, ObservedNodesShow DEF observed

\* What is listed and was not planned is degraded.
LEMMA HealthyTargetsHaveNoIngress ==
  ASSUME NEW expected, \A n \in expected : IsComposeNode(n), NEW failing,
         AllRequiredSucceeded(ObserveTarget(expected, "FAILED", failing))
  PROVE  ListsNoIngress(failing)
<1> DEFINE inventory == BuildInventory(Listed(failing))
           observed == GraphFromInventory(inventory, "CREATED")
           graph == MergeObservedTopology(expected, observed, "FAILED")
<1>1. AllRequiredSucceeded(graph)
  BY DEF ObserveTarget, DiscoverNamespace, Listed
<1>2. SUFFICES ASSUME NEW o \in Listed(failing), o.kind = "Ingress" PROVE FALSE
  BY DEF ListsNoIngress
<1> DEFINE a == Node(IdOf(o), TRUE, "CREATED", WithVolume(ResourceSummary(o), inventory))
           b == [a EXCEPT !.status = "WARNING"]
<1>3. ResourceSummary(o) \in inventory.resources /\ ResourceSummary(o).id = IdOf(o)
  BY DEF BuildInventory, ResourceSummary
<1>4. a \in observed
  <2> HIDE DEF inventory
  <2>1. QED
    BY <1>3 DEF GraphFromInventory
<1>5. a.id = IdOf(o) /\ a.id.kind = "Ingress" /\ b.required /\ b.status = "WARNING"
  BY <1>2 DEF Node, IdOf, Id
<1> HIDE DEF observed, inventory
<1>6. /\ \A n \in expected : n.id # a.id
      /\ ~IsMigrationHelperResource(a) /\ ~IsGeneratedClusterResource(a)
  <2> HIDE DEF a
  <2>1. QED
    BY <1>5, ReferenceAssumption DEF IsComposeNode, ComposeKinds, IsMigrationHelperResource, IsGeneratedClusterResource, Id
<1>7. b \in graph
  <2> HIDE DEF a
  <2>1. QED
    BY <1>4, <1>6 DEF MergeObservedTopology
<1> HIDE DEF graph, b
<1>8. QED
  BY <1>1, <1>5, <1>7 DEF AllRequiredSucceeded

LEMMA HealthyTargetsAreReady ==
  ASSUME application.type = "DOCKER_COMPOSE", InputsHaveTypes,
         NEW expected, \A n \in expected : IsComposeNode(n), NEW failing,
         AllRequiredSucceeded(ObserveTarget(expected, "FAILED", failing))
  PROVE  AllReady(expected)
<1> DEFINE observed == GraphFromInventory(DiscoverNamespace(target, failing), "CREATED")
           graph == MergeObservedTopology(expected, observed, "FAILED")
<1>1. AllRequiredSucceeded(graph)
  BY DEF ObserveTarget
<1>2. \A n \in expected : MergedNode(n, observed, "FAILED") \in graph
  BY DEF MergeObservedTopology
<1>3. ASSUME NEW n \in expected, n.required PROVE MergedNode(n, observed, "FAILED").status = "SUCCEEDED"
  <2> DEFINE m == MergedNode(n, observed, "FAILED")
  <2>1. m.required = n.required /\ m.status # "SKIPPED"
    <3>1. n = [f \in NodeFields |-> n[f]]
      BY DEF IsComposeNode
    <3>2. \A x : StatusOfExisting(x, "FAILED") \in {"SUCCEEDED", "WARNING"}
      BY DEF StatusOfExisting
    <3>3. IsConclusive("FAILED")
      BY DEF IsConclusive, IsTerminal
    <3> HIDE DEF observed
    <3>4. QED
      BY <3>1, <3>2, <3>3 DEF MergedNode, NodeFields
  <2> HIDE DEF m
  <2>2. m \in graph
    BY <1>2 DEF m
  <2> HIDE DEF graph
  <2>3. QED
    BY <1>1, <1>3, <2>1, <2>2 DEF AllRequiredSucceeded, m
<1> HIDE DEF graph
<1>4. QED
  BY <1>3, HealthyNodesAreReady, HealthyTargetsHaveNoIngress DEF AllReady

\* A refresh that would reconcile a failed run with what it has observed.
MayReconcile(r) ==
  /\ r.by = "refresh"
  /\ r.at = "reconcile" \/ (r.at \in {"store", "steps"} /\ r.status = "FAILED" /\ r.observed.healthy)

RefreshStages == {"refresh", "application", "profile", "current", "store", "steps", "reconcile"}

RefreshIsSound(v) ==
  /\ view[v].by = "refresh" => view[v].at \in RefreshStages
  /\ application.type = "DOCKER_COMPOSE" =>
       /\ MayReconcile(view[v]) => view[v].observed.proved
       /\ view[v].at = "current" => \A n \in view[v].row.graph : IsComposeNode(n)
RefreshesAreSound == \A v \in Viewers : RefreshIsSound(v)

\* What a step of a request has to keep.
LEMMA RequestKeepsRefreshes ==
  ASSUME EvidenceShape, RefreshesAreSound, application'.type = application.type,
         NEW v \in Viewers, NEW value, Sees(v, value),
         value.by = "refresh" => value.at \in RefreshStages,
         application.type = "DOCKER_COMPOSE" =>
           /\ MayReconcile(value) => value.observed.proved
           /\ value.at = "current" => \A n \in value.row.graph : IsComposeNode(n)
  PROVE  RefreshesAreSound'
<1>1. /\ view'[v] = value
      /\ \A u \in Viewers : u # v => view'[u] = view[u]
  BY DEF Sees, EvidenceShape
<1>2. ASSUME NEW u \in Viewers PROVE RefreshIsSound(u)'
  <2>1. CASE u = v
    BY <1>1, <2>1 DEF RefreshIsSound, MayReconcile
  <2>2. CASE u # v
    BY <1>1, <2>2 DEF RefreshesAreSound, RefreshIsSound, MayReconcile
  <2>3. QED
    BY <2>1, <2>2
<1>3. QED
  BY <1>2 DEF RefreshesAreSound

LEMMA NothingIsRefreshed ==
  /\ NoView.by = "none" /\ Done.by = "none" /\ Done.at = "done"
  /\ \A op : /\ Goes(op).by = "refresh" => Goes(op).at = "refresh"
             /\ Goes(op).at \in {"refresh", "done"}
BY DEF Done, NoView, Goes

LEMMA RequestsKeepRefreshes ==
  ASSUME EvidenceShape, RefreshesAreSound, InputsHaveTypes,
         application'.type = application.type, NEW v \in Viewers,
         View(v) \/ SaveTopologyEvidence(v) \/ RequestFails(v)
  PROVE  RefreshesAreSound'
<1>1. RefreshIsSound(v) /\ IsRequest(view[v])
  BY DEF RefreshesAreSound, EvidenceShape
\* A request that does not observe, store or decide anything here.
<1>2. ASSUME NEW value, Sees(v, value), value.at \notin {"current", "store", "steps", "reconcile"},
             value.by = "refresh" => value.at \in RefreshStages
      PROVE  RefreshesAreSound'
  BY <1>2, RequestKeepsRefreshes DEF MayReconcile
<1>3. CASE Sees(v, Done) \/ \E op : Sees(v, Goes(op))
  BY <1>2, <1>3, NothingIsRefreshed DEF RefreshStages
<1>4. ASSUME NEW op, OpenTopology(v, op) PROVE RefreshesAreSound'
  <2> DEFINE opened == [NoView EXCEPT !.op = op, !.by = "topology"]
             stored == StoredObservation(topology)
             row == IF topology.found THEN [topology EXCEPT !.inside = stored] ELSE NoTopology
             resolves == [opened EXCEPT !.at = "resolve", !.row = row]
             shown == [opened EXCEPT !.at = "stored", !.observed = stored]
  <2>1. Sees(v, resolves) \/ Sees(v, shown) \/ Sees(v, Goes(op))
    BY <1>4 DEF OpenTopology
  <2>2. resolves.by = "topology" /\ resolves.at = "resolve" /\ shown.by = "topology" /\ shown.at = "stored"
    BY DEF NoView
  <2> HIDE DEF resolves, shown
  <2>3. QED
    BY <1>2, <1>3, <2>1, <2>2
<1>5. ASSUME GetRun(v) PROVE RefreshesAreSound'
  <2> DEFINE at == IF view[v].at = "stored" THEN "steps"
                   ELSE IF view[v].at = "resolve" /\ view[v].row.found THEN "observe" ELSE "application"
             value == [view[v] EXCEPT !.status = run.status, !.at = at]
  <2>1. Sees(v, value) /\ view[v].at \in {"resolve", "refresh", "stored"}
    BY <1>5 DEF GetRun
  <2>2. /\ value.by = view[v].by /\ value.at = at
        /\ view[v].by = "refresh" => view[v].at = "refresh"
    BY <1>1, <2>1 DEF IsRequest, RefreshIsSound, RefreshStages
  <2> HIDE DEF value
  <2>3. QED
    BY <2>1, <2>2, RequestKeepsRefreshes DEF MayReconcile, RefreshStages
<1>6. ASSUME GetApplication(v) PROVE RefreshesAreSound'
  <2> DEFINE value == [view[v] EXCEPT !.at = "profile", !.inventory = application.inventory]
  <2>1. Sees(v, value)
    BY <1>6 DEF GetApplication
  <2>2. value.at = "profile"
    BY <1>1 DEF IsRequest
  <2> HIDE DEF value
  <2>3. QED
    BY <1>2, <2>1, <2>2 DEF RefreshStages
<1>7. ASSUME ResolveMappingProfile(v) PROVE RefreshesAreSound'
  <2> DEFINE at == IF view[v].by = "refresh" THEN "current" ELSE "observe"
             value == [view[v] EXCEPT !.at = at, !.row.graph = Planned(view[v].inventory),
                                      !.inventory = NoInventory]
  <2>1. Sees(v, value)
    BY <1>7 DEF ResolveMappingProfile
  <2>2. value.by = view[v].by /\ value.at = at /\ value.row.graph = Planned(view[v].inventory)
    BY <1>1 DEF IsRequest, IsRow
  <2>3. application.type = "DOCKER_COMPOSE" => \A n \in Planned(view[v].inventory) : IsComposeNode(n)
    BY ComposePlans DEF Planned
  <2> HIDE DEF value
  <2>4. QED
    BY <2>1, <2>2, <2>3, RequestKeepsRefreshes DEF MayReconcile, RefreshStages
<1>8. ASSUME Observe(v) \/ ApplyEvents(v) PROVE RefreshesAreSound'
  <2> DEFINE changed(at, row) == [view[v] EXCEPT !.at = at, !.row = row]
             sight(at, graph, inside) == [view[v] EXCEPT !.at = at, !.row.graph = graph, !.row.inside = inside]
             unseen(at, limited) == [view[v] EXCEPT !.at = at, !.row.limited = limited]
  <2>1. /\ \A at, graph, inside : sight(at, graph, inside) = changed(at, [view[v].row EXCEPT !.graph = graph, !.inside = inside])
        /\ \A at, limited : unseen(at, limited) = changed(at, [view[v].row EXCEPT !.limited = limited])
    BY <1>1 DEF IsRequest
  <2>2. \E at \in {"events", "save"} :
          (\E graph, inside : Sees(v, sight(at, graph, inside))) \/ (\E limited : Sees(v, unseen(at, limited)))
    <3>1. CASE Observe(v)
      <4>1. (\E graph, inside : Sees(v, sight("events", graph, inside))) \/ (\E limited : Sees(v, unseen("save", limited)))
        BY <3>1, Zenon DEF Observe
      <4>2. QED
        BY <4>1, Zenon
    <3>2. CASE ApplyEvents(v)
      <4>1. \E graph, inside : Sees(v, sight("save", graph, inside))
        BY <3>2, Zenon DEF ApplyEvents
      <4>2. QED
        BY <4>1, Zenon
    <3>3. QED
      BY <1>8, <3>1, <3>2
  <2> HIDE DEF sight, unseen
  <2>3. PICK at \in {"events", "save"} : \E row : Sees(v, changed(at, row))
    BY <2>1, <2>2
  <2>4. PICK row : Sees(v, changed(at, row))
    BY <2>3
  <2> DEFINE value == changed(at, row)
  <2>5. value.at = at /\ value.by = view[v].by /\ view[v].by # "refresh"
    BY <1>1, <1>8 DEF IsRequest, RefreshIsSound, RefreshStages, Observe, ApplyEvents
  <2>6. Sees(v, value)
    BY <2>4
  <2> HIDE DEF value
  <2>7. QED
    BY <1>2, <2>5, <2>6
<1>9. CASE SaveTopologyEvidence(v) \/ RequestFails(v)
  BY <1>3, <1>9 DEF SaveTopologyEvidence, RequestFails
<1>10. ASSUME RefreshTopology(v) PROVE RefreshesAreSound'
  <2> DEFINE expected == view[v].row.graph
             made(failing) == Observation(ObserveTarget(expected, view[v].status, failing), AllReady(expected))
             value(observed) == [view[v] EXCEPT !.at = "store", !.row = NoTopology, !.observed = observed]
  <2>1. PICK failing \in FailingLists : \E observed \in {NoObservation, made(failing)} : Sees(v, value(observed))
    BY <1>10 DEF RefreshTopology
  <2> PICK observed \in {NoObservation, made(failing)} : Sees(v, value(observed))
    BY <2>1
  <2>2. view[v].at = "current"
    BY <1>10 DEF RefreshTopology
  <2>3. ASSUME application.type = "DOCKER_COMPOSE", view[v].status = "FAILED", observed.healthy
        PROVE  observed.proved
    <3>1. observed = made(failing)
      BY <2>3 DEF NoObservation
    <3>2. /\ observed.proved = AllReady(expected)
          /\ observed.healthy = AllRequiredSucceeded(ObserveTarget(expected, view[v].status, failing))
      BY <3>1 DEF Observation
    <3>3. \A n \in expected : IsComposeNode(n)
      BY <1>1, <2>2, <2>3 DEF RefreshIsSound
    <3>4. QED
      BY <2>3, <3>2, <3>3, HealthyTargetsAreReady
  <2> DEFINE next == value(observed)
  <2>4. next.at = "store" /\ next.by = view[v].by /\ next.status = view[v].status /\ next.observed = observed
    BY <1>1 DEF IsRequest
  <2>5. Sees(v, next)
    OBVIOUS
  <2> HIDE DEF next
  <2>6. QED
    BY <2>3, <2>4, <2>5, RequestKeepsRefreshes DEF MayReconcile, RefreshStages
<1>11. ASSUME SaveCurrentTopologyObservation(v) PROVE RefreshesAreSound'
  <2> DEFINE value == [view[v] EXCEPT !.at = "steps"]
  <2>1. Sees(v, value) \/ Sees(v, Done)
    BY <1>11 DEF SaveCurrentTopologyObservation
  <2>2. /\ value.at = "steps" /\ value.by = view[v].by /\ value.status = view[v].status
        /\ value.observed = view[v].observed /\ view[v].at = "store"
    BY <1>1, <1>11 DEF IsRequest, SaveCurrentTopologyObservation
  <2> HIDE DEF value
  <2>3. QED
    BY <1>1, <1>3, <2>1, <2>2, RequestKeepsRefreshes DEF RefreshIsSound, MayReconcile, RefreshStages
<1>12. ASSUME ReconcileValidationResult(v) PROVE RefreshesAreSound'
  <2> DEFINE value == [view[v] EXCEPT !.at = "reconcile", !.status = "NONE"]
  <2>1. CASE ValidationFailureCanBeReconciled(view[v].status, run.failed, view[v].observed) /\ Sees(v, value)
    <3>1. /\ value.at = "reconcile" /\ value.by = view[v].by /\ value.observed = view[v].observed
          /\ view[v].at = "steps" /\ view[v].status = "FAILED" /\ view[v].observed.healthy
      BY <1>1, <1>12, <2>1 DEF IsRequest, ReconcileValidationResult, ValidationFailureCanBeReconciled
    <3> HIDE DEF value
    <3>2. QED
      BY <1>1, <2>1, <3>1, RequestKeepsRefreshes DEF RefreshIsSound, MayReconcile, RefreshStages
  <2>2. CASE Sees(v, AfterReconciliation(v))
    BY <1>3, <2>2 DEF AfterReconciliation
  <2>3. QED
    BY <1>12, <2>1, <2>2 DEF ReconcileValidationResult
<1>13. CASE ReconcileValidationSuccess(v)
  <2>1. \E value \in {AfterReconciliation(v), Done} : Sees(v, value)
    BY <1>13 DEF ReconcileValidationSuccess
  <2>2. QED
    BY <1>3, <2>1 DEF AfterReconciliation
<1>14. QED
  BY <1>4, <1>5, <1>6, <1>7, <1>8, <1>9, <1>10, <1>11, <1>12, <1>13 DEF View

\* Only the transaction that reconciles makes a failed run COMPLETED, and it moves
\* no request but its own.
LEMMA OnlyReconcilersComplete ==
  ASSUME EvidenceShape, EvidenceStep, NEW v \in Viewers, Reconciles(v)
  PROVE  view[v].at = "reconcile"
<1>1. run.status = "FAILED" /\ run'.status = "COMPLETED" /\ view'[v] # view[v]
  BY DEF Reconciles
<1>2. PICK u \in Viewers : ReconcileValidationSuccess(u)
  BY <1>1 DEF EvidenceStep, EvidenceNext, View, OpenTopology, GetRun, GetApplication, ResolveMappingProfile, Observe,
              ApplyEvents, SaveTopologyEvidence, RefreshTopology, SaveCurrentTopologyObservation,
              ReconcileValidationResult, RequestFails, Quiet, StartRun, RestoreTarget, TargetChanges, ValidateTarget,
              RestoreFails, CancelRun, ConfirmCutover, RestoreSource, RollbackEnds, RunBecomes, observedVars
<1>3. view[u].at = "reconcile" /\ \E value : view' = [view EXCEPT ![u] = value]
  BY <1>2 DEF ReconcileValidationSuccess, Sees
<1>4. QED
  BY <1>1, <1>3 DEF EvidenceShape

LEMMA ApplicationKeepsItsType ==
  ASSUME IsApplication, [ConsoleNext]_consoleVars PROVE application'.type = application.type
<1>1. UNCHANGED application \/ \E inventory : Upsert(inventory)
  <2>1. CASE EvidenceNext
    BY <2>1 DEF EvidenceNext, View, Arrives, OpenTopology, GetRun, GetApplication, ResolveMappingProfile, Observe,
                ApplyEvents, SaveTopologyEvidence, RefreshTopology, ReconcileValidationResult, Quiet,
                SaveCurrentTopologyObservation, ReconcileValidationSuccess, RequestFails, StartRun, RestoreTarget,
                TargetChanges, ValidateTarget, RestoreFails, CancelRun, ConfirmCutover, RestoreSource, RollbackEnds,
                RunBecomes, inventoryVars, InventoryNext, DiscoverSelected, DiscoverAll, UpdateProfile
  <2>2. CASE PlanNext
    BY <2>2 DEF PlanNext, CreateAssessment, BeginPreflight, ReadReference, UpdatePlanStatus, PreflightFails, StartPlan,
                EnvironmentChanges, evidenceVars, inventoryVars, InventoryNext, DiscoverSelected, DiscoverAll,
                UpdateProfile
  <2>3. CASE UNCHANGED <<evidenceVars, planVars, watched>>
    BY <2>3 DEF evidenceVars, inventoryVars
  <2>4. QED
    BY <2>1, <2>2, <2>3 DEF ConsoleNext, consoleVars
<1>2. QED
  BY <1>1 DEF Upsert, IsApplication

LEMMA StepKeepsRefreshes ==
  ASSUME EvidenceShape, RefreshesAreSound, InputsHaveTypes, IsApplication,
         [ConsoleNext]_consoleVars
  PROVE  RefreshesAreSound'
<1>1. application'.type = application.type /\ EvidenceStep /\ DOMAIN view = Viewers
  BY ApplicationKeepsItsType, ConsoleEvidenceStep DEF EvidenceShape
<1>2. CASE UNCHANGED view
  BY <1>1, <1>2 DEF RefreshesAreSound, RefreshIsSound, MayReconcile, IsComposeNode
<1>3. CASE \E v \in Viewers : View(v) \/ SaveTopologyEvidence(v) \/ RequestFails(v)
  BY <1>1, <1>3, RequestsKeepRefreshes
<1>4. UNCHANGED view \/ \E v \in Viewers : View(v) \/ SaveTopologyEvidence(v) \/ RequestFails(v)
  BY <1>1 DEF EvidenceStep, EvidenceNext, StartRun, RestoreTarget, TargetChanges, ValidateTarget, RestoreFails, CancelRun,
              ConfirmCutover, RestoreSource, RollbackEnds, RunBecomes
<1>5. QED
  BY <1>2, <1>3, <1>4

\* A refresh makes the run of a Compose project COMPLETED only if every planned
\* resource existed and was ready when it looked: whatever lists fail, whatever
\* becomes of the target, the mapping and the application in between.
THEOREM RefreshesProveComposeTargets == ConsoleSpec => RefreshProvesComposeTarget
<1> DEFINE Shapes == EvidenceShape /\ EvidenceInvariant
           Checks == PlanShape /\ PlanInvariant
<1>1. ConsoleInit => RefreshesAreSound
  BY NothingIsRefreshed DEF ConsoleInit, PlanInit, EvidenceInit, RefreshesAreSound, RefreshIsSound, MayReconcile, NoView
<1>2. RefreshesAreSound /\ ConsoleTypes /\ Shapes /\ Checks /\ [ConsoleNext]_consoleVars => RefreshesAreSound'
  BY StepKeepsRefreshes DEF ConsoleTypes, PlanShape, IsApplication
<1>3. ConsoleTypes /\ Shapes /\ Checks /\ [ConsoleNext]_consoleVars => ConsoleTypes'
  BY ConsoleKeepsTypes
<1>4. RefreshesAreSound /\ Shapes /\ [ConsoleNext]_consoleVars =>
        [\A v \in Viewers :
           Reconciles(v) /\ application.type = "DOCKER_COMPOSE" /\ view[v].by = "refresh" => ProvedBy(v)]_evidenceVars
  BY ConsoleEvidenceStep, OnlyReconcilersComplete DEF RefreshesAreSound, RefreshIsSound, MayReconcile, ProvedBy
<1> HIDE DEF Shapes, Checks
<1>5. ConsoleSpec => []Shapes /\ []Checks
  BY EvidenceIsConsistent, ChecksAreConsistent, PTL DEF Shapes, Checks
<1>6. ConsoleInit => ConsoleTypes
  BY InitConsoleTypes
<1>7. QED
  BY <1>1, <1>2, <1>3, <1>4, <1>5, <1>6, PTL DEF ConsoleSpec, RefreshProvesComposeTarget
=============================================================================
