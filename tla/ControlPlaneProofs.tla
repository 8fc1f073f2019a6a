------------------------- MODULE ControlPlaneProofs -------------------------
(***************************************************************************)
(* What holds of the listings, the soak harness, the integrity report and  *)
(* the retry schedules for every value of their constants.                 *)
(***************************************************************************)
EXTENDS KeysetListing, SoakHarness, IntegrityReport, Backoff, FiniteSetTheorems,
        WellFoundedInduction, TLAPS
-----------------------------------------------------------------------------
(* Numbers and recursive functions                                          *)

\* Every nonempty set of numbers has a least one.
LEMMA LeastNumber ==
    ASSUME NEW S \in SUBSET Nat, S # {}
    PROVE  \E k \in S : \A j \in S : k <= j
<1>. DEFINE Less == OpToRel(<, Nat)
<1>1. \E k \in S : \A j \in S : ~(<<j, k>> \in Less)
  BY Zenon, WFMin, NatLessThanWellFounded
<1>2. \A j, k \in Nat : <<j, k>> \in Less <=> j < k
  BY DEF OpToRel
<1>. HIDE DEF Less
<1>3. PICK k \in S : \A j \in S : ~(<<j, k>> \in Less)
  BY <1>1
<1>4. ASSUME NEW j \in S PROVE k <= j
  <2>1. j \in Nat /\ k \in Nat
    OBVIOUS
  <2>2. ~(j < k)
    BY Zenon, <1>2, <1>3, <2>1
  <2>. QED  BY <2>1, <2>2
<1>. QED  BY <1>4

\* Induction up to a bound: a set that has 0 and with each number the next
\* holds every number up to the bound.
LEMMA CountUp ==
    ASSUME NEW N \in Nat, NEW T, 0 \in T,
           \A n \in 0 .. N : n < N /\ n \in T => n + 1 \in T
    PROVE  \A n \in 0 .. N : n \in T
<1>. DEFINE S == {n \in 0 .. N : n \notin T}
<1>1. S \in SUBSET Nat
  OBVIOUS
<1>2. CASE S # {}
  <2>1. PICK k \in S : \A j \in S : k <= j
    BY Zenon, <1>1, <1>2, LeastNumber
  <2>2. k \in Nat /\ k # 0 /\ k <= N
    OBVIOUS
  <2>3. k - 1 \in 0 .. N /\ k - 1 < N /\ k - 1 \notin S
    BY <2>1, <2>2
  <2>4. k - 1 \in T
    BY <2>3
  <2>5. (k - 1) + 1 \in T
    BY <2>3, <2>4
  <2>. QED  BY <2>2, <2>5
<1>. QED  BY <1>2

\* The steps of a recursion over 1 .. N, and the functions it defines.
Steps(N, V) == [1 .. N -> [V -> V]]
Recurs(N, V, start, step) ==
    {f \in [0 .. N -> V] : f[0] = start /\ \A n \in 1 .. N : f[n] = step[n][f[n - 1]]}

\* A function defined step by step from a start exists.
LEMMA Recursion ==
    ASSUME NEW N \in Nat, NEW V, NEW start \in V, NEW step \in Steps(N, V)
    PROVE  \E f : f \in Recurs(N, V, start, step)
<1>. DEFINE Grows(f, n) == /\ f \in [0 .. n -> V] /\ f[0] = start
                           /\ \A m \in 1 .. n : f[m] = step[m][f[m - 1]]
            T == {n \in 0 .. N : \E f : Grows(f, n)}
<1>1. 0 \in T
  <2>. DEFINE f == [m \in 0 .. 0 |-> start]
  <2>1. Grows(f, 0)
    OBVIOUS
  <2>. HIDE DEF f, Grows
  <2>. QED  BY <2>1
<1>2. ASSUME NEW n \in 0 .. N, n < N, n \in T PROVE n + 1 \in T
  <2>1. PICK f : Grows(f, n)
    BY <1>2
  <2>. DEFINE last == step[n + 1][f[n]]
              g == [m \in 0 .. n + 1 |-> IF m = n + 1 THEN last ELSE f[m]]
  <2>2. n \in Nat /\ f[n] \in V /\ n + 1 \in 1 .. N
    BY <1>2, <2>1
  <2>3. last \in V
    BY <2>2 DEF Steps
  <2>4. /\ g \in [0 .. n + 1 -> V] /\ g[n + 1] = last
        /\ \A m \in 0 .. n : g[m] = f[m]
    <3>. HIDE DEF last
    <3>. QED  BY <2>1, <2>2, <2>3
  <2>. HIDE DEF g
  <2>5. ASSUME NEW m \in 1 .. n + 1 PROVE g[m] = step[m][g[m - 1]]
    <3>1. CASE m = n + 1
      <4>1. m - 1 = n /\ g[n] = f[n]
        BY <2>2, <2>4, <3>1
      <4>. QED  BY <2>4, <3>1, <4>1
    <3>2. CASE m \in 1 .. n
      <4>1. m \in 0 .. n /\ m - 1 \in 0 .. n
        BY <2>2, <3>2
      <4>2. g[m] = f[m] /\ g[m - 1] = f[m - 1]
        BY <2>4, <4>1
      <4>3. f[m] = step[m][f[m - 1]]
        BY <2>1, <3>2
      <4>. QED  BY <4>2, <4>3
    <3>. QED  BY <2>2, <3>1, <3>2
  <2>6. g[0] = start
    <3>1. f[0] = start /\ 0 \in 0 .. n
      BY <2>1, <2>2
    <3>. QED  BY <2>4, <3>1
  <2>7. Grows(g, n + 1)
    BY <2>4, <2>5, <2>6
  <2>8. n + 1 \in 0 .. N
    BY <2>2
  <2>. HIDE DEF Grows
  <2>. QED  BY <2>7, <2>8
<1>3. N \in T
  <2>. HIDE DEF T
  <2>1. N \in 0 .. N
    OBVIOUS
  <2>. QED  BY <1>1, <1>2, <2>1, CountUp
<1>. QED  BY <1>3 DEF Recurs

-----------------------------------------------------------------------------
(* Listings: following the cursors shows every row that stays, once         *)

LEMMA BottomIsLeast ==
    ASSUME NEW S \in SUBSET Nat, S # {}
    PROVE  Bottom(S) \in S /\ \A j \in S : Bottom(S) <= j
BY Zenon, LeastNumber DEF Bottom

LEMMA GreatestNumber ==
    ASSUME NEW S \in SUBSET Nat, IsFiniteSet(S), S # {}
    PROVE  \E k \in S : \A j \in S : j <= k
<1>. DEFINE Above(k) == {j \in S : j > k}
            ranks == {Cardinality(Above(k)) : k \in S}
<1>1. \A k \in S : IsFiniteSet(Above(k)) /\ Cardinality(Above(k)) \in Nat
  BY FS_Subset, FS_CardinalityType
<1>2. PICK r \in ranks : \A q \in ranks : r <= q
  <2>1. ranks \in SUBSET Nat /\ ranks # {}
    BY Zenon, <1>1
  <2>. HIDE DEF ranks
  <2>. QED  BY <2>1, LeastNumber
<1>3. PICK k \in S : r = Cardinality(Above(k))
  BY <1>2
<1>4. ASSUME NEW j \in S, j > k PROVE FALSE
  <2>0. j \in Nat /\ k \in Nat
    OBVIOUS
  <2>1. Above(j) \in SUBSET Above(k) /\ j \in Above(k) /\ j \notin Above(j)
    <3>1. ASSUME NEW x \in Above(j) PROVE x > k
      <4>1. x \in Nat /\ x > j
        OBVIOUS
      <4>. QED  BY <1>4, <2>0, <4>1
    <3>2. ~(j > j)
      BY <2>0
    <3>. QED  BY Zenon, <1>4, <3>1, <3>2
  <2>2. Cardinality(Above(j)) <= Cardinality(Above(k)) /\ Cardinality(Above(j)) # Cardinality(Above(k))
    BY <1>1, <2>1, FS_Subset
  <2>3. r <= Cardinality(Above(j))
    BY <1>2
  <2>. QED  BY <1>1, <1>3, <2>2, <2>3
<1>. QED  BY <1>4
-----------------------------------------------------------------------------
(* Pages: what ORDER BY ... DESC LIMIT n leaves out is behind what it shows, *)
(* and it leaves something out only when it shows n live.                    *)

LEMMA TopIsAhead ==
    ASSUME NEW live \in SUBSET Nat, IsFiniteSet(live), NEW n \in Nat,
           NEW k \in live, k \notin Top(live, n), NEW j \in Top(live, n)
    PROVE  k < j
<1>. DEFINE Above(x) == {y \in live : y > x}
<1>1. j \in live /\ Cardinality(Above(j)) < n /\ ~(Cardinality(Above(k)) < n)
  BY DEF Top
<1>2. IsFiniteSet(Above(j)) /\ Cardinality(Above(j)) \in Nat /\ Cardinality(Above(k)) \in Nat
  BY FS_Subset, FS_CardinalityType
<1>3. ASSUME k > j PROVE FALSE
  <2>1. Above(k) \in SUBSET Above(j)
    <3>1. ASSUME NEW x \in Above(k) PROVE x > j
      <4>1. x \in Nat /\ x > k /\ j \in Nat /\ k \in Nat
        BY <1>1
      <4>. QED  BY <1>3, <4>1
    <3>. QED  BY Zenon, <3>1
  <2>2. Cardinality(Above(k)) <= Cardinality(Above(j))
    BY <1>2, <2>1, FS_Subset
  <2>. QED  BY <1>1, <1>2, <2>2
<1>. QED  BY <1>1, <1>3

LEMMA TopIsNotEmpty ==
    ASSUME NEW live \in SUBSET Nat, IsFiniteSet(live), live # {}, NEW n \in Nat \ {0}
    PROVE  Top(live, n) # {}
<1>1. PICK k \in live : \A j \in live : j <= k
  BY GreatestNumber
<1>2. {j \in live : j > k} = {}
  <2>1. ASSUME NEW j \in live PROVE ~(j > k)
    <3>1. j \in Nat /\ k \in Nat /\ j <= k
      BY <1>1
    <3>. QED  BY <3>1
  <2>. QED  BY Zenon, <2>1
<1>3. Cardinality({j \in live : j > k}) < n
  BY <1>2, FS_EmptySet
<1>. QED  BY <1>3 DEF Top

LEMMA TopOfFew ==
    ASSUME NEW live \in SUBSET Nat, IsFiniteSet(live), NEW n \in Nat, Cardinality(live) <= n
    PROVE  Top(live, n) = live
<1>. SUFFICES ASSUME NEW k \in live PROVE Cardinality({j \in live : j > k}) < n
  BY Zenon DEF Top
<1>. DEFINE above == {j \in live : j > k}
<1>1. above \in SUBSET live /\ k \notin above
  OBVIOUS
<1>2. Cardinality(above) <= Cardinality(live) /\ Cardinality(above) # Cardinality(live)
  BY <1>1, FS_Subset
<1>3. Cardinality(above) \in Nat /\ Cardinality(live) \in Nat
  BY <1>1, FS_Subset, FS_CardinalityType
<1>. QED  BY <1>2, <1>3

LEMMA ShortTopIsAll ==
    ASSUME NEW live \in SUBSET Nat, IsFiniteSet(live), NEW n \in Nat,
           Cardinality(Top(live, n)) < n
    PROVE  Top(live, n) = live
<1>. SUFFICES ASSUME live \ Top(live, n) # {} PROVE FALSE
  BY DEF Top
<1>1. live \ Top(live, n) \in SUBSET Nat /\ IsFiniteSet(live \ Top(live, n))
      /\ Top(live, n) \in SUBSET live /\ IsFiniteSet(Top(live, n))
  <2>1. Top(live, n) \in SUBSET live
    BY DEF Top
  <2>. QED  BY Zenon, <2>1, FS_Subset
<1>2. PICK k \in live \ Top(live, n) : \A j \in live \ Top(live, n) : j <= k
  BY Zenon, <1>1, GreatestNumber
<1>. DEFINE above == {j \in live : j > k}
<1>3. above \in SUBSET Top(live, n)
  <2>1. ASSUME NEW j \in live \ Top(live, n) PROVE ~(j > k)
    <3>1. j \in Nat /\ k \in Nat /\ j <= k
      BY <1>2
    <3>. QED  BY <3>1
  <2>. QED  BY Zenon, <2>1
<1>4. Cardinality(above) <= Cardinality(Top(live, n))
  BY <1>1, <1>3, FS_Subset
<1>5. Cardinality(above) \in Nat /\ Cardinality(Top(live, n)) \in Nat
  BY <1>1, <1>3, FS_Subset, FS_CardinalityType
<1>6. ~(Cardinality(above) < n)
  BY <1>2 DEF Top
<1>. QED  BY <1>4, <1>5, <1>6
-----------------------------------------------------------------------------
(* The reader: everything shown is at or ahead of the cursor, everything     *)
(* that stayed and is not shown is behind it.                                *)

ListingInv ==
    /\ stored \in SUBSET RowKey /\ steady \in SUBSET stored /\ shown \in SUBSET RowKey
    /\ repeated = {} /\ cursor \in Nat /\ reader \in {"none", "paging", "done"}
    /\ reader = "none" => cursor = 0
    /\ reader # "done" /\ cursor = 0 => shown = {}
    /\ reader = "paging" /\ cursor # 0 => \A k \in shown : k >= cursor
    /\ reader = "paging" => \A k \in steady : k \in shown \/ Behind(k)
    /\ reader = "done" => steady \subseteq shown

LEMMA KeepsReadPage ==
    ASSUME ListingInv, ReadPage
    PROVE  ListingInv'
<1>. DEFINE live == {k \in stored : Behind(k)}
            fetched == Top(live, PageLimit + 1)
            page == Top(fetched, PageLimit)
<1>1. /\ live \in SUBSET RowKey /\ RowKey \in SUBSET Nat /\ 0 \notin RowKey
      /\ IsFiniteSet(live) /\ PageLimit \in Nat \ {0} /\ PageLimit + 1 \in Nat
  <2>1. live \in SUBSET RowKey /\ RowKey \in SUBSET Nat /\ 0 \notin RowKey
    BY Zenon, ListingConstants DEF ListingInv
  <2>2. IsFiniteSet(live)
    BY <2>1, ListingConstants, FS_Subset
  <2>. QED  BY <2>1, <2>2, ListingConstants
<1>2. fetched \in SUBSET live /\ page \in SUBSET fetched /\ IsFiniteSet(fetched)
  <2>1. fetched \in SUBSET live /\ page \in SUBSET fetched
    BY DEF Top
  <2>. QED  BY <1>1, <2>1, FS_Subset
<1>3. /\ reader = "paging" /\ shown' = shown \cup page
      /\ repeated' = repeated \cup (shown \cap page)
      /\ UNCHANGED <<stored, steady>>
      /\ \/ /\ Cardinality(fetched) <= PageLimit
            /\ reader' = "done" /\ cursor' = cursor
         \/ /\ Cardinality(fetched) > PageLimit
            /\ cursor' = CursorOf(fetched) /\ reader' = reader
  BY DEF ReadPage
<1>4. shown \cap page = {}
  <2>1. CASE cursor = 0
    BY <1>3, <2>1 DEF ListingInv
  <2>2. CASE cursor # 0
    <3>1. ASSUME NEW k \in shown, k \in page PROVE FALSE
      <4>1. k >= cursor /\ k < cursor /\ k \in Nat /\ cursor \in Nat
        BY <1>1, <1>2, <1>3, <2>2, <3>1 DEF ListingInv, Behind
      <4>. QED  BY <4>1
    <3>. QED  BY <3>1
  <2>. QED  BY <2>1, <2>2
<1>. HIDE DEF live, fetched, page
<1>5. CASE Cardinality(fetched) <= PageLimit /\ reader' = "done" /\ cursor' = cursor
  <2>1. page = fetched
    BY <1>1, <1>2, <1>5, TopOfFew DEF page
  <2>2. fetched = live
    <3>1. Cardinality(fetched) \in Nat
      BY <1>2, FS_CardinalityType
    <3>2. Cardinality(fetched) < PageLimit + 1
      BY <1>1, <1>5, <3>1
    <3>. QED  BY <1>1, <3>2, ShortTopIsAll DEF fetched
  <2>3. steady \subseteq shown'
    BY <1>3, <2>1, <2>2 DEF ListingInv, live
  <2>. QED  BY <1>1, <1>2, <1>3, <1>4, <1>5, <2>3 DEF ListingInv
<1>6. CASE Cardinality(fetched) > PageLimit /\ cursor' = CursorOf(fetched) /\ reader' = reader
  <2>1. fetched # {}
    BY <1>1, <1>6, FS_EmptySet
  <2>2. page # {} /\ page \in SUBSET Nat
    BY Zenon, <1>1, <1>2, <2>1, TopIsNotEmpty DEF page
  <2>3. cursor' \in page /\ \A k \in page : cursor' <= k
    BY <1>6, <2>2, BottomIsLeast DEF CursorOf, page
  <2>4. cursor' \in Nat /\ cursor' # 0
    BY <1>1, <1>2, <2>3
  <2>5. ASSUME NEW k \in shown' PROVE k >= cursor'
    <3>1. CASE k \in page
      <4>1. k \in Nat /\ cursor' <= k
        BY <2>2, <2>3, <3>1
      <4>. QED  BY <2>4, <4>1
    <3>2. CASE k \in shown
      <4>1. cursor # 0 /\ k >= cursor /\ cursor' < cursor
        BY <1>2, <1>3, <2>3, <3>2 DEF ListingInv, live, Behind
      <4>2. k \in Nat /\ cursor \in Nat
        BY <1>1, <3>2 DEF ListingInv
      <4>. QED  BY <2>4, <4>1, <4>2
    <3>. QED  BY Zenon, <1>3, <2>5, <3>1, <3>2
  <2>6. ASSUME NEW k \in steady', k \notin shown' PROVE k < cursor'
    <3>1. k \in live /\ k \notin page
      BY <1>3, <2>6 DEF ListingInv, live
    <3>2. CASE k \in fetched
      BY Zenon, <1>1, <1>2, <2>3, <3>1, <3>2, TopIsAhead DEF page
    <3>3. CASE k \notin fetched
      <4>1. cursor' \in fetched
        BY <1>2, <2>3
      <4>. QED  BY Zenon, <1>1, <3>1, <3>3, <4>1, TopIsAhead DEF fetched
    <3>. QED  BY <3>2, <3>3
  <2>. QED  BY Zenon, <1>1, <1>2, <1>3, <1>4, <1>6, <2>4, <2>5, <2>6 DEF ListingInv, Behind
<1>. QED  BY <1>3, <1>5, <1>6

LEMMA ListingStep == ListingInv /\ [ListingNext]_listingVars => ListingInv'
<1>. SUFFICES ASSUME ListingInv, [ListingNext]_listingVars PROVE ListingInv'
  OBVIOUS
<1>1. ASSUME NEW k \in RowKey, InsertRow(k) PROVE ListingInv'
  BY Zenon, <1>1 DEF ListingInv, InsertRow, Behind
<1>2. ASSUME NEW k \in RowKey, DeleteRow(k) PROVE ListingInv'
  BY <1>2 DEF ListingInv, DeleteRow, Behind
<1>3. CASE StartReading
  BY <1>3 DEF ListingInv, StartReading, Behind
<1>4. CASE ReadPage
  BY <1>4, KeepsReadPage
<1>5. CASE UNCHANGED listingVars
  BY <1>5 DEF ListingInv, listingVars, Behind
<1>. QED  BY <1>1, <1>2, <1>3, <1>4, <1>5 DEF ListingNext

\* Keyset paging (eventWhere, normalizePageResult and the cursor of the last row
\* shown) loses no row that stays and repeats none, for every page limit and
\* whatever is inserted or deleted between the requests.
THEOREM PagingComplete == ListingSpec => []ListingIsComplete
<1>1. ListingInit => ListingInv
  BY DEF ListingInit, ListingInv
<1>2. ListingInv => ListingIsComplete
  BY DEF ListingInv, ListingIsComplete
<1>. QED  BY <1>1, <1>2, ListingStep, PTL DEF ListingSpec

-----------------------------------------------------------------------------
(* The soak harness: a run that ends "completed" deserves it                *)

Verifier == [seen : SUBSET SoakEvent, last : SoakEvent, broken : BOOLEAN]

\* observeRecord keeps the verifier's types.
LEMMA ObserveTyped ==
    ASSUME NEW v \in Verifier, NEW e \in SoakEvent
    PROVE  ObserveRecord(v, e) \in Verifier
  <1>1. CASE e \in v.seen
    BY <1>1 DEF ObserveRecord
  <1>2. CASE e \notin v.seen
    <2> DEFINE b == v.broken \/ (e > 0 /\ v.last # 0 /\ e < v.last) \/ e > v.last + 1
    <2>1. ObserveRecord(v, e) = [seen |-> v.seen \cup {e},
                                 last |-> IF e > v.last THEN e ELSE v.last, broken |-> b]
      BY <1>2, Zenon DEF ObserveRecord
    <2>2. b \in BOOLEAN
      <3>1. v.broken \in BOOLEAN
        BY DEF Verifier
      <3> QED
        BY <3>1, Zenon
    <2> HIDE DEF b
    <2>3. /\ v.seen \cup {e} \in SUBSET SoakEvent
          /\ (IF e > v.last THEN e ELSE v.last) \in SoakEvent
      BY Zenon DEF Verifier
    <2> QED
      BY <2>1, <2>2, <2>3 DEF Verifier
  <1> QED
    BY Zenon, <1>1, <1>2

\* The scan exists, record by record.
LEMMA ScanSteps ==
    ASSUME topics \in Seq(SoakEvent)
    PROVE  /\ Scan[0] = [seen |-> {}, last |-> 0, broken |-> FALSE]
           /\ \A n \in 1 .. Len(topics) : Scan[n] = ObserveRecord(Scan[n - 1], topics[n])
  <1> DEFINE start == [seen |-> {}, last |-> 0, broken |-> FALSE]
             N == Len(topics)
             Step(v, m) == ObserveRecord(v, topics[m])
             step == [m \in 1 .. N |-> [v \in Verifier |-> Step(v, m)]]
  <1>0. N \in Nat /\ start \in Verifier
    BY SoakConstants DEF Verifier, SoakEvent
  <1>1. ASSUME NEW v \in Verifier, NEW m \in 1 .. N PROVE Step(v, m) \in Verifier
    BY ObserveTyped
  <1>2. Scan = CHOOSE f : f = [m \in 0 .. N |-> IF m = 0 THEN start ELSE Step(f[m - 1], m)]
    BY DEF Scan
  <1> HIDE DEF start, N, Step
  <1>3. step \in Steps(N, Verifier)
    BY <1>1 DEF Steps
  <1> HIDE DEF step
  <1>4. PICK f : f \in Recurs(N, Verifier, start, step)
    BY Zenon, <1>0, <1>3, Recursion
  <1>5. ASSUME NEW n \in 1 .. N PROVE f[n] = Step(f[n - 1], n)
    <2>1. f[n - 1] \in Verifier /\ f[n] = step[n][f[n - 1]]
      BY <1>0, <1>4 DEF Recurs
    <2> QED
      BY Zenon, <2>1 DEF step
  <1>6. f = [m \in 0 .. N |-> IF m = 0 THEN start ELSE Step(f[m - 1], m)]
    BY <1>0, <1>4, <1>5 DEF Recurs
  <1>7. Scan = [m \in 0 .. N |-> IF m = 0 THEN start ELSE Step(Scan[m - 1], m)]
    BY Zenon, <1>2, <1>6
  <1>8. Scan[0] = start /\ \A n \in 1 .. N : Scan[n] = Step(Scan[n - 1], n)
    BY <1>0, <1>7
  <1> QED
    BY <1>8 DEF start, N, Step

\* The first records among the first n.
FirstUpTo(n) == {j \in FirstRecords : j <= n}

\* What the verifier knows after n records.
ScanKnows(n) ==
    /\ Scan[n] \in Verifier
    /\ Scan[n].seen = {topics[i] : i \in 1 .. n}
    /\ Scan[n].broken = FALSE =>
          /\ Scan[n].last = Cardinality(FirstUpTo(n))
          /\ \A e \in SoakEvent : e > 0 => (e \in Scan[n].seen <=> e <= Scan[n].last)
          /\ \A i \in FirstUpTo(n) : topics[i] = Cardinality(FirstUpTo(i))

\* A new record is a first record when its event was not seen before.
LEMMA FirstGrows ==
    ASSUME topics \in Seq(SoakEvent), NEW n \in Nat, n < Len(topics)
    PROVE  /\ topics[n + 1] > 0 /\ topics[n + 1] \notin {topics[i] : i \in 1 .. n} =>
                 /\ FirstUpTo(n + 1) = FirstUpTo(n) \cup {n + 1}
                 /\ n + 1 \notin FirstUpTo(n)
           /\ ~(topics[n + 1] > 0 /\ topics[n + 1] \notin {topics[i] : i \in 1 .. n}) =>
                 FirstUpTo(n + 1) = FirstUpTo(n)
           /\ IsFiniteSet(FirstUpTo(n)) /\ FirstUpTo(n) \subseteq 1 .. n
  <1> DEFINE N == Len(topics)
             e == topics[n + 1]
             isNew == e > 0 /\ e \notin {topics[i] : i \in 1 .. n}
  <1>0. N \in Nat /\ n + 1 \in 1 .. N /\ (n + 1) - 1 = n
    OBVIOUS
  <1>1. FirstRecords \subseteq 1 .. N
    BY DEF FirstRecords
  <1>2. n + 1 \in FirstRecords <=> isNew
    <2>1. n + 1 \in FirstRecords <=> e > 0 /\ \A j \in 1 .. n : topics[j] # e
      BY <1>0 DEF FirstRecords
    <2> QED
      BY <2>1
  <1>3. ASSUME NEW j \in FirstRecords PROVE j <= n + 1 <=> j <= n \/ j = n + 1
    BY <1>0, <1>1
  <1>4. ASSUME NEW j \in FirstUpTo(n) PROVE j \in 1 .. n /\ j # n + 1
    <2>1. j \in 1 .. N /\ j <= n
      BY <1>1 DEF FirstUpTo
    <2> HIDE DEF N
    <2> QED
      BY <1>0, <2>1
  <1>5. IsFiniteSet(FirstUpTo(n))
    <2>1. IsFiniteSet(1 .. n)
      BY FS_Interval
    <2> QED
      BY <1>4, <2>1, FS_Subset
  <1> HIDE DEF N, isNew
  <1>6. \A j : j \in FirstUpTo(n + 1) <=> j \in FirstUpTo(n) \/ (j = n + 1 /\ isNew)
    BY <1>0, <1>2, <1>3 DEF FirstUpTo
  <1>7. /\ isNew => FirstUpTo(n + 1) = FirstUpTo(n) \cup {n + 1}
        /\ ~isNew => FirstUpTo(n + 1) = FirstUpTo(n)
    BY Zenon, <1>6
  <1> QED
    BY <1>4, <1>5, <1>7 DEF isNew

\* One more record of the scan.
LEMMA ScanAdds ==
    ASSUME topics \in Seq(SoakEvent), NEW n \in Nat, n < Len(topics), ScanKnows(n)
    PROVE  ScanKnows(n + 1)
  <1> DEFINE v == Scan[n]
             e == topics[n + 1]
             u == Scan[n + 1]
             before == {topics[i] : i \in 1 .. n}
  <1>0. e \in SoakEvent /\ e \in Nat /\ v \in Verifier /\ v.last \in Nat /\ v.seen = before
        /\ v.broken \in BOOLEAN
    <2>1. n + 1 \in 1 .. Len(topics)
      OBVIOUS
    <2>2. e \in SoakEvent
      BY <2>1
    <2> QED
      BY <2>2, SoakConstants DEF ScanKnows, Verifier, SoakEvent
  <1>1. u = ObserveRecord(v, e)
    <2>1. n + 1 \in 1 .. Len(topics) /\ (n + 1) - 1 = n
      OBVIOUS
    <2> QED
      BY <2>1, ScanSteps
  <1>2. u \in Verifier
    BY <1>0, <1>1, ObserveTyped
  <1>3. {topics[i] : i \in 1 .. n + 1} = before \cup {e}
    <2>1. \A i : i \in 1 .. n + 1 <=> i \in 1 .. n \/ i = n + 1
      OBVIOUS
    <2> QED
      BY <2>1, Zenon
  <1>4. /\ FirstUpTo(n) \subseteq 1 .. n /\ IsFiniteSet(FirstUpTo(n))
        /\ \A i \in FirstUpTo(n) : i \in Nat
    BY FirstGrows
  <1> HIDE DEF u, before
  <1>5. CASE e \in v.seen
    <2>1. u = v /\ FirstUpTo(n + 1) = FirstUpTo(n)
      BY Zenon, <1>0, <1>1, <1>5, FirstGrows DEF ObserveRecord, before
    <2>2. before \cup {e} = before
      BY <1>0, <1>5
    <2> QED
      BY Zenon, <1>0, <1>2, <1>3, <2>1, <2>2 DEF ScanKnows, u
  <1>6. CASE e \notin v.seen
    <2>1. /\ u.seen = v.seen \cup {e}
          /\ u.last = IF e > v.last THEN e ELSE v.last
      BY <1>1, <1>6 DEF ObserveRecord
    <2>2. u.broken = (v.broken \/ (e > 0 /\ v.last # 0 /\ e < v.last) \/ e > v.last + 1)
      BY <1>1, <1>6, Zenon DEF ObserveRecord
    <2>3. u.seen = {topics[i] : i \in 1 .. n + 1}
      BY Zenon, <1>0, <1>3, <2>1
    <2>4. ASSUME u.broken = FALSE
          PROVE  /\ u.last = Cardinality(FirstUpTo(n + 1))
                 /\ \A x \in SoakEvent : x > 0 => (x \in u.seen <=> x <= u.last)
                 /\ \A i \in FirstUpTo(n + 1) : topics[i] = Cardinality(FirstUpTo(i))
      <3>1. ~v.broken /\ ~(e > 0 /\ v.last # 0 /\ e < v.last) /\ ~(e > v.last + 1)
        BY <2>2, <2>4, Zenon
      <3>2. v.broken = FALSE
        BY <1>0, <3>1, Zenon
      <3>3. /\ v.last = Cardinality(FirstUpTo(n))
            /\ \A x \in SoakEvent : x > 0 => (x \in v.seen <=> x <= v.last)
            /\ \A i \in FirstUpTo(n) : topics[i] = Cardinality(FirstUpTo(i))
        BY Zenon, <3>2 DEF ScanKnows
      <3>4. CASE e = 0
        <4>1. FirstUpTo(n + 1) = FirstUpTo(n)
          BY <3>4, FirstGrows
        <4>2. u.last = v.last
          BY <1>0, <2>1, <3>4
        <4>3. \A x \in SoakEvent : x > 0 => (x \in u.seen <=> x \in v.seen)
          BY <2>1, <3>4
        <4> QED
          BY Zenon, <3>3, <4>1, <4>2, <4>3
      <3>5. CASE e # 0
        <4>1. e = v.last + 1
          BY <1>0, <1>6, <3>1, <3>3, <3>5
        <4>2. u.last = v.last + 1
          BY <1>0, <2>1, <4>1
        <4>3. FirstUpTo(n + 1) = FirstUpTo(n) \cup {n + 1} /\ n + 1 \notin FirstUpTo(n)
          BY <1>0, <1>6, <3>5, FirstGrows DEF before
        <4>4. Cardinality(FirstUpTo(n + 1)) = Cardinality(FirstUpTo(n)) + 1
          BY Zenon, <1>4, <4>3, FS_AddElement
        <4>5. ASSUME NEW x \in SoakEvent, x > 0 PROVE x \in u.seen <=> x <= u.last
          <5>1. x \in Nat /\ v.last \in Nat
            BY <1>0, SoakConstants DEF SoakEvent
          <5>2. x <= v.last + 1 <=> x <= v.last \/ x = v.last + 1
            <6> HIDE DEF v
            <6> QED
              BY <5>1
          <5> QED
            BY Zenon, <2>1, <3>3, <4>1, <4>2, <4>5, <5>2
        <4>6. ASSUME NEW i \in FirstUpTo(n + 1) PROVE topics[i] = Cardinality(FirstUpTo(i))
          BY <3>3, <4>1, <4>3, <4>4
        <4> QED
          BY Zenon, <3>3, <4>2, <4>4, <4>5, <4>6
      <3> QED
        BY <3>4, <3>5
    <2> QED
      BY Zenon, <1>2, <2>3, <2>4 DEF ScanKnows, u
  <1> QED
    BY Zenon, <1>5, <1>6

\* What a scan of all records knows.
LEMMA ScanDone ==
    ASSUME topics \in Seq(SoakEvent)
    PROVE  ScanKnows(Len(topics))
  <1> DEFINE N == Len(topics)
             T == {n \in 0 .. N : ScanKnows(n)}
  <1>0. N \in Nat
    OBVIOUS
  <1>1. 0 \in T
    <2>1. Scan[0] = [seen |-> {}, last |-> 0, broken |-> FALSE]
      BY ScanSteps
    <2>2. FirstUpTo(0) = {} /\ Cardinality({}) = 0
      BY FS_EmptySet DEF FirstUpTo, FirstRecords
    <2>3. 0 \in SoakEvent /\ \A e \in SoakEvent : e > 0 => ~(e <= 0)
      BY SoakConstants DEF SoakEvent
    <2>4. {topics[i] : i \in 1 .. 0} = {}
      OBVIOUS
    <2>5. Scan[0] \in Verifier /\ Scan[0].seen = {} /\ Scan[0].last = 0
      BY <2>1, <2>3 DEF Verifier
    <2>6. ScanKnows(0)
      BY Zenon, <2>2, <2>3, <2>4, <2>5 DEF ScanKnows
    <2> QED
      BY <1>0, <2>6
  <1>2. ASSUME NEW n \in 0 .. N, n < N, n \in T PROVE n + 1 \in T
    <2>1. ScanKnows(n + 1)
      BY <1>0, <1>2, ScanAdds
    <2> QED
      BY <1>0, <1>2, <2>1
  <1>3. N \in T
    <2> HIDE DEF T, N
    <2>1. N \in 0 .. N
      BY <1>0
    <2> QED
      BY Zenon, <1>0, <1>1, <1>2, <2>1, CountUp
  <1> QED
    BY <1>3

\* A scan that finds no break has seen the stream in order, and nothing else
\* than what the topics hold.
LEMMA ScanFinds ==
    ASSUME topics \in Seq(SoakEvent), Scan[Len(topics)].broken = FALSE
    PROVE  /\ Scan[Len(topics)].seen = {topics[i] : i \in 1 .. Len(topics)}
           /\ \A i \in FirstRecords : topics[i] = Cardinality({j \in FirstRecords : j <= i})
  <1>1. FirstUpTo(Len(topics)) = FirstRecords
    BY DEF FirstUpTo, FirstRecords
  <1> QED
    BY Zenon, <1>1, ScanDone DEF ScanKnows, FirstUpTo

\* The types SoakTypeOK leaves out.
RunnerTyped ==
    /\ producer \in [at : {"loop", "pair", "done"}, next : Nat, failed : BOOLEAN]
    /\ producer.at = "pair" => producer.next < MaxSequence
    /\ topics \in Seq(SoakEvent) /\ target \in Nat
    /\ env \in [kafka : BOOLEAN, paused : BOOLEAN, relays : Nat]
    /\ fault \in FaultKinds \cup {"none", "done"}
    /\ recovered \in BOOLEAN
    /\ stopped \in BOOLEAN /\ expired \in BOOLEAN

\* The injector works while the run does, and holds the relay it took or added.
FaultsBounded ==
    /\ phase \in {"none", "initializing", "warmup", "ended"} => fault \in {"none", "done"}
    /\ phase \in {"recovering", "draining", "recovered", "verifying", "scanning", "checking"} =>
          fault = "done" /\ CtxDone
    /\ fault = "join" => env.relays > 0
    /\ fault \in {"restart", "crash"} => env.relays < TargetRelays

\* From the audit on, nothing runs that could change what it sees.
AuditQuiet ==
    /\ phase \in {"verifying", "scanning", "checking", "ended"} => env.relays = 0
    /\ phase \in {"recovered", "verifying", "scanning", "checking"} /\ recovered = TRUE => QueueEmpty
    /\ phase = "scanning" => target = Len(topics)
    /\ phase = "checking" /\ recovered = TRUE => target = Len(topics)

\* What a completed run has established.
CompletedEarned ==
    final = "completed" =>
        /\ phase = "ended" /\ target = Len(topics)
        /\ Observed.seen = expected /\ Observed.broken = FALSE
        /\ QueueEmpty

SoakInv == SoakTypeOK /\ RunnerTyped /\ FaultsBounded /\ AuditQuiet /\ CompletedEarned

LEMMA SoakInvInit == SoakInit => SoakInv
  <1> SUFFICES ASSUME SoakInit PROVE SoakInv
    OBVIOUS
  <1>1. SoakTypeOK
    BY SoakConstants DEF SoakInit, SoakTypeOK, SoakEvent
  <1>2. RunnerTyped
    <2>1. /\ producer \in [at : {"loop", "pair", "done"}, next : Nat, failed : BOOLEAN]
          /\ producer.at # "pair"
      BY DEF SoakInit
    <2>2. env \in [kafka : BOOLEAN, paused : BOOLEAN, relays : Nat]
      BY DEF SoakInit
    <2>3. topics \in Seq(SoakEvent) /\ target \in Nat
      BY DEF SoakInit
    <2>4. recovered \in BOOLEAN /\ stopped \in BOOLEAN /\ expired \in BOOLEAN
      BY Zenon DEF SoakInit
    <2> QED
      BY Zenon, <2>1, <2>2, <2>3, <2>4 DEF SoakInit, RunnerTyped
  <1>3. FaultsBounded /\ AuditQuiet /\ CompletedEarned
    BY Zenon DEF SoakInit, FaultsBounded, AuditQuiet, CompletedEarned
  <1> QED
    BY Zenon, <1>1, <1>2, <1>3 DEF SoakInv

\* The audit's reading depends on the topics alone.
LEMMA SameAudit ==
    ASSUME topics' = topics, target' = target
    PROVE  Observed' = Observed
  BY DEF Observed, Scan

\* A step that touches neither the verdict nor the topics, the rows nor the
\* relays of a run past its work keeps what was established.
LEMMA EarnedKept ==
    ASSUME SoakInv, final' = final, phase' = phase \/ phase # "ended",
           topics' = topics, target' = target, expected' = expected, rows' = rows
    PROVE  CompletedEarned'
  <1>1. Observed' = Observed
    BY SameAudit
  <1>2. QueueEmpty' <=> QueueEmpty
    BY DEF QueueEmpty
  <1> QED
    BY <1>1, <1>2 DEF SoakInv, CompletedEarned

\* A live relay appends and settles before the audit only.
LEMMA RelayStepKeeps ==
    ASSUME SoakInv, NEW e \in SoakEvent, RelayAppends(e) \/ RelaySettles(e)
    PROVE  SoakInv'
  <1>0. phase \notin {"verifying", "scanning", "checking", "ended"} /\ final # "completed"
    BY DEF SoakInv, AuditQuiet, CompletedEarned, RelayAppends, RelaySettles
  <1>1. CASE RelayAppends(e)
    <2>1. topics' \in Seq(SoakEvent) /\ Len(topics') = Len(topics) + 1
      BY <1>1 DEF RelayAppends, SoakInv, RunnerTyped
    <2>2. UNCHANGED <<phase, stopped, expired, producer, rows, expected, env, fault, recovered,
                      target, final>>
      BY <1>1 DEF RelayAppends, verdictVars
    <2>3. target <= Len(topics')
      BY <2>1 DEF SoakInv, SoakTypeOK, RunnerTyped
    <2>4. SoakTypeOK' /\ RunnerTyped' /\ FaultsBounded'
      BY <2>1, <2>2, <2>3 DEF SoakInv, SoakTypeOK, RunnerTyped, FaultsBounded, CtxDone
    <2>5. AuditQuiet' /\ CompletedEarned'
      BY Zenon, <1>0, <2>2 DEF SoakInv, AuditQuiet, CompletedEarned, QueueEmpty
    <2> QED
      BY Zenon, <2>4, <2>5 DEF SoakInv
  <1>2. CASE RelaySettles(e)
    <2>1. UNCHANGED <<phase, stopped, expired, producer, topics, expected, env, fault, recovered,
                      target, final>>
      BY <1>2 DEF RelaySettles, verdictVars
    <2>2. /\ rows' \in [SoakEvent -> {"absent", "open", "delivered"}]
          /\ QueueEmpty => QueueEmpty'
      BY Zenon, <1>2 DEF RelaySettles, SoakInv, SoakTypeOK, QueueEmpty
    <2>3. SoakTypeOK' /\ RunnerTyped' /\ FaultsBounded'
      BY <2>1, <2>2 DEF SoakInv, SoakTypeOK, RunnerTyped, FaultsBounded, CtxDone
    <2>4. AuditQuiet' /\ CompletedEarned'
      BY <1>0, <2>1, <2>2 DEF SoakInv, AuditQuiet, CompletedEarned
    <2> QED
      BY <2>3, <2>4 DEF SoakInv
  <1> QED
    BY Zenon, <1>1, <1>2

\* The producer writes rows of the run, and only while it runs.
LEMMA ProducerKeeps ==
    ASSUME SoakInv, ProducerStep
    PROVE  SoakInv'
  <1>0. MaxSequence \in Nat /\ 0 \in SoakEvent
    BY SoakConstants DEF SoakEvent
  <1>1. ASSUME NEW e \in SoakEvent, NEW at \in {"loop", "pair"}, NEW next \in Nat,
               at = "pair" => next < MaxSequence, Enqueue(e, at, next)
        PROVE  SoakInv'
    <2>1. /\ UNCHANGED <<phase, stopped, expired, topics, env, fault, recovered, target, final>>
          /\ phase = "running"
      BY <1>1 DEF Enqueue, verdictVars
    <2>2. /\ rows' \in [SoakEvent -> {"absent", "open", "delivered"}]
          /\ expected' \subseteq SoakEvent
      BY Zenon, <1>1 DEF Enqueue, SoakInv, SoakTypeOK
    <2>3. /\ producer' \in [at : {"loop", "pair", "done"}, next : Nat, failed : BOOLEAN]
          /\ producer'.at = "pair" => producer'.next < MaxSequence
      <3>1. CASE producer' = [producer EXCEPT !.at = at, !.next = next]
        BY Zenon, <1>1, <3>1 DEF SoakInv, RunnerTyped
      <3>2. CASE producer' \in [at : {"done"}, next : {producer.next}, failed : {~CtxDone, TRUE}]
        BY Zenon, <3>2 DEF SoakInv, RunnerTyped
      <3> QED
        BY Zenon, <1>1, <3>1, <3>2 DEF Enqueue
    <2>4. SoakTypeOK' /\ RunnerTyped' /\ FaultsBounded'
      BY <2>1, <2>2, <2>3 DEF SoakInv, SoakTypeOK, RunnerTyped, FaultsBounded, CtxDone
    <2>5. AuditQuiet' /\ CompletedEarned'
      BY <2>1 DEF SoakInv, AuditQuiet, CompletedEarned
    <2> QED
      BY <2>4, <2>5 DEF SoakInv
  <1>2. producer.next \in Nat /\ (producer.at = "pair" => producer.next < MaxSequence)
    BY DEF SoakInv, RunnerTyped
  <1>3. CASE EnqueueUnordered
    BY Zenon, <1>0, <1>1, <1>2, <1>3 DEF EnqueueUnordered
  <1>4. CASE EnqueueOrdered
    BY <1>0, <1>1, <1>2, <1>4 DEF EnqueueOrdered, SoakEvent
  <1>5. CASE EnqueueLaterFirst
    BY <1>0, <1>1, <1>2, <1>5 DEF EnqueueLaterFirst, SoakEvent
  <1>6. CASE EnqueueEarlierSecond
    BY <1>0, <1>1, <1>2, <1>6 DEF EnqueueEarlierSecond, SoakEvent
  <1>7. CASE ProducerReturns
    <2>1. /\ UNCHANGED <<phase, stopped, expired, topics, env, fault, recovered, target, final,
                         rows, expected>>
          /\ phase = "running"
      BY <1>7 DEF ProducerReturns, verdictVars
    <2>2. /\ producer' \in [at : {"loop", "pair", "done"}, next : Nat, failed : BOOLEAN]
          /\ producer'.at # "pair"
      BY ZenonT(30), <1>7 DEF ProducerReturns, SoakInv, RunnerTyped
    <2>3. SoakTypeOK' /\ RunnerTyped' /\ FaultsBounded'
      BY <2>1, <2>2 DEF SoakInv, SoakTypeOK, RunnerTyped, FaultsBounded, CtxDone
    <2>4. AuditQuiet' /\ CompletedEarned'
      BY <2>1 DEF SoakInv, AuditQuiet, CompletedEarned
    <2> QED
      BY Zenon, <2>3, <2>4 DEF SoakInv
  <1> QED
    BY <1>3, <1>4, <1>5, <1>6, <1>7 DEF ProducerStep

\* A step of the injector touches the environment and its own state.
LEMMA InjectorKeeps ==
    ASSUME SoakInv,
           UNCHANGED <<phase, stopped, expired, producer, rows, topics, expected,
                       recovered, target, final>>,
           env' \in [kafka : BOOLEAN, paused : BOOLEAN, relays : 0 .. TargetRelays + 1],
           env'.relays > TargetRelays => fault' = "join" \/ CtxDone,
           fault' \in FaultKinds \cup {"none", "done"},
           phase \in {"running"} \/ (fault' = "done" /\ env' = env),
           fault' = "join" => env'.relays > 0,
           fault' \in {"restart", "crash"} => env'.relays < TargetRelays
    PROVE  SoakInv'
  <1>1. TargetRelays \in Nat
    BY Zenon, SoakConstants
  <1>2. SoakTypeOK'
    BY Zenon, <1>1 DEF SoakInv, SoakTypeOK, CtxDone
  <1>3. RunnerTyped'
    BY <1>1 DEF SoakInv, RunnerTyped
  <1>4. FaultsBounded' /\ AuditQuiet'
    BY DEF SoakInv, FaultsBounded, AuditQuiet, CtxDone, QueueEmpty
  <1>5. CompletedEarned'
    BY EarnedKept
  <1> QED
    BY Zenon, <1>2, <1>3, <1>4, <1>5 DEF SoakInv

LEMMA FaultKeeps ==
    ASSUME SoakInv,
           (\E kind \in FaultKinds : FaultBegins(kind) \/ FaultCannotBegin(kind)) \/ InjectorStep
    PROVE  SoakInv'
  <1>0. /\ env \in [kafka : BOOLEAN, paused : BOOLEAN, relays : 0 .. TargetRelays + 1]
        /\ env.relays > TargetRelays => fault = "join" \/ CtxDone
        /\ fault \in FaultKinds => phase = "running"
        /\ TargetRelays \in Nat
    BY SoakConstants DEF SoakInv, SoakTypeOK, RunnerTyped, FaultsBounded, FaultKinds
  <1>1. /\ "join" \in FaultKinds /\ "restart" \in FaultKinds /\ "crash" \in FaultKinds
        /\ "none" \notin FaultKinds /\ "done" \notin FaultKinds
    BY DEF FaultKinds
  <1>2. ASSUME NEW kind \in FaultKinds, FaultBegins(kind) \/ FaultCannotBegin(kind)
        PROVE  SoakInv'
    <2>1. /\ UNCHANGED <<phase, stopped, expired, producer, rows, topics, expected,
                         recovered, target, final>>
          /\ phase = "running" /\ fault = "none" /\ ~CtxDone
          /\ fault' = kind \/ fault' = "none"
          /\ fault' = kind => ~NothingToStop(kind)
          /\ fault' = kind => env' = Broken(kind, env)
          /\ fault' = "none" => \/ env' = env
                                \/ /\ kind \in {"restart", "crash"} /\ env.relays > 0
                                   /\ env' = Broken(kind, env)
      BY Zenon, <1>1, <1>2 DEF FaultBegins, FaultCannotBegin, verdictVars, sutVars
    <2>2. env.relays <= TargetRelays
      BY <1>0, <1>1, <2>1
    <2>3. CASE kind = "outage"
      BY Zenon, <1>0, <1>1, <2>1, <2>2, <2>3, InjectorKeeps DEF Broken
    <2>4. CASE kind = "pause"
      BY Zenon, <1>0, <1>1, <2>1, <2>2, <2>4, InjectorKeeps DEF Broken
    <2>5. CASE kind = "join"
      BY <1>0, <1>1, <2>1, <2>2, <2>5, InjectorKeeps DEF Broken
    <2>6. CASE kind \in {"restart", "crash"}
      BY <1>0, <1>1, <2>1, <2>2, <2>6, InjectorKeeps DEF Broken, NothingToStop
    <2> QED
      BY Zenon, <2>3, <2>4, <2>5, <2>6 DEF FaultKinds
  <1>3. ASSUME FaultEnds \/ FaultCannotEnd \/ FaultAbandoned PROVE SoakInv'
    <2>1. /\ UNCHANGED <<phase, stopped, expired, producer, rows, topics, expected,
                         recovered, target, final>>
          /\ fault \in FaultKinds
          /\ fault' \in {"none", "done"}
          /\ \/ env' = Repaired(fault, env)
             \/ env' = env /\ (fault # "join" \/ CtxDone)
      BY <1>3 DEF FaultEnds, FaultCannotEnd, FaultAbandoned, verdictVars, sutVars
    <2>2. phase = "running"
      BY <1>0, <2>1
    <2>3. env.relays <= TargetRelays \/ fault = "join" \/ CtxDone
      BY <1>0
    <2>4. /\ fault = "join" => env.relays > 0
          /\ fault \in {"restart", "crash"} => env.relays < TargetRelays
      BY Zenon DEF SoakInv, FaultsBounded
    <2>5. CASE env' = env /\ (fault # "join" \/ CtxDone)
      BY Zenon, <1>0, <1>1, <2>1, <2>2, <2>3, <2>5, InjectorKeeps
    <2>6. CASE env' = Repaired(fault, env)
      <3>1. CASE fault = "outage"
        BY Zenon, <1>0, <2>1, <2>2, <2>3, <2>6, <3>1, InjectorKeeps DEF Repaired
      <3>2. CASE fault = "pause"
        BY Zenon, <1>0, <2>1, <2>2, <2>3, <2>6, <3>2, InjectorKeeps DEF Repaired
      <3>3. CASE fault = "join"
        BY <1>0, <2>1, <2>2, <2>4, <2>6, <3>3, InjectorKeeps DEF Repaired
      <3>4. CASE fault \in {"restart", "crash"}
        BY <1>0, <2>1, <2>2, <2>4, <2>6, <3>4, InjectorKeeps DEF Repaired
      <3> QED
        BY <2>1, <3>1, <3>2, <3>3, <3>4 DEF FaultKinds
    <2> QED
      BY Zenon, <2>1, <2>5, <2>6
  <1>4. CASE InjectorReturns
    BY Zenon, <1>0, <1>1, <1>4, InjectorKeeps DEF InjectorReturns, verdictVars, sutVars
  <1> QED
    BY Zenon, <1>2, <1>3, <1>4 DEF InjectorStep

\* A step of runSoak changes neither the rows nor the topics.
LEMMA RunnerKeeps ==
    ASSUME SoakInv,
           UNCHANGED <<producer, rows, topics, expected, fault>>,
           stopped' \in BOOLEAN, expired' \in BOOLEAN, CtxDone => CtxDone',
           env' \in [kafka : BOOLEAN, paused : BOOLEAN, relays : 0 .. TargetRelays + 1],
           env'.relays > TargetRelays => env' = env \/ CtxDone',
           phase' = "running" => env' = env \/ fault = "none",
           phase' \in {"none", "initializing", "warmup", "ended"} => fault \in {"none", "done"},
           phase' \in {"none", "initializing", "warmup", "running", "recovering", "draining",
                       "recovered", "verifying", "scanning", "checking", "ended"},
           phase' \in {"recovering", "draining", "recovered", "verifying", "scanning",
                       "checking"} => fault = "done" /\ CtxDone',
           final' \in {"none", "completed", "failed", "aborted"},
           recovered' \in BOOLEAN,
           target' \in {target, Len(topics)},
           AuditQuiet', CompletedEarned'
    PROVE  SoakInv'
  <1>0. TargetRelays \in Nat
    BY Zenon, SoakConstants
  <1>1. SoakTypeOK'
    <2>1. ASSUME env' = env PROVE env'.relays > TargetRelays => fault = "join" \/ CtxDone
      BY Zenon, <1>0, <2>1 DEF SoakInv, SoakTypeOK
    <2>2. target' <= Len(topics)
      BY DEF SoakInv, SoakTypeOK, RunnerTyped
    <2>3. env'.relays > TargetRelays => fault' = "join" \/ CtxDone'
      BY Zenon, <2>1
    <2> QED
      BY Zenon, <1>0, <2>2, <2>3 DEF SoakInv, SoakTypeOK
  <1>2. RunnerTyped'
    BY <1>0 DEF SoakInv, RunnerTyped
  <1>3. FaultsBounded'
    BY DEF SoakInv, FaultsBounded, SoakTypeOK
  <1> QED
    BY Zenon, <1>1, <1>2, <1>3 DEF SoakInv

\* finish() without a verdict: the deferred stopAll leaves no relay.
LEMMA EndKeeps ==
    ASSUME SoakInv, NEW state \in {"failed", "aborted"}, EndWithout(state),
           fault \in {"none", "done"}
    PROVE  SoakInv'
  <1>1. /\ UNCHANGED <<stopped, expired, producer, rows, topics, expected, fault,
                       recovered, target>>
        /\ phase' = "ended" /\ final' = state /\ env' = [env EXCEPT !.relays = 0]
    BY DEF EndWithout, sutVars
  <1>2. /\ env' \in [kafka : BOOLEAN, paused : BOOLEAN, relays : 0 .. TargetRelays + 1]
        /\ env'.relays = 0 /\ TargetRelays \in Nat
    BY <1>1, SoakConstants DEF SoakInv, RunnerTyped
  <1>3. AuditQuiet'
    BY <1>1, <1>2 DEF AuditQuiet
  <1>4. CompletedEarned'
    BY <1>1 DEF CompletedEarned
  <1>5. /\ CtxDone => CtxDone'
        /\ stopped' \in BOOLEAN /\ expired' \in BOOLEAN /\ recovered' \in BOOLEAN
    BY Zenon, <1>1 DEF CtxDone, SoakInv, RunnerTyped
  <1> QED
    BY <1>1, <1>2, <1>3, <1>4, <1>5, RunnerKeeps

\* Up to the recovery: nothing is audited and no verdict is taken.
LEMMA EarlyStepKeeps ==
    ASSUME SoakInv,
           \/ StartCommand \/ Initialize \/ WarmUp \/ StopRunning \/ OperatorStops \/ DurationEnds
    PROVE  SoakInv'
  <1>0. /\ env \in [kafka : BOOLEAN, paused : BOOLEAN, relays : 0 .. TargetRelays + 1]
        /\ stopped \in BOOLEAN /\ expired \in BOOLEAN /\ recovered \in BOOLEAN
        /\ final \in {"none", "completed", "failed", "aborted"}
        /\ TargetRelays \in Nat
        /\ phase \in {"none", "initializing", "warmup", "running", "recovering", "draining",
                      "recovered", "verifying", "scanning", "checking", "ended"}
    BY SoakConstants DEF SoakInv, SoakTypeOK, RunnerTyped
  <1>1. /\ phase \in {"none", "initializing", "warmup", "ended"} => fault \in {"none", "done"}
        /\ phase \in {"recovering", "draining", "recovered", "verifying", "scanning", "checking"}
              => fault = "done" /\ CtxDone
    BY Zenon DEF SoakInv, FaultsBounded
  <1>2. ASSUME UNCHANGED <<producer, rows, topics, expected, fault, recovered, target, final>>,
               UNCHANGED <<stopped, expired>>,
               phase \in {"none", "initializing", "warmup", "running"},
               phase' \in {"initializing", "warmup", "running", "recovering"},
               phase' \in {"initializing", "warmup"} => fault \in {"none", "done"},
               phase' = "recovering" => fault = "done" /\ CtxDone,
               env' \in [kafka : BOOLEAN, paused : BOOLEAN, relays : 0 .. TargetRelays + 1],
               env'.relays > TargetRelays => env' = env,
               phase' = "running" => env' = env
        PROVE  SoakInv'
    <2>1. AuditQuiet'
      BY <1>2 DEF AuditQuiet
    <2>2. CompletedEarned'
      BY <1>2, EarnedKept
    <2>3. CtxDone' <=> CtxDone
      BY Zenon, <1>2 DEF CtxDone
    <2> QED
      BY ZenonT(30), <1>0, <1>2, <2>1, <2>2, <2>3, RunnerKeeps
  <1>3. CASE StartCommand
    <2>1. /\ UNCHANGED <<producer, rows, topics, expected, fault, recovered, target, final>>
          /\ UNCHANGED <<stopped, expired, env>>
          /\ phase = "none" /\ phase' = "initializing"
      BY Zenon, <1>3 DEF StartCommand, sutVars, verdictVars
    <2> QED
      BY Zenon, <1>0, <1>1, <1>2, <2>1
  <1>4. CASE Initialize
    <2>1. CASE EndWithout("failed") \/ EndWithout("aborted")
      BY Zenon, <1>1, <1>4, <2>1, EndKeeps DEF Initialize
    <2>2. CASE phase' = "warmup"
      <3>1. /\ UNCHANGED <<producer, rows, topics, expected, fault, recovered, target, final>>
            /\ UNCHANGED <<stopped, expired>>
            /\ phase = "initializing"
            /\ env' = [kafka |-> TRUE, paused |-> FALSE, relays |-> TargetRelays]
        BY Zenon, <1>4, <2>2 DEF Initialize, EndWithout, sutVars, verdictVars
      <3>2. /\ env' \in [kafka : BOOLEAN, paused : BOOLEAN, relays : 0 .. TargetRelays + 1]
            /\ ~(env'.relays > TargetRelays)
        BY <1>0, <3>1
      <3> QED
        BY Zenon, <1>1, <1>2, <2>2, <3>1, <3>2
    <2> QED
      BY Zenon, <1>4, <2>1, <2>2 DEF Initialize
  <1>5. CASE WarmUp
    <2>1. CASE EndWithout("aborted")
      BY Zenon, <1>1, <1>5, <2>1, EndKeeps DEF WarmUp
    <2>2. CASE phase' = "running"
      <3>1. /\ UNCHANGED <<producer, rows, topics, expected, fault, recovered, target, final>>
            /\ UNCHANGED <<stopped, expired, env>>
            /\ phase = "warmup"
        BY Zenon, <1>5, <2>2 DEF WarmUp, EndWithout, sutVars, verdictVars
      <3> QED
        BY Zenon, <1>0, <1>1, <1>2, <2>2, <3>1
    <2> QED
      BY Zenon, <1>5, <2>1, <2>2 DEF WarmUp
  <1>6. CASE StopRunning
    <2>0. fault = "done" /\ CtxDone /\ phase = "running"
      BY <1>6 DEF StopRunning
    <2>1. CASE EndWithout("aborted")
      BY Zenon, <2>0, <2>1, EndKeeps
    <2>2. CASE phase' = "recovering"
      <3>1. /\ UNCHANGED <<producer, rows, topics, expected, fault, recovered, target, final>>
            /\ UNCHANGED <<stopped, expired, env>>
        BY Zenon, <1>6, <2>2 DEF StopRunning, EndWithout, sutVars, verdictVars
      <3> QED
        BY Zenon, <1>0, <1>2, <2>0, <2>2, <3>1
    <2> QED
      BY Zenon, <1>6, <2>1, <2>2 DEF StopRunning
  <1>7. CASE OperatorStops \/ DurationEnds
    <2>1. /\ UNCHANGED <<producer, rows, topics, expected, fault, recovered, target, final>>
          /\ UNCHANGED <<phase, env>>
          /\ stopped' \in {stopped, TRUE} /\ expired' \in {expired, TRUE}
      BY Zenon, <1>7 DEF OperatorStops, DurationEnds, sutVars, verdictVars
    <2>2. CtxDone => CtxDone'
      BY Zenon, <1>0, <2>1 DEF CtxDone
    <2>3. AuditQuiet'
      BY <2>1 DEF SoakInv, AuditQuiet, QueueEmpty
    <2>4. CompletedEarned'
      BY <2>1, EarnedKept
    <2>5. stopped' \in BOOLEAN /\ expired' \in BOOLEAN
      BY Zenon, <1>0, <2>1
    <2> QED
      BY <1>0, <1>1, <2>1, <2>2, <2>3, <2>4, <2>5, RunnerKeeps
  <1> QED
    BY Zenon, <1>3, <1>4, <1>5, <1>6, <1>7

\* The recovery, the audit and the verdict.
LEMMA LateStepKeeps ==
    ASSUME SoakInv,
           \/ Recover \/ Drained \/ RecoveryTimesOut \/ BeginVerifying
           \/ ListEndOffsets \/ ScanTopics \/ AuditFails \/ CheckAndFinish
    PROVE  SoakInv'
  <1>0. /\ env \in [kafka : BOOLEAN, paused : BOOLEAN, relays : 0 .. TargetRelays + 1]
        /\ stopped \in BOOLEAN /\ expired \in BOOLEAN /\ recovered \in BOOLEAN
        /\ final \in {"none", "completed", "failed", "aborted"}
        /\ TargetRelays \in Nat
    BY Zenon, SoakConstants DEF SoakInv, SoakTypeOK, RunnerTyped
  <1>1. phase \in {"recovering", "draining", "recovered", "verifying", "scanning", "checking"}
    BY DEF Recover, Drained, RecoveryTimesOut, BeginVerifying, ListEndOffsets, ScanTopics,
           AuditFails, CheckAndFinish
  <1>2. fault = "done" /\ CtxDone /\ final # "completed"
    BY Zenon, <1>1 DEF SoakInv, FaultsBounded, CompletedEarned
  <1>3. ASSUME UNCHANGED <<producer, rows, topics, expected, fault, stopped, expired, final>>,
               phase' \in {"draining", "recovered", "verifying", "scanning", "checking"},
               recovered' \in {recovered, FALSE},
               target' \in {target, Len(topics)},
               env' \in [kafka : BOOLEAN, paused : BOOLEAN, relays : 0 .. TargetRelays + 1],
               AuditQuiet'
        PROVE  SoakInv'
    <2>1. CompletedEarned'
      BY <1>2, <1>3 DEF CompletedEarned
    <2>2. CtxDone'
      BY <1>2, <1>3 DEF CtxDone
    <2>3. recovered' \in BOOLEAN
      BY Zenon, <1>0, <1>3
    <2> QED
      BY Zenon, <1>0, <1>2, <1>3, <2>1, <2>2, <2>3, RunnerKeeps
  <1>4. CASE Recover
    <2>1. /\ UNCHANGED <<producer, rows, topics, expected, fault, stopped, expired, final, target>>
          /\ \/ phase' = "draining" /\ recovered' = recovered
             \/ phase' = "recovered" /\ recovered' = FALSE
      BY <1>4 DEF Recover, sutVars
    <2>2. AuditQuiet'
      BY <2>1 DEF AuditQuiet
    <2>3. env' \in [kafka : BOOLEAN, paused : BOOLEAN, relays : 0 .. TargetRelays + 1]
      <3>1. CASE env' = env \/ env' = [env EXCEPT !.kafka = TRUE]
        BY Zenon, <1>0, <3>1
      <3>2. ASSUME NEW n \in (env.relays .. TargetRelays) \cup (TargetRelays .. env.relays)
            PROVE  n \in 0 .. TargetRelays + 1
        BY <1>0
      <3>3. ASSUME NEW n \in 0 .. TargetRelays + 1,
                   env' = [kafka |-> TRUE, paused |-> FALSE, relays |-> n]
            PROVE  env' \in [kafka : BOOLEAN, paused : BOOLEAN, relays : 0 .. TargetRelays + 1]
        BY Zenon, <3>3
      <3>4. CASE env' = Restored(env)
        BY <1>0, <3>3, <3>4 DEF Restored
      <3> QED
        BY Zenon, <1>4, <3>1, <3>2, <3>3, <3>4 DEF Recover
    <2> QED
      BY Zenon, <1>3, <2>1, <2>2, <2>3
  <1>5. CASE Drained
    <2>1. /\ UNCHANGED <<producer, rows, topics, expected, fault, stopped, expired, final, target>>
          /\ UNCHANGED <<recovered, env>>
          /\ phase' = "recovered" /\ QueueEmpty
      BY <1>5 DEF Drained, sutVars, verdictVars
    <2>2. AuditQuiet'
      BY <2>1 DEF AuditQuiet, QueueEmpty
    <2> QED
      BY Zenon, <1>0, <1>3, <2>1, <2>2
  <1>6. CASE RecoveryTimesOut
    <2>1. /\ UNCHANGED <<producer, rows, topics, expected, fault, stopped, expired, final, target>>
          /\ UNCHANGED env
          /\ phase' = "recovered" /\ recovered' = FALSE
      BY <1>6 DEF RecoveryTimesOut, sutVars
    <2>2. AuditQuiet'
      BY <2>1 DEF AuditQuiet
    <2> QED
      BY Zenon, <1>0, <1>3, <2>1, <2>2
  <1>7. CASE BeginVerifying
    <2>1. CASE EndWithout("aborted")
      BY <1>2, <2>1, EndKeeps
    <2>2. CASE phase' = "verifying"
      <3>1. /\ UNCHANGED <<producer, rows, topics, expected, fault, stopped, expired, final, target>>
            /\ phase = "recovered" /\ recovered' = recovered
            /\ env' = [env EXCEPT !.relays = 0]
        BY <1>7, <2>2 DEF BeginVerifying, EndWithout, StopAll, sutVars, verdictVars
      <3>2. /\ env' \in [kafka : BOOLEAN, paused : BOOLEAN, relays : 0 .. TargetRelays + 1]
            /\ env'.relays = 0
        BY <1>0, <3>1
      <3>3. AuditQuiet'
        BY Zenon, <2>2, <3>1, <3>2 DEF SoakInv, AuditQuiet, QueueEmpty
      <3> QED
        BY Zenon, <1>0, <1>3, <2>2, <3>1, <3>2, <3>3
    <2> QED
      BY <1>7, <2>1, <2>2 DEF BeginVerifying
  <1>8. CASE ListEndOffsets \/ ScanTopics
    <2>1. /\ UNCHANGED <<producer, rows, topics, expected, fault, stopped, expired, final>>
          /\ UNCHANGED <<recovered, env>>
          /\ \/ phase = "verifying" /\ phase' = "scanning" /\ target' = Len(topics)
             \/ phase = "scanning" /\ phase' = "checking" /\ target' = target
      BY Zenon, <1>8 DEF ListEndOffsets, ScanTopics, sutVars, verdictVars
    <2>2. AuditQuiet'
      BY Zenon, <2>1 DEF SoakInv, AuditQuiet, QueueEmpty
    <2> QED
      BY Zenon, <1>0, <1>3, <2>1, <2>2
  <1>9. CASE AuditFails
    <2>1. CASE EndWithout("aborted")
      BY <1>2, <2>1, EndKeeps
    <2>2. CASE phase' = "checking"
      <3>1. /\ UNCHANGED <<producer, rows, topics, expected, fault, stopped, expired, final, target>>
            /\ phase \in {"verifying", "scanning"} /\ recovered' = FALSE
            /\ UNCHANGED env
        BY <1>9, <2>2 DEF AuditFails, EndWithout, sutVars, verdictVars
      <3>2. AuditQuiet'
        BY Zenon, <2>2, <3>1 DEF SoakInv, AuditQuiet
      <3> QED
        BY Zenon, <1>0, <1>3, <2>2, <3>1, <3>2
    <2> QED
      BY Zenon, <1>9, <2>1, <2>2 DEF AuditFails
  <1>10. CASE CheckAndFinish
    <2>1. /\ UNCHANGED <<producer, rows, topics, expected, fault, stopped, expired, target>>
          /\ UNCHANGED <<recovered, env>>
          /\ phase = "checking" /\ phase' = "ended"
          /\ final' \in {"completed", "failed"}
      BY Zenon, <1>10 DEF CheckAndFinish, sutVars
    <2>2. final' = "completed" => recovered /\ \E queueRead \in BOOLEAN : Verdict(queueRead)
      BY <1>10 DEF CheckAndFinish
    <2>3. AuditQuiet'
      BY <2>1 DEF SoakInv, AuditQuiet
    <2>4. CompletedEarned'
      <3> SUFFICES ASSUME final' = "completed" PROVE CompletedEarned'
        BY Zenon DEF CompletedEarned
      <3>1. recovered = TRUE
        BY <1>0, <2>2
      <3>2. target = Len(topics) /\ QueueEmpty
        BY <2>1, <3>1 DEF SoakInv, AuditQuiet
      <3>3. Observed.seen = expected /\ ~Observed.broken
        BY Zenon, <2>2 DEF Verdict
      <3>4. Observed.broken \in BOOLEAN
        BY <3>2, ScanDone DEF SoakInv, RunnerTyped, ScanKnows, Verifier, Observed
      <3>5. Observed' = Observed
        BY <2>1, SameAudit
      <3> QED
        BY <2>1, <3>2, <3>3, <3>4, <3>5 DEF CompletedEarned, QueueEmpty
    <2>5. CtxDone' <=> CtxDone
      BY <2>1 DEF CtxDone
    <2> QED
      BY Zenon, <1>0, <1>2, <2>1, <2>3, <2>4, <2>5, RunnerKeeps
  <1> QED
    BY Zenon, <1>4, <1>5, <1>6, <1>7, <1>8, <1>9, <1>10

\* Every step of the harness keeps the invariant.
LEMMA SoakInvariance == SoakInv /\ [SoakNext]_soakVars => SoakInv'
  <1> SUFFICES ASSUME SoakInv, [SoakNext]_soakVars PROVE SoakInv'
    OBVIOUS
  <1>1. CASE UNCHANGED soakVars
    <2>1. UNCHANGED <<phase, stopped, expired, producer, rows, expected, topics, env, fault,
                      recovered, target, final>>
      BY <1>1 DEF soakVars
    <2>2. CompletedEarned'
      BY ZenonT(30), <2>1, EarnedKept
    <2>3. SoakTypeOK' /\ RunnerTyped' /\ FaultsBounded' /\ AuditQuiet'
      BY <2>1 DEF SoakInv, SoakTypeOK, RunnerTyped, FaultsBounded, AuditQuiet, CtxDone, QueueEmpty
    <2> QED
      BY <2>2, <2>3 DEF SoakInv
  <1>2. CASE SoakNext
    BY <1>2, RelayStepKeeps, ProducerKeeps, FaultKeeps, EarlyStepKeeps, LateStepKeeps
    DEF SoakNext, RunnerStep
  <1> QED
    BY <1>1, <1>2

\* The soak run's state keeps to its types (runSoak, faultLoop, relayManager).
THEOREM SoakTypesCorrect == SoakSpec => []SoakTypeOK
  <1>1. SoakInv => SoakTypeOK
    BY DEF SoakInv
  <1> QED
    BY <1>1, SoakInvInit, SoakInvariance, PTL DEF SoakSpec

\* verdict() in finish() says "completed" only of a run whose topics hold
\* exactly the acknowledged events, the stream's in order, and whose outbox is
\* empty: for any number of events, records, relays and faults.
THEOREM CompletedMeansCorrect == SoakSpec => []PassIsEarned
  <1>1. SoakInv => PassIsEarned
    <2> SUFFICES ASSUME SoakInv, final = "completed" PROVE TopicsCorrect /\ QueueEmpty
      BY DEF PassIsEarned
    <2>1. /\ target = Len(topics) /\ QueueEmpty
          /\ Scan[Len(topics)].seen = expected /\ Scan[Len(topics)].broken = FALSE
      BY DEF SoakInv, CompletedEarned, Observed
    <2>2. topics \in Seq(SoakEvent)
      BY Zenon DEF SoakInv, RunnerTyped
    <2> QED
      BY Zenon, <2>1, <2>2, ScanFinds DEF TopicsCorrect
  <1> QED
    BY <1>1, SoakInvInit, SoakInvariance, PTL DEF SoakSpec

-----------------------------------------------------------------------------
(* The integrity report: what it says is what the checks found              *)

\* The report counts what was made and lists its first MaxFindings.
ReportInv ==
    /\ stage \in 0 .. 8 /\ usable \in BOOLEAN
    /\ made \in Seq(Warnings \cup Violations)
    /\ report \in [warnings : Nat, violations : Nat, findings : Seq(Warnings \cup Violations),
                   truncated : BOOLEAN, result : {"none", "clean", "warnings", "violations"},
                   strict : BOOLEAN]
    /\ report.violations > 0 <=> MadeOf(Violations) # {}
    /\ report.warnings > 0 <=> MadeOf(Warnings) # {}
    /\ report.truncated = TRUE <=> Len(made) > MaxFindings
    /\ report.findings = IF report.truncated THEN SubSeq(made, 1, MaxFindings) ELSE made
    /\ usable = FALSE => report.violations > 0
    /\ stage = 8 /\ exitCode # 1 =>
          /\ exitCode = ExitCode(report, report.strict)
          /\ report.result = "clean" <=> (report.violations = 0 /\ report.warnings = 0)

LEMMA ReportInvInit == ReportInit => ReportInv
  <1> SUFFICES ASSUME ReportInit PROVE ReportInv
    OBVIOUS
  <1>1. /\ stage = 0 /\ made = <<>> /\ usable = TRUE
        /\ report.warnings = 0 /\ report.violations = 0 /\ report.findings = <<>>
        /\ report.truncated = FALSE
    BY Zenon DEF ReportInit
  <1>2. made \in Seq(Warnings \cup Violations) /\ Len(made) = 0
    BY <1>1
  <1>3. report \in [warnings : Nat, violations : Nat, findings : Seq(Warnings \cup Violations),
                   truncated : BOOLEAN, result : {"none", "clean", "warnings", "violations"},
                   strict : BOOLEAN]
    <2>1. <<>> \in Seq(Warnings \cup Violations) /\ FALSE \in BOOLEAN
      BY <1>1, <1>2
    <2>2. PICK strict \in BOOLEAN :
             report = [warnings |-> 0, violations |-> 0, findings |-> <<>>, truncated |-> FALSE,
                       result |-> "none", strict |-> strict]
      BY Zenon DEF ReportInit
    <2> QED
      BY Zenon, <2>1, <2>2
  <1>4. MadeOf(Violations) = {} /\ MadeOf(Warnings) = {}
    BY <1>2 DEF MadeOf
  <1>5. MaxFindings \in Nat
    BY Zenon, ReportConstants
  <1> QED
    BY <1>1, <1>2, <1>3, <1>4, <1>5 DEF ReportInv

\* One more finding of a severity, or none.
LEMMA MadeGrows ==
    ASSUME NEW code, made \in Seq(Warnings \cup Violations), made' = Append(made, code),
           code \in Warnings \cup Violations, NEW S
    PROVE  LET Of(s) == {i \in 1 .. Len(s) : s[i] \in S}
           IN  Of(made') # {} <=> Of(made) # {} \/ code \in S
  <1> DEFINE Of(s) == {i \in 1 .. Len(s) : s[i] \in S}
  <1>1. /\ Len(made') = Len(made) + 1 /\ Len(made) \in Nat
        /\ made'[Len(made) + 1] = code
        /\ \A i \in 1 .. Len(made) : made'[i] = made[i]
    OBVIOUS
  <1>2. ASSUME NEW i \in Of(made) PROVE i \in Of(made')
    BY <1>1
  <1>3. ASSUME code \in S PROVE Len(made) + 1 \in Of(made')
    BY <1>1, <1>3
  <1>4. ASSUME NEW i \in Of(made') PROVE i \in Of(made) \/ code \in S
    BY <1>1
  <1>5. Of(made') # {} <=> Of(made) # {} \/ code \in S
    <2> HIDE DEF Of
    <2> QED
      BY Zenon, <1>2, <1>3, <1>4
  <1> QED
    BY <1>5

\* accumulator.add keeps the counts, the list and the mark of a full list.
LEMMA FindingCounted ==
    ASSUME ReportInv, NEW code \in Warnings \cup Violations, MakeFinding(code),
           stage' = stage, stage # 8,
           usable' = usable \/ (usable' = FALSE /\ code \in Violations)
    PROVE  ReportInv'
  <1> DEFINE Code == Warnings \cup Violations
             w == report.warnings + (IF code \in Warnings THEN 1 ELSE 0)
             v == report.violations + (IF code \in Violations THEN 1 ELSE 0)
             f == IF Len(report.findings) < MaxFindings THEN Append(report.findings, code)
                  ELSE report.findings
             t == report.truncated \/ Len(report.findings) >= MaxFindings
  <1>0. /\ MaxFindings \in Nat \ {0}
        /\ made \in Seq(Code) /\ report.findings \in Seq(Code) /\ report.truncated \in BOOLEAN
        /\ report.warnings \in Nat /\ report.violations \in Nat
        /\ report \in [warnings : Nat, violations : Nat, findings : Seq(Code),
                       truncated : BOOLEAN,
                       result : {"none", "clean", "warnings", "violations"}, strict : BOOLEAN]
    BY ReportConstants DEF ReportInv
  <1>1. /\ made' = Append(made, code)
        /\ made' \in Seq(Code) /\ Len(made') = Len(made) + 1 /\ Len(made) \in Nat
    BY <1>0 DEF MakeFinding
  <1>2. /\ w \in Nat /\ v \in Nat /\ f \in Seq(Code) /\ t \in BOOLEAN
        /\ w > 0 <=> (report.warnings > 0 \/ code \in Warnings)
        /\ v > 0 <=> (report.violations > 0 \/ code \in Violations)
    BY <1>0
  <1>3. report' = [report EXCEPT !.warnings = w, !.violations = v, !.findings = f, !.truncated = t]
    BY DEF MakeFinding, Add
  <1>4. /\ Len(report.findings) >= MaxFindings <=> Len(made) >= MaxFindings
        /\ t = TRUE <=> Len(made') > MaxFindings
    <2>1. CASE report.truncated
      <3>1. report.findings = SubSeq(made, 1, MaxFindings) /\ Len(made) > MaxFindings
        BY <1>0, <2>1 DEF ReportInv
      <3>2. Len(report.findings) = MaxFindings
        BY <1>0, <1>1, <3>1
      <3> QED
        BY <1>0, <1>1, <2>1, <3>1, <3>2
    <2>2. CASE ~report.truncated
      <3>1. report.findings = made
        BY Zenon, <2>2 DEF ReportInv
      <3>2. Len(made) <= MaxFindings
        BY <1>0, <1>1, <2>2 DEF ReportInv
      <3> QED
        BY <1>0, <1>1, <2>2, <3>1, <3>2
    <2> QED
      BY Zenon, <2>1, <2>2
  <1>5. f = IF t THEN SubSeq(made', 1, MaxFindings) ELSE made'
    <2>1. CASE report.truncated
      <3>1. report.findings = SubSeq(made, 1, MaxFindings) /\ Len(made) > MaxFindings
        BY <1>0, <2>1 DEF ReportInv
      <3>2. f = SubSeq(made, 1, MaxFindings)
        BY <1>0, <1>1, <1>4, <3>1
      <3>3. SubSeq(made', 1, MaxFindings) = SubSeq(made, 1, MaxFindings)
        BY <1>0, <1>1, <3>1
      <3> QED
        BY Zenon, <2>1, <3>2, <3>3
    <2>2. CASE ~report.truncated /\ Len(made) >= MaxFindings
      <3>1. f = made /\ Len(made) = MaxFindings /\ t
        BY <1>0, <1>1, <1>4, <2>2 DEF ReportInv
      <3>2. SubSeq(made', 1, MaxFindings) = made
        BY <1>0, <1>1, <3>1
      <3> QED
        BY Zenon, <3>1, <3>2
    <2>3. CASE ~report.truncated /\ Len(made) < MaxFindings
      <3>1. f = made' /\ ~t
        BY SMTT(30), <1>0, <1>1, <1>4, <2>3 DEF ReportInv
      <3> QED
        BY Zenon, <3>1
    <2> QED
      BY <1>0, <1>1, <2>1, <2>2, <2>3
  <1>6. /\ MadeOf(Violations)' # {} <=> MadeOf(Violations) # {} \/ code \in Violations
        /\ MadeOf(Warnings)' # {} <=> MadeOf(Warnings) # {} \/ code \in Warnings
    BY <1>0, <1>1, MadeGrows DEF MadeOf
  <1> HIDE DEF w, v, f, t
  <1>7. /\ report'.warnings = w /\ report'.violations = v /\ report'.findings = f
        /\ report'.truncated = t
        /\ report' \in [warnings : Nat, violations : Nat, findings : Seq(Code),
                        truncated : BOOLEAN,
                        result : {"none", "clean", "warnings", "violations"}, strict : BOOLEAN]
    BY Zenon, <1>0, <1>2, <1>3
  <1>8. /\ usable' \in BOOLEAN
        /\ usable' = FALSE => report'.violations > 0
    BY Zenon, <1>2, <1>7 DEF ReportInv
  <1>9. /\ report'.violations > 0 <=> MadeOf(Violations)' # {}
        /\ report'.warnings > 0 <=> MadeOf(Warnings)' # {}
    BY Zenon, <1>2, <1>6, <1>7 DEF ReportInv
  <1>10. report'.findings = IF report'.truncated THEN SubSeq(made', 1, MaxFindings) ELSE made'
    BY Zenon, <1>5, <1>7
  <1>11. report'.truncated = TRUE <=> Len(made') > MaxFindings
    BY <1>4, <1>7
  <1> QED
    BY Zenon, <1>1, <1>7, <1>8, <1>9, <1>10, <1>11 DEF ReportInv

\* Every step of the command keeps it.
LEMMA ReportInvariance == ReportInv /\ [ReportNext]_reportVars => ReportInv'
  <1> SUFFICES ASSUME ReportInv, [ReportNext]_reportVars PROVE ReportInv'
    OBVIOUS
  <1>1. ASSUME NEW blocking \in BOOLEAN, SchemaFinding(blocking) PROVE ReportInv'
    <2>1. "SCHEMA_VERSION_MISMATCH" \in Violations
      BY DEF Violations
    <2>2. usable' = usable \/ usable' = FALSE
      <3>1. usable \in BOOLEAN /\ usable' = (usable /\ ~blocking)
        BY <1>1 DEF SchemaFinding, ReportInv
      <3> QED
        BY <3>1, Zenon
    <2>3. stage' = stage /\ stage # 8 /\ MakeFinding("SCHEMA_VERSION_MISMATCH")
      BY <1>1 DEF SchemaFinding
    <2> QED
      BY <2>1, <2>2, <2>3, FindingCounted, Zenon
  <1>2. ASSUME NEW code \in Warnings \cup Violations, CheckFinding(code) PROVE ReportInv'
    BY <1>2, FindingCounted DEF CheckFinding
  <1>3. ASSUME UNCHANGED <<report, made, usable>>, stage' \in 0 .. 8,
               stage' = 8 => exitCode' = 1 \/ UNCHANGED <<stage, exitCode>>
        PROVE  ReportInv'
    BY <1>3 DEF ReportInv, MadeOf, ExitCode
  <1>4. CASE SchemaChecked \/ CheckDone \/ CheckFails
    <2>1. stage \in 0 .. 8
      BY DEF ReportInv
    <2> QED
      BY <1>3, <1>4, <2>1 DEF SchemaChecked, CheckDone, CheckFails
  <1>5. CASE UNCHANGED reportVars
    BY Zenon, <1>3, <1>5 DEF reportVars, ReportInv
  <1>6. CASE Report
    <2> DEFINE result == CASE report.violations > 0 -> "violations"
                           [] report.violations = 0 /\ report.warnings > 0 -> "warnings"
                           [] OTHER -> "clean"
    <2>1. /\ stage' = 8 /\ exitCode' = ExitCode(report, report.strict)
          /\ report' = [report EXCEPT !.result = result] /\ UNCHANGED <<made, usable>>
      BY <1>6 DEF Report
    <2>2. report.violations \in Nat /\ report.warnings \in Nat
      BY DEF ReportInv
    <2>3. /\ result \in {"clean", "warnings", "violations"}
          /\ result = "clean" <=> (report.violations = 0 /\ report.warnings = 0)
      BY <2>2
    <2> HIDE DEF result
    <2>4. /\ report' \in [warnings : Nat, violations : Nat,
                          findings : Seq(Warnings \cup Violations), truncated : BOOLEAN,
                          result : {"none", "clean", "warnings", "violations"}, strict : BOOLEAN]
          /\ report'.warnings = report.warnings /\ report'.violations = report.violations
          /\ report'.findings = report.findings /\ report'.truncated = report.truncated
          /\ report'.strict = report.strict /\ report'.result = result
      BY <2>1, <2>3 DEF ReportInv
    <2>5. exitCode' = ExitCode(report', report'.strict)
      BY ZenonT(30), <2>1, <2>4 DEF ExitCode
    <2> QED
      BY SMTT(30), <2>1, <2>3, <2>4, <2>5 DEF ReportInv, MadeOf
  <1> QED
    BY <1>1, <1>2, <1>4, <1>5, <1>6 DEF ReportNext

\* `emitlane integrity check` exits 0, and its report says "clean" or
\* "warnings", only when that is what the checks made (accumulator.add, finish,
\* ExitCode): for any number of findings and any room for them.
THEOREM ReportTruthful == ReportSpec => []ReportIsHonest
  <1>1. ReportInv => ReportIsHonest
    <2> SUFFICES ASSUME ReportInv PROVE ReportIsHonest
      OBVIOUS
    <2>1. /\ report.violations \in Nat /\ report.warnings \in Nat /\ report.strict \in BOOLEAN
          /\ made \in Seq(Warnings \cup Violations)
          /\ usable \in BOOLEAN
          /\ report.violations > 0 <=> MadeOf(Violations) # {}
          /\ report.warnings > 0 <=> MadeOf(Warnings) # {}
          /\ usable = FALSE => report.violations > 0
      BY DEF ReportInv
    <2>2. made = <<>> <=> MadeOf(Violations) = {} /\ MadeOf(Warnings) = {}
      <3>1. made = <<>> => MadeOf(Violations) = {} /\ MadeOf(Warnings) = {}
        BY DEF MadeOf
      <3>2. made # <<>> => 1 \in 1 .. Len(made) /\ made[1] \in Warnings \cup Violations
        BY <2>1
      <3>3. made # <<>> => 1 \in MadeOf(Violations) \/ 1 \in MadeOf(Warnings)
        BY Zenon, <3>2 DEF MadeOf
      <3> QED
        BY <3>1, <3>3
    <2>3. ASSUME stage = 8, exitCode # 1
          PROVE  /\ exitCode = 0 <=> MadeOf(Violations) = {}
                                     /\ (report.strict => MadeOf(Warnings) = {})
                 /\ report.result = "clean" <=> made = <<>>
                 /\ exitCode = 0 => usable
      <3>1. /\ exitCode = ExitCode(report, report.strict)
            /\ report.result = "clean" <=> (report.violations = 0 /\ report.warnings = 0)
        BY <2>3 DEF ReportInv
      <3>2. exitCode = 0 <=> ~(report.violations > 0 \/ (report.strict /\ report.warnings > 0))
        BY <3>1 DEF ExitCode
      <3>3. exitCode = 0 => usable
        BY Zenon, <2>1, <3>2
      <3>4. report.result = "clean" <=> made = <<>>
        BY <2>1, <2>2, <3>1
      <3> QED
        BY Zenon, <2>1, <3>2, <3>3, <3>4
    <2> QED
      BY <2>3 DEF ReportIsHonest, ReportInv
  <1> QED
    BY <1>1, ReportInvInit, ReportInvariance, PTL DEF ReportSpec

-----------------------------------------------------------------------------
(* Backoff: both schedules are the capped exponential                       *)

\* The powers of two, one by one.
LEMMA PowSteps ==
    /\ Width + MaxAttempt \in Nat /\ Pow2[0] = 1
    /\ \A n \in 0 .. Width + MaxAttempt : Pow2[n] \in Nat \ {0}
    /\ \A n \in 1 .. Width + MaxAttempt : Pow2[n] = 2 * Pow2[n - 1]
  <1> DEFINE N == Width + MaxAttempt
             step == [m \in 1 .. N |-> [v \in Nat |-> 2 * v]]
             T == {n \in 0 .. N : Pow2[n] \in Nat \ {0}}
  <1>0. N \in Nat
    BY BackoffConstants
  <1>1. Pow2 = CHOOSE f : f = [n \in 0 .. N |-> IF n = 0 THEN 1 ELSE 2 * f[n - 1]]
    BY DEF Pow2
  <1> HIDE DEF N
  <1>2. step \in Steps(N, Nat)
    BY DEF Steps
  <1> HIDE DEF step
  <1>3. PICK f : f \in Recurs(N, Nat, 1, step)
    BY Zenon, <1>0, <1>2, Recursion
  <1>4. ASSUME NEW n \in 1 .. N PROVE f[n] = 2 * f[n - 1]
    <2>1. f[n - 1] \in Nat /\ f[n] = step[n][f[n - 1]]
      BY <1>0, <1>3 DEF Recurs
    <2> QED
      BY Zenon, <2>1 DEF step
  <1>5. f = [n \in 0 .. N |-> IF n = 0 THEN 1 ELSE 2 * f[n - 1]]
    BY <1>0, <1>3, <1>4 DEF Recurs
  <1>6. Pow2 = [n \in 0 .. N |-> IF n = 0 THEN 1 ELSE 2 * Pow2[n - 1]]
    BY Zenon, <1>1, <1>5
  <1>7. Pow2[0] = 1 /\ \A n \in 1 .. N : Pow2[n] = 2 * Pow2[n - 1]
    BY <1>0, <1>6
  <1>8. 0 \in T
    BY <1>0, <1>7
  <1>9. ASSUME NEW n \in 0 .. N, n < N, n \in T PROVE n + 1 \in T
    <2>1. n + 1 \in 1 .. N /\ (n + 1) - 1 = n
      BY <1>0, <1>9
    <2>2. Pow2[n + 1] = 2 * Pow2[n] /\ Pow2[n] \in Nat \ {0}
      BY Zenon, <1>7, <1>9, <2>1
    <2> QED
      BY <1>0, <2>1, <2>2
  <1>10. \A n \in 0 .. N : n \in T
    <2> HIDE DEF T
    <2> QED
      BY Zenon, <1>0, <1>8, <1>9, CountUp
  <1> QED
    BY <1>0, <1>7, <1>10 DEF N

\* They grow.
LEMMA PowGrows ==
    ASSUME NEW k \in Nat, NEW n \in Nat, k <= n, n <= Width + MaxAttempt
    PROVE  Pow2[k] <= Pow2[n]
  <1> DEFINE N == Width + MaxAttempt
             T == {i \in 0 .. n - k : Pow2[k] <= Pow2[k + i]}
  <1>0. N \in Nat /\ n - k \in Nat
    BY PowSteps
  <1>1. 0 \in T
    <2>1. Pow2[k] \in Nat /\ k + 0 = k
      BY <1>0, PowSteps
    <2> QED
      BY <1>0, <2>1
  <1>2. ASSUME NEW i \in 0 .. n - k, i < n - k, i \in T PROVE i + 1 \in T
    <2>1. /\ k + (i + 1) \in 1 .. N /\ (k + (i + 1)) - 1 = k + i /\ k + i \in 0 .. N
          /\ k \in 0 .. N
      BY <1>0, <1>2
    <2>2. /\ Pow2[k + (i + 1)] = 2 * Pow2[k + i] /\ Pow2[k + i] \in Nat /\ Pow2[k] \in Nat
      BY <2>1, PowSteps
    <2>3. Pow2[k] <= Pow2[k + i]
      BY <1>2
    <2>4. Pow2[k] <= Pow2[k + (i + 1)]
      BY <2>2, <2>3
    <2> QED
      BY <1>0, <1>2, <2>4
  <1>3. n - k \in T
    <2> HIDE DEF T
    <2>1. n - k \in 0 .. n - k
      BY <1>0
    <2> QED
      BY Zenon, <1>0, <1>1, <1>2, <2>1, CountUp
  <1>4. k + (n - k) = n
    OBVIOUS
  <1> QED
    BY <1>3, <1>4

\* A delay the width can hold is not wrapped.
LEMMA NoWrap ==
    ASSUME NEW x \in Nat, x < Pow2[Width - 1]
    PROVE  Wrap(x) = x
  <1> DEFINE H == Pow2[Width - 1]
  <1>1. H \in Nat /\ Pow2[Width] = 2 * H
    <2>1. Width \in 1 .. Width + MaxAttempt /\ Width - 1 \in 0 .. Width + MaxAttempt
      BY BackoffConstants
    <2> QED
      BY <2>1, PowSteps
  <1> HIDE DEF H
  <1>2. ASSUME NEW y \in Nat, y < 2 * H PROVE y % (2 * H) = y
    BY <1>1, <1>2
  <1>3. x + H \in Nat /\ x + H < 2 * H
    BY <1>1 DEF H
  <1>4. (x + H) % (2 * H) = x + H
    BY Zenon, <1>2, <1>3
  <1> QED
    BY <1>1, <1>3, <1>4 DEF Wrap, H

Capped(x, m) == IF x < m THEN x ELSE m

\* The relay's cap: nothing that does not fit is multiplied, and what is not
\* multiplied because of the exponent alone would not have fitted.
LEMMA RelayExact ==
    ASSUME NEW b \in Duration, NEW m \in Duration, b <= m,
           NEW n \in Nat, n <= MaxAttempt
    PROVE  CappedExp(n, b, m) = Capped(b * Pow2[n], m)
  <1> DEFINE p == Pow2[n]
             H == Pow2[Width - 1]
  <1>0. /\ n \in 0 .. Width + MaxAttempt /\ Width - 1 \in 0 .. Width + MaxAttempt
        /\ Width \in Nat /\ Width > 3 /\ MaxAttempt \in Nat
    BY BackoffConstants
  <1>1. p \in Nat \ {0} /\ H \in Nat
    BY <1>0, PowSteps
  <1>2. b \in Nat \ {0} /\ m \in Nat /\ m < H
    BY <1>1 DEF Duration
  <1> HIDE DEF p, H
  <1>3. b * p \in Nat /\ b * p >= p /\ p * b = b * p
    BY <1>1, <1>2
  <1>4. CASE n = 0
    <2>1. CappedExp(n, b, m) = b
      BY <1>0, <1>4 DEF CappedExp
    <2>2. p = 1
      BY <1>4, PowSteps DEF p
    <2> QED
      BY <1>2, <2>1, <2>2 DEF Capped, p
  <1>5. CASE n > Width - 2
    <2>1. ~(n <= 0) /\ ~(n \in 1 .. Width - 2)
      BY <1>0, <1>5
    <2>2. CappedExp(n, b, m) = m
      BY <1>5, <2>1, Zenon DEF CappedExp
    <2>3. H <= p
      <3>1. Width - 1 \in Nat /\ Width - 1 <= n /\ n <= Width + MaxAttempt
        BY <1>0, <1>5
      <3> QED
        BY <3>1, PowGrows DEF H, p
    <2>4. ~(b * p < m)
      BY <1>1, <1>2, <1>3, <2>3
    <2> QED
      BY <2>2, <2>4 DEF Capped, p
  <1>6. CASE n \in 1 .. Width - 2
    <2>1. ~(n <= 0) /\ ~(n > Width - 2)
      BY <1>0, <1>6
    <2>2. CASE p * b >= m
      <3>1. CappedExp(n, b, m) = m
        BY <1>6, <2>1, <2>2, Zenon DEF CappedExp, p
      <3>2. ~(b * p < m)
        BY <1>2, <1>3, <2>2
      <3> QED
        BY <3>1, <3>2 DEF Capped, p
    <2>3. CASE ~(p * b >= m)
      <3>1. CappedExp(n, b, m) = Wrap(b * p)
        BY <1>6, <2>1, <2>3, Zenon DEF CappedExp, p
      <3>2. b * p < m /\ b * p < H
        BY <1>1, <1>2, <1>3, <2>3
      <3>3. Wrap(b * p) = b * p
        BY Zenon, <1>3, <3>2, NoWrap DEF H
      <3> QED
        BY <3>1, <3>2, <3>3 DEF Capped, p
    <2> QED
      BY <2>2, <2>3
  <1> QED
    BY <1>0, <1>4, <1>5, <1>6

\* One pass of the consumer's loop: the capped exponential, twice the exponent.
LEMMA DoubledExact ==
    ASSUME NEW m \in Duration, NEW x \in Nat
    PROVE  Doubled(Capped(x, m), m) = Capped(2 * x, m)
  <1> DEFINE H == Pow2[Width - 1]
             c == Capped(x, m)
  <1>1. H \in Nat /\ m \in Nat \ {0} /\ m < H
    <2>1. Width - 1 \in 0 .. Width + MaxAttempt
      BY BackoffConstants
    <2> QED
      BY <2>1, PowSteps DEF Duration
  <1>2. c \in Nat /\ c <= m /\ (c < m => c = x) /\ (c = m => x >= m)
    BY <1>1 DEF Capped
  <1> HIDE DEF H, c
  <1>3. CASE c >= m
    <2>1. ~(c < m) /\ c = m
      BY <1>1, <1>2, <1>3
    <2>2. Doubled(c, m) = c
      BY <1>3, <2>1, Zenon DEF Doubled
    <2> QED
      BY <1>1, <1>2, <2>1, <2>2 DEF Capped, c
  <1>4. CASE c < m /\ c > m \div 2
    <2>1. ~(c >= m)
      BY <1>1, <1>2, <1>4
    <2>2. Doubled(c, m) = m
      BY <1>4, <2>1, Zenon DEF Doubled
    <2>3. ~(2 * x < m)
      BY <1>1, <1>2, <1>4
    <2> QED
      BY <2>2, <2>3 DEF Capped, c
  <1>5. CASE c < m /\ ~(c > m \div 2)
    <2>1. ~(c >= m)
      BY <1>1, <1>2, <1>5
    <2>2. Doubled(c, m) = Wrap(2 * c)
      BY <1>5, <2>1, Zenon DEF Doubled
    <2>3. 2 * c \in Nat /\ 2 * c <= m /\ 2 * c < H /\ c = x
      BY <1>1, <1>2, <1>5
    <2>4. Wrap(2 * c) = 2 * c
      BY Zenon, <2>3, NoWrap DEF H
    <2> QED
      BY <1>1, <2>2, <2>3, <2>4 DEF Capped, c
  <1> QED
    BY <1>1, <1>2, <1>3, <1>4, <1>5

\* The consumer's cap: after k passes, the capped exponential of k.
LEMMA ConsumerExact ==
    ASSUME NEW b \in Duration, NEW m \in Duration, b <= m,
           NEW n \in Nat, n >= 1, n - 1 <= Width + MaxAttempt
    PROVE  RetryDelayCap(n, b, m) = Capped(b * Pow2[n - 1], m)
  <1> DEFINE N == n - 1
             cap == CHOOSE f : f = [k \in 0 .. N |-> IF k = 0 THEN b ELSE Doubled(f[k - 1], m)]
             step == [k \in 1 .. N |-> [c \in 0 .. m |-> Doubled(c, m)]]
             T == {k \in 0 .. N : cap[k] = Capped(b * Pow2[k], m)}
  <1>0. N \in Nat /\ N <= Width + MaxAttempt /\ Width + MaxAttempt \in Nat
    BY PowSteps
  <1>1. b \in Nat \ {0} /\ m \in Nat \ {0}
    <2>1. Width - 1 \in 0 .. Width + MaxAttempt
      BY BackoffConstants
    <2> QED
      BY <2>1, PowSteps DEF Duration
  <1>2. RetryDelayCap(n, b, m) = IF cap[N] > m THEN m ELSE cap[N]
    BY DEF RetryDelayCap
  <1>3. ASSUME NEW c \in 0 .. m PROVE Doubled(c, m) \in 0 .. m
    <2>1. Capped(c, m) = c /\ Capped(2 * c, m) \in 0 .. m
      BY <1>1 DEF Capped
    <2> QED
      BY <1>1, <2>1, DoubledExact
  <1> HIDE DEF N
  <1>4. step \in Steps(N, 0 .. m)
    BY <1>3 DEF Steps
  <1> HIDE DEF step
  <1>5. PICK f : f \in Recurs(N, 0 .. m, b, step)
    <2>1. b \in 0 .. m
      BY <1>1
    <2> QED
      BY Zenon, <1>0, <1>4, <2>1, Recursion
  <1>6. ASSUME NEW k \in 1 .. N PROVE f[k] = Doubled(f[k - 1], m)
    <2>1. f[k - 1] \in 0 .. m /\ f[k] = step[k][f[k - 1]]
      BY <1>0, <1>5 DEF Recurs
    <2> QED
      BY Zenon, <2>1 DEF step
  <1>7. f = [k \in 0 .. N |-> IF k = 0 THEN b ELSE Doubled(f[k - 1], m)]
    BY <1>0, <1>5, <1>6 DEF Recurs
  <1>8. cap = [k \in 0 .. N |-> IF k = 0 THEN b ELSE Doubled(cap[k - 1], m)]
    BY Zenon, <1>7
  <1> HIDE DEF cap
  <1>9. cap[0] = b /\ \A k \in 1 .. N : cap[k] = Doubled(cap[k - 1], m)
    BY <1>0, <1>8
  <1>10. 0 \in T
    <2>1. Pow2[0] = 1 /\ Capped(b * 1, m) = b
      BY <1>1, PowSteps DEF Capped
    <2> QED
      BY <1>0, <1>9, <2>1
  <1>11. ASSUME NEW k \in 0 .. N, k < N, k \in T PROVE k + 1 \in T
    <2>1. k + 1 \in 1 .. N /\ (k + 1) - 1 = k /\ k + 1 \in 1 .. Width + MaxAttempt
          /\ k \in 0 .. Width + MaxAttempt
      BY <1>0, <1>11
    <2>2. Pow2[k + 1] = 2 * Pow2[k] /\ Pow2[k] \in Nat
      BY Zenon, <2>1, PowSteps
    <2>3. b * Pow2[k] \in Nat /\ b * Pow2[k + 1] = 2 * (b * Pow2[k])
      BY <1>1, <2>2
    <2>4. cap[k + 1] = Doubled(Capped(b * Pow2[k], m), m)
      BY Zenon, <1>9, <1>11, <2>1
    <2>5. cap[k + 1] = Capped(b * Pow2[k + 1], m)
      BY Zenon, <2>3, <2>4, DoubledExact
    <2> QED
      BY <1>0, <2>1, <2>5
  <1>12. N \in T
    <2> HIDE DEF T
    <2>1. N \in 0 .. N
      BY <1>0
    <2> QED
      BY Zenon, <1>0, <1>10, <1>11, <2>1, CountUp
  <1>13. b * Pow2[N] \in Nat /\ ~(Capped(b * Pow2[N], m) > m)
    <2>1. Pow2[N] \in Nat
      BY <1>0, PowSteps
    <2> QED
      BY <1>1, <2>1 DEF Capped
  <1> QED
    BY Zenon, <1>2, <1>12, <1>13 DEF N

\* The delays are the validated ones, and the caps those of the attempts made.
BackoffInv ==
    /\ base \in Duration /\ maximum \in Duration /\ base <= maximum
    /\ tries \in Nat /\ tries >= 1 /\ tries - 1 <= MaxAttempt
    /\ relayCap = CappedExp(tries - 1, base, maximum)
    /\ consumerCap = RetryDelayCap(tries, base, maximum)

\* For any width, any legal pair of delays and any number of attempts, the
\* relay's cap (cappedExp) and the consumer's (retryDelay) are the exact capped
\* exponential: neither overflows, wraps nor shrinks.
THEOREM SchedulesExact == BackoffSpec => []BackoffExact
  <1>0. MaxAttempt \in Nat /\ Width \in Nat
    BY BackoffConstants
  <1>1. BackoffInit => BackoffInv
    BY <1>0 DEF BackoffInit, BackoffInv
  <1>2. BackoffInv /\ [BackoffNext]_backoffVars => BackoffInv'
    <2> SUFFICES ASSUME BackoffInv, [BackoffNext]_backoffVars PROVE BackoffInv'
      OBVIOUS
    <2>1. CASE NextAttempt
      <3>1. /\ tries < MaxAttempt /\ tries' = tries + 1 /\ base' = base /\ maximum' = maximum
            /\ relayCap' = CappedExp(tries' - 1, base, maximum)
            /\ consumerCap' = RetryDelayCap(tries', base, maximum)
        BY Zenon, <2>1 DEF NextAttempt
      <3>2. tries' \in Nat /\ tries' >= 1 /\ tries' - 1 <= MaxAttempt
        BY <1>0, <3>1 DEF BackoffInv
      <3> QED
        BY Zenon, <3>1, <3>2 DEF BackoffInv
    <2>2. CASE UNCHANGED backoffVars
      BY Zenon, <2>2 DEF backoffVars, BackoffInv
    <2> QED
      BY Zenon, <2>1, <2>2 DEF BackoffNext
  <1>3. BackoffInv => BackoffExact
    <2> SUFFICES ASSUME BackoffInv PROVE BackoffExact
      OBVIOUS
    <2>1. /\ base \in Duration /\ maximum \in Duration /\ base <= maximum
          /\ tries \in Nat /\ tries >= 1 /\ tries - 1 \in Nat /\ tries - 1 <= MaxAttempt
          /\ tries - 1 <= Width + MaxAttempt
      BY <1>0 DEF BackoffInv
    <2>2. relayCap = Capped(base * Pow2[tries - 1], maximum)
      BY Zenon, <2>1, RelayExact DEF BackoffInv
    <2>3. consumerCap = Capped(base * Pow2[tries - 1], maximum)
      BY <2>1, ConsumerExact DEF BackoffInv
    <2> QED
      BY Zenon, <2>2, <2>3 DEF BackoffExact, Capped
  <1> QED
    BY <1>1, <1>2, <1>3, PTL DEF BackoffSpec
=============================================================================
