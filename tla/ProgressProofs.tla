--------------------------- MODULE ProgressProofs ---------------------------
(***************************************************************************)
(* What holds of scheduler and membership for every value of their         *)
(* constants: no wake-up is lost; rendezvous hashing has exactly one owner *)
(* for every partition and every membership, and settled ownership stays   *)
(* where it is.  The three components of MCProgress together keep to their *)
(* types.                                                                  *)
(***************************************************************************)
EXTENDS MCProgress, OperationsProofs, WellFoundedInduction
-----------------------------------------------------------------------------
(* The scheduler.                                                           *)

\* What a claim in progress has: a free slot at least, nothing from the class
\* it has not asked yet, and less than its limit from the other.
Claiming ==
    /\ at \in {"first", "second"} => slots < Concurrency
    /\ at = "first" => took = Nothing
    /\ at = "second" => took[SecondClass] = 0 /\ took[FirstClass] < Limit

\* An announced row whose wakeup is used up will be met: the ordered class is
\* probed as long as there is one, the class claimed first is empty when the
\* second is asked, and a claim that got nothing leaves none.
Announced ==
    ~wake =>
        /\ told["ordered"] => probe /\ (at \in {"first", "second"} => probing)
        /\ at = "second" => ~told[FirstClass]
        /\ at = "select" /\ slots < Concurrency /\ outcome = "ok" => \A c \in Class : ~told[c]

SchedulerInv == SchedulerTypeOK /\ Claiming /\ Announced
-----------------------------------------------------------------------------
(* Sizes.                                                                   *)

\* A claim that begins asks for at least one row and at most the free slots.
LEMMA LimitFits ==
    ASSUME SchedulerTypeOK, slots < Concurrency
    PROVE  Limit \in Nat /\ Limit > 0 /\ slots + Limit <= Concurrency
  BY SchedulerConstants DEF SchedulerTypeOK, Limit, Least

\* The two classes are tried one after the other.
LEMMA TwoClasses ==
    /\ FirstClass \in Class /\ SecondClass \in Class /\ FirstClass # SecondClass
    /\ \A c \in Class : c = FirstClass \/ c = SecondClass
    /\ FirstClass = "ordered" => probing
  BY DEF FirstClass, SecondClass, Class

\* The initial state satisfies the invariant.
LEMMA InitHolds == SchedulerInit => SchedulerInv
  <1> SUFFICES ASSUME SchedulerInit PROVE SchedulerInv
    OBVIOUS
  <1>1. /\ ready \in [Class -> 0..MaxReady] /\ slots \in 0..Concurrency /\ finished \in 0..slots
        /\ took \in [Class -> 0..Concurrency] /\ idleWait \in PollInterval..IdleBackoffMax
        /\ troubles \in 0..MaxTroubles
    BY SchedulerConstants DEF SchedulerInit, Nothing
  <1>2. /\ told \in [Class -> BOOLEAN] /\ wake \in BOOLEAN /\ halted \in BOOLEAN
        /\ prefer \in BOOLEAN /\ probe \in BOOLEAN /\ probing \in BOOLEAN
    BY Zenon DEF SchedulerInit
  <1>3. at = "off" /\ outcome = "ok"
    BY DEF SchedulerInit
  <1>4. \A c \in Class : ~told[c]
    BY Zenon DEF SchedulerInit
  <1>5. SchedulerTypeOK
    BY Zenon, <1>1, <1>2, <1>3 DEF SchedulerTypeOK
  <1>6. Claiming
    BY <1>3 DEF Claiming
  <1>7. Announced
    BY Zenon, <1>3, <1>4 DEF Announced, Class
  <1> QED
    BY Zenon, <1>5, <1>6, <1>7 DEF SchedulerInv

\* A claim takes at most its limit and, short of it, every row there is.
LEMMA LeastTaken ==
    ASSUME NEW n \in Nat, NEW k \in Nat, NEW max \in Nat, k <= max
    PROVE  /\ Least(n, k) \in 0..n /\ k - Least(n, k) \in 0..max
           /\ Least(n, k) < n => k - Least(n, k) = 0
  BY DEF Least

\* What Takes does to the counts: no more than n rows go, and an announced row
\* stays announced only if one is left.
LEMMA TakesCounts ==
    ASSUME SchedulerTypeOK, NEW c \in Class, NEW n \in Nat, Takes(c, n)
    PROVE  /\ ready' \in [Class -> 0..MaxReady] /\ told' \in [Class -> BOOLEAN]
           /\ \A d \in Class : told'[d] => told[d]
           /\ Least(n, ready[c]) \in 0..n
           /\ Least(n, ready[c]) < n => ~told'[c]
  <1>1. ready[c] \in 0..MaxReady /\ MaxReady \in Nat /\ told[c] \in BOOLEAN
    BY SchedulerConstants DEF SchedulerTypeOK
  <1>2. /\ Least(n, ready[c]) \in 0..n
        /\ ready[c] - Least(n, ready[c]) \in 0..MaxReady
        /\ Least(n, ready[c]) < n => ready[c] - Least(n, ready[c]) = 0
    <2>1. ready[c] \in Nat /\ ready[c] <= MaxReady
      BY <1>1
    <2> QED
      BY Zenon, <1>1, <2>1, LeastTaken
  <1>3. ready' = [ready EXCEPT ![c] = ready[c] - Least(n, ready[c])]
    BY DEF Takes
  <1>4. ready' \in [Class -> 0..MaxReady] /\ ready'[c] = ready[c] - Least(n, ready[c])
    BY Zenon, <1>2, <1>3 DEF SchedulerTypeOK
  <1>5. told' = [told EXCEPT ![c] = told[c] /\ ready'[c] > 0]
    BY DEF Takes
  <1>6. told' \in [Class -> BOOLEAN] /\ told'[c] = (told[c] /\ ready'[c] > 0)
        /\ \A d \in Class : d # c => told'[d] = told[d]
    BY Zenon, <1>1, <1>5 DEF SchedulerTypeOK
  <1>7. Least(n, ready[c]) < n => ~(ready'[c] > 0)
    BY <1>2, <1>4
  <1> QED
    BY Zenon, <1>2, <1>4, <1>6, <1>7
-----------------------------------------------------------------------------
(* The steps of the claim.                                                  *)

\* How a claim that kept to its limit ends.
LEMMA ClaimEndsTyped ==
    ASSUME SchedulerTypeOK, NEW got \in [Class -> 0..Concurrency],
           slots + TotalOf(got) <= Concurrency,
           NEW how \in {"ok", "error"}, NEW probed, ClaimEnds(got, how, probed)
    PROVE  /\ took' \in [Class -> 0..Concurrency] /\ outcome' = how
           /\ prefer' \in BOOLEAN /\ probe' \in BOOLEAN
           /\ slots' \in 0..Concurrency /\ slots <= slots'
           /\ idleWait' \in PollInterval..IdleBackoffMax
           /\ at' \in {"top", "select"}
           /\ at' = "select" => got["ordered"] = 0 /\ got["unordered"] = 0
           /\ probe /\ ~probe' => probed /\ got["ordered"] = 0
  <1>1. got["ordered"] \in Nat /\ got["unordered"] \in Nat
    BY SchedulerConstants DEF Class
  <1>2. TotalOf(got) \in Nat /\ (TotalOf(got) = 0 => got["ordered"] = 0 /\ got["unordered"] = 0)
    BY <1>1 DEF TotalOf
  <1>3. slots' = slots + TotalOf(got) /\ took' = got /\ outcome' = how
    BY DEF ClaimEnds
  <1>4. slots' \in 0..Concurrency /\ slots <= slots'
    BY <1>2, <1>3, SchedulerConstants DEF SchedulerTypeOK
  <1>5. idleWait' \in PollInterval..IdleBackoffMax
    BY SchedulerConstants DEF ClaimEnds, SchedulerTypeOK, Least
  <1>6. at' \in {"top", "select"} /\ (at' = "select" => ~(TotalOf(got) > 0))
    BY DEF ClaimEnds
  <1>7. prefer' \in BOOLEAN /\ probe' \in BOOLEAN
    BY Zenon DEF ClaimEnds, Toggle, SchedulerTypeOK
  <1>8. probe /\ ~probe' => probed /\ got["ordered"] = 0
    BY Zenon DEF ClaimEnds
  <1>9. at' = "select" => TotalOf(got) = 0
    BY <1>6, <1>2
  <1> QED
    BY <1>2, <1>3, <1>4, <1>5, <1>6, <1>7, <1>8, <1>9

\* The first claim.
LEMMA FirstClaimKeeps ==
    ASSUME SchedulerInv, FirstClaim
    PROVE  SchedulerInv'
  <1> DEFINE n == Least(Limit, ready[FirstClass])
             got == [took EXCEPT ![FirstClass] = n]
  <1>1. /\ at = "first" /\ Takes(FirstClass, Limit)
        /\ UNCHANGED <<wake, halted, finished, troubles, probing>>
    BY DEF FirstClaim
  <1>2. SchedulerTypeOK /\ slots < Concurrency /\ took = Nothing /\ Announced
    BY <1>1 DEF SchedulerInv, Claiming
  <1>3. Limit \in Nat /\ Limit > 0 /\ slots + Limit <= Concurrency /\ slots \in Nat /\ finished \in 0..slots
    BY <1>2, LimitFits, SchedulerConstants DEF SchedulerTypeOK
  <1>4. /\ ready' \in [Class -> 0..MaxReady] /\ told' \in [Class -> BOOLEAN]
        /\ \A d \in Class : told'[d] => told[d]
        /\ n \in 0..Limit
        /\ n < Limit => ~told'[FirstClass]
    BY <1>1, <1>2, <1>3, TakesCounts, TwoClasses
  <1>5. /\ got \in [Class -> 0..Concurrency]
        /\ got[FirstClass] = n /\ got[SecondClass] = 0
        /\ TotalOf(got) = n
    BY <1>2, <1>3, <1>4, TwoClasses, SchedulerConstants DEF Nothing, TotalOf, Class
  <1>6. wake' = wake /\ probing' = probing /\ at' \in {"top", "select", "second"}
    BY <1>1 DEF FirstClaim, ClaimEnds
  <1>7. CASE n = Limit
    <2>1. ClaimEnds(got, "ok", FirstClass = "ordered")
      BY <1>7 DEF FirstClaim
    <2>2. /\ took' \in [Class -> 0..Concurrency] /\ outcome' = "ok"
          /\ prefer' \in BOOLEAN /\ probe' \in BOOLEAN
          /\ slots' \in 0..Concurrency /\ slots <= slots'
          /\ idleWait' \in PollInterval..IdleBackoffMax
          /\ at' \in {"top", "select"}
          /\ at' = "select" => got["ordered"] = 0 /\ got["unordered"] = 0
          /\ probe /\ ~probe' => FirstClass = "ordered" /\ got["ordered"] = 0
      <3>1. slots + TotalOf(got) <= Concurrency
        BY Zenon, <1>3, <1>5, <1>7
      <3>2. got \in [Class -> 0..Concurrency] /\ SchedulerTypeOK
        BY Zenon, <1>2, <1>5
      <3> HIDE DEF got, n
      <3> QED
        BY <2>1, <3>1, <3>2, ClaimEndsTyped, Zenon
    <2>3. at' = "top"
      BY <2>2, <1>3, <1>5, <1>7 DEF TotalOf
    <2>4. probe => probe'
      BY SMTT(30), <2>2, <1>3, <1>5, <1>7
    <2>5. SchedulerTypeOK'
      BY SMTT(30), <2>2, <2>3, <1>1, <1>2, <1>3, <1>4, SchedulerConstants DEF SchedulerTypeOK
    <2>6. Claiming'
      BY Zenon, <2>3 DEF Claiming
    <2>7. Announced'
      BY SMTT(30), <2>3, <2>4, <1>2, <1>4, <1>6 DEF Announced, Class
    <2> QED
      BY Zenon, <2>5, <2>6, <2>7 DEF SchedulerInv
  <1>8. CASE n # Limit
    <2>1. /\ at' = "second" /\ took' = got
          /\ UNCHANGED <<slots, prefer, probe, probing, outcome, idleWait>>
      BY <1>8 DEF FirstClaim
    <2>2. FirstClass' = FirstClass /\ SecondClass' = SecondClass /\ Limit' = Limit /\ Nothing' = Nothing
      BY Zenon, <2>1 DEF FirstClass, SecondClass, Limit, Nothing
    <2>3. n < Limit
      BY SMTT(30), <1>8, <1>3, <1>4
    <2>4. SchedulerTypeOK'
      BY SMTT(30), <2>1, <1>1, <1>2, <1>4, <1>5 DEF SchedulerTypeOK
    <2>5. Claiming'
      BY SMTT(30), <2>1, <2>2, <2>3, <1>2, <1>5 DEF Claiming
    <2>6. Announced'
      BY SMTT(30), <2>1, <2>2, <2>3, <1>1, <1>2, <1>4, <1>6 DEF Announced, Class
    <2> QED
      BY <2>4, <2>5, <2>6 DEF SchedulerInv
  <1> QED
    BY Zenon, <1>7, <1>8

\* The second claim: what it does not find it need not be woken for.
LEMMA SecondClaimKeeps ==
    ASSUME SchedulerInv, SecondClaim
    PROVE  SchedulerInv'
  <1> DEFINE n == IF SecondClass = "ordered" /\ ~probing THEN 0 ELSE Limit - TotalOf(took)
             m == Least(n, ready[SecondClass])
             got == [took EXCEPT ![SecondClass] = m]
  <1>1. /\ at = "second" /\ Takes(SecondClass, n)
        /\ ClaimEnds(got, "ok", probing)
        /\ UNCHANGED <<wake, halted, finished, probing, troubles>>
    BY DEF SecondClaim
  <1>2. /\ SchedulerTypeOK /\ slots < Concurrency /\ Announced
        /\ took[SecondClass] = 0 /\ took[FirstClass] < Limit
    BY Zenon, <1>1 DEF SchedulerInv, Claiming
  <1>3. Limit \in Nat /\ Limit > 0 /\ slots + Limit <= Concurrency /\ slots \in Nat /\ finished \in 0..slots
    BY <1>2, LimitFits, SchedulerConstants DEF SchedulerTypeOK
  <1>4. TotalOf(took) = took[FirstClass] /\ took[FirstClass] \in Nat
    BY <1>2, TwoClasses, SchedulerConstants DEF SchedulerTypeOK, TotalOf, Class
  <1>5. /\ n \in 0..(Limit - took[FirstClass])
        /\ n > 0 \/ (SecondClass = "ordered" /\ ~probing)
    BY <1>2, <1>3, <1>4
  <1>6. /\ ready' \in [Class -> 0..MaxReady] /\ told' \in [Class -> BOOLEAN]
        /\ \A d \in Class : told'[d] => told[d]
        /\ m \in 0..n
        /\ m < n => ~told'[SecondClass]
    <2>1. n \in Nat
      BY <1>3, <1>4, <1>5
    <2> HIDE DEF n
    <2> QED
      BY SMTT(30), <2>1, <1>1, <1>2, TakesCounts, TwoClasses
  <1> HIDE DEF n, m
  <1>7. /\ got \in [Class -> 0..Concurrency]
        /\ got[FirstClass] = took[FirstClass] /\ got[SecondClass] = m
        /\ slots + TotalOf(got) <= Concurrency
    <2>1. m \in 0..Concurrency /\ took \in [Class -> 0..Concurrency]
      BY SMTT(30), <1>2, <1>3, <1>4, <1>5, <1>6, SchedulerConstants DEF SchedulerTypeOK
    <2>2. /\ got \in [Class -> 0..Concurrency]
          /\ got[FirstClass] = took[FirstClass] /\ got[SecondClass] = m
      BY Zenon, <2>1, TwoClasses
    <2>3. TotalOf(got) = took[FirstClass] + m
      BY <2>1, <2>2, <1>4, TwoClasses DEF TotalOf, Class
    <2> QED
      BY SMTT(30), <2>2, <2>3, <1>3, <1>4, <1>5, <1>6, SchedulerConstants
  <1> HIDE DEF got
  <1>8. /\ took' \in [Class -> 0..Concurrency] /\ outcome' = "ok"
        /\ prefer' \in BOOLEAN /\ probe' \in BOOLEAN
        /\ slots' \in 0..Concurrency /\ slots <= slots'
        /\ idleWait' \in PollInterval..IdleBackoffMax
        /\ at' \in {"top", "select"}
        /\ at' = "select" => got["ordered"] = 0 /\ got["unordered"] = 0
        /\ probe /\ ~probe' => probing /\ got["ordered"] = 0
    BY <1>1, <1>2, <1>7, ClaimEndsTyped, Zenon
  <1>9. ASSUME ~wake, told'["ordered"] PROVE probe'
    <2>1. probe /\ probing /\ FirstClass # "ordered"
      BY <1>9, <1>1, <1>2, <1>6 DEF Announced, Class
    <2>2. SecondClass = "ordered" /\ n > 0
      BY <2>1, <1>5, TwoClasses DEF Class
    <2>3. m > 0
      BY <2>2, <1>9, <1>3, <1>4, <1>5, <1>6
    <2> QED
      BY SMTT(30), <2>1, <2>2, <2>3, <1>7, <1>8
  <1>10. ASSUME ~wake, at' = "select" PROVE \A c \in Class : ~told'[c]
    <2>1. ~told[FirstClass] /\ m = 0
      BY Zenon, <1>10, <1>1, <1>2, <1>7, <1>8, TwoClasses DEF Announced, Class
    <2>2. CASE n > 0
      BY Zenon, <2>1, <2>2, <1>6, TwoClasses
    <2>3. CASE SecondClass = "ordered" /\ ~probing
      BY SMTT(30), <2>1, <2>3, <1>10, <1>1, <1>2, <1>6, TwoClasses DEF Announced
    <2> QED
      BY Zenon, <2>2, <2>3, <1>5
  <1>11. SchedulerTypeOK'
    BY SMTT(30), <1>8, <1>1, <1>2, <1>3, <1>6, SchedulerConstants DEF SchedulerTypeOK
  <1>12. Claiming'
    BY Zenon, <1>8 DEF Claiming
  <1>13. Announced'
    BY SMTT(30), <1>1, <1>8, <1>9, <1>10 DEF Announced
  <1> QED
    BY <1>11, <1>12, <1>13 DEF SchedulerInv

\* A claim that fails gives announced rows up to the timer.
LEMMA ClaimErrorsKeeps ==
    ASSUME SchedulerInv, ClaimErrors
    PROVE  SchedulerInv'
  <1> DEFINE probed == at = "second" /\ probing
  <1>1. /\ at \in {"first", "second"} /\ ClaimEnds(took, "error", probed)
        /\ told' = GivenUp
        /\ UNCHANGED <<ready, wake, halted, finished, probing>>
        /\ troubles' \in 0..MaxTroubles
    BY SchedulerConstants DEF ClaimErrors, Trouble, SchedulerInv, SchedulerTypeOK
  <1>2. SchedulerTypeOK /\ slots < Concurrency /\ took \in [Class -> 0..Concurrency]
    BY <1>1 DEF SchedulerInv, Claiming, SchedulerTypeOK
  <1>3. slots + TotalOf(took) <= Concurrency
    <2>1. Limit \in Nat /\ Limit > 0 /\ slots + Limit <= Concurrency /\ slots \in Nat
      BY <1>2, LimitFits DEF SchedulerTypeOK
    <2>2. CASE at = "first"
      <3>1. took = Nothing
        BY <2>2 DEF SchedulerInv, Claiming
      <3>2. TotalOf(took) = 0
        BY <3>1 DEF Nothing, TotalOf, Class
      <3> QED
        BY <3>2, <2>1, SchedulerConstants
    <2>3. CASE at = "second"
      <3>0. took[SecondClass] = 0 /\ took[FirstClass] < Limit
        BY Zenon, <2>3 DEF SchedulerInv, Claiming
      <3>1. TotalOf(took) = took[FirstClass] /\ took[FirstClass] \in Nat /\ took[FirstClass] < Limit
        BY <3>0, <1>2, TwoClasses, SchedulerConstants DEF TotalOf, Class
      <3> QED
        BY <3>1, <2>1, SchedulerConstants
    <2> QED
      BY Zenon, <2>2, <2>3, <1>1
  <1> HIDE DEF probed
  <1>4. /\ took' \in [Class -> 0..Concurrency] /\ outcome' = "error"
        /\ prefer' \in BOOLEAN /\ probe' \in BOOLEAN
        /\ slots' \in 0..Concurrency /\ slots <= slots'
        /\ idleWait' \in PollInterval..IdleBackoffMax
        /\ at' \in {"top", "select"}
    BY <1>1, <1>2, <1>3, ClaimEndsTyped, Zenon
  <1>5. told' \in [Class -> BOOLEAN] /\ (~wake => \A c \in Class : ~told'[c])
    BY <1>1, Zenon DEF GivenUp
  <1>6. finished \in 0..slots'
    BY <1>2, <1>4, SchedulerConstants DEF SchedulerTypeOK
  <1>7. SchedulerTypeOK'
    BY Zenon, <1>1, <1>2, <1>4, <1>5, <1>6 DEF SchedulerTypeOK
  <1>8. Claiming'
    BY <1>4 DEF Claiming
  <1>9. Announced'
    BY Zenon, <1>1, <1>4, <1>5 DEF Announced, Class
  <1> QED
    BY <1>7, <1>8, <1>9 DEF SchedulerInv
-----------------------------------------------------------------------------
(* The rest of the loop, and what goes on around it.                        *)

\* The top of the loop, where a claim begins with the probe the wakeup asked for.
LEMMA LoopTopKeeps ==
    ASSUME SchedulerInv, LoopTop
    PROVE  SchedulerInv'
  <1> DEFINE busy == slots - finished
  <1>1. /\ SchedulerTypeOK /\ Announced /\ at = "top"
        /\ finished' = 0 /\ UNCHANGED <<ready, wake, halted, troubles>>
    BY DEF SchedulerInv, LoopTop
  <1>2. busy \in 0..Concurrency /\ Nothing \in [Class -> 0..Concurrency]
    BY <1>1, SchedulerConstants DEF SchedulerTypeOK, Nothing
  <1>3. CASE /\ busy = Concurrency /\ at' = "select" /\ slots' = busy
             /\ UNCHANGED <<told, prefer, probe, probing, took, outcome, idleWait>>
    <2>1. SchedulerTypeOK'
      BY SMTT(30), <1>1, <1>2, <1>3, SchedulerConstants DEF SchedulerTypeOK
    <2>2. Claiming' /\ Announced'
      BY <1>1, <1>2, <1>3, SchedulerConstants DEF Claiming, Announced
    <2> QED
      BY Zenon, <2>1, <2>2 DEF SchedulerInv
  <1>4. CASE /\ at' = "select" /\ outcome' = "paused"
             /\ slots' = busy /\ prefer' = Toggle /\ took' = Nothing
             /\ told' = GivenUp
             /\ UNCHANGED <<probe, probing, idleWait>>
    <2>1. told' \in [Class -> BOOLEAN] /\ (~wake => \A c \in Class : ~told'[c])
      BY <1>4, Zenon DEF GivenUp
    <2>2. prefer' \in BOOLEAN
      BY <1>4, Zenon DEF Toggle
    <2>3. SchedulerTypeOK'
      BY SMTT(30), <1>1, <1>2, <1>4, <2>1, <2>2, SchedulerConstants DEF SchedulerTypeOK
    <2>4. Claiming' /\ Announced'
      BY SMTT(30), <1>1, <1>4, <2>1 DEF Claiming, Announced, Class
    <2> QED
      BY <2>3, <2>4 DEF SchedulerInv
  <1>5. CASE /\ busy < Concurrency
             /\ at' = "first" /\ probing' = probe
             /\ slots' = busy /\ took' = Nothing
             /\ UNCHANGED <<told, prefer, probe, outcome, idleWait>>
    <2>1. SchedulerTypeOK'
      BY SMTT(30), <1>1, <1>2, <1>5, SchedulerConstants DEF SchedulerTypeOK
    <2>2. Claiming'
      BY Zenon, <1>5 DEF Claiming, Nothing
    <2>3. Announced'
      BY <1>1, <1>5 DEF Announced
    <2> QED
      BY <2>1, <2>2, <2>3 DEF SchedulerInv
  <1> QED
    BY Zenon, <1>3, <1>4, <1>5 DEF LoopTop

\* The three ways out of the select lead to the top of the loop.
LEMMA SelectKeeps ==
    ASSUME SchedulerInv, RunScheduler \/ SelectCompleted \/ SelectWake \/ SelectTimer
    PROVE  SchedulerInv'
  <1>1. SchedulerTypeOK /\ Announced
    BY DEF SchedulerInv
  <1>2. CASE RunScheduler \/ SelectTimer
    BY Zenon, <1>1, <1>2 DEF RunScheduler, SelectTimer, loop, SchedulerInv, SchedulerTypeOK, Claiming, Announced
  <1>3. CASE SelectCompleted
    <2>1. SchedulerTypeOK'
      BY <1>1, <1>3, SchedulerConstants DEF SelectCompleted, SchedulerTypeOK
    <2> QED
      BY Zenon, <2>1, <1>1, <1>3 DEF SelectCompleted, SchedulerInv, Claiming, Announced
  <1>4. CASE SelectWake
    <2>1. wake' \in BOOLEAN /\ probe' \in BOOLEAN /\ probe'
      BY <1>4, Zenon DEF SelectWake
    <2>2. idleWait' \in PollInterval..IdleBackoffMax
      BY <1>4, SchedulerConstants DEF SelectWake
    <2>3. SchedulerTypeOK'
      BY <1>1, <1>4, <2>1, <2>2 DEF SelectWake, SchedulerTypeOK
    <2> QED
      BY <2>1, <2>3, <1>1, <1>4 DEF SelectWake, SchedulerInv, Claiming, Announced
  <1> QED
    BY Zenon, <1>2, <1>3, <1>4

\* Rows, handlers, time and operators.
LEMMA AroundKeeps ==
    ASSUME SchedulerInv,
           \/ \E c \in Class : RowArrives(c)
           \/ HandlerReturns \/ ProbeTimePasses \/ OperatorPauses \/ OperatorResumes
    PROVE  SchedulerInv'
  <1>1. /\ UNCHANGED <<told, wake, at, slots, prefer, probing, took, outcome, idleWait>>
        /\ probe => probe'
    BY DEF RowArrives, HandlerReturns, ProbeTimePasses, OperatorPauses, OperatorResumes, loop
  <1>2. ready' \in [Class -> 0..MaxReady] /\ finished' \in 0..slots /\ troubles' \in 0..MaxTroubles
    <2>1. CASE \E c \in Class : RowArrives(c)
      BY <2>1, SchedulerConstants DEF RowArrives, SchedulerInv, SchedulerTypeOK
    <2>2. CASE HandlerReturns
      BY <2>2, SchedulerConstants DEF HandlerReturns, SchedulerInv, SchedulerTypeOK
    <2>3. CASE ProbeTimePasses \/ OperatorResumes
      BY Zenon, <2>3 DEF ProbeTimePasses, OperatorResumes, SchedulerInv, SchedulerTypeOK
    <2>4. CASE OperatorPauses
      BY <2>4, SchedulerConstants DEF OperatorPauses, Trouble, SchedulerInv, SchedulerTypeOK
    <2> QED
      BY <2>1, <2>2, <2>3, <2>4
  <1>3. halted' \in BOOLEAN /\ probe' \in BOOLEAN
    BY Zenon DEF RowArrives, HandlerReturns, ProbeTimePasses, OperatorPauses, OperatorResumes, loop,
           SchedulerInv, SchedulerTypeOK
  <1>4. SchedulerTypeOK'
    BY Zenon, <1>1, <1>2, <1>3 DEF SchedulerInv, SchedulerTypeOK
  <1>5. Claiming' /\ Announced'
    BY <1>1 DEF SchedulerInv, Claiming, Announced, FirstClass, SecondClass, Limit, Nothing
  <1> QED
    BY Zenon, <1>4, <1>5 DEF SchedulerInv

\* A notification always leaves a wakeup behind.
LEMMA ListenerKeeps ==
    ASSUME SchedulerInv, NEW c \in Class, ListenerSends(c)
    PROVE  SchedulerInv'
  <1>1. told' \in [Class -> BOOLEAN]
    BY Zenon DEF SchedulerInv, SchedulerTypeOK, ListenerSends
  <1>2. wake' = TRUE /\ UNCHANGED <<ready, halted, at, finished, troubles>> /\ UNCHANGED loop
    BY Zenon DEF ListenerSends
  <1>3. SchedulerTypeOK'
    BY Zenon, <1>1, <1>2 DEF SchedulerInv, SchedulerTypeOK, loop
  <1>4. Claiming' /\ Announced'
    BY Zenon, <1>2 DEF SchedulerInv, Claiming, Announced, FirstClass, SecondClass, Limit, Nothing, loop
  <1> QED
    BY Zenon, <1>3, <1>4 DEF SchedulerInv
-----------------------------------------------------------------------------
\* The inductive invariant of the scheduler holds in every state.
THEOREM SchedulerInvariance == SchedulerSpec => []SchedulerInv
  <1>1. SchedulerInv /\ [SchedulerNext]_schedulerVars => SchedulerInv'
    <2> SUFFICES ASSUME SchedulerInv, [SchedulerNext]_schedulerVars PROVE SchedulerInv'
      OBVIOUS
    <2>1. CASE SchedulerNext
      BY SMTT(30), <2>1, LoopTopKeeps, FirstClaimKeeps, SecondClaimKeeps, ClaimErrorsKeeps, SelectKeeps,
         AroundKeeps, ListenerKeeps DEF SchedulerNext
    <2>2. CASE UNCHANGED schedulerVars
      BY <2>2 DEF schedulerVars, loop, SchedulerInv, SchedulerTypeOK, Claiming, Announced,
                  FirstClass, SecondClass, Limit, Nothing
    <2> QED
      BY Zenon, <2>1, <2>2
  <1> QED
    BY <1>1, InitHolds, PTL DEF SchedulerSpec

\* claimAvailable never dispatches more handlers than there are slots, whichever
\* class it asks first and however many rows either has.
THEOREM SlotsSuffice == SchedulerSpec => []SchedulerTypeOK
  <1>1. SchedulerInv => SchedulerTypeOK
    BY Zenon DEF SchedulerInv
  <1> QED
    BY <1>1, SchedulerInvariance, PTL

\* When runScheduler waits in its select with a free slot after a claim that
\* went through, no announced row is left behind: a notification that raced
\* the claim is still in the wake channel.
THEOREM WakeupsArrive == SchedulerSpec => []NoLostWakeup
  <1>1. SchedulerInv => NoLostWakeup
    BY Zenon DEF SchedulerInv, Announced, NoLostWakeup
  <1> QED
    BY <1>1, SchedulerInvariance, PTL
-----------------------------------------------------------------------------
(* Rendezvous hashing.                                                      *)

LEMMA LeastNumber ==
    ASSUME NEW S \in SUBSET Nat, S # {}
    PROVE  \E k \in S : \A j \in S : k <= j
<1>. DEFINE Less == OpToRel(<, Nat)
<1>1. \E k \in S : \A j \in S : ~(<<j, k>> \in Less)
  BY Zenon, WFMin, NatLessThanWellFounded
<1>2. \A j, k \in Nat : <<j, k>> \in Less <=> j < k
  BY Zenon DEF OpToRel
<1>. HIDE DEF Less
<1>3. PICK k \in S : \A j \in S : ~(<<j, k>> \in Less)
  BY Zenon, <1>1
<1>4. ASSUME NEW j \in S PROVE k <= j
  <2>1. j \in Nat /\ k \in Nat
    OBVIOUS
  <2>2. ~(j < k)
    BY Zenon, <1>2, <1>3, <2>1
  <2>. QED  BY <2>1, <2>2
<1>. QED  BY Zenon, <1>4

\* What the loop of DesiredOwner looks for.
Best(p, m, S) == m \in S /\ \A o \in S \ {m} : Beats(p, m, o)

\* Higher scores first, and of equal scores the smaller name, is a total order.
LEMMA ScoreOrder ==
    ASSUME NEW a \in Nat, NEW b \in Nat, NEW c \in Nat,
           NEW x \in Nat, NEW y \in Nat, NEW z \in Nat
    PROVE  /\ (a > b \/ (a = b /\ x < y)) => ~(b > a \/ (b = a /\ y < x))
           /\ x # y => (a > b \/ (a = b /\ x < y)) \/ (b > a \/ (b = a /\ y < x))
           /\ (a > b \/ (a = b /\ x < y)) /\ (b > c \/ (b = c /\ y < z))
                => (a > c \/ (a = c /\ x < z))
  BY SMT

\* Of two relays exactly one has the better claim: scores that collide are
\* told apart by the names.
LEMMA BeatsIsTotal ==
    ASSUME NEW p \in VPartition, NEW m \in Instance, NEW n \in Instance
    PROVE  /\ Beats(p, m, n) => ~Beats(p, n, m)
           /\ m # n => Beats(p, m, n) \/ Beats(p, n, m)
           /\ \A o \in Instance : Beats(p, m, n) /\ Beats(p, n, o) => Beats(p, m, o)
<1>1. \A o \in Instance : Score[p][o] \in Nat /\ o \in Nat
  BY Zenon, MembershipConstants
<1>2. ASSUME NEW o \in Instance
      PROVE  /\ Beats(p, m, n) => ~Beats(p, n, m)
             /\ m # n => Beats(p, m, n) \/ Beats(p, n, m)
             /\ Beats(p, m, n) /\ Beats(p, n, o) => Beats(p, m, o)
  <2>1. /\ Score[p][m] \in Nat /\ Score[p][n] \in Nat /\ Score[p][o] \in Nat
        /\ m \in Nat /\ n \in Nat /\ o \in Nat
    BY Zenon, <1>1
  <2>. DEFINE Above(a, b, x, y) == a > b \/ (a = b /\ x < y)
  <2>2. /\ Above(Score[p][m], Score[p][n], m, n) => ~Above(Score[p][n], Score[p][m], n, m)
        /\ m # n => \/ Above(Score[p][m], Score[p][n], m, n)
                    \/ Above(Score[p][n], Score[p][m], n, m)
        /\ Above(Score[p][m], Score[p][n], m, n) /\ Above(Score[p][n], Score[p][o], n, o)
             => Above(Score[p][m], Score[p][o], m, o)
    BY <2>1, ScoreOrder
  <2>. QED  BY Zenon, <2>2 DEF Beats
<1>. QED  BY Zenon, <1>2

LEMMA BestExists ==
    ASSUME NEW p \in VPartition, NEW S0 \in SUBSET Instance, S0 # {}
    PROVE  \E m \in S0 : Best(p, m, S0)
<1>. DEFINE Without == {S \in SUBSET Instance : S # {} /\ ~\E m \in S : Best(p, m, S)}
            Sizes == {Cardinality(S) : S \in Without}
<1>1. ASSUME NEW S \in SUBSET Instance PROVE IsFiniteSet(S) /\ Cardinality(S) \in Nat
  BY Zenon, MembershipConstants, FS_Subset, FS_CardinalityType
<1>2. CASE Without # {}
  <2>1. Sizes \in SUBSET Nat /\ Sizes # {}
    BY Zenon, <1>1, <1>2
  <2>. HIDE DEF Sizes
  <2>2. PICK k \in Sizes : \A j \in Sizes : k <= j
    BY Zenon, <2>1, LeastNumber
  <2>3. PICK S \in Without : k = Cardinality(S)
    BY Zenon, <2>2 DEF Sizes
  <2>4. PICK x \in S : TRUE
    OBVIOUS
  <2>. DEFINE R == S \ {x}
  <2>5. IsFiniteSet(S) /\ Cardinality(S) \in Nat /\ Cardinality(R) = Cardinality(S) - 1
    BY Zenon, <1>1, <2>4, FS_RemoveElement
  <2>6. R \in SUBSET Instance /\ R \notin Without
    <3>1. Cardinality(R) \notin Sizes
      BY <2>1, <2>2, <2>3, <2>5
    <3>. QED  BY Zenon, <3>1 DEF Sizes
  <2>7. CASE R = {}
    BY Zenon, <2>4, <2>7 DEF Best
  <2>8. CASE R # {}
    <3>1. PICK m \in R : Best(p, m, R)
      BY Zenon, <2>6, <2>8
    <3>2. m \in Instance /\ x \in Instance /\ m # x
      BY Zenon, <2>4
    <3>3. CASE Beats(p, m, x)
      <4>1. Best(p, m, S)
        BY Zenon, <3>1, <3>3 DEF Best
      <4>. QED  BY Zenon, <4>1
    <3>4. CASE Beats(p, x, m)
      <4>1. ASSUME NEW o \in S \ {x} PROVE Beats(p, x, o)
        <5>1. o = m \/ Beats(p, m, o)
          BY Zenon, <3>1, <4>1 DEF Best
        <5>. QED  BY Zenon, <3>2, <3>4, <5>1, BeatsIsTotal
      <4>2. Best(p, x, S)
        BY Zenon, <2>4, <4>1 DEF Best
      <4>. QED  BY Zenon, <2>4, <4>2
    <3>. QED  BY Zenon, <3>2, <3>3, <3>4, BeatsIsTotal
  <2>. QED  BY Zenon, <2>7, <2>8
<1>. QED  BY Zenon, <1>2

\* DesiredOwner of a membership that is not empty is the member that beats all
\* others, and there is only one such member.
LEMMA OwnerIsBest ==
    ASSUME NEW p \in VPartition, NEW S \in SUBSET Instance, S # {}
    PROVE  /\ DesiredOwner(p, S) \in S /\ Best(p, DesiredOwner(p, S), S)
           /\ \A m \in S : Best(p, m, S) => m = DesiredOwner(p, S)
<1>. DEFINE d == DesiredOwner(p, S)
<1>1. \E m \in S : \A o \in S \ {m} : Beats(p, m, o)
  BY Zenon, BestExists DEF Best
<1>2. d \in S /\ \A o \in S \ {d} : Beats(p, d, o)
  BY Zenon, <1>1 DEF DesiredOwner
<1>. HIDE DEF d
<1>3. ASSUME NEW m \in S, Best(p, m, S), m # d PROVE FALSE
  <2>1. Beats(p, m, d) /\ Beats(p, d, m) /\ m \in Instance /\ d \in Instance
    BY Zenon, <1>2, <1>3 DEF Best
  <2>. QED  BY Zenon, <2>1, BeatsIsTotal
<1>. QED  BY Zenon, <1>2, <1>3 DEF d, Best

\* DesiredOwner moves no partition it need not move.  A relay that leaves takes
\* no partition from the others, and one that joins moves partitions to itself
\* only, whatever the scores are and wherever they collide.
THEOREM RendezvousMovesLittle ==
    ASSUME NEW p \in VPartition, NEW S \in SUBSET Instance, NEW x \in Instance
    PROVE  /\ DesiredOwner(p, S) # x => DesiredOwner(p, S \ {x}) = DesiredOwner(p, S)
           /\ DesiredOwner(p, S \cup {x}) \in {DesiredOwner(p, S), x}
<1>. DEFINE d == DesiredOwner(p, S)
            e == DesiredOwner(p, S \cup {x})
<1>1. CASE S = {}
  <2>1. S \ {x} = S /\ S \cup {x} = {x}
    BY Zenon, <1>1
  <2>2. DesiredOwner(p, {x}) \in {x}
    BY OwnerIsBest
  <2>. QED  BY Zenon, <2>1, <2>2
<1>2. CASE S # {}
  <2>1. d \in S /\ Best(p, d, S)
    BY Zenon, <1>2, OwnerIsBest
  <2>2. e \in S \cup {x} /\ Best(p, e, S \cup {x})
    BY OwnerIsBest
  <2>. HIDE DEF d, e
  <2>3. ASSUME d # x PROVE DesiredOwner(p, S \ {x}) = d
    <3>1. d \in S \ {x} /\ Best(p, d, S \ {x}) /\ S \ {x} \in SUBSET Instance /\ S \ {x} # {}
      BY Zenon, <2>1, <2>3 DEF Best
    <3>. QED  BY Zenon, <3>1, OwnerIsBest
  <2>4. ASSUME e # x PROVE e = d
    <3>1. e \in S /\ Best(p, e, S)
      BY Zenon, <2>2, <2>4 DEF Best
    <3>. QED  BY Zenon, <1>2, <3>1, OwnerIsBest DEF d
  <2>. QED  BY Zenon, <2>3, <2>4 DEF d, e
<1>. QED  BY Zenon, <1>1, <1>2
-----------------------------------------------------------------------------
(* Membership.                                                              *)

\* A counted disturbance stays within its bound.
LEMMA DisturbancesCounted ==
    ASSUME MembershipTypeOK, Disturbed \/ UNCHANGED disturbances
    PROVE  disturbances' \in 0 .. MaxDisturbances
  BY MembershipConstants DEF MembershipTypeOK, Disturbed

\* A partition's row: owned by somebody if it is leased.
Held == {h \in [owner : Instance \cup {Nobody}, valid : BOOLEAN] : h.valid => h.owner # Nobody}

LEMMA HolderTyped == MembershipTypeOK => \A p \in VPartition : holder[p] \in Held
  BY Zenon DEF MembershipTypeOK, Held

LEMMA ReleasedTyped ==
    ASSUME NEW h \in Held
    PROVE  Released(h) \in Held /\ [h EXCEPT !.valid = FALSE] \in Held
<1>. DEFINE record == [owner : Instance \cup {Nobody}, valid : BOOLEAN]
<1>1. h \in record
  BY DEF Held
<1>2. Released(h) \in record /\ Released(h).valid = FALSE
  BY Zenon, <1>1 DEF Released
<1>3. [h EXCEPT !.valid = FALSE] \in record /\ [h EXCEPT !.valid = FALSE].valid = FALSE
  BY Zenon, <1>1
<1>4. \A g \in record : g.valid = FALSE => g \in Held
  BY Zenon DEF Held
<1>. HIDE DEF record
<1>. QED  BY Zenon, <1>2, <1>3, <1>4

\* What reconcile makes of a partition.
LEMMA ReconciledTyped ==
    ASSUME NEW h \in Held, NEW i \in Instance, NEW d
    PROVE  Reconciled(h, i, d) \in Held
<1>1. i # Nobody
  BY Zenon, MembershipConstants
<1>2. CASE h.owner = i /\ d # i
  <2>1. Reconciled(h, i, d) = Released(h)
    BY Zenon, <1>2 DEF Reconciled
  <2>. QED  BY Zenon, <2>1, ReleasedTyped
<1>3. CASE d = i /\ (h.owner = i \/ ~h.valid)
  <2>1. Reconciled(h, i, d) = [owner |-> i, valid |-> TRUE]
    BY Zenon, <1>3 DEF Reconciled, HeldBy
  <2>. QED  BY <1>1, <2>1 DEF Held
<1>4. CASE ~(h.owner = i /\ d # i) /\ ~(d = i /\ (h.owner = i \/ ~h.valid))
  <2>1. Reconciled(h, i, d) = h
    BY Zenon, <1>4 DEF Reconciled
  <2>. QED  BY Zenon, <2>1
<1>. QED  BY Zenon, <1>2, <1>3, <1>4

LEMMA MembershipStart == MembershipInit => MembershipTypeOK
<1>. SUFFICES ASSUME MembershipInit PROVE MembershipTypeOK
  OBVIOUS
<1>1. Unheld \in [owner : Instance \cup {Nobody}, valid : BOOLEAN] /\ ~Unheld.valid
  BY Zenon DEF Unheld
<1>. QED  BY <1>1, MembershipConstants DEF MembershipInit, MembershipTypeOK

LEMMA MembershipStep == MembershipTypeOK /\ [MembershipNext]_membershipVars => MembershipTypeOK'
<1>. SUFFICES ASSUME MembershipTypeOK, [MembershipNext]_membershipVars PROVE MembershipTypeOK'
  OBVIOUS
<1>. DEFINE Relays == /\ life \in [Instance -> {"down", "running", "stopping", "released"}]
                      /\ presence \in [Instance -> {"none", "fresh", "stale", "stopped"}]
                      /\ lateBeat \in [Instance -> BOOLEAN]
                      /\ view \in [Instance -> (SUBSET Instance) \cup {NoView}]
<1>1. Relays /\ disturbances \in 0 .. MaxDisturbances
  BY Zenon DEF MembershipTypeOK
<1>2. \A p \in VPartition : holder[p] \in Held
  BY Zenon, HolderTyped
<1>3. ASSUME holder' \in [VPartition -> Held], Relays', Disturbed \/ UNCHANGED disturbances
      PROVE  MembershipTypeOK'
  BY Zenon, <1>3, DisturbancesCounted DEF MembershipTypeOK, Held
<1>4. ASSUME UNCHANGED holder PROVE holder' \in [VPartition -> Held]
  BY Zenon, <1>2, <1>4 DEF MembershipTypeOK
<1>5. ASSUME NEW i \in Instance,
             \/ RunStarts(i) \/ RunStartsUnregistered(i) \/ HeartbeatRelay(i)
             \/ PresenceGoesStale(i) \/ PresenceLapses(i) \/ ReleaseFailsHere(i)
      PROVE  MembershipTypeOK'
  <2>1. Relays' /\ UNCHANGED holder /\ (Disturbed \/ UNCHANGED disturbances)
    BY Zenon, <1>1, <1>5 DEF RunStarts, RunStartsUnregistered, HeartbeatRelay, PresenceGoesStale,
                      PresenceLapses, ReleaseFailsHere, Beaten
  <2>. QED  BY Zenon, <1>3, <1>4, <2>1
<1>6. ASSUME NEW i \in Instance, LateHeartbeat(i) \/ RunCancelled(i) \/ ProcessDies(i)
      PROVE  MembershipTypeOK'
  <2>1. Relays' /\ UNCHANGED holder /\ (Disturbed \/ UNCHANGED disturbances)
    BY Zenon, <1>1, <1>6 DEF LateHeartbeat, RunCancelled, ProcessDies, Beaten
  <2>. QED  BY Zenon, <1>3, <1>4, <2>1
<1>7. ASSUME NEW i \in Instance,
             \/ MarkRelayStopped(i) \/ MarkRelayStoppedFails(i) \/ ReconcileRollsBack(i)
             \/ ReadMembers(i)
      PROVE  MembershipTypeOK'
  <2>1. Relays' /\ UNCHANGED holder /\ (Disturbed \/ UNCHANGED disturbances)
    BY <1>1, <1>7 DEF MarkRelayStopped, MarkRelayStoppedFails, ReconcileRollsBack,
                      ReadMembers, Members
  <2>. QED  BY Zenon, <1>3, <1>4, <2>1
<1>8. ASSUME NEW i \in Instance, ReleaseOrderingPartitions(i) PROVE MembershipTypeOK'
  <2>1. Relays' /\ UNCHANGED disturbances
    BY Zenon, <1>1, <1>8 DEF ReleaseOrderingPartitions
  <2>2. holder' \in [VPartition -> Held]
    BY Zenon, <1>2, <1>8, ReleasedTyped DEF ReleaseOrderingPartitions
  <2>. QED  BY Zenon, <1>3, <2>1, <2>2
<1>9. ASSUME NEW i \in Instance, ReconcileCommits(i) PROVE MembershipTypeOK'
  <2>1. Relays' /\ UNCHANGED disturbances
    BY Zenon, <1>1, <1>9 DEF ReconcileCommits
  <2>2. holder' \in [VPartition -> Held]
    BY Zenon, <1>2, <1>9, ReconciledTyped DEF ReconcileCommits
  <2>. QED  BY Zenon, <1>3, <2>1, <2>2
<1>10. ASSUME NEW p \in VPartition, LeaseExpires(p) \/ LeaseLapsesUnrenewed(p)
       PROVE  MembershipTypeOK'
  <2>1. Relays' /\ (Disturbed \/ UNCHANGED disturbances)
    BY Zenon, <1>1, <1>10 DEF LeaseExpires, LeaseLapsesUnrenewed
  <2>. DEFINE lapsed == [holder[p] EXCEPT !.valid = FALSE]
  <2>2. holder' = [holder EXCEPT ![p] = lapsed]
    BY Zenon, <1>10 DEF LeaseExpires, LeaseLapsesUnrenewed
  <2>3. lapsed \in Held
    BY Zenon, <1>2, ReleasedTyped
  <2>. HIDE DEF lapsed
  <2>4. holder' \in [VPartition -> Held]
    BY Zenon, <1>2, <2>2, <2>3 DEF MembershipTypeOK
  <2>. QED  BY Zenon, <1>3, <2>1, <2>4
<1>11. CASE UNCHANGED membershipVars
  BY Zenon, <1>1, <1>3, <1>4, <1>11 DEF membershipVars
<1>. QED  BY SMTT(30), <1>5, <1>6, <1>7, <1>8, <1>9, <1>10, <1>11 DEF MembershipNext

\* No partition is validly leased by nobody, whatever reconciles, releases and
\* expirations overlap.
THEOREM MembershipTypesCorrect == MembershipSpec => []MembershipTypeOK
  BY MembershipStart, MembershipStep, PTL DEF MembershipSpec

\* Ownership has settled: nobody is shutting down, no heartbeat is on its way,
\* the fresh presence rows are those of relays that run, every open reconcile
\* has read them, and each partition is leased by its desired owner.
Serving == {i \in Running : presence[i] # "none"}
AtRest ==
    /\ \A i \in Instance : life[i] \in {"down", "running"} /\ ~lateBeat[i]
    /\ Members = Serving /\ Serving # {}
    /\ \A i \in Instance : view[i] \in {NoView, Members}
    /\ \A p \in VPartition : holder[p] = HeldBy(DesiredOwner(p, Serving))

\* Nothing goes wrong and no relay is started.
LeftAlone ==
    UNCHANGED disturbances /\ \A i \in Instance : life[i] = "down" => life'[i] = "down"

\* Steps that move no relay and no row leave the settled ownership.
LEMMA RestKept ==
    ASSUME AtRest, UNCHANGED <<life, lateBeat, Members, Serving, holder>>,
           \A i \in Instance : view'[i] \in {NoView, Members}
    PROVE  AtRest'
  BY Zenon DEF AtRest

LEMMA RestStep ==
    MembershipTypeOK /\ AtRest /\ [MembershipNext]_membershipVars /\ [LeftAlone]_membershipVars
        => AtRest'
<1>. SUFFICES ASSUME MembershipTypeOK, AtRest,
                     [MembershipNext]_membershipVars, [LeftAlone]_membershipVars
              PROVE  AtRest'
  OBVIOUS
<1>0. CASE UNCHANGED membershipVars
  <2>1. UNCHANGED <<life, lateBeat, view, holder>> /\ UNCHANGED <<Members, Serving>>
    BY Zenon, <1>0 DEF membershipVars, Serving, Running, Members
  <2>2. \A i \in Instance : view'[i] \in {NoView, Members}
    BY Zenon, <2>1 DEF AtRest
  <2>. QED  BY Zenon, <2>1, <2>2, RestKept
<1>. SUFFICES ASSUME MembershipNext, LeftAlone PROVE AtRest'
  BY Zenon, <1>0
<1>1. /\ life \in [Instance -> {"down", "running", "stopping", "released"}]
      /\ presence \in [Instance -> {"none", "fresh", "stale", "stopped"}]
      /\ view \in [Instance -> (SUBSET Instance) \cup {NoView}]
  BY Zenon DEF MembershipTypeOK
<1>2. ~Disturbed
  BY DEF Disturbed, LeftAlone, MembershipTypeOK
<1>3. \A i \in Instance : /\ life[i] \in {"down", "running"} /\ ~lateBeat[i]
                          /\ presence[i] = "fresh" <=> life[i] = "running" /\ presence[i] # "none"
  BY Zenon DEF AtRest, Members, Serving, Running
<1>4. \A i \in Instance : view[i] \in {NoView, Members}
  BY Zenon DEF AtRest
<1>5. \A p \in VPartition :
         /\ DesiredOwner(p, Serving) \in Serving
         /\ holder[p].owner = DesiredOwner(p, Serving) /\ life[holder[p].owner] = "running"
  <2>1. Serving \in SUBSET Instance /\ Serving # {}
    BY Zenon DEF AtRest, Serving, Running
  <2>2. \A p \in VPartition : DesiredOwner(p, Serving) \in Serving
    BY Zenon, <2>1, OwnerIsBest
  <2>3. ASSUME NEW p \in VPartition PROVE holder[p].owner = DesiredOwner(p, Serving)
    <3>1. holder[p] = HeldBy(DesiredOwner(p, Serving))
      BY Zenon DEF AtRest
    <3>. QED  BY <3>1 DEF HeldBy
  <2>4. \A i \in Serving : life[i] = "running"
    BY Zenon DEF Serving, Running
  <2>. QED  BY Zenon, <2>2, <2>3, <2>4
<1>6. ASSUME NEW i \in Instance,
             \/ RunStarts(i) \/ RunStartsUnregistered(i) \/ LateHeartbeat(i) \/ RunCancelled(i)
             \/ ReleaseOrderingPartitions(i) \/ ReleaseFailsHere(i) \/ MarkRelayStopped(i)
             \/ MarkRelayStoppedFails(i) \/ ProcessDies(i) \/ PresenceGoesStale(i)
             \/ PresenceLapses(i)
      PROVE  FALSE
  <2>1. ~RunStarts(i) /\ ~RunStartsUnregistered(i)
    BY Zenon, <1>1, <1>2 DEF RunStarts, RunStartsUnregistered, LeftAlone
  <2>2. /\ ~RunCancelled(i) /\ ~ReleaseFailsHere(i) /\ ~MarkRelayStoppedFails(i)
        /\ ~ProcessDies(i) /\ ~PresenceLapses(i)
    BY Zenon, <1>2 DEF RunCancelled, ReleaseFailsHere, MarkRelayStoppedFails, ProcessDies, PresenceLapses
  <2>3. ~LateHeartbeat(i) /\ ~ReleaseOrderingPartitions(i) /\ ~MarkRelayStopped(i)
    BY Zenon, <1>3 DEF LateHeartbeat, ReleaseOrderingPartitions, MarkRelayStopped
  <2>4. ~PresenceGoesStale(i)
    BY Zenon, <1>3 DEF PresenceGoesStale
  <2>. QED  BY SMTT(30), <1>6, <2>1, <2>2, <2>3, <2>4
<1>7. ASSUME NEW p \in VPartition, LeaseExpires(p) \/ LeaseLapsesUnrenewed(p) PROVE FALSE
  BY Zenon, <1>2, <1>5, <1>7 DEF LeaseExpires, LeaseLapsesUnrenewed
<1>8. ASSUME NEW i \in Instance, HeartbeatRelay(i) PROVE AtRest'
  <2>1. presence' = presence /\ UNCHANGED <<life, lateBeat, view, holder>>
    <3>1. Beaten(presence[i]) = presence[i]
      BY ZenonT(30), <1>3, <1>8 DEF HeartbeatRelay, Beaten
    <3>. QED  BY Zenon, <1>1, <1>8, <3>1 DEF HeartbeatRelay
  <2>. QED  BY Zenon, <1>4, <2>1, RestKept DEF Members, Serving, Running
<1>9. ASSUME NEW i \in Instance, ReadMembers(i) \/ ReconcileRollsBack(i) PROVE AtRest'
  <2>1. /\ UNCHANGED <<life, presence, lateBeat, holder>>
        /\ \A j \in Instance : view'[j] \in {view[j], NoView, Members}
    BY Zenon, <1>1, <1>9 DEF ReadMembers, ReconcileRollsBack
  <2>2. UNCHANGED <<life, lateBeat, Members, Serving, holder>>
    BY Zenon, <2>1 DEF Members, Serving, Running
  <2>. QED  BY SMTT(30), <1>4, <2>1, <2>2, RestKept
<1>10. ASSUME NEW i \in Instance, ReconcileCommits(i) PROVE AtRest'
  <2>1. /\ UNCHANGED <<life, presence, lateBeat>> /\ view[i] = Serving
        /\ \A j \in Instance : view'[j] \in {view[j], NoView}
        /\ holder' = [p \in VPartition |-> Reconciled(holder[p], i, DesiredOwner(p, Serving))]
    BY Zenon, <1>1, <1>4, <1>10 DEF ReconcileCommits, AtRest
  <2>2. ASSUME NEW p \in VPartition PROVE holder'[p] = HeldBy(DesiredOwner(p, Serving))
    <3>1. holder'[p] = Reconciled(holder[p], i, DesiredOwner(p, Serving))
          /\ holder[p] = HeldBy(DesiredOwner(p, Serving))
      BY Zenon, <2>1 DEF AtRest
    <3>2. CASE i = DesiredOwner(p, Serving)
      BY Zenon, <1>5, <3>1, <3>2 DEF Reconciled
    <3>3. CASE i # DesiredOwner(p, Serving)
      BY Zenon, <1>5, <3>1, <3>3 DEF Reconciled
    <3>. QED  BY Zenon, <3>2, <3>3
  <2>3. UNCHANGED <<life, lateBeat, Members, Serving>>
    BY Zenon, <2>1 DEF Members, Serving, Running
  <2>. QED  BY Zenon, <1>4, <2>1, <2>2, <2>3 DEF AtRest
<1>. QED  BY SMTT(30), <1>6, <1>7, <1>8, <1>9, <1>10 DEF MembershipNext

\* The other half of OwnershipSettles: once ownership has settled and the
\* cluster is left alone, no heartbeat, reconcile, rollback or expiration moves
\* a partition again, however many relays and partitions there are.
THEOREM SettledOwnershipStays ==
    MembershipSpec => [](AtRest /\ [][LeftAlone]_membershipVars => []AtRest)
  BY MembershipStart, MembershipStep, RestStep, PTL DEF MembershipSpec
-----------------------------------------------------------------------------
(* The components of MCProgress together.                                   *)

\* Every step of the composition is a step of one component that the others
\* do not notice.
LEMMA ProgressSteps ==
    [ProgressNext]_<<component, membershipVars, schedulerVars, operationsVars>> =>
        /\ [MembershipNext]_membershipVars
        /\ [SchedulerNext]_schedulerVars
        /\ [OperationsNext]_operationsVars
  BY DEF ProgressNext

\* Membership, scheduler and operator requests keep to their types in one
\* system as each does alone: no handler beyond the slots, no replay beyond
\* its limit, no lease without an owner.
THEOREM ProgressTypesCorrect == ProgressSpec => []ProgressTypeOK
<1>1. ProgressSpec => MembershipSpec /\ SchedulerSpec /\ OperationsSpec
  <2>1. ProgressInit => MembershipInit /\ SchedulerInit /\ OperationsInit
    BY DEF ProgressInit
  <2>. QED  BY <2>1, ProgressSteps, PTL
            DEF ProgressSpec, MembershipSpec, SchedulerSpec, OperationsSpec
<1>2. MembershipTypeOK /\ SchedulerTypeOK /\ OperationsTypeOK => ProgressTypeOK
  BY DEF ProgressTypeOK
<1>. QED  BY <1>1, <1>2, MembershipTypesCorrect, SlotsSuffice, OperationsTypesCorrect, PTL
=============================================================================
