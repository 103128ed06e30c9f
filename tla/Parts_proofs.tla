------------------------------ MODULE Parts_proofs ------------------------------
(***************************************************************************)
(* The parts outside the registry, for any threads, sizes and times: that  *)
(* the results of evictPod are true, that settings read one by one belong  *)
(* together, and that the log keeps what is recent.  At the end, that each *)
(* part behaves as its module says and keeps its types.                    *)
(***************************************************************************)
EXTENDS Registry_proofs, DeletionTracker_proofs, WellFoundedInduction

-----------------------------------------------------------------------------
(* The results of evictPod, whatever is refused, lost, deleted by others   *)
(* or put in the place of a pod that is gone.                              *)

\* TypeOK in two parts: the pods, and the goroutines with their history.
PodsOK ==
    /\ pod \in [Pods -> {"running", "leaving", "gone", "new"}]
    /\ grace \in [Pods -> Nat] /\ \A p \in Pods : grace[p] <= Grace[p]
    /\ patience \in [Pods -> 0 .. MaxGracefulTermination]

CallsOK ==
    /\ evictPC \in [Pods -> {"attempt", "sleep", "returned"}]
    /\ nap \in [Pods -> 0 .. WaitBetweenRetries]
    /\ result \in [Pods -> Evict!Results]
    /\ left \in 0 .. EvictionTime
    /\ lost \in [Pods -> BOOLEAN] /\ hit \in [Pods -> BOOLEAN]
    /\ \A p \in Pods : result[p] # "none" <=> evictPC[p] = "returned"

\* A goroutine that goes on has hit its pod only if it did not hear of it.
HitsAreHeardOf == \A p \in Pods : evictPC[p] # "returned" => (hit[p] => lost[p])

EvictionInv ==
    /\ PodsOK /\ CallsOK /\ HitsAreHeardOf
    /\ Evict!EvictedLeavesInTime /\ Evict!GivesUpOnlyOnFailure

\* A time that counts down starts in its range.
LEMMA GraceLimits ==
    ASSUME Evict!EvictionConstants
    PROVE  /\ MaxGracefulTermination \in 0 .. MaxGracefulTermination
           /\ WaitBetweenRetries \in 0 .. WaitBetweenRetries
  BY DEF Evict!EvictionConstants

\* Whoever deletes a leaving pod again, its grace period is within both limits.
LEMMA DeleteWithin ==
    ASSUME Evict!EvictionConstants, EvictionInv, NEW p \in Pods, Evict!Delete(p)
    PROVE  /\ pod' \in [Pods -> {"running", "leaving", "gone", "new"}]
           /\ grace' \in [Pods -> Nat] /\ \A q \in Pods : grace'[q] <= Grace[q]
           /\ hit' \in [Pods -> BOOLEAN]
           /\ pod'[p] \in {"leaving", "new"}
           /\ pod'[p] = "leaving" => grace'[p] <= MaxGracefulTermination
           /\ \A q \in Pods \ {p} : /\ pod'[q] = pod[q] /\ grace'[q] = grace[q]
                                    /\ hit'[q] = hit[q]
<1>1. /\ Grace[p] \in Nat /\ MaxGracefulTermination \in Nat
      /\ grace[p] \in Nat /\ grace[p] <= Grace[p]
  BY DEF Evict!EvictionConstants, EvictionInv, PodsOK
<1>2. CASE pod[p] = "new"
  BY <1>2 DEF Evict!Delete, EvictionInv, PodsOK, CallsOK
<1>3. CASE pod[p] # "new"
  <2>1. PICK g : /\ g = IF pod[p] = "leaving"
                        THEN Evict!Lesser(grace[p], Evict!maxTermination(p))
                        ELSE Evict!maxTermination(p)
                 /\ grace' = [grace EXCEPT ![p] = g]
    BY <1>3 DEF Evict!Delete
  <2>2. g \in Nat /\ g <= Grace[p] /\ g <= MaxGracefulTermination
    BY <1>1, <2>1 DEF Evict!Lesser, Evict!maxTermination
  <2>3. pod' = [pod EXCEPT ![p] = "leaving"] /\ hit' = [hit EXCEPT ![p] = TRUE]
    BY <1>3 DEF Evict!Delete
  <2>4. hit' \in [Pods -> BOOLEAN]
    BY <2>3 DEF EvictionInv, CallsOK
  <2> QED
    BY <1>1, <2>1, <2>2, <2>3, <2>4 DEF EvictionInv, PodsOK, CallsOK
<1> QED
  BY <1>2, <1>3

\* An eviction returns with all the patience there is.
LEMMA EvictKeeps ==
    ASSUME Evict!EvictionConstants, EvictionInv, NEW p \in Pods, Evict!Evict(p)
    PROVE  EvictionInv'
<1>1. /\ evictPC[p] = "attempt" /\ Evict!Delete(p) /\ UNCHANGED <<left, lost, nap>>
      /\ evictPC' = [evictPC EXCEPT ![p] = "returned"]
      /\ result' = [result EXCEPT ![p] = "evicted"]
      /\ patience' = [patience EXCEPT ![p] = MaxGracefulTermination]
  BY DEF Evict!Evict, Evict!Return
<1>2. PodsOK'
  BY <1>1, DeleteWithin DEF Evict!EvictionConstants, EvictionInv, PodsOK
<1>3. CallsOK'
  BY <1>1, DeleteWithin DEF EvictionInv, CallsOK, Evict!Results
<1>4. HitsAreHeardOf' /\ Evict!GivesUpOnlyOnFailure'
  BY <1>1, DeleteWithin DEF EvictionInv, CallsOK, HitsAreHeardOf,
                               Evict!GivesUpOnlyOnFailure
<1>5. Evict!EvictedLeavesInTime'
  BY <1>1, DeleteWithin DEF EvictionInv, PodsOK, CallsOK, Evict!EvictedLeavesInTime
<1> QED
  BY <1>2, <1>3, <1>4, <1>5 DEF EvictionInv

\* A lost answer leaves a goroutine that does not know of its eviction.
LEMMA AnswerLostKeeps ==
    ASSUME Evict!EvictionConstants, EvictionInv, NEW p \in Pods, Evict!AnswerLost(p)
    PROVE  EvictionInv'
<1>1. /\ evictPC[p] = "attempt" /\ Evict!Delete(p)
      /\ UNCHANGED <<left, result, patience>>
      /\ evictPC' = [evictPC EXCEPT ![p] = "sleep"]
      /\ nap' = [nap EXCEPT ![p] = WaitBetweenRetries]
      /\ lost' = [lost EXCEPT ![p] = TRUE]
  BY DEF Evict!AnswerLost, Evict!SleepOn
<1>2. PodsOK'
  BY <1>1, DeleteWithin DEF EvictionInv, PodsOK
<1>3. CallsOK'
  <2>1. nap' \in [Pods -> 0 .. WaitBetweenRetries]
    BY <1>1 DEF Evict!EvictionConstants, EvictionInv, CallsOK
  <2> QED
    BY <1>1, <2>1, DeleteWithin DEF EvictionInv, CallsOK, Evict!Results
<1>4. HitsAreHeardOf' /\ Evict!GivesUpOnlyOnFailure'
  BY <1>1, DeleteWithin DEF EvictionInv, CallsOK, HitsAreHeardOf,
                               Evict!GivesUpOnlyOnFailure
<1>5. Evict!EvictedLeavesInTime'
  BY <1>1, DeleteWithin DEF EvictionInv, PodsOK, CallsOK, Evict!EvictedLeavesInTime
<1> QED
  BY <1>2, <1>3, <1>4, <1>5 DEF EvictionInv

\* A pod that is gone was evicted as far as the caller is concerned; a refusal
\* and the end of a sleep do nothing to the pod.
LEMMA NoEffectKeeps ==
    ASSUME Evict!EvictionConstants, EvictionInv, NEW p \in Pods,
           Evict!NotFound(p) \/ Evict!Refused(p) \/ Evict!Wake(p)
    PROVE  EvictionInv'
<1>1. UNCHANGED <<pod, grace, left, lost, hit>> /\ evictPC[p] # "returned"
  BY DEF Evict!NotFound, Evict!Refused, Evict!Wake
<1>2. CASE \E r \in {"evicted", "timed out"} :
              Evict!Return(p, r) /\ (r = "evicted" => pod[p] = "gone")
  <2>1. PICK r \in {"evicted", "timed out"} :
            Evict!Return(p, r) /\ (r = "evicted" => pod[p] = "gone")
    BY <1>2
  <2>2. /\ evictPC' = [evictPC EXCEPT ![p] = "returned"]
        /\ result' = [result EXCEPT ![p] = r]
        /\ patience' = [patience EXCEPT ![p] = MaxGracefulTermination] /\ UNCHANGED nap
    BY <2>1 DEF Evict!Return
  <2>3. PodsOK'
    <3>1. patience' \in [Pods -> 0 .. MaxGracefulTermination]
      BY <2>2, GraceLimits DEF EvictionInv, PodsOK
    <3> QED
      BY <1>1, <3>1 DEF EvictionInv, PodsOK
  <2>4. CallsOK'
    BY <1>1, <2>2 DEF EvictionInv, CallsOK, Evict!Results
  <2>5. HitsAreHeardOf' /\ Evict!GivesUpOnlyOnFailure'
    BY <1>1, <2>2 DEF EvictionInv, CallsOK, HitsAreHeardOf,
                               Evict!GivesUpOnlyOnFailure
  <2>6. Evict!EvictedLeavesInTime'
    BY <1>1, <2>1, <2>2 DEF EvictionInv, PodsOK, CallsOK, Evict!EvictedLeavesInTime
  <2> QED
    BY <2>3, <2>4, <2>5, <2>6 DEF EvictionInv
<1>3. CASE /\ \E where \in {"attempt", "sleep"} :
                 evictPC' = [evictPC EXCEPT ![p] = where]
           /\ nap' \in {nap, [nap EXCEPT ![p] = WaitBetweenRetries]}
           /\ UNCHANGED <<result, patience>>
  <2>1. PodsOK' /\ Evict!EvictedLeavesInTime'
    BY <1>1, <1>3 DEF EvictionInv, PodsOK, Evict!EvictedLeavesInTime
  <2>2. CallsOK'
    BY <1>1, <1>3 DEF Evict!EvictionConstants, EvictionInv, CallsOK
  <2>3. HitsAreHeardOf' /\ Evict!GivesUpOnlyOnFailure'
    BY <1>1, <1>3 DEF EvictionInv, CallsOK, HitsAreHeardOf,
                               Evict!GivesUpOnlyOnFailure
  <2> QED
    BY <2>1, <2>2, <2>3 DEF EvictionInv
<1> QED
  BY <1>2, <1>3 DEF Evict!NotFound, Evict!Refused, Evict!Wake, Evict!NextAttempt,
                      Evict!SleepOn

\* Nobody else makes a pod run that was evicted, or leave later.
LEMMA OthersKeep ==
    ASSUME Evict!EvictionConstants, EvictionInv, NEW p \in Pods, Evict!Others(p)
    PROVE  EvictionInv'
<1>1. /\ UNCHANGED <<evictPC, nap, result, left, patience, lost, hit>>
      /\ \/ /\ pod[p] = "running" /\ pod' = [pod EXCEPT ![p] = "leaving"]
            /\ grace' = [grace EXCEPT ![p] = Grace[p]]
         \/ /\ pod[p] = "leaving" /\ pod' = [pod EXCEPT ![p] = "gone"]
            /\ grace' = [grace EXCEPT ![p] = 0]
         \/ pod[p] = "gone" /\ pod' = [pod EXCEPT ![p] = "new"] /\ grace' = grace
  BY DEF Evict!Others, Evict!UserDeletes, Evict!Stop, Evict!Recreate
<1>2. CallsOK' /\ HitsAreHeardOf' /\ Evict!GivesUpOnlyOnFailure'
  BY <1>1 DEF EvictionInv, CallsOK, HitsAreHeardOf,
                               Evict!GivesUpOnlyOnFailure
<1>3. PodsOK'
  BY <1>1 DEF Evict!EvictionConstants, EvictionInv, PodsOK
<1>4. Evict!EvictedLeavesInTime'
  BY <1>1 DEF EvictionInv, PodsOK, Evict!EvictedLeavesInTime
<1> QED
  BY <1>2, <1>3, <1>4 DEF EvictionInv

\* Grace and patience run out together.
LEMMA TickKeeps ==
    ASSUME Evict!EvictionConstants, EvictionInv, Evict!Tick PROVE EvictionInv'
<1>1. UNCHANGED <<pod, evictPC, result, lost, hit>>
  BY DEF Evict!Tick
<1>2. PodsOK'
  BY <1>1 DEF Evict!EvictionConstants, EvictionInv, PodsOK, Evict!Tick, Evict!Down
<1>3. CallsOK'
  <2>1. nap' \in [Pods -> 0 .. WaitBetweenRetries] /\ left' \in 0 .. EvictionTime
    BY DEF Evict!EvictionConstants, EvictionInv, CallsOK, Evict!Tick, Evict!Down
  <2> QED
    BY <1>1, <2>1 DEF EvictionInv, CallsOK
<1>4. HitsAreHeardOf' /\ Evict!GivesUpOnlyOnFailure'
  BY <1>1 DEF EvictionInv, HitsAreHeardOf, Evict!GivesUpOnlyOnFailure
<1>5. Evict!EvictedLeavesInTime'
  <2> SUFFICES ASSUME NEW p \in Pods, result[p] = "evicted"
               PROVE  /\ pod[p] # "running"
                      /\ (pod[p] = "leaving" => grace'[p] <= patience'[p])
    BY <1>1 DEF Evict!EvictedLeavesInTime
  <2>1. grace[p] \in Nat /\ patience[p] \in Nat
    BY DEF Evict!EvictionConstants, EvictionInv, PodsOK
  <2>2. /\ pod[p] # "running"
        /\ (pod[p] = "leaving" => grace[p] <= patience[p] /\ grace[p] > 0)
    BY DEF EvictionInv, Evict!EvictedLeavesInTime, Evict!Tick
  <2> QED
    BY <2>1, <2>2 DEF Evict!Tick, Evict!Down
<1> QED
  BY <1>2, <1>3, <1>4, <1>5 DEF EvictionInv

\* The goroutines evict as their module says, or do nothing.
LEMMA EvictionInvariance == PartsSpec => []EvictionInv
<1>1. PartsInit => EvictionInv
  <2> SUFFICES ASSUME PartsInit PROVE EvictionInv
    OBVIOUS
  <2>1. Evict!EvictionConstants /\ Evict!Init
    BY PartsAssumption DEF PartsInit
  <2>2. PodsOK
    BY <2>1 DEF Evict!EvictionConstants, Evict!Init, PodsOK
  <2>3. CallsOK
    BY <2>1 DEF Evict!EvictionConstants, Evict!Init, CallsOK, Evict!Results
  <2>4. HitsAreHeardOf /\ Evict!EvictedLeavesInTime /\ Evict!GivesUpOnlyOnFailure
    BY <2>1 DEF Evict!Init, HitsAreHeardOf, Evict!EvictedLeavesInTime,
                Evict!GivesUpOnlyOnFailure
  <2> QED
    BY <2>2, <2>3, <2>4 DEF EvictionInv
<1>2. ASSUME EvictionInv, Evict!Next PROVE EvictionInv'
  BY <1>2, PartsAssumption, EvictKeeps, AnswerLostKeeps, NoEffectKeeps, OthersKeep,
     TickKeeps DEF Evict!Next, Evict!CallStep
<1>3. ASSUME EvictionInv, UNCHANGED evictVars PROVE EvictionInv'
  BY <1>3 DEF evictVars, EvictionInv, PodsOK, CallsOK, HitsAreHeardOf,
              Evict!EvictedLeavesInTime, Evict!GivesUpOnlyOnFailure
<1>4. ASSUME EvictionInv, [PartsNext]_allVars PROVE EvictionInv'
  BY <1>2, <1>3, <1>4 DEF PartsNext, allVars
<1> QED
  BY <1>1, <1>4, PTL DEF PartsSpec

\* An evicted pod is gone when the longest grace period after the result is
\* over, and who gives up has not evicted its pod, unless an answer got lost.
THEOREM ResultsCorrect == PartsSpec => []ResultIsTrue
<1>1. EvictionInv => ResultIsTrue
  BY DEF EvictionInv, ResultIsTrue, Evict!ResultIsTrue
<1> QED
  BY <1>1, EvictionInvariance, PTL

\* The goroutines keep the types of their variables.
LEMMA EvictionTypes == EvictionInv => Evict!TypeOK
<1> SUFFICES ASSUME EvictionInv PROVE Evict!TypeOK
  OBVIOUS
<1>1. \A p \in Pods : grace[p] \in 0 .. Grace[p]
  BY PartsAssumption DEF Evict!EvictionConstants, EvictionInv, PodsOK
<1> QED
  BY <1>1 DEF EvictionInv, PodsOK, CallsOK, Evict!TypeOK

-----------------------------------------------------------------------------
(* The log.  Because the clock is read under the mutex, the items are in   *)
(* the order of their times; so what a truncation drops is outdated, for   *)
(* the thread that truncates and for all that come after it.               *)

\* The last items of a sequence.
SuffixOf(s, all) ==
    /\ Len(s) <= Len(all)
    /\ \A i \in 1 .. Len(s) : s[i] = all[Len(all) - Len(s) + i]

InOrderOfTime(all) ==
    \A i, j \in 1 .. Len(all) : i <= j => all[i].at <= all[j].at

\* What GetLogs does not return at time n.
Outdated(i, all, n) ==
    i <= Len(all) - maxItems \/ all[i].at <= n - itemLifetime

\* Who does something holds the mutex.
LogMutex == \A t \in Threads : doing[t] # "nothing" => logLock = t

\* No item is newer than the time n, and what the store lacks is outdated by then.
UpToDate(n) ==
    /\ \A i \in 1 .. Len(everything) : everything[i].at <= n
    /\ \A i \in 1 .. Len(everything) - Len(store) : Outdated(i, everything, n)

LogInv ==
    /\ Log!TypeOK /\ LogMutex
    /\ \A i \in 1 .. Len(everything) : everything[i].msg = i
    /\ InOrderOfTime(everything) /\ SuffixOf(store, everything)
    /\ UpToDate(clock)
    /\ \A t \in Threads : doing[t] # "nothing" =>
           now[t] <= clock /\ UpToDate(now[t])
    /\ \A t \in Threads : doing[t] = "logging" => Len(everything) < MaxLogs
    /\ DOMAIN got = Threads

\* A set of natural numbers has a least element.
LEMMA LeastOf ==
    ASSUME NEW T \in SUBSET Nat, T # {}
    PROVE  LET least == CHOOSE i \in T : \A j \in T : i <= j
           IN least \in T /\ \A j \in T : least <= j
<1>1. \E i \in T : \A j \in T : ~(<<j, i>> \in OpToRel(<, Nat))
  BY NatLessThanWellFounded, WFMin
<1>2. \E i \in T : \A j \in T : ~(j < i)
  BY <1>1, Zenon DEF OpToRel
<1>3. \E i \in T : \A j \in T : i <= j
  BY <1>2
<1> QED
  BY <1>3

\* A truncation at time n keeps the items that are recent then, and no others.
LEMMA CompactKeeps ==
    ASSUME Log!CollectorConstants, NEW n \in Nat,
           NEW all \in Seq(Log!Item), InOrderOfTime(all),
           NEW s \in Seq(Log!Item), SuffixOf(s, all),
           \A i \in 1 .. Len(all) - Len(s) : Outdated(i, all, n)
    PROVE  LET r == Log!compact(s, n)
           IN /\ r \in Seq(Log!Item) /\ Len(r) <= maxItems /\ SuffixOf(r, all)
              /\ \A i \in 1 .. Len(all) - Len(r) : Outdated(i, all, n)
              /\ \A i \in 1 .. Len(r) : ~Outdated(Len(all) - Len(r) + i, all, n)
<1> DEFINE first == Log!FirstKept(s)
           kept == {i \in first .. Len(s) : Log!Live(s[i], n)}
           skipped == Len(all) - Len(s)
           r == Log!compact(s, n)
<1>1. maxItems \in Nat /\ itemLifetime \in Nat
  BY DEF Log!CollectorConstants
<1>2. Len(s) \in Nat /\ Len(all) \in Nat /\ skipped \in Nat
  BY DEF SuffixOf
<1>3. /\ first \in Nat \ {0} /\ Len(s) - first + 1 <= maxItems
      /\ first > 1 => first + skipped = Len(all) - maxItems + 1
  BY <1>1, <1>2 DEF Log!FirstKept
<1>4. \A i \in 1 .. Len(s) : i + skipped \in 1 .. Len(all) /\ s[i] = all[i + skipped]
  BY <1>2 DEF SuffixOf
<1>5. \A i \in 1 .. Len(all) : all[i].at \in Nat
  <2>1. \A i \in 1 .. Len(all) : all[i] \in Log!Item
    OBVIOUS
  <2> QED
    BY <2>1 DEF Log!Item
<1>6. \A i \in 1 .. Len(s) : i < first => Outdated(i + skipped, all, n)
  BY <1>1, <1>2, <1>3 DEF Outdated
<1>7. \A i \in first .. Len(s) : i \notin kept => Outdated(i + skipped, all, n)
  <2> SUFFICES ASSUME NEW i \in first .. Len(s), i \notin kept
               PROVE  all[i + skipped].at <= n - itemLifetime
    BY DEF Outdated
  <2>1. ~(s[i].at > n - itemLifetime)
    BY DEF Log!Live
  <2>2. s[i] = all[i + skipped] /\ all[i + skipped].at \in Nat
    BY <1>2, <1>3, <1>4, <1>5
  <2> QED
    BY <1>1, <2>1, <2>2
<1>8. \A i \in 1 .. Len(s) : i \notin kept => Outdated(i + skipped, all, n)
  BY <1>2, <1>3, <1>6, <1>7
<1>9. CASE kept = {}
  <2>1. r = <<>>
    BY <1>9 DEF Log!compact
  <2>2. \A i \in 1 .. Len(all) : Outdated(i, all, n)
    <3> SUFFICES ASSUME NEW i \in 1 .. Len(all), i > skipped PROVE Outdated(i, all, n)
      BY <1>2
    <3>1. i - skipped \in 1 .. Len(s) /\ i = (i - skipped) + skipped
      BY <1>2
    <3> QED
      BY <1>8, <1>9, <3>1
  <2> QED
    BY <1>1, <1>2, <2>1, <2>2 DEF SuffixOf
<1>10. CASE kept # {}
  <2> DEFINE least == CHOOSE i \in kept : \A j \in kept : i <= j
  <2>1. least \in kept /\ \A j \in kept : least <= j
    <3>1. kept \in SUBSET Nat
      BY <1>2, <1>3
    <3> HIDE DEF kept
    <3> QED
      BY <1>10, <3>1, LeastOf
  <2>2. r = SubSeq(s, least, Len(s))
    BY <1>10 DEF Log!compact
  <2>3. least \in first .. Len(s) /\ Log!Live(s[least], n)
    BY <2>1
  <2> HIDE DEF first, kept, skipped, least, r
  <2>9. \A j \in first .. Len(s) : j < least => j \notin kept
    <3> SUFFICES ASSUME NEW j \in first .. Len(s), j < least, j \in kept PROVE FALSE
      OBVIOUS
    <3>1. least <= j
      BY <2>1
    <3> QED
      BY <1>2, <1>3, <2>3, <3>1
  <2>4. /\ r \in Seq(Log!Item) /\ Len(r) = Len(s) - least + 1
        /\ \A i \in 1 .. Len(r) : r[i] = s[least + i - 1]
    BY <1>2, <1>3, <2>2, <2>3
  <2>5. Len(r) \in Nat /\ Len(r) <= maxItems /\ Len(all) - Len(r) = skipped + least - 1
    BY <1>1, <1>2, <1>3, <2>3, <2>4 DEF skipped
  <2>6. SuffixOf(r, all)
    <3>1. ASSUME NEW i \in 1 .. Len(r) PROVE r[i] = all[Len(all) - Len(r) + i]
      <4>1. /\ least + i - 1 \in 1 .. Len(s)
            /\ (least + i - 1) + skipped = Len(all) - Len(r) + i
        <5>1. least \in 1 .. Len(s)
          BY <1>2, <1>3, <2>3
        <5>2. /\ i \in Nat /\ i >= 1 /\ i <= Len(s) - least + 1
              /\ Len(r) \in Nat /\ Len(all) - Len(r) = skipped + least - 1
          BY <1>2, <2>4, <2>5
        <5>3. least + i - 1 \in 1 .. Len(s)
          BY <1>2, <5>1, <5>2
        <5>4. least + i - 1 + skipped = (skipped + least - 1) + i
          BY <1>2, <5>1, <5>2
        <5> QED
          BY <5>2, <5>3, <5>4
      <4> QED
        BY <1>4, <2>4, <4>1
    <3> QED
      BY <1>2, <1>3, <2>3, <2>5, <3>1 DEF SuffixOf
  <2>7. ASSUME NEW i \in 1 .. Len(all) - Len(r) PROVE Outdated(i, all, n)
    <3>1. CASE i <= skipped
      BY <1>2, <3>1 DEF skipped
    <3>2. CASE i > skipped
      <4>1. /\ i - skipped \in 1 .. Len(s) /\ i - skipped < least
            /\ i = (i - skipped) + skipped
        BY <1>2, <1>3, <2>3, <2>5, <3>2
      <4>2. i - skipped \notin kept
        BY <1>3, <2>9, <4>1 DEF kept
      <4> QED
        BY <1>8, <4>1, <4>2
    <3> QED
      BY <1>2, <2>5, <3>1, <3>2
  <2>8. ASSUME NEW i \in 1 .. Len(r) PROVE ~Outdated(Len(all) - Len(r) + i, all, n)
    <3>1. all[skipped + least].at > n - itemLifetime
      BY <1>2, <1>3, <1>4, <2>3 DEF Log!Live
    <3>2. /\ skipped + least \in 1 .. Len(all)
          /\ Len(all) - Len(r) + i \in 1 .. Len(all)
          /\ skipped + least <= Len(all) - Len(r) + i
          /\ Len(all) - Len(r) + i > Len(all) - maxItems
      BY <1>1, <1>2, <1>3, <1>4, <2>3, <2>5
    <3>3. all[skipped + least].at <= all[Len(all) - Len(r) + i].at
      BY <3>2 DEF InOrderOfTime
    <3> QED
      BY <1>1, <1>5, <3>1, <3>2, <3>3 DEF Outdated
  <2> QED
    BY <2>4, <2>5, <2>6, <2>7, <2>8 DEF r
<1> QED
  BY <1>9, <1>10

\* The types that the steps of the log need.
LEMMA LogTypes ==
    ASSUME Log!CollectorConstants, LogInv
    PROVE  /\ clock \in Nat /\ maxItems \in Nat /\ itemLifetime \in Nat
           /\ Len(everything) \in Nat /\ Len(store) \in Nat
           /\ \A i \in 1 .. Len(everything) : everything[i].at \in Nat
           /\ \A t \in Threads : now[t] \in Nat
<1>1. clock \in Nat /\ maxItems \in Nat /\ itemLifetime \in Nat
  BY DEF Log!CollectorConstants, LogInv, Log!TypeOK
<1>2. Len(everything) \in Nat /\ Len(store) \in Nat
  BY DEF LogInv, Log!TypeOK
<1>3. \A i \in 1 .. Len(everything) : everything[i].at \in Nat
  <2>1. \A i \in 1 .. Len(everything) : everything[i] \in Log!Item
    BY DEF LogInv, Log!TypeOK
  <2> QED
    BY <2>1 DEF Log!Item
<1>4. \A t \in Threads : now[t] \in Nat
  BY DEF LogInv, Log!TypeOK
<1> QED
  BY <1>1, <1>2, <1>3, <1>4

\* What is outdated stays so.
LEMMA Later ==
    ASSUME Log!CollectorConstants, LogInv, NEW n \in Nat, NEW m \in Nat,
           n <= m, UpToDate(n)
    PROVE  UpToDate(m)
<1>1. \A i \in 1 .. Len(everything) : everything[i].at <= m
  BY LogTypes DEF UpToDate
<1>2. ASSUME NEW i \in 1 .. Len(everything) - Len(store)
      PROVE  Outdated(i, everything, m)
  <2>1. Outdated(i, everything, n) /\ i \in 1 .. Len(everything)
    BY LogTypes DEF UpToDate
  <2> QED
    BY <2>1, LogTypes DEF Outdated
<1> QED
  BY <1>1, <1>2 DEF UpToDate

\* A thread comes in when nobody is inside, and reads the time of the clock.
LEMMA EnterKeeps ==
    ASSUME Log!CollectorConstants, LogInv, NEW t \in Threads,
           \/ Log!GetLogs(t)
           \/ Log!Log(t)
    PROVE  LogInv'
<1>1. PICK what \in {"logging", "getting"} :
          /\ Log!Enter(t, what)
          /\ what = "logging" => Len(everything) < MaxLogs
  BY DEF Log!GetLogs, Log!Log
<1>2. /\ doing[t] = "nothing" /\ logLock = NoOne /\ logLock' = t
      /\ doing' = [doing EXCEPT ![t] = what] /\ now' = [now EXCEPT ![t] = clock]
      /\ UNCHANGED <<clock, store, got, everything>>
  BY <1>1 DEF Log!Enter, Log!Lock
<1>3. \A u \in Threads : u # t => doing'[u] = "nothing"
  BY <1>2 DEF Log!CollectorConstants, LogInv, Log!TypeOK, LogMutex
<1>4. Log!TypeOK'
  BY <1>2 DEF LogInv, Log!TypeOK
<1>5. LogMutex'
  BY <1>2, <1>3 DEF LogMutex
<1>6. \A u \in Threads : doing'[u] # "nothing" => u = t /\ now'[u] = clock
  BY <1>2, <1>3 DEF LogInv, Log!TypeOK
<1>7. \A u \in Threads : doing'[u] # "nothing" => now'[u] <= clock /\ UpToDate(now'[u])
  BY <1>6, LogTypes DEF LogInv
<1>8. \A n : UpToDate(n)' <=> UpToDate(n)
  BY <1>2 DEF UpToDate, Outdated
<1>9. \A u \in Threads : doing'[u] = "logging" => Len(everything) < MaxLogs
  BY <1>1, <1>2, <1>6 DEF LogInv, Log!TypeOK
<1> QED
  BY <1>2, <1>4, <1>5, <1>7, <1>8, <1>9 DEF LogInv, UpToDate, Outdated

\* The thread that leaves has truncated the store at the time it read, up to
\* which the invariant then holds, so also up to the clock.
LEMMA LeaveKeeps ==
    ASSUME Log!CollectorConstants, LogInv, NEW t \in Threads, doing[t] # "nothing",
           Log!Leave(t), DOMAIN got' = Threads,
           everything' \in Seq(Log!Item), Len(everything') <= MaxLogs,
           \A i \in 1 .. Len(everything') :
               everything'[i].msg = i /\ everything'[i].at <= now[t],
           InOrderOfTime(everything'),
           NEW s \in Seq(Log!Item), SuffixOf(s, everything'),
           \A i \in 1 .. Len(everything') - Len(s) : Outdated(i, everything', now[t]),
           store' = Log!compact(s, now[t])
    PROVE  /\ LogInv'
           /\ \A i \in 1 .. Len(store') :
                  ~Outdated(Len(everything') - Len(store') + i, everything', now[t])
           /\ \A i \in 1 .. Len(everything') - Len(store') :
                  Outdated(i, everything', now[t])
<1> DEFINE n == now[t]
<1>1. n \in Nat /\ n <= clock /\ clock \in Nat /\ itemLifetime \in Nat
  BY LogTypes DEF LogInv
<1>2. /\ logLock' = NoOne /\ doing' = [doing EXCEPT ![t] = "nothing"]
      /\ UNCHANGED <<clock, now>>
  BY DEF Log!Leave
<1> HIDE DEF n
<1>3. /\ store' \in Seq(Log!Item) /\ Len(store') <= maxItems
      /\ SuffixOf(store', everything')
      /\ \A i \in 1 .. Len(everything') - Len(store') : Outdated(i, everything', n)
      /\ \A i \in 1 .. Len(store') :
             ~Outdated(Len(everything') - Len(store') + i, everything', n)
  BY <1>1, CompactKeeps DEF n
<1>4. \A u \in Threads : doing'[u] = "nothing"
  BY <1>2 DEF LogInv, Log!TypeOK, LogMutex
<1>5. Log!TypeOK'
  BY <1>2, <1>3 DEF LogInv, Log!TypeOK
<1>6. \A i \in 1 .. Len(everything') : everything'[i].at \in Nat
  <2>1. \A i \in 1 .. Len(everything') : everything'[i] \in Log!Item
    OBVIOUS
  <2> QED
    BY <2>1 DEF Log!Item
<1>7. UpToDate(clock)'
  <2>1. \A i \in 1 .. Len(everything') : everything'[i].at <= clock
    BY <1>1, <1>6 DEF n
  <2>2. ASSUME NEW i \in 1 .. Len(everything') - Len(store')
        PROVE  Outdated(i, everything', clock)
    <3>1. i \in 1 .. Len(everything') /\ Outdated(i, everything', n)
      BY <1>3
    <3> QED
      BY <1>1, <1>6, <3>1 DEF Outdated
  <2> QED
    BY <1>2, <2>1, <2>2 DEF UpToDate
<1> QED
  BY <1>3, <1>4, <1>5, <1>7 DEF n, LogInv, LogMutex

\* The item that is logged is the newest of the log and of the store.
LEMMA LoggedKeeps ==
    ASSUME Log!CollectorConstants, LogInv, NEW t \in Threads, Log!Logged(t)
    PROVE  LogInv'
<1> DEFINE len == Len(everything)
           item == [msg |-> len + 1, at |-> now[t]]
           s == Append(store, item)
<1>1. /\ doing[t] = "logging" /\ Log!Leave(t)
      /\ everything' = Append(everything, item)
      /\ store' = Log!compact(s, now[t]) /\ DOMAIN got' = Threads
  BY DEF Log!Logged, LogInv
<1>2. /\ everything \in Seq(Log!Item) /\ store \in Seq(Log!Item)
      /\ len \in Nat /\ len < MaxLogs /\ MaxLogs \in Nat
      /\ now[t] \in 0 .. MaxTime /\ now[t] \in Nat
  BY <1>1, LogTypes DEF Log!CollectorConstants, LogInv, Log!TypeOK
<1>3. item \in Log!Item /\ item.msg = len + 1 /\ item.at = now[t]
  BY <1>2 DEF Log!Item
<1> HIDE DEF item, len
<1>4. /\ everything' \in Seq(Log!Item) /\ Len(everything') = len + 1
      /\ everything'[len + 1] = item
      /\ \A i \in 1 .. len : everything'[i] = everything[i]
  BY <1>1, <1>2, <1>3 DEF len
<1>5. /\ s \in Seq(Log!Item) /\ Len(s) = Len(store) + 1
      /\ s[Len(store) + 1] = item
      /\ \A i \in 1 .. Len(store) : s[i] = store[i]
  BY <1>2, <1>3
<1> HIDE DEF s
<1>6. UpToDate(now[t]) /\ SuffixOf(store, everything) /\ InOrderOfTime(everything)
  BY <1>1 DEF LogInv
<1>7. \A i \in 1 .. len + 1 : i \in 1 .. len \/ i = len + 1
  BY <1>2
<1>8. ASSUME NEW i \in 1 .. Len(everything')
      PROVE  everything'[i].msg = i /\ everything'[i].at <= now[t]
  BY <1>2, <1>3, <1>4, <1>6, <1>7 DEF len, LogInv, UpToDate
<1>9. InOrderOfTime(everything')
  <2> SUFFICES ASSUME NEW i \in 1 .. len + 1, NEW j \in 1 .. len + 1, i <= j
               PROVE  everything'[i].at <= everything'[j].at
    BY <1>4 DEF InOrderOfTime
  <2>1. CASE j = len + 1
    BY <1>3, <1>4, <1>8, <2>1
  <2>2. CASE j \in 1 .. len
    <3>1. i \in 1 .. len
      BY <1>2, <2>2
    <3> QED
      BY <1>4, <1>6, <2>2, <3>1 DEF len, InOrderOfTime
  <2> QED
    BY <1>7, <2>1, <2>2
<1>10. Len(store) \in Nat /\ Len(store) <= len
  BY <1>2, <1>6 DEF len, SuffixOf
<1>11. SuffixOf(s, everything')
  <2> SUFFICES ASSUME NEW i \in 1 .. Len(store) + 1
               PROVE  s[i] = everything'[(len + 1) - (Len(store) + 1) + i]
    BY <1>2, <1>4, <1>5, <1>10 DEF SuffixOf
  <2>1. CASE i \in 1 .. Len(store)
    <3>1. /\ (len + 1) - (Len(store) + 1) + i = len - Len(store) + i
          /\ len - Len(store) + i \in 1 .. len
      BY <1>2, <1>10, <2>1
    <3>2. store[i] = everything[len - Len(store) + i]
      BY <1>6, <2>1 DEF len, SuffixOf
    <3> QED
      BY <1>4, <1>5, <2>1, <3>1, <3>2
  <2>2. CASE i = Len(store) + 1
    <3>1. (len + 1) - (Len(store) + 1) + i = len + 1
      BY <1>2, <1>10, <2>2
    <3> QED
      BY <1>4, <1>5, <2>2, <3>1
  <2> QED
    BY <1>10, <2>1, <2>2
<1>12. ASSUME NEW i \in 1 .. Len(everything') - Len(s)
       PROVE  Outdated(i, everything', now[t])
  <2>1. i \in 1 .. len - Len(store) /\ i \in 1 .. len
    BY <1>2, <1>4, <1>5, <1>10
  <2>2. Outdated(i, everything, now[t])
    BY <1>6, <2>1 DEF len, UpToDate
  <2>3. everything'[i] = everything[i] /\ maxItems \in Nat
    BY <1>4, <2>1, LogTypes
  <2> QED
    BY <1>2, <1>4, <2>1, <2>2, <2>3 DEF len, Outdated
<1>13. doing[t] # "nothing" /\ Len(everything') <= MaxLogs
  BY <1>1, <1>2, <1>4
<1> QED
  BY <1>1, <1>4, <1>5, <1>8, <1>9, <1>11, <1>12, <1>13, LeaveKeeps

\* What a thread gets is what is not outdated at the time it read.
LEMMA GotLogsKeeps ==
    ASSUME Log!CollectorConstants, LogInv, NEW t \in Threads, Log!GotLogs(t)
    PROVE  /\ LogInv'
           /\ \A i \in 1 .. Len(store') :
                  ~Outdated(Len(everything) - Len(store') + i, everything, now[t])
           /\ \A i \in 1 .. Len(everything) - Len(store') :
                  Outdated(i, everything, now[t])
<1>1. /\ doing[t] = "getting" /\ Log!Leave(t) /\ everything' = everything
      /\ store' = Log!compact(store, now[t]) /\ DOMAIN got' = Threads
  BY DEF Log!GotLogs, LogInv
<1>2. /\ everything \in Seq(Log!Item) /\ store \in Seq(Log!Item)
      /\ Len(everything) <= MaxLogs
      /\ InOrderOfTime(everything) /\ SuffixOf(store, everything)
      /\ \A i \in 1 .. Len(everything) :
             everything[i].msg = i /\ everything[i].at <= now[t]
      /\ \A i \in 1 .. Len(everything) - Len(store) : Outdated(i, everything, now[t])
  BY <1>1 DEF LogInv, Log!TypeOK, UpToDate
<1> QED
  BY <1>1, <1>2, LeaveKeeps

\* The clock goes on, whoever is inside.
LEMMA LogTickKeeps ==
    ASSUME Log!CollectorConstants, LogInv, Log!Tick PROVE LogInv'
<1>1. /\ clock' = clock + 1 /\ clock' \in 0 .. MaxTime
      /\ UNCHANGED <<logLock, store, now, doing, got, everything>>
  BY DEF Log!Tick, Log!CollectorConstants, LogInv, Log!TypeOK
<1>2. UpToDate(clock')
  BY <1>1, LogTypes, Later DEF LogInv
<1>3. UpToDate(clock)'
  BY <1>1, <1>2 DEF UpToDate, Outdated
<1>4. \A t \in Threads : doing[t] # "nothing" => now[t] <= clock' /\ UpToDate(now[t])
  BY <1>1, LogTypes DEF LogInv
<1>5. \A t \in Threads : doing'[t] # "nothing" => now'[t] <= clock' /\ UpToDate(now[t])'
  BY <1>1, <1>4 DEF UpToDate, Outdated
<1>6. Log!TypeOK'
  BY <1>1 DEF LogInv, Log!TypeOK
<1>7. LogMutex' /\ InOrderOfTime(everything') /\ SuffixOf(store', everything')
  BY <1>1 DEF LogInv, LogMutex
<1>8. /\ \A i \in 1 .. Len(everything') : everything'[i].msg = i
      /\ \A t \in Threads : doing'[t] = "logging" => Len(everything') < MaxLogs
      /\ DOMAIN got' = Threads
  BY <1>1 DEF LogInv
<1> QED
  BY <1>3, <1>5, <1>6, <1>7, <1>8, Zenon DEF LogInv

\* The threads use the log as its module says, or do nothing.
LEMMA LogInvariance == PartsSpec => []LogInv
<1>1. PartsInit => LogInv
  BY PartsAssumption DEF PartsInit, Log!Init, Log!CollectorConstants, LogInv,
     Log!TypeOK, LogMutex, InOrderOfTime, SuffixOf, UpToDate
<1>2. ASSUME LogInv, Log!Next PROVE LogInv'
  BY <1>2, PartsAssumption, EnterKeeps, LoggedKeeps, GotLogsKeeps, LogTickKeeps
     DEF Log!Next
<1>3. ASSUME LogInv, UNCHANGED logVars PROVE LogInv'
  <2>1. UNCHANGED <<clock, logLock, store, now, doing, got, everything>>
    BY <1>3 DEF logVars
  <2>2. Log!TypeOK' /\ LogMutex'
    BY <1>3, <2>1 DEF LogInv, Log!TypeOK, LogMutex
  <2>3. \A n : UpToDate(n)' <=> UpToDate(n)
    BY <2>1 DEF UpToDate, Outdated
  <2> QED
    BY <1>3, <2>1, <2>2, <2>3 DEF LogInv, UpToDate, Outdated
<1>4. ASSUME LogInv, [PartsNext]_allVars PROVE LogInv'
  BY <1>2, <1>3, <1>4 DEF PartsNext, allVars
<1> QED
  BY <1>1, <1>4, PTL DEF PartsSpec

\* GetLogs returns, of all messages logged before, those of the last maxItems
\* that are younger than itemLifetime, in the order in which they were logged.
THEOREM GetsTheRecentCorrect == PartsSpec => GetsTheRecent
<1> DEFINE GotTheRecent(t) ==
        LET logs == got'[t].logs
        IN /\ {logs[i] : i \in DOMAIN logs} =
                 {everything[i] : i \in Log!Recent(got'[t].at)}
           /\ \A i, j \in DOMAIN logs : i < j => logs[i].msg < logs[j].msg
<1>1. ASSUME LogInv, LogInv', NEW t \in Threads, Log!GotLogs(t)
      PROVE  GotTheRecent(t)
  <2> DEFINE dropped == Len(everything) - Len(store')
             all == Len(everything)
             n == now[t]
  <2>1. /\ everything' = everything
        /\ got' = [got EXCEPT ![t] = [at |-> n, logs |-> store']]
    BY <1>1 DEF Log!GotLogs
  <2>2. /\ Len(store') \in Nat /\ Len(store') <= all
        /\ DOMAIN store' = 1 .. Len(store')
        /\ \A i \in 1 .. Len(store') : store'[i] = everything[dropped + i]
    BY <1>1, <2>1 DEF LogInv, Log!TypeOK, SuffixOf
  <2>3. /\ \A i \in 1 .. Len(store') : ~Outdated(dropped + i, everything, n)
        /\ \A i \in 1 .. dropped : Outdated(i, everything, n)
    BY <1>1, PartsAssumption, GotLogsKeeps
  <2>4. /\ all \in Nat /\ n \in Nat /\ maxItems \in Nat /\ itemLifetime \in Nat
        /\ \A i \in 1 .. all : everything[i].at \in Nat
    BY <1>1, PartsAssumption, LogTypes
  <2>5. dropped \in Nat /\ dropped + Len(store') = all
    BY <2>2, <2>4
  <2>6. Log!Recent(n) = {i \in 1 .. all : ~Outdated(i, everything, n)}
    BY <2>4 DEF Log!Recent, Outdated
  <2> HIDE DEF dropped, all, n
  <2>7. {store'[i] : i \in 1 .. Len(store')} = {everything[i] : i \in Log!Recent(n)}
    <3>1. ASSUME NEW i \in 1 .. Len(store')
          PROVE  dropped + i \in Log!Recent(n) /\ store'[i] = everything[dropped + i]
      BY <2>2, <2>3, <2>4, <2>5, <2>6
    <3>2. ASSUME NEW i \in Log!Recent(n)
          PROVE  i - dropped \in 1 .. Len(store') /\ store'[i - dropped] = everything[i]
      <4>1. i \in 1 .. all /\ ~(i \in 1 .. dropped)
        BY <2>3, <2>6
      <4>2. i - dropped \in 1 .. Len(store') /\ dropped + (i - dropped) = i
        BY <2>2, <2>4, <2>5, <4>1
      <4> QED
        BY <2>2, <4>2
    <3> QED
      BY <3>1, <3>2
  <2>8. ASSUME NEW i \in 1 .. Len(store'), NEW j \in 1 .. Len(store'), i < j
        PROVE  store'[i].msg < store'[j].msg
    <3>1. dropped + i \in 1 .. all /\ dropped + j \in 1 .. all
      BY <2>2, <2>4, <2>5
    <3>2. store'[i].msg = dropped + i /\ store'[j].msg = dropped + j
      BY <1>1, <2>2, <3>1 DEF all, LogInv
    <3> QED
      BY <2>5, <2>8, <3>2
  <2>9. got'[t].logs = store' /\ got'[t].at = n
    BY <1>1, <2>1 DEF LogInv
  <2> QED
    BY <2>2, <2>7, <2>8, <2>9
<1>2. ASSUME LogInv, LogInv', [PartsNext]_allVars, NEW t \in Threads, got'[t] # got[t]
      PROVE  GotTheRecent(t)
  <2>1. Log!Next
    BY <1>2 DEF PartsNext, allVars, logVars
  <2>2. PICK u \in Threads : Log!GotLogs(u)
    BY <1>2, <2>1 DEF Log!Next, Log!Log, Log!GetLogs, Log!Enter, Log!Logged, Log!Tick
  <2>3. u = t
    BY <1>2, <2>2 DEF Log!GotLogs
  <2> QED
    BY <1>1, <1>2, <2>2, <2>3
<1>3. ASSUME LogInv, LogInv', [PartsNext]_allVars
      PROVE  [\A t \in Threads : got'[t] # got[t] => GotTheRecent(t)]_logVars
  BY <1>2, <1>3
<1> QED
  BY <1>3, LogInvariance, PTL DEF PartsSpec, GetsTheRecent, Log!GetsTheRecent, logVars,
     Log!vars

-----------------------------------------------------------------------------
(* The settings, read one by one while their objects change.               *)

Values == Sites \union {Empty, Gone} \union Setting!Bounds

\* The id is that of the cluster the values before it name together, or none.
IdOfValues ==
    values[5] \in
        {Setting!GetIDCluster(values[1], values[2], values[3], values[4]), Empty}

SettingsInv ==
    /\ Setting!TypeOK /\ values \in Seq(Values)
    /\ call # "none" => outcome = "none"
    /\ call = "replace" /\ Len(values) >= 5 => IdOfValues
    /\ Setting!Replacing => Len(values) = 7 /\ IdOfValues
    /\ outcome = "login" => \E s \in Sites : \A i \in 1 .. 4 : values[i] = s

\* An id is that of the cluster that is asked for, in its own site.
LEMMA IdIsOfTheSite ==
    ASSUME NEW token, NEW vpc, NEW url, NEW cluster
    PROVE  LET id == Setting!GetIDCluster(token, vpc, url, cluster)
           IN /\ id \in Sites \union {Empty}
              /\ id # Empty => id = cluster /\ token = id /\ vpc = id /\ url = id
  BY DEF Setting!GetIDCluster, Setting!Listed

\* What the readers return, at the place where it is kept.
LEMMA ReplaceReads ==
    ASSUME Setting!SettingsConstants, SettingsInv, Len(values) < 7,
           NEW v \in Setting!ReplaceReaders[Len(values) + 1]
    PROVE  /\ v \in Values
           /\ Len(values) + 1 = 5 =>
                  v \in {Setting!GetIDCluster(values[1], values[2], values[3], values[4]),
                         Empty, Gone}
<1>1. Len(values) \in 0 .. 6
  <2>1. Len(values) \in Nat
    BY DEF SettingsInv
  <2>2. \A k \in Nat : k < 7 => k \in 0 .. 6
    OBVIOUS
  <2> QED
    BY <2>1, <2>2
<1>2. secret \in Values /\ Empty \in Values /\ Gone \in Values
  BY DEF SettingsInv, Setting!TypeOK, Values
<1>3. /\ Setting!GetCallBackURL \in Values
      /\ Setting!GetMaxSize \in Values /\ Setting!GetMinSize \in Values
  BY DEF SettingsInv, Setting!TypeOK, Setting!Limits, Values, Setting!GetCallBackURL,
         Setting!GetMaxSize, Setting!GetMinSize
<1>4. Len(values) + 1 = 1 => v = secret
  BY DEF Setting!ReplaceReaders, Setting!GetAccessToken
<1>5. Len(values) + 1 = 2 => v = secret
  BY DEF Setting!ReplaceReaders, Setting!GetVPCId
<1>6. Len(values) + 1 = 3 => v = Setting!GetCallBackURL
  BY DEF Setting!ReplaceReaders
<1>7. Len(values) + 1 = 4 => v = secret
  BY DEF Setting!ReplaceReaders, Setting!GetClusterID
<1>8. Len(values) + 1 = 5 =>
          v \in {Setting!GetIDCluster(values[1], values[2], values[3], values[4]),
                 Empty, Gone}
  BY <1>1 DEF Setting!ReplaceReaders
<1>9. Len(values) + 1 = 6 => v = Setting!GetMaxSize
  BY DEF Setting!ReplaceReaders
<1>10. Len(values) + 1 = 7 => v = Setting!GetMinSize
  BY DEF Setting!ReplaceReaders
<1>11. Setting!GetIDCluster(values[1], values[2], values[3], values[4]) \in Values
  BY IdIsOfTheSite DEF Values
<1>12. Len(values) + 1 \in {1, 2, 3, 4, 5, 6, 7}
  BY <1>1
<1>13. v \in Values
  BY <1>2, <1>3, <1>4, <1>5, <1>6, <1>7, <1>8, <1>9, <1>10, <1>11, <1>12
<1> QED
  BY <1>8, <1>13

\* A value that was read is kept, and a missing object ends the call.
LEMMA GotKeeps ==
    ASSUME Setting!SettingsConstants, SettingsInv, NEW v \in Values,
           call # "none", Len(values) < 7, Setting!Got(v),
           call = "replace" /\ Len(values) + 1 = 5 =>
               v \in {Setting!GetIDCluster(values[1], values[2], values[3],
                                           values[4]), Empty, Gone}
    PROVE  SettingsInv'
<1>1. /\ values' = Append(values, v)
      /\ UNCHANGED <<secret, csi, limits, listed, edits>>
  BY DEF Setting!Got, Setting!objects
<1>2. /\ values \in Seq(Values) /\ Len(values) \in Nat
      /\ outcome = "none"
  BY DEF SettingsInv
<1>3. /\ values' \in Seq(Values) /\ Len(values') = Len(values) + 1
      /\ DOMAIN values' = 1 .. Len(values) + 1
      /\ values'[Len(values) + 1] = v
      /\ \A i \in 1 .. Len(values) : values'[i] = values[i]
  BY <1>1, <1>2
<1>4. CASE v = Gone
  <2>1. call' = "none" /\ outcome' = "exit"
    BY <1>4 DEF Setting!Got
  <2>2. Setting!TypeOK'
    BY <1>1, <1>2, <1>3, <2>1 DEF SettingsInv, Setting!TypeOK, Setting!Outcomes
  <2> QED
    BY <1>3, <2>1, <2>2 DEF SettingsInv, Setting!Replacing
<1>5. CASE v # Gone
  <2>1. call' = call /\ outcome' = outcome
    BY <1>5 DEF Setting!Got
  <2>2. \A i \in DOMAIN values' : values'[i] # Gone
    <3>1. DOMAIN values = 1 .. Len(values)
      BY <1>2
    <3>2. \A i \in 1 .. Len(values) : values[i] # Gone
      BY <3>1 DEF SettingsInv, Setting!TypeOK
    <3>3. \A i \in 1 .. Len(values) + 1 : i \in 1 .. Len(values) \/ i = Len(values) + 1
      BY <1>2
    <3> QED
      BY <1>3, <1>5, <3>2, <3>3
  <2>3. Setting!TypeOK'
    <3>1. Len(values') <= 7
      BY <1>2, <1>3
    <3> QED
      BY <1>1, <2>1, <2>2, <3>1 DEF SettingsInv, Setting!TypeOK
  <2>4. ASSUME call = "replace", Len(values') >= 5 PROVE IdOfValues'
    <3>1. CASE Len(values) >= 5
      BY <1>2, <1>3, <2>4, <3>1 DEF SettingsInv, IdOfValues, Setting!GetIDCluster,
                                    Setting!Listed
    <3>2. CASE Len(values) + 1 = 5
      BY <1>2, <1>3, <1>5, <2>4, <3>2 DEF IdOfValues, Setting!GetIDCluster, Setting!Listed
    <3> QED
      BY <1>2, <1>3, <2>4, <3>1, <3>2
  <2> QED
    BY <1>1, <1>2, <1>3, <2>1, <2>3, <2>4 DEF SettingsInv, Setting!Replacing
<1> QED
  BY <1>4, <1>5

\* Every value is read from the object as it is.
LEMMA ReadKeeps ==
    ASSUME Setting!SettingsConstants, SettingsInv, Setting!Read PROVE SettingsInv'
<1>1. CASE call = "reboot" /\ Len(values) < 5
            /\ Setting!Got(Setting!RebootReaders[Len(values) + 1])
  <2>1. Len(values) \in Nat
    BY DEF SettingsInv
  <2>2. Len(values) + 1 \in {1, 2, 3, 4, 5}
    BY <1>1, <2>1
  <2>3. Setting!RebootReaders[Len(values) + 1] \in {secret, csi}
    BY <2>2 DEF Setting!RebootReaders, Setting!GetUserName, Setting!GetPassword,
                Setting!GetHost, Setting!GetORG, Setting!GetVDC
  <2>4. Setting!RebootReaders[Len(values) + 1] \in Values
    BY <2>3 DEF SettingsInv, Setting!TypeOK, Values
  <2>5. Len(values) < 7
    BY <1>1, <2>1
  <2> HIDE DEF Setting!RebootReaders
  <2> QED
    BY <1>1, <2>4, <2>5, GotKeeps
<1>2. CASE /\ call = "replace" /\ Len(values) < 7
            /\ \E v \in Setting!ReplaceReaders[Len(values) + 1] : Setting!Got(v)
  BY <1>2, ReplaceReads, GotKeeps
<1> QED
  BY <1>1, <1>2 DEF Setting!Read

\* A login is decided with the four values, an order with all seven.
LEMMA DecideKeeps ==
    ASSUME Setting!SettingsConstants, SettingsInv, Setting!LogIn \/ Setting!Decide
    PROVE  SettingsInv'
<1>1. UNCHANGED <<secret, csi, limits, listed, values, edits>> /\ call' = "none"
  BY DEF Setting!LogIn, Setting!Decide, Setting!objects
<1>2. outcome' \in Setting!Outcomes
  BY DEF Setting!LogIn, Setting!Decide, Setting!Outcomes
<1>3. Setting!TypeOK'
  BY <1>1, <1>2 DEF SettingsInv, Setting!TypeOK
<1>4. Setting!Replacing' => Len(values) = 7 /\ IdOfValues
  <2>1. CASE Setting!LogIn
    BY <2>1 DEF Setting!Replacing, Setting!LogIn
  <2>2. CASE Setting!Decide
    <3>1. call = "replace" /\ Len(values) = 7
      BY <2>2 DEF Setting!Decide
    <3>2. Len(values) >= 5
      BY <3>1
    <3>3. IdOfValues
      BY <3>1, <3>2 DEF SettingsInv
    <3> QED
      BY <3>1, <3>3
  <2> QED
    BY <2>1, <2>2
<1>5. outcome' = "login" => \E s \in Sites : \A i \in 1 .. 4 : values[i] = s
  BY DEF Setting!LogIn, Setting!Decide
<1> QED
  BY <1>1, <1>3, <1>4, <1>5 DEF SettingsInv, IdOfValues, Setting!GetIDCluster,
                                Setting!Listed

\* A new call starts with nothing; objects change under the one that runs.
LEMMA SettingsStep ==
    ASSUME Setting!SettingsConstants, SettingsInv, [Setting!Next]_settingVars
    PROVE  SettingsInv'
<1>1. ASSUME NEW what \in {"reboot", "replace"}, Setting!Start(what) PROVE SettingsInv'
  <2>1. /\ call' = what /\ values' = <<>> /\ outcome' = "none"
        /\ UNCHANGED <<secret, csi, limits, listed, edits>>
    BY <1>1 DEF Setting!Start, Setting!objects
  <2>2. Len(values') = 0 /\ DOMAIN values' = {} /\ values' \in Seq(Values)
    BY <2>1
  <2>3. Setting!TypeOK'
    <3>1. Len(values') <= 7 /\ \A i \in DOMAIN values' : values'[i] # Gone
      BY <2>2
    <3> QED
      BY <2>1, <3>1 DEF SettingsInv, Setting!TypeOK, Setting!Outcomes
  <2>4. ~(Len(values') >= 5)
    BY <2>2
  <2>5. ~Setting!Replacing' /\ outcome' # "login"
    BY <2>1 DEF Setting!Replacing
  <2> QED
    BY <2>1, <2>2, <2>3, <2>4, <2>5 DEF SettingsInv
<1>2. CASE Setting!Edit \/ Setting!Scale
  <2>1. UNCHANGED <<call, values, outcome>>
    BY <1>2 DEF Setting!Edit, Setting!Scale, Setting!objects
  <2>2. Setting!TypeOK'
    <3>1. CASE Setting!Edit
      <4>1. edits' \in 0 .. MaxEdits
        BY <3>1 DEF Setting!Edit, SettingsInv, Setting!TypeOK, Setting!SettingsConstants
      <4>2. /\ secret' \in Sites \union {Empty, Gone}
            /\ csi' \in Sites \union {Empty, Gone}
            /\ limits' = Gone \/ limits' \in Setting!Limits
            /\ listed' = listed
        BY <3>1 DEF Setting!Edit, SettingsInv, Setting!TypeOK
      <4> QED
        BY <2>1, <4>1, <4>2 DEF SettingsInv, Setting!TypeOK
    <3>2. CASE Setting!Scale
      BY <2>1, <3>2 DEF Setting!Scale, Setting!objects, SettingsInv, Setting!TypeOK
    <3> QED
      BY <1>2, <3>1, <3>2
  <2> QED
    BY <2>1, <2>2 DEF SettingsInv, IdOfValues, Setting!GetIDCluster,
                            Setting!Listed, Setting!Replacing
<1>3. CASE UNCHANGED settingVars
  <2>1. UNCHANGED <<secret, csi, limits, listed, call, values, outcome, edits>>
    BY <1>3 DEF settingVars
  <2> QED
    BY <2>1 DEF SettingsInv, Setting!TypeOK, IdOfValues, Setting!GetIDCluster,
                Setting!Listed, Setting!Replacing
<1> QED
  BY <1>1, <1>2, <1>3, ReadKeeps, DecideKeeps DEF Setting!Next

\* The controller reads as its module says, or does nothing.
LEMMA SettingsInvariance == PartsSpec => []SettingsInv
<1>1. PartsInit => SettingsInv
  <2> SUFFICES ASSUME PartsInit PROVE SettingsInv
    OBVIOUS
  <2>1. Setting!Init /\ Setting!SettingsConstants
    BY PartsAssumption DEF PartsInit
  <2>2. values = <<>> /\ Len(values) = 0 /\ DOMAIN values = {} /\ values \in Seq(Values)
    BY <2>1 DEF Setting!Init
  <2>3. Setting!TypeOK
    BY <2>1, <2>2 DEF Setting!Init, Setting!SettingsConstants, Setting!TypeOK,
                      Setting!Outcomes
  <2> QED
    BY <2>1, <2>2, <2>3 DEF Setting!Init, SettingsInv, Setting!Replacing
<1>2. ASSUME SettingsInv, [PartsNext]_allVars PROVE SettingsInv'
  BY <1>2, SettingsStep, PartsAssumption DEF PartsNext, allVars
<1> QED
  BY <1>1, <1>2, PTL DEF PartsSpec

\* A request that names a cluster by its id, and a login, go out with values that
\* belong to one site, whatever is edited between the readings.
THEOREM RequestsCorrect == PartsSpec => []RequestNamesOneSite
<1>1. ASSUME SettingsInv PROVE RequestNamesOneSite
  <2>1. ASSUME Setting!Replacing, values[5] # Empty
        PROVE  values[4] = values[5] /\ \A i \in 1 .. 3 : values[i] = values[5]
    <3>1. values[5] = Setting!GetIDCluster(values[1], values[2], values[3], values[4])
      BY <1>1, <2>1 DEF SettingsInv, IdOfValues
    <3>2. /\ values[5] = values[4] /\ values[1] = values[5] /\ values[2] = values[5]
          /\ values[3] = values[5]
      BY <2>1, <3>1, IdIsOfTheSite
    <3> QED
      BY <3>2
  <2>2. outcome = "login" => \A i, j \in 1 .. 4 : values[i] = values[j]
    BY <1>1 DEF SettingsInv
  <2> QED
    BY <2>1, <2>2 DEF RequestNamesOneSite, Setting!RequestNamesOneSite
<1> QED
  BY <1>1, SettingsInvariance, PTL

-----------------------------------------------------------------------------
(* All parts. *)

\* Side by side, each part takes the steps of its module and no others.
THEOREM EachPartIsItsModule ==
    PartsSpec => /\ Spec /\ Log!Spec /\ Status!Spec /\ NodeGroup!Spec
                 /\ Setting!Spec /\ Evict!Spec
<1>1. PartsInit => /\ Init /\ Log!Init /\ Status!Init /\ NodeGroup!Init
                   /\ Setting!Init /\ Evict!Init
  BY DEF PartsInit
<1>2. [PartsNext]_allVars => /\ [Next]_vars /\ [Log!Next]_logVars
                             /\ [Status!Next]_statusVars /\ [NodeGroup!Next]_groupVars
                             /\ [Setting!Next]_settingVars /\ [Evict!Next]_evictVars
  BY DEF PartsNext, allVars
<1>3. /\ logVars = Log!vars /\ statusVars = Status!vars /\ groupVars = NodeGroup!vars
      /\ settingVars = Setting!vars /\ evictVars = Evict!vars
  BY DEF logVars, Log!vars, statusVars, Status!vars, groupVars, NodeGroup!vars,
         settingVars, Setting!vars, evictVars, Evict!vars
<1>4. [PartsNext]_allVars => /\ [Next]_vars /\ [Log!Next]_(Log!vars)
                             /\ [Status!Next]_(Status!vars)
                             /\ [NodeGroup!Next]_(NodeGroup!vars)
                             /\ [Setting!Next]_(Setting!vars)
                             /\ [Evict!Next]_(Evict!vars)
  BY <1>2, <1>3 DEF logVars, Log!vars, statusVars, Status!vars, groupVars,
     NodeGroup!vars, settingVars, Setting!vars, evictVars, Evict!vars
<1> QED
  BY <1>1, <1>4, PTL DEF PartsSpec, Spec, Log!Spec, Status!Spec, NodeGroup!Spec,
     Setting!Spec, Evict!Spec

\* The variables of every part keep their types.
THEOREM TypesCorrect == PartsSpec => []TypesOK
<1>1. /\ LogInv => Log!TypeOK
      /\ StatusInv => Status!TypeOK
      /\ GroupsInv => NodeGroup!TypeOK
      /\ SettingsInv => Setting!TypeOK
  BY DEF LogInv, StatusInv, GroupsInv, SettingsInv
<1>2. TypeOK /\ LogInv /\ StatusInv /\ GroupsInv /\ SettingsInv /\ EvictionInv
          => TypesOK
  BY <1>1, EvictionTypes DEF TypesOK
<1> QED
  BY <1>2, EachPartIsItsModule, TypeCorrect, LogInvariance, StatusInvariance,
     GroupsInvariance, SettingsInvariance, EvictionInvariance, PTL
=============================================================================
