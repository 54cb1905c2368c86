------------------------- MODULE FairLimiterProofs -------------------------
(***************************************************************************)
(* The token bucket of limiter.go grants no more than the rates allow, for *)
(* every set of calls, of sizes and of rates, and any number of changes.   *)
(***************************************************************************)
EXTENDS FairLimiter, FiniteSetTheorems, WellFoundedInduction, TLAPS

\* A bucket's capacity is a number of bytes, and at most Burst.
LEMMA Capacities ==
  \A r \in Rates \cup {0} : r \in Nat /\ Capacity(r) \in Nat /\ Capacity(r) <= Burst
<1> SUFFICES ASSUME NEW r \in Rates \cup {0}
             PROVE  r \in Nat /\ Capacity(r) \in Nat /\ Capacity(r) <= Burst
  OBVIOUS
<1>1. r \in Nat /\ r * HalfSecond \in Nat
  BY LimiterAssumption DEF LimiterAssumption
<1>2. r * HalfSecond <= Burst
  BY LimiterAssumption DEF LimiterAssumption
<1>3. QED
  BY <1>1, <1>2, LimiterAssumption DEF LimiterAssumption, Capacity, Larger

\* replenishLocked fills the bucket, and credits no more than the time since
\* updatedAt is worth.
LEMMA ReplenishedBound ==
  ASSUME RoomInv
  PROVE  /\ Replenished \in Nat /\ Replenished <= Capacity(rate)
         /\ rate # 0 => Replenished = Smaller(Capacity(rate), tokens + accrued)
  BY Capacities DEF RoomInv, Replenished, Smaller

\* Without time to credit, the bucket holds what it held.
LEMMA NothingAccrued ==
  ASSUME rate' \in Rates \cup {0}, accrued' = 0, tokens' \in Nat,
         tokens' <= Capacity(rate)', room' \in Int, rate' # 0 => tokens' <= room'
  PROVE  RoomInv'
<1>1. rate' # 0 => Replenished' = Smaller(Capacity(rate)', tokens' + accrued')
  BY DEF Replenished, Smaller, Capacity
<1>2. rate' # 0 => Replenished' = tokens'
  <2>1. Capacity(rate)' = Capacity(rate') /\ Capacity(rate') \in Nat
    BY Capacities DEF Capacity
  <2>2. QED
    BY <1>1, <2>1 DEF Smaller
<1>3. QED
  BY <1>2 DEF RoomInv

\* Every step keeps room for what the bucket holds.
LEMMA RoomStep == ASSUME RoomInv, [Next]_vars PROVE RoomInv'
<1> /\ rate \in Rates \cup {0} /\ rate \in Nat /\ tokens \in Nat /\ accrued \in Nat
    /\ room \in Int /\ (rate # 0 => Replenished <= room)
    /\ Capacity(rate) \in Nat /\ Capacity(rate) <= Burst /\ Burst \in Nat
  BY Capacities, LimiterAssumption DEF RoomInv, LimiterAssumption
<1>1. /\ Replenished \in Nat /\ Replenished <= Capacity(rate)
      /\ rate # 0 => Replenished = Smaller(Capacity(rate), tokens + accrued)
  BY ReplenishedBound
<1>2. ASSUME UNCHANGED <<bucket, room>> PROVE RoomInv'
  BY <1>2 DEF RoomInv, bucket, Replenished, Capacity
<1>3. ASSUME NEW mbps \in Rates, SetMbps(mbps) PROVE RoomInv'
  <2>1. Capacity(mbps) \in Nat
    BY Capacities
  <2>2. /\ rate' = mbps /\ accrued' = 0
        /\ tokens' = IF rate = 0 THEN Capacity(mbps) ELSE Smaller(Replenished, Capacity(mbps))
        /\ room' = IF rate = 0 THEN Capacity(mbps) ELSE room
    BY <1>3 DEF SetMbps
  <2>3. Capacity(rate)' = Capacity(mbps)
    BY <2>2 DEF Capacity
  <2>4. tokens' \in Nat /\ tokens' <= Capacity(mbps) /\ room' \in Int /\ tokens' <= room'
    BY <1>1, <2>1, <2>2 DEF Smaller
  <2>5. QED
    BY <2>2, <2>3, <2>4, NothingAccrued
<1>4. ASSUME Tick PROVE RoomInv'
  <2>1. /\ rate' = rate /\ tokens' = tokens /\ room' = Smaller(room + rate, Burst)
        /\ accrued' = Smaller(accrued + rate, Capacity(rate))
    BY <1>4 DEF Tick
  <2>2. Replenished' = IF rate = 0 THEN Capacity(rate)
                       ELSE Smaller(Capacity(rate), tokens + accrued')
    BY <2>1 DEF Replenished, Capacity
  <2>3. accrued' \in Nat /\ accrued' <= accrued + rate /\ room' \in Int
    BY <2>1 DEF Smaller
  <2>4. ASSUME rate # 0 PROVE Replenished' <= room'
    <3>1. Replenished' <= Capacity(rate) /\ Replenished' <= tokens + accrued + rate
      BY <2>2, <2>3, <2>4 DEF Smaller
    <3>2. Replenished' \in Nat
      <4>1. Replenished' = Capacity(rate) \/ Replenished' = tokens + accrued'
        BY <2>2, <2>4 DEF Smaller
      <4>2. QED
        BY <2>3, <4>1
    <3>3. Replenished' <= Replenished + rate
      <4>1. Replenished = Capacity(rate) \/ Replenished = tokens + accrued
        BY <1>1, <2>4 DEF Smaller
      <4>2. QED
        BY <3>1, <3>2, <4>1
    <3>4. QED
      BY <1>1, <2>1, <2>4, <3>1, <3>2, <3>3 DEF Smaller
  <2>5. QED
    BY <2>1, <2>3, <2>4 DEF RoomInv
<1>5. ASSUME NEW r \in Requests, Grant(r) PROVE RoomInv'
  <2>1. Size[r] \in Nat
    BY LimiterAssumption DEF LimiterAssumption
  <2>2. rate' = rate /\ accrued' = 0 /\ Capacity(rate)' = Capacity(rate)
    BY <1>5 DEF Grant, Capacity
  <2>3. /\ rate = 0 => tokens' = Replenished /\ room' = room
        /\ rate # 0 => /\ tokens' = Replenished - Size[r] /\ room' = room - Size[r]
                       /\ Replenished >= Size[r]
    BY <1>5 DEF Grant
  <2>4. /\ tokens' \in Nat /\ tokens' <= Capacity(rate) /\ room' \in Int
        /\ rate' # 0 => tokens' <= room'
    BY <1>1, <2>1, <2>2, <2>3
  <2>5. QED
    BY <2>2, <2>4, NothingAccrued
<1>6. ASSUME NEW r \in Requests, RunShort(r) PROVE RoomInv'
  <2>1. rate' = rate /\ accrued' = 0 /\ Capacity(rate)' = Capacity(rate)
    BY <1>6 DEF RunShort, Capacity
  <2>2. tokens' = Replenished /\ room' = room
    BY <1>6 DEF RunShort
  <2>3. QED
    BY <1>1, <2>1, <2>2, NothingAccrued
<1>7. QED
  <2>1. CASE \E r \in Requests : Enqueue(r) \/ Wait(r) \/ Expire(r)
    BY <1>2, <2>1 DEF Enqueue, Wait, Signal, ReturnGranted, SeeExpiry,
       ReturnCanceled, ReturnStopped, Expire
  <2>2. CASE SignalRate \/ Stop
    BY <1>2, <2>2 DEF SignalRate, Stop
  <2>3. CASE Woken \/ NothingPending \/ TimerEnds \/ Exit
    BY <1>2, <2>3 DEF Woken, NothingPending, TimerEnds, Exit
  <2>4. CASE UNCHANGED vars
    BY <1>2, <2>4 DEF vars
  <2>5. QED
    BY <1>3, <1>4, <1>5, <1>6, <2>1, <2>2, <2>3, <2>4 DEF Next, Run

\* Whatever the changes of the rate and however time passes, the grants between
\* any two moments are within one bucket and what the rates in force were worth
\* meanwhile (setRateLocked, replenishLocked, nextDelay).
THEOREM RateHolds == Spec => []RateRespected
<1>1. Init => RoomInv
  <2> SUFFICES ASSUME Init PROVE RoomInv
    OBVIOUS
  <2>1. rate \in Rates /\ accrued = 0 /\ tokens = Capacity(rate) /\ room = Capacity(rate)
    BY DEF Init
  <2>2. Capacity(rate) \in Nat
    BY <2>1, Capacities
  <2>3. QED
    BY <2>1, <2>2 DEF RoomInv, Replenished, Smaller
<1>2. RoomInv /\ [Next]_vars => RoomInv'
  BY RoomStep
<1>3. RoomInv => RateRespected
  BY Capacities DEF RoomInv, RateRespected, Replenished, Smaller
<1>4. QED
  BY <1>1, <1>2, <1>3, PTL DEF Spec

-----------------------------------------------------------------------------
(* Induction, and the loop of removeCanceled.                              *)

\* A set of naturals has a least element: no interval 0..n-1 is the smallest
\* but one.
LEMMA LeastOf ==
  ASSUME NEW T, T \subseteq Nat, T # {}
  PROVE  \E n \in T : \A m \in T : n <= m
<1> DEFINE below == {0..n-1 : n \in T}
<1>1. below \subseteq FiniteSubsetsOf(Nat)
  <2>1. \A n \in T : 0..n-1 \subseteq Nat /\ IsFiniteSet(0..n-1)
    BY FS_Interval
  <2>2. QED
    BY <2>1 DEF FiniteSubsetsOf
<1>2. \E x \in below : \A y \in below : <<y, x>> \notin StrictSubsetOrdering(Nat)
  <2>1. below # {}
    OBVIOUS
  <2> HIDE DEF below
  <2>2. QED
    BY <1>1, <2>1, FS_StrictSubsetOrderingWellFounded, WFMin
<1>3. PICK n \in T : \A y \in below : <<y, 0..n-1>> \notin StrictSubsetOrdering(Nat)
  BY <1>2
<1>4. ASSUME NEW m \in T, m < n PROVE FALSE
  <2>1. 0..m-1 \subseteq 0..n-1 /\ m \in 0..n-1 /\ m \notin 0..m-1
    BY <1>4
  <2>2. <<0..m-1, 0..n-1>> \in StrictSubsetOrdering(Nat)
    BY <2>1 DEF StrictSubsetOrdering
  <2>3. QED
    BY <1>3, <2>2
<1>5. QED
  BY <1>4

\* The loop is defined after each request.
LEMMA KeptExists ==
  ASSUME NEW queue, NEW n \in Nat
  PROVE  \E kept : kept = [i \in 0..n |-> Keep(queue, i, kept)]
<1> DEFINE Made(m) == \E kept : kept = [i \in 0..m |-> Keep(queue, i, kept)]
           bad == {m \in Nat : ~Made(m)}
<1>1. ASSUME NEW m \in Nat, m # 0 => Made(m - 1) PROVE Made(m)
  <2>1. CASE m = 0
    <3> DEFINE kept == [i \in 0..m |-> <<>>]
    <3>1. kept = [i \in 0..m |-> Keep(queue, i, kept)]
      BY <2>1 DEF Keep
    <3>2. QED
      BY <3>1
  <2>2. CASE m # 0
    <3>1. PICK kept : kept = [i \in 0..m-1 |-> Keep(queue, i, kept)]
      BY <1>1, <2>2
    <3> DEFINE more == [i \in 0..m |-> IF i = m THEN Keep(queue, m, kept) ELSE kept[i]]
    <3>2. ASSUME NEW i \in 0..m PROVE more[i] = Keep(queue, i, more)
      <4>1. i # 0 => more[i - 1] = kept[i - 1]
        OBVIOUS
      <4>2. CASE i = m
        BY <4>1, <4>2, <2>2 DEF Keep
      <4>3. CASE i \in 0..m-1
        <5>1. kept[i] = Keep(queue, i, kept)
          BY <3>1, <4>3
        <5>2. QED
          BY <4>1, <4>3, <5>1 DEF Keep
      <4>4. QED
        BY <4>2, <4>3
    <3>3. more = [i \in 0..m |-> Keep(queue, i, more)]
      BY <3>2
    <3> HIDE DEF more
    <3>4. QED
      BY <3>3
  <2>3. QED
    BY <2>1, <2>2
<1> HIDE DEF Made
<1>2. bad = {}
  <2>1. SUFFICES ASSUME bad # {} PROVE FALSE
    OBVIOUS
  <2>2. bad \subseteq Nat
    OBVIOUS
  <2>3. PICK m \in bad : \A k \in bad : m <= k
    <3> HIDE DEF bad
    <3>1. QED
      BY <2>1, <2>2, LeastOf
  <2>4. m # 0 => Made(m - 1)
    BY <2>3
  <2>5. QED
    BY <1>1, <2>3, <2>4
<1>3. QED
  BY <1>2 DEF Made

\* removeCanceled keeps the requests that are alive, each once if the queue has
\* it once.
LEMMA RemoveCanceledKeeps ==
  ASSUME NEW queue \in Seq(Requests)
  PROVE  LET left == RemoveCanceled(queue)
         IN  /\ left \in Seq(Requests)
             /\ Members(left) = {r \in Members(queue) : Alive(r)}
             /\ Distinct(queue) => Distinct(left)
<1> DEFINE kept == CHOOSE k : k = [i \in 0..Len(queue) |-> Keep(queue, i, k)]
<1>1. Len(queue) \in Nat /\ DOMAIN queue = 1..Len(queue)
      /\ \A i \in 1..Len(queue) : queue[i] \in Requests
  OBVIOUS
<1>2. kept = [i \in 0..Len(queue) |-> Keep(queue, i, kept)]
  BY <1>1, KeptExists
<1>3. RemoveCanceled(queue) = kept[Len(queue)]
  BY DEF RemoveCanceled
<1> HIDE DEF kept
<1> DEFINE Seen(n) == {queue[i] : i \in 1..n}
           Good(n) ==
             /\ kept[n] \in Seq(Requests)
             /\ Members(kept[n]) = {r \in Seen(n) : Alive(r)}
             /\ Distinct(queue) => Distinct(kept[n])
           bad == {n \in 0..Len(queue) : ~Good(n)}
<1>4. ASSUME NEW n \in 0..Len(queue), n # 0 => Good(n - 1) PROVE Good(n)
  <2>1. CASE n = 0
    <3>1. kept[0] = <<>>
      BY <1>1, <1>2 DEF Keep
    <3>2. QED
      BY <2>1, <3>1 DEF Members, Distinct
  <2>2. CASE n # 0 /\ ~Alive(queue[n])
    <3>1. kept[n] = kept[n - 1]
      BY <1>1, <1>2, <2>2 DEF Keep
    <3>2. Seen(n) = Seen(n - 1) \cup {queue[n]}
      BY <1>1, <2>2
    <3>3. Members(kept[n]) = {r \in Seen(n) : Alive(r)}
      BY <1>4, <2>2, <3>1, <3>2
    <3>4. QED
      BY <1>4, <2>2, <3>1, <3>3
  <2>3. CASE n # 0 /\ Alive(queue[n])
    <3> DEFINE old == kept[n - 1]
    <3>1. kept[n] = Append(old, queue[n])
      BY <1>1, <1>2, <2>3 DEF Keep
    <3>2. queue[n] \in Requests /\ old \in Seq(Requests)
      BY <1>1, <1>4, <2>3
    <3>3. Seen(n) = Seen(n - 1) \cup {queue[n]}
      BY <1>1, <2>3
    <3>4. Members(old) = {r \in Seen(n - 1) : Alive(r)}
      BY <1>4, <2>3
    <3>5. Distinct(queue) => Distinct(old)
      BY <1>4, <2>3
    <3>6. ASSUME Distinct(queue) PROVE queue[n] \notin Members(old)
      BY <1>1, <2>3, <3>4, <3>6 DEF Distinct
    <3> HIDE DEF old
    <3>7. /\ kept[n] \in Seq(Requests)
          /\ DOMAIN kept[n] = DOMAIN old \cup {Len(old) + 1}
          /\ Len(old) + 1 \notin DOMAIN old
          /\ kept[n][Len(old) + 1] = queue[n]
          /\ \A i \in DOMAIN old : kept[n][i] = old[i]
      BY <3>1, <3>2
    <3>8. Members(kept[n]) = Members(old) \cup {queue[n]}
      BY <3>7 DEF Members
    <3>9. Members(kept[n]) = {r \in Seen(n) : Alive(r)}
      BY <2>3, <3>3, <3>4, <3>8
    <3>10. Distinct(queue) => Distinct(kept[n])
      BY <3>5, <3>6, <3>7 DEF Distinct, Members
    <3>11. QED
      BY <3>7, <3>9, <3>10
  <2>4. QED
    BY <2>1, <2>2, <2>3
<1>5. bad = {}
  <2>1. SUFFICES ASSUME bad # {} PROVE FALSE
    OBVIOUS
  <2>2. bad \subseteq Nat /\ bad \subseteq 0..Len(queue)
    BY <1>1
  <2>3. PICK n \in bad : \A k \in bad : n <= k
    <3> HIDE DEF bad
    <3>1. QED
      BY <2>1, <2>2, LeastOf
  <2> HIDE DEF Good
  <2>4. n # 0 => Good(n - 1)
    BY <1>1, <2>3
  <2>5. QED
    BY <1>4, <2>3, <2>4
<1>6. Good(Len(queue))
  <2> HIDE DEF Good
  <2>1. QED
    BY <1>1, <1>5
<1>7. Seen(Len(queue)) = Members(queue)
  BY <1>1 DEF Members
<1>8. QED
  BY <1>3, <1>6, <1>7

-----------------------------------------------------------------------------
(* The queues.                                                             *)

\* One request more at the end of a queue, and one less at its head.
LEMMA Appended ==
  ASSUME NEW queue \in Seq(Requests), NEW r \in Requests
  PROVE  /\ Append(queue, r) \in Seq(Requests)
         /\ Members(Append(queue, r)) = Members(queue) \cup {r}
         /\ Distinct(queue) /\ r \notin Members(queue) => Distinct(Append(queue, r))
<1> DEFINE more == Append(queue, r)
<1>1. /\ more \in Seq(Requests)
      /\ DOMAIN more = DOMAIN queue \cup {Len(queue) + 1}
      /\ Len(queue) + 1 \notin DOMAIN queue
      /\ more[Len(queue) + 1] = r
      /\ \A i \in DOMAIN queue : more[i] = queue[i]
  OBVIOUS
<1> HIDE DEF more
<1>2. QED
  BY <1>1 DEF more, Members, Distinct

LEMMA Shifted ==
  ASSUME NEW queue \in Seq(Requests), queue # <<>>
  PROVE  /\ Tail(queue) \in Seq(Requests)
         /\ Members(queue) = Members(Tail(queue)) \cup {Head(queue)}
         /\ Distinct(queue) =>
              Distinct(Tail(queue)) /\ Head(queue) \notin Members(Tail(queue))
<1> DEFINE rest == Tail(queue)
<1>1. /\ rest \in Seq(Requests) /\ Len(queue) \in Nat \ {0}
      /\ DOMAIN queue = 1..Len(queue) /\ DOMAIN rest = 1..Len(queue)-1
      /\ Head(queue) = queue[1]
      /\ \A i \in DOMAIN rest : rest[i] = queue[i + 1]
  OBVIOUS
<1> HIDE DEF rest
<1>2. Members(queue) = Members(rest) \cup {Head(queue)}
  <2>1. ASSUME NEW i \in DOMAIN queue PROVE queue[i] \in Members(rest) \cup {Head(queue)}
    <3>1. CASE i = 1
      BY <1>1, <3>1
    <3>2. CASE i # 1
      <4>1. i - 1 \in DOMAIN rest /\ rest[i - 1] = queue[i]
        BY <1>1, <3>2
      <4>2. QED
        BY <4>1 DEF Members
    <3>3. QED
      BY <3>1, <3>2
  <2>2. \A i \in DOMAIN rest : rest[i] \in Members(queue)
    BY <1>1 DEF Members
  <2>3. Head(queue) \in Members(queue)
    BY <1>1 DEF Members
  <2>4. QED
    BY <2>1, <2>2, <2>3 DEF Members
<1>3. ASSUME Distinct(queue) PROVE Distinct(rest) /\ Head(queue) \notin Members(rest)
  BY <1>1, <1>3 DEF Distinct, Members
<1>4. QED
  BY <1>1, <1>2, <1>3 DEF rest

\* What nextDelay finds after removeCanceled.
LEMMA LiveQueues ==
  ASSUME QueuesInv
  PROVE  /\ LiveHigh \in Seq(Requests) /\ LiveNormal \in Seq(Requests)
         /\ Members(LiveHigh) = {r \in Members(high) : Alive(r)}
         /\ Members(LiveNormal) = {r \in Members(normal) : Alive(r)}
         /\ Distinct(LiveHigh) /\ Distinct(LiveNormal)
  BY RemoveCanceledKeeps
     DEF QueuesInv, QueuesHold, TypeOK, LiveHigh, LiveNormal

LEMMA EmptyQueue == Members(<<>>) = {} /\ Distinct(<<>>)
  BY DEF Members, Distinct

\* The bucket's numbers.
LEMMA BucketTypes ==
  ASSUME TypeOK
  PROVE  /\ rate \in Nat /\ Capacity(rate) \in Nat /\ Replenished \in Nat /\ Burst \in Nat
         /\ \A r \in Rates : r \in Nat /\ Capacity(r) \in Nat
  BY Capacities, LimiterAssumption DEF TypeOK, Replenished, Smaller, LimiterAssumption

LEMMA InitQueues == Init => QueuesInv
<1> SUFFICES ASSUME Init PROVE QueuesInv
  OBVIOUS
<1>1. Capacity(rate) \in Nat /\ 0 \in 0..MaxChanges
  BY Capacities, LimiterAssumption DEF Init, LimiterAssumption
<1>2. TypeOK
  <2>1. high \in Seq(Requests) /\ normal \in Seq(Requests)
    BY DEF Init
  <2>2. call \in [Requests -> {"idle", "queued", "waiting", "leaving", "granted",
                              "canceled", "stopped"}]
    BY DEF Init
  <2>3. tokens \in Nat /\ room \in Int
    BY <1>1 DEF Init
  <2>4. QED
    BY <1>1, <2>1, <2>2, <2>3 DEF Init, TypeOK
<1>3. QED
  BY <1>2, EmptyQueue
     DEF Init, QueuesInv, QueuesHold, NoLostWakeup, WaitersAreQueued, Queued

\* Steps that leave the queues, the grants and the goroutine's place alone.
LEMMA CallStep ==
  ASSUME QueuesInv, TypeOK', UNCHANGED <<queues, granted, loop>>,
         expired \subseteq expired', wake => wake',
         NEW r \in Requests,
         \A q \in Requests : q # r => call'[q] = call[q],
         /\ call[r] = "idle" <=> call'[r] = "idle"
         /\ call'[r] \in {"queued", "waiting"} => call[r] \in {"queued", "waiting"}
         /\ call[r] = "queued" => call'[r] = "queued" \/ wake'
  PROVE  QueuesInv'
  BY DEF QueuesInv, QueuesHold, NoLostWakeup, WaitersAreQueued, Queued, queues,
         Alive, Distinct, Members, TypeOK

LEMMA EnqueueStep ==
  ASSUME QueuesInv, NEW r \in Requests, Enqueue(r)
  PROVE  QueuesInv'
<1> USE DEF QueuesInv, QueuesHold, Goto
<1>1. /\ call[r] = "idle" /\ call' = [call EXCEPT ![r] = "queued"]
      /\ UNCHANGED <<bucket, wake, stopped, loop, delay, granted, expired, changes,
                     unsignaled, room>>
  BY DEF Enqueue
<1>2. r \notin Members(high) /\ r \notin Members(normal) /\ r \notin granted
  BY <1>1 DEF Queued
<1>3. high \in Seq(Requests) /\ normal \in Seq(Requests)
  BY DEF TypeOK
<1>4. /\ high' \in Seq(Requests) /\ normal' \in Seq(Requests)
      /\ Distinct(high)' /\ Distinct(normal)'
      /\ Members(high)' \subseteq Priority /\ Members(normal)' \cap Priority = {}
      /\ \A q \in Requests : Queued(q)' <=> Queued(q) \/ q = r
  <2>1. CASE r \in Priority
    <3>1. high' = Append(high, r) /\ normal' = normal
      BY <2>1 DEF Enqueue
    <3>2. Members(high') = Members(high) \cup {r} /\ Distinct(high')
      BY <1>2, <1>3, <3>1, Appended
    <3>3. QED
      BY <1>3, <2>1, <3>1, <3>2, Appended DEF Queued
  <2>2. CASE r \notin Priority
    <3>1. normal' = Append(normal, r) /\ high' = high
      BY <2>2 DEF Enqueue
    <3>2. Members(normal') = Members(normal) \cup {r} /\ Distinct(normal')
      BY <1>2, <1>3, <3>1, Appended
    <3>3. QED
      BY <1>3, <2>2, <3>1, <3>2, Appended DEF Queued
  <2>3. QED
    BY <2>1, <2>2
<1>5. TypeOK'
  BY <1>1, <1>4 DEF TypeOK, bucket
<1>6. NoLostWakeup'
  BY <1>1, <1>4 DEF NoLostWakeup, TypeOK, Alive
<1>7. WaitersAreQueued'
  BY <1>1, <1>2, <1>4 DEF WaitersAreQueued, TypeOK, Alive
<1>8. QED
  BY <1>1, <1>4, <1>5, <1>6, <1>7 DEF TypeOK

LEMMA GrantStep ==
  ASSUME QueuesInv, NEW r \in Requests, Grant(r)
  PROVE  QueuesInv'
<1>1. /\ loop = "next" /\ granted' = granted \cup {r}
      /\ UNCHANGED <<rate, wake, stopped, loop, delay, call, expired, changes,
                     unsignaled>>
  BY DEF Grant
<1>2. /\ high' \in Seq(Requests) /\ normal' \in Seq(Requests)
      /\ Distinct(high)' /\ Distinct(normal)'
      /\ Members(high)' \subseteq Priority /\ Members(normal)' \cap Priority = {}
      /\ \A q \in Requests : Queued(q)' <=> Queued(q) /\ Alive(q) /\ q # r
      /\ Queued(r) /\ Alive(r)
  <2>0. Members(high) \subseteq Priority /\ Members(normal) \cap Priority = {}
    BY DEF QueuesInv
  <2>1. CASE Bulk
    <3>1. /\ LiveHigh = <<>> /\ LiveNormal # <<>> /\ r = Head(LiveNormal)
          /\ high' = <<>> /\ normal' = Tail(LiveNormal)
      BY <2>1 DEF Grant, IsNext, Bulk
    <3>2. /\ Members(LiveNormal) = Members(normal') \cup {r}
          /\ Distinct(normal') /\ r \notin Members(normal')
          /\ normal' \in Seq(Requests)
      BY <3>1, LiveQueues, Shifted
    <3>3. {q \in Members(high) : Alive(q)} = {}
      BY <3>1, LiveQueues, EmptyQueue
    <3>4. {q \in Members(normal) : Alive(q)} = Members(normal') \cup {r}
      BY <3>2, LiveQueues
    <3>5. QED
      BY <2>0, <3>1, <3>2, <3>3, <3>4, EmptyQueue DEF Queued
  <2>2. CASE ~Bulk
    <3>1. /\ LiveHigh # <<>> /\ r = Head(LiveHigh)
          /\ high' = Tail(LiveHigh) /\ normal' = LiveNormal
      BY <2>2 DEF Grant, IsNext, Bulk
    <3>2. /\ Members(LiveHigh) = Members(high') \cup {r}
          /\ Distinct(high') /\ r \notin Members(high')
          /\ high' \in Seq(Requests)
      BY <3>1, LiveQueues, Shifted
    <3>3. {q \in Members(high) : Alive(q)} = Members(high') \cup {r}
      BY <3>2, LiveQueues
    <3>4. Members(normal') = {q \in Members(normal) : Alive(q)} /\ Distinct(normal')
          /\ normal' \in Seq(Requests)
      BY <3>1, LiveQueues
    <3>5. QED
      BY <2>0, <3>2, <3>3, <3>4 DEF Queued
  <2>3. QED
    BY <2>1, <2>2
<1>3. TypeOK'
  <2>1. TypeOK
    BY DEF QueuesInv, QueuesHold
  <2>2. Replenished \in Nat /\ Size[r] \in Nat
    BY <2>1, BucketTypes, LimiterAssumption DEF LimiterAssumption
  <2>3. tokens' \in Nat /\ room' \in Int /\ accrued' \in Nat
    BY <2>1, <2>2 DEF Grant, TypeOK
  <2>4. QED
    BY <1>1, <1>2, <2>1, <2>3 DEF TypeOK
<1>4. NoLostWakeup'
  BY <1>1 DEF NoLostWakeup
<1>5. WaitersAreQueued'
  BY <1>1, <1>2 DEF QueuesInv, QueuesHold, WaitersAreQueued, Alive
<1>6. \A q \in Requests : Queued(q)' \/ q \in granted' => call'[q] # "idle"
  BY <1>1, <1>2 DEF QueuesInv
<1>7. QED
  BY <1>2, <1>3, <1>4, <1>5, <1>6 DEF QueuesInv, QueuesHold

\* A short bucket, or nothing left: what was canceled goes, and the goroutine
\* waits on the timer, or for a signal when nobody is left to wait for.
LEMMA PruneStep ==
  ASSUME QueuesInv, TypeOK', high' = LiveHigh, normal' = LiveNormal,
         UNCHANGED <<granted, call, expired, wake>>,
         loop' # "select" \/ (LiveHigh = <<>> /\ LiveNormal = <<>>)
  PROVE  QueuesInv'
<1>1. /\ Members(high)' = {r \in Members(high) : Alive(r)}
      /\ Members(normal)' = {r \in Members(normal) : Alive(r)}
      /\ Distinct(high)' /\ Distinct(normal)'
  BY LiveQueues
<1>2. \A q \in Requests : Queued(q)' <=> Queued(q) /\ Alive(q)
  BY <1>1 DEF Queued
<1>3. NoLostWakeup'
  BY EmptyQueue DEF NoLostWakeup, Queued
<1>4. WaitersAreQueued'
  BY <1>2 DEF QueuesInv, QueuesHold, WaitersAreQueued, Alive
<1>5. QED
  BY <1>1, <1>2, <1>3, <1>4 DEF QueuesInv, QueuesHold

LEMMA QueuesStep == ASSUME QueuesInv, [Next]_vars PROVE QueuesInv'
<1> USE DEF bucket, queues
<1>0. TypeOK
  BY DEF QueuesInv, QueuesHold
<1>1. ASSUME NEW r \in Requests, Enqueue(r) PROVE QueuesInv'
  BY <1>1, EnqueueStep
<1>2. ASSUME NEW r \in Requests, Wait(r) PROVE QueuesInv'
  <2> USE <1>0 DEF Goto, TypeOK
  <2>1. CASE Signal(r)
    BY <2>1, CallStep DEF Signal
  <2>2. CASE ReturnGranted(r)
    BY <2>2, CallStep DEF ReturnGranted
  <2>3. CASE SeeExpiry(r)
    BY <2>3, CallStep DEF SeeExpiry
  <2>4. CASE ReturnCanceled(r)
    BY <2>4, CallStep DEF ReturnCanceled
  <2>5. CASE ReturnStopped(r)
    BY <2>5, CallStep DEF ReturnStopped
  <2>6. QED
    BY <1>2, <2>1, <2>2, <2>3, <2>4, <2>5 DEF Wait
<1>3. ASSUME NEW r \in Requests, Expire(r) PROVE QueuesInv'
  <2>1. TypeOK'
    BY <1>0, <1>3 DEF Expire, TypeOK
  <2>2. QED
    BY <1>3, <2>1, CallStep DEF Expire
<1>4. ASSUME UNCHANGED <<queues, call, granted, expired>>, TypeOK', wake => wake',
             loop' = loop \/ loop' # "select"
      PROVE  QueuesInv'
  BY <1>4 DEF QueuesInv, QueuesHold, NoLostWakeup, WaitersAreQueued, Queued, Alive,
     Members, Distinct
<1>5. ASSUME NEW mbps \in Rates, SetMbps(mbps) PROVE QueuesInv'
  <2>1. mbps \in Nat /\ Capacity(mbps) \in Nat /\ Replenished \in Nat
    BY <1>0, BucketTypes, LimiterAssumption DEF LimiterAssumption
  <2>2. tokens' \in Nat /\ room' \in Int
    BY <1>0, <1>5, <2>1 DEF SetMbps, Smaller, TypeOK
  <2>3. TypeOK'
    BY <1>0, <1>5, <2>2, LimiterAssumption DEF SetMbps, TypeOK, LimiterAssumption
  <2>4. QED
    BY <1>4, <1>5, <2>3 DEF SetMbps
<1>6. CASE SignalRate \/ Stop
  BY <1>0, <1>4, <1>6 DEF SignalRate, Stop, TypeOK
<1>7. CASE Tick
  <2>1. rate \in Nat /\ Capacity(rate) \in Nat
    BY <1>0, BucketTypes
  <2>2. accrued' \in Nat /\ delay' \in Nat /\ room' \in Int
    BY <1>0, <1>7, <2>1, LimiterAssumption
       DEF Tick, Smaller, Larger, TypeOK, LimiterAssumption
  <2>3. TypeOK'
    BY <1>0, <1>7, <2>2 DEF Tick, TypeOK
  <2>4. QED
    BY <1>4, <1>7, <2>3 DEF Tick
<1>8. CASE Woken \/ TimerEnds \/ Exit
  <2>1. TypeOK'
    <3>1. CASE Woken
      BY <1>0, <3>1 DEF Woken, TypeOK
    <3>2. CASE TimerEnds
      <4>1. wake' \in BOOLEAN
        BY <1>0, <3>2 DEF TimerEnds, TypeOK
      <4>2. delay' \in Nat
        BY <3>2 DEF TimerEnds
      <4>3. loop' \in {"select", "next", "timer", "exited"}
        BY <3>2 DEF TimerEnds
      <4>4. UNCHANGED <<bucket, queues, stopped, call, granted, expired,
                        changes, unsignaled, room>>
        BY <3>2 DEF TimerEnds
      <4>5. QED
        BY <1>0, <4>1, <4>2, <4>3, <4>4 DEF TypeOK, bucket, queues
    <3>3. CASE Exit
      BY <1>0, <3>3 DEF Exit, TypeOK
    <3>4. QED
      BY <1>8, <3>1, <3>2, <3>3
  <2>2. loop' # "select" /\ UNCHANGED <<queues, call, granted, expired>>
    BY <1>8 DEF Woken, TimerEnds, Exit
  <2>3. QED
    BY <2>1, <2>2
       DEF QueuesInv, QueuesHold, NoLostWakeup, WaitersAreQueued, Queued, Alive,
           Members, Distinct
<1>9. CASE NothingPending
  <2>1. TypeOK'
    BY <1>0, <1>9 DEF NothingPending, TypeOK
  <2>2. QED
    BY <1>9, <2>1, PruneStep DEF NothingPending
<1>10. ASSUME NEW r \in Requests, Grant(r) PROVE QueuesInv'
  BY <1>10, GrantStep
<1>11. ASSUME NEW r \in Requests, RunShort(r) PROVE QueuesInv'
  <2> DEFINE missing == Size[r] - Replenished + rate - 1
  <2>1. rate \in Nat \ {0} /\ Replenished \in Nat /\ Size[r] \in Nat
    BY <1>0, <1>11, BucketTypes, LimiterAssumption DEF RunShort, LimiterAssumption
  <2>2. missing \in Nat
    BY <1>11, <2>1 DEF RunShort
  <2>3. missing \div rate \in Nat
    <3> HIDE DEF missing
    <3>1. QED
      BY <2>1, <2>2
  <2>4. LiveHigh \in Seq(Requests) /\ LiveNormal \in Seq(Requests)
    BY LiveQueues
  <2>5. TypeOK'
    BY <1>0, <1>11, <2>1, <2>3, <2>4 DEF RunShort, TypeOK
  <2>6. QED
    BY <1>11, <2>5, PruneStep DEF RunShort
<1>12. CASE UNCHANGED vars
  BY <1>0, <1>4, <1>12 DEF vars, TypeOK
<1>13. QED
  BY <1>1, <1>2, <1>3, <1>5, <1>6, <1>7, <1>8, <1>9, <1>10, <1>11, <1>12
     DEF Next, Run

\* For any calls, priorities and rates: a caller still waiting stands in a
\* queue, once, whoever was granted, canceled or filtered out around it, and the
\* goroutine does not sleep without a signal while it does.
THEOREM NobodyIsForgotten == Spec => []QueuesHold
<1>1. QueuesInv => QueuesHold
  BY DEF QueuesInv
<1>2. QED
  BY InitQueues, QueuesStep, <1>1, PTL DEF Spec

\* Bulk transfers wait for priority ones: nothing is granted from the normal
\* queue while a request with priority is queued and alive.
THEOREM PriorityFirst ==
  Spec => [][\A r \in Requests : Grant(r) /\ r \notin Priority =>
               \A q \in Priority : ~(Queued(q) /\ Alive(q))]_vars
<1>1. ASSUME QueuesInv, NEW r \in Requests, Grant(r), r \notin Priority,
             NEW q \in Priority, Queued(q), Alive(q)
      PROVE  FALSE
  <2>1. /\ Members(high) \subseteq Priority /\ Members(normal) \cap Priority = {}
        /\ Members(LiveHigh) = {s \in Members(high) : Alive(s)}
    BY <1>1, LiveQueues DEF QueuesInv
  <2>2. q \in Members(LiveHigh)
    BY <1>1, <2>1 DEF Queued
  <2>3. LiveHigh # <<>>
    BY <2>2, EmptyQueue
  <2>4. r = Head(LiveHigh) /\ LiveHigh \in Seq(Requests)
    BY <1>1, <2>3, LiveQueues DEF Grant, IsNext, Bulk
  <2>5. Members(LiveHigh) = Members(Tail(LiveHigh)) \cup {r}
    BY <2>3, <2>4, Shifted
  <2>6. QED
    BY <1>1, <2>1, <2>5
<1>2. QueuesInv =>
        [\A r \in Requests : Grant(r) /\ r \notin Priority =>
           \A q \in Priority : ~(Queued(q) /\ Alive(q))]_vars
  BY <1>1
<1>3. QED
  BY InitQueues, QueuesStep, <1>2, PTL DEF Spec
=============================================================================
