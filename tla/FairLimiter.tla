---------------------------- MODULE FairLimiter ----------------------------
(***************************************************************************)
(* The token bucket of the Traffic Gateway (limiter.go): callers of Wait   *)
(* queue under the limiter's mutex and wait on a channel; one goroutine    *)
(* (run) hands out grants, strictly in priority order and first come first *)
(* served within a class, and sleeps on a timer when the bucket is short.  *)
(* Callers give up when their context expires; SetMbps and Stop may come   *)
(* at any time.                                                            *)
(***************************************************************************)
EXTENDS Integers, Sequences, FiniteSets

CONSTANTS
  Requests,         \* calls of Wait
  Size,             \* Size[r]: its bytes
  Priority,         \* the calls with priority
  Rates,            \* rates SetMbps sets, in bytes per tick; 0 is no limit
  MinimumCapacity,  \* minimumBucketCapacity
  HalfSecond,       \* ticks of the half second a bucket holds
  Expiring,         \* the calls whose context may expire
  MaxChanges,       \* bound: calls of SetMbps
  MayStop,          \* whether Stop may be called
  Burst             \* the bytes of the largest bucket any of the rates has

ASSUME LimiterAssumption ==
  /\ Size \in [Requests -> Nat \ {0}] /\ IsFiniteSet(Requests)
  /\ Priority \subseteq Requests /\ Expiring \subseteq Requests
  /\ Rates \subseteq Nat /\ Rates # {}
  /\ MinimumCapacity \in Nat \ {0} /\ HalfSecond \in Nat
  /\ \A r \in Requests : Size[r] <= MinimumCapacity
  /\ MaxChanges \in Nat /\ MayStop \in BOOLEAN
  /\ Burst \in Nat /\ MinimumCapacity <= Burst
  /\ \A r \in Rates : r * HalfSecond <= Burst

VARIABLES
  rate,      \* limiter.rateBytes
  tokens,    \* limiter.tokens
  accrued,   \* what the time since updatedAt is worth
  high,      \* limiter.high
  normal,    \* limiter.normal
  wake,      \* a value is in limiter.wake
  stopped,   \* limiter.stop is closed
  loop,      \* where run is
  delay,     \* ticks left on its timer
  call,      \* call[r]: where Wait is
  granted,   \* requests whose channel is closed
  expired,   \* requests whose context is done
  changes,   \* calls of SetMbps so far
  unsignaled,\* SetMbps has yet to signal
  room       \* history: the bytes that may be granted now, as a bucket of Burst
             \* bytes counts them that is filled at every tick of time

bucket  == <<rate, tokens, accrued>>
queues  == <<high, normal>>
vars == <<bucket, queues, wake, stopped, loop, delay, call, granted, expired,
          changes, unsignaled, room>>

Larger(a, b)  == IF a > b THEN a ELSE b
Smaller(a, b) == IF a < b THEN a ELSE b

Capacity(r) == Larger(r * HalfSecond, MinimumCapacity)

TypeOK ==
  /\ rate \in Rates \cup {0} /\ tokens \in Nat /\ accrued \in Nat
  /\ high \in Seq(Requests) /\ normal \in Seq(Requests)
  /\ wake \in BOOLEAN /\ stopped \in BOOLEAN
  /\ loop \in {"select", "next", "timer", "exited"} /\ delay \in Nat
  /\ call \in [Requests -> {"idle", "queued", "waiting", "leaving", "granted",
                            "canceled", "stopped"}]
  /\ granted \in SUBSET Requests /\ expired \in SUBSET Requests
  /\ changes \in 0..MaxChanges /\ unsignaled \in BOOLEAN
  /\ room \in Int

Init ==
  /\ rate \in Rates /\ tokens = Capacity(rate) /\ accrued = 0
  /\ high = <<>> /\ normal = <<>>
  /\ wake = FALSE /\ stopped = FALSE
  /\ loop = "select" /\ delay = 0
  /\ call = [r \in Requests |-> "idle"]
  /\ granted = {} /\ expired = {}
  /\ changes = 0 /\ unsignaled = FALSE
  /\ room = Capacity(rate)

-----------------------------------------------------------------------------
(* Wait.                                                                   *)

Goto(r, from, to) == call[r] = from /\ call' = [call EXCEPT ![r] = to]

Enqueue(r) ==
  /\ Goto(r, "idle", "queued")
  /\ IF r \in Priority
     THEN high' = Append(high, r) /\ UNCHANGED normal
     ELSE normal' = Append(normal, r) /\ UNCHANGED high
  /\ UNCHANGED <<bucket, wake, stopped, loop, delay, granted, expired, changes,
                 unsignaled, room>>

\* Mutant of Signal: the caller goes to wait without waking the goroutine.
SignalNobody(r) ==
  /\ Goto(r, "queued", "waiting")
  /\ UNCHANGED <<bucket, queues, wake, stopped, loop, delay, granted, expired,
                 changes, unsignaled, room>>

\* signal: the channel holds one value; another is dropped.
Signal(r) ==
  /\ Goto(r, "queued", "waiting")
  /\ wake' = TRUE
  /\ UNCHANGED <<bucket, queues, stopped, loop, delay, granted, expired,
                 changes, unsignaled, room>>

ReturnGranted(r) ==
  /\ r \in granted /\ Goto(r, "waiting", "granted")
  /\ UNCHANGED <<bucket, queues, wake, stopped, loop, delay, granted, expired,
                 changes, unsignaled, room>>

SeeExpiry(r) ==
  /\ r \in expired /\ Goto(r, "waiting", "leaving")
  /\ UNCHANGED <<bucket, queues, wake, stopped, loop, delay, granted, expired,
                 changes, unsignaled, room>>

ReturnCanceled(r) ==
  /\ Goto(r, "leaving", "canceled")
  /\ wake' = TRUE
  /\ UNCHANGED <<bucket, queues, stopped, loop, delay, granted, expired,
                 changes, unsignaled, room>>

ReturnStopped(r) ==
  /\ stopped /\ Goto(r, "waiting", "stopped")
  /\ UNCHANGED <<bucket, queues, wake, stopped, loop, delay, granted, expired,
                 changes, unsignaled, room>>

Wait(r) ==
  \/ Signal(r) \/ ReturnGranted(r) \/ SeeExpiry(r) \/ ReturnCanceled(r)
  \/ ReturnStopped(r)

Expire(r) ==
  /\ r \in Expiring /\ call[r] \in {"queued", "waiting"} /\ r \notin expired
  /\ expired' = expired \cup {r}
  /\ UNCHANGED <<bucket, queues, wake, stopped, loop, delay, call, granted,
                 changes, unsignaled, room>>

-----------------------------------------------------------------------------
(* SetMbps, Stop and time.                                                 *)

\* replenishLocked
Replenished == IF rate = 0 THEN Capacity(rate) ELSE Smaller(Capacity(rate), tokens + accrued)

\* Mutant of SetMbps: every change of the rate fills the bucket.
SetMbpsFilling(mbps) ==
  /\ changes < MaxChanges /\ changes' = changes + 1 /\ ~unsignaled
  /\ rate' = mbps /\ accrued' = 0 /\ tokens' = Capacity(mbps)
  /\ room' = IF rate = 0 THEN Capacity(mbps) ELSE room
  /\ unsignaled' = TRUE
  /\ UNCHANGED <<queues, wake, stopped, loop, delay, call, granted, expired>>

SetMbps(mbps) ==
  /\ changes < MaxChanges /\ changes' = changes + 1 /\ ~unsignaled
  /\ rate' = mbps /\ accrued' = 0
  /\ tokens' = IF rate = 0 THEN Capacity(mbps) ELSE Smaller(Replenished, Capacity(mbps))
  /\ room' = IF rate = 0 THEN Capacity(mbps) ELSE room
  /\ unsignaled' = TRUE
  /\ UNCHANGED <<queues, wake, stopped, loop, delay, call, granted, expired>>

SignalRate ==
  /\ unsignaled /\ unsignaled' = FALSE
  /\ wake' = TRUE
  /\ UNCHANGED <<bucket, queues, stopped, loop, delay, call, granted, expired,
                 changes, room>>

Stop ==
  /\ MayStop /\ ~stopped
  /\ stopped' = TRUE /\ wake' = TRUE
  /\ UNCHANGED <<bucket, queues, loop, delay, call, granted, expired, changes,
                 unsignaled, room>>

Tick ==
  /\ accrued' = Smaller(accrued + rate, Capacity(rate))
  /\ delay' = Larger(delay - 1, 0)
  /\ room' = Smaller(room + rate, Burst)
  /\ UNCHANGED <<rate, tokens, queues, wake, stopped, loop, call, granted,
                 expired, changes, unsignaled>>

-----------------------------------------------------------------------------
(* run.                                                                    *)

Alive(r) == r \notin expired

\* removeCanceled: kept, after n requests of the queue.
Keep(queue, n, kept) ==
  IF n = 0 THEN <<>>
  ELSE IF Alive(queue[n]) THEN Append(kept[n - 1], queue[n]) ELSE kept[n - 1]

RemoveCanceled(queue) ==
  LET kept[n \in 0..Len(queue)] == Keep(queue, n, kept)
  IN  kept[Len(queue)]

LiveHigh   == RemoveCanceled(high)
LiveNormal == RemoveCanceled(normal)
Bulk       == LiveHigh = <<>>

\* The call nextDelay looks at.
IsNext(r) ==
  \/ ~Bulk /\ r = Head(LiveHigh)
  \/ Bulk /\ LiveNormal # <<>> /\ r = Head(LiveNormal)

Woken ==
  /\ loop = "select" /\ wake
  /\ wake' = FALSE /\ loop' = "next"
  /\ UNCHANGED <<bucket, queues, stopped, delay, call, granted, expired,
                 changes, unsignaled, room>>

NothingPending ==
  /\ loop = "next" /\ LiveHigh = <<>> /\ LiveNormal = <<>>
  /\ high' = <<>> /\ normal' = <<>>
  /\ loop' = "select"
  /\ UNCHANGED <<bucket, wake, stopped, delay, call, granted, expired, changes,
                 unsignaled, room>>

\* Mutant of Grant: the time before the grant is credited again at the next.
GrantUndated(r) ==
  /\ loop = "next" /\ IsNext(r)
  /\ rate = 0 \/ Replenished >= Size[r]
  /\ granted' = granted \cup {r}
  /\ IF rate = 0 THEN tokens' = Replenished /\ UNCHANGED room
     ELSE tokens' = Replenished - Size[r] /\ room' = room - Size[r]
  /\ high' = IF Bulk THEN <<>> ELSE Tail(LiveHigh)
  /\ normal' = IF Bulk THEN Tail(LiveNormal) ELSE LiveNormal
  /\ UNCHANGED <<rate, accrued, wake, stopped, loop, delay, call, expired,
                 changes, unsignaled>>

Grant(r) ==
  /\ loop = "next" /\ IsNext(r)
  /\ rate = 0 \/ Replenished >= Size[r]
  /\ granted' = granted \cup {r}
  /\ IF rate = 0 THEN tokens' = Replenished /\ UNCHANGED room
     ELSE tokens' = Replenished - Size[r] /\ room' = room - Size[r]
  /\ accrued' = 0
  /\ high' = IF Bulk THEN <<>> ELSE Tail(LiveHigh)
  /\ normal' = IF Bulk THEN Tail(LiveNormal) ELSE LiveNormal
  /\ UNCHANGED <<rate, wake, stopped, loop, delay, call, expired, changes,
                 unsignaled>>

\* Mutant of RunShort: it goes back to select, where only a signal wakes it.
RunShortUntimed(r) ==
  /\ loop = "next" /\ IsNext(r)
  /\ rate # 0 /\ Replenished < Size[r]
  /\ tokens' = Replenished /\ accrued' = 0
  /\ high' = LiveHigh /\ normal' = LiveNormal
  /\ loop' = "select"
  /\ UNCHANGED <<rate, wake, stopped, delay, call, granted, expired, changes,
                 unsignaled, room>>

RunShort(r) ==
  /\ loop = "next" /\ IsNext(r)
  /\ rate # 0 /\ Replenished < Size[r]
  /\ tokens' = Replenished /\ accrued' = 0
  /\ delay' = (Size[r] - Replenished + rate - 1) \div rate
  /\ high' = LiveHigh /\ normal' = LiveNormal
  /\ loop' = "timer"
  /\ UNCHANGED <<rate, wake, stopped, call, granted, expired, changes,
                 unsignaled, room>>

TimerEnds ==
  /\ loop = "timer" /\ loop' = "next"
  /\ \/ delay = 0 /\ UNCHANGED wake
     \/ wake /\ wake' = FALSE
  /\ delay' = 0
  /\ UNCHANGED <<bucket, queues, stopped, call, granted, expired, changes,
                 unsignaled, room>>

Exit ==
  /\ loop \in {"select", "timer"} /\ stopped
  /\ loop' = "exited"
  /\ UNCHANGED <<bucket, queues, wake, stopped, delay, call, granted, expired,
                 changes, unsignaled, room>>

Run ==
  \/ Woken \/ NothingPending \/ TimerEnds \/ Exit
  \/ \E r \in Requests : Grant(r) \/ RunShort(r)

Next ==
  \/ \E r \in Requests : Enqueue(r) \/ Wait(r) \/ Expire(r)
  \/ \E mbps \in Rates : SetMbps(mbps)
  \/ SignalRate \/ Stop \/ Tick \/ Run

Spec == Init /\ [][Next]_vars

FairSpec ==
  /\ Spec
  /\ WF_vars(Run) /\ WF_vars(Tick) /\ WF_vars(SignalRate)
  /\ \A r \in Requests : WF_vars(Wait(r))

-----------------------------------------------------------------------------
(* Properties.                                                             *)

\* Between any two moments without a lifted limit, no more bytes are granted than
\* one full bucket, of the largest rate, and what the rates in force were worth
\* meanwhile: the time
\* that passed is credited once, whoever looks at the bucket and however often,
\* and a change of the rate is no new bucket.
RateRespected == rate # 0 => room >= 0

\* Inductive, for RateRespected: what the bucket holds once the time that passed
\* is credited may be granted.
RoomInv ==
  /\ rate \in Rates \cup {0} /\ tokens \in Nat /\ accrued \in Nat /\ room \in Int
  /\ rate # 0 => Replenished <= room

Members(queue) == {queue[i] : i \in DOMAIN queue}
Queued(r) == r \in Members(high) \cup Members(normal)

\* The goroutine never sleeps on an empty wake channel while a request waits,
\* unless the caller is about to signal: checking the queues and going back to
\* select are two steps.
NoLostWakeup ==
  loop = "select" =>
    \A r \in Requests : Queued(r) /\ Alive(r) => wake \/ call[r] = "queued"

\* A caller still waiting is in a queue, whoever was granted, canceled or
\* filtered out around it, and it is not there after its grant.
WaitersAreQueued ==
  \A r \in Requests :
    /\ (call[r] \in {"queued", "waiting"} /\ Alive(r) /\ r \notin granted) => Queued(r)
    /\ r \in granted => ~Queued(r)

\* Nobody who waits is forgotten: not by the queues, and not by the goroutine.
QueuesHold == TypeOK /\ NoLostWakeup /\ WaitersAreQueued

\* Inductive, for QueuesHold: a request stands once in the queue of its class,
\* and only after its call of Wait.
Distinct(queue) == \A i, j \in DOMAIN queue : queue[i] = queue[j] => i = j

QueuesInv ==
  /\ QueuesHold
  /\ Distinct(high) /\ Distinct(normal)
  /\ Members(high) \subseteq Priority /\ Members(normal) \cap Priority = {}
  /\ \A r \in Requests : Queued(r) \/ r \in granted => call[r] # "idle"

\* Every call of Wait returns, without a context to save it.
CallsReturn ==
  \A r \in Requests :
    call[r] = "queued" ~> call[r] \in {"granted", "canceled", "stopped"}
=============================================================================
