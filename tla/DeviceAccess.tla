---------------------------- MODULE DeviceAccess ----------------------------
(***************************************************************************)
(* The transactions of the web application and of the agent that meet at   *)
(* the rows of one account: POST and DELETE of a device by its owner,      *)
(* PATCH of the account by an administrator, and the agent's telemetry.    *)
(* They run at READ COMMITTED: a query sees what was committed when it     *)
(* started, an UPDATE waits for the row's lock and then writes whatever    *)
(* the program computed before, and PostgreSQL aborts one of two           *)
(* transactions that wait for each other.                                  *)
(***************************************************************************)
EXTENDS Naturals, FiniteSets, Sequences

CONSTANTS
  Devices,    \* devices that may be registered
  Patches,    \* calls of PATCH /admin/accounts/[userId]
  Limits,     \* values of max_devices
  MaxPasses   \* bound: telemetry transactions

None      == "none"
Telemetry == "telemetry"
Access    == "access"

ASSUME AccessAssumption ==
  /\ IsFiniteSet(Devices) /\ Devices \cap Patches = {}
  /\ {None, Telemetry, Access} \cap (Devices \cup Patches) = {}
  /\ Limits \subseteq Nat \ {0} /\ Limits # {} /\ MaxPasses \in Nat

VARIABLES
  \* Committed
  status,      \* devices.status
  limit,       \* vpn_accesses.max_devices
  order,       \* the devices by created_at, the start of their transaction
  \* Locks, each with the transaction that holds it, and its pending writes
  advisory,    \* pg_advisory_xact_lock of the owner
  rowLock,     \* rowLock[d]
  written,     \* written[d]: the status the holder wrote, None for no change
  accessLock,  \* the row of the access
  \* Transactions
  post,        \* post[d]: where the registration of d is
  seen,        \* seen[d]: the limit it read
  delete,      \* delete[d]: where the revocation of d is
  patch,       \* patch[p]: where PATCH is
  chosen,      \* chosen[p]: the limit it sets
  plan,        \* plan[p][d]: the status it still has to write
  next,        \* the row the telemetry transaction locks next
  passes,      \* telemetry transactions so far
  \* History
  highest,     \* the highest limit there was
  raced,       \* a registration and a PATCH overlapped
  revived      \* a PATCH wrote a status over a revocation

rows    == <<status, limit, order>>
locks   == <<advisory, rowLock, written, accessLock>>
posts   == <<post, seen>>
patches == <<patch, chosen, plan>>
agent   == <<next, passes>>
history == <<highest, raced, revived>>
vars == <<rows, locks, posts, delete, patches, agent, history>>

Statuses == {"active", "blocked_by_limit", "revoked"}
Holders  == Devices \cup Patches \cup {Telemetry, None}

TypeOK ==
  /\ status \in [Devices -> Statuses \cup {None}]
  /\ limit \in Limits /\ order \in Seq(Devices)
  /\ advisory \in Devices \cup {None}
  /\ rowLock \in [Devices -> Holders]
  /\ written \in [Devices -> Statuses \cup {None}]
  /\ accessLock \in Patches \cup {None}
  /\ post \in [Devices -> {"idle", "begun", "locked", "read", "inserted", "done"}]
  /\ seen \in [Devices -> Limits]
  /\ delete \in [Devices -> {"idle", "called", "updated", "done"}]
  /\ patch \in [Patches -> {"idle", "begun", "locked", "planned", "done"}]
  /\ chosen \in [Patches -> Limits]
  /\ plan \in [Patches -> [Devices -> Statuses \cup {None}]]
  /\ next \in Devices \cup {Access, None} /\ passes \in 0..MaxPasses
  /\ highest \in Limits /\ raced \in BOOLEAN /\ revived \in BOOLEAN

NoPlan == [d \in Devices |-> None]

Init ==
  /\ status = [d \in Devices |-> None]
  /\ limit \in Limits /\ order = <<>>
  /\ advisory = None /\ accessLock = None
  /\ rowLock = [d \in Devices |-> None] /\ written = NoPlan
  /\ post = [d \in Devices |-> "idle"] /\ seen = [d \in Devices |-> limit]
  /\ delete = [d \in Devices |-> "idle"]
  /\ patch = [p \in Patches |-> "idle"] /\ chosen = [p \in Patches |-> limit]
  /\ plan = [p \in Patches |-> NoPlan]
  /\ next = None /\ passes = 0
  /\ highest = limit /\ raced = FALSE /\ revived = FALSE

Registered == {d \in Devices : status[d] \in {"active", "blocked_by_limit"}}
Active     == {d \in Devices : status[d] = "active"}

\* The end of the transaction that holder h runs: its locks go, its writes too.
LetGo(h) ==
  /\ rowLock' = [d \in Devices |-> IF rowLock[d] = h THEN None ELSE rowLock[d]]
  /\ written' = [d \in Devices |-> IF rowLock[d] = h THEN None ELSE written[d]]
  /\ accessLock' = IF accessLock = h THEN None ELSE accessLock

\* UPDATE devices SET status ... WHERE id = d.
Update(h, d, value) ==
  /\ rowLock[d] = None
  /\ rowLock' = [rowLock EXCEPT ![d] = h]
  /\ written' = [written EXCEPT ![d] = value]
  /\ UNCHANGED <<advisory, accessLock>>

CommitStatus(h) ==
  status' = [d \in Devices |->
    IF rowLock[d] = h /\ written[d] # None THEN written[d] ELSE status[d]]

-----------------------------------------------------------------------------
(* POST /portal/devices.                                                   *)

PostGoto(d, from, to) == post[d] = from /\ post' = [post EXCEPT ![d] = to]
Posting  == \E d \in Devices : post[d] \notin {"idle", "done"}
Patching == \E p \in Patches : patch[p] \in {"locked", "planned"}

Post(d) ==
  /\ PostGoto(d, "idle", "begun")
  /\ order' = Append(order, d)
  /\ raced' = (raced \/ Patching)
  /\ UNCHANGED <<status, limit, locks, seen, delete, patches, agent, highest,
                 revived>>

\* Mutant of LockOwner: no advisory lock, the count alone has to do.
LockOwnerAtOnce(d) ==
  /\ PostGoto(d, "begun", "locked")
  /\ advisory' = d
  /\ UNCHANGED <<rows, rowLock, written, accessLock, seen, delete, patches, agent,
                 history>>

LockOwner(d) ==
  /\ PostGoto(d, "begun", "locked")
  /\ advisory = None /\ advisory' = d
  /\ UNCHANGED <<rows, rowLock, written, accessLock, seen, delete, patches, agent,
                 history>>

ReadLimit(d) ==
  /\ PostGoto(d, "locked", "read")
  /\ seen' = [seen EXCEPT ![d] = limit]
  /\ UNCHANGED <<rows, locks, delete, patches, agent, history>>

InsertDevice(d) ==
  /\ PostGoto(d, "read", "inserted")
  /\ Cardinality(Registered) < seen[d]
  /\ UNCHANGED <<rows, locks, seen, delete, patches, agent, history>>

CommitDevice(d) ==
  /\ PostGoto(d, "inserted", "done")
  /\ status' = [status EXCEPT ![d] = "active"]
  /\ advisory' = None
  /\ UNCHANGED <<limit, order, rowLock, written, accessLock, seen, delete,
                 patches, agent, history>>

\* Mutant of RefuseDevice: a session-level lock, which a rollback keeps.
RefuseKeepingLock(d) ==
  /\ PostGoto(d, "read", "done")
  /\ UNCHANGED <<rows, locks, seen, delete, patches, agent, history>>

\* The limit is reached, or the access is suspended, expired or over its quota.
RefuseDevice(d) ==
  /\ PostGoto(d, "read", "done")
  /\ advisory' = None
  /\ UNCHANGED <<rows, rowLock, written, accessLock, seen, delete, patches,
                 agent, history>>

-----------------------------------------------------------------------------
(* DELETE /portal/devices/[deviceId].                                      *)

Delete(d) ==
  /\ delete[d] = "idle" /\ status[d] # None
  /\ delete' = [delete EXCEPT ![d] = "called"]
  /\ UNCHANGED <<rows, locks, posts, patches, agent, history>>

UpdateRevoked(d) ==
  /\ delete[d] = "called" /\ delete' = [delete EXCEPT ![d] = "updated"]
  /\ Update(d, d, "revoked")
  /\ UNCHANGED <<rows, posts, patches, agent, history>>

CommitRevoked(d) ==
  /\ delete[d] = "updated" /\ delete' = [delete EXCEPT ![d] = "done"]
  /\ CommitStatus(d) /\ LetGo(d)
  /\ UNCHANGED <<limit, order, advisory, posts, patches, agent, history>>

-----------------------------------------------------------------------------
(* PATCH /admin/accounts/[userId].                                         *)

PatchGoto(p, from, to) == patch[p] = from /\ patch' = [patch EXCEPT ![p] = to]

Patch(p, newLimit) ==
  /\ PatchGoto(p, "idle", "begun")
  /\ chosen' = [chosen EXCEPT ![p] = newLimit]
  /\ UNCHANGED <<rows, locks, posts, delete, plan, agent, history>>

UpdateAccess(p) ==
  /\ PatchGoto(p, "begun", "locked")
  /\ accessLock = None /\ accessLock' = p
  /\ raced' = (raced \/ Posting)
  /\ UNCHANGED <<rows, advisory, rowLock, written, posts, delete, chosen, plan,
                 agent, highest, revived>>

\* The place of d among the registered devices, by created_at.
Before(e, d) ==
  \E i, j \in DOMAIN order : i < j /\ order[i] = e /\ order[j] = d
Index(d) == Cardinality({e \in Registered : Before(e, d)})

NextStatus(p, d) ==
  IF Index(d) < chosen[p] THEN "active" ELSE "blocked_by_limit"

PlanDevices(p) ==
  /\ PatchGoto(p, "locked", "planned")
  /\ plan' = [plan EXCEPT ![p] = [d \in Devices |->
       IF d \in Registered /\ NextStatus(p, d) # status[d]
       THEN NextStatus(p, d) ELSE None]]
  /\ UNCHANGED <<rows, locks, posts, delete, chosen, agent, history>>

Planned(p)    == {d \in Devices : plan[p][d] # None}
IsNext(p, d)  == d \in Planned(p) /\ \A e \in Planned(p) : ~Before(e, d)
Revives(p)    ==
  \E d \in Devices : rowLock[d] = p /\ written[d] # None /\ status[d] = "revoked"

UpdateDevice(p, d) ==
  /\ patch[p] = "planned" /\ IsNext(p, d)
  /\ Update(p, d, plan[p][d])
  /\ plan' = [plan EXCEPT ![p][d] = None]
  /\ UNCHANGED <<rows, posts, delete, patch, chosen, agent, history>>

CommitAccount(p) ==
  /\ PatchGoto(p, "planned", "done") /\ Planned(p) = {}
  /\ CommitStatus(p) /\ LetGo(p)
  /\ limit' = chosen[p]
  /\ highest' = IF chosen[p] > highest THEN chosen[p] ELSE highest
  /\ revived' = (revived \/ Revives(p))
  /\ UNCHANGED <<order, advisory, posts, delete, chosen, plan, agent, raced>>

-----------------------------------------------------------------------------
(* collect_telemetry updates rows of devices, then the row of the access.  *)

Measure(row) ==
  /\ next = None /\ passes < MaxPasses /\ passes' = passes + 1
  /\ row \in Devices => status[row] # None
  /\ next' = row
  /\ UNCHANGED <<rows, locks, posts, delete, patches, history>>

MeasureDevice(row) ==
  /\ next \in Devices /\ Update(Telemetry, next, None)
  /\ row \in Devices => status[row] # None /\ rowLock[row] # Telemetry /\ row # next
  /\ next' = row
  /\ UNCHANGED <<rows, posts, delete, patches, passes, history>>

MeasureAccess ==
  /\ next = Access /\ accessLock = None
  /\ next' = None
  /\ LetGo(Telemetry)
  /\ UNCHANGED <<rows, advisory, posts, delete, patches, passes, history>>

-----------------------------------------------------------------------------
(* PostgreSQL's deadlock detection.                                        *)

WaitsForAgent(p) == patch[p] = "planned" /\ \E d \in Devices : IsNext(p, d) /\ rowLock[d] = Telemetry
AgentWaitsFor(p) ==
  \/ next = Access /\ accessLock = p
  \/ next \in Devices /\ rowLock[next] = p
Deadlocked(p) == WaitsForAgent(p) /\ AgentWaitsFor(p)

AbortPatch(p) ==
  /\ Deadlocked(p)
  /\ patch' = [patch EXCEPT ![p] = "done"]
  /\ plan' = [plan EXCEPT ![p] = NoPlan]
  /\ LetGo(p)
  /\ UNCHANGED <<rows, advisory, posts, delete, chosen, agent, history>>

AbortTelemetry ==
  /\ \E p \in Patches : Deadlocked(p)
  /\ next' = None
  /\ LetGo(Telemetry)
  /\ UNCHANGED <<rows, advisory, posts, delete, patches, passes, history>>

-----------------------------------------------------------------------------
PostStep(d) ==
  \/ LockOwner(d) \/ ReadLimit(d) \/ InsertDevice(d) \/ CommitDevice(d)
  \/ RefuseDevice(d)

DeleteStep(d) == UpdateRevoked(d) \/ CommitRevoked(d)

PatchStep(p) ==
  \/ UpdateAccess(p) \/ PlanDevices(p) \/ CommitAccount(p) \/ AbortPatch(p)
  \/ \E d \in Devices : UpdateDevice(p, d)

AgentStep ==
  \/ \E row \in Devices \cup {Access} : MeasureDevice(row)
  \/ MeasureAccess \/ AbortTelemetry

Done ==
  /\ \A p \in Patches : patch[p] = "done"
  /\ \A d \in Devices : post[d] = "done" /\ (status[d] = None \/ delete[d] = "done")
  /\ passes = MaxPasses /\ next = None
  /\ UNCHANGED vars

Next ==
  \/ \E d \in Devices : Post(d) \/ PostStep(d) \/ Delete(d) \/ DeleteStep(d)
  \/ \E p \in Patches : PatchStep(p) \/ \E newLimit \in Limits : Patch(p, newLimit)
  \/ AgentStep \/ \E row \in Devices \cup {Access} : Measure(row)
  \/ Done

Spec == Init /\ [][Next]_vars

FairSpec ==
  /\ Spec /\ WF_vars(AgentStep)
  /\ \A d \in Devices : WF_vars(PostStep(d)) /\ WF_vars(DeleteStep(d))
  /\ \A p \in Patches : WF_vars(PatchStep(p))

-----------------------------------------------------------------------------
(* Properties.                                                             *)

Quiet ==
  /\ ~Posting
  /\ \A d \in Devices : delete[d] \in {"idle", "done"}
  /\ \A p \in Patches : patch[p] \in {"idle", "done"}

\* When nothing is under way no more devices are active than the account
\* allows: "one named credential for each phone, tablet or desktop, up to the
\* administrator-defined device limit".
ActiveWithinLimit == Quiet => Cardinality(Active) <= limit

\* It is so at any moment, as long as no registration overlaps a PATCH of the
\* same account, whatever revocations, telemetry and aborts do meanwhile.
LimitWithoutRace == ~raced => Cardinality(Active) <= limit

\* The advisory lock keeps registrations from passing the limit together: no
\* more devices are registered than the highest limit there ever was, unless a
\* PATCH has brought a revoked device back.
RegistrationsTakeTurns == ~revived => Cardinality(Registered) <= highest

\* Both: what the advisory lock is for, and what only its overlap with PATCH breaks.
LimitHolds == TypeOK /\ LimitWithoutRace /\ RegistrationsTakeTurns

\* A revoked device stays revoked: its "subscription token and VPN identity
\* stop being accepted".
RevokedForGood ==
  [][\A d \in Devices : status[d] = "revoked" => status'[d] = "revoked"]_vars

\* Every request ends, waits for locks and deadlocks included.
RequestsEnd ==
  /\ \A d \in Devices : post[d] = "begun" ~> post[d] = "done"
  /\ \A d \in Devices : delete[d] = "called" ~> delete[d] = "done"
  /\ \A p \in Patches : patch[p] = "begun" ~> patch[p] = "done"
=============================================================================
