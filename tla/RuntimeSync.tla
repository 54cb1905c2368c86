---------------------------- MODULE RuntimeSync ----------------------------
(***************************************************************************)
(* The Runtime Agent's poll loop (services/runtime/runtime.py,             *)
(* RuntimeAgent.run): the web application changes the desired             *)
(* configuration in PostgreSQL and leaves a command in runtime_commands;   *)
(* the agent claims commands, reads the configuration, and makes a running *)
(* Xray process serve it, one CLI call at a time over Xray's local API, or *)
(* by a restart on a freshly validated file when that fails.               *)
(*                                                                         *)
(* Versions are a device of the model: every committed change of the      *)
(* configuration gets the next number, and the command enqueued with it is *)
(* named by that number.                                                   *)
(***************************************************************************)
EXTENDS Naturals, FiniteSets

CONSTANTS
  Devices,        \* rows of table devices
  Accesses,       \* rows of table vpn_accesses, one per account
  Owner,          \* Owner[d]: the access device d belongs to
  BatchLimit,     \* commands claimed per pass ("limit 25")
  MaxVersion,     \* bound: committed changes of the configuration
  MaxFaults,      \* bound: failures of the agent's own calls, in all
  FaultsPerPass,  \* bound: failures of the agent's own calls, in one pass
  MaxXrayExits,   \* bound: exits of the Xray process
  MaxRestarts     \* bound: restarts of the agent's container

None == "none"

ASSUME ConstantsAssumption ==
  /\ Owner \in [Devices -> Accesses]
  /\ Devices \cap Accesses = {}
  /\ None \notin Devices \cup Accesses
  /\ BatchLimit \in Nat \ {0} /\ MaxVersion \in Nat
  /\ MaxFaults \in Nat /\ FaultsPerPass \in Nat
  /\ MaxXrayExits \in Nat /\ MaxRestarts \in Nat

VARIABLES
  \* PostgreSQL
  db,          \* the desired configuration: settings, access rows, devices
  version,     \* number of committed changes
  cmd,         \* cmd[v]: status of the command enqueued with change v
  access,      \* how far each account's creation has come
  revokedBy,   \* revokedBy[d]: the change that revoked d, 0 before
  \* RuntimeAgent
  phase,       \* where the poll pass is
  batch,       \* commands claimed by this pass
  model,       \* what load_model returned
  loadVersion, \* version when load_model's first query ran
  applied,     \* applied_clients and applied_accesses
  fingerprint, \* the model config_fingerprint was computed from
  staticPrint, \* the settings static_config_fingerprint was computed from
  work,        \* what is left of reconcile_live_config
  \* The Xray process
  xray,        \* up, and what it serves
  liveVersion, \* loadVersion of the model last made live
  \* Failures so far
  faults, passFaults, xrayExits, restarts

dbVars    == <<db, version, access, revokedBy>>
agentVars == <<batch, model, loadVersion, applied, fingerprint, staticPrint>>
faultVars == <<faults, passFaults, xrayExits, restarts>>
vars == <<dbVars, cmd, phase, agentVars, work, xray, liveVersion, faultVars>>

Versions == 1..MaxVersion

\* What the agent derives Xray's configuration from. Settings stand for the
\* part of the configuration that only a restart can change.
Model == [settings : Nat,
          accesses : SUBSET Accesses,
          devices  : SUBSET Devices]

Snapshot == [accesses : SUBSET Accesses, devices : SUBSET Devices]

Work == [remove : SUBSET Devices, addAccess : SUBSET Accesses,
         add : SUBSET Devices, removeAccess : SUBSET Accesses,
         half : Devices \cup Accesses \cup {None}]

XrayState == [up : BOOLEAN, settings : Nat,
              users : SUBSET Devices, rules : SUBSET Devices,
              outbounds : SUBSET Accesses, balancers : SUBSET Accesses]

\* config_fingerprint = "": settings are numbered from 1.
NoModel == [settings |-> 0, accesses |-> {}, devices |-> {}]

DevicesOf(a) == {d \in Devices : Owner[d] = a}

\* xray run -test rejects a rule whose balancer is not configured.
Valid(m) == \A d \in m.devices : Owner[d] \in m.accesses

\* Xray started on the file generated from m.
Serving(m) == [up |-> TRUE, settings |-> m.settings,
               users |-> m.devices, rules |-> m.devices,
               outbounds |-> m.accesses, balancers |-> m.accesses]

Down == [up |-> FALSE, settings |-> 0, users |-> {}, rules |-> {},
         outbounds |-> {}, balancers |-> {}]

NoWork == [remove |-> {}, addAccess |-> {}, add |-> {}, removeAccess |-> {},
           half |-> None]

TypeOK ==
  /\ db \in Model /\ version \in 0..MaxVersion
  /\ cmd \in [Versions -> {None, "pending", "processing", "succeeded", "failed"}]
  /\ access \in [Accesses -> {"absent", "created", "enqueued", "present",
                             "deleted"}]
  /\ revokedBy \in [Devices -> 0..MaxVersion]
  /\ phase \in {"idle", "claimed", "loading", "loaded", "live", "sync",
                "stopped", "pushed", "measured"}
  /\ batch \in SUBSET Versions
  /\ model \in Model /\ loadVersion \in 0..MaxVersion
  /\ applied \in Snapshot
  /\ fingerprint \in Model /\ staticPrint \in Nat
  /\ work \in Work /\ xray \in XrayState
  /\ liveVersion \in 0..MaxVersion
  /\ faults \in 0..MaxFaults /\ passFaults \in 0..FaultsPerPass
  /\ xrayExits \in 0..MaxXrayExits /\ restarts \in 0..MaxRestarts

Init ==
  /\ db = [settings |-> 1, accesses |-> {}, devices |-> {}]
  /\ version = 0
  /\ cmd = [v \in Versions |-> None]
  /\ access = [a \in Accesses |-> "absent"]
  /\ revokedBy = [d \in Devices |-> 0]
  /\ phase = "idle" /\ batch = {}
  /\ model = NoModel /\ loadVersion = 0
  /\ applied = [accesses |-> {}, devices |-> {}]
  /\ fingerprint = NoModel /\ staticPrint = 0
  /\ work = NoWork
  /\ xray = Down /\ liveVersion = 0
  /\ faults = 0 /\ passFaults = 0 /\ xrayExits = 0 /\ restarts = 0

-----------------------------------------------------------------------------
(* Changes of the desired configuration, by the web application and by    *)
(* time. A change commits as one transaction with its command, except the  *)
(* creation of an account, which commits first and enqueues afterwards.    *)

Commit(newDb) ==
  /\ version < MaxVersion
  /\ version' = version + 1
  /\ db' = newDb

Enqueue  == cmd' = [cmd EXCEPT ![version + 1] = "pending"]
ByWeb    == UNCHANGED <<phase, agentVars, work, xray, liveVersion, faultVars>>

ChangeSettings ==
  /\ Commit([db EXCEPT !.settings = @ + 1])
  /\ Enqueue
  /\ ByWeb /\ UNCHANGED <<access, revokedBy>>

CreateAccess(a) ==
  /\ access[a] = "absent"
  /\ access' = [access EXCEPT ![a] = "created"]
  /\ Commit([db EXCEPT !.accesses = @ \cup {a}])
  /\ ByWeb /\ UNCHANGED <<cmd, revokedBy>>

EnqueueAccessSync(a) ==
  /\ access[a] = "created"
  /\ access' = [access EXCEPT ![a] = "enqueued"]
  /\ Commit(db)
  /\ Enqueue
  /\ ByWeb /\ UNCHANGED revokedBy

AuditAccess(a) ==
  /\ access[a] = "enqueued"
  /\ access' = [access EXCEPT ![a] = "present"]
  /\ ByWeb /\ UNCHANGED <<db, version, cmd, revokedBy>>

\* When the enqueueing or the audit entry fails, POST /admin/accounts deletes
\* the user, which cascades to the access; an enqueued command stays.
UndoAccess(a) ==
  /\ access[a] \in {"created", "enqueued"}
  /\ access' = [access EXCEPT ![a] = "deleted"]
  /\ Commit([db EXCEPT !.accesses = @ \ {a}])
  /\ ByWeb /\ UNCHANGED <<cmd, revokedBy>>

\* Suspending or renewing an account, changing its device limit, adding a
\* device: any of the account's devices that are not revoked may be eligible.
PatchAccess(a, eligible) ==
  /\ access[a] = "present"
  /\ eligible \subseteq {d \in DevicesOf(a) : revokedBy[d] = 0}
  /\ Commit([db EXCEPT !.devices = (@ \ DevicesOf(a)) \cup eligible])
  /\ Enqueue
  /\ ByWeb /\ UNCHANGED <<access, revokedBy>>

RevokeDevice(d) ==
  /\ access[Owner[d]] = "present" /\ revokedBy[d] = 0
  /\ Commit([db EXCEPT !.devices = @ \ {d}])
  /\ revokedBy' = [revokedBy EXCEPT ![d] = version + 1]
  /\ Enqueue
  /\ ByWeb /\ UNCHANGED access

\* An expiry date passes: load_model drops the account's devices, and no
\* command says so.
Expire(a) ==
  /\ DevicesOf(a) \cap db.devices # {}
  /\ Commit([db EXCEPT !.devices = @ \ DevicesOf(a)])
  /\ ByWeb /\ UNCHANGED <<cmd, access, revokedBy>>

WebChange ==
  \/ ChangeSettings
  \/ \E a \in Accesses :
       \/ CreateAccess(a) \/ EnqueueAccessSync(a) \/ AuditAccess(a)
       \/ UndoAccess(a) \/ Expire(a)
       \/ \E eligible \in SUBSET DevicesOf(a) : PatchAccess(a, eligible)
  \/ \E d \in Devices : RevokeDevice(d)

-----------------------------------------------------------------------------
(* One pass of the agent's loop.                                           *)

Goto(from, to) == phase = from /\ phase' = to

\* Mutant of Pending: failed commands are taken again.
PendingOrFailed == {v \in Versions : cmd[v] \in {"pending", "failed"}}

Pending == {v \in Versions : cmd[v] = "pending"}

\* At most BatchLimit pending commands. They are taken by created_at, the
\* start time of the enqueueing transaction, so in no order of the versions.
ClaimCommands ==
  /\ Goto("idle", "claimed")
  /\ batch' \in SUBSET Pending
  /\ Cardinality(batch') <= BatchLimit
  /\ batch' = Pending \/ Cardinality(batch') = BatchLimit
  /\ cmd' = [v \in Versions |-> IF v \in batch' THEN "processing" ELSE cmd[v]]
  /\ passFaults' = 0
  /\ UNCHANGED <<dbVars, model, loadVersion, applied, fingerprint,
                 staticPrint, work, xray, liveVersion, faults, xrayExits,
                 restarts>>

\* load_model reads settings and accesses before devices; under READ
\* COMMITTED each query sees its own snapshot.
LoadAccesses ==
  /\ Goto("claimed", "loading")
  /\ model' = [settings |-> db.settings, accesses |-> db.accesses, devices |-> {}]
  /\ loadVersion' = version
  /\ UNCHANGED <<dbVars, cmd, batch, applied, fingerprint, staticPrint, work,
                 xray, liveVersion, faultVars>>

LoadDevices ==
  /\ Goto("loading", "loaded")
  /\ model' = [model EXCEPT !.devices = db.devices]
  /\ UNCHANGED <<dbVars, cmd, batch, loadVersion, applied, fingerprint,
                 staticPrint, work, xray, liveVersion, faultVars>>

\* Mutant of RequiresReconcile: only a command makes the pass reconcile.
RequiresCommand == batch # {}

RequiresReconcile == fingerprint # model \/ batch # {}
StaticChanged     == staticPrint # model.settings

SkipReconcile ==
  /\ Goto("loaded", "pushed")
  /\ xray.up /\ ~RequiresReconcile
  /\ liveVersion' = loadVersion
  /\ UNCHANGED <<dbVars, cmd, agentVars, work, xray, faultVars>>

BeginSync ==
  /\ Goto("loaded", "sync")
  /\ \/ ~xray.up
     \/ RequiresReconcile /\ StaticChanged
  /\ UNCHANGED <<dbVars, cmd, agentVars, work, xray, liveVersion, faultVars>>

BeginLive ==
  /\ Goto("loaded", "live")
  /\ xray.up /\ RequiresReconcile /\ ~StaticChanged
  /\ Valid(model)
  /\ work' = [remove       |-> applied.devices \ model.devices,
              addAccess    |-> model.accesses \ applied.accesses,
              add          |-> model.devices \ applied.devices,
              removeAccess |-> applied.accesses \ model.accesses,
              half         |-> None]
  /\ UNCHANGED <<dbVars, cmd, agentVars, xray, liveVersion, faultVars>>

-----------------------------------------------------------------------------
(* reconcile_live_config: one step per call of the xray api command line.  *)
(* A call succeeds when Xray runs and prints the expected line. It fails   *)
(* when Xray is down or prints another line; it may also fail without      *)
(* reaching Xray (lost), or time out after Xray has done it (late). Any    *)
(* failure abandons the rest of the work for a restart.                    *)

Fault ==
  /\ faults < MaxFaults /\ passFaults < FaultsPerPass
  /\ faults' = faults + 1 /\ passFaults' = passFaults + 1

\* Mutant of RunXrayApi: a failed call is logged and the next one made.
RunXrayApiAnyway(rest, expected, done) ==
  /\ phase = "live" /\ work' = rest
  /\ \/ /\ xray' = (IF xray.up /\ expected THEN done ELSE xray)
        /\ UNCHANGED <<faults, passFaults>>
     \/ /\ Fault /\ xray' \in {xray, done}
  /\ UNCHANGED <<dbVars, cmd, phase, agentVars, liveVersion, xrayExits, restarts>>

RunXrayApi(rest, expected, done) ==
  /\ phase = "live"
  /\ \/ /\ xray.up /\ expected
        /\ work' = rest /\ xray' = done
        /\ UNCHANGED <<phase, faults, passFaults>>
     \/ /\ ~xray.up \/ ~expected
        /\ phase' = "sync" /\ work' = NoWork
        /\ UNCHANGED <<xray, faults, passFaults>>
     \/ /\ xray.up /\ expected
        /\ Fault
        /\ phase' = "sync" /\ work' = NoWork
        /\ xray' \in {xray, done}
  /\ UNCHANGED <<dbVars, cmd, agentVars, liveVersion, xrayExits, restarts>>

RemovingRule == work.half \in applied.devices \ model.devices

RemoveUser(d) ==          \* rmu
  /\ work.half = None /\ d \in work.remove
  /\ RunXrayApi([work EXCEPT !.remove = @ \ {d}, !.half = d],
                d \in xray.users,
                [xray EXCEPT !.users = @ \ {d}])

RemoveRule ==             \* rmrules
  /\ RemovingRule
  /\ RunXrayApi([work EXCEPT !.half = None], TRUE,
                [xray EXCEPT !.rules = @ \ {work.half}])

AddOutbound(a) ==         \* ado
  /\ work.half = None /\ work.remove = {} /\ a \in work.addAccess
  /\ RunXrayApi([work EXCEPT !.addAccess = @ \ {a}, !.half = a], TRUE,
                [xray EXCEPT !.outbounds = @ \cup {a}])

AddBalancer ==            \* adrules -append, a balancer
  /\ work.half \in Accesses
  /\ RunXrayApi([work EXCEPT !.half = None], TRUE,
                [xray EXCEPT !.balancers = @ \cup {work.half}])

\* Mutant of AddRule: add_client_live adds the user before the rule.
AddUserFirst(d) ==
  /\ work.half = None /\ work.remove = {} /\ work.addAccess = {}
  /\ d \in work.add
  /\ RunXrayApi([work EXCEPT !.add = @ \ {d}, !.half = d], d \notin xray.users,
                [xray EXCEPT !.users = @ \cup {d}])

\* Mutant of AddRule: clients are added before the accounts they belong to.
AddRuleEarly(d) ==
  /\ work.half = None /\ work.remove = {} /\ d \in work.add
  /\ RunXrayApi([work EXCEPT !.add = @ \ {d}, !.half = d], TRUE,
                [xray EXCEPT !.rules = @ \cup {d}])

AddRule(d) ==             \* adrules -append, a rule
  /\ work.half = None /\ work.remove = {} /\ work.addAccess = {}
  /\ d \in work.add
  /\ RunXrayApi([work EXCEPT !.add = @ \ {d}, !.half = d], TRUE,
                [xray EXCEPT !.rules = @ \cup {d}])

AddUser ==                \* adu
  /\ work.half \in Devices /\ ~RemovingRule
  /\ RunXrayApi([work EXCEPT !.half = None],
                work.half \notin xray.users,
                [xray EXCEPT !.users = @ \cup {work.half}])

RemoveOutbound(a) ==      \* rmo; the balancer stays
  /\ work.half = None
  /\ work.remove = {} /\ work.addAccess = {} /\ work.add = {}
  /\ a \in work.removeAccess
  /\ RunXrayApi([work EXCEPT !.removeAccess = @ \ {a}], TRUE,
                [xray EXCEPT !.outbounds = @ \ {a}])

FinishLive ==
  /\ Goto("live", "pushed")
  /\ work = NoWork
  /\ applied' = [accesses |-> model.accesses, devices |-> model.devices]
  /\ fingerprint' = model
  /\ liveVersion' = loadVersion
  /\ UNCHANGED <<dbVars, cmd, batch, model, loadVersion, staticPrint, work,
                 xray, faultVars>>

LiveStep ==
  \/ \E d \in Devices  : RemoveUser(d) \/ AddRule(d)
  \/ \E a \in Accesses : AddOutbound(a) \/ RemoveOutbound(a)
  \/ RemoveRule \/ AddBalancer \/ AddUser \/ FinishLive

-----------------------------------------------------------------------------
(* sync_runtime: validate the new file, stop Xray, start it on that file.  *)

StopXray ==
  /\ Goto("sync", "stopped")
  /\ Valid(model)
  /\ xray' = Down
  /\ UNCHANGED <<dbVars, cmd, agentVars, work, liveVersion, faultVars>>

\* Mutant of StartXray: sync_runtime leaves applied_clients as they were.
StartXrayUnrecorded ==
  /\ Goto("stopped", "pushed")
  /\ xray' = Serving(model)
  /\ applied' = [applied EXCEPT !.accesses = model.accesses]
  /\ fingerprint' = model
  /\ staticPrint' = model.settings
  /\ liveVersion' = loadVersion
  /\ UNCHANGED <<dbVars, cmd, batch, model, loadVersion, work, faultVars>>

StartXray ==
  /\ Goto("stopped", "pushed")
  /\ xray' = Serving(model)
  /\ applied' = [accesses |-> model.accesses, devices |-> model.devices]
  /\ fingerprint' = model
  /\ staticPrint' = model.settings
  /\ liveVersion' = loadVersion
  /\ UNCHANGED <<dbVars, cmd, batch, model, loadVersion, work, faultVars>>

-----------------------------------------------------------------------------
(* The end of a pass.                                                      *)

\* enforce_limits, at the end of collect_telemetry, marks an access expired
\* or over its quota; the loop then forgets config_fingerprint.
EnforceLimits(a) ==
  /\ Goto("pushed", "measured")
  /\ DevicesOf(a) \cap db.devices # {}
  /\ Commit([db EXCEPT !.devices = @ \ DevicesOf(a)])
  /\ fingerprint' = NoModel
  /\ UNCHANGED <<cmd, access, revokedBy, batch, model, loadVersion, applied,
                 staticPrint, work, xray, liveVersion, faultVars>>

Settle(outcome) ==
  /\ cmd' = [v \in Versions |-> IF v \in batch THEN outcome ELSE cmd[v]]
  /\ batch' = {}
  /\ phase' = "idle"

CompleteCommands ==
  /\ phase \in {"pushed", "measured"}
  /\ Settle("succeeded")
  /\ UNCHANGED <<dbVars, model, loadVersion, applied, fingerprint, staticPrint,
                 work, xray, liveVersion, faultVars>>

\* The validation of a model whose accesses and devices do not fit together
\* fails, and the exception handler fails the whole batch.
RejectModel ==
  /\ \/ phase = "sync"
     \/ phase = "loaded" /\ xray.up /\ RequiresReconcile /\ ~StaticChanged
  /\ ~Valid(model)
  /\ Settle("failed")
  /\ UNCHANGED <<dbVars, model, loadVersion, applied, fingerprint, staticPrint,
                 work, xray, liveVersion, faultVars>>

\* Mutant of PassFails: the exception handler forgets complete_commands.
PassFailsSilently ==
  /\ phase \notin {"idle", "live"}
  /\ Fault
  /\ phase' = "idle" /\ batch' = {}
  /\ UNCHANGED <<dbVars, cmd, model, loadVersion, applied, fingerprint,
                 staticPrint, work, xray, liveVersion, xrayExits, restarts>>

\* Anything else that raises in the loop: a query, the validation command, the
\* start of Xray, telemetry, the health request.
PassFails ==
  /\ phase \notin {"idle", "live"}
  /\ Fault
  /\ Settle("failed")
  /\ UNCHANGED <<dbVars, model, loadVersion, applied, fingerprint, staticPrint,
                 work, xray, liveVersion, xrayExits, restarts>>

AgentStep ==
  \/ ClaimCommands \/ LoadAccesses \/ LoadDevices
  \/ SkipReconcile \/ BeginSync \/ BeginLive \/ LiveStep
  \/ StopXray \/ StartXray
  \/ (\E a \in Accesses : EnforceLimits(a))
  \/ CompleteCommands \/ RejectModel

XrayExits ==
  /\ xrayExits < MaxXrayExits /\ xrayExits' = xrayExits + 1
  /\ xray.up /\ xray' = Down
  /\ UNCHANGED <<dbVars, cmd, phase, agentVars, work, liveVersion, faults,
                 passFaults, restarts>>

\* The container restarts: Xray is the agent's child and goes with it. The
\* commands of the pass stay in status processing.
AgentRestarts ==
  /\ restarts < MaxRestarts /\ restarts' = restarts + 1
  /\ phase' = "idle" /\ batch' = {}
  /\ model' = NoModel /\ loadVersion' = 0
  /\ applied' = [accesses |-> {}, devices |-> {}]
  /\ fingerprint' = NoModel /\ staticPrint' = 0
  /\ work' = NoWork
  /\ xray' = Down
  /\ UNCHANGED <<dbVars, cmd, liveVersion, faults, passFaults, xrayExits>>

Next == WebChange \/ AgentStep \/ PassFails \/ XrayExits \/ AgentRestarts

Spec     == Init /\ [][Next]_vars
FairSpec == Spec /\ WF_vars(AgentStep)

-----------------------------------------------------------------------------
(* Properties.                                                             *)

\* A command reported succeeded was enqueued with a change that the model
\* last made live already contained: claim_commands runs before load_model.
AckedIsApplied ==
  \A v \in Versions : cmd[v] = "succeeded" => v <= liveVersion

\* Once the command of a revocation is reported succeeded, Xray never again
\* accepts the device: "its subscription token and VPN identity stop being
\* accepted". It holds while no poll pass meets two failures.
RevokedNotServed ==
  \A d \in Devices :
    (revokedBy[d] # 0 /\ cmd[revokedBy[d]] = "succeeded") => d \notin xray.users

\* Whatever call failed, and in whatever order calls take effect, a user Xray
\* accepts has its routing rule, so none bypasses its account's limiter:
\* add_client_live adds the rule first, remove_client_live drops it last.
UsersHaveRules == xray.users \subseteq xray.rules

\* The rule leads to the account's own balancer and outbound, which
\* reconcile_live_config adds before and removes after the account's users.
UsersAreRouted ==
  \A d \in xray.users : Owner[d] \in xray.balancers \cap xray.outbounds

\* Between passes the snapshots the next diff starts from are what a running
\* Xray serves. It holds while no poll pass meets two failures.
AgentKnowsXray ==
  (xray.up /\ phase \notin {"live", "sync"}) =>
    /\ xray.users = applied.devices /\ xray.rules = applied.devices
    /\ xray.outbounds = applied.accesses
    /\ xray.settings = staticPrint

\* After the last change and the last failure, the loop makes Xray serve the
\* desired configuration and leaves it so, without a command to tell it.
InSync ==
  /\ xray.up /\ xray.settings = db.settings
  /\ xray.users = db.devices /\ xray.outbounds = db.accesses
Converges == <>[]InSync

\* A command is settled, one way or the other, once the agent restarts no
\* more: a restart leaves those being processed where they are, but no failure
\* does.
CommandsSettle ==
  \A v \in Versions :
    (cmd[v] = "pending" /\ restarts = MaxRestarts) ~> cmd[v] \in {"succeeded", "failed"}

-----------------------------------------------------------------------------
(* Inductive invariants.                                                   *)

Pushing == phase \in {"loading", "loaded", "live", "sync", "stopped"}
Pushed  == phase \in {"pushed", "measured"}

\* Why an acknowledgement is never early: the versions follow the pass.
BatchInv ==
  /\ \A v \in Versions : cmd[v] # None => v <= version
  /\ \A v \in batch : cmd[v] = "processing"
  /\ phase = "idle" => batch = {}
  /\ liveVersion <= version
  /\ Pushing => /\ liveVersion <= loadVersion /\ loadVersion <= version
                /\ \A v \in batch : v <= loadVersion
  /\ Pushed => \A v \in batch : v <= liveVersion
  /\ AckedIsApplied

\* Why no call can leave a user without its rule.
RulesInv ==
  /\ UsersHaveRules
  /\ phase = "live" =>
       /\ work.remove \subseteq applied.devices \ model.devices
       /\ work.add \subseteq model.devices
       /\ RemovingRule => work.half \notin xray.users
       /\ (xray.up /\ work.half \in Devices /\ ~RemovingRule)
            => work.half \in xray.rules

\* What a running Xray serves when nothing is half done.
Settled ==
  /\ xray.users = applied.devices /\ xray.rules = applied.devices
  /\ xray.outbounds = applied.accesses
  /\ applied.accesses \subseteq xray.balancers
  /\ xray.settings = staticPrint
  /\ \A d \in applied.devices : Owner[d] \in applied.accesses

\* What it serves while reconcile_live_config is at work.
HalfDone ==
  /\ Valid(model)
  /\ \A d \in applied.devices : Owner[d] \in applied.accesses
  /\ work.remove \subseteq applied.devices \ model.devices
  /\ work.add \subseteq model.devices \ applied.devices
  /\ work.addAccess \subseteq model.accesses \ applied.accesses
  /\ work.removeAccess \subseteq applied.accesses \ model.accesses
  /\ xray.users = work.remove \cup (applied.devices \cap model.devices)
       \cup ((model.devices \ applied.devices) \ (work.add \cup {work.half}))
  /\ xray.rules = xray.users \cup ({work.half} \cap Devices)
  /\ xray.outbounds = work.removeAccess \cup
       (model.accesses \ work.addAccess)
  /\ applied.accesses \cup (model.accesses \ (work.addAccess \cup {work.half}))
       \subseteq xray.balancers
  /\ xray.settings = staticPrint /\ staticPrint = model.settings
  /\ work.half # None =>
       \/ work.half \in (applied.devices \ model.devices) \ work.remove
       \/ /\ work.half \in (model.accesses \ applied.accesses) \ work.addAccess
          /\ work.remove = {}
       \/ /\ work.half \in (model.devices \ applied.devices) \ work.add
          /\ work.remove = {} /\ work.addAccess = {}
  /\ work.removeAccess # applied.accesses \ model.accesses =>
       /\ work.remove = {} /\ work.add = {} /\ work.addAccess = {}
       /\ work.half = None

\* What the agent knows of Xray when a pass meets at most one failure: in the
\* fallback after a failed call it knows only a bound, and then the restart
\* cannot fail as well.
KnowsInv ==
  /\ (xray.up /\ phase \notin {"live", "sync"}) => Settled
  /\ phase = "live" => passFaults = 0 /\ (xray.up => HalfDone)
  /\ phase \in {"claimed", "loading", "loaded"} => passFaults = 0
  /\ phase = "sync" =>
       /\ passFaults # 0 => Valid(model)
       /\ (xray.up /\ passFaults = 0) => Settled
       /\ xray.up => xray.users \subseteq applied.devices \cup model.devices
  /\ phase = "stopped" => Valid(model) /\ ~xray.up
  /\ ~xray.up => xray = Down
  /\ fingerprint.settings # 0 => fingerprint.devices = applied.devices

\* What the rows say of what the agent has read: an account that is served and
\* no longer there was deleted, which its creator does only before it has a
\* device; one that has a device stays.
AccountsInv ==
  /\ \A a \in Accesses :
       access[a] \in {"created", "enqueued", "present"} <=> a \in db.accesses
  /\ \A d \in db.devices \cup model.devices : access[Owner[d]] = "present"
  /\ \A a \in applied.accesses \cup model.accesses : access[a] # "absent"
  /\ Pushing => \A a \in applied.accesses \ model.accesses : access[a] = "deleted"

\* Why no call, and no number of failed ones, takes the route of a user away.
Routed(a) == a \in xray.balancers \cap xray.outbounds

RoutedInv ==
  /\ UsersAreRouted
  /\ ~xray.up => xray.users = {}
  /\ \A d \in xray.users : access[Owner[d]] = "present"
  /\ xray.up => \A a \in applied.accesses : Routed(a) \/ access[a] = "deleted"
  /\ phase = "stopped" => Valid(model)
  /\ phase = "live" =>
       /\ Valid(model)
       /\ work.removeAccess \subseteq applied.accesses \ model.accesses
       /\ (work.half \in Devices /\ ~RemovingRule) =>
            work.half \in model.devices /\ work.addAccess = {}
       /\ (xray.up /\ work.half \in Accesses) => work.half \in xray.outbounds
       /\ xray.up => \A a \in model.accesses :
            \/ a \in work.addAccess \/ a = work.half
            \/ Routed(a) \/ access[a] = "deleted"

\* What the versions say of a revoked device.
RevokedInv ==
  /\ db.settings # 0
  /\ Pushing => model.settings # 0
  /\ \A d \in Devices : revokedBy[d] # 0 =>
       /\ revokedBy[d] <= version /\ d \notin db.devices
       /\ (Pushing /\ revokedBy[d] <= loadVersion) => d \notin model.devices
       /\ revokedBy[d] <= liveVersion => d \notin applied.devices

\* The loop implements the promise made by the outbox.
Outbox == INSTANCE CommandOutbox
            WITH status <- cmd, live <- liveVersion
ImplementsOutbox == Outbox!Spec
=============================================================================
