------------------------- MODULE RuntimeSyncProofs -------------------------
(***************************************************************************)
(* Theorems about RuntimeSync, for any devices, accounts and bounds.       *)
(***************************************************************************)
EXTENDS RuntimeSync, TLAPS

-----------------------------------------------------------------------------
(* Types.                                                                  *)

\* The empty values have the types of the variables they reset.
LEMMA EmptyTypes ==
  /\ NoModel \in Model /\ NoWork \in Work /\ Down \in XrayState
  /\ [accesses |-> {}, devices |-> {}] \in Snapshot
BY DEF NoModel, Model, NoWork, Work, Down, XrayState, Snapshot

\* Every change the web application commits leaves a configuration behind.
LEMMA CommitType ==
  ASSUME TypeOK, WebChange
  PROVE  db' \in Model /\ version' \in 0..MaxVersion
<1> USE ConstantsAssumption DEF TypeOK, Commit
<1>1. CASE ChangeSettings BY <1>1 DEF ChangeSettings, Model
<1>2. ASSUME NEW a \in Accesses, CreateAccess(a) \/ UndoAccess(a)
      PROVE  db' \in Model /\ version' \in 0..MaxVersion
  BY <1>2 DEF CreateAccess, UndoAccess, Model
<1>3. ASSUME NEW a \in Accesses, EnqueueAccessSync(a) \/ AuditAccess(a)
      PROVE  db' \in Model /\ version' \in 0..MaxVersion
  BY <1>3 DEF EnqueueAccessSync, AuditAccess
<1>4. ASSUME NEW a \in Accesses, Expire(a)
      PROVE  db' \in Model /\ version' \in 0..MaxVersion
  BY <1>4 DEF Expire, Model
<1>5. ASSUME NEW a \in Accesses, NEW eligible \in SUBSET DevicesOf(a),
             PatchAccess(a, eligible)
      PROVE  db' \in Model /\ version' \in 0..MaxVersion
  BY <1>5 DEF PatchAccess, DevicesOf, Model
<1>6. ASSUME NEW d \in Devices, RevokeDevice(d)
      PROVE  db' \in Model /\ version' \in 0..MaxVersion
  BY <1>6 DEF RevokeDevice, Model
<1>7. QED
  BY <1>1, <1>2, <1>3, <1>4, <1>5, <1>6 DEF WebChange

LEMMA WebChangeType ==
  ASSUME TypeOK, WebChange
  PROVE  TypeOK'
<1> USE ConstantsAssumption, CommitType
    DEF TypeOK, Commit, Enqueue, ByWeb, Versions, agentVars, faultVars
<1>1. CASE ChangeSettings BY <1>1 DEF ChangeSettings
<1>2. ASSUME NEW a \in Accesses, CreateAccess(a) \/ UndoAccess(a) PROVE TypeOK'
  BY <1>2 DEF CreateAccess, UndoAccess
<1>3. ASSUME NEW a \in Accesses, EnqueueAccessSync(a) \/ AuditAccess(a)
      PROVE  TypeOK'
  BY <1>3 DEF EnqueueAccessSync, AuditAccess
<1>4. ASSUME NEW a \in Accesses, Expire(a) PROVE TypeOK'
  BY <1>4 DEF Expire
<1>5. ASSUME NEW a \in Accesses, NEW eligible \in SUBSET DevicesOf(a),
             PatchAccess(a, eligible)
      PROVE  TypeOK'
  BY <1>5 DEF PatchAccess
<1>6. ASSUME NEW d \in Devices, RevokeDevice(d) PROVE TypeOK'
  BY <1>6 DEF RevokeDevice
<1>7. QED
  BY <1>1, <1>2, <1>3, <1>4, <1>5, <1>6 DEF WebChange

\* What a call of the local API may leave behind, from the types of the work
\* and of the state it was given.
LEMMA CallType ==
  ASSUME TypeOK, NEW rest \in Work, NEW expected, NEW done \in XrayState,
         RunXrayApi(rest, expected, done)
  PROVE  TypeOK'
BY EmptyTypes, ConstantsAssumption
   DEF TypeOK, RunXrayApi, Fault, dbVars, agentVars

LEMMA LiveStepType ==
  ASSUME TypeOK, LiveStep
  PROVE  TypeOK'
<1> work \in Work /\ xray \in XrayState
  BY DEF TypeOK
<1>1. ASSUME NEW d \in Devices, RemoveUser(d) PROVE TypeOK'
  <2>1. [work EXCEPT !.remove = @ \ {d}, !.half = d] \in Work
    BY DEF Work
  <2>2. [xray EXCEPT !.users = @ \ {d}] \in XrayState
    BY SMTT(60) DEF XrayState
  <2>3. QED BY <1>1, <2>1, <2>2, CallType DEF RemoveUser
<1>2. ASSUME NEW d \in Devices, AddRule(d) PROVE TypeOK'
  <2>1. [work EXCEPT !.add = @ \ {d}, !.half = d] \in Work
    BY DEF Work
  <2>2. [xray EXCEPT !.rules = @ \cup {d}] \in XrayState
    BY SMTT(60) DEF XrayState
  <2>3. QED BY <1>2, <2>1, <2>2, CallType DEF AddRule
<1>3. ASSUME NEW a \in Accesses, AddOutbound(a) PROVE TypeOK'
  <2>1. [work EXCEPT !.addAccess = @ \ {a}, !.half = a] \in Work
    BY DEF Work
  <2>2. [xray EXCEPT !.outbounds = @ \cup {a}] \in XrayState
    BY SMTT(60) DEF XrayState
  <2>3. QED BY <1>3, <2>1, <2>2, CallType DEF AddOutbound
<1>4. ASSUME NEW a \in Accesses, RemoveOutbound(a) PROVE TypeOK'
  <2>1. [work EXCEPT !.removeAccess = @ \ {a}] \in Work
    BY DEF Work
  <2>2. [xray EXCEPT !.outbounds = @ \ {a}] \in XrayState
    BY SMTT(60) DEF XrayState
  <2>3. QED BY <1>4, <2>1, <2>2, CallType DEF RemoveOutbound
<1>5. [work EXCEPT !.half = None] \in Work
  BY DEF Work
<1>6. CASE RemoveRule
  <2>1. [xray EXCEPT !.rules = @ \ {work.half}] \in XrayState
    BY SMTT(60) DEF XrayState
  <2>2. QED BY <1>5, <1>6, <2>1, CallType DEF RemoveRule
<1>7. CASE AddBalancer
  <2>1. [xray EXCEPT !.balancers = @ \cup {work.half}] \in XrayState
    BY <1>7 DEF XrayState, AddBalancer
  <2>2. QED BY <1>5, <1>7, <2>1, CallType DEF AddBalancer
<1>8. CASE AddUser
  <2>1. [xray EXCEPT !.users = @ \cup {work.half}] \in XrayState
    BY <1>8 DEF XrayState, AddUser
  <2>2. QED BY <1>5, <1>8, <2>1, CallType DEF AddUser
<1>9. CASE FinishLive
  <2>1. [accesses |-> model.accesses, devices |-> model.devices] \in Snapshot
    BY DEF TypeOK, Model, Snapshot
  <2>2. QED
    BY <1>9, <2>1 DEF FinishLive, Goto, TypeOK, dbVars, faultVars
<1>10. QED
  BY <1>1, <1>2, <1>3, <1>4, <1>6, <1>7, <1>8, <1>9 DEF LiveStep

LEMMA AgentStepType ==
  ASSUME TypeOK, AgentStep
  PROVE  TypeOK'
<1> USE ConstantsAssumption
    DEF TypeOK, Goto, Settle, Versions, dbVars, agentVars, faultVars
<1>1. CASE ClaimCommands BY <1>1 DEF ClaimCommands, Pending
<1>2. CASE LoadAccesses
  <2>1. model' \in Model BY <1>2 DEF LoadAccesses, Model
  <2>2. QED BY <1>2, <2>1 DEF LoadAccesses
<1>3. CASE LoadDevices
  <2>1. model' \in Model BY <1>3 DEF LoadDevices, Model
  <2>2. QED BY <1>3, <2>1 DEF LoadDevices
<1>4. CASE SkipReconcile \/ BeginSync BY <1>4 DEF SkipReconcile, BeginSync
<1>5. CASE BeginLive
  <2>1. work' \in Work BY <1>5 DEF BeginLive, Work, Model, Snapshot
  <2>2. QED BY <1>5, <2>1 DEF BeginLive
<1>6. CASE LiveStep BY <1>6, LiveStepType
<1>7. CASE StopXray BY <1>7, EmptyTypes DEF StopXray
<1>8. CASE StartXray
  <2>1. xray' \in XrayState /\ applied' \in Snapshot /\ staticPrint' \in Nat
    BY <1>8 DEF StartXray, Serving, XrayState, Snapshot, Model
  <2>2. QED BY <1>8, <2>1 DEF StartXray
<1>9. ASSUME NEW a \in Accesses, EnforceLimits(a) PROVE TypeOK'
  <2>1. db' \in Model BY <1>9 DEF EnforceLimits, Commit, Model
  <2>2. QED BY <1>9, <2>1, EmptyTypes DEF EnforceLimits, Commit
<1>10. CASE CompleteCommands \/ RejectModel
  BY <1>10 DEF CompleteCommands, RejectModel
<1>11. QED
  BY <1>1, <1>2, <1>3, <1>4, <1>5, <1>6, <1>7, <1>8, <1>9, <1>10 DEF AgentStep

\* Every variable keeps its type: the loop never builds a snapshot, a model or
\* a work list that refers to something the database does not know.
THEOREM TypeCorrect == Spec => []TypeOK
<1>1. Init => TypeOK
  BY EmptyTypes, ConstantsAssumption DEF Init, TypeOK, Versions, Model
<1>2. TypeOK /\ [Next]_vars => TypeOK'
  <2> SUFFICES ASSUME TypeOK, [Next]_vars PROVE TypeOK'
    OBVIOUS
  <2> USE ConstantsAssumption DEF dbVars, agentVars, faultVars
  <2>1. CASE WebChange BY <2>1, WebChangeType
  <2>2. CASE AgentStep BY <2>2, AgentStepType
  <2>3. CASE PassFails BY <2>3 DEF PassFails, Settle, Fault, TypeOK, Versions
  <2>4. CASE XrayExits BY <2>4, EmptyTypes DEF XrayExits, TypeOK
  <2>5. CASE AgentRestarts BY <2>5, EmptyTypes DEF AgentRestarts, TypeOK
  <2>6. CASE UNCHANGED vars BY <2>6 DEF vars, TypeOK
  <2>7. QED
    BY <2>1, <2>2, <2>3, <2>4, <2>5, <2>6 DEF Next
<1>3. QED
  BY <1>1, <1>2, PTL DEF Spec

-----------------------------------------------------------------------------
(* Frames: what a group of steps does not change.                          *)

\* A change of the configuration takes the next version, or none, and its
\* command, if it has one, is named by that version.
LEMMA WebFrame ==
  ASSUME WebChange
  PROVE  /\ UNCHANGED <<phase, agentVars, work, xray, liveVersion, faultVars>>
         /\ \/ version' = version
            \/ version < MaxVersion /\ version' = version + 1
         /\ \/ cmd' = cmd
            \/ /\ version < MaxVersion /\ version' = version + 1
               /\ cmd' = [cmd EXCEPT ![version + 1] = "pending"]
BY DEF WebChange, ChangeSettings, CreateAccess, EnqueueAccessSync, AuditAccess,
       UndoAccess, Expire, PatchAccess, RevokeDevice, Commit, Enqueue, ByWeb

\* A call of the local API changes Xray, the work list and the phase only.
LEMMA CallFrame ==
  ASSUME LiveStep, ~FinishLive
  PROVE  /\ UNCHANGED <<dbVars, cmd, agentVars, liveVersion, xrayExits, restarts>>
         /\ phase = "live" /\ phase' \in {"live", "sync"}
BY DEF LiveStep, RemoveUser, RemoveRule, AddOutbound, AddBalancer, AddRule,
       AddUser, RemoveOutbound, RunXrayApi

-----------------------------------------------------------------------------
(* Acknowledgements.                                                       *)

\* The types the versions need.
VersionTypes ==
  /\ version \in Nat /\ loadVersion \in Nat /\ liveVersion \in Nat
  /\ \A v \in Versions : v \in Nat
  /\ DOMAIN cmd = Versions /\ cmd = [v \in Versions |-> cmd[v]]
  /\ batch \subseteq Versions

LEMMA VersionTyping == TypeOK => VersionTypes
BY ConstantsAssumption DEF TypeOK, VersionTypes, Versions

LEMMA BatchWebChange ==
  ASSUME VersionTypes, BatchInv, WebChange
  PROVE  BatchInv'
<1>1. \A v \in batch : v <= version
  BY DEF BatchInv, VersionTypes, None
<1>2. \A v \in Versions :
        cmd'[v] = cmd[v] \/ (cmd'[v] = "pending" /\ v = version + 1 /\ version' = v)
  BY WebFrame DEF VersionTypes
<1>3. version <= version' /\ version' \in Nat
  BY WebFrame DEF VersionTypes
<1>4. \A v \in Versions : cmd[v] # None => v # version + 1
  BY DEF BatchInv, VersionTypes
<1>5. UNCHANGED <<phase, batch, loadVersion, liveVersion>>
  BY WebFrame DEF agentVars
<1>6. (\A v \in Versions : cmd[v] # None => v <= version)'
  BY <1>2, <1>3 DEF BatchInv, VersionTypes
<1>7. QED
  BY <1>1, <1>2, <1>3, <1>4, <1>5, <1>6
     DEF BatchInv, VersionTypes, Pushing, Pushed, AckedIsApplied

LEMMA BatchAgentStep ==
  ASSUME VersionTypes, BatchInv, AgentStep
  PROVE  BatchInv'
<1> USE DEF BatchInv, VersionTypes, Goto, Pushing, Pushed, AckedIsApplied,
            dbVars, agentVars
<1>1. CASE ClaimCommands
  <2>1. batch' \subseteq Versions /\ \A v \in batch' : cmd[v] = "pending"
    BY <1>1 DEF ClaimCommands, Pending
  <2>2. \A v \in Versions :
          cmd'[v] = IF v \in batch' THEN "processing" ELSE cmd[v]
    BY <1>1 DEF ClaimCommands
  <2>3. QED
    BY <1>1, <2>1, <2>2 DEF ClaimCommands, None
<1>2. CASE LoadAccesses
  <2>1. \A v \in batch : v <= version
    BY DEF None
  <2>2. QED
    BY <1>2, <2>1 DEF LoadAccesses
<1>3. CASE LoadDevices BY <1>3 DEF LoadDevices
<1>4. CASE SkipReconcile BY <1>4 DEF SkipReconcile
<1>5. CASE BeginSync \/ BeginLive BY <1>5 DEF BeginSync, BeginLive
<1>6. CASE LiveStep /\ ~FinishLive BY <1>6, CallFrame
<1>7. CASE FinishLive BY <1>7 DEF FinishLive
<1>8. CASE StopXray BY <1>8 DEF StopXray
<1>9. CASE StartXray BY <1>9 DEF StartXray
<1>10. ASSUME NEW a \in Accesses, EnforceLimits(a) PROVE BatchInv'
  BY <1>10 DEF EnforceLimits, Commit
<1>11. CASE CompleteCommands
  <2>1. \A v \in Versions :
          cmd'[v] = IF v \in batch THEN "succeeded" ELSE cmd[v]
    BY <1>11 DEF CompleteCommands, Settle
  <2>2. QED
    BY <1>11, <2>1 DEF CompleteCommands, Settle, None
<1>12. CASE RejectModel
  <2>1. \A v \in Versions :
          cmd'[v] = IF v \in batch THEN "failed" ELSE cmd[v]
    BY <1>12 DEF RejectModel, Settle
  <2>2. QED
    BY <1>12, <2>1 DEF RejectModel, Settle, None
<1>13. QED
  BY <1>1, <1>2, <1>3, <1>4, <1>5, <1>6, <1>7, <1>8, <1>9, <1>10, <1>11, <1>12
     DEF AgentStep, LiveStep

LEMMA BatchStep == TypeOK /\ BatchInv /\ [Next]_vars => BatchInv'
<1> SUFFICES ASSUME VersionTypes, BatchInv, [Next]_vars PROVE BatchInv'
  BY VersionTyping
<1> USE DEF BatchInv, VersionTypes, Pushing, Pushed, AckedIsApplied,
            dbVars, agentVars
<1>1. CASE WebChange BY <1>1, BatchWebChange
<1>2. CASE AgentStep BY <1>2, BatchAgentStep
<1>3. CASE PassFails
  <2>1. \A v \in Versions :
          cmd'[v] = IF v \in batch THEN "failed" ELSE cmd[v]
    BY <1>3 DEF PassFails, Settle
  <2>2. QED
    BY <1>3, <2>1 DEF PassFails, Settle, None
<1>4. CASE XrayExits BY <1>4 DEF XrayExits
<1>5. CASE AgentRestarts BY <1>5 DEF AgentRestarts
<1>6. CASE UNCHANGED vars BY <1>6 DEF vars
<1>7. QED
  BY <1>1, <1>2, <1>3, <1>4, <1>5, <1>6 DEF Next

LEMMA BatchInvariant == Spec => []BatchInv
<1>1. Init => BatchInv
  BY ConstantsAssumption
     DEF Init, BatchInv, AckedIsApplied, Versions, Pushing, Pushed, None
<1>2. QED
  BY <1>1, BatchStep, TypeCorrect, PTL DEF Spec

\* A command is reported succeeded only when a model at least as new as its
\* change is live, whatever fails and whatever commits in between.
THEOREM AcknowledgedIsApplied == Spec => []AckedIsApplied
<1>1. BatchInv => AckedIsApplied
  BY DEF BatchInv
<1>2. QED
  BY <1>1, BatchInvariant, PTL

-----------------------------------------------------------------------------
(* Rules.                                                                  *)

\* The outcomes of a call, seen from outside: done and carried on with, or
\* given up, with Xray as it was or as the call left it.
CallOutcome(rest, done) ==
  /\ phase = "live" /\ UNCHANGED <<model, applied>>
  /\ \/ phase' = "live" /\ work' = rest /\ xray' = done /\ xray.up
     \/ phase' = "sync" /\ xray' \in {xray, done}

LEMMA RulesLiveStep ==
  ASSUME TypeOK, RulesInv, LiveStep, ~FinishLive
  PROVE  RulesInv'
<1> work \in Work /\ xray \in XrayState /\ applied.devices \subseteq Devices
  BY DEF TypeOK, Snapshot
<1> USE ConstantsAssumption DEF RulesInv, UsersHaveRules, RemovingRule
<1>1. ASSUME NEW d \in Devices, RemoveUser(d) PROVE RulesInv'
  <2> DEFINE rest == [work EXCEPT !.remove = @ \ {d}, !.half = d]
             done == [xray EXCEPT !.users = @ \ {d}]
  <2>1. rest.remove = work.remove \ {d} /\ rest.add = work.add /\ rest.half = d
    BY DEF Work
  <2>2. done.users = xray.users \ {d} /\ done.rules = xray.rules
    BY SMTT(60) DEF XrayState
  <2>3. d \in work.remove /\ CallOutcome(rest, done)
    BY <1>1 DEF RemoveUser, RunXrayApi, CallOutcome, agentVars
  <2> HIDE DEF rest, done
  <2>4. QED
    BY <2>1, <2>2, <2>3 DEF CallOutcome
<1>2. ASSUME NEW d \in Devices, AddRule(d) PROVE RulesInv'
  <2> DEFINE rest == [work EXCEPT !.add = @ \ {d}, !.half = d]
             done == [xray EXCEPT !.rules = @ \cup {d}]
  <2>1. rest.remove = work.remove /\ rest.add \subseteq work.add /\ rest.half = d
    BY DEF Work
  <2>2. done.users = xray.users /\ done.rules = xray.rules \cup {d}
    BY SMTT(60) DEF XrayState
  <2>3. work.remove = {} /\ CallOutcome(rest, done)
    BY <1>2 DEF AddRule, RunXrayApi, CallOutcome, agentVars
  <2>4. d \in model.devices
    BY <1>2 DEF AddRule, RunXrayApi
  <2> HIDE DEF rest, done
  <2>5. QED
    BY <2>1, <2>2, <2>3, <2>4 DEF CallOutcome
<1>3. ASSUME NEW a \in Accesses, AddOutbound(a) PROVE RulesInv'
  <2> DEFINE rest == [work EXCEPT !.addAccess = @ \ {a}, !.half = a]
             done == [xray EXCEPT !.outbounds = @ \cup {a}]
  <2>1. rest.remove = work.remove /\ rest.add = work.add /\ rest.half = a
    BY DEF Work
  <2>2. done.users = xray.users /\ done.rules = xray.rules
    BY SMTT(60) DEF XrayState
  <2>3. CallOutcome(rest, done)
    BY <1>3 DEF AddOutbound, RunXrayApi, CallOutcome, agentVars
  <2> HIDE DEF rest, done
  <2>4. QED
    BY <2>1, <2>2, <2>3 DEF CallOutcome
<1>4. ASSUME NEW a \in Accesses, RemoveOutbound(a) PROVE RulesInv'
  <2> DEFINE rest == [work EXCEPT !.removeAccess = @ \ {a}]
             done == [xray EXCEPT !.outbounds = @ \ {a}]
  <2>1. rest.remove = work.remove /\ rest.add = work.add /\ rest.half = work.half
    BY DEF Work
  <2>2. /\ done.users = xray.users /\ done.rules = xray.rules
        /\ done.up = xray.up
    BY SMTT(60) DEF XrayState
  <2>3. CallOutcome(rest, done)
    BY <1>4 DEF RemoveOutbound, RunXrayApi, CallOutcome, agentVars
  <2> HIDE DEF rest, done
  <2>4. QED
    BY <2>1, <2>2, <2>3 DEF CallOutcome
<1> DEFINE rest == [work EXCEPT !.half = None]
<1>5. rest.remove = work.remove /\ rest.add = work.add /\ rest.half = None
  BY DEF Work
<1> HIDE DEF rest
<1>6. CASE RemoveRule
  <2> DEFINE done == [xray EXCEPT !.rules = @ \ {work.half}]
  <2>1. done.users = xray.users /\ done.rules = xray.rules \ {work.half}
    BY SMTT(60) DEF XrayState
  <2>2. RemovingRule /\ CallOutcome(rest, done)
    BY <1>6 DEF RemoveRule, rest, RunXrayApi, CallOutcome, agentVars
  <2> HIDE DEF done
  <2>3. QED
    BY <1>5, <2>1, <2>2 DEF CallOutcome
<1>7. CASE AddBalancer
  <2> DEFINE done == [xray EXCEPT !.balancers = @ \cup {work.half}]
  <2>1. done.users = xray.users /\ done.rules = xray.rules
    BY SMTT(60) DEF XrayState
  <2>2. CallOutcome(rest, done)
    BY <1>7 DEF AddBalancer, rest, RunXrayApi, CallOutcome, agentVars
  <2> HIDE DEF done
  <2>3. QED
    BY <1>5, <2>1, <2>2 DEF CallOutcome
<1>8. CASE AddUser
  <2> DEFINE done == [xray EXCEPT !.users = @ \cup {work.half}]
  <2>1. done.users = xray.users \cup {work.half} /\ done.rules = xray.rules
    BY SMTT(60) DEF XrayState
  <2>2. /\ work.half \in Devices /\ ~RemovingRule
        /\ CallOutcome(rest, done)
    BY <1>8 DEF AddUser, rest, RunXrayApi, CallOutcome, agentVars
  <2>3. CASE xray.up
    <3> HIDE DEF done
    <3>1. work.half \in xray.rules
      BY <2>2, <2>3 DEF CallOutcome
    <3>2. QED
      BY <1>5, <2>1, <2>2, <3>1 DEF CallOutcome
  <2>4. CASE ~xray.up
    BY <1>8, <2>4 DEF AddUser, RunXrayApi
  <2>5. QED
    BY <2>3, <2>4
<1>9. QED
  BY <1>1, <1>2, <1>3, <1>4, <1>6, <1>7, <1>8 DEF LiveStep

LEMMA RulesStep == TypeOK /\ RulesInv /\ [Next]_vars => RulesInv'
<1> SUFFICES ASSUME TypeOK, RulesInv, [Next]_vars PROVE RulesInv'
  OBVIOUS
<1> USE DEF RulesInv, UsersHaveRules, RemovingRule, Goto, Settle
<1>1. CASE WebChange BY <1>1, WebFrame DEF agentVars
<1>2. CASE ClaimCommands BY <1>2 DEF ClaimCommands
<1>3. CASE LoadAccesses BY <1>3 DEF LoadAccesses
<1>4. CASE LoadDevices BY <1>4 DEF LoadDevices
<1>5. CASE SkipReconcile \/ BeginSync BY <1>5 DEF SkipReconcile, BeginSync
<1>6. CASE BeginLive
  <2>1. /\ work'.remove = applied.devices \ model.devices
        /\ work'.add = model.devices \ applied.devices /\ work'.half = None
    BY <1>6 DEF BeginLive
  <2>2. None \notin Devices /\ applied.devices \subseteq Devices
    BY ConstantsAssumption DEF TypeOK, Snapshot
  <2>3. QED
    BY <1>6, <2>1, <2>2 DEF BeginLive, agentVars
<1>7. CASE LiveStep /\ ~FinishLive BY <1>7, RulesLiveStep
<1>8. CASE FinishLive BY <1>8 DEF FinishLive
<1>9. CASE StopXray BY <1>9 DEF StopXray, Down
<1>10. CASE StartXray BY <1>10 DEF StartXray, Serving
<1>11. ASSUME NEW a \in Accesses, EnforceLimits(a) PROVE RulesInv'
  BY <1>11 DEF EnforceLimits
<1>12. CASE CompleteCommands \/ RejectModel
  BY <1>12 DEF CompleteCommands, RejectModel
<1>13. CASE PassFails BY <1>13 DEF PassFails
<1>14. CASE XrayExits
  BY <1>14 DEF XrayExits, Down, agentVars
<1>15. CASE AgentRestarts BY <1>15 DEF AgentRestarts, Down
<1>16. CASE UNCHANGED vars BY <1>16 DEF vars, agentVars
<1>17. QED
  BY <1>1, <1>2, <1>3, <1>4, <1>5, <1>6, <1>7, <1>8, <1>9, <1>10, <1>11, <1>12,
     <1>13, <1>14, <1>15, <1>16 DEF Next, AgentStep, LiveStep

\* However many calls fail and whatever they did before they failed, a user
\* Xray accepts has the rule that sends it through its account's limiter.
THEOREM ServedUsersHaveRules == Spec => []UsersHaveRules
<1>1. Init => RulesInv
  BY DEF Init, RulesInv, UsersHaveRules, Down
<1>2. RulesInv => UsersHaveRules
  BY DEF RulesInv
<1>3. QED
  BY <1>1, <1>2, RulesStep, TypeCorrect, PTL DEF Spec

-----------------------------------------------------------------------------
(* Routes.                                                                 *)

\* A change of the configuration deletes no account that has a device, and
\* brings none back.
LEMMA AccountsWebChange ==
  ASSUME TypeOK, AccountsInv, WebChange
  PROVE  /\ AccountsInv'
         /\ \A a \in Accesses :
              access[a] \in {"present", "deleted"} => access'[a] = access[a]
<1> USE DEF AccountsInv, Commit, Pushing, ByWeb, agentVars
<1>0. /\ db \in Model /\ access \in [Accesses -> {"absent", "created", "enqueued",
                                                   "present", "deleted"}]
      /\ model.accesses \subseteq Accesses /\ model.devices \subseteq Devices
      /\ applied.accesses \subseteq Accesses /\ db.devices \subseteq Devices
      /\ \A d \in Devices : Owner[d] \in Accesses
  BY ConstantsAssumption DEF TypeOK, Model, Snapshot
<1> USE <1>0
<1>1. CASE ChangeSettings
  <2>1. db'.accesses = db.accesses /\ db'.devices = db.devices
    BY <1>1 DEF ChangeSettings, Model
  <2>2. QED
    BY <1>1, <2>1 DEF ChangeSettings
<1>2. ASSUME NEW b \in Accesses, CreateAccess(b)
      PROVE  /\ AccountsInv'
             /\ \A a \in Accesses :
                  access[a] \in {"present", "deleted"} => access'[a] = access[a]
  <2>1. db'.accesses = db.accesses \cup {b} /\ db'.devices = db.devices
    BY <1>2 DEF CreateAccess, Model
  <2>2. QED
    BY <1>2, <2>1 DEF CreateAccess
<1>3. ASSUME NEW b \in Accesses, EnqueueAccessSync(b) \/ AuditAccess(b)
      PROVE  /\ AccountsInv'
             /\ \A a \in Accesses :
                  access[a] \in {"present", "deleted"} => access'[a] = access[a]
  BY <1>3 DEF EnqueueAccessSync, AuditAccess
<1>4. ASSUME NEW b \in Accesses, UndoAccess(b)
      PROVE  /\ AccountsInv'
             /\ \A a \in Accesses :
                  access[a] \in {"present", "deleted"} => access'[a] = access[a]
  <2>1. db'.accesses = db.accesses \ {b} /\ db'.devices = db.devices
    BY <1>4 DEF UndoAccess, Model
  <2>2. QED
    BY <1>4, <2>1 DEF UndoAccess
<1>5. ASSUME NEW b \in Accesses, NEW eligible \in SUBSET DevicesOf(b),
             PatchAccess(b, eligible)
      PROVE  AccountsInv' /\ UNCHANGED access
  <2>1. /\ db'.accesses = db.accesses
        /\ db'.devices \subseteq db.devices \cup eligible
    BY <1>5 DEF PatchAccess, Model
  <2>2. \A d \in eligible : Owner[d] = b
    BY DEF DevicesOf
  <2>3. access[b] = "present" /\ UNCHANGED access
    BY <1>5 DEF PatchAccess
  <2>4. QED
    BY <1>5, <2>1, <2>2, <2>3 DEF PatchAccess
<1>6. ASSUME NEW b \in Accesses, Expire(b) PROVE AccountsInv' /\ UNCHANGED access
  <2>1. db'.accesses = db.accesses /\ db'.devices \subseteq db.devices
    BY <1>6 DEF Expire, Model
  <2>2. QED
    BY <1>6, <2>1 DEF Expire
<1>7. ASSUME NEW d \in Devices, RevokeDevice(d) PROVE AccountsInv' /\ UNCHANGED access
  <2>1. db'.accesses = db.accesses /\ db'.devices \subseteq db.devices
    BY <1>7 DEF RevokeDevice, Model
  <2>2. QED
    BY <1>7, <2>1 DEF RevokeDevice
<1>8. QED
  BY <1>1, <1>2, <1>3, <1>4, <1>5, <1>6, <1>7 DEF WebChange

LEMMA AccountsStep == TypeOK /\ AccountsInv /\ [Next]_vars => AccountsInv'
<1> SUFFICES ASSUME TypeOK, AccountsInv, [Next]_vars PROVE AccountsInv'
  OBVIOUS
<1> USE DEF AccountsInv, Pushing, Goto, Settle, dbVars, agentVars
<1>1. CASE WebChange
  BY <1>1, AccountsWebChange
<1>2. CASE ClaimCommands
  BY <1>2 DEF ClaimCommands
<1>3. CASE LoadAccesses
  <2>1. /\ applied.accesses \subseteq Accesses /\ db.accesses \subseteq Accesses
        /\ access \in [Accesses -> {"absent", "created", "enqueued", "present", "deleted"}]
    BY DEF TypeOK, Model, Snapshot
  <2>2. QED
    BY <1>3, <2>1 DEF LoadAccesses
<1>4. CASE LoadDevices
  <2>1. model'.devices = db.devices /\ model'.accesses = model.accesses
    BY <1>4 DEF LoadDevices, TypeOK, Model
  <2>2. QED
    BY <1>4, <2>1 DEF LoadDevices
<1>5. CASE SkipReconcile \/ BeginSync \/ BeginLive
  BY <1>5 DEF SkipReconcile, BeginSync, BeginLive
<1>6. CASE LiveStep /\ ~FinishLive
  BY <1>6, CallFrame
<1>7. CASE FinishLive
  BY <1>7 DEF FinishLive
<1>8. CASE StopXray
  BY <1>8 DEF StopXray
<1>9. CASE StartXray
  BY <1>9 DEF StartXray
<1>10. ASSUME NEW a \in Accesses, EnforceLimits(a) PROVE AccountsInv'
  <2>1. db'.accesses = db.accesses /\ db'.devices \subseteq db.devices
    BY <1>10 DEF EnforceLimits, Commit, TypeOK, Model
  <2>2. QED
    BY <1>10, <2>1 DEF EnforceLimits
<1>11. CASE CompleteCommands \/ RejectModel \/ PassFails
  BY <1>11 DEF CompleteCommands, RejectModel, PassFails
<1>12. CASE XrayExits
  BY <1>12 DEF XrayExits
<1>13. CASE AgentRestarts
  BY <1>13 DEF AgentRestarts, NoModel
<1>14. CASE UNCHANGED vars
  BY <1>14 DEF vars
<1>15. QED
  BY <1>1, <1>2, <1>3, <1>4, <1>5, <1>6, <1>7, <1>8, <1>9, <1>10, <1>11, <1>12,
     <1>13, <1>14 DEF Next, AgentStep, LiveStep

\* The part of RoutedInv that speaks of the calls still to make.
LEMMA RoutedLiveStep ==
  ASSUME TypeOK, RulesInv, AccountsInv, RoutedInv, LiveStep, ~FinishLive
  PROVE  RoutedInv'
<1> /\ work \in Work /\ xray \in XrayState /\ applied.devices \subseteq Devices
    /\ Devices \cap Accesses = {} /\ None \notin Devices \cup Accesses
    /\ model.devices \subseteq Devices /\ \A d \in Devices : Owner[d] \in Accesses
    /\ model.accesses \subseteq Accesses
  BY ConstantsAssumption DEF TypeOK, Snapshot, Model
<1> UNCHANGED access
  BY CallFrame DEF dbVars
<1> USE DEF RoutedInv, UsersAreRouted, RemovingRule, Routed, Valid
<1>1. ASSUME NEW d \in Devices, RemoveUser(d) PROVE RoutedInv'
  <2> DEFINE rest == [work EXCEPT !.remove = @ \ {d}, !.half = d]
             done == [xray EXCEPT !.users = @ \ {d}]
  <2>1. /\ rest.addAccess = work.addAccess /\ rest.removeAccess = work.removeAccess
        /\ rest.half = d
    BY DEF Work
  <2>2. /\ done.users = xray.users \ {d} /\ done.outbounds = xray.outbounds
        /\ done.balancers = xray.balancers /\ done.up = xray.up
    BY SMTT(60) DEF XrayState
  <2>3. d \in work.remove /\ work.half = None /\ CallOutcome(rest, done)
    BY <1>1 DEF RemoveUser, RunXrayApi, CallOutcome, agentVars
  <2>4. d \in applied.devices \ model.devices
    BY <2>3 DEF RulesInv, CallOutcome
  <2> HIDE DEF rest, done
  <2>5. QED
    BY <2>1, <2>2, <2>3, <2>4 DEF CallOutcome
<1>2. ASSUME NEW d \in Devices, AddRule(d) PROVE RoutedInv'
  <2> DEFINE rest == [work EXCEPT !.add = @ \ {d}, !.half = d]
             done == [xray EXCEPT !.rules = @ \cup {d}]
  <2>1. /\ rest.addAccess = work.addAccess /\ rest.removeAccess = work.removeAccess
        /\ rest.half = d
    BY DEF Work
  <2>2. /\ done.users = xray.users /\ done.outbounds = xray.outbounds
        /\ done.balancers = xray.balancers /\ done.up = xray.up
    BY SMTT(60) DEF XrayState
  <2>3. /\ work.addAccess = {} /\ d \in work.add /\ work.half = None
        /\ CallOutcome(rest, done)
    BY <1>2 DEF AddRule, RunXrayApi, CallOutcome, agentVars
  <2>4. d \in model.devices
    BY <2>3 DEF RulesInv, CallOutcome
  <2> HIDE DEF rest, done
  <2>5. QED
    BY <2>1, <2>2, <2>3, <2>4 DEF CallOutcome
<1>3. ASSUME NEW a \in Accesses, AddOutbound(a) PROVE RoutedInv'
  <2> DEFINE rest == [work EXCEPT !.addAccess = @ \ {a}, !.half = a]
             done == [xray EXCEPT !.outbounds = @ \cup {a}]
  <2>1. /\ rest.addAccess = work.addAccess \ {a} /\ rest.half = a
        /\ rest.removeAccess = work.removeAccess
    BY DEF Work
  <2>2. /\ done.users = xray.users /\ done.outbounds = xray.outbounds \cup {a}
        /\ done.balancers = xray.balancers /\ done.up = xray.up
    BY SMTT(60) DEF XrayState
  <2>3. work.half = None /\ CallOutcome(rest, done)
    BY <1>3 DEF AddOutbound, RunXrayApi, CallOutcome, agentVars
  <2> HIDE DEF rest, done
  <2>4. QED
    BY <2>1, <2>2, <2>3 DEF CallOutcome
<1>4. ASSUME NEW a \in Accesses, RemoveOutbound(a) PROVE RoutedInv'
  <2> DEFINE rest == [work EXCEPT !.removeAccess = @ \ {a}]
             done == [xray EXCEPT !.outbounds = @ \ {a}]
  <2>1. /\ rest.addAccess = work.addAccess /\ rest.half = work.half
        /\ rest.removeAccess \subseteq work.removeAccess
    BY DEF Work
  <2>2. /\ done.users = xray.users /\ done.outbounds = xray.outbounds \ {a}
        /\ done.balancers = xray.balancers /\ done.up = xray.up
    BY SMTT(60) DEF XrayState
  <2>3. /\ a \in work.removeAccess /\ work.half = None /\ CallOutcome(rest, done)
    BY <1>4 DEF RemoveOutbound, RunXrayApi, CallOutcome, agentVars
  <2>4. access[a] = "deleted"
    BY <2>3 DEF AccountsInv, Pushing, CallOutcome
  <2> HIDE DEF rest, done
  <2>5. QED
    BY <2>1, <2>2, <2>3, <2>4 DEF CallOutcome
<1> DEFINE rest == [work EXCEPT !.half = None]
<1>5. /\ rest.addAccess = work.addAccess /\ rest.removeAccess = work.removeAccess
      /\ rest.half = None
  BY DEF Work
<1> HIDE DEF rest
<1>6. CASE RemoveRule
  <2> DEFINE done == [xray EXCEPT !.rules = @ \ {work.half}]
  <2>1. /\ done.users = xray.users /\ done.outbounds = xray.outbounds
        /\ done.balancers = xray.balancers /\ done.up = xray.up
    BY SMTT(60) DEF XrayState
  <2>2. work.half \in Devices /\ CallOutcome(rest, done)
    BY <1>6 DEF RemoveRule, rest, RunXrayApi, CallOutcome, agentVars
  <2> HIDE DEF done
  <2>3. QED
    BY <1>5, <2>1, <2>2 DEF CallOutcome
<1>7. CASE AddBalancer
  <2> DEFINE done == [xray EXCEPT !.balancers = @ \cup {work.half}]
  <2>1. /\ done.users = xray.users /\ done.outbounds = xray.outbounds
        /\ done.balancers = xray.balancers \cup {work.half} /\ done.up = xray.up
    BY SMTT(60) DEF XrayState
  <2>2. work.half \in Accesses /\ CallOutcome(rest, done)
    BY <1>7 DEF AddBalancer, rest, RunXrayApi, CallOutcome, agentVars
  <2> HIDE DEF done
  <2>3. QED
    BY <1>5, <2>1, <2>2 DEF CallOutcome
<1>8. CASE AddUser
  <2> DEFINE done == [xray EXCEPT !.users = @ \cup {work.half}]
  <2>1. /\ done.users = xray.users \cup {work.half}
        /\ done.outbounds = xray.outbounds
        /\ done.balancers = xray.balancers /\ done.up = xray.up
    BY SMTT(60) DEF XrayState
  <2>2. work.half \in Devices /\ ~RemovingRule /\ CallOutcome(rest, done)
    BY <1>8 DEF AddUser, rest, RunXrayApi, CallOutcome, agentVars
  <2>3. CASE xray.up
    <3> HIDE DEF done
    <3>1. /\ work.half \in model.devices /\ work.addAccess = {}
          /\ Owner[work.half] \in model.accesses
      BY <2>2 DEF CallOutcome
    <3>2. access[Owner[work.half]] = "present"
      BY <3>1 DEF AccountsInv
    <3>3. Routed(Owner[work.half])
      BY <2>2, <2>3, <3>1, <3>2 DEF CallOutcome
    <3>4. QED
      BY <1>5, <2>1, <2>2, <2>3, <3>2, <3>3 DEF CallOutcome
  <2>4. CASE ~xray.up
    BY <1>8, <2>4 DEF AddUser, RunXrayApi, agentVars
  <2>5. QED
    BY <2>3, <2>4
<1>9. QED
  BY <1>1, <1>2, <1>3, <1>4, <1>6, <1>7, <1>8 DEF LiveStep

LEMMA RoutedStep ==
  TypeOK /\ RulesInv /\ AccountsInv /\ RoutedInv /\ [Next]_vars => RoutedInv'
<1> SUFFICES ASSUME TypeOK, RulesInv, AccountsInv, RoutedInv, [Next]_vars
             PROVE  RoutedInv'
  OBVIOUS
<1> USE DEF RoutedInv, UsersAreRouted, Routed, RemovingRule, Valid, Goto, Settle,
            dbVars, agentVars
<1>0. /\ \A d \in Devices : Owner[d] \in Accesses
      /\ xray.users \subseteq Devices /\ model.accesses \subseteq Accesses
      /\ applied.accesses \subseteq Accesses /\ model.devices \subseteq Devices
      /\ applied.devices \subseteq Devices /\ None \notin Devices \cup Accesses
  BY ConstantsAssumption DEF TypeOK, XrayState, Model, Snapshot
<1>1. CASE WebChange
  <2>1. \A a \in Accesses :
          access[a] \in {"present", "deleted"} => access'[a] = access[a]
    BY <1>1, AccountsWebChange
  <2>2. UNCHANGED <<phase, model, applied, work, xray>>
    BY <1>1, WebFrame
  <2>3. QED
    BY <1>0, <2>1, <2>2
<1>2. CASE ClaimCommands
  BY <1>2 DEF ClaimCommands
<1>3. CASE LoadAccesses
  BY <1>3 DEF LoadAccesses
<1>4. CASE LoadDevices
  BY <1>4 DEF LoadDevices
<1>5. CASE SkipReconcile \/ BeginSync
  BY <1>5 DEF SkipReconcile, BeginSync
<1>6. CASE BeginLive
  <2>1. /\ work'.addAccess = model.accesses \ applied.accesses
        /\ work'.removeAccess = applied.accesses \ model.accesses
        /\ work'.half = None
    BY <1>6 DEF BeginLive
  <2>2. QED
    BY <1>0, <1>6, <2>1 DEF BeginLive
<1>7. CASE LiveStep /\ ~FinishLive
  BY <1>7, RoutedLiveStep
<1>8. CASE FinishLive
  <2>1. work.addAccess = {} /\ work.half = None
    BY <1>8 DEF FinishLive, NoWork
  <2>2. QED
    BY <1>0, <1>8, <2>1 DEF FinishLive
<1>9. CASE StopXray
  BY <1>9 DEF StopXray, Down
<1>10. CASE StartXray
  <2>1. \A d \in model.devices : access[Owner[d]] = "present"
    BY DEF AccountsInv
  <2>2. QED
    BY <1>10, <2>1 DEF StartXray, Serving
<1>11. ASSUME NEW a \in Accesses, EnforceLimits(a) PROVE RoutedInv'
  BY <1>11 DEF EnforceLimits
<1>12. CASE CompleteCommands \/ RejectModel
  BY <1>12 DEF CompleteCommands, RejectModel
<1>13. CASE PassFails
  BY <1>13 DEF PassFails
<1>14. CASE XrayExits
  BY <1>14 DEF XrayExits, Down
<1>15. CASE AgentRestarts
  BY <1>15 DEF AgentRestarts, Down
<1>16. CASE UNCHANGED vars
  BY <1>16 DEF vars
<1>17. QED
  BY <1>1, <1>2, <1>3, <1>4, <1>5, <1>6, <1>7, <1>8, <1>9, <1>10, <1>11, <1>12,
     <1>13, <1>14, <1>15, <1>16 DEF Next, AgentStep, LiveStep

\* However many calls fail in a pass, also where the agent no longer knows
\* what Xray serves, a user Xray accepts has its account's balancer and outbound.
THEOREM ServedUsersAreRouted == Spec => []UsersAreRouted
<1>1. Init => RulesInv /\ AccountsInv /\ RoutedInv
  <2>1. Init => RulesInv
    BY DEF Init, RulesInv, UsersHaveRules, Down
  <2>2. Init => AccountsInv
    BY DEF Init, AccountsInv, NoModel, Pushing
  <2>3. Init => RoutedInv
    BY DEF Init, RoutedInv, UsersAreRouted, Down
  <2>4. QED
    BY <2>1, <2>2, <2>3
<1>2. RoutedInv => UsersAreRouted
  BY DEF RoutedInv
<1>3. QED
  BY <1>1, <1>2, RulesStep, AccountsStep, RoutedStep, TypeCorrect, PTL DEF Spec

-----------------------------------------------------------------------------
(* What the agent knows of Xray, when a pass meets at most one failure.    *)

\* What a call does when Xray, if it runs, prints the expected line.
KnownOutcome(rest, done) ==
  /\ phase = "live" /\ UNCHANGED <<model, applied, staticPrint, fingerprint>>
  /\ \/ /\ xray.up /\ phase' = "live" /\ passFaults' = passFaults
        /\ work' = rest /\ xray' = done
     \/ /\ ~xray.up /\ phase' = "sync" /\ passFaults' = passFaults
        /\ xray' = xray
     \/ /\ xray.up /\ phase' = "sync" /\ passFaults' = passFaults + 1
        /\ xray' \in {xray, done}

\* A call that keeps HalfDone when it succeeds, and that adds no user but one
\* of the model, keeps the invariant.
LEMMA KnowsCall ==
  ASSUME KnowsInv, passFaults \in Nat, NEW rest, NEW done,
         KnownOutcome(rest, done),
         xray.up => /\ done.up
                    /\ done.users \subseteq applied.devices \cup model.devices,
         (work' = rest /\ xray' = done /\ xray.up) => HalfDone'
  PROVE  KnowsInv'
<1>1. CASE xray.up /\ phase' = "live"
  BY <1>1 DEF KnownOutcome, KnowsInv
<1>2. CASE xray.up /\ phase' = "sync"
  <2>1. Valid(model) /\ xray.users \subseteq applied.devices \cup model.devices
    BY <1>2 DEF KnownOutcome, KnowsInv, HalfDone
  <2>2. /\ passFaults' # 0 /\ xray'.up
        /\ xray'.users \subseteq applied.devices \cup model.devices
    BY <1>2, <2>1 DEF KnownOutcome
  <2>3. QED
    BY <1>2, <2>1, <2>2 DEF KnownOutcome, KnowsInv, Valid
<1>3. CASE ~xray.up
  <2>1. xray = Down /\ xray' = xray /\ phase' = "sync" /\ passFaults' = 0
    BY <1>3 DEF KnownOutcome, KnowsInv
  <2>2. QED
    BY <2>1 DEF KnownOutcome, KnowsInv, Down
<1>4. QED
  BY <1>1, <1>2, <1>3 DEF KnownOutcome

LEMMA KnowsLiveStep ==
  ASSUME TypeOK, KnowsInv, LiveStep, ~FinishLive
  PROVE  KnowsInv'
<1>1. /\ work \in Work /\ xray \in XrayState /\ passFaults \in Nat
      /\ applied \in Snapshot /\ phase = "live"
  BY CallFrame, ConstantsAssumption DEF TypeOK
<1>2. /\ applied.devices \subseteq Devices /\ applied.accesses \subseteq Accesses
      /\ model.devices \subseteq Devices /\ model.accesses \subseteq Accesses
  BY DEF TypeOK, Model, Snapshot
<1>3. xray.up => HalfDone
  BY <1>1 DEF KnowsInv
<1> USE <1>1, ConstantsAssumption
<1>4. ASSUME NEW d \in Devices, RemoveUser(d) PROVE KnowsInv'
  <2> DEFINE rest == [work EXCEPT !.remove = @ \ {d}, !.half = d]
             done == [xray EXCEPT !.users = @ \ {d}]
  <2>1. /\ rest.remove = work.remove \ {d} /\ rest.addAccess = work.addAccess
        /\ rest.add = work.add /\ rest.removeAccess = work.removeAccess
        /\ rest.half = d
    BY DEF Work
  <2>2. done = [up |-> xray.up, settings |-> xray.settings,
                users |-> xray.users \ {d}, rules |-> xray.rules,
                outbounds |-> xray.outbounds,
                balancers |-> xray.balancers]
    BY SMTT(60) DEF XrayState
  <2>3. KnownOutcome(rest, done)
    BY <1>4, <1>2, <1>3 DEF RemoveUser, RunXrayApi, KnownOutcome, agentVars, Fault, HalfDone
  <2>4. UNCHANGED <<model, applied, staticPrint>>
    BY <2>3 DEF KnownOutcome
  <2> HIDE DEF rest, done
  <2>5. ASSUME xray.up, work' = rest, xray' = done PROVE HalfDone'
    BY <1>4, <1>2, <1>3, <2>1, <2>2, <2>4, <2>5 DEF RemoveUser, HalfDone, Valid
  <2>6. xray.up => done.up /\ done.users \subseteq applied.devices \cup model.devices
    BY <1>4, <1>2, <1>3, <2>2 DEF RemoveUser, HalfDone
  <2>7. QED
    BY <2>3, <2>5, <2>6, KnowsCall
<1>5. ASSUME NEW d \in Devices, AddRule(d) PROVE KnowsInv'
  <2> DEFINE rest == [work EXCEPT !.add = @ \ {d}, !.half = d]
             done == [xray EXCEPT !.rules = @ \cup {d}]
  <2>1. /\ rest.remove = work.remove /\ rest.addAccess = work.addAccess
        /\ rest.add = work.add \ {d} /\ rest.removeAccess = work.removeAccess
        /\ rest.half = d
    BY DEF Work
  <2>2. done = [up |-> xray.up, settings |-> xray.settings,
                users |-> xray.users, rules |-> xray.rules \cup {d},
                outbounds |-> xray.outbounds,
                balancers |-> xray.balancers]
    BY SMTT(60) DEF XrayState
  <2>3. KnownOutcome(rest, done)
    BY <1>5, <1>2, <1>3 DEF AddRule, RunXrayApi, KnownOutcome, agentVars, Fault, HalfDone
  <2>4. UNCHANGED <<model, applied, staticPrint>>
    BY <2>3 DEF KnownOutcome
  <2> HIDE DEF rest, done
  <2>5. ASSUME xray.up, work' = rest, xray' = done PROVE HalfDone'
    BY <1>5, <1>2, <1>3, <2>1, <2>2, <2>4, <2>5 DEF AddRule, HalfDone, Valid
  <2>6. xray.up => done.up /\ done.users \subseteq applied.devices \cup model.devices
    BY <1>5, <1>2, <1>3, <2>2 DEF AddRule, HalfDone
  <2>7. QED
    BY <2>3, <2>5, <2>6, KnowsCall
<1>6. ASSUME NEW a \in Accesses, AddOutbound(a) PROVE KnowsInv'
  <2> DEFINE rest == [work EXCEPT !.addAccess = @ \ {a}, !.half = a]
             done == [xray EXCEPT !.outbounds = @ \cup {a}]
  <2>1. /\ rest.remove = work.remove
        /\ rest.addAccess = work.addAccess \ {a}
        /\ rest.add = work.add /\ rest.removeAccess = work.removeAccess
        /\ rest.half = a
    BY DEF Work
  <2>2. done = [up |-> xray.up, settings |-> xray.settings,
                users |-> xray.users, rules |-> xray.rules,
                outbounds |-> xray.outbounds \cup {a},
                balancers |-> xray.balancers]
    BY SMTT(60) DEF XrayState
  <2>3. KnownOutcome(rest, done)
    BY <1>6, <1>2, <1>3 DEF AddOutbound, RunXrayApi, KnownOutcome, agentVars, Fault, HalfDone
  <2>4. UNCHANGED <<model, applied, staticPrint>>
    BY <2>3 DEF KnownOutcome
  <2> HIDE DEF rest, done
  <2>5. ASSUME xray.up, work' = rest, xray' = done PROVE HalfDone'
    BY <1>6, <1>2, <1>3, <2>1, <2>2, <2>4, <2>5 DEF AddOutbound, HalfDone, Valid
  <2>6. xray.up => done.up /\ done.users \subseteq applied.devices \cup model.devices
    BY <1>6, <1>2, <1>3, <2>2 DEF AddOutbound, HalfDone
  <2>7. QED
    BY <2>3, <2>5, <2>6, KnowsCall
<1>7. ASSUME NEW a \in Accesses, RemoveOutbound(a) PROVE KnowsInv'
  <2> DEFINE rest == [work EXCEPT !.removeAccess = @ \ {a}]
             done == [xray EXCEPT !.outbounds = @ \ {a}]
  <2>1. rest = [remove |-> work.remove, addAccess |-> work.addAccess,
                add |-> work.add, removeAccess |-> work.removeAccess \ {a},
                half |-> work.half]
    BY DEF Work
  <2>2. done = [up |-> xray.up, settings |-> xray.settings,
                users |-> xray.users, rules |-> xray.rules,
                outbounds |-> xray.outbounds \ {a},
                balancers |-> xray.balancers]
    BY SMTT(60) DEF XrayState
  <2>3. KnownOutcome(rest, done)
    BY <1>7, <1>2, <1>3 DEF RemoveOutbound, RunXrayApi, KnownOutcome, agentVars, Fault, HalfDone
  <2>4. UNCHANGED <<model, applied, staticPrint>>
    BY <2>3 DEF KnownOutcome
  <2> HIDE DEF rest, done
  <2>5. ASSUME xray.up, work' = rest, xray' = done PROVE HalfDone'
    BY <1>7, <1>2, <1>3, <2>1, <2>2, <2>4, <2>5 DEF RemoveOutbound, HalfDone, Valid
  <2>6. xray.up => done.up /\ done.users \subseteq applied.devices \cup model.devices
    BY <1>7, <1>2, <1>3, <2>2 DEF RemoveOutbound, HalfDone
  <2>7. QED
    BY <2>3, <2>5, <2>6, KnowsCall
<1>8. CASE RemoveRule
  <2> DEFINE rest == [work EXCEPT !.half = None]
             done == [xray EXCEPT !.rules = @ \ {work.half}]
  <2>1. rest = [remove |-> work.remove, addAccess |-> work.addAccess,
                add |-> work.add, removeAccess |-> work.removeAccess,
                half |-> None]
    BY DEF Work
  <2>2. done = [up |-> xray.up, settings |-> xray.settings,
                users |-> xray.users, rules |-> xray.rules \ {work.half},
                outbounds |-> xray.outbounds,
                balancers |-> xray.balancers]
    BY SMTT(60) DEF XrayState
  <2>3. KnownOutcome(rest, done)
    BY <1>8, <1>2, <1>3 DEF RemoveRule, RunXrayApi, KnownOutcome, agentVars, Fault, HalfDone, RemovingRule
  <2>4. UNCHANGED <<model, applied, staticPrint>>
    BY <2>3 DEF KnownOutcome
  <2> HIDE DEF rest, done
  <2>5. ASSUME xray.up, work' = rest, xray' = done PROVE HalfDone'
    BY <1>8, <1>2, <1>3, <2>1, <2>2, <2>4, <2>5 DEF RemoveRule, HalfDone, Valid, RemovingRule
  <2>6. xray.up => done.up /\ done.users \subseteq applied.devices \cup model.devices
    BY <1>8, <1>2, <1>3, <2>2 DEF RemoveRule, HalfDone
  <2>7. QED
    BY <2>3, <2>5, <2>6, KnowsCall
<1>9. CASE AddBalancer
  <2> DEFINE rest == [work EXCEPT !.half = None]
             done == [xray EXCEPT !.balancers = @ \cup {work.half}]
  <2>1. rest = [remove |-> work.remove, addAccess |-> work.addAccess,
                add |-> work.add, removeAccess |-> work.removeAccess,
                half |-> None]
    BY DEF Work
  <2>2. done = [up |-> xray.up, settings |-> xray.settings,
                users |-> xray.users, rules |-> xray.rules,
                outbounds |-> xray.outbounds,
                balancers |-> xray.balancers \cup {work.half}]
    BY SMTT(60) DEF XrayState
  <2>3. KnownOutcome(rest, done)
    BY <1>9, <1>2, <1>3 DEF AddBalancer, RunXrayApi, KnownOutcome, agentVars, Fault, HalfDone
  <2>4. UNCHANGED <<model, applied, staticPrint>>
    BY <2>3 DEF KnownOutcome
  <2> HIDE DEF rest, done
  <2>5. ASSUME xray.up, work' = rest, xray' = done PROVE HalfDone'
    BY <1>9, <1>2, <1>3, <2>1, <2>2, <2>4, <2>5 DEF AddBalancer, HalfDone, Valid
  <2>6. xray.up => done.up /\ done.users \subseteq applied.devices \cup model.devices
    BY <1>9, <1>2, <1>3, <2>2 DEF AddBalancer, HalfDone
  <2>7. QED
    BY <2>3, <2>5, <2>6, KnowsCall
<1>10. CASE AddUser
  <2> DEFINE rest == [work EXCEPT !.half = None]
             done == [xray EXCEPT !.users = @ \cup {work.half}]
  <2>1. rest = [remove |-> work.remove, addAccess |-> work.addAccess,
                add |-> work.add, removeAccess |-> work.removeAccess,
                half |-> None]
    BY DEF Work
  <2>2. done = [up |-> xray.up, settings |-> xray.settings,
                users |-> xray.users \cup {work.half}, rules |-> xray.rules,
                outbounds |-> xray.outbounds,
                balancers |-> xray.balancers]
    BY SMTT(60) DEF XrayState
  <2>3. KnownOutcome(rest, done)
    BY <1>10, <1>2, <1>3 DEF AddUser, RunXrayApi, KnownOutcome, agentVars, Fault, HalfDone, RemovingRule
  <2>4. UNCHANGED <<model, applied, staticPrint>>
    BY <2>3 DEF KnownOutcome
  <2> HIDE DEF rest, done
  <2>5. ASSUME xray.up, work' = rest, xray' = done PROVE HalfDone'
    BY <1>10, <1>2, <1>3, <2>1, <2>2, <2>4, <2>5 DEF AddUser, HalfDone, Valid, RemovingRule
  <2>6. xray.up => done.up /\ done.users \subseteq applied.devices \cup model.devices
    BY <1>10, <1>2, <1>3, <2>2 DEF AddUser, HalfDone, RemovingRule
  <2>7. QED
    BY <2>3, <2>5, <2>6, KnowsCall
<1>11. QED
  BY <1>4, <1>5, <1>6, <1>7, <1>8, <1>9, <1>10 DEF LiveStep

\* A pass that meets at most one failure never meets one in the fallback from
\* another, so what the agent remembers of Xray is never out of date.
LEMMA KnowsStep ==
  ASSUME FaultsPerPass <= 1, TypeOK, KnowsInv, [Next]_vars
  PROVE  KnowsInv'
<1> USE DEF Goto, Settle
<1>0. passFaults \in Nat /\ faults \in Nat
  BY ConstantsAssumption DEF TypeOK
<1>1. CASE WebChange
  BY <1>1, WebFrame
     DEF KnowsInv, Settled, HalfDone, Valid, agentVars, faultVars
<1>2. CASE ClaimCommands BY <1>2 DEF ClaimCommands, KnowsInv, Settled
<1>3. CASE LoadAccesses \/ LoadDevices
  BY <1>3 DEF LoadAccesses, LoadDevices, KnowsInv, Settled, faultVars
<1>4. CASE SkipReconcile \/ BeginSync
  BY <1>4 DEF SkipReconcile, BeginSync, KnowsInv, Settled, agentVars, faultVars
<1>5. CASE BeginLive
  <2>1. /\ work'.remove = applied.devices \ model.devices
        /\ work'.addAccess = model.accesses \ applied.accesses
        /\ work'.add = model.devices \ applied.devices
        /\ work'.removeAccess = applied.accesses \ model.accesses
        /\ work'.half = None
    BY <1>5 DEF BeginLive
  <2>2. None \notin Devices /\ staticPrint = model.settings /\ Valid(model)
    BY <1>5, ConstantsAssumption DEF BeginLive, StaticChanged
  <2>3. Settled /\ passFaults = 0 /\ xray.up
    BY <1>5 DEF BeginLive, KnowsInv
  <2>4. UNCHANGED <<model, applied, staticPrint, xray, fingerprint, passFaults>>
    BY <1>5 DEF BeginLive, agentVars, faultVars
  <2>5. /\ applied.devices \subseteq Devices
        /\ model.devices \subseteq Devices
    BY DEF TypeOK, Snapshot, Model
  <2>6. HalfDone'
    BY <2>1, <2>2, <2>3, <2>4, <2>5 DEF HalfDone, Settled, Valid
  <2>7. QED
    BY <1>5, <2>3, <2>4, <2>6 DEF BeginLive, KnowsInv
<1>6. CASE LiveStep /\ ~FinishLive BY <1>6, KnowsLiveStep
<1>7. CASE FinishLive
  <2>1. /\ work.remove = {} /\ work.addAccess = {} /\ work.add = {}
        /\ work.removeAccess = {} /\ work.half = None
    BY <1>7 DEF FinishLive, NoWork
  <2>2. /\ applied'.devices = model.devices
        /\ applied'.accesses = model.accesses
    BY <1>7 DEF FinishLive
  <2>3. UNCHANGED <<xray, staticPrint, model, passFaults>> /\ fingerprint' = model
    BY <1>7 DEF FinishLive, faultVars
  <2>4. None \notin Devices \cup Accesses
    BY ConstantsAssumption
  <2>5. ASSUME xray.up PROVE Settled'
    <3>1. HalfDone
      BY <1>7, <2>5 DEF FinishLive, KnowsInv
    <3>2. applied.devices \subseteq Devices /\ model.devices \subseteq Devices
          /\ model.accesses \subseteq Accesses
      BY DEF TypeOK, Snapshot, Model
    <3>3. xray.users = model.devices /\ xray.rules = model.devices
      BY <2>1, <2>4, <3>1, <3>2 DEF HalfDone
    <3>4. /\ xray.outbounds = model.accesses
          /\ model.accesses \subseteq xray.balancers
      BY <2>1, <2>4, <3>1, <3>2 DEF HalfDone
    <3>5. QED
      BY <2>2, <2>3, <3>1, <3>3, <3>4 DEF HalfDone, Settled, Valid
  <2>6. QED
    BY <1>7, <2>2, <2>3, <2>5 DEF FinishLive, KnowsInv
<1>8. CASE StopXray BY <1>8 DEF StopXray, KnowsInv, Down, agentVars, Valid
<1>9. CASE StartXray
  <2>1. Settled' /\ xray'.up /\ fingerprint'.devices = applied'.devices
    BY <1>9 DEF StartXray, KnowsInv, Settled, Serving, Valid
  <2>2. QED
    BY <1>9, <2>1 DEF StartXray, KnowsInv
<1>10. ASSUME NEW a \in Accesses, EnforceLimits(a) PROVE KnowsInv'
  BY <1>10 DEF EnforceLimits, KnowsInv, Settled, NoModel
<1>11. CASE CompleteCommands BY <1>11 DEF CompleteCommands, KnowsInv, Settled
<1>12. CASE RejectModel BY <1>12 DEF RejectModel, KnowsInv, Settled
<1>13. CASE PassFails
  <2>1. passFaults = 0
    BY <1>0, <1>13, ConstantsAssumption DEF PassFails, Fault
  <2>2. QED
    BY <1>13, <2>1 DEF PassFails, KnowsInv, Settled
<1>14. CASE XrayExits
  <2>1. ~xray'.up /\ xray' = Down /\ xray'.users = {}
    BY <1>14 DEF XrayExits, Down
  <2>2. UNCHANGED <<model, applied, fingerprint, phase, passFaults>>
    BY <1>14 DEF XrayExits, agentVars
  <2>3. QED
    BY <2>1, <2>2 DEF KnowsInv, Valid
<1>15. CASE AgentRestarts
  BY <1>15 DEF AgentRestarts, KnowsInv, Down, NoModel
<1>16. CASE UNCHANGED vars
  BY <1>16 DEF vars, agentVars, faultVars, KnowsInv, Settled, HalfDone, Valid
<1>17. QED
  BY <1>1, <1>2, <1>3, <1>4, <1>5, <1>6, <1>7, <1>8, <1>9, <1>10, <1>11, <1>12,
     <1>13, <1>14, <1>15, <1>16 DEF Next, AgentStep, LiveStep

LEMMA KnowsInvariant ==
  ASSUME FaultsPerPass <= 1
  PROVE  Spec => []KnowsInv
<1>1. Init => KnowsInv
  BY DEF Init, KnowsInv, Down, NoModel
<1>2. TypeOK /\ KnowsInv /\ [Next]_vars => KnowsInv'
  BY KnowsStep
<1>3. QED
  BY <1>1, <1>2, TypeCorrect, PTL DEF Spec

\* While no pass meets two failures, the snapshots the agent diffs against
\* are what Xray serves, whatever was lost, late, restarted or expired.
THEOREM SnapshotsMatchXray ==
  ASSUME FaultsPerPass <= 1
  PROVE  Spec => []AgentKnowsXray
<1>1. KnowsInv => AgentKnowsXray
  BY DEF KnowsInv, AgentKnowsXray, Settled
<1>2. QED
  BY <1>1, KnowsInvariant, PTL

-----------------------------------------------------------------------------
(* Revocation.                                                             *)

\* A change of the configuration neither forgets a revocation nor brings a
\* revoked device back.
LEMMA RevokedFrame ==
  ASSUME TypeOK, WebChange, RevokedInv
  PROVE  /\ db'.settings # 0
         /\ \A d \in Devices :
              /\ \/ revokedBy'[d] = revokedBy[d]
                 \/ revokedBy'[d] = version + 1 /\ version' = version + 1
              /\ revokedBy'[d] # 0 => d \notin db'.devices
<1> USE DEF Commit, RevokedInv
<1>0. db \in Model /\ revokedBy \in [Devices -> 0..MaxVersion]
      /\ db.settings \in Nat
  BY DEF TypeOK, Model
<1> USE <1>0
<1>1. CASE ChangeSettings
  <2>1. db'.settings = db.settings + 1 /\ db'.devices = db.devices
    BY <1>1 DEF ChangeSettings, Model
  <2>2. QED BY <1>1, <2>1 DEF ChangeSettings
<1>2. ASSUME NEW a \in Accesses, CreateAccess(a) \/ UndoAccess(a)
      PROVE  UNCHANGED revokedBy /\ db'.settings = db.settings /\ db'.devices = db.devices
  BY <1>2 DEF CreateAccess, UndoAccess, Model
<1>3. ASSUME NEW a \in Accesses, EnqueueAccessSync(a) \/ AuditAccess(a)
      PROVE  UNCHANGED <<db, revokedBy>>
  BY <1>3 DEF EnqueueAccessSync, AuditAccess
<1>4. ASSUME NEW a \in Accesses, Expire(a)
      PROVE  /\ UNCHANGED revokedBy /\ db'.settings = db.settings
             /\ db'.devices \subseteq db.devices
  BY <1>4 DEF Expire, Model
<1>5. ASSUME NEW a \in Accesses, NEW eligible \in SUBSET DevicesOf(a),
             PatchAccess(a, eligible)
      PROVE  /\ UNCHANGED revokedBy /\ db'.settings = db.settings
             /\ db'.devices \subseteq db.devices \cup eligible
             /\ \A d \in eligible : revokedBy[d] = 0
  BY <1>5 DEF PatchAccess, Model
<1>6. ASSUME NEW d \in Devices, RevokeDevice(d)
      PROVE  /\ db'.settings = db.settings /\ db'.devices = db.devices \ {d}
             /\ version' = version + 1
             /\ revokedBy' = [revokedBy EXCEPT ![d] = version + 1]
  BY <1>6 DEF RevokeDevice, Model
<1>7. QED
  BY <1>1, <1>2, <1>3, <1>4, <1>5, <1>6 DEF WebChange

LEMMA RevokedStep ==
  ASSUME TypeOK, BatchInv, KnowsInv, RevokedInv, [Next]_vars
  PROVE  RevokedInv'
<1> USE DEF Goto, Settle, Pushing, dbVars, agentVars
<1>0. /\ version \in Nat /\ loadVersion \in Nat /\ liveVersion \in Nat
      /\ \A d \in Devices : revokedBy[d] \in Nat
      /\ liveVersion <= version
      /\ Pushing => loadVersion <= version
  BY ConstantsAssumption DEF TypeOK, BatchInv
<1>1. CASE WebChange
  <2>1. UNCHANGED <<phase, model, loadVersion, liveVersion, applied>>
    BY <1>1, WebFrame
  <2>2. version' \in Nat /\ version <= version'
    BY <1>0, <1>1, WebFrame
  <2>3. ASSUME NEW d \in Devices, revokedBy'[d] # 0
        PROVE  \/ revokedBy'[d] = revokedBy[d]
               \/ /\ revokedBy'[d] = version' /\ version' > version
                  /\ ~(revokedBy'[d] <= liveVersion)
                  /\ Pushing => ~(revokedBy'[d] <= loadVersion)
    BY <1>0, <1>1, RevokedFrame
  <2>4. ASSUME NEW d \in Devices, revokedBy'[d] # 0
        PROVE  /\ revokedBy'[d] <= version' /\ d \notin db'.devices
               /\ (Pushing /\ revokedBy'[d] <= loadVersion) => d \notin model.devices
               /\ revokedBy'[d] <= liveVersion => d \notin applied.devices
    <3>1. d \notin db'.devices
      BY <1>1, <2>4, RevokedFrame
    <3>2. QED
      BY <1>0, <2>2, <2>3, <2>4, <3>1 DEF RevokedInv
  <2>5. db'.settings # 0
    BY <1>1, RevokedFrame
  <2>6. QED
    BY <2>1, <2>4, <2>5 DEF RevokedInv
<1>2. CASE ClaimCommands BY <1>2 DEF ClaimCommands, RevokedInv
<1>3. CASE LoadAccesses BY <1>3 DEF LoadAccesses, RevokedInv
<1>4. CASE LoadDevices
  <2>1. model'.devices = db.devices /\ model'.settings = model.settings
    BY <1>4 DEF LoadDevices, TypeOK, Model
  <2>2. QED BY <1>4, <2>1 DEF LoadDevices, RevokedInv
<1>5. CASE SkipReconcile
  <2>1. applied.devices = model.devices
    BY <1>5 DEF SkipReconcile, RequiresReconcile, KnowsInv, RevokedInv
  <2>2. QED
    BY <1>5, <2>1 DEF SkipReconcile, RevokedInv
<1>6. CASE BeginSync \/ BeginLive BY <1>6 DEF BeginSync, BeginLive, RevokedInv
<1>7. CASE LiveStep /\ ~FinishLive BY <1>7, CallFrame DEF RevokedInv
<1>8. CASE FinishLive BY <1>8 DEF FinishLive, RevokedInv
<1>9. CASE StopXray BY <1>9 DEF StopXray, RevokedInv
<1>10. CASE StartXray BY <1>10 DEF StartXray, RevokedInv
<1>11. ASSUME NEW a \in Accesses, EnforceLimits(a) PROVE RevokedInv'
  <2>1. /\ db'.devices \subseteq db.devices /\ db'.settings = db.settings
        /\ version' = version + 1
    BY <1>11 DEF EnforceLimits, Commit, TypeOK, Model
  <2>2. QED
    BY <1>0, <1>11, <2>1 DEF EnforceLimits, RevokedInv
<1>12. CASE CompleteCommands \/ RejectModel
  BY <1>12 DEF CompleteCommands, RejectModel, RevokedInv
<1>13. CASE PassFails BY <1>13 DEF PassFails, RevokedInv
<1>14. CASE XrayExits BY <1>14 DEF XrayExits, RevokedInv
<1>15. CASE AgentRestarts BY <1>15 DEF AgentRestarts, RevokedInv
<1>16. CASE UNCHANGED vars BY <1>16 DEF vars, RevokedInv
<1>17. QED
  BY <1>1, <1>2, <1>3, <1>4, <1>5, <1>6, <1>7, <1>8, <1>9, <1>10, <1>11, <1>12,
     <1>13, <1>14, <1>15, <1>16 DEF Next, AgentStep, LiveStep

\* What the agent knows of Xray and what the versions say of a revocation
\* together: an acknowledged revocation is out of both snapshots a running
\* Xray can be serving from.
LEMMA RevokedMeans ==
  ASSUME TypeOK, BatchInv, KnowsInv, RevokedInv
  PROVE  RevokedNotServed
<1> SUFFICES ASSUME NEW d \in Devices, revokedBy[d] # 0,
                    cmd[revokedBy[d]] = "succeeded"
             PROVE  d \notin xray.users
  BY DEF RevokedNotServed
<1>1. revokedBy[d] \in Versions /\ revokedBy[d] \in Nat
      /\ liveVersion \in Nat /\ loadVersion \in Nat
  BY ConstantsAssumption DEF TypeOK, Versions
<1>2. revokedBy[d] <= liveVersion
  BY <1>1 DEF BatchInv, AckedIsApplied
<1>3. d \notin applied.devices
  BY <1>2 DEF RevokedInv
<1>4. Pushing => d \notin model.devices
  BY <1>1, <1>2 DEF RevokedInv, BatchInv
<1>5. CASE ~xray.up BY <1>5 DEF KnowsInv, Down
<1>6. CASE xray.up /\ phase = "live"
  BY <1>3, <1>4, <1>6 DEF KnowsInv, HalfDone, Pushing
<1>7. CASE xray.up /\ phase = "sync"
  BY <1>3, <1>4, <1>7 DEF KnowsInv, Pushing
<1>8. CASE xray.up /\ phase \notin {"live", "sync"}
  BY <1>3, <1>8 DEF KnowsInv, Settled
<1>9. QED
  BY <1>5, <1>6, <1>7, <1>8 DEF TypeOK, XrayState

\* While no pass meets two failures: once a revocation is reported done, no
\* interleaving of later changes, failed calls, exits and restarts makes Xray
\* accept the device again.
THEOREM RevocationHolds ==
  ASSUME FaultsPerPass <= 1
  PROVE  Spec => []RevokedNotServed
<1>1. Init => RevokedInv
  BY DEF Init, RevokedInv, Pushing
<1>2. TypeOK /\ BatchInv /\ KnowsInv /\ RevokedInv /\ [Next]_vars => RevokedInv'
  BY RevokedStep
<1>3. TypeOK /\ BatchInv /\ KnowsInv /\ RevokedInv => RevokedNotServed
  BY RevokedMeans
<1>4. QED
  BY <1>1, <1>2, <1>3, TypeCorrect, BatchInvariant, KnowsInvariant, PTL DEF Spec

-----------------------------------------------------------------------------
(* Refinement.                                                             *)

\* Every step of the loop and of the web application is a step of the outbox
\* or leaves it alone.
LEMMA OutboxStep ==
  ASSUME TypeOK, BatchInv, [Next]_vars
  PROVE  [Outbox!Next]_Outbox!outboxVars
<1> USE DEF Outbox!Next, Outbox!outboxVars, Goto, dbVars, agentVars
<1>0. /\ version \in Nat /\ loadVersion \in Nat /\ liveVersion \in Nat
      /\ batch \in SUBSET Versions /\ Outbox!Commands = Versions
  BY ConstantsAssumption DEF TypeOK, Outbox!Commands, Versions
<1>1. CASE WebChange
  <2>1. UNCHANGED liveVersion
    BY <1>1, WebFrame
  <2>2. \/ UNCHANGED <<version, cmd>>
        \/ /\ version < MaxVersion /\ version' = version + 1
           /\ cmd' \in {cmd, [cmd EXCEPT ![version'] = "pending"]}
    BY <1>1, WebFrame
  <2>3. QED BY <2>1, <2>2 DEF Outbox!Change
<1>2. CASE ClaimCommands
  <2>1. batch' \in SUBSET Outbox!Commands /\ \A v \in batch' : cmd[v] = "pending"
    BY <1>0, <1>2 DEF ClaimCommands, Pending
  <2>2. Outbox!Claim(batch')
    BY <1>0, <1>2, <2>1 DEF ClaimCommands, Outbox!Claim
  <2>3. QED BY <2>1, <2>2
<1>3. CASE \/ LoadAccesses \/ LoadDevices \/ BeginSync \/ BeginLive \/ StopXray
           \/ XrayExits \/ AgentRestarts
  BY <1>3 DEF LoadAccesses, LoadDevices, BeginSync, BeginLive, StopXray,
              XrayExits, AgentRestarts
<1>4. CASE SkipReconcile \/ FinishLive \/ StartXray
  <2>1. liveVersion' = loadVersion /\ UNCHANGED <<version, cmd>> /\ Pushing
    BY <1>4 DEF SkipReconcile, FinishLive, StartXray, Pushing
  <2>2. Outbox!MakeLive
    BY <1>0, <2>1 DEF BatchInv, Outbox!MakeLive
  <2>3. QED BY <2>2
<1>5. CASE LiveStep /\ ~FinishLive BY <1>5, CallFrame
<1>6. ASSUME NEW a \in Accesses, EnforceLimits(a)
      PROVE  [Outbox!Next]_Outbox!outboxVars
  BY <1>6 DEF EnforceLimits, Commit, Outbox!Change
<1>7. ASSUME NEW outcome \in {"succeeded", "failed"}, Settle(outcome),
             UNCHANGED <<version, liveVersion>>,
             outcome = "succeeded" => Pushed
      PROVE  [Outbox!Next]_Outbox!outboxVars
  <2>1. Outbox!Settle(batch, outcome)
    BY <1>0, <1>7 DEF Settle, BatchInv, Outbox!Settle
  <2>2. QED BY <1>0, <2>1
<1>8. CASE CompleteCommands
  BY <1>7, <1>8 DEF CompleteCommands, Pushed
<1>9. CASE RejectModel \/ PassFails
  BY <1>7, <1>9 DEF RejectModel, PassFails
<1>10. CASE UNCHANGED vars BY <1>10 DEF vars
<1>11. QED
  BY <1>1, <1>2, <1>3, <1>4, <1>5, <1>6, <1>8, <1>9, <1>10
     DEF Next, AgentStep, LiveStep

\* The loop keeps the promise of runtime_commands: a command is claimed once,
\* settled once, and acknowledged only when its change is live.
THEOREM LoopImplementsOutbox == Spec => ImplementsOutbox
<1>1. Init => Outbox!Init
  BY DEF Init, Outbox!Init, Outbox!Commands, Versions, None
<1>2. TypeOK /\ BatchInv /\ [Next]_vars => [Outbox!Next]_Outbox!outboxVars
  BY OutboxStep
<1>3. QED
  BY <1>1, <1>2, TypeCorrect, BatchInvariant, PTL
     DEF Spec, ImplementsOutbox, Outbox!Spec
=============================================================================
