------------------------------ MODULE Firewall ------------------------------
(***************************************************************************)
(* How a ban reaches the kernel. The Runtime Agent writes the addresses of *)
(* the bans in force to a file on a shared volume (runtime.py,             *)
(* write_security_policy, in every poll pass); the Security Agent          *)
(* (services/security-agent/agent.py) reads that file every two seconds,   *)
(* replaces its nftables table when the file has changed or the table is   *)
(* gone, and reports in a status file. The host's administrator may flush  *)
(* the table, nft and the status file may fail, the agent may be           *)
(* terminated or killed, and its container is started again.               *)
(***************************************************************************)
EXTENDS Naturals

CONSTANTS
  Addresses,   \* source addresses
  MaxChanges,  \* bound: changes of the bans in force
  MaxFaults,   \* bound: failures of nft and of writing the status file
  MaxOutages,  \* bound: flushes, terminations and kills, restarts of runtime
  None,        \* no file, no table, no model
  Unread       \* previous_digest before a policy has been applied

ASSUME FirewallAssumption ==
  /\ None \notin SUBSET Addresses /\ Unread \notin SUBSET Addresses
  /\ None # Unread
  /\ MaxChanges \in Nat /\ MaxFaults \in Nat /\ MaxOutages \in Nat

VARIABLES
  banned,     \* ip_bans: the addresses of the bans in force
  changes,    \* changes so far
  \* Runtime Agent
  model,      \* blocked_source_ips of the model load_model returned
  policyFile, \* /security/policy.json
  \* Security Agent
  pc,         \* where its loop is
  policy,     \* policy, as load_policy returned it
  digest,     \* digest, the digest of the file it was read from
  previous,   \* previous_digest
  current,    \* current_policy
  replace,    \* table_exists(), as apply_policy asked it
  status,     \* /security/status.json
  \* Kernel
  table,      \* the addresses the table drops
  stray,      \* history: the table outlived the agent that wrote it, and the
              \* next one has not reported yet
  faults, outages

policies  == SUBSET Addresses
runtime   == <<model, policyFile>>
memory    == <<policy, digest, previous, current, replace>>
bounds    == <<faults, outages>>
vars == <<banned, changes, runtime, pc, memory, status, table, stray, bounds>>

TypeOK ==
  /\ banned \in policies /\ changes \in 0..MaxChanges
  /\ model \in policies \cup {None} /\ policyFile \in policies \cup {None}
  /\ pc \in {"load", "check", "apply", "nft", "ready", "degraded", "exit", "down"}
  /\ policy \in policies /\ current \in policies
  /\ digest \in policies \cup {None} /\ previous \in policies \cup {None, Unread}
  /\ replace \in BOOLEAN
  /\ status \in [state : {"ready", "degraded", "none"}, bans : policies]
  /\ table \in policies \cup {None} /\ stray \in BOOLEAN
  /\ faults \in 0..MaxFaults /\ outages \in 0..MaxOutages

\* run begins: nothing has been read.
Init ==
  /\ banned = {} /\ changes = 0
  /\ model = None /\ policyFile = None
  /\ pc = "load" /\ policy = {} /\ digest = None
  /\ previous = Unread /\ current = {} /\ replace = FALSE
  /\ status = [state |-> "none", bans |-> {}]
  /\ table = None /\ stray = FALSE
  /\ faults = 0 /\ outages = 0

-----------------------------------------------------------------------------
(* The database and the Runtime Agent.                                     *)

\* An address is banned or released, or its ban expires: the last without a
\* statement, since load_model compares expires_at with now().
ChangeBans(a) ==
  /\ changes < MaxChanges /\ changes' = changes + 1
  /\ banned' = IF a \in banned THEN banned \ {a} ELSE banned \cup {a}
  /\ UNCHANGED <<runtime, pc, memory, status, table, stray, bounds>>

LoadModel ==
  /\ model = None /\ model' = banned
  /\ UNCHANGED <<banned, changes, policyFile, pc, memory, status, table,
                 stray, bounds>>

\* write_security_policy: a temporary file takes the place of the old one.
WritePolicy ==
  /\ model # None /\ policyFile' = model /\ model' = None
  /\ UNCHANGED <<banned, changes, pc, memory, status, table, stray, bounds>>

-----------------------------------------------------------------------------
(* The Security Agent's loop.                                              *)

Goto(from, to) == pc = from /\ pc' = to
Fault  == faults < MaxFaults /\ faults' = faults + 1 /\ UNCHANGED outages
Outage == outages < MaxOutages /\ outages' = outages + 1 /\ UNCHANGED faults
Outside == <<banned, changes, runtime>>

\* load_policy: no file is an empty policy, with a digest of its own.
LoadPolicy ==
  /\ Goto("load", "check")
  /\ policy' = IF policyFile = None THEN {} ELSE policyFile
  /\ digest' = policyFile
  /\ UNCHANGED <<Outside, previous, current, replace, status, table, stray,
                 bounds>>

\* Mutant of Check: a table that is gone is not missed.
CheckDigest ==
  /\ pc = "check" /\ pc' = IF digest # previous THEN "apply" ELSE "ready"
  /\ UNCHANGED <<Outside, memory, status, table, stray, bounds>>

Check ==
  /\ pc = "check"
  /\ pc' = IF digest # previous \/ table = None THEN "apply" ELSE "ready"
  /\ UNCHANGED <<Outside, memory, status, table, stray, bounds>>

\* apply_policy asks whether there is a table to delete in the same batch.
AskTable ==
  /\ Goto("apply", "nft")
  /\ replace' = (table # None)
  /\ UNCHANGED <<Outside, policy, digest, previous, current, status, table,
                 stray, bounds>>

Applied ==
  /\ pc' = "ready"
  /\ table' = policy
  /\ current' = policy /\ previous' = digest

\* nft runs the batch as one transaction; deleting a table that has gone in the
\* meantime fails it.
ApplyPolicy ==
  /\ pc = "nft" /\ (replace => table # None)
  /\ Applied
  /\ UNCHANGED <<Outside, policy, digest, replace, status, stray, bounds>>

\* Mutant of ApplyFails: check = False, nft's exit code is not looked at.
ApplyFailsUnnoticed ==
  /\ pc = "nft"
  /\ IF replace /\ table = None THEN UNCHANGED bounds ELSE Fault
  /\ pc' = "ready" /\ current' = policy /\ previous' = digest
  /\ UNCHANGED <<Outside, policy, digest, replace, status, table, stray>>

ApplyFails ==
  /\ Goto("nft", "degraded")
  /\ IF replace /\ table = None THEN UNCHANGED bounds ELSE Fault
  /\ UNCHANGED <<Outside, memory, status, table, stray>>

ReportReady ==
  /\ Goto("ready", "load")
  /\ status' = [state |-> "ready", bans |-> current] /\ stray' = FALSE
  /\ UNCHANGED <<Outside, memory, table, bounds>>

ReportFails ==
  /\ Goto("ready", "degraded") /\ Fault
  /\ UNCHANGED <<Outside, memory, status, table, stray>>

ReportDegraded ==
  /\ Goto("degraded", "load")
  /\ status' = [state |-> "degraded", bans |-> current]
  /\ UNCHANGED <<Outside, memory, table, stray, bounds>>

\* The exception handler's own write_status raises: nothing catches that.
RunFails ==
  /\ Goto("degraded", "exit") /\ Fault
  /\ UNCHANGED <<Outside, memory, status, table, stray>>

\* SIGTERM: the loop ends after its sleep.
Terminate ==
  /\ Goto("load", "exit") /\ Outage
  /\ UNCHANGED <<Outside, memory, status, table, stray>>

\* The finally clause: remove_policy, which ignores nft's failure. The status
\* file stays.
RemovePolicy ==
  /\ Goto("exit", "down")
  /\ table' = None /\ stray' = FALSE
  /\ UNCHANGED <<Outside, memory, status, bounds>>

RemovalFails ==
  /\ Goto("exit", "down") /\ Fault
  /\ stray' = (table # None)
  /\ UNCHANGED <<Outside, memory, status, table>>

\* SIGKILL, or the host's power: the kernel's tables survive the former only.
Kill ==
  /\ pc # "down" /\ pc' = "down" /\ Outage
  /\ table' \in {table, None} /\ stray' = (table' # None)
  /\ UNCHANGED <<Outside, memory, status>>

\* restart: unless-stopped.
Start ==
  /\ Goto("down", "load")
  /\ policy' = {} /\ digest' = None
  /\ previous' = Unread /\ current' = {} /\ replace' = FALSE
  /\ UNCHANGED <<Outside, status, table, stray, bounds>>

-----------------------------------------------------------------------------
\* nft flush ruleset, by the host's administrator or its own firewall service.
Flush ==
  /\ table # None /\ table' = None /\ Outage
  /\ UNCHANGED <<Outside, pc, memory, status, stray>>

RuntimeRestarts ==
  /\ model # None /\ model' = None /\ Outage
  /\ UNCHANGED <<banned, changes, policyFile, pc, memory, status, table, stray>>

RuntimeStep  == LoadModel \/ WritePolicy
SecurityStep ==
  \/ LoadPolicy \/ Check \/ AskTable \/ ApplyPolicy \/ ApplyFails
  \/ ReportReady \/ ReportDegraded \/ RemovePolicy \/ Start

Next ==
  \/ \E a \in Addresses : ChangeBans(a)
  \/ RuntimeStep \/ SecurityStep
  \/ ReportFails \/ RunFails \/ RemovalFails \/ Terminate \/ Kill \/ Flush \/ RuntimeRestarts

Spec     == Init /\ [][Next]_vars
FairSpec == Spec /\ WF_vars(RuntimeStep) /\ WF_vars(SecurityStep)

\* healthcheck, of the Security Agent's container; the report's age is left out.
Healthy == status.state = "ready" /\ table # None

-----------------------------------------------------------------------------
(* Properties.                                                             *)

\* While the health check passes, the kernel drops exactly the addresses the
\* status file reports, but for the moment between the two: a failure of nft or of
\* the status file is never taken for success, a table that was flushed or removed
\* never counts as enforced, and no loop goes on from a table it did not write. Only
\* a table that outlived its agent may differ from that agent's last report.
HealthyIsEnforced ==
  (Healthy /\ ~stray /\ pc \in {"load", "check", "apply", "nft"}) =>
    table = status.bans

\* When bans no longer change and nothing fails any more, the kernel drops
\* exactly the addresses banned, whatever was flushed, killed or lost before:
\* bans that expire leave no command behind, and a lost table changes no file.
FirewallFollows ==
  <>[](table = banned /\ status = [state |-> "ready", bans |-> banned])

-----------------------------------------------------------------------------
(* Inductive invariant.                                                    *)

\* From the first policy it has applied on, the table is gone or current.
TableIsCurrent ==
  (pc # "down" /\ previous # Unread) => table \in {current, None}

\* Only an applied policy is reported, and only a kill or a failed removal
\* leaves a table behind.
OrderlyLoop ==
  /\ pc = "ready" => previous # Unread
  /\ (pc = "down" /\ ~stray) => table = None

FirewallInv == TypeOK /\ TableIsCurrent /\ OrderlyLoop /\ HealthyIsEnforced
=============================================================================
