--------------------------- MODULE FirewallProofs ---------------------------
(***************************************************************************)
(* For any set of addresses and any number of changes, failures, flushes   *)
(* and kills, the Security Agent's health check vouches for the truth.     *)
(***************************************************************************)
EXTENDS Firewall, TLAPS

\* Nothing is enforced and nothing is reported before the first pass.
LEMMA InitFirewall == Init => FirewallInv
<1> SUFFICES ASSUME Init PROVE FirewallInv
  OBVIOUS
<1> USE DEF Init
<1>1. {} \in policies
  BY DEF policies
<1>2. TypeOK
  <2>1. 0 \in 0..MaxChanges /\ 0 \in 0..MaxFaults /\ 0 \in 0..MaxOutages
    BY FirewallAssumption DEF FirewallAssumption
  <2>2. status \in [state : {"ready", "degraded", "none"}, bans : policies]
    BY <1>1
  <2>3. QED
    BY <1>1, <2>1, <2>2 DEF TypeOK
<1>3. TableIsCurrent /\ OrderlyLoop /\ HealthyIsEnforced
  BY DEF TableIsCurrent, OrderlyLoop, HealthyIsEnforced, Healthy
<1>4. QED
  BY <1>2, <1>3 DEF FirewallInv

\* The database and the Runtime Agent leave the Security Agent alone.
LEMMA OutsideStep ==
  ASSUME FirewallInv,
         (\E a \in Addresses : ChangeBans(a)) \/ RuntimeStep \/ RuntimeRestarts
  PROVE  FirewallInv'
<1> USE DEF FirewallInv, TableIsCurrent, OrderlyLoop, HealthyIsEnforced, Healthy,
            TypeOK, policies, memory, bounds
<1>1. ASSUME NEW a \in Addresses, ChangeBans(a) PROVE FirewallInv'
  BY <1>1, FirewallAssumption DEF ChangeBans, runtime, FirewallAssumption
<1>2. CASE LoadModel
  BY <1>2 DEF LoadModel
<1>3. CASE WritePolicy
  BY <1>3 DEF WritePolicy
<1>4. CASE RuntimeRestarts
  BY <1>4, FirewallAssumption DEF RuntimeRestarts, Outage, FirewallAssumption
<1>5. QED
  BY <1>1, <1>2, <1>3, <1>4 DEF RuntimeStep

\* The loop, from reading the policy to handing it to nft.
LEMMA EnforcingStep ==
  ASSUME FirewallInv, LoadPolicy \/ Check \/ AskTable \/ ApplyPolicy \/ ApplyFails
  PROVE  FirewallInv'
<1> USE FirewallAssumption
    DEF FirewallInv, TableIsCurrent, OrderlyLoop, HealthyIsEnforced, Healthy,
        TypeOK, policies, memory, bounds, Outside, runtime, Goto, Fault,
        FirewallAssumption
<1>1. CASE LoadPolicy
  BY <1>1 DEF LoadPolicy
<1>2. CASE Check
  \* A digest was never Unread, so that a policy not yet applied is applied.
  <2>1. digest # previous \/ previous # Unread
    OBVIOUS
  <2>2. QED
    BY <1>2, <2>1 DEF Check
<1>3. CASE AskTable
  BY <1>3 DEF AskTable
<1>4. CASE ApplyPolicy
  BY <1>4 DEF ApplyPolicy, Applied
<1>5. CASE ApplyFails
  BY <1>5 DEF ApplyFails
<1>6. QED
  BY <1>1, <1>2, <1>3, <1>4, <1>5

\* The loop's report, what ends the loop, and what starts it again.
LEMMA ReportingStep ==
  ASSUME FirewallInv,
         \/ ReportReady \/ ReportFails \/ ReportDegraded \/ RunFails \/ RemovePolicy
         \/ RemovalFails \/ Terminate \/ Kill \/ Start \/ Flush
  PROVE  FirewallInv'
<1> USE FirewallAssumption
    DEF FirewallInv, TableIsCurrent, OrderlyLoop, HealthyIsEnforced, Healthy,
        TypeOK, policies, memory, bounds, Outside, runtime, Goto, Fault, Outage,
        FirewallAssumption
<1>1. CASE ReportReady
  \* What is reported was applied, and the table is current or gone.
  <2>1. table \in {current, None}
    BY <1>1 DEF ReportReady
  <2>2. QED
    BY <1>1, <2>1 DEF ReportReady
<1>2. CASE ReportFails
  BY <1>2 DEF ReportFails
<1>3. CASE ReportDegraded
  BY <1>3 DEF ReportDegraded
<1>4. CASE RunFails
  BY <1>4 DEF RunFails
<1>5. CASE RemovePolicy
  BY <1>5 DEF RemovePolicy
<1>6. CASE RemovalFails
  <2>1. TypeOK'
    BY <1>6 DEF RemovalFails
  <2>2. QED
    BY <1>6, <2>1 DEF RemovalFails
<1>7. CASE Terminate
  BY <1>7 DEF Terminate
<1>8. CASE Kill
  <2>1. TypeOK'
    BY <1>8 DEF Kill
  <2>2. QED
    BY <1>8, <2>1 DEF Kill
<1>9. CASE Start
  \* Whatever table is left was left by a kill.
  <2>1. TypeOK'
    BY <1>9 DEF Start
  <2>2. QED
    BY <1>9, <2>1 DEF Start
<1>10. CASE Flush
  BY <1>10 DEF Flush
<1>11. QED
  BY <1>1, <1>2, <1>3, <1>4, <1>5, <1>6, <1>7, <1>8, <1>9, <1>10

\* Every behaviour keeps the invariant.
LEMMA FirewallInvariance == Spec => []FirewallInv
<1>1. FirewallInv /\ [Next]_vars => FirewallInv'
  <2> SUFFICES ASSUME FirewallInv, [Next]_vars PROVE FirewallInv'
    OBVIOUS
  <2>1. CASE UNCHANGED vars
    BY <2>1 DEF vars, runtime, memory, bounds, FirewallInv, TypeOK,
       TableIsCurrent, OrderlyLoop, HealthyIsEnforced, Healthy
  <2>2. CASE Next
    BY <2>2, OutsideStep, EnforcingStep, ReportingStep DEF Next, SecurityStep
  <2>3. QED
    BY <2>1, <2>2
<1>2. QED
  BY InitFirewall, <1>1, PTL DEF Spec

\* The type invariant, for every set of addresses and every bound.
THEOREM FirewallTypeCorrect == Spec => []TypeOK
<1>1. FirewallInv => TypeOK
  BY DEF FirewallInv
<1>2. QED
  BY FirewallInvariance, <1>1, PTL

\* While the health check passes, the kernel drops what the agent reports,
\* whatever failed, was flushed or was killed before.
THEOREM HealthyAgentEnforces == Spec => []HealthyIsEnforced
<1>1. FirewallInv => HealthyIsEnforced
  BY DEF FirewallInv
<1>2. QED
  BY FirewallInvariance, <1>1, PTL
=============================================================================
