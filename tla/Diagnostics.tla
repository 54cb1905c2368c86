----------------------------- MODULE Diagnostics -----------------------------
(***************************************************************************)
(* The VPN diagnostic: a page asks the web server, which asks the Runtime  *)
(* Agent and gives up after 35 seconds. A thread of the agent's health     *)
(* server adds a user of its own to the running Xray, tries the tunnel     *)
(* with it and removes it again, while the poll loop may restart Xray.     *)
(***************************************************************************)
EXTENDS Naturals, FiniteSets

CONSTANTS
  Probes,          \* diagnostics that are asked for
  MaxXrayFaults    \* bound: failed calls, restarts of Xray and of the agent

ASSUME DiagnosticsAssumption == MaxXrayFaults \in Nat

VARIABLES
  probe,       \* the thread of each diagnostic
  waiting,     \* the page, and the request of the web server, wait for its answer
  told,        \* what the page was told
  lockedBy,    \* diagnostic_lock
  xrayUp,      \* Xray runs and the agent has a model
  probeUsers,  \* users of diagnostics that Xray accepts
  xrayFaults,
  botched      \* history: diagnostics of which a call to Xray failed

diagnosticVars ==
  <<probe, waiting, told, lockedBy, xrayUp, probeUsers, xrayFaults, botched>>

xray == <<xrayUp, probeUsers, xrayFaults, botched>>
page == <<waiting, told>>

Free     == "free"
Outcomes == {"none", "passed", "failed", "busy", "unreachable"}

DiagnosticsTypeOK ==
  /\ probe \in [Probes -> [at : {"new", "asked", "locked", "checked", "added", "probed",
                                 "ended", "lost"}, result : Outcomes]]
  /\ waiting \in SUBSET Probes /\ told \in [Probes -> Outcomes]
  /\ lockedBy \in Probes \cup {Free} /\ xrayUp \in BOOLEAN
  /\ probeUsers \in SUBSET Probes /\ xrayFaults \in 0..MaxXrayFaults
  /\ botched \in SUBSET Probes

DiagnosticsInit ==
  /\ probe = [d \in Probes |-> [at |-> "new", result |-> "none"]]
  /\ waiting = {} /\ told = [d \in Probes |-> "none"] /\ lockedBy = Free
  /\ xrayUp \in BOOLEAN /\ probeUsers = {} /\ xrayFaults = 0 /\ botched = {}

-----------------------------------------------------------------------------
(* The page and the web server.                                            *)

\* One page asks for one diagnostic at a time; several pages may ask at once.
AskDiagnostic(d) ==
  /\ probe[d].at = "new" /\ probe' = [probe EXCEPT ![d].at = "asked"]
  /\ waiting' = waiting \cup {d} /\ UNCHANGED <<told, lockedBy, xray>>

Tell(d, what) ==
  /\ d \in waiting /\ waiting' = waiting \ {d} /\ told' = [told EXCEPT ![d] = what]
  /\ UNCHANGED <<probe, lockedBy, xray>>

ReceiveAnswer(d) == probe[d].at = "ended" /\ Tell(d, probe[d].result)

\* AbortSignal.timeout: the thread goes on, and so does its lock.
GiveUp(d) == probe[d].at # "ended" /\ Tell(d, "unreachable")

-----------------------------------------------------------------------------
(* run_vpn_diagnostic.                                                     *)

ProbeStep(d, from, to) ==
  /\ probe[d].at = from /\ probe' = [probe EXCEPT ![d].at = to]
  /\ UNCHANGED page

EndProbe(d, result) ==
  /\ probe' = [probe EXCEPT ![d] = [at |-> "ended", result |-> result]]
  /\ lockedBy' = IF lockedBy = d THEN Free ELSE lockedBy
  /\ UNCHANGED page

TakeLock(d) ==
  /\ probe[d].at = "asked" /\ UNCHANGED xray
  /\ \/ lockedBy = Free /\ lockedBy' = d /\ ProbeStep(d, "asked", "locked")
     \/ lockedBy # Free /\ EndProbe(d, "busy")

\* Is Xray running, and is the REALITY target reachable?
CheckFirst(d) ==
  /\ probe[d].at = "locked" /\ UNCHANGED xray
  /\ \/ xrayUp /\ ProbeStep(d, "locked", "checked") /\ UNCHANGED lockedBy
     \/ EndProbe(d, "failed")

XrayFault(d) ==
  /\ xrayFaults < MaxXrayFaults /\ xrayFaults' = xrayFaults + 1
  /\ botched' = botched \cup {d}

AddProbeUser(d) ==
  /\ ProbeStep(d, "checked", "added") /\ xrayUp
  /\ probeUsers' = probeUsers \cup {d}
  /\ UNCHANGED <<lockedBy, xrayUp, xrayFaults, botched>>

\* Mutant of AddFails: the lock is not released.
AddFailsLocked(d) ==
  /\ probe[d].at = "checked" /\ XrayFault(d)
  /\ probe' = [probe EXCEPT ![d] = [at |-> "ended", result |-> "failed"]]
  /\ probeUsers' \in {probeUsers} \cup {probeUsers \cup {e} : e \in {d} \cap {f \in Probes : xrayUp}}
  /\ UNCHANGED <<lockedBy, xrayUp, page>>

\* The call fails, or took effect and was not answered: nobody removes the user.
AddFails(d) ==
  /\ probe[d].at = "checked" /\ XrayFault(d) /\ EndProbe(d, "failed")
  /\ \/ UNCHANGED probeUsers
     \/ xrayUp /\ probeUsers' = probeUsers \cup {d}
  /\ UNCHANGED xrayUp

\* Mutant of TryTunnel: a tunnel that fails ends the diagnostic.
TryTunnelOnly(d) ==
  /\ probe[d].at = "added" /\ UNCHANGED xray
  /\ \/ /\ d \in probeUsers /\ UNCHANGED <<lockedBy, page>>
        /\ probe' = [probe EXCEPT ![d] = [at |-> "probed", result |-> "passed"]]
     \/ EndProbe(d, "failed")

\* By the public endpoint, else by the local one. Either may fail.
TryTunnel(d) ==
  /\ probe[d].at = "added" /\ UNCHANGED <<lockedBy, xray, page>>
  /\ \E result \in {"passed", "failed"} :
       /\ result = "passed" => d \in probeUsers
       /\ probe' = [probe EXCEPT ![d] = [at |-> "probed", result |-> result]]

RemoveProbeUser(d) ==
  /\ probe[d].at = "probed" /\ EndProbe(d, probe[d].result)
  /\ d \in probeUsers /\ probeUsers' = probeUsers \ {d}
  /\ UNCHANGED <<xrayUp, xrayFaults, botched>>

\* Xray was restarted since, and does not know the user: logged.
NothingToRemove(d) ==
  /\ probe[d].at = "probed" /\ d \notin probeUsers /\ EndProbe(d, probe[d].result)
  /\ UNCHANGED xray

\* Refused (logged, the result stands) or timed out (it does not).
RemoveFails(d) ==
  /\ probe[d].at = "probed" /\ d \in probeUsers /\ XrayFault(d)
  /\ EndProbe(d, probe[d].result) \/ EndProbe(d, "failed")
  /\ probeUsers' \in {probeUsers, probeUsers \ {d}} /\ UNCHANGED xrayUp

-----------------------------------------------------------------------------
(* What else happens to Xray: the poll loop, which knows no such user.     *)

RestartXray ==
  /\ xrayFaults < MaxXrayFaults /\ xrayFaults' = xrayFaults + 1
  /\ xrayUp' \in BOOLEAN /\ probeUsers' = {}
  /\ UNCHANGED <<probe, page, lockedBy, botched>>

\* The next pass of the loop starts an Xray that is gone.
StartAgain ==
  /\ ~xrayUp /\ xrayUp' = TRUE
  /\ UNCHANGED <<probe, page, lockedBy, probeUsers, xrayFaults, botched>>

\* The threads end with the agent, which stops Xray.
RestartAgent ==
  /\ xrayFaults < MaxXrayFaults /\ xrayFaults' = xrayFaults + 1
  /\ probe' = [d \in Probes |->
       IF probe[d].at \in {"new", "ended"} THEN probe[d]
       ELSE [at |-> "lost", result |-> "none"]]
  /\ lockedBy' = Free /\ xrayUp' = FALSE /\ probeUsers' = {}
  /\ UNCHANGED <<page, botched>>

Thread(d) ==
  \/ TakeLock(d) \/ CheckFirst(d) \/ AddProbeUser(d) \/ AddFails(d) \/ TryTunnel(d)
  \/ RemoveProbeUser(d) \/ NothingToRemove(d) \/ RemoveFails(d)

DiagnosticsNext ==
  \/ \E d \in Probes : AskDiagnostic(d) \/ ReceiveAnswer(d) \/ GiveUp(d) \/ Thread(d)
  \/ RestartXray \/ StartAgain \/ RestartAgent

\* Every call of a thread has a timeout; so has the web server's request.
DiagnosticsFairness ==
  /\ WF_diagnosticVars(StartAgain)
  /\ \A d \in Probes :
       WF_diagnosticVars(Thread(d)) /\ WF_diagnosticVars(ReceiveAnswer(d) \/ GiveUp(d))

DiagnosticsSpec ==
  DiagnosticsInit /\ [][DiagnosticsNext]_diagnosticVars /\ DiagnosticsFairness

-----------------------------------------------------------------------------
(* Properties.                                                             *)

\* Xray accepts a diagnostic's user only while it runs, or after a call to Xray
\* failed: to add it, which is then not undone, or to remove it, which is then
\* not repeated (the finally of run_vpn_diagnostic). A restart ends it.
LeftoverExplained ==
  \A d \in probeUsers : probe[d].at \in {"added", "probed"} \/ d \in botched

\* A diagnostic that is over, however it ended and though nobody waits for it any
\* more, lets the next one run, and every page is told something, also when the
\* agent restarts.
DiagnosticsEnd ==
  \A d \in Probes :
    /\ (lockedBy = d) ~> (lockedBy # d)
    /\ (d \in waiting) ~> (told[d] # "none")
=============================================================================
