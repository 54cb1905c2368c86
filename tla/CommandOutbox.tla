--------------------------- MODULE CommandOutbox ---------------------------
(***************************************************************************)
(* What table runtime_commands promises to whoever enqueues a command with *)
(* a change of the configuration: the command is taken once, is never      *)
(* reported twice, and is reported succeeded only after a configuration at *)
(* least as new as its change has been made live. A command whose agent    *)
(* disappears is left where it was.                                        *)
(***************************************************************************)
EXTENDS Naturals

CONSTANT MaxVersion    \* bound: committed changes

VARIABLES
  version,  \* changes committed so far
  status,   \* status[v]: the command enqueued with change v
  live      \* the newest change known to be part of the live configuration

outboxVars == <<version, status, live>>

Commands == 1..MaxVersion

Init ==
  /\ version = 0 /\ live = 0
  /\ status = [v \in Commands |-> "none"]

\* A change commits, with a command or without.
Change ==
  /\ version < MaxVersion /\ version' = version + 1
  /\ status' \in {status, [status EXCEPT ![version'] = "pending"]}
  /\ UNCHANGED live

Claim(S) ==
  /\ \A v \in S : status[v] = "pending"
  /\ status' = [v \in Commands |-> IF v \in S THEN "processing" ELSE status[v]]
  /\ UNCHANGED <<version, live>>

MakeLive ==
  /\ live' \in live..version
  /\ UNCHANGED <<version, status>>

Settle(S, outcome) ==
  /\ \A v \in S : status[v] = "processing"
  /\ outcome = "succeeded" => \A v \in S : v <= live
  /\ status' = [v \in Commands |-> IF v \in S THEN outcome ELSE status[v]]
  /\ UNCHANGED <<version, live>>

Next ==
  \/ Change
  \/ MakeLive
  \/ \E S \in SUBSET Commands :
       \/ Claim(S)
       \/ \E outcome \in {"succeeded", "failed"} : Settle(S, outcome)

Spec == Init /\ [][Next]_outboxVars
=============================================================================
