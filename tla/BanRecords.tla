----------------------------- MODULE BanRecords -----------------------------
(***************************************************************************)
(* The bans of one address in PostgreSQL: rejected requests are recorded,  *)
(* and enough of them ban the address (network-security.ts,                *)
(* recordSecurityEvent); administrators ban, release and change the ban    *)
(* (the two routes under admin/security/bans); time lets a ban expire and  *)
(* the Runtime Agent deletes old ones. Every statement is a transaction of *)
(* its own, so that requests and administrators meet between any two.      *)
(* Firewall says how the bans in force reach the kernel.                   *)
(***************************************************************************)
EXTENDS FiniteSets, Naturals

CONSTANTS
  Requests,      \* requests from the address that will be rejected
  Threshold,     \* AUTOMATIC_BAN_THRESHOLD
  MaxDecisions,  \* bound: decisions of administrators
  MaxFaults,     \* bound: failed statements
  NoBan          \* ip_bans has no row of the address

\* A row of ip_bans; a permanent ban has no expires_at.
Bans == {b \in [permanent : BOOLEAN, expires : {"never", "later", "past"},
                released : BOOLEAN] : b.permanent <=> b.expires = "never"}

ASSUME BanAssumption ==
  /\ IsFiniteSet(Requests) /\ NoBan \notin Bans
  /\ Threshold \in Nat \ {0} /\ MaxDecisions \in Nat /\ MaxFaults \in Nat

VARIABLES
  ban,       \* the address's row of ip_bans
  recent,    \* security_events: those of the last five minutes
  pc,        \* where the handler of each request is
  patch,     \* PATCH of the ban: its action, once the ban has been selected
  decisions, faults,
  decision,  \* history: the administrators' last decision, while it is in force
  overlap,   \* history: it was made while a request was past activeIpBan
  answered   \* history: since the last recorded event a ban was made or found

requests == <<recent, pc>>
admin    == <<patch, decisions, decision, overlap>>
vars     == <<ban, requests, admin, faults, answered>>

TypeOK ==
  /\ ban \in Bans \cup {NoBan} /\ recent \in SUBSET Requests
  /\ pc \in [Requests -> {"new", "insert", "lookup", "count", "upsert", "done"}]
  /\ patch \in {"none", "release", "permanent", "temporary"}
  /\ decisions \in 0..MaxDecisions /\ faults \in 0..MaxFaults
  /\ decision \in {"none", "permanent", "temporary"}
  /\ overlap \in BOOLEAN /\ answered \in BOOLEAN

Init ==
  /\ ban = NoBan /\ recent = {} /\ pc = [r \in Requests |-> "new"]
  /\ patch = "none" /\ decisions = 0 /\ faults = 0
  /\ decision = "none" /\ overlap = FALSE /\ answered = FALSE

Permanent == [permanent |-> TRUE,  expires |-> "never", released |-> FALSE]
Temporary == [permanent |-> FALSE, expires |-> "later", released |-> FALSE]

\* Mutant of InForce: a ban without an expiry is taken for one that is over.
InForceUntil(b) == b # NoBan /\ ~b.released /\ b.expires = "later"

\* What activeIpBan selects.
InForce(b) == b # NoBan /\ ~b.released /\ (b.permanent \/ b.expires = "later")

-----------------------------------------------------------------------------
(* A request.                                                              *)

Goto(r, from, to) == pc[r] = from /\ pc' = [pc EXCEPT ![r] = to]

\* The route turns a banned address away, and records nothing.
Screen(r) ==
  /\ Goto(r, "new", IF InForce(ban) THEN "done" ELSE "insert")
  /\ UNCHANGED <<ban, recent, admin, faults, answered>>

InsertEvent(r) ==
  /\ Goto(r, "insert", "lookup")
  /\ recent' = recent \cup {r} /\ answered' = FALSE
  /\ UNCHANGED <<ban, admin, faults>>

\* Only occurrence_count and last_seen_at of a ban in force are updated.
FindBan(r) ==
  /\ InForce(ban) /\ Goto(r, "lookup", "done") /\ answered' = TRUE
  /\ UNCHANGED <<ban, recent, admin, faults>>

FindNoBan(r) ==
  /\ ~InForce(ban) /\ Goto(r, "lookup", "count")
  /\ UNCHANGED <<ban, recent, admin, faults, answered>>

\* Mutant of CountEvents: the event just recorded is not counted.
CountOthers(r) ==
  /\ Goto(r, "count", IF Cardinality(recent \ {r}) < Threshold THEN "done"
                                                               ELSE "upsert")
  /\ UNCHANGED <<ban, recent, admin, faults, answered>>

CountEvents(r) ==
  /\ Goto(r, "count", IF Cardinality(recent) < Threshold THEN "done" ELSE "upsert")
  /\ UNCHANGED <<ban, recent, admin, faults, answered>>

\* On conflict the row that is there is replaced, whatever it has become.
UpsertBan(r) ==
  /\ Goto(r, "upsert", "done")
  /\ ban' = Temporary /\ answered' = TRUE
  /\ UNCHANGED <<recent, admin, faults>>

\* A statement fails; recordSecurityEvent logs that and returns.
Fail(r) ==
  /\ pc[r] \notin {"new", "done"} /\ pc' = [pc EXCEPT ![r] = "done"]
  /\ faults < MaxFaults /\ faults' = faults + 1
  /\ UNCHANGED <<ban, recent, admin, answered>>

-----------------------------------------------------------------------------
(* An administrator.                                                       *)

Decide(d) ==
  /\ decision' = d
  /\ overlap' = (\E r \in Requests : pc[r] \in {"count", "upsert"})
  /\ UNCHANGED <<requests, faults, answered>>

Begin == decisions < MaxDecisions /\ decisions' = decisions + 1

\* POST /admin/security/bans: an upsert.
PostBan(d) ==
  /\ Begin /\ Decide(d)
  /\ ban' = IF d = "permanent" THEN Permanent ELSE Temporary
  /\ UNCHANGED patch

\* PATCH /admin/security/bans/[banId] selects the ban and then updates it.
SelectBan(action) ==
  /\ Begin /\ patch = "none" /\ ban # NoBan /\ patch' = action
  /\ UNCHANGED <<ban, requests, decision, overlap, faults, answered>>

ReleaseBan ==
  /\ patch = "release" /\ patch' = "none" /\ ban # NoBan
  /\ ban' = [ban EXCEPT !.released = TRUE]
  /\ Decide("none") /\ UNCHANGED decisions

ChangeBan ==
  /\ patch \in {"permanent", "temporary"} /\ patch' = "none" /\ ban # NoBan
  /\ ban' = IF patch = "permanent" THEN Permanent ELSE Temporary
  /\ Decide(patch) /\ UNCHANGED decisions

\* The ban was deleted since it was selected: no row is updated.
UpdateNothing ==
  /\ patch # "none" /\ patch' = "none" /\ ban = NoBan
  /\ UNCHANGED <<ban, requests, decisions, decision, overlap, faults, answered>>

-----------------------------------------------------------------------------
(* Time. A ban lasts six hours and events count for five minutes; that one *)
(* handler takes less than either is not assumed.                          *)

Expire ==
  /\ ban # NoBan /\ ban.expires = "later"
  /\ ban' = [ban EXCEPT !.expires = "past"]
  /\ decision' = "none"
  /\ UNCHANGED <<requests, patch, decisions, overlap, faults, answered>>

Forget(r) ==
  /\ r \in recent /\ recent' = recent \ {r}
  /\ UNCHANGED <<ban, pc, admin, faults, answered>>

\* cleanup_expired_data, seven days later.
CleanUp ==
  /\ ban # NoBan /\ (ban.released \/ ban.expires = "past")
  /\ ban' = NoBan
  /\ UNCHANGED <<requests, admin, faults, answered>>

-----------------------------------------------------------------------------
RequestStep(r) ==
  \/ Screen(r) \/ InsertEvent(r) \/ FindBan(r) \/ FindNoBan(r) \/ CountEvents(r)
  \/ UpsertBan(r) \/ Fail(r) \/ Forget(r)

AdminStep ==
  \/ \E d \in {"permanent", "temporary"} : PostBan(d)
  \/ \E action \in {"release", "permanent", "temporary"} : SelectBan(action)
  \/ ReleaseBan \/ ChangeBan \/ UpdateNothing

Next == (\E r \in Requests : RequestStep(r)) \/ AdminStep \/ Expire \/ CleanUp

Spec == Init /\ [][Next]_vars

-----------------------------------------------------------------------------
(* Properties.                                                             *)

\* When the handlers of all requests have returned and none failed, as many
\* recent rejections as the threshold have met a ban: one was made, or one was in
\* force after the last of them was recorded. However the handlers overlap, they
\* cannot all miss the threshold.
ThresholdBans ==
  ( /\ faults = 0 /\ Cardinality(recent) >= Threshold
    /\ \A r \in Requests : pc[r] \in {"new", "insert", "done"} ) => answered

\* What an administrator decided stays in force until it expires or is decided
\* anew: automatic bans and the cleanup do not touch it. The exception is a request
\* that had looked for a ban before the decision: it replaces even a permanent ban
\* by one of six hours.
DecisionStands ==
  (decision # "none" /\ ~overlap) =>
    /\ ban # NoBan /\ ~ban.released
    /\ ban.permanent <=> decision = "permanent"
    /\ ban.expires # "past"

-----------------------------------------------------------------------------
(* Inductive invariants.                                                   *)

\* Whoever recorded an event that has not been answered is still to count it.
CountersRemain ==
  ( /\ faults = 0 /\ Cardinality(recent) >= Threshold
    /\ ~answered ) => \E r \in Requests : pc[r] \in {"lookup", "count", "upsert"}

\* A ban that stands is found by every request that looks for one.
NobodyMissedTheBan ==
  (decision # "none" /\ ~overlap) =>
    \A r \in Requests : pc[r] \notin {"count", "upsert"}

BanInv == TypeOK /\ CountersRemain /\ NobodyMissedTheBan /\ DecisionStands
=============================================================================
