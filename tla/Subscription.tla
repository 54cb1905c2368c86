---------------------------- MODULE Subscription ----------------------------
(***************************************************************************)
(* GET /sub/:token, from which a VPN client fetches its configuration. The *)
(* first client that presents a hardware id binds the credential to it.    *)
(* Every statement of the handler is a transaction of its own: requests    *)
(* meet each other, and the changes administrators and users make, between *)
(* any two of them. All requests come from one address.                    *)
(***************************************************************************)
EXTENDS Naturals, FiniteSets

CONSTANTS
  Requests, Credentials,
  Hwids,            \* hardware ids clients present
  None,             \* no hardware id: hwid_digest is null, or no valid header
  Unknown,          \* a token that is no credential's
  AddressLimit,     \* requests per minute and address
  CredentialLimit,  \* requests per minute and credential
  MaxChanges        \* bound: changes of accounts, devices and settings

ASSUME SubscriptionAssumption ==
  /\ IsFiniteSet(Requests)
  /\ None \notin Hwids /\ Unknown \notin Credentials /\ "address" \notin Credentials
  /\ AddressLimit \in Nat /\ CredentialLimit \in Nat /\ MaxChanges \in Nat

VARIABLES
  hwid,      \* subscription_credentials.hwid_digest
  revoked,   \* subscription_credentials.revoked_at is set
  device,    \* devices.status
  account,   \* the row of vpn_accesses, and banned of its user
  enabled,   \* instance_settings has all a subscription needs
  blocked,   \* activeIpBan finds a ban of the address
  window,    \* rate_limit: the requests counted, and whether the minute is over
  phase, asked, shows, seen, answer,   \* of each request
  changes,
  served,    \* history: the ids to which a credential's configuration was given
  passed     \* history: the requests let through since the window began

rows     == <<hwid, revoked, device, account, enabled, blocked>>
requests == <<phase, asked, shows, seen, answer>>
vars     == <<rows, window, requests, changes, served, passed>>

Keys     == {"address"} \cup Credentials
Accounts == [status : {"active", "suspended"}, banned : BOOLEAN,
             over : BOOLEAN]  \* over: the expiry date or the quota has passed
Phases   == {"new", "screened", "counted", "selected", "allowed", "judged",
             "configured", "lost", "bound", "done"}
Answers  == {"none", "blocked", "limited", "not found", "inactive", "over",
             "no hwid", "other device", "unavailable", "configuration", "error"}
Records  == [device : {"active", "blocked_by_limit", "revoked"},
             account : Accounts, hwid : Hwids \cup {None}]
NoRecord == [device |-> "active", hwid |-> None,
             account |-> [status |-> "active", banned |-> FALSE, over |-> FALSE]]

TypeOK ==
  /\ hwid \in [Credentials -> Hwids \cup {None}]
  /\ revoked \in [Credentials -> BOOLEAN]
  /\ device \in [Credentials -> {"active", "blocked_by_limit", "revoked"}]
  /\ account \in Accounts /\ enabled \in BOOLEAN /\ blocked \in BOOLEAN
  /\ window \in [Keys -> [count : Nat, over : BOOLEAN]]
  /\ phase \in [Requests -> Phases] /\ answer \in [Requests -> Answers]
  /\ asked \in [Requests -> Credentials \cup {Unknown}]
  /\ shows \in [Requests -> Hwids \cup {None}]
  /\ seen \in [Requests -> Records]
  /\ changes \in 0..MaxChanges
  /\ served \in [Credentials -> SUBSET Hwids]
  /\ passed \in [Keys -> SUBSET Requests]

Init ==
  /\ hwid = [c \in Credentials |-> None] /\ revoked = [c \in Credentials |-> FALSE]
  /\ device = [c \in Credentials |-> "active"]
  /\ account = NoRecord.account /\ enabled = TRUE /\ blocked = FALSE
  /\ window = [k \in Keys |-> [count |-> 0, over |-> FALSE]]
  /\ phase = [r \in Requests |-> "new"]
  /\ asked \in [Requests -> Credentials \cup {Unknown}]
  /\ shows \in [Requests -> Hwids \cup {None}]
  /\ seen = [r \in Requests |-> NoRecord] /\ answer = [r \in Requests |-> "none"]
  /\ changes = 0
  /\ served = [c \in Credentials |-> {}] /\ passed = [k \in Keys |-> {}]

-----------------------------------------------------------------------------
(* How a request goes on.                                                  *)

Goto(r, from, to) ==
  /\ phase[r] = from /\ phase' = [phase EXCEPT ![r] = to]
  /\ UNCHANGED <<asked, shows>>

\* The handler returns, and its record of what it read is gone.
Finish(r, why) ==
  /\ answer' = [answer EXCEPT ![r] = why] /\ seen' = [seen EXCEPT ![r] = NoRecord]

Refuse(r, from, why) ==
  /\ Goto(r, from, "done") /\ Finish(r, why)
  /\ UNCHANGED <<hwid, revoked, device, account, enabled, changes, served>>

\* recordSecurityEvent may ban the address; BanRecords says when.
RefuseRecorded(r, from, why) ==
  Refuse(r, from, why) /\ blocked' \in {blocked, TRUE}

Continue(r, from, to) ==
  Goto(r, from, to) /\ UNCHANGED <<rows, changes, served, answer>>

-----------------------------------------------------------------------------
(* consumeRateLimit: one upsert, which begins a new window or counts.      *)

Counted(k) ==
  [count |-> IF window[k].over THEN 1 ELSE window[k].count + 1, over |-> FALSE]

Consume(k) == window' = [window EXCEPT ![k] = Counted(k)]

\* history: who passed in the window that is now open
Pass(r, k) ==
  passed' = [passed EXCEPT ![k] = IF window[k].over THEN {r} ELSE @ \cup {r}]

\* Mutant of Allowed: the count from before the upsert is compared.
AllowedBefore(k, limit) == window[k].over \/ window[k].count <= limit

Allowed(k, limit) == Counted(k).count <= limit

-----------------------------------------------------------------------------
(* The handler.                                                            *)

Screen(r) ==
  /\ UNCHANGED <<window, passed>>
  /\ \/ ~blocked /\ Continue(r, "new", "screened") /\ UNCHANGED seen
     \/ blocked /\ Refuse(r, "new", "blocked") /\ UNCHANGED blocked

LimitAddress(r) ==
  /\ Consume("address")
  /\ \/ /\ Allowed("address", AddressLimit) /\ Pass(r, "address")
        /\ Continue(r, "screened", "counted") /\ UNCHANGED seen
     \/ /\ ~Allowed("address", AddressLimit)
        /\ RefuseRecorded(r, "screened", "limited") /\ UNCHANGED passed

\* The join: a credential that is not revoked, its device, account and user.
Found(c) == c \in Credentials /\ ~revoked[c] /\ ~account.banned

Select(r) ==
  LET c == asked[r] IN
  /\ UNCHANGED <<window, passed>>
  /\ \/ /\ Found(c)
        /\ seen' = [seen EXCEPT ![r] = [device |-> device[c], account |-> account,
                                        hwid |-> hwid[c]]]
        /\ Continue(r, "counted", "selected")
     \/ ~Found(c) /\ RefuseRecorded(r, "counted", "not found")

LimitCredential(r) ==
  LET c == asked[r] IN
  /\ phase[r] = "selected" /\ Consume(c)
  /\ \/ /\ Allowed(c, CredentialLimit) /\ Pass(r, c)
        /\ Continue(r, "selected", "allowed") /\ UNCHANGED seen
     \/ /\ ~Allowed(c, CredentialLimit)
        /\ RefuseRecorded(r, "selected", "limited") /\ UNCHANGED passed

\* What the record says is judged, whatever the rows have become.
Inactive(s) == s.device # "active" \/ s.account.status # "active"
Mismatch(r) == seen[r].hwid # None /\ seen[r].hwid # shows[r]

Judge(r) ==
  LET s == seen[r] IN
  /\ UNCHANGED <<window, passed>>
  /\ \/ Inactive(s) /\ Refuse(r, "allowed", "inactive") /\ UNCHANGED blocked
     \/ ~Inactive(s) /\ s.account.over /\ Refuse(r, "allowed", "over") /\ UNCHANGED blocked
     \/ /\ ~Inactive(s) /\ ~s.account.over /\ shows[r] = None
        /\ Refuse(r, "allowed", "no hwid") /\ UNCHANGED blocked
     \/ /\ ~Inactive(s) /\ ~s.account.over /\ shows[r] # None /\ Mismatch(r)
        /\ RefuseRecorded(r, "allowed", "other device")
     \/ /\ ~Inactive(s) /\ ~s.account.over /\ shows[r] # None /\ ~Mismatch(r)
        /\ Continue(r, "allowed", "judged") /\ UNCHANGED seen

ReadSettings(r) ==
  /\ UNCHANGED <<window, passed>>
  /\ \/ ~enabled /\ Refuse(r, "judged", "unavailable") /\ UNCHANGED blocked
     \/ /\ enabled /\ UNCHANGED seen
        /\ Continue(r, "judged", IF seen[r].hwid = None THEN "configured" ELSE "bound")

\* Mutant of Bind: the update does not ask for an unbound credential.
BindAnyway(r) ==
  LET c == asked[r] IN
  /\ Goto(r, "configured", "bound")
  /\ hwid' = [hwid EXCEPT ![c] = shows[r]]
  /\ UNCHANGED <<revoked, device, account, enabled, blocked, window, seen, answer,
                 changes, served, passed>>

\* The update is conditional on hwid_digest being null, so one request wins.
Bind(r) ==
  LET c == asked[r] IN
  /\ Goto(r, "configured", IF hwid[c] = None THEN "bound" ELSE "lost")
  /\ hwid' = [hwid EXCEPT ![c] = IF @ = None THEN shows[r] ELSE @]
  /\ UNCHANGED <<revoked, device, account, enabled, blocked, window, seen, answer,
                 changes, served, passed>>

\* Mutant of Reread: who lost is refused, without a second look.
RefuseLoser(r) ==
  UNCHANGED <<window, passed, blocked>> /\ Refuse(r, "lost", "other device")

\* Who lost looks again: the winner may have shown the same hardware id.
Reread(r) ==
  /\ phase[r] = "lost" /\ UNCHANGED <<window, passed>>
  /\ \/ hwid[asked[r]] = shows[r] /\ Continue(r, "lost", "bound") /\ UNCHANGED seen
     \/ /\ hwid[asked[r]] # shows[r]
        /\ Refuse(r, "lost", "other device") /\ UNCHANGED blocked

\* The update of last_used_at, and the answer.
Respond(r) ==
  LET c == asked[r] IN
  /\ Goto(r, "bound", "done") /\ Finish(r, "configuration")
  /\ served' = [served EXCEPT ![c] = @ \cup {shows[r]}]
  /\ UNCHANGED <<rows, window, changes, passed>>

\* A statement fails; nothing that was written is undone.
Fail(r) ==
  /\ phase[r] \notin {"new", "done"} /\ phase' = [phase EXCEPT ![r] = "done"]
  /\ Finish(r, "error")
  /\ UNCHANGED <<rows, window, asked, shows, changes, served, passed>>

-----------------------------------------------------------------------------
(* What others do to the rows.                                             *)

Change ==
  /\ changes < MaxChanges /\ changes' = changes + 1
  /\ UNCHANGED <<hwid, window, requests, served, passed>>

\* DELETE of a device revokes its credential in the same transaction.
RevokeDevice(c) ==
  /\ Change /\ device' = [device EXCEPT ![c] = "revoked"]
  /\ revoked' = [revoked EXCEPT ![c] = TRUE]
  /\ UNCHANGED <<account, enabled, blocked>>

\* PATCH of the account: its status, expiry date, quota and device limit.
PatchAccount ==
  /\ Change /\ UNCHANGED <<revoked, enabled, blocked>>
  /\ \E suspended, over \in BOOLEAN :
       account' = [status |-> IF suspended THEN "suspended" ELSE "active",
                   banned |-> suspended, over |-> over]
  /\ \E c \in Credentials : device' = [device EXCEPT ![c] =
       CASE @ = "active" -> "blocked_by_limit" [] @ = "blocked_by_limit" -> "active"
         [] OTHER -> @]

\* The date passes, or telemetry finds the quota used up.
RunOut ==
  /\ Change /\ account' = [account EXCEPT !.over = TRUE]
  /\ UNCHANGED <<revoked, device, enabled, blocked>>

ToggleSubscriptions ==
  Change /\ enabled' = ~enabled /\ UNCHANGED <<revoked, device, account, blocked>>

\* A ban expires, or an administrator makes or releases one.
ToggleBan ==
  Change /\ blocked' = ~blocked /\ UNCHANGED <<revoked, device, account, enabled>>

\* The minute of a window is over; the next request begins another.
WindowEnds(k) ==
  /\ window[k].count > 0 /\ ~window[k].over
  /\ window' = [window EXCEPT ![k].over = TRUE]
  /\ UNCHANGED <<rows, requests, changes, served, passed>>

-----------------------------------------------------------------------------
Handle(r) ==
  \/ Screen(r) \/ LimitAddress(r) \/ Select(r) \/ LimitCredential(r) \/ Judge(r)
  \/ ReadSettings(r) \/ Bind(r) \/ Reread(r) \/ Respond(r)

Others ==
  \/ \E c \in Credentials : RevokeDevice(c)
  \/ PatchAccount \/ RunOut \/ ToggleSubscriptions \/ ToggleBan
  \/ \E k \in Keys : WindowEnds(k)

Next ==
  \/ \E r \in Requests : Handle(r) \/ Fail(r)
  \/ Others

Spec == Init /\ [][Next]_vars

-----------------------------------------------------------------------------
(* Properties.                                                             *)

\* However the first requests of several clients meet, the configuration of a
\* credential is given to the hardware id it is bound to, and to no other
\* (route.ts: the conditional update, and the second look of who lost).
OneDeviceServed ==
  \A c \in Credentials : served[c] \subseteq {hwid[c]} \ {None}

\* A binding, once made, is never replaced or removed (route.ts, isNull).
BindingStands ==
  [][\A c \in Credentials : hwid[c] # None => hwid'[c] = hwid[c]]_vars

\* A client is told that the subscription belongs to another device only when
\* it does: two requests of one client may race for the binding (a client
\* that retries), and neither is refused for what the other wrote.
RefusalIsRight ==
  \A r \in Requests : answer[r] = "other device"
                        => hwid[asked[r]] \notin {None, shows[r]}

\* Requests that are counted at the same time do not pass together over the
\* limit of a window (rate-limit.ts: the upsert counts and returns at once).
Limit(k) == IF k = "address" THEN AddressLimit ELSE CredentialLimit

RateHolds == \A k \in Keys : Cardinality(passed[k]) <= Limit(k)

-----------------------------------------------------------------------------
\* The strengthening: what a request that is still under way knows, by phase,
\* of the credential it asked for.
Knows(r) ==
  LET c == asked[r] IN
  /\ phase[r] \notin {"new", "screened", "counted", "done"}
        \/ answer[r] = "other device" => c \in Credentials
  /\ phase[r] \in {"selected", "allowed", "judged"} /\ seen[r].hwid # None
       => hwid[c] = seen[r].hwid
  /\ phase[r] = "judged" => seen[r].hwid \in {None, shows[r]}
  /\ phase[r] \in {"judged", "configured", "lost", "bound"} => shows[r] # None
  /\ phase[r] = "lost" => hwid[c] # None
  /\ phase[r] = "bound" => hwid[c] = shows[r]
  /\ answer[r] # "none" => phase[r] = "done"

BindingInv ==
  /\ TypeOK /\ OneDeviceServed /\ RefusalIsRight
  /\ \A r \in Requests : Knows(r)

\* Those who passed in a window are among the requests it has counted.
RateInv ==
  /\ BindingInv /\ RateHolds
  /\ \A k \in Keys : Cardinality(passed[k]) <= window[k].count
=============================================================================
