------------------------------ MODULE LiveView ------------------------------
(***************************************************************************)
(* The dashboards, which ask the server again every ten or fifteen seconds *)
(* while the window is visible: a query of react-query, whose cache        *)
(* outlives the page. An answer of the portal is read in two statements,   *)
(* the access and then its devices, while the Runtime Agent stores         *)
(* telemetry and the user revokes devices.                                 *)
(***************************************************************************)
EXTENDS Naturals, FiniteSets

CONSTANTS
  Gadgets,       \* the devices of the account
  MaxSamples,    \* bound: telemetry stored, and devices revoked
  MaxLapses      \* bound: failed answers, and times the page is hidden or left

ASSUME LiveViewAssumption ==
  IsFiniteSet(Gadgets) /\ MaxSamples \in Nat /\ MaxLapses \in Nat

VARIABLES
  used,      \* vpn_accesses.used_bytes, and devices.used_bytes
  gone,      \* devices that are revoked
  version,   \* how often the rows were changed
  cached,    \* the data of the query, or NoData
  fetches,   \* the requests under way, of two the browser could have
  render,    \* the page is being rendered by the server
  mounted, visible, lapses

viewVars == <<used, gone, version, cached, fetches, render, mounted, visible, lapses>>

rowsOfView == <<used, gone, version>>

\* What was read: the access and its version, then the devices and theirs.
Reads == [step : {"none", "asked", "access", "answered"}, try : 0..2,
          access : Nat, of : Nat, devices : [Gadgets -> Nat], at : Nat]
NoRead == [step |-> "none", try |-> 0, access |-> 0, of |-> 0,
           devices |-> [g \in Gadgets |-> 0], at |-> 0]

Slots == {"first", "second"}

LiveViewTypeOK ==
  /\ used \in [access : Nat, devices : [Gadgets -> Nat]]
  /\ gone \in SUBSET Gadgets /\ version \in 0..MaxSamples
  /\ cached \in Reads /\ fetches \in [Slots -> Reads] /\ render \in Reads
  /\ mounted \in BOOLEAN /\ visible \in BOOLEAN /\ lapses \in 0..MaxLapses

LiveViewInit ==
  /\ used = [access |-> 0, devices |-> NoRead.devices] /\ gone = {} /\ version = 0
  /\ cached = NoRead /\ fetches = [f \in Slots |-> NoRead]
  /\ render = NoRead /\ mounted = FALSE /\ visible = TRUE /\ lapses = 0

\* The sum of what devices have used, as the size of a set that has each byte.
Total(values, gs) == Cardinality(UNION {{g} \X (1..values[g]) : g \in gs})

-----------------------------------------------------------------------------
(* The rows.                                                               *)

RowsGoOn ==
  /\ version < MaxSamples /\ version' = version + 1
  /\ UNCHANGED <<cached, fetches, render, mounted, visible, lapses>>

\* collect_telemetry, one transaction: the account is what its devices that are
\* not revoked have used.
StoreTelemetry ==
  /\ RowsGoOn /\ UNCHANGED gone
  /\ \E g \in Gadgets \ gone :
       LET now == [used.devices EXCEPT ![g] = @ + 1]
       IN  used' = [devices |-> now, access |-> Total(now, Gadgets \ gone)]

RevokeGadget ==
  RowsGoOn /\ UNCHANGED used /\ \E g \in Gadgets \ gone : gone' = gone \cup {g}

-----------------------------------------------------------------------------
(* getPortalDashboard, for a page that is rendered or for a request.       *)

ReadAccess(r) ==
  [r EXCEPT !.step = "access", !.access = used.access, !.of = version]

\* The revoked ones are listed too.
ReadDevices(r) ==
  [r EXCEPT !.step = "answered", !.devices = used.devices, !.at = version]

\* Mutant of Reading: the devices are read first.
ReadingDevicesFirst(r) ==
  IF r.step = "asked"
  THEN [r EXCEPT !.step = "access", !.devices = used.devices, !.at = version]
  ELSE [r EXCEPT !.step = "answered", !.access = used.access, !.of = version]

Reading(r) == IF r.step = "asked" THEN ReadAccess(r) ELSE ReadDevices(r)

ReadForPage ==
  /\ render.step \in {"asked", "access"} /\ render' = Reading(render)
  /\ UNCHANGED <<rowsOfView, cached, fetches, mounted, visible, lapses>>

ReadForFetch(f) ==
  /\ fetches[f].step \in {"asked", "access"}
  /\ fetches' = [fetches EXCEPT ![f] = Reading(@)]
  /\ UNCHANGED <<rowsOfView, cached, render, mounted, visible, lapses>>

-----------------------------------------------------------------------------
(* The browser.                                                            *)

\* initialData is for a query without data: one that is still cached keeps it.
Mount ==
  /\ render.step = "answered" /\ render' = NoRead /\ mounted' = TRUE
  /\ cached' = IF cached = NoRead THEN render ELSE cached
  /\ UNCHANGED <<rowsOfView, fetches, visible, lapses>>

Fetching == \E f \in Slots : fetches[f].step # "none"

\* Mutant of Poll: a request is not kept from overtaking another.
PollAgain(f) ==
  /\ mounted /\ visible /\ fetches[f].step = "none"
  /\ fetches' = [fetches EXCEPT ![f] = [NoRead EXCEPT !.step = "asked", !.try = 1]]
  /\ UNCHANGED <<rowsOfView, cached, render, mounted, visible, lapses>>

\* Mutant of Poll: an answer that took a second try ends the interval.
PollUntilRetry(f) ==
  /\ mounted /\ visible /\ ~Fetching /\ cached.try # 2
  /\ fetches' = [fetches EXCEPT ![f] = [NoRead EXCEPT !.step = "asked", !.try = 1]]
  /\ UNCHANGED <<rowsOfView, cached, render, mounted, visible, lapses>>

\* The interval is over, or a page is shown with data that is stale; a request
\* that is under way is joined.
Poll(f) ==
  /\ mounted /\ visible /\ ~Fetching
  /\ fetches' = [fetches EXCEPT ![f] = [NoRead EXCEPT !.step = "asked", !.try = 1]]
  /\ UNCHANGED <<rowsOfView, cached, render, mounted, visible, lapses>>

\* The answer is cached, also when the page was left.
Answer(f) ==
  /\ fetches[f].step = "answered" /\ cached' = fetches[f]
  /\ fetches' = [fetches EXCEPT ![f] = NoRead]
  /\ UNCHANGED <<rowsOfView, render, mounted, visible, lapses>>

Lapse == lapses < MaxLapses /\ lapses' = lapses + 1 /\ UNCHANGED rowsOfView

\* Asked once more, unless the page was left; then what was shown stays.
FetchFails(f) ==
  /\ fetches[f].step # "none" /\ Lapse
  /\ fetches' = [fetches EXCEPT ![f] =
       IF @.try = 1 /\ mounted THEN [NoRead EXCEPT !.step = "asked", !.try = 2] ELSE NoRead]
  /\ UNCHANGED <<cached, render, mounted, visible>>

Hide == visible /\ Lapse /\ visible' = FALSE /\ UNCHANGED <<cached, fetches, render, mounted>>

Show ==
  /\ ~visible /\ visible' = TRUE
  /\ UNCHANGED <<rowsOfView, cached, fetches, render, mounted, lapses>>

\* Another page.
Leave ==
  /\ mounted /\ Lapse /\ mounted' = FALSE
  /\ UNCHANGED <<cached, fetches, render, visible>>

\* The link to the dashboard is followed, at first or again.
OpenPage ==
  /\ ~mounted /\ render.step = "none"
  /\ render' = [NoRead EXCEPT !.step = "asked", !.try = 1]
  /\ UNCHANGED <<rowsOfView, cached, fetches, mounted, visible, lapses>>

\* gcTime: five minutes after the page was left.
Forget ==
  /\ ~mounted /\ cached # NoRead /\ ~Fetching /\ cached' = NoRead
  /\ UNCHANGED <<rowsOfView, fetches, render, mounted, visible, lapses>>

LiveViewNext ==
  \/ StoreTelemetry \/ RevokeGadget \/ ReadForPage \/ Mount \/ Hide \/ Show \/ Leave
  \/ OpenPage \/ Forget
  \/ \E f \in Slots : ReadForFetch(f) \/ Poll(f) \/ Answer(f) \/ FetchFails(f)

LiveViewSpec == LiveViewInit /\ [][LiveViewNext]_viewVars

\* The server answers, and the browser keeps its timer. Nobody need come back.
LiveViewFairness ==
  /\ WF_viewVars(ReadForPage) /\ WF_viewVars(Mount)
  /\ WF_viewVars(\E f \in Slots : Poll(f)) /\ WF_viewVars(\E f \in Slots : ReadForFetch(f))
  /\ WF_viewVars(\E f \in Slots : Answer(f))

-----------------------------------------------------------------------------
(* Properties.                                                             *)

\* No dashboard shows an account that used more than its devices together, as
\* telemetry is stored between the two statements (data/portal.ts, the order).
ViewAddsUp ==
  LiveViewTypeOK /\ (cached # NoRead => cached.access <= Total(cached.devices, Gadgets))

\* A dashboard never goes back to older data while its query is cached: requests
\* do not overtake each other, and the page's own data is dropped.
ViewMovesOn ==
  [][cached # NoRead /\ cached' # NoRead
       => cached'.of >= cached.of /\ cached'.at >= cached.at]_viewVars

\* Once answers come and the page stays in view, it shows what is stored, also
\* after requests that failed twice (refetchInterval goes on).
ViewSettles == <>[](mounted /\ visible => cached.of = version /\ cached.at = version)

\* The strengthening. What is stored adds up at any time, and devices only gain:
\* an answer whose devices are still to be read will add up too.
AddsUp(r) ==
  /\ r.step = "access"   => r.access <= Total(used.devices, Gadgets)
  /\ r.step = "answered" => r.access <= Total(r.devices, Gadgets)

\* A request under way will not answer with older data than what is shown.
Follows(r) ==
  /\ r.step \in {"access", "answered"} => cached.of <= r.of
  /\ r.step = "answered" => cached.at <= r.at

\* One request at a time, and only while there is data to go on showing.
OneFetch ==
  /\ cached # NoRead => cached.step = "answered"
  /\ mounted \/ Fetching => cached # NoRead
  /\ \A f, g \in Slots : fetches[f].step # "none" /\ fetches[g].step # "none" => f = g

LiveViewInv ==
  /\ LiveViewTypeOK /\ OneFetch
  /\ used.access <= Total(used.devices, Gadgets)
  /\ \A r \in {cached, render} \cup {fetches[f] : f \in Slots} :
       AddsUp(r) /\ r.of <= version /\ r.at <= version
  /\ \A f \in Slots : Follows(fetches[f])
=============================================================================
