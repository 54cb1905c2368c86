# NoxRouteNeo: a TLA+ model

These modules model the parts of NoxRouteNeo whose correctness depends on the
order in which several actors do things: the Runtime Agent that turns rows of
PostgreSQL into a running Xray, the web application's transactions, the Traffic
Gateway with its limiters and its configuration, the subscription endpoint,
first-run setup, sign-in and sessions, the bans of addresses from the requests
that cause them to the kernel's firewall, and the pages of the console, which
send back what they were rendered with. TLC checks each on small instances;
TLAPS proves the most important invariants for every value of the constants.

Paths below are relative to the repository. `runtime.py` is
`services/runtime/runtime.py`; `gateway.go`, `registry.go`, `limiter.go` and
`config.go` are in `services/traffic-gateway/`; routes are under
`apps/web/src/app/api/`, components under `apps/web/src/components/`.

    tlc   -config RuntimeSync_safety.cfg MCRuntimeSync.tla
    tlapm RuntimeSyncProofs.tla

## 1. The system

```
 browser ── Next.js application ──────────── PostgreSQL
              routes = transactions    desired configuration,
              outbox.ts                runtime_commands, telemetry
                                             ▲
                        claim, read, settle, │ accounting
                                             │
                                       Runtime Agent ──► Xray (child process,
                                        (poll loop)        driven call by call)
                                             │ GET /health, POST /v1/config
                                             ▼
 VPN client ──► Xray ──SOCKS──► Traffic Gateway ──► Internet
                                (limiters, registry)

 Runtime Agent ── policy.json ──► Security Agent ──► nftables
                 (shared volume)     (status.json)
```

| Part | State it keeps | Operations | Meets others by |
|---|---|---|---|
| Web application, accounts and devices | `user`, `vpn_accesses`, `devices`, credentials | create/change account; register, change, revoke device | transactions at READ COMMITTED; one command per change |
| Command outbox | `runtime_commands`: pending, processing, succeeded, failed | enqueue, claim, complete | rows written by routes, claimed by the agent |
| Runtime Agent, poll loop | claimed batch, `applied_clients`, `applied_accesses`, two fingerprints | `claim_commands`, `load_model`, `reconcile_runtime`, `sync_runtime`, `enforce_limits`, `complete_commands` | queries; Xray's command line; HTTP to the gateway |
| Xray | users, rules, outbounds, balancers | `rmu`, `rmrules`, `ado`, `adrules`, `adu`, `rmo`; restart on a file | child process of the agent; may exit by itself |
| Traffic Gateway, connections | registry, a record per connection, two sockets each | `admit`, `setRemote`, `proxyCopy`, `Close`, `reapIdle` | goroutines, a mutex, sockets closed under another goroutine |
| Traffic Gateway, limiter | bucket, two queues, wake channel | `Wait`, `SetMbps`, `Stop`, `run` | mutex, channel of one, timer, contexts |
| Traffic Gateway, configuration | revision, a limiter per account | `ConfigStore.Apply`, `Authenticate`, `/health` | the agent's POST; connections keep the limiter they found |
| Gateway client in the agent | last fingerprint, `available`, failures and successes | `TrafficGatewayClient.reconcile` | HTTP with a limit of two seconds; the status the dashboard shows |
| Telemetry and quotas | `used_bytes`, samples | `collect_telemetry`, retention | counters that Xray resets on read; rows the routes lock too |
| Subscription endpoint | `hwid` binding, window of the rate limit | `GET /sub/[token]`, `consumeRateLimit` | conditional updates and upserts on rows |
| Network security | attempts, bans, policy file, nftables table | `recordSecurityEvent`, ban routes, Security Agent's loop | rows, a shared file, a status file |
| VPN diagnostics | a lock, a temporary user in Xray | `run_vpn_diagnostic` | HTTP from the web server, the same Xray API as the loop |
| First-run setup | owner, `setup_locked_at` | `POST /setup/bootstrap`, `bootstrap-owner.ts` | rows; a transaction of the authentication library |
| Authentication | users, roles, passwords, second factors, sessions | sign-in, changes of one's own password and second factor, suspension, password resets, better-auth's admin endpoints, redirects | better-auth (external) and the routes write the same tables |
| Console | form fields, URL, query caches, timers | account form, settings form, tables, dashboards, diagnostics card | requests whose answers come late; data from an earlier rendering |
| Texts, sizing, scripts | – | – | see `PROJECT.json`, components |

### What is hard about it

* **The agent's knowledge of Xray is a guess.** `applied_clients` says what
  Xray should be serving. A call can be lost, or take effect after it timed
  out; Xray can exit; the agent can be restarted. Every later diff starts from
  that guess.
* **A command is not the change.** The change commits with (or, for a new
  account, before) its command; the agent claims commands first and reads the
  configuration afterwards, in two queries. What an acknowledgement means
  depends on that order.
* **Locks that are let go early.** The registry closes its victims after
  releasing its mutex; `setRemote` and `Close` race for the dialed socket;
  `run` looks at the queues and goes back to `select` in two steps.
* **Statements computed from older reads.** The routes compute a status or a
  count from one query and write in another, under locks the other routes do
  not take.
* **Time.** Expiries that enqueue nothing, contexts that end while a request
  is granted, peers that stop reading, requests carried out after their sender
  gave up.
* **Pages are old.** A form sends back what it was rendered with; a search box
  fires after another page was asked for; an answer is cached after its page
  was left.

`PROJECT.json` lists each hazard at its line with the properties that cover it,
or why none does.

### What makes each part correct

* Outbox: a command is taken once, settled once, and reported succeeded only
  when a configuration that contains its change is live.
* Poll loop: a revoked device, once acknowledged, is never served again; no
  user is accepted without its rule and its account's outbound; after changes
  and failures end, Xray serves exactly what the database says.
* Accounts: no more active devices than the limit; a revoked device stays so.
* Gateway: bounded registry; whoever loses its place is closed; no socket or
  goroutine outlives its connection; a connection without traffic ends.
* Limiter: grants within the rate, no lost wakeup, nobody forgotten in a
  queue, every call returns.
* Gateway configuration: an open connection keeps its account's limiter as long
  as the account stays; no limiter and its goroutine are forgotten; "ready"
  means that the gateway has the configuration; it follows the database.
* Subscription: one hardware id per credential, nobody refused for the retry of
  the same client, limits that hold.
* Bans: the table in the kernel follows the database; a manual ban survives
  automatic ones.
* Setup: one call that begins on an empty instance makes it whole; later calls
  change nothing. Sessions: suspensions and new passwords end them; an owner
  remains.
* Console: what is saved was tested, what was not touched is not changed, what
  is shown adds up and does not go back. Diagnostics: the temporary user and the
  lock go away, and the page is told.

## 2. Modules

| Module | Contents |
|---|---|
| `CommandOutbox` | abstract: what `runtime_commands` promises |
| `RuntimeSync` | the poll loop, Xray and the changes of the configuration; refines `CommandOutbox` |
| `RuntimeSyncProofs` | its theorems |
| `TrafficGateway` | connections, registry and reaper |
| `GatewayConfig` | the agent's gateway client, `ConfigStore`, the limiters of open connections |
| `TrafficGatewayProofs` | the theorems of both |
| `FairLimiter` | the token bucket and its goroutine |
| `FairLimiterProofs` | its theorems |
| `DeviceAccess` | the transactions that meet at the rows of one account |
| `DeviceAccessProofs` | its theorems |
| `Subscription` | `GET /sub/[token]` and the rate limit |
| `SubscriptionProofs` | its theorems |
| `BanRecords` | rejected requests and administrators at the ban of one address |
| `Firewall` | from the bans in force to the kernel: policy file, Security Agent, table |
| `FirewallProofs` | its theorems |
| `Setup` | first-run setup: the route and the script |
| `Sessions` | calls that make a session, suspension, passwords, roles, redirects |
| `SecurityProofs` | the theorems of `BanRecords`, `Setup` and `Sessions` |
| `AccountForm` | the account form and the PATCH it sends |
| `SettingsForm` | the settings form and its route: REALITY target, token |
| `Listing` | searched and paged tables: audit log and bans |
| `LiveView` | dashboards that poll, and their cache |
| `Diagnostics` | the VPN diagnostic from the page to Xray |
| `ConsoleProofs` | the theorems of the five pages of the console |
| `MC*` | constants and symmetry for TLC; the parts of a run |

A definition that starts with the comment "Mutant of X" is a plausible mistake
in X. It is used by no specification; it is there to show that some property
notices when it takes X's place (`PROJECT.json`, mutants).

### RuntimeSync

The variables are in three groups. *PostgreSQL*: `db` is the desired
configuration as `load_model` would return it (settings, accesses, eligible
devices), `cmd` the status of the commands, `access` how far the creation of an
account has come (`POST /admin/accounts` is four transactions and a
compensation), `revokedBy` which change revoked a device. *Agent*: `phase`,
`batch`, `model`, `applied` (the attributes `applied_clients` and
`applied_accesses`), `fingerprint` and `staticPrint` (the models the two
fingerprints were computed from; equal models, equal fingerprints), `work` (the
rest of `reconcile_live_config`). *Xray*: `xray`.

`version` numbers the committed changes; the command enqueued with change `v`
is `cmd[v]`. `loadVersion` and `liveVersion` are history: the version when
`load_model`'s first query ran, and that of the model last made live.

One pass of `RuntimeAgent.run` is

    idle ─Claim→ claimed ─LoadAccesses→ loading ─LoadDevices→ loaded
      loaded ─SkipReconcile→ pushed           nothing changed, Xray runs
      loaded ─BeginLive→ live ─calls, FinishLive→ pushed
      loaded ─BeginSync→ sync ─StopXray→ stopped ─StartXray→ pushed
      live ─a call fails→ sync                 the fallback restart
      pushed ─EnforceLimits→ measured ; both ─CompleteCommands→ idle
      anywhere ─PassFails, RejectModel→ idle   the exception handler

Each `xray api` call is one action and has the three outcomes `run_xray_api`
can see: done and answered; failed (Xray is down, or printed another line);
or the answer is missing, with Xray having done it or not. `RunXrayApi` states
this once; the actions say which call may come next.

Choices a reader should know:

* settings and accesses are read in one step, devices in another: that is where
  a foreign key can dangle between the two queries (`Valid`). The settings row
  only decides between restart and live update.
* Any device that is not revoked may become eligible by `PatchAccess`: it
  stands for suspending, renewing, raising or lowering the limit, and for
  registering a device. It is assumed here that a revoked device stays revoked;
  `DeviceAccess` shows when the routes break that. `PATCH` of an account
  whose `POST` has not returned is not modelled.
* `changed_client_emails` is empty in the model: the uuid and the account of a
  device never change.
* The availability of the gateway and the blocked addresses are in the model
  `load_model` returns but not in what Xray is given: the first only sets the
  status that is reported (`GatewayConfig`; Xray's balancers observe the gateway
  themselves and fall back to a direct outbound), the second go to the policy
  file (`Firewall`).
* `RemoveOutbound` leaves the balancer, as the code does.
* Claiming with `for update skip locked` by one agent takes any `BatchLimit` of
  the pending commands: `created_at` is the start time of the enqueueing
  transaction, which says nothing about commit order.
* A restart of the container ends Xray, the agent's child. The commands of the
  pass stay `processing`, and nobody claims them again: `Converges` shows that
  their changes still reach Xray; `CommandsSettle` speaks of the time after the
  last restart.

### TrafficGateway

`pc[c]` is where the handler goroutine of connection `c` is, `copy[c][dir]`
where its two `proxyCopy` goroutines are; `client` and `remote` are the two
sockets, `attached` says whether `trackedConnection.remote` holds the dialed
one, `closing` how far `Close` (a `sync.Once`) has come. Actions end where the
code unlocks, blocks or hands over to another goroutine: `admit` is one step
under the mutex, the closing of its victim comes after (`victim`), likewise the
reaper's (`reaping`). `Dial`, `SetRemote`, `Establish` are separate steps, as
Close may come in between. `age` counts ticks without `touch`. The SOCKS
handshake is one choice (`Dismiss` or admission); the address filter is a failed
dial. `proxyCopy`'s waits in the limiters, at most `MAX_LIMITER_WAIT` each, are
inside `Write`.

### FairLimiter

`call[r]` is where `Wait` is, `granted` the closed channels, `high` and
`normal` the queues, `wake` the channel of capacity one, `loop` and `delay` the
goroutine and its timer. Time is ticks: `accrued` is what the time since
`updatedAt` is worth, and is credited where the code calls `replenishLocked`.
The delay is rounded up to ticks. `room` is history, for `RateRespected`: a bucket
of `Burst` bytes, the size of the largest bucket any of the rates has, that is
filled at every tick with what the rate in force is worth and emptied by what is
granted. That it never runs below zero says of every interval, not only of the one
since the start, that what is granted in it is at most one full bucket and what
the rates were worth: the limiter credits the time late, but once. A limiter at
rate 0 grants freely and starts the next rate with a full bucket, and `room` with
it. `LimiterAssumption` asks that no call
is larger than `MinimumCapacity`: `proxyCopy` asks for at most 8 KiB
(`gateway.go:25`), the bucket holds at least 64 KiB (`limiter.go:13`).

### DeviceAccess

One account, its devices, and the four transactions that touch their rows:
`POST /portal/devices` (begin, advisory lock, read the limit, count and insert,
commit or refuse), `DELETE /portal/devices/[deviceId]`,
`PATCH /admin/accounts/[userId]` (update the access, select the devices, update
them one at a time, commit), and the agent's `collect_telemetry` (rows of
devices in any order, then the row of the access). READ COMMITTED is modelled
directly: a SELECT reads committed values, an UPDATE waits for the row lock and
then writes the value the program has computed; a deadlock is resolved by
aborting either transaction.

The row of the user, which PATCH locks together with the access, is merged with
it. A device's age is the start of its transaction (`created_at` defaults to
`now()`), so `order` grows at `Post`. Suspended, expired and over-quota accounts
are all `RefuseDevice`. Nothing in the code writes the status `disabled`, which
the enumeration also has. The foreign-key checks of inserts take key-share
locks, which do not conflict with these updates. PATCH of a device is left
out: it does not write the status.

### BanRecords

One address and the requests from it that the routes reject. `pc[r]` is where
the handler is between the statements of `recordSecurityEvent`, each of which
commits by itself: insert the event, look for a ban in force, count the recent
events, upsert the automatic ban. `recent` are the events of the last five
minutes, `ban` the address's row. `PATCH` of a ban selects it and updates it in
two steps; `POST` is one upsert. Expiry, the window and the cleanup may come at
any moment: how long a handler takes is not bounded. A statement may fail, after
which the handler returns. `source`, counts of occurrences and audit rows are
left out.

### Firewall

`banned` stands for the rows `BanRecords` speaks of, for several addresses:
`ChangeBans` is any change of them, expiry included. `pc` is where the Security
Agent's loop is; it goes

    load ─LoadPolicy→ check ─Check→ apply ─AskTable→ nft ─ApplyPolicy→ ready ─ReportReady→ load
                        └─ same digest and a table ─────────────────→ ready
    nft ─ApplyFails→ degraded, ready ─ReportFails→ degraded ─ReportDegraded→ load
    degraded ─RunFails→ exit, load ─Terminate→ exit ─RemovePolicy, RemovalFails→ down ─Start→ load

The digest of a file stands for its contents. nft runs a batch as one
transaction, which fails when it deletes a table that is not there. `stray` is
history: a table that outlived its agent. The ports in the policy, and the age
at which `healthcheck` stops believing the status file, are left out; that
`nft list` answers truthfully is assumed.

### GatewayConfig

`pass` is where `reconcile` is: asking for the health, posting, waiting for the
answer, with the `model` of that pass of the poll loop. `agent` holds the
attributes of `TrafficGatewayClient`. A POST is a record of its own (`post[p]`):
it is sent, applied (to the end of the store's lock), has its retired limiters
stopped, and is answered; when the agent has given it up, or was restarted, the
gateway still carries it out, maybe after the next one. A limiter is the number
of those made for the account so far; `held` is the one the store has, `flow[f]`
what an open connection took from it in `Authenticate`. A revision is a digest
and stands for the contents. A restart of the gateway loses everything it has.
The two directions of a connection use one limiter, so there is one per account.

An `Apply` that fails its validation is left out: `payload` cannot produce one.
A connection of an account that was removed keeps a stopped limiter and is
outside `FlowsAreLimited`: the code lets it live, and it stays without limit
even if the account comes back.

### Subscription

`phase[r]` is how far request `r` has come through the statements of the
handler; `seen[r]` is the row its SELECT returned. A request that passes the
ban and the two limits is judged by the row it read, and bound to its hardware
id by a conditional update; the one that loses that race reads again and is
served if the winner was the same client. `Change` is whatever administrators,
users and time do to the rows in between. `consumeRateLimit` is one upsert; its
window may end at any moment. The text of the configuration is left out, and
whether a rejected request is followed by a ban is a free choice here.

### Setup and Sessions

`Setup`: a call of the route reads the lock and the owner with two queries in
either order, creates the owner through better-auth's own transaction, then locks
the instance and queues `FINALIZE_SETUP` and `UPDATE_DUCKDNS` in another;
anything may fail in between. The script checks nothing but the owner, and writes
in statements of their own. Two calls that overlap may both create an owner:
`LateSetupRefused`, a part of `SetupHolds`, is the promise that remains.

`Sessions`: a sign-in verifies the password, then reads whether its user is
suspended (`CheckBanned`, better-auth's hook before every session it makes), then
inserts its session; with a second factor there is a challenge of five minutes in
between, after which the suspension is read again. A change of one's own password
is the same kind of call: the current password is verified, the new one stored,
all sessions are deleted, the hook reads the suspension and a session is inserted,
each in a statement of its own. The session bears the password this call set: where
an administrator's reset came in between, it is one of a replaced password. Turning
the second factor on or off makes a session in place of the current one by the
same two statements. `PATCH` and the reset of a password delete the sessions in
their transaction, by the role of the account as it was read before it (`users`).
The script replaces and deletes in two statements, and makes no session.

`/api/auth/[...all]` hands every request to better-auth (`route.ts:13`), and
`server.ts:47` switches off four of its paths. Its admin endpoints are served,
although no page calls them, and ask for the permissions of `permissions.ts`
alone: `ban` is also an administrator's, whoever the account belongs to,
`set-password` and `set-role` are the owner's. The actions `Endpoint...` are these,
external: `admin/ban-user` suspends in one statement and deletes the sessions in
another (`banning`), `admin/unban-user`, `admin/set-user-password`, which leaves the
sessions (`renewing`), and `admin/set-role`. What `admin/update-user` may write to
the column of a suspension is the first statement of `EndpointBans` without the
second; what `admin/remove-user` takes from the owners is `EndpointSetsRole`. An
administrator can thus suspend an owner there, which the application's own routes
refuse. `OwnerRemains` claims what is left: with the application's routes, and with
`admin/ban-user` between owners, an owner who is not suspended remains.

`met`, `stale`, `crossed` and `mounted` are history: they note that a suspension or
a new password came while something was under way, or that one of these endpoints
was used on the owners, which is what the properties except. `Redirect` is where a
page sends a visitor.

### AccountForm, SettingsForm

`AccountForm`: a tab holds the days and the status (`days`, `off`) as they were
rendered or entered; saving sends all fields. Days are rounded up when the page is
rendered, and turned into a date when the route runs (`ComputeEnd`), two ticks
of the clock to a day. `own`, `lifts` and `off` are history of what the
administrator entered. An account that has ended is shown as one day from its
end: saving the form without touching it revives it for a day. That is what
`UntouchedEndHolds` bounds, and the source says no more.

`SettingsForm`: the form's test runs for the pair of fields it was started
with; `badge` is the pair whose result is kept, shown only while the fields
hold it. The route reads the stored pair, tests if it differs, and then writes
in a transaction whose upsert locks the row; the token is rotated under the same
lock. `checked` is history.

### Listing, LiveView, Diagnostics

`Listing`: `shown` is the page on the screen, `going` the URL that is loading,
`timers` the searches that wait 300 ms with the URL of when they were typed. A
page that shows another search mounts the search box anew (its `key`), and does not
cancel the old one's timer. The server counts, clamps the page, and selects.
The log is a sequence of the numbers of its rows, newest first; what a search finds is
the set of their positions (`Matching`), a page the rows whose `Place` among those lies
within limit and offset. `With`, `Without` and `ToFront` are what an insertion, a
deletion and a change make of the log.
`walk` is history of turning pages of the audit log, whose rows keep their order;
rows of the bans table move to the top when they are touched, so a walk may miss
one there, and `WalkSkipsNothing` is not claimed of it.

`LiveView`: `cached` is the query's data, `fetches` two slots a browser could use
if requests were not kept apart, `render` the server's rendering. `LiveViewFairness`
is that of the server and of the page's timer; `Leave`, `Hide`, `OpenPage` and
the failures are not fair and are bounded. A page that is opened again first
shows the cached data rather than its own, newer data: react-query's
`initialData` is for a query without data.

`Diagnostics`: `probe[d]` is the thread of the agent's health server, `waiting`
the page and the web server's request, which give up after 35 seconds while the
thread goes on. A call to Xray can fail, or take effect unanswered; Xray and the
agent can restart at any moment. `botched` is history.

### Parts of a run

`MCTrafficGateway`, `MCSecurity` and `MCConsole` put several components into one
run. The components share no variable either reads, so a behaviour is one
component's: `part` says which, the variables of the others keep their initial
values. Interleaving them would multiply the states and show nothing. A property
of a part that is not running holds of its initial state. `Sessions` is two parts of
its run, "calls" and "requests", by what of it overlaps.

## 3. What TLC checks

| Run | Specification, bounds | Shows |
|---|---|---|
| `safety` | 2 accounts with a device each, batches of 1, 4 changes, 2 faults (1 per pass), 1 exit, 1 restart | `RevokedNotServed`, `UsersHaveRules`, `AgentKnowsXray`, `UsersAreRouted`, `ImplementsOutbox` (refinement) |
| `progress` | `FairSpec`, 1 account and device, batches of 1, 4 changes, 1 fault, 1 exit, 1 restart | `CommandsSettle`, `Converges` |
| `doublefault` | 1 account, 2 devices, batches of 2, 2 faults in one pass | **violates** `RevokedNotServed` |
| `connections` | `GatewaySpec`. Connections: 2 for 1 place, idle after 1 tick, reaped after 2. Limits: 1 account with 2 limits or absent, 1 connection, 2 requests at once, 3 changes, 2 faults or restarts | `OutsideIsClosing`, `NothingLeaks`, `ConnectionsEnd`; `LimitersHold`, `ReadyIsConfigured`, `LimitsFollow` |
| `waits` | `FairSpec`, 3 calls (1 with priority) of 5 bytes, rates 0, 1 and 2 a tick, a bucket of 2, 1 change, Stop, 1 context that may end | `RateRespected`, `QueuesHold`, `CallsReturn` |
| `requests` | `FairSpec`, 2 devices, 2 PATCHes, limits 1 and 2, 1 telemetry transaction | `LimitHolds`, `RequestsEnd` |
| `overlap` | 2 devices, 1 PATCH | **violates** `ActiveWithinLimit` |
| `revival` | 2 devices, 1 PATCH | **violates** `RevokedForGood` |
| `follows` | `FairSpec`, 2 addresses, 3 changes, 3 failures, 2 flushes, kills or restarts | `HealthyIsEnforced`, `FirewallFollows` |
| `access` | Bans: 3 requests, threshold 2, 3 decisions, 1 failed statement. Setup: 2 calls, 2 names, 1 run of the script. Sessions: 2 owners, an administrator, a user, 1 call that makes a session (or run of the script) and 2 requests, or 2 calls and 1 request with an owner and the user alone, 2 suspensions, activations, new passwords, roles or second factors | `ThresholdBans`, `DecisionStands`; `SetupHolds`; `SuspendedHasNoSession`, `OldPasswordEnds`, `OwnerRemains`, `RedirectsEnd` |
| `subscription` | 3 requests, 1 credential, 2 hardware ids, limits of 2, 1 change | `OneDeviceServed`, `RefusalIsRight`, `RateHolds` |
| `pages` | Account form: 2 tabs, 2 ticks to a day, 3 ticks, 2 saves. Settings: 2 editors, 2 targets and names, 1 edit each. Tables: 3 rows, pages of 1 and 2, 3 clicks. Dashboards: 2 devices, 2 changes, 2 failures. Diagnostics: 2, with 3 faults or restarts | `UntouchedEndHolds`, `LiftedKnowingly`; `SettingsHold`; `ListingHolds`, `SettledShowsAsked`; `ViewAddsUp`, `ViewMovesOn`, `ViewSettles`; `LeftoverExplained`, `DiagnosticsEnd` |

Several of these are conjunctions of what belongs together, each conjunct with a
name and a comment of its own in its module, together with the module's type
invariant: `LimitersHold` is `FlowsAreLimited` and `NoLimiterLeaks`; `QueuesHold`
is `NoLostWakeup` and `WaitersAreQueued`; `LimitHolds` is `LimitWithoutRace` and
`RegistrationsTakeTurns`; `SetupHolds` is `LateSetupRefused`, `LockIsComplete` and
`OpenOnlyHalfway`; `SettingsHold` is `TargetWasChecked`, `ShownCheckWasMade` and
`OneCurrentToken`; `ListingHolds` is `EmptyOnlyIfNone` and `WalkSkipsNothing`. The
type invariants of the other modules, and `AckedIsApplied` (which `ImplementsOutbox`
says as well), `CapacityRespected`, `ClosedHasNoRemote` and `BindingStands`, are
proved (section 4) and not run again.

### Why these bounds

*RuntimeSync.* A revocation needs the account, a device and the revocation:
three changes, and a fourth to overtake them or to come between two queries. Two
devices tell "removes this one" from "removes all"; two accounts with batches of
one are needed for a command left over from a claim and for a device whose
account was undone between two queries. Two faults in successive passes are what it takes to
fail a call and then the pass after it; both in one pass are the subject of
`doublefault`. That `UsersHaveRules` holds for any number of faults is proved.
Every disjunct of `Next` fires in one run
or another.

*TrafficGateway.* With two connections for one place, one is displaced by the
other while its own handler dials, relays or closes and the reaper may hold it
in its list of victims; that more connections add nothing is what the proofs
of section 4 say. *FairLimiter.* Three calls suffice for one ahead of another in the same
class and one that jumps the queue; the bucket of 2 bytes is smaller than the sum
of the calls, so the timer is needed and most of what is granted is what time was
worth, at either rate and after a change from one to the other; nothing bounds the
time, and `room` is never given up. *DeviceAccess.* Two devices and
limits 1 and 2 let a registration be refused, a device be blocked or revoked,
and two PATCHes follow or wait for each other, with telemetry in between.
*GatewayConfig.* Two requests are what it takes for one that was given up to be
applied after its successor; three changes let an account come, change or go,
and come back, with two failures or restarts on the way. Accounts do not meet in
`Apply`, and the proofs are for any number of them. *BanRecords.* Two handlers can
both count too few or both ban, and a third request meets what they did.
*Firewall.* Three failures let nft fail, the status file fail twice in a row
(which ends the agent) or the removal fail on the way out. *Subscription.* Two
clients race for a binding and a third request is the retry of either; limits of
two are exceeded by three. *Setup.* Two calls overlap each other and the script.
*Sessions.* A change of one's own password takes one act, a reset or a suspension
that overlaps it the other; the second call is a sign-in, a run of the script or
another change. With two requests, two owners can suspend each other by requests that
cross, and an administrator an owner by the endpoint. Two calls and two requests at
once would be more states than a run can visit; `Callers` and `Bounded` in
`MCSecurity` are these bounds. *Pages.* Two tabs or editors overlap; an account form is older than a
day; three clicks are a search, another before its timer fires, and a turn of the
page; one telemetry transaction between two statements and one after them; two
diagnostics compete for the lock and the second meets what the first left.

Where the system may really stop (every bound used up) there is either a
stuttering step such as `Done` in `DeviceAccess` or a component that always has
a step: the poll loop polls, ticks go on. Deadlock is checked in all runs but
`access`, `subscription` and `pages`: there nothing is left to do when every
request has been answered, every sign-in is over, or the administrator has
clicked as often as the bound allows.

### Fairness

* `RuntimeSync`: weak fairness of `AgentStep` alone. The poll loop is one
  thread that calls with time limits, catches every exception, waits at most
  `POLL_SECONDS` and goes on. Nothing is assumed of the web application, and
  failures, exits and restarts are bounded by constants, not by fairness.
* `TrafficGateway`: weak fairness of what a goroutine does by itself once it is
  ready (`Handle`, `CloseStep`, `CopyUnblocked`): Go's scheduler, with the
  deadlines of 15 seconds on the handshake and on dialing and of 30 seconds on
  a half-closed connection; of `Tick` and of `ReapIdle`, a ticker. Peers get
  none: they may stop reading, writing and closing for ever.
* `GatewayConfig`: weak fairness of a step of `reconcile`, which the poll loop
  calls in every pass and whose requests have a time limit; of `GatewayStarts`,
  Docker's `restart: unless-stopped`; and of the gateway's HTTP server for each
  request it has. None for connections, changes, failures or restarts.
* `FairLimiter`: weak fairness of `run`, of time, of callers that have something
  to return with, and of the second half of `SetMbps`. None for contexts: a call
  must return without one.
* `DeviceAccess`: weak fairness of a transaction's next statement. PostgreSQL
  hands a row lock on when it is released and detects deadlocks. Nobody is
  obliged to make a request.
* `Firewall`: weak fairness of the Runtime Agent's pass and of the Security
  Agent's loop, each one thread with a timer; `Start` is Docker's
  `restart: unless-stopped`, or the administrator who stopped the container.
  Failures, flushes and kills are bounded by constants.
* `LiveView`: weak fairness of the server's two statements, of the answer, of
  the rendering and of the interval while the page is in view. Failures and
  leaving the page are bounded by a constant.
* `Diagnostics`: weak fairness of the thread, all of whose calls have time
  limits, of the poll loop that starts Xray again, and of the web server's own
  time limit. Nobody is obliged to ask.

### Where the code does something else than its documentation says

1. **`doublefault`** (`runtime.py:1253`). A live call fails and so does the
   fallback restart of the same pass. Nothing was recorded, Xray goes on. If
   the lost answer was that of adding a user, that user is in Xray and in no
   snapshot: when its device is revoked later, the diff is empty, nothing is
   removed, and the command succeeds. The user guide says of a revoked device
   that its "VPN identity" stops being accepted. With at most one failure per
   pass the property holds, and is proved.
2. **`revival`** (`admin/accounts/[userId]/route.ts:99`). PATCH writes statuses
   computed from an earlier SELECT with no condition on the current one: a
   DELETE that commits in between is overwritten, and the revoked device is
   eligible again. It may have been counted out meanwhile: a registration takes the
   place of the revoked device, the PATCH brings the device back, and more devices
   are registered than any limit there was. Three devices show it, two do not; the
   attempt to prove it without the exception did. `RegistrationsTakeTurns` excepts
   it (`revived`); `OnlyPatchRevives` proves that there is no other way.
3. **`overlap`** (`portal/devices/route.ts:59`). The advisory lock of
   registrations is not taken by PATCH, so lowering the limit while a device is
   being registered leaves one active device too many. Without that overlap the
   limit holds (`LimitWithoutRace`, in `LimitHolds`), which is proved for any number
   of devices and PATCHes.

Some behaviours the models show are nobody's broken promise, and worth knowing:
an account that has ended is revived for a day when its form is saved unchanged
(`account-settings-form.tsx`, `format.ts:60`); a dashboard that is opened again
first shows older cached data; turning the pages of the bans may miss a row that
was touched meanwhile; a page size is lost when a search was typed before it was
chosen; a connection of an account that is removed stays open, and unlimited, even
when the account comes back (`config.go:115`); a user of a diagnostic whose
removal failed stays accepted until Xray restarts (`runtime.py:1924`).

## 4. What is proved

`tlapm` checks every proof to the last leaf, for every value of the constants
that satisfies the module's named assumption.

| Theorem | Statement | Inductive invariant |
|---|---|---|
| `TypeCorrect` | `Spec => []TypeOK` of RuntimeSync | `TypeOK` |
| `AcknowledgedIsApplied` | `Spec => []AckedIsApplied` | `BatchInv` |
| `ServedUsersHaveRules` | `Spec => []UsersHaveRules` | `RulesInv` |
| `ServedUsersAreRouted` | `Spec => []UsersAreRouted` | `RulesInv`, `AccountsInv`, `RoutedInv` |
| `SnapshotsMatchXray` | `[]AgentKnowsXray`, if `FaultsPerPass <= 1` | `KnowsInv` |
| `RevocationHolds` | `[]RevokedNotServed`, if `FaultsPerPass <= 1` | `KnowsInv`, `RevokedInv`, `BatchInv` |
| `LoopImplementsOutbox` | `Spec => ImplementsOutbox` | `BatchInv` |
| `GatewayTypeCorrect` | `Spec => []TypeOK` of TrafficGateway | `TypeOK` |
| `CapacityHolds` | `Spec => []CapacityRespected` | `GatewayInv` |
| `CloseReachesRemote` | `Spec => []ClosedHasNoRemote` | `GatewayInv` |
| `HandlersLeaveNothing` | `Spec => []NothingLeaks` | `GatewayInv` |
| `DisplacedAreClosed` | `Spec => []OutsideIsClosing` | `GatewayInv` |
| `RateHolds` | `Spec => []RateRespected` of FairLimiter | `RoomInv` |
| `NobodyIsForgotten` | `Spec => []QueuesHold` | `QueuesInv` |
| `PriorityFirst` | no step of FairLimiter grants a call without priority before one with it | `QueuesInv` |
| `LimitIsKept` | `Spec => []LimitHolds` of DeviceAccess | `AccessInv` |
| `OnlyPatchRevives` | in DeviceAccess a revoked device changes its status only at the commit of a PATCH that holds its row, and `revived` records it | `AccessInv` |
| `FirewallTypeCorrect` | `Spec => []TypeOK` of Firewall | `FirewallInv` |
| `HealthyAgentEnforces` | `Spec => []HealthyIsEnforced` | `FirewallInv` |
| `BanTypeCorrect` | `Spec => []TypeOK` of BanRecords | `BanInv` |
| `ThresholdIsMet` | `Spec => []ThresholdBans` | `BanInv` |
| `DecisionsStand` | `Spec => []DecisionStands` | `BanInv` |
| `ConfigTypeCorrect` | `GatewayConfigSpec => []GatewayConfigTypeOK` | `LimiterInv` |
| `KeepsLimiters` | `GatewayConfigSpec => []LimitersHold` | `LimiterInv` |
| `ReadyMeansConfigured` | `GatewayConfigSpec => []ReadyIsConfigured` | `ReadyInv` |
| `TypeCorrect` | `Spec => []TypeOK` of Subscription | `BindingInv` |
| `ServesOneDevice` | `Spec => []OneDeviceServed` | `BindingInv` |
| `RefusesRightly` | `Spec => []RefusalIsRight` | `BindingInv` |
| `BindsOnce` | `Spec => BindingStands` | `BindingInv` |
| `KeepsRates` | `Spec => []RateHolds` | `RateInv` |
| `SetupTypeCorrect` | `SetupSpec => []SetupTypeOK` | `SetupInv` |
| `SetsUpOnce` | `SetupSpec => []SetupHolds` | `SetupInv` |
| `SessionsTypeCorrect` | `SessionsSpec => []SessionsTypeOK` | `SessionsInv` |
| `EndsSuspended` | `SessionsSpec => []SuspendedHasNoSession` | `SessionsInv` |
| `EndsOldPasswords` | `SessionsSpec => []OldPasswordEnds` | `SessionsInv` |
| `KeepsAnOwner` | `SessionsSpec => []OwnerRemains` | `SessionsInv` |
| `EndsRedirects` | `SessionsSpec => []RedirectsEnd` | none: a case for each page |
| `SettingsTypeCorrect` | `SettingsFormSpec => []SettingsFormTypeOK` | `SettingsFormInv` |
| `KeepsSettings` | `SettingsFormSpec => []SettingsHold` | `SettingsFormInv` |
| `DiagnosticsTypeCorrect` | `DiagnosticsSpec => []DiagnosticsTypeOK` | `DiagnosticsTypeOK` |
| `LeavesExplained` | `DiagnosticsSpec => []LeftoverExplained` | with `DiagnosticsTypeOK` |
| `AccountFormTypeCorrect` | `AccountFormSpec => []AccountFormTypeOK` | `AccountFormInv` |
| `LiftsKnowingly` | `AccountFormSpec => LiftedKnowingly` | `AccountFormInv` |
| `UntouchedKeepsItsEnd` | `AccountFormSpec => UntouchedEndHolds` | `EndsInv`, `AccountFormInv` |
| `AddsUpAlways` | `LiveViewSpec => []ViewAddsUp` | `LiveViewInv` |
| `MovesOn` | `LiveViewSpec => ViewMovesOn` | `LiveViewInv` |
| `ShownIsAsked` | `ListingSpec => []SettledShowsAsked` | `ListingInv` |
| `PagesHold` | `ListingSpec => []ListingHolds` | `ListingInv` |

The arguments:

* `BatchInv` puts the versions in the order of a pass. When the batch is
  claimed all its commands are at most `version`; `load_model` runs later, so
  at most `loadVersion`; when the model is live, at most `liveVersion`. An
  acknowledgement needs the last of these. The refinement maps `liveVersion` to
  the outbox's `live`; the steps that make a model live are `MakeLive`, those
  that end a pass are `Settle`, changes are `Change`, the rest stutters.
* `RulesInv` says what the call in progress is in the middle of: a user whose
  rule is about to go is already out, a user about to come in has its rule. It
  does not mention `applied`, which is why it survives any number of failures.
* `AccountsInv` ties the accounts Xray may have to how far their creation has come:
  what a model or a snapshot names was committed at some time, and what a pass drops
  from the snapshot is deleted for good, because an account is not created twice.
  `RoutedInv` then says what stands in the way of a user without a route: a live
  reconciliation adds accounts before users, and removes an account after its users
  are out. Like `RulesInv` it needs no bound on the failures: whatever a failed call
  did, it took no route that a user needs.
* `KnowsInv` describes Xray exactly between passes (`Settled`) and as a function
  of the remaining `work` during a live reconciliation (`HalfDone`). In the
  fallback after a failed call only an upper bound on the users is known. The
  pass has then had its one failure, so the restart comes next, and after that
  Xray is `Settled` again. This is the step that fails in `doublefault`.
* `RevokedInv` adds that a model read after the revocation, and snapshots
  taken from it, do not hold the device. With `BatchInv`, a succeeded
  revocation is at most `liveVersion`, so the device is not in `applied`;
  `KnowsInv` takes it from there to Xray.
* `GatewayInv` says who may be in the registry and, per connection, where the
  two sockets can be and who has seen them (`SocketInv`).
* `RoomInv`: what the bucket holds once the time that passed is credited fits in
  `room`. Every credit then leaves it so, because it comes with `accrued` set to 0.
* `QueuesInv`: a request is in the queue of its class once, and not before its call
  of `Wait`. Without "once" a grant would take one of two entries and the call would
  be granted and queued; `WaitersAreQueued` alone is not inductive. `PriorityFirst`
  follows from where the entries are.
* `AccessInv` has four parts besides the types. Who holds a lock is in the statement
  that took it (`Locks`); an uncommitted status belongs to the holder of the row's
  lock, and what a PATCH has planned but not written is what it has still to write
  (`Rows`). Without a race, what is committed and what a transaction is about to
  commit fit the limit it read or sets (`Fits`): a PATCH plans "active" for the first
  so many by age, and no registration comes in between. Behind the advisory lock one
  registration counts at a time (`Turns`).

* `FirewallInv`: from the first policy an agent has applied, the table is gone or
  current (`TableIsCurrent`); nothing is reported before (`OrderlyLoop`); and an
  agent that ends in order takes its table with it.
* `BanInv`: as long as enough recent events are unanswered some handler is on its
  way to count them (`CountersRemain`), and it counts what all others have
  inserted before; while a decision stands no handler is past `activeIpBan`
  (`NobodyMissedTheBan`).

* `LimiterInv`: an account's limiter is the last one made for it, and whatever is
  stopped, or on its way to be, was made earlier, hence is not held. Without
  the numbers it would not be inductive: a late `Apply` could be given a limiter
  that an overtaken one is about to stop.
* `ReadyInv`: what the agent waits for is a POST of its own model, and once that
  is applied, and nothing disturbed, its model is the revision. A POST that was
  given up may be applied at any time; that is `disturbed`.
* `BindingInv` says by phase what a request still knows of a row others write: a
  binding it has seen stands, because the only step that writes one asks that
  there is none. `RateInv` counts: who passed is among those counted.
* `SetupInv`: a late call finds the owner, because owners are never deleted.
* `SessionsInv`: what a call that makes a session has missed is noted where it
  happens (`CallsNoted`), so that the session it makes later carries the note. For
  a request (`RequestsNoted`) that is a suspension of its actor, and, as long as no
  endpoint changed the owners, its actor's role and the roles it may have read are
  what they were. The note of the request that suspends the last owner is what
  `crossed` collects.
* `SettingsFormInv`: a request past its test holds a tested pair, the row lock is
  held by the one that writes, and what it retires is what is current.
* `AccountFormInv`: a form that would lift a suspension was told of it, was
  rendered before it, or had "active" picked.
* `EndsInv`: the days of a form nobody edited, counted from when it was rendered,
  reach the account's end and at most a day beyond (rounding up), as long as nobody
  else has saved; the date a request computes is that many days from its own time,
  which is later. The difference of the two times is what a save gives away.
* `LiveViewInv`: telemetry updates devices and account in one transaction and usage
  only grows, so an account read first never exceeds devices read later (`AddsUp`);
  and the one request under way reads later than what is shown was read (`Follows`).
  That there is only one (`OneFetch`) is what `PollAgain`, its mutant, breaks.
* `ListingInv` has three parts besides the types. A search and a size are in the box
  and its timer, in the URL that loads, or shown (`SettledInv`). A row is in the table
  once, and what was counted is still there unless rows were deleted (`RowsInv`), so
  the last page of the count has a row. Rows of the audit log only move down
  (`WalkInv`): an insertion maps positions to positions without changing their order,
  so a row's `Place` never shrinks, and whatever now precedes the end of the page did so
  when it was shown.

Each inductive invariant was first checked by TLC, as an invariant of its module's
specification on instances such as those of section 3.

The provers know no induction over data, so what is counted is written without
recursion: a sum over devices is the cardinality of a set of pairs (`Total`), the
place of a row that of a set of positions (`Place`), and the queue without the
canceled calls a recursive function whose entries are described position by position
(`RemoveCanceled`). Where a proof needs "the least number such that", it takes it
from the well-foundedness of finite sets (`LeastOf`); where it needs that a set is
no larger than another, from an injection (`PlaceGrows`, `TotalGrows`).

Only model-checked: the nine liveness properties (`CommandsSettle`, `Converges`,
`ConnectionsEnd`, `LimitsFollow`, `CallsReturn`, `RequestsEnd`, `FirewallFollows`,
`ViewSettles`, `DiagnosticsEnd`), since fairness needs ENABLED, which is beyond the
prover. Every invariant and every action property of the passing runs is proved.

## 5. Not modelled

* `proxyCopy` with both limiters, its one-second deadline (`gateway.go:399`) and
  the starvation of calls without priority by a steady stream of those with it
  (`limiter.go:148`): the first is accepted by the code, the second is its
  design.
* Telemetry's arithmetic: the counters Xray resets when they are read, so that a
  failure before the commit loses bytes (`runtime.py:1350`); samples and
  rollups; that usage is summed over devices that are not revoked
  (`runtime.py:1500`), which `LiveView` has but nothing in the repository
  promises anything about.
* The signal handler of the agent (`runtime.py:418`): the container ends with it,
  and the restart is in `RuntimeSync`.
* Host sizing: arithmetic on the size of the host, computed once at start.
* The SOCKS protocol, the address filter, metrics, the ports in the policy, Caddy
  and DuckDNS: pure input and output, or counters nobody acts on.
* better-auth, react-query, the router of Next.js, nft, Docker and PostgreSQL are
  external: modelled from how this code configures and uses them. What
  better-auth does for itself (hashes, cookies, codes, its own rate limit, the
  expiry of sessions as such: one may end at any time) is left out, and of its
  admin endpoints those that create users and list or revoke sessions.
* Texts and translations (`i18n/messages.ts` is a dictionary), layout, navigation,
  charts, the connection card, the choice of a language, and forms that send what
  was typed and keep nothing (new accounts, new devices): no state that outlives
  a keystroke, or none at all.
* PATCH of a device (name, platform, profile) and the creation of administrator
  accounts: single transactions that touch nothing else the models speak of.
* The documentation site and the installation scripts: no state of the system,
  or the host's.
