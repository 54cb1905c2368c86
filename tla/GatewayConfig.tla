---------------------------- MODULE GatewayConfig ----------------------------
(***************************************************************************)
(* How limits reach the Traffic Gateway, and the connections they limit.   *)
(* In every pass the Runtime Agent asks the gateway for its health and the *)
(* revision of its configuration, and posts the one it has read from the   *)
(* database when either side does not have it. A request the agent has     *)
(* given up may still be carried out, also after a newer one. The gateway  *)
(* keeps a limiter for each account, for both directions; a connection     *)
(* takes its account's when it authenticates, and keeps it.                *)
(***************************************************************************)
EXTENDS Naturals

CONSTANTS
  Customers,         \* accounts
  Limits,            \* values of speed_limit_mbps
  Absent,            \* no such account
  NoConfig,          \* no configuration: the empty revision
  Flows,             \* connections to the gateway
  Posts,             \* requests the gateway may be serving at once
  MaxModels,         \* bound: changes of the accounts
  MaxGatewayFaults   \* bound: failed requests, restarts of the gateway and agent

\* The revision of a configuration is its digest: it stands for the contents.
Configs == [Customers -> Limits \cup {Absent}]

ASSUME GatewayConfigAssumption ==
  /\ NoConfig \notin Configs /\ Absent \notin Limits
  /\ Customers # {} /\ Posts # {}
  /\ MaxModels \in Nat /\ MaxGatewayFaults \in Nat

VARIABLES
  desired,     \* what load_model returns
  pass,        \* where reconcile is, with the model it was called with
  agent,      \* TrafficGatewayClient: its attributes
  up,          \* the gateway runs
  revision,    \* ConfigStore.revision
  held,        \* ConfigStore.accounts: the limiter of each, 0 for none
  made,        \* how many limiters each account has had
  stopped,     \* limiters that were stopped
  post,        \* POST /v1/config, as the gateway serves it
  flow,        \* each connection: its account and limiter, 0 if it is closed
  models, gatewayFaults,
  disturbed    \* history: since the agent last read the health, the gateway was
               \* restarted, or carried out a request that was given up

storeVars  == <<up, revision, held, made, stopped>>
configVars == <<desired, pass, agent, storeVars, post, flow, models,
                gatewayFaults, disturbed>>
bounds     == <<models, gatewayFaults>>

Limiters == Customers \X (Nat \ {0})
Passes   == [at : {"idle", "asking", "posting", "waiting"}, model : Configs,
             with : Posts]
Clients  == [print : Configs \cup {NoConfig}, available : BOOLEAN,
             failed : BOOLEAN, successes : 0..3]  \* counted up to the 3 it takes
PostRecs == [at : {"none", "sent", "stopping", "answered"}, config : Configs,
             retired : SUBSET Limiters]
\* removed: history, the account was removed after the connection was accepted.
FlowRecs == [who : Customers, limiter : Nat, removed : BOOLEAN]

GatewayConfigTypeOK ==
  /\ desired \in Configs /\ pass \in Passes /\ agent \in Clients
  /\ up \in BOOLEAN /\ revision \in Configs \cup {NoConfig}
  /\ held \in [Customers -> Nat] /\ made \in [Customers -> Nat]
  /\ stopped \in SUBSET Limiters /\ post \in [Posts -> PostRecs]
  /\ flow \in [Flows -> FlowRecs]
  /\ models \in 0..MaxModels /\ gatewayFaults \in 0..MaxGatewayFaults
  /\ disturbed \in BOOLEAN
  /\ \A f \in Flows : flow[f].limiter \in 0..made[flow[f].who]

Nothing    == [a \in Customers |-> Absent]
NewClient  == [print |-> NoConfig, available |-> FALSE, failed |-> FALSE, successes |-> 0]
NoPost     == [at |-> "none", config |-> Nothing, retired |-> {}]
NoFlow     == [who |-> CHOOSE a \in Customers : TRUE, limiter |-> 0, removed |-> FALSE]
AnyPost    == CHOOSE p \in Posts : TRUE

GatewayConfigInit ==
  /\ desired = Nothing /\ agent = NewClient
  /\ pass = [at |-> "idle", model |-> Nothing, with |-> AnyPost]
  /\ up = TRUE /\ revision = NoConfig /\ stopped = {} /\ disturbed = FALSE
  /\ held = [a \in Customers |-> 0] /\ made = [a \in Customers |-> 0]
  /\ post = [p \in Posts |-> NoPost]
  /\ flow = [f \in Flows |-> NoFlow]
  /\ models = 0 /\ gatewayFaults = 0

ChangeModel ==
  /\ models < MaxModels /\ models' = models + 1
  /\ \E c \in Configs \ {desired} : desired' = c
  /\ UNCHANGED <<pass, agent, storeVars, post, flow, gatewayFaults, disturbed>>

-----------------------------------------------------------------------------
(* The agent: TrafficGatewayClient.reconcile.                              *)

BeginReconcile ==
  /\ pass.at = "idle" /\ pass' = [pass EXCEPT !.at = "asking", !.model = desired]
  /\ UNCHANGED <<desired, agent, storeVars, post, flow, bounds, disturbed>>

EndPass == pass' = [pass EXCEPT !.at = "idle", !.with = AnyPost]

\* Mutant of Succeed: after a failure the bypass never ends.
SucceedOnce(c) ==
  LET n == IF c.successes < 3 THEN c.successes + 1 ELSE 3 IN
  agent' = [c EXCEPT !.successes = n, !.available = @ \/ ~c.failed]

\* The end of a pass without an error, with the agent c as it is then.
Succeed(c) ==
  LET n == IF c.successes < 3 THEN c.successes + 1 ELSE 3 IN
  agent' = [c EXCEPT !.successes = n, !.available = @ \/ ~c.failed \/ n >= 3]

\* Mutant of Posting: what the gateway has is not asked.
PostingNew(read) == agent.print # pass.model

Posting(read) == agent.print # pass.model \/ read # pass.model

ReadHealth ==
  /\ pass.at = "asking" /\ up /\ disturbed' = FALSE
  /\ IF Posting(revision)
       THEN pass' = [pass EXCEPT !.at = "posting"] /\ UNCHANGED agent
       ELSE EndPass /\ Succeed(agent)
  /\ UNCHANGED <<desired, storeVars, post, flow, bounds>>

PostConfig ==
  /\ pass.at = "posting" /\ up
  /\ \E p \in Posts :
       /\ post[p].at = "none"
       /\ post' = [post EXCEPT ![p] = [NoPost EXCEPT !.at = "sent", !.config = pass.model]]
       /\ pass' = [pass EXCEPT !.at = "waiting", !.with = p]
  /\ UNCHANGED <<desired, agent, storeVars, flow, bounds, disturbed>>

ReceiveApplied ==
  /\ pass.at = "waiting" /\ post[pass.with].at = "answered"
  /\ EndPass
  /\ post' = [post EXCEPT ![pass.with] = NoPost]
  /\ Succeed([agent EXCEPT !.print = pass.model])
  /\ UNCHANGED <<desired, storeVars, flow, bounds, disturbed>>

\* The gateway does not answer, or not within two seconds.
Lost ==
  \/ ~up /\ UNCHANGED gatewayFaults
  \/ pass.at = "waiting" /\ post[pass.with].at = "none" /\ UNCHANGED gatewayFaults
  \/ gatewayFaults < MaxGatewayFaults /\ gatewayFaults' = gatewayFaults + 1

ReconcileFails ==
  /\ pass.at # "idle" /\ Lost
  /\ EndPass
  /\ agent' = [NewClient EXCEPT !.failed = TRUE]
  /\ post' = [p \in Posts |-> IF post[p].at = "answered" THEN NoPost ELSE post[p]]
  /\ UNCHANGED <<desired, storeVars, flow, models, disturbed>>

RestartClient ==
  /\ gatewayFaults < MaxGatewayFaults /\ gatewayFaults' = gatewayFaults + 1
  /\ EndPass /\ agent' = NewClient
  /\ post' = [p \in Posts |-> IF post[p].at = "answered" THEN NoPost ELSE post[p]]
  /\ UNCHANGED <<desired, storeVars, flow, models, disturbed>>

Reconcile == BeginReconcile \/ ReadHealth \/ PostConfig \/ ReceiveApplied \/ ReconcileFails

-----------------------------------------------------------------------------
(* The gateway.                                                            *)

Awaited(p) == pass.at = "waiting" /\ pass.with = p

\* Mutant of NextHeld: every configuration makes new limiters.
NextHeldAnew(c) == [a \in Customers |-> IF c[a] = Absent THEN 0 ELSE made[a] + 1]

\* A limiter is kept for an account that stays, and made for one that comes.
NextHeld(c) ==
  [a \in Customers |-> IF c[a] = Absent THEN 0
                       ELSE IF held[a] # 0 THEN held[a] ELSE made[a] + 1]

Retired(c) == {<<a, held[a]>> : a \in {b \in Customers : held[b] # 0 /\ c[b] = Absent}}

\* ConfigStore.Apply, up to the end of its lock.
ApplyConfig(p) ==
  /\ post[p].at = "sent"
  /\ LET c == post[p].config IN
     /\ held' = NextHeld(c) /\ revision' = c
     /\ made' = [a \in Customers |-> IF held'[a] > made[a] THEN held'[a] ELSE made[a]]
     /\ post' = [post EXCEPT ![p].at = "stopping", ![p].retired = Retired(c)]
     /\ flow' = [f \in Flows |-> [flow[f] EXCEPT
                   !.removed = @ \/ (flow[f].limiter # 0 /\ c[flow[f].who] = Absent)]]
  /\ disturbed' = (disturbed \/ ~Awaited(p))
  /\ UNCHANGED <<desired, pass, agent, up, stopped, bounds>>

\* The limiters of accounts that were removed are stopped; the answer is written.
StopRetired(p) ==
  /\ post[p].at = "stopping" /\ stopped' = stopped \cup post[p].retired
  /\ post' = [post EXCEPT ![p] =
       IF Awaited(p) THEN [@ EXCEPT !.at = "answered", !.retired = {}] ELSE NoPost]
  /\ UNCHANGED <<desired, pass, agent, up, revision, held, made, flow, bounds, disturbed>>

\* Gateway.authenticate: the connection keeps what it finds.
Authenticate(f) ==
  /\ up /\ flow[f].limiter = 0
  /\ \E a \in Customers :
       /\ held[a] # 0
       /\ flow' = [flow EXCEPT ![f] =
            [who |-> a, limiter |-> held[a], removed |-> FALSE]]
  /\ UNCHANGED <<desired, pass, agent, storeVars, post, bounds, disturbed>>

CloseFlow(f) ==
  /\ flow[f].limiter # 0 /\ flow' = [flow EXCEPT ![f] = NoFlow]
  /\ UNCHANGED <<desired, pass, agent, storeVars, post, bounds, disturbed>>

\* The process ends, and with it all it knew.
GatewayExits ==
  /\ up /\ gatewayFaults < MaxGatewayFaults /\ gatewayFaults' = gatewayFaults + 1
  /\ up' = FALSE /\ revision' = NoConfig /\ stopped' = {}
  /\ held' = [a \in Customers |-> 0] /\ made' = [a \in Customers |-> 0]
  /\ post' = [p \in Posts |-> NoPost]
  /\ flow' = [f \in Flows |-> NoFlow] /\ disturbed' = TRUE
  /\ UNCHANGED <<desired, pass, agent, models>>

\* restart: unless-stopped.
GatewayStarts ==
  /\ ~up /\ up' = TRUE
  /\ UNCHANGED <<desired, pass, agent, revision, held, made, stopped, post, flow,
                 bounds, disturbed>>

Serve(p) == ApplyConfig(p) \/ StopRetired(p)

GatewayConfigNext ==
  \/ ChangeModel \/ Reconcile \/ RestartClient \/ GatewayExits \/ GatewayStarts
  \/ \E p \in Posts : Serve(p)
  \/ \E f \in Flows : Authenticate(f) \/ CloseFlow(f)

\* The poll loop goes on, Docker restarts the gateway, and its server serves.
GatewayConfigFairness ==
  /\ WF_configVars(Reconcile) /\ WF_configVars(GatewayStarts)
  /\ \A p \in Posts : WF_configVars(Serve(p))

GatewayConfigSpec ==
  GatewayConfigInit /\ [][GatewayConfigNext]_configVars /\ GatewayConfigFairness

-----------------------------------------------------------------------------
(* Properties.                                                             *)

Retiring == UNION {post[p].retired : p \in {q \in Posts : post[q].at = "stopping"}}

\* However requests overtake each other, an open connection waits at the limiter
\* its account has now, which is not stopped, unless the account was removed
\* since the connection was accepted (config.go: limiters are kept, not replaced).
FlowsAreLimited ==
  \A f \in Flows : LET l == <<flow[f].who, flow[f].limiter>> IN
    flow[f].limiter # 0 /\ ~flow[f].removed =>
      /\ flow[f].limiter = held[flow[f].who]
      /\ l \notin stopped \cup Retiring

\* No limiter, with its goroutine, is forgotten: one that is no account's is
\* stopped, or about to be.
NoLimiterLeaks ==
  \A a \in Customers : \A n \in 1..made[a] :
    n # held[a] => <<a, n>> \in stopped \cup Retiring

\* Both of them: limiters and connections belong together (ConfigStore.Apply).
LimitersHold == GatewayConfigTypeOK /\ FlowsAreLimited /\ NoLimiterLeaks

\* When a pass ends with the gateway available (the dashboard says "ready"), the
\* gateway has the configuration of that pass, unless it has been restarted, or
\* has carried out a request given up before, since it was asked in that pass.
ReadyIsConfigured ==
  pass.at = "idle" /\ agent.available /\ ~disturbed => up /\ revision = pass.model

\* Once changes and failures end, the gateway has the limits the database holds
\* and the agent says so, whichever requests came late and however often the
\* gateway forgot them.
GatewayFollows ==
  <>[](up /\ revision = desired /\ agent.available)

-----------------------------------------------------------------------------
\* The strengthenings. An account's limiter is the last one made for it, and
\* what is stopped, or about to be, was made before.
LimiterInv ==
  /\ GatewayConfigTypeOK /\ FlowsAreLimited /\ NoLimiterLeaks
  /\ \A a \in Customers : held[a] \in {0, made[a]}
  /\ \A l \in stopped \cup Retiring : l[2] <= made[l[1]] /\ l[2] # held[l[1]]

\* While the agent waits, what it posted is its model, and once applied in force.
ReadyInv ==
  /\ GatewayConfigTypeOK /\ ReadyIsConfigured
  /\ \A p \in Posts : post[p].at # "none" => up
  /\ LET mine == post[pass.with] IN
     pass.at = "waiting" /\ mine.at # "none" =>
       /\ mine.config = pass.model
       /\ mine.at \in {"stopping", "answered"} /\ ~disturbed => revision = pass.model
=============================================================================
