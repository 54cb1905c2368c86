------------------------ MODULE TrafficGatewayProofs ------------------------
(***************************************************************************)
(* Type correctness and the safety of the Traffic Gateway's connections,   *)
(* for any number of connections and any capacity, and of how limits reach *)
(* the gateway, for any accounts, limits and requests that overlap.        *)
(***************************************************************************)
EXTENDS TrafficGateway, GatewayConfig, FiniteSetTheorems, TLAPS

LEMMA GotoType ==
  ASSUME TypeOK, NEW c \in Connections, NEW from, NEW to \in Phases, Goto(c, from, to)
  PROVE  pc' \in [Connections -> Phases]
BY DEF TypeOK, Goto

LEMMA TypeStep == TypeOK /\ [Next]_vars => TypeOK'
<1> SUFFICES ASSUME TypeOK, [Next]_vars PROVE TypeOK'
  OBVIOUS
<1>0. {"greeting", "shedding", "dialing", "dialed", "replying", "relay", "half",
       "aborting", "closing", "removing", "gone"} \subseteq Phases
  BY DEF Phases
<1> USE GatewayAssumption, <1>0, GotoType DEF TypeOK, socketVars
<1>1. ASSUME NEW c \in Connections, Accept(c) PROVE TypeOK'
  <2>1. pc' \in [Connections -> Phases]
    BY <1>1 DEF Accept
  <2>2. QED BY <1>1, <2>1 DEF Accept
<1>2. ASSUME NEW c \in Connections, Dismiss(c) PROVE TypeOK'
  <2>1. pc' \in [Connections -> Phases]
    BY <1>2 DEF Dismiss
  <2>2. QED BY <1>2, <2>1 DEF Dismiss
<1>3. ASSUME NEW c \in Connections, AdmitFree(c) PROVE TypeOK'
  <2>1. pc' \in [Connections -> Phases]
    BY <1>3 DEF AdmitFree
  <2>2. QED BY <1>3, <2>1 DEF AdmitFree
<1>4. ASSUME NEW c \in Connections, AdmitByShedding(c) PROVE TypeOK'
  <2>1. pc' \in [Connections -> Phases]
    BY <1>4 DEF AdmitByShedding
  <2>2. QED BY <1>4, <2>1 DEF AdmitByShedding
<1>5. ASSUME NEW c \in Connections, Reject(c) PROVE TypeOK'
  <2>1. pc' \in [Connections -> Phases]
    BY <1>5 DEF Reject
  <2>2. QED BY <1>5, <2>1 DEF Reject
<1>6. ASSUME NEW c \in Connections, VictimClosed(c) PROVE TypeOK'
  <2>1. pc' \in [Connections -> Phases]
    BY <1>6 DEF VictimClosed
  <2>2. QED BY <1>6, <2>1 DEF VictimClosed
<1>7. ASSUME NEW c \in Connections, Dial(c) PROVE TypeOK'
  <2>1. pc' \in [Connections -> Phases]
    BY <1>7 DEF Dial
  <2>2. QED BY <1>7, <2>1 DEF Dial
<1>8. ASSUME NEW c \in Connections, DialFails(c) PROVE TypeOK'
  <2>1. pc' \in [Connections -> Phases]
    BY <1>8 DEF DialFails
  <2>2. QED BY <1>8, <2>1 DEF DialFails
<1>9. ASSUME NEW c \in Connections, SetRemote(c) PROVE TypeOK'
  <2>1. pc' \in [Connections -> Phases]
    BY <1>9 DEF SetRemote
  <2>2. QED BY <1>9, <2>1 DEF SetRemote
<1>10. ASSUME NEW c \in Connections, Establish(c) PROVE TypeOK'
  <2>1. pc' \in [Connections -> Phases]
    BY <1>10 DEF Establish
  <2>2. QED BY <1>10, <2>1 DEF Establish
<1>11. ASSUME NEW c \in Connections, ReplyFails(c) PROVE TypeOK'
  <2>1. pc' \in [Connections -> Phases]
    BY <1>11 DEF ReplyFails
  <2>2. QED BY <1>11, <2>1 DEF ReplyFails
<1>12. ASSUME NEW c \in Connections, FirstCopyEnds(c) PROVE TypeOK'
  <2>1. pc' \in [Connections -> Phases]
    BY <1>12 DEF FirstCopyEnds
  <2>2. QED BY <1>12, <2>1 DEF FirstCopyEnds
<1>13. ASSUME NEW c \in Connections, HalfEnds(c) PROVE TypeOK'
  <2>1. pc' \in [Connections -> Phases]
    BY <1>13 DEF HalfEnds
  <2>2. QED BY <1>13, <2>1 DEF HalfEnds
<1>14. ASSUME NEW c \in Connections, Closed(c) PROVE TypeOK'
  <2>1. pc' \in [Connections -> Phases]
    BY <1>14 DEF Closed
  <2>2. QED BY <1>14, <2>1 DEF Closed
<1>15. ASSUME NEW c \in Connections, Remove(c) PROVE TypeOK'
  <2>1. pc' \in [Connections -> Phases]
    BY <1>15 DEF Remove
  <2>2. QED BY <1>15, <2>1 DEF Remove
<1>16. ASSUME NEW c \in Connections, BeginClose(c) PROVE TypeOK'
  BY <1>16 DEF BeginClose
<1>17. ASSUME NEW c \in Connections, FinishClose(c) PROVE TypeOK'
  BY <1>17 DEF FinishClose
<1>18. ASSUME NEW c \in Connections, Reaped(c) PROVE TypeOK'
  BY <1>18 DEF Reaped
<1>19. ASSUME NEW c \in Connections, NEW dir \in Directions, Peers(c, dir)
       PROVE  TypeOK'
  <2>1. PICK to \in {"off", "reading", "writing", "eof", "failed"} :
          copy' = [copy EXCEPT ![c][dir] = to]
    BY <1>19 DEF Peers, Read, Write, SourceEnds, CopyFails, CopyGoto
  <2>2. copy' \in [Connections ->
          [Directions -> {"off", "reading", "writing", "eof", "failed"}]]
    BY <2>1
  <2>3. age' \in [Connections -> 0..MaximumIdle]
    BY <1>19 DEF Peers, Read, Write, SourceEnds, CopyFails
  <2>4. UNCHANGED <<pc, socketVars, registered, victim, reaping>>
    BY <1>19 DEF Peers, Read, Write, SourceEnds, CopyFails
  <2>5. QED BY <2>2, <2>3, <2>4
<1>20. CASE Tick BY <1>20 DEF Tick
<1>21. CASE ReapIdle BY <1>21 DEF ReapIdle, Expired
<1>22. CASE UNCHANGED vars BY <1>22 DEF vars
<1>23. QED
  BY <1>1, <1>2, <1>3, <1>4, <1>5, <1>6, <1>7, <1>8, <1>9, <1>10, <1>11, <1>12,
     <1>13, <1>14, <1>15, <1>16, <1>17, <1>18, <1>19, <1>20, <1>21, <1>22
     DEF Next, Handle, CloseStep

\* The gateway's variables keep their types.
THEOREM GatewayTypeCorrect == Spec => []TypeOK
<1>1. Init => TypeOK
  BY GatewayAssumption DEF Init, TypeOK, Phases
<1>2. QED
  BY <1>1, TypeStep, PTL DEF Spec

-----------------------------------------------------------------------------
(* The registry.                                                           *)

LEMMA RegistryStep == TypeOK /\ RegistryInv /\ [Next]_vars => RegistryInv'
<1> SUFFICES ASSUME TypeOK, RegistryInv, [Next]_vars PROVE RegistryInv'
  OBVIOUS
<1> USE DEF Goto, socketVars, Admitted
<1>0. /\ reaping \subseteq Connections /\ registered \in SUBSET Connections /\ IsFiniteSet(registered)
      /\ Cardinality(registered) \in Nat /\ Maximum \in Nat \ {0}
      /\ Cardinality(registered) <= Maximum
      /\ pc \in [Connections -> Phases]
  BY GatewayAssumption, FS_Subset, FS_CardinalityType DEF TypeOK, RegistryInv
<1>1. ASSUME NEW c \in Connections, Accept(c) \/ Dismiss(c) \/ Reject(c)
      PROVE  RegistryInv'
  <2>1. ~Admitted(c) /\ UNCHANGED <<registered, reaping, victim>>
    BY <1>1 DEF Accept, Dismiss, Reject
  <2>2. \A d \in Connections : d # c => pc'[d] = pc[d]
    BY <1>0, <1>1 DEF Accept, Dismiss, Reject
  <2>3. pc'[c] # "shedding"
    BY <1>0, <1>1 DEF Accept, Dismiss, Reject
  <2>4. QED
    BY <1>0, <2>1, <2>2, <2>3 DEF RegistryInv, TypeOK
<1>2. ASSUME NEW c \in Connections, AdmitFree(c) PROVE RegistryInv'
  <2>1. Cardinality(registered') = Cardinality(registered) + 1
    BY <1>0, <1>2, FS_AddElement DEF AdmitFree, RegistryInv
  <2>2. Cardinality(registered') <= Maximum
    BY <1>0, <1>2, <2>1 DEF AdmitFree, Full
  <2>3. QED
    BY <1>0, <1>2, <2>2 DEF AdmitFree, RegistryInv
<1>3. ASSUME NEW c \in Connections, AdmitByShedding(c) PROVE RegistryInv'
  <2>1. PICK v \in registered : /\ registered' = (registered \ {v}) \cup {c}
                                /\ victim' = [victim EXCEPT ![c] = v]
    BY <1>3 DEF AdmitByShedding
  <2>2. c \notin registered \ {v} /\ IsFiniteSet(registered \ {v})
    BY <1>0, <1>3, FS_RemoveElement DEF AdmitByShedding, RegistryInv
  <2>3. Cardinality(registered \ {v}) = Cardinality(registered) - 1
    BY <1>0, FS_RemoveElement
  <2>4. Cardinality(registered') = Cardinality(registered)
    <3>1. Cardinality((registered \ {v}) \cup {c}) = Cardinality(registered \ {v}) + 1
      BY <2>2, FS_AddElement
    <3>2. QED
      BY <1>0, <2>1, <2>3, <3>1
  <2>5. victim \in [Connections -> Connections \cup {None}]
    BY DEF TypeOK
  <2>6. QED
    BY <1>0, <1>3, <2>1, <2>4, <2>5 DEF AdmitByShedding, RegistryInv
<1>4. ASSUME NEW c \in Connections, VictimClosed(c) PROVE RegistryInv'
  BY <1>0, <1>4 DEF VictimClosed, RegistryInv, TypeOK
<1>5. ASSUME NEW c \in Connections, NEW from \in Phases \ {"new", "greeting", "gone"},
             NEW to \in Phases \ {"new", "greeting", "shedding", "gone"},
             Goto(c, from, to), UNCHANGED <<registered, reaping, victim>>
      PROVE  RegistryInv'
  BY <1>0, <1>5 DEF RegistryInv
<1>6. ASSUME NEW c \in Connections,
             \/ Dial(c) \/ DialFails(c) \/ SetRemote(c) \/ Establish(c) \/ ReplyFails(c)
             \/ FirstCopyEnds(c) \/ HalfEnds(c) \/ Closed(c)
      PROVE  RegistryInv'
  <2>1. PICK from \in {"dialing", "dialed", "replying", "relay", "half", "aborting",
                       "closing"},
             to \in {"dialed", "replying", "relay", "half", "aborting", "closing",
                     "removing"} :
               Goto(c, from, to) /\ UNCHANGED <<registered, reaping, victim>>
    BY <1>6, Zenon DEF Dial, DialFails, SetRemote, Establish, ReplyFails, FirstCopyEnds,
                HalfEnds, Closed
  <2>2. /\ from \in Phases \ {"new", "greeting", "gone"}
        /\ to \in Phases \ {"new", "greeting", "shedding", "gone"}
    BY DEF Phases
  <2>3. QED
    BY <1>5, <2>1, <2>2
<1>7. ASSUME NEW c \in Connections, Remove(c) PROVE RegistryInv'
  <2>1. registered' \subseteq registered
    BY <1>7 DEF Remove
  <2>2. Cardinality(registered') <= Cardinality(registered)
        /\ Cardinality(registered') \in Nat
    BY <1>0, <2>1, FS_Subset, FS_CardinalityType
  <2>3. QED
    BY <1>0, <1>7, <2>2 DEF Remove, RegistryInv
<1>8. ASSUME NEW c \in Connections, CloseStep(c) PROVE RegistryInv'
  BY <1>8 DEF CloseStep, BeginClose, FinishClose, Reaped, RegistryInv
<1>9. ASSUME NEW c \in Connections, NEW dir \in Directions, Peers(c, dir)
      PROVE  RegistryInv'
  BY <1>9 DEF Peers, Read, Write, SourceEnds, CopyFails, RegistryInv
<1>10. CASE Tick BY <1>10 DEF Tick, RegistryInv
<1>11. CASE ReapIdle
  <2>1. registered' \subseteq registered
    BY <1>11 DEF ReapIdle
  <2>2. Cardinality(registered') <= Cardinality(registered)
        /\ Cardinality(registered') \in Nat
    BY <1>0, <2>1, FS_Subset, FS_CardinalityType
  <2>3. QED
    BY <1>0, <1>11, <2>2 DEF ReapIdle, Expired, RegistryInv
<1>12. CASE UNCHANGED vars BY <1>12 DEF vars, RegistryInv
<1>13. QED
  BY <1>1, <1>2, <1>3, <1>4, <1>5, <1>6, <1>7, <1>8, <1>9, <1>10, <1>11, <1>12
     DEF Next, Handle

LEMMA RegistryInvariant == Spec => []RegistryInv
<1>1. Init => RegistryInv
  BY GatewayAssumption, FS_EmptySet DEF Init, RegistryInv
<1>2. QED
  BY <1>1, RegistryStep, GatewayTypeCorrect, PTL DEF Spec

\* However admissions, removals and the reaper interleave, the registry never
\* holds more than its maximum.
THEOREM CapacityHolds == Spec => []CapacityRespected
<1>1. RegistryInv => CapacityRespected
  BY DEF RegistryInv, CapacityRespected
<1>2. QED
  BY <1>1, RegistryInvariant, PTL

-----------------------------------------------------------------------------
(* Sockets.                                                                *)

LEMMA SocketStep ==
  ASSUME TypeOK, RegistryInv, \A c \in Connections : SocketInv(c), [Next]_vars
  PROVE  \A c \in Connections : SocketInv(c)'
<1> USE DEF Goto, socketVars, Admitted, SocketInv
<1>0. /\ pc \in [Connections -> Phases] /\ client \in [Connections -> {"none", "open", "closed"}]
      /\ remote \in [Connections -> {"none", "open", "closed"}]
      /\ attached \in [Connections -> BOOLEAN]
      /\ closing \in [Connections -> {"no", "begun", "done"}]
  BY DEF TypeOK
<1>1. ASSUME NEW c \in Connections, Accept(c) \/ Dismiss(c) \/ Reject(c)
      PROVE  \A d \in Connections : SocketInv(d)'
  BY <1>0, <1>1 DEF Accept, Dismiss, Reject
<1>2. ASSUME NEW c \in Connections, AdmitFree(c) \/ AdmitByShedding(c)
      PROVE  \A d \in Connections : SocketInv(d)'
  BY <1>0, <1>2 DEF AdmitFree, AdmitByShedding
<1>3. ASSUME NEW c \in Connections, VictimClosed(c) \/ Dial(c) \/ DialFails(c)
      PROVE  \A d \in Connections : SocketInv(d)'
  BY <1>0, <1>3 DEF VictimClosed, Dial, DialFails
<1>4. ASSUME NEW c \in Connections, SetRemote(c) PROVE \A d \in Connections : SocketInv(d)'
  BY <1>0, <1>4 DEF SetRemote
<1>5. ASSUME NEW c \in Connections, Establish(c) \/ ReplyFails(c)
      PROVE  \A d \in Connections : SocketInv(d)'
  BY <1>0, <1>5 DEF Establish, ReplyFails
<1>6. ASSUME NEW c \in Connections,
             FirstCopyEnds(c) \/ HalfEnds(c) \/ Closed(c) \/ Remove(c)
      PROVE  \A d \in Connections : SocketInv(d)'
  BY <1>0, <1>6 DEF FirstCopyEnds, HalfEnds, Closed, Remove
<1>7. ASSUME NEW c \in Connections, BeginClose(c) PROVE \A d \in Connections : SocketInv(d)'
  <2>1. Admitted(c)
    BY <1>7 DEF BeginClose, CloseCalled, Displaced, RegistryInv
  <2>2. QED
    BY <1>0, <1>7, <2>1 DEF BeginClose
<1>8. ASSUME NEW c \in Connections, FinishClose(c) \/ Reaped(c)
      PROVE  \A d \in Connections : SocketInv(d)'
  BY <1>0, <1>8 DEF FinishClose, Reaped
<1>9. ASSUME NEW c \in Connections, NEW dir \in Directions, Peers(c, dir)
      PROVE  \A d \in Connections : SocketInv(d)'
  BY <1>9 DEF Peers, Read, Write, SourceEnds, CopyFails
<1>10. CASE Tick \/ ReapIdle BY <1>10 DEF Tick, ReapIdle
<1>11. CASE UNCHANGED vars BY <1>11 DEF vars
<1>12. QED
  BY <1>1, <1>2, <1>3, <1>4, <1>5, <1>6, <1>7, <1>8, <1>9, <1>10, <1>11
     DEF Next, Handle, CloseStep

LEMMA SocketInvariant == Spec => [](\A c \in Connections : SocketInv(c))
<1>1. Init => \A c \in Connections : SocketInv(c)
  BY DEF Init, SocketInv, Admitted
<1>2. TypeOK /\ RegistryInv /\ (\A c \in Connections : SocketInv(c)) /\ [Next]_vars
        => (\A c \in Connections : SocketInv(c))'
  BY SocketStep
<1>3. QED
  BY <1>1, <1>2, GatewayTypeCorrect, RegistryInvariant, PTL DEF Spec

\* Whichever of Close and setRemote comes first, the remote socket does not
\* stay open behind a closed connection.
THEOREM CloseReachesRemote == Spec => []ClosedHasNoRemote
<1>1. (\A c \in Connections : SocketInv(c)) => ClosedHasNoRemote
  BY DEF SocketInv, ClosedHasNoRemote
<1>2. QED
  BY <1>1, SocketInvariant, PTL

\* A handler that has returned holds no socket and no place in the registry.
THEOREM HandlersLeaveNothing == Spec => []NothingLeaks
<1>1. RegistryInv /\ (\A c \in Connections : SocketInv(c)) => NothingLeaks
  BY DEF RegistryInv, SocketInv, NothingLeaks
<1>2. QED
  BY <1>1, RegistryInvariant, SocketInvariant, PTL

-----------------------------------------------------------------------------
(* Displaced connections.                                                  *)

LEMMA OutsideStep ==
  TypeOK /\ RegistryInv /\ OutsideIsClosing /\ [Next]_vars => OutsideIsClosing'
<1> SUFFICES ASSUME TypeOK, RegistryInv, OutsideIsClosing, [Next]_vars,
                    NEW d \in Connections, pc'[d] \in Holding, d \notin registered'
             PROVE  closing'[d] # "no" \/ CloseCalled(d)'
  BY DEF OutsideIsClosing
<1> USE DEF Goto, socketVars, Holding, CloseCalled, Displaced
<1>0. /\ pc \in [Connections -> Phases]
      /\ closing \in [Connections -> {"no", "begun", "done"}]
      /\ victim \in [Connections -> Connections \cup {None}]
      /\ pc[d] \in Holding /\ d \notin registered =>
           closing[d] # "no" \/ CloseCalled(d)
  BY DEF TypeOK, OutsideIsClosing
<1>1. ASSUME NEW c \in Connections, Accept(c) \/ Dismiss(c) \/ Reject(c)
      PROVE  closing'[d] # "no" \/ CloseCalled(d)'
  BY <1>0, <1>1 DEF Accept, Dismiss, Reject
<1>2. ASSUME NEW c \in Connections, AdmitFree(c)
      PROVE  closing'[d] # "no" \/ CloseCalled(d)'
  BY <1>0, <1>2 DEF AdmitFree
<1>3. ASSUME NEW c \in Connections, AdmitByShedding(c)
      PROVE  closing'[d] # "no" \/ CloseCalled(d)'
  BY <1>0, <1>3 DEF AdmitByShedding
<1>4. ASSUME NEW c \in Connections, VictimClosed(c)
      PROVE  closing'[d] # "no" \/ CloseCalled(d)'
  BY <1>0, <1>4 DEF VictimClosed
<1>5. ASSUME NEW c \in Connections, Dial(c) \/ DialFails(c)
      PROVE  closing'[d] # "no" \/ CloseCalled(d)'
  BY <1>0, <1>5 DEF Dial, DialFails
<1>6. ASSUME NEW c \in Connections, SetRemote(c) \/ Establish(c) \/ ReplyFails(c)
      PROVE  closing'[d] # "no" \/ CloseCalled(d)'
  BY <1>0, <1>6 DEF SetRemote, Establish, ReplyFails
<1>7. ASSUME NEW c \in Connections, FirstCopyEnds(c) \/ HalfEnds(c) \/ Closed(c)
      PROVE  closing'[d] # "no" \/ CloseCalled(d)'
  BY <1>0, <1>7 DEF FirstCopyEnds, HalfEnds, Closed
<1>8. ASSUME NEW c \in Connections, Remove(c)
      PROVE  closing'[d] # "no" \/ CloseCalled(d)'
  BY <1>0, <1>8 DEF Remove
<1>9. ASSUME NEW c \in Connections, CloseStep(c)
      PROVE  closing'[d] # "no" \/ CloseCalled(d)'
  BY <1>0, <1>9 DEF CloseStep, BeginClose, FinishClose, Reaped
<1>10. ASSUME NEW c \in Connections, NEW dir \in Directions, Peers(c, dir)
       PROVE  closing'[d] # "no" \/ CloseCalled(d)'
  BY <1>0, <1>10 DEF Peers, Read, Write, SourceEnds, CopyFails
<1>11. CASE Tick BY <1>0, <1>11 DEF Tick
<1>12. CASE ReapIdle BY <1>0, <1>12 DEF ReapIdle
<1>13. CASE UNCHANGED vars BY <1>0, <1>13 DEF vars
<1>14. QED
  BY <1>1, <1>2, <1>3, <1>4, <1>5, <1>6, <1>7, <1>8, <1>9, <1>10, <1>11, <1>12,
     <1>13 DEF Next, Handle

\* A connection pushed out of the registry while its handler is at work is
\* always one that somebody is about to close.
THEOREM DisplacedAreClosed == Spec => []OutsideIsClosing
<1>1. Init => OutsideIsClosing
  BY DEF Init, OutsideIsClosing, Holding
<1>2. QED
  BY <1>1, OutsideStep, GatewayTypeCorrect, RegistryInvariant, PTL DEF Spec

-----------------------------------------------------------------------------
(* How limits reach the gateway.                                           *)

LEMMA ConstantsOfConfig ==
  /\ Nothing \in Configs /\ NewClient \in Clients /\ NoPost \in PostRecs
  /\ NoFlow \in FlowRecs /\ AnyPost \in Posts
<1>1. Nothing \in Configs
  BY DEF Nothing, Configs
<1>2. NoFlow \in FlowRecs /\ AnyPost \in Posts
  BY GatewayConfigAssumption DEF GatewayConfigAssumption, NoFlow, FlowRecs, AnyPost
<1>3. NewClient \in Clients /\ NoPost \in PostRecs
  BY <1>1 DEF NewClient, Clients, NoPost, PostRecs
<1>4. QED
  BY <1>1, <1>2, <1>3

LEMMA SucceedType ==
  ASSUME NEW c \in Clients, Succeed(c)
  PROVE  agent' \in Clients
<1> DEFINE n == IF c.successes < 3 THEN c.successes + 1 ELSE 3
<1>1. n \in 0..3
  BY DEF Clients
<1>2. PICK b \in BOOLEAN : agent' = [c EXCEPT !.successes = n, !.available = b]
  <2> DEFINE b == c.available \/ ~c.failed \/ n >= 3
  <2>1. agent' = [c EXCEPT !.successes = n, !.available = b]
    BY DEF Succeed
  <2>2. b \in BOOLEAN
    BY DEF Clients
  <2> HIDE DEF b, n
  <2>3. QED
    BY <2>1, <2>2
<1> HIDE DEF n
<1>3. QED
  BY <1>1, <1>2 DEF Clients

\* The accounts after a configuration, and the limiters it retires.
LEMMA ApplyFacts ==
  ASSUME GatewayConfigTypeOK, \A a \in Customers : held[a] \in {0, made[a]},
         NEW p \in Posts, ApplyConfig(p)
  PROVE  /\ post[p].config \in Configs
         /\ \A a \in Customers :
              /\ held'[a] \in Nat /\ made'[a] \in Nat
              /\ held'[a] \in {0, made'[a]} /\ made'[a] >= made[a]
              /\ post[p].config[a] = Absent => held'[a] = 0 /\ made'[a] = made[a]
              /\ post[p].config[a] # Absent /\ held[a] # 0
                   => held'[a] = held[a] /\ made'[a] = made[a]
              /\ post[p].config[a] # Absent /\ held[a] = 0
                   => held'[a] = made[a] + 1 /\ made'[a] = made[a] + 1
         /\ held' \in [Customers -> Nat] /\ made' \in [Customers -> Nat]
         /\ Retired(post[p].config) \in SUBSET Limiters
         /\ \A l \in Limiters : l \in Retired(post[p].config)
              <=> held[l[1]] = l[2] /\ post[p].config[l[1]] = Absent
<1>1. post[p].config \in Configs
  BY DEF GatewayConfigTypeOK, PostRecs
<1>2. held' = NextHeld(post[p].config)
      /\ made' = [a \in Customers |-> IF held'[a] > made[a] THEN held'[a] ELSE made[a]]
  BY DEF ApplyConfig
<1>3. held' \in [Customers -> Nat]
  BY <1>2 DEF NextHeld, GatewayConfigTypeOK
<1>4. made' \in [Customers -> Nat]
  BY <1>2, <1>3 DEF GatewayConfigTypeOK
<1>5. ASSUME NEW a \in Customers
      PROVE  /\ held'[a] \in Nat /\ made'[a] \in Nat
             /\ held'[a] \in {0, made'[a]} /\ made'[a] >= made[a]
             /\ post[p].config[a] = Absent => held'[a] = 0 /\ made'[a] = made[a]
             /\ post[p].config[a] # Absent /\ held[a] # 0
                  => held'[a] = held[a] /\ made'[a] = made[a]
             /\ post[p].config[a] # Absent /\ held[a] = 0
                  => held'[a] = made[a] + 1 /\ made'[a] = made[a] + 1
  <2>1. held'[a] = IF post[p].config[a] = Absent THEN 0
                   ELSE IF held[a] # 0 THEN held[a] ELSE made[a] + 1
    BY <1>2 DEF NextHeld
  <2>2. made'[a] = IF held'[a] > made[a] THEN held'[a] ELSE made[a]
    BY <1>2
  <2>3. held[a] \in Nat /\ made[a] \in Nat
    BY DEF GatewayConfigTypeOK
  <2>4. QED
    BY <2>1, <2>2, <2>3
<1>6. Retired(post[p].config) \in SUBSET Limiters
  BY DEF Retired, Limiters, GatewayConfigTypeOK
<1>7. ASSUME NEW l \in Limiters
      PROVE  l \in Retired(post[p].config)
               <=> held[l[1]] = l[2] /\ post[p].config[l[1]] = Absent
  <2>1. l[1] \in Customers /\ l[2] \in Nat \ {0} /\ l = <<l[1], l[2]>>
    BY DEF Limiters
  <2>2. ASSUME l \in Retired(post[p].config)
        PROVE  held[l[1]] = l[2] /\ post[p].config[l[1]] = Absent
    BY <2>1, <2>2 DEF Retired
  <2>3. ASSUME held[l[1]] = l[2], post[p].config[l[1]] = Absent
        PROVE  l \in Retired(post[p].config)
    BY <2>1, <2>3 DEF Retired
  <2>4. QED
    BY <2>2, <2>3
<1>8. QED
  BY <1>1, <1>3, <1>4, <1>5, <1>6, <1>7

LEMMA ConfigTypeStep ==
  LimiterInv /\ [GatewayConfigNext]_configVars => GatewayConfigTypeOK'
<1> SUFFICES ASSUME LimiterInv, [GatewayConfigNext]_configVars PROVE GatewayConfigTypeOK'
  OBVIOUS
<1>0. GatewayConfigTypeOK
  BY DEF LimiterInv
<1> USE GatewayConfigAssumption, <1>0, ConstantsOfConfig
      DEF GatewayConfigAssumption, GatewayConfigTypeOK, storeVars, bounds
<1>1. CASE ChangeModel BY <1>1 DEF ChangeModel
<1>2. CASE BeginReconcile BY <1>2 DEF BeginReconcile, Passes
<1>3. CASE ReadHealth
  <2>1. agent' \in Clients
    BY <1>3, SucceedType DEF ReadHealth
  <2>2. pass' \in Passes
    BY <1>3 DEF ReadHealth, EndPass, Passes
  <2>3. QED
    BY <1>3, <2>1, <2>2 DEF ReadHealth
<1>4. CASE PostConfig
  <2>1. PICK p \in Posts :
          /\ post' = [post EXCEPT ![p] = [NoPost EXCEPT !.at = "sent", !.config = pass.model]]
          /\ pass' = [pass EXCEPT !.at = "waiting", !.with = p]
    BY <1>4 DEF PostConfig
  <2>2. pass' \in Passes
    BY <2>1 DEF Passes
  <2>3. [NoPost EXCEPT !.at = "sent", !.config = pass.model] \in PostRecs
    BY DEF NoPost, PostRecs, Passes
  <2>4. post' \in [Posts -> PostRecs]
    BY <2>1, <2>3
  <2>5. QED
    BY <1>4, <2>2, <2>4 DEF PostConfig
<1>5. CASE ReceiveApplied
  <2>1. [agent EXCEPT !.print = pass.model] \in Clients
    BY DEF Clients, Passes
  <2>2. agent' \in Clients
    BY <1>5, <2>1, SucceedType DEF ReceiveApplied
  <2>3. pass' \in Passes /\ post' \in [Posts -> PostRecs]
    BY <1>5 DEF ReceiveApplied, EndPass, Passes
  <2>4. QED
    BY <1>5, <2>2, <2>3 DEF ReceiveApplied
<1>6. CASE ReconcileFails \/ RestartClient
  <2>1. agent' \in Clients
    BY <1>6 DEF ReconcileFails, RestartClient, NewClient, Clients
  <2>2. pass' \in Passes /\ post' \in [Posts -> PostRecs]
    BY <1>6 DEF ReconcileFails, RestartClient, EndPass, Passes
  <2>3. gatewayFaults' \in 0..MaxGatewayFaults
    BY <1>6 DEF ReconcileFails, RestartClient, Lost
  <2>4. QED
    BY <1>6, <2>1, <2>2, <2>3 DEF ReconcileFails, RestartClient
<1>7. ASSUME NEW p \in Posts, ApplyConfig(p) PROVE GatewayConfigTypeOK'
  <2>0. \A a \in Customers : held[a] \in {0, made[a]}
    BY DEF LimiterInv
  <2>1. /\ post[p].config \in Configs
        /\ held' \in [Customers -> Nat] /\ made' \in [Customers -> Nat]
        /\ Retired(post[p].config) \in SUBSET Limiters
        /\ \A a \in Customers : made'[a] >= made[a]
    BY <1>7, <2>0, ApplyFacts
  <2>2. post' \in [Posts -> PostRecs]
    BY <1>7, <2>1 DEF ApplyConfig, PostRecs
  <2>3. ASSUME NEW f \in Flows
        PROVE  /\ flow'[f] \in FlowRecs
               /\ flow'[f].who = flow[f].who /\ flow'[f].limiter = flow[f].limiter
    <3> DEFINE r == flow[f].removed
                     \/ (flow[f].limiter # 0 /\ post[p].config[flow[f].who] = Absent)
    <3>1. flow'[f] = [flow[f] EXCEPT !.removed = r]
      BY <1>7 DEF ApplyConfig
    <3>2. r \in BOOLEAN
      BY DEF FlowRecs
    <3> HIDE DEF r
    <3>3. QED
      BY <3>1, <3>2 DEF FlowRecs
  <2>4. flow' \in [Flows -> FlowRecs]
    <3>1. \E F : flow' = [f \in Flows |-> F[f]]
      <4>1. flow' = [f \in Flows |-> flow'[f]]
        BY <1>7 DEF ApplyConfig
      <4>2. QED BY <4>1
    <3>2. QED
      BY <3>1, <2>3
  <2>5. \A f \in Flows : flow'[f].limiter \in 0..made'[flow'[f].who]
    BY <2>1, <2>3 DEF FlowRecs
  <2>6. revision' \in Configs /\ disturbed' \in BOOLEAN
    BY <1>7, <2>1 DEF ApplyConfig
  <2>7. QED
    BY <1>7, <2>1, <2>2, <2>4, <2>5, <2>6 DEF ApplyConfig
<1>8. ASSUME NEW p \in Posts, StopRetired(p) PROVE GatewayConfigTypeOK'
  <2>1. post[p].retired \in SUBSET Limiters
    BY DEF PostRecs
  <2>2. post' \in [Posts -> PostRecs]
    BY <1>8 DEF StopRetired, PostRecs
  <2>3. QED
    BY <1>8, <2>1, <2>2 DEF StopRetired
<1>9. ASSUME NEW f \in Flows, Authenticate(f) PROVE GatewayConfigTypeOK'
  <2>1. PICK a \in Customers :
          /\ held[a] # 0
          /\ flow' = [flow EXCEPT ![f] =
               [who |-> a, limiter |-> held[a], removed |-> FALSE]]
    BY <1>9 DEF Authenticate
  <2>2. held[a] \in 0..made[a]
    BY DEF LimiterInv
  <2>3. flow' \in [Flows -> FlowRecs]
    BY <2>1 DEF FlowRecs
  <2>4. \A g \in Flows : flow'[g].limiter \in 0..made[flow'[g].who]
    BY <2>1, <2>2
  <2>5. QED
    BY <1>9, <2>3, <2>4 DEF Authenticate
<1>10. ASSUME NEW f \in Flows, CloseFlow(f) PROVE GatewayConfigTypeOK'
  <2>1. flow' \in [Flows -> FlowRecs]
    BY <1>10 DEF CloseFlow
  <2>2. \A g \in Flows : flow'[g].limiter \in 0..made[flow'[g].who]
    BY <1>10 DEF CloseFlow, NoFlow, FlowRecs
  <2>3. QED
    BY <1>10, <2>1, <2>2 DEF CloseFlow
<1>11. CASE GatewayExits
  <2>1. flow' \in [Flows -> FlowRecs] /\ post' \in [Posts -> PostRecs]
    BY <1>11 DEF GatewayExits
  <2>2. \A g \in Flows : flow'[g].limiter \in 0..made'[flow'[g].who]
    BY <1>11 DEF GatewayExits, NoFlow, FlowRecs
  <2>3. held' \in [Customers -> Nat] /\ made' \in [Customers -> Nat]
        /\ gatewayFaults' \in 0..MaxGatewayFaults
    BY <1>11 DEF GatewayExits
  <2>4. QED
    BY <1>11, <2>1, <2>2, <2>3 DEF GatewayExits
<1>12. CASE GatewayStarts BY <1>12 DEF GatewayStarts
<1>13. CASE UNCHANGED configVars BY <1>13 DEF configVars
<1>14. QED
  BY <1>1, <1>2, <1>3, <1>4, <1>5, <1>6, <1>7, <1>8, <1>9, <1>10, <1>11, <1>12, <1>13
     DEF GatewayConfigNext, Reconcile, Serve

LEMMA QuietStep ==
  ASSUME LimiterInv, GatewayConfigTypeOK', UNCHANGED <<held, made, flow>>,
         (stopped \cup Retiring)' = stopped \cup Retiring
  PROVE  LimiterInv'
<1>1. FlowsAreLimited' /\ NoLimiterLeaks'
  BY DEF LimiterInv, FlowsAreLimited, NoLimiterLeaks
<1>2. QED
  BY <1>1 DEF LimiterInv

LEMMA RetiringKept ==
  ASSUME \A p \in Posts :
           /\ post'[p].at = "stopping" <=> post[p].at = "stopping"
           /\ post[p].at = "stopping" => post'[p].retired = post[p].retired
  PROVE  Retiring' = Retiring
BY DEF Retiring

LEMMA LimiterStep == LimiterInv /\ [GatewayConfigNext]_configVars => LimiterInv'
<1> SUFFICES ASSUME LimiterInv, [GatewayConfigNext]_configVars PROVE LimiterInv'
  OBVIOUS
<1>0. GatewayConfigTypeOK /\ GatewayConfigTypeOK'
  BY ConfigTypeStep DEF LimiterInv
<1>1. CASE ChangeModel \/ BeginReconcile \/ ReadHealth \/ PostConfig
           \/ ReceiveApplied \/ ReconcileFails \/ RestartClient
  <2>1. UNCHANGED <<held, made, flow, stopped>>
    BY <1>1 DEF ChangeModel, BeginReconcile, ReadHealth, PostConfig, ReceiveApplied,
                ReconcileFails, RestartClient, storeVars
  <2>2. ASSUME NEW p \in Posts
        PROVE  /\ post'[p].at = "stopping" <=> post[p].at = "stopping"
               /\ post[p].at = "stopping" => post'[p].retired = post[p].retired
    <3>1. CASE UNCHANGED post BY <3>1
    <3>2. CASE PostConfig
      BY <1>0, <3>2 DEF PostConfig, NoPost, GatewayConfigTypeOK
    <3>3. CASE ReceiveApplied
      BY <1>0, <3>3 DEF ReceiveApplied, NoPost, GatewayConfigTypeOK
    <3>4. CASE ReconcileFails \/ RestartClient
      BY <1>0, <3>4 DEF ReconcileFails, RestartClient, NoPost, GatewayConfigTypeOK
    <3>5. QED
      BY <1>1, <3>1, <3>2, <3>3, <3>4 DEF ChangeModel, BeginReconcile, ReadHealth
  <2>3. Retiring' = Retiring
    BY <2>2, RetiringKept
  <2>4. QED
    BY <1>0, <2>1, <2>3, QuietStep
<1>2. ASSUME NEW p \in Posts, ApplyConfig(p) PROVE LimiterInv'
  <2> DEFINE c == post[p].config
  <2>1. \A a \in Customers : held[a] \in {0, made[a]}
    BY DEF LimiterInv
  <2>2. /\ c \in Configs
        /\ \A a \in Customers :
             /\ held'[a] \in Nat /\ made'[a] \in Nat
             /\ held'[a] \in {0, made'[a]} /\ made'[a] >= made[a]
             /\ c[a] = Absent => held'[a] = 0 /\ made'[a] = made[a]
             /\ c[a] # Absent /\ held[a] # 0 => held'[a] = held[a] /\ made'[a] = made[a]
             /\ c[a] # Absent /\ held[a] = 0
                  => held'[a] = made[a] + 1 /\ made'[a] = made[a] + 1
        /\ Retired(c) \in SUBSET Limiters
        /\ \A l \in Limiters : l \in Retired(c) <=> held[l[1]] = l[2] /\ c[l[1]] = Absent
    BY <1>0, <1>2, <2>1, ApplyFacts
  <2> HIDE DEF c
  <2>3. (stopped \cup Retiring)' = (stopped \cup Retiring) \cup Retired(c)
    <3>1. /\ stopped' = stopped
          /\ post' = [post EXCEPT ![p].at = "stopping", ![p].retired = Retired(c)]
          /\ post[p].at = "sent"
      BY <1>2 DEF ApplyConfig, c
    <3>2. \A q \in Posts : q # p => post'[q] = post[q]
      BY <1>0, <3>1 DEF GatewayConfigTypeOK
    <3>3. post'[p].at = "stopping" /\ post'[p].retired = Retired(c)
      BY <1>0, <3>1 DEF GatewayConfigTypeOK, PostRecs
    <3>4. Retiring' = Retiring \cup Retired(c)
      <4>1. \A l : l \in Retiring <=> \E q \in Posts : post[q].at = "stopping" /\ l \in post[q].retired
        BY DEF Retiring
      <4>2. \A l : l \in Retiring' <=> \E q \in Posts : post'[q].at = "stopping" /\ l \in post'[q].retired
        BY DEF Retiring
      <4>3. \A l : l \in Retiring' <=> l \in Retiring \/ l \in Retired(c)
        BY <3>1, <3>2, <3>3, <4>1, <4>2
      <4>4. QED
        BY <4>3
    <3>5. QED
      BY <3>1, <3>4
  <2>4. stopped \cup Retiring \subseteq Limiters
    BY <1>0 DEF GatewayConfigTypeOK, Retiring, PostRecs
  <2>5. ASSUME NEW l \in (stopped \cup Retiring)'
        PROVE  l[2] <= made'[l[1]] /\ l[2] # held'[l[1]]
    <3>1. l \in Limiters /\ l[1] \in Customers /\ l[2] \in Nat \ {0}
      BY <2>2, <2>3, <2>4 DEF Limiters
    <3>2. made[l[1]] \in Nat /\ held[l[1]] \in Nat
      BY <1>0, <3>1 DEF GatewayConfigTypeOK
    <3>3. CASE l \in stopped \cup Retiring
      <4>1. l[2] <= made[l[1]] /\ l[2] # held[l[1]]
        BY <3>3 DEF LimiterInv
      <4>2. QED
        BY <2>2, <3>1, <3>2, <4>1
    <3>4. CASE l \in Retired(c)
      BY <2>1, <2>2, <3>1, <3>2, <3>4
    <3>5. QED
      BY <2>3, <3>3, <3>4
  <2>6. NoLimiterLeaks'
    <3> SUFFICES ASSUME NEW a \in Customers, NEW n \in 1..made'[a], n # held'[a]
                 PROVE  <<a, n>> \in (stopped \cup Retiring)'
      BY DEF NoLimiterLeaks
    <3>1. made[a] \in Nat /\ held[a] \in Nat
      BY <1>0 DEF GatewayConfigTypeOK
    <3>2. n \in 1..made[a]
      BY <2>2, <3>1
    <3>3. CASE n # held[a]
      BY <2>3, <3>2, <3>3 DEF LimiterInv, NoLimiterLeaks
    <3>4. CASE n = held[a]
      <4>1. c[a] = Absent
        BY <2>2, <3>1, <3>2, <3>4
      <4>2. <<a, n>> \in Limiters
        BY <3>1, <3>2 DEF Limiters
      <4>3. QED
        BY <2>2, <2>3, <3>4, <4>1, <4>2
    <3>5. QED
      BY <3>3, <3>4
  <2>7. FlowsAreLimited'
    <3> SUFFICES ASSUME NEW f \in Flows, flow'[f].limiter # 0, ~flow'[f].removed
                 PROVE  /\ flow'[f].limiter = held'[flow'[f].who]
                        /\ <<flow'[f].who, flow'[f].limiter>>
                             \notin (stopped \cup Retiring)'
      BY DEF FlowsAreLimited
    <3>1. flow'[f] = [flow[f] EXCEPT !.removed =
                        @ \/ (flow[f].limiter # 0 /\ c[flow[f].who] = Absent)]
      BY <1>2 DEF ApplyConfig, c
    <3>2. /\ flow'[f].who = flow[f].who /\ flow'[f].limiter = flow[f].limiter
          /\ flow'[f].removed = (flow[f].removed
                \/ (flow[f].limiter # 0 /\ c[flow[f].who] = Absent))
      BY <1>0, <3>1 DEF GatewayConfigTypeOK, FlowRecs
    <3>3. ~flow[f].removed /\ c[flow[f].who] # Absent /\ flow[f].limiter # 0
      BY <3>2
    <3>4. /\ flow[f].limiter = held[flow[f].who] /\ flow[f].who \in Customers
          /\ flow[f].limiter \in Nat
      BY <1>0, <3>3 DEF LimiterInv, FlowsAreLimited, GatewayConfigTypeOK, FlowRecs
    <3>5. held'[flow[f].who] = held[flow[f].who]
      BY <2>2, <3>3, <3>4
    <3>6. ASSUME <<flow[f].who, flow[f].limiter>> \in (stopped \cup Retiring)'
          PROVE  FALSE
      <4> DEFINE l == <<flow[f].who, flow[f].limiter>>
      <4>1. l[2] # held'[l[1]]
        BY <2>5, <3>6
      <4>2. QED
        BY <3>4, <3>5, <4>1
    <3>7. QED
      BY <3>2, <3>4, <3>5, <3>6
  <2>8. QED
    BY <1>0, <2>2, <2>5, <2>6, <2>7 DEF LimiterInv
<1>3. ASSUME NEW p \in Posts, StopRetired(p) PROVE LimiterInv'
  <2>1. /\ post[p].at = "stopping" /\ stopped' = stopped \cup post[p].retired
        /\ UNCHANGED <<held, made, flow>>
    BY <1>3 DEF StopRetired
  <2>2. \A q \in Posts : q # p => post'[q] = post[q]
    BY <1>0, <1>3 DEF StopRetired, GatewayConfigTypeOK
  <2>3. post'[p].at # "stopping"
    BY <1>0, <1>3 DEF StopRetired, GatewayConfigTypeOK, PostRecs, NoPost
  <2>4. (stopped \cup Retiring)' = stopped \cup Retiring
    BY <2>1, <2>2, <2>3 DEF Retiring
  <2>5. QED
    BY <1>0, <2>1, <2>4, QuietStep
<1>4. ASSUME NEW f \in Flows, Authenticate(f) \/ CloseFlow(f) PROVE LimiterInv'
  <2>1. UNCHANGED <<held, made, stopped, post>> /\ Retiring' = Retiring
    BY <1>4 DEF Authenticate, CloseFlow, storeVars, Retiring
  <2>2. FlowsAreLimited'
    <3> SUFFICES ASSUME NEW g \in Flows, flow'[g].limiter # 0, ~flow'[g].removed
                 PROVE  /\ flow'[g].limiter = held[flow'[g].who]
                        /\ <<flow'[g].who, flow'[g].limiter>> \notin stopped \cup Retiring
      BY <2>1 DEF FlowsAreLimited
    <3>1. CASE flow'[g] = flow[g]
      BY <3>1 DEF LimiterInv, FlowsAreLimited
    <3>2. CASE flow'[g] # flow[g]
      <4>1. g = f /\ Authenticate(f)
        BY <1>0, <1>4, <3>2
           DEF Authenticate, CloseFlow, NoFlow, GatewayConfigTypeOK, FlowRecs
      <4>2. PICK a \in Customers :
              held[a] # 0 /\ flow'[g] = [who |-> a, limiter |-> held[a], removed |-> FALSE]
        BY <1>0, <4>1 DEF Authenticate, GatewayConfigTypeOK
      <4>3. ASSUME <<a, held[a]>> \in stopped \cup Retiring PROVE FALSE
        <5> DEFINE l == <<a, held[a]>>
        <5>1. l[2] # held[l[1]]
          BY <4>3 DEF LimiterInv
        <5>2. QED
          BY <5>1
      <4>4. QED
        BY <4>2, <4>3
    <3>3. QED
      BY <3>1, <3>2
  <2>3. QED
    BY <1>0, <2>1, <2>2 DEF LimiterInv, NoLimiterLeaks
<1>5. CASE GatewayExits
  <2>1. (stopped \cup Retiring)' = {}
    BY <1>5 DEF GatewayExits, Retiring, NoPost
  <2>2. \A a \in Customers : held'[a] = 0 /\ made'[a] = 0
    BY <1>5 DEF GatewayExits
  <2>3. \A f \in Flows : flow'[f].limiter = 0
    BY <1>5 DEF GatewayExits, NoFlow
  <2>4. FlowsAreLimited' /\ NoLimiterLeaks'
    BY <2>2, <2>3 DEF FlowsAreLimited, NoLimiterLeaks
  <2>5. QED
    BY <1>0, <2>1, <2>2, <2>4 DEF LimiterInv
<1>6. CASE GatewayStarts \/ UNCHANGED configVars
  <2>1. UNCHANGED <<held, made, flow, stopped, post>>
    BY <1>6 DEF GatewayStarts, configVars, storeVars
  <2>2. QED
    BY <1>0, <2>1, QuietStep DEF Retiring
<1>7. QED
  BY <1>1, <1>2, <1>3, <1>4, <1>5, <1>6 DEF GatewayConfigNext, Reconcile, Serve

LEMMA InitLimiters == GatewayConfigInit => LimiterInv
<1> SUFFICES ASSUME GatewayConfigInit PROVE LimiterInv
  OBVIOUS
<1> USE GatewayConfigAssumption, ConstantsOfConfig
      DEF GatewayConfigInit, GatewayConfigAssumption
<1>1. pass \in Passes
  BY DEF Passes
<1>2. \A f \in Flows : flow[f].limiter \in 0..made[flow[f].who]
  BY DEF NoFlow, FlowRecs
<1>3. GatewayConfigTypeOK
  <2>1. held \in [Customers -> Nat] /\ made \in [Customers -> Nat]
    OBVIOUS
  <2>2. post \in [Posts -> PostRecs] /\ flow \in [Flows -> FlowRecs]
    OBVIOUS
  <2>3. models \in 0..MaxModels /\ gatewayFaults \in 0..MaxGatewayFaults
    OBVIOUS
  <2>4. QED
    BY <1>1, <1>2, <2>1, <2>2, <2>3 DEF GatewayConfigTypeOK
<1>4. stopped \cup Retiring = {}
  BY DEF Retiring, NoPost
<1>5. FlowsAreLimited /\ NoLimiterLeaks
  BY DEF FlowsAreLimited, NoLimiterLeaks, NoFlow
<1>6. QED
  BY <1>3, <1>4, <1>5 DEF LimiterInv

LEMMA LimiterInvariant == GatewayConfigSpec => []LimiterInv
<1>1. QED
  BY InitLimiters, LimiterStep, PTL DEF GatewayConfigSpec

\* The variables of the client, the store and the requests between them keep
\* their types, and connections hold limiters that were made.
THEOREM ConfigTypeCorrect == GatewayConfigSpec => []GatewayConfigTypeOK
<1>1. LimiterInv => GatewayConfigTypeOK
  BY DEF LimiterInv
<1>2. QED
  BY <1>1, LimiterInvariant, PTL

\* However configurations overtake each other, a connection waits at its account's
\* limiter for as long as the account stays, and Apply forgets no limiter it takes
\* out of the accounts.
THEOREM KeepsLimiters == GatewayConfigSpec => []LimitersHold
<1>1. LimiterInv => LimitersHold
  BY DEF LimiterInv, LimitersHold
<1>2. QED
  BY <1>1, LimiterInvariant, PTL

LEMMA ReadyStep ==
  ReadyInv /\ GatewayConfigTypeOK' /\ [GatewayConfigNext]_configVars => ReadyInv'
<1> SUFFICES ASSUME ReadyInv, GatewayConfigTypeOK', [GatewayConfigNext]_configVars
             PROVE  ReadyInv'
  OBVIOUS
<1>0. GatewayConfigTypeOK
  BY DEF ReadyInv
<1> USE <1>0 DEF ReadyInv, ReadyIsConfigured, storeVars
<1>1. CASE ChangeModel BY <1>1 DEF ChangeModel
<1>2. CASE BeginReconcile
  BY <1>2 DEF BeginReconcile, GatewayConfigTypeOK, Passes
<1>3. CASE ReadHealth
  <2>1. CASE Posting(revision)
    BY <1>3, <2>1 DEF ReadHealth, GatewayConfigTypeOK, Passes
  <2>2. CASE ~Posting(revision)
    BY <1>3, <2>2 DEF ReadHealth, Posting, EndPass, GatewayConfigTypeOK, Passes
  <2>3. QED
    BY <2>1, <2>2
<1>4. CASE PostConfig
  <2>1. PICK p \in Posts :
          /\ post' = [post EXCEPT ![p] = [NoPost EXCEPT !.at = "sent", !.config = pass.model]]
          /\ pass' = [pass EXCEPT !.at = "waiting", !.with = p]
    BY <1>4 DEF PostConfig
  <2>2. pass'.with = p /\ pass'.at = "waiting" /\ pass'.model = pass.model
    BY <2>1 DEF GatewayConfigTypeOK, Passes
  <2>3. post'[p].at = "sent" /\ post'[p].config = pass.model
    BY <2>1 DEF NoPost, GatewayConfigTypeOK
  <2>4. \A q \in Posts : q # p => post'[q] = post[q]
    BY <2>1 DEF GatewayConfigTypeOK
  <2>5. up /\ UNCHANGED <<up, revision, agent, disturbed>>
    BY <1>4 DEF PostConfig
  <2>6. QED
    BY <2>2, <2>3, <2>4, <2>5
<1>5. CASE ReceiveApplied
  <2>1. pass'.at = "idle" /\ pass'.model = pass.model
    BY <1>5 DEF ReceiveApplied, EndPass, GatewayConfigTypeOK, Passes
  <2>2. pass.with \in Posts
    BY DEF GatewayConfigTypeOK, Passes
  <2>3. up /\ (~disturbed => revision = pass.model) /\ UNCHANGED <<up, revision, disturbed>>
    BY <1>5, <2>2 DEF ReceiveApplied
  <2>4. \A p \in Posts : post'[p].at # "none" => post[p].at # "none"
    BY <1>5 DEF ReceiveApplied, NoPost, GatewayConfigTypeOK
  <2>5. QED
    BY <2>1, <2>3, <2>4
<1>6. CASE ReconcileFails \/ RestartClient
  <2>1. pass'.at = "idle"
    <3>1. EndPass
      BY <1>6 DEF ReconcileFails, RestartClient
    <3>2. QED
      BY <3>1 DEF EndPass, GatewayConfigTypeOK, Passes
  <2>5. ~agent'.available
    <3>1. agent' \in {NewClient, [NewClient EXCEPT !.failed = TRUE]}
      BY <1>6 DEF ReconcileFails, RestartClient
    <3>2. QED
      BY <3>1 DEF NewClient
  <2>2. \A p \in Posts : post'[p].at # "none" => post[p].at # "none"
    BY <1>6 DEF ReconcileFails, RestartClient, NoPost
  <2>3. UNCHANGED up
    BY <1>6 DEF ReconcileFails, RestartClient
  <2>4. QED
    BY <2>1, <2>2, <2>3, <2>5
<1>7. ASSUME NEW p \in Posts, ApplyConfig(p) PROVE ReadyInv'
  <2>1. /\ post[p].at = "sent" /\ revision' = post[p].config
        /\ post' = [post EXCEPT ![p].at = "stopping", ![p].retired = Retired(post[p].config)]
        /\ disturbed' = (disturbed \/ ~Awaited(p)) /\ UNCHANGED <<pass, agent, up>>
    BY <1>7 DEF ApplyConfig
  <2>2. \A q \in Posts : q # p => post'[q] = post[q]
    BY <2>1 DEF GatewayConfigTypeOK
  <2>3. post'[p].at = "stopping" /\ post'[p].config = post[p].config
    BY <2>1 DEF GatewayConfigTypeOK, PostRecs
  <2>4. up
    BY <2>1
  <2>5. CASE Awaited(p)
    BY <2>1, <2>2, <2>3, <2>4, <2>5 DEF Awaited
  <2>6. CASE ~Awaited(p)
    <3>1. disturbed'
      BY <2>1, <2>6
    <3>2. pass.at = "waiting" => pass.with \in Posts /\ pass.with # p
      BY <2>6 DEF Awaited, GatewayConfigTypeOK, Passes
    <3>3. QED
      BY <2>1, <2>2, <2>3, <2>4, <3>1, <3>2
  <2>7. QED
    BY <2>5, <2>6
<1>8. ASSUME NEW p \in Posts, StopRetired(p) PROVE ReadyInv'
  <2>1. post[p].at = "stopping" /\ UNCHANGED <<pass, agent, up, revision, disturbed>>
    BY <1>8 DEF StopRetired
  <2>2. \A q \in Posts : q # p => post'[q] = post[q]
    BY <1>8 DEF StopRetired, GatewayConfigTypeOK
  <2>3. Awaited(p) => post'[p].at = "answered" /\ post'[p].config = post[p].config
    BY <1>8 DEF StopRetired, GatewayConfigTypeOK, PostRecs
  <2>4. pass.at = "waiting" => pass.with \in Posts /\ (pass.with = p => Awaited(p))
    BY DEF Awaited, GatewayConfigTypeOK, Passes
  <2>5. QED
    BY <2>1, <2>2, <2>3, <2>4
<1>9. ASSUME NEW f \in Flows, Authenticate(f) \/ CloseFlow(f) PROVE ReadyInv'
  BY <1>9 DEF Authenticate, CloseFlow
<1>10. CASE GatewayExits
  <2>1. pass.with \in Posts
    BY DEF GatewayConfigTypeOK, Passes
  <2>2. disturbed' /\ pass' = pass /\ \A p \in Posts : post'[p].at = "none"
    BY <1>10 DEF GatewayExits, NoPost
  <2>3. QED
    BY <2>1, <2>2
<1>11. CASE GatewayStarts BY <1>11 DEF GatewayStarts
<1>12. CASE UNCHANGED configVars BY <1>12 DEF configVars
<1>13. QED
  BY <1>1, <1>2, <1>3, <1>4, <1>5, <1>6, <1>7, <1>8, <1>9, <1>10, <1>11, <1>12
     DEF GatewayConfigNext, Reconcile, Serve

\* The agent calls the gateway available only when the gateway has what the pass
\* was given, whatever is under way besides, or has just lost it.
THEOREM ReadyMeansConfigured == GatewayConfigSpec => []ReadyIsConfigured
<1>1. GatewayConfigInit => ReadyInv
  <2>1. GatewayConfigInit => GatewayConfigTypeOK
    BY InitLimiters DEF LimiterInv
  <2>2. QED
    BY <2>1 DEF GatewayConfigInit, ReadyInv, ReadyIsConfigured, NewClient, NoPost
<1>2. ReadyInv => ReadyIsConfigured
  BY DEF ReadyInv
<1>3. QED
  BY <1>1, <1>2, ReadyStep, ConfigTypeCorrect, PTL DEF GatewayConfigSpec
=============================================================================
