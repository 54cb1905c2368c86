--------------------------- MODULE TrafficGateway ---------------------------
(***************************************************************************)
(* The Traffic Gateway's connections (services/traffic-gateway, gateway.go *)
(* and registry.go): one handler goroutine per accepted SOCKS connection,  *)
(* two relay goroutines per established one, the idle reaper, and the      *)
(* registry they share. A handler that finds the registry full takes the   *)
(* place of the longest idle connection and closes it; the reaper closes   *)
(* what has been idle for too long; both do so after releasing the         *)
(* registry's lock, while the connection's own handler may be anywhere.    *)
(***************************************************************************)
EXTENDS Naturals, FiniteSets

CONSTANTS
  Connections,   \* sockets the listener accepts
  Maximum,       \* registry.maximum
  MinimumIdle,   \* registry.minimumIdle, in ticks
  MaximumIdle    \* maximumIdle of ReapIdle, in ticks

None == "none"

ASSUME GatewayAssumption ==
  /\ None \notin Connections /\ IsFiniteSet(Connections)
  /\ Maximum \in Nat \ {0}
  /\ MinimumIdle \in Nat /\ MaximumIdle \in Nat \ {0}

Directions == {"up", "down"}

VARIABLES
  pc,          \* pc[c]: where handle(c) is
  copy,        \* copy[c][dir]: where the relay goroutine is
  client,      \* the accepted socket
  remote,      \* the dialed socket
  attached,    \* trackedConnection.remote is set
  closing,     \* how far trackedConnection.Close has come
  registered,  \* registry.connections
  victim,      \* victim[c]: the connection handler c displaced
  reaping,     \* victims of reapIdle that it has yet to close
  age          \* ticks since lastActivity, up to MaximumIdle, 0 once out of
               \* the registry: nobody reads it there

socketVars == <<client, remote, attached, closing>>
vars == <<pc, copy, socketVars, registered, victim, reaping, age>>

Phases == {"new", "greeting", "shedding", "dialing", "dialed",
           "replying", "relay", "half", "aborting", "closing", "removing",
           "gone"}

\* Phases of a handler between admit and its own call of Close.
Holding == {"shedding", "dialing", "dialed", "replying", "relay", "half"}

TypeOK ==
  /\ pc \in [Connections -> Phases]
  /\ copy \in [Connections ->
       [Directions -> {"off", "reading", "writing", "eof", "failed"}]]
  /\ client \in [Connections -> {"none", "open", "closed"}]
  /\ remote \in [Connections -> {"none", "open", "closed"}]
  /\ attached \in [Connections -> BOOLEAN]
  /\ closing \in [Connections -> {"no", "begun", "done"}]
  /\ registered \in SUBSET Connections
  /\ victim \in [Connections -> Connections \cup {None}]
  /\ reaping \in SUBSET Connections
  /\ age \in [Connections -> 0..MaximumIdle]

Init ==
  /\ pc = [c \in Connections |-> "new"]
  /\ copy = [c \in Connections |-> [dir \in Directions |-> "off"]]
  /\ client = [c \in Connections |-> "none"]
  /\ remote = [c \in Connections |-> "none"]
  /\ attached = [c \in Connections |-> FALSE]
  /\ closing = [c \in Connections |-> "no"]
  /\ registered = {} /\ reaping = {}
  /\ victim = [c \in Connections |-> None]
  /\ age = [c \in Connections |-> 0]

Goto(c, from, to) == pc[c] = from /\ pc' = [pc EXCEPT ![c] = to]

-----------------------------------------------------------------------------
(* From accept to admission.                                               *)

Accept(c) ==
  /\ Goto(c, "new", "greeting")
  /\ client' = [client EXCEPT ![c] = "open"]
  /\ UNCHANGED <<copy, remote, attached, closing, registered, victim, reaping,
                 age>>

\* A failed authentication, an unreadable destination, the deadline of 15
\* seconds, or a health probe that has been answered: only the client's socket
\* is there to close, and the registry is not touched.
Dismiss(c) ==
  /\ Goto(c, "greeting", "gone")
  /\ client' = [client EXCEPT ![c] = "closed"]
  /\ UNCHANGED <<copy, remote, attached, closing, registered, victim, reaping,
                 age>>

Full == Cardinality(registered) >= Maximum
Idle(c) == age[c] >= MinimumIdle

AdmitFree(c) ==
  /\ Goto(c, "greeting", "dialing")
  /\ ~Full
  /\ registered' = registered \cup {c}
  /\ UNCHANGED <<copy, socketVars, victim, reaping, age>>

\* Of the registered connections that are idle, the longest idle.
AdmitByShedding(c) ==
  /\ Goto(c, "greeting", "shedding")
  /\ Full
  /\ \E v \in registered :
       /\ Idle(v) /\ \A other \in registered : age[other] <= age[v]
       /\ registered' = (registered \ {v}) \cup {c}
       /\ victim' = [victim EXCEPT ![c] = v]
       /\ age' = [age EXCEPT ![v] = 0]
  /\ UNCHANGED <<copy, socketVars, reaping>>

Reject(c) ==
  /\ Goto(c, "greeting", "gone")
  /\ Full /\ \A v \in registered : ~Idle(v)
  /\ client' = [client EXCEPT ![c] = "closed"]
  /\ UNCHANGED <<copy, remote, attached, closing, registered, victim, reaping,
                 age>>

-----------------------------------------------------------------------------
(* trackedConnection.Close, called by the connection's own handler, by a   *)
(* handler that displaced it, and by the reaper: closeOnce lets the first  *)
(* caller in and makes the others wait for it.                             *)

Displaced(c)   == \E d \in Connections : pc[d] = "shedding" /\ victim[d] = c
CloseCalled(c) == Displaced(c) \/ c \in reaping \/ pc[c] \in {"aborting", "closing"}

BeginClose(c) ==
  /\ CloseCalled(c) /\ closing[c] = "no"
  /\ closing' = [closing EXCEPT ![c] = "begun"]
  /\ client' = [client EXCEPT ![c] = "closed"]
  /\ UNCHANGED <<pc, copy, remote, attached, registered, victim, reaping, age>>

FinishClose(c) ==
  /\ closing[c] = "begun"
  /\ closing' = [closing EXCEPT ![c] = "done"]
  /\ remote' = [remote EXCEPT ![c] = IF attached[c] THEN "closed" ELSE @]
  /\ UNCHANGED <<pc, copy, client, attached, registered, victim, reaping, age>>

VictimClosed(c) ==
  /\ pc[c] = "shedding" => closing[victim[c]] = "done"
  /\ Goto(c, "shedding", "dialing")
  /\ victim' = [victim EXCEPT ![c] = None]
  /\ UNCHANGED <<copy, socketVars, registered, reaping, age>>

-----------------------------------------------------------------------------
(* The remote side.                                                        *)

Dial(c) ==
  /\ Goto(c, "dialing", "dialed")
  /\ remote' = [remote EXCEPT ![c] = "open"]
  /\ UNCHANGED <<copy, client, attached, closing, registered, victim, reaping,
                 age>>

DialFails(c) ==
  /\ Goto(c, "dialing", "closing")
  /\ UNCHANGED <<copy, socketVars, registered, victim, reaping, age>>

\* Mutant of SetRemote: a socket that came too late is dropped, not closed.
SetRemoteDropping(c) ==
  /\ \/ closing[c] = "done" /\ Goto(c, "dialed", "closing") /\ UNCHANGED attached
     \/ /\ closing[c] # "done" /\ Goto(c, "dialed", "replying")
        /\ attached' = [attached EXCEPT ![c] = TRUE]
  /\ UNCHANGED <<copy, client, remote, closing, registered, victim, reaping, age>>

SetRemote(c) ==
  /\ \/ /\ closing[c] = "done" /\ Goto(c, "dialed", "closing")
        /\ remote' = [remote EXCEPT ![c] = "closed"]
        /\ UNCHANGED attached
     \/ /\ closing[c] # "done" /\ Goto(c, "dialed", "replying")
        /\ attached' = [attached EXCEPT ![c] = TRUE]
        /\ UNCHANGED remote
  /\ UNCHANGED <<copy, client, closing, registered, victim, reaping, age>>

Establish(c) ==
  /\ client[c] = "open"
  /\ Goto(c, "replying", "relay")
  /\ copy' = [copy EXCEPT ![c] = [dir \in Directions |-> "reading"]]
  /\ UNCHANGED <<socketVars, registered, victim, reaping, age>>

ReplyFails(c) ==
  /\ Goto(c, "replying", "closing")
  /\ UNCHANGED <<copy, socketVars, registered, victim, reaping, age>>

-----------------------------------------------------------------------------
(* proxyCopy, in each direction.                                           *)

Source(c, dir)      == IF dir = "up" THEN client[c] ELSE remote[c]
Destination(c, dir) == IF dir = "up" THEN remote[c] ELSE client[c]

CopyGoto(c, dir, from, to) ==
  /\ copy[c][dir] = from
  /\ copy' = [copy EXCEPT ![c][dir] = to]

\* A chunk arrives; it waits for the limiters, one second at the most, and
\* for the other peer to take it, which has no limit.
Read(c, dir) ==
  /\ Source(c, dir) = "open"
  /\ CopyGoto(c, dir, "reading", "writing")
  /\ UNCHANGED <<pc, socketVars, registered, victim, reaping, age>>

Write(c, dir) ==
  /\ Destination(c, dir) = "open"
  /\ CopyGoto(c, dir, "writing", "reading")
  /\ age' = [age EXCEPT ![c] = 0]
  /\ UNCHANGED <<pc, socketVars, registered, victim, reaping>>

SourceEnds(c, dir) ==
  /\ Source(c, dir) = "open"
  /\ CopyGoto(c, dir, "reading", "eof")
  /\ UNCHANGED <<pc, socketVars, registered, victim, reaping, age>>

CopyFails(c, dir) ==
  /\ copy[c][dir] \in {"reading", "writing"}
  /\ copy' = [copy EXCEPT ![c][dir] = "failed"]
  /\ UNCHANGED <<pc, socketVars, registered, victim, reaping, age>>

\* The socket the goroutine is blocked on has been closed under it.
CopyUnblocked(c, dir) ==
  /\ \/ copy[c][dir] = "reading" /\ Source(c, dir) = "closed"
     \/ copy[c][dir] = "writing" /\ Destination(c, dir) = "closed"
  /\ CopyFails(c, dir)

Ended(c, dir) == copy[c][dir] \in {"eof", "failed"}

-----------------------------------------------------------------------------
(* The end of a connection.                                                *)

FirstCopyEnds(c) ==
  /\ \E dir \in Directions :
       \/ copy[c][dir] = "failed" /\ Goto(c, "relay", "aborting")
       \/ copy[c][dir] = "eof"    /\ Goto(c, "relay", "half")
  /\ UNCHANGED <<copy, socketVars, registered, victim, reaping, age>>

\* The other copy ends, or thirty seconds pass.
HalfEnds(c) ==
  /\ Goto(c, "half", "closing")
  /\ UNCHANGED <<copy, socketVars, registered, victim, reaping, age>>

\* After a failure the handler waits for both copies; after a half close it
\* leaves the second to find its sockets closed.
Closed(c) ==
  /\ closing[c] = "done"
  /\ \/ Goto(c, "closing", "removing")
     \/ Goto(c, "aborting", "removing") /\ \A dir \in Directions : Ended(c, dir)
  /\ UNCHANGED <<copy, socketVars, registered, victim, reaping, age>>

Remove(c) ==
  /\ Goto(c, "removing", "gone")
  /\ registered' = registered \ {c}
  /\ age' = [age EXCEPT ![c] = 0]
  /\ UNCHANGED <<copy, socketVars, victim, reaping>>

-----------------------------------------------------------------------------
(* Time and the reaper.                                                    *)

Tick ==
  /\ age' = [c \in Connections |->
               IF c \in registered /\ age[c] < MaximumIdle THEN age[c] + 1 ELSE age[c]]
  /\ UNCHANGED <<pc, copy, socketVars, registered, victim, reaping>>

Expired == {c \in registered : age[c] >= MaximumIdle}

\* Mutant of ReapIdle: the victims are forgotten, and never closed.
ReapForgetting ==
  /\ reaping = {} /\ Expired # {}
  /\ registered' = registered \ Expired
  /\ age' = [c \in Connections |-> IF c \in Expired THEN 0 ELSE age[c]]
  /\ UNCHANGED <<pc, copy, socketVars, victim, reaping>>

ReapIdle ==
  /\ reaping = {} /\ Expired # {}
  /\ registered' = registered \ Expired
  /\ reaping' = Expired
  /\ age' = [c \in Connections |-> IF c \in Expired THEN 0 ELSE age[c]]
  /\ UNCHANGED <<pc, copy, socketVars, victim>>

Reaped(c) ==
  /\ c \in reaping /\ closing[c] = "done"
  /\ reaping' = reaping \ {c}
  /\ UNCHANGED <<pc, copy, socketVars, registered, victim, age>>

-----------------------------------------------------------------------------
\* What the gateway does by itself, sooner or later.
Handle(c) ==
  \/ Dismiss(c)
  \/ AdmitFree(c) \/ AdmitByShedding(c) \/ Reject(c) \/ VictimClosed(c)
  \/ Dial(c) \/ DialFails(c) \/ SetRemote(c) \/ Establish(c) \/ ReplyFails(c)
  \/ FirstCopyEnds(c) \/ HalfEnds(c) \/ Closed(c) \/ Remove(c)

CloseStep(c) == BeginClose(c) \/ FinishClose(c) \/ Reaped(c)

\* What the peers do, if they like.
Peers(c, dir) ==
  Read(c, dir) \/ Write(c, dir) \/ SourceEnds(c, dir) \/ CopyFails(c, dir)

Next ==
  \/ \E c \in Connections :
       \/ Accept(c) \/ Handle(c) \/ CloseStep(c)
       \/ \E dir \in Directions : Peers(c, dir)
  \/ Tick \/ ReapIdle

Spec == Init /\ [][Next]_vars

Fairness ==
  /\ WF_vars(Tick) /\ WF_vars(ReapIdle)
  /\ \A c \in Connections :
       /\ WF_vars(Handle(c)) /\ WF_vars(CloseStep(c))
       /\ \A dir \in Directions : WF_vars(CopyUnblocked(c, dir))

FairSpec == Spec /\ Fairness

-----------------------------------------------------------------------------
(* Properties.                                                             *)

\* admit never lets more than Maximum connections into the registry.
CapacityRespected == Cardinality(registered) <= Maximum

\* A connection that was pushed out of the registry is being closed, so
\* the connections beyond Maximum are only those on their way out.
OutsideIsClosing ==
  \A c \in Connections :
    (pc[c] \in Holding /\ c \notin registered) =>
      closing[c] # "no" \/ CloseCalled(c)

\* Close and setRemote cannot miss each other: once Close is through, a socket
\* still open is one that setRemote has yet to see, and it will close it.
ClosedHasNoRemote ==
  \A c \in Connections :
    (closing[c] = "done" /\ remote[c] = "open") => pc[c] = "dialed"

\* A handler that has returned leaves nothing behind.
NothingLeaks ==
  \A c \in Connections : pc[c] = "gone" =>
    /\ client[c] = "closed" /\ remote[c] # "open"
    /\ c \notin registered

\* Unless its traffic keeps flowing a connection ends, even if its peers stop
\* reading, writing and closing, and its two relay goroutines end with it: the
\* reaper sees to it.
Over(c) == pc[c] = "gone" /\ \A dir \in Directions : copy[c][dir] \notin {"reading", "writing"}
ConnectionsEnd ==
  \A c \in Connections :
    \/ []<><<\E dir \in Directions : Write(c, dir)>>_vars
    \/ pc[c] = "greeting" ~> Over(c)

-----------------------------------------------------------------------------
(* Inductive invariants.                                                   *)

\* Who may be registered, displaced or reaped: a connection that was admitted.
Admitted(c) == pc[c] \notin {"new", "greeting"}

RegistryInv ==
  /\ Cardinality(registered) <= Maximum
  /\ \A c \in registered : Admitted(c) /\ pc[c] # "gone"
  /\ \A c \in reaping : Admitted(c)
  /\ \A c \in Connections : pc[c] = "shedding" =>
       victim[c] \in Connections /\ Admitted(victim[c])

\* Where the two sockets of a connection can be, and who has seen them.
SocketInv(c) ==
  /\ ~Admitted(c) => closing[c] = "no"
  /\ closing[c] # "no" => client[c] = "closed"
  /\ pc[c] \in {"new", "greeting", "shedding", "dialing"} =>
       remote[c] = "none" /\ ~attached[c]
  /\ pc[c] = "dialed" => ~attached[c]
  /\ (remote[c] = "open" /\ pc[c] # "dialed") => attached[c] /\ closing[c] # "done"
  /\ pc[c] = "removing" => closing[c] = "done"
  /\ pc[c] = "gone" => client[c] = "closed" /\ remote[c] # "open"

GatewayInv ==
  /\ RegistryInv /\ OutsideIsClosing
  /\ \A c \in Connections : SocketInv(c)
=============================================================================
