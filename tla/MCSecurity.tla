----------------------------- MODULE MCSecurity -----------------------------
(***************************************************************************)
(* Who is kept out, and who is let in: the bans of an address, first-run   *)
(* setup, and sessions, where either two calls that make a session and a   *)
(* request overlap, or a call and two requests. No two parts share any     *)
(* state: a behaviour is one part's, and the variables of the others stay  *)
(* as they are at first.                                                   *)
(***************************************************************************)
EXTENDS BanRecords, Setup, Sessions, TLC

CONSTANT Callers  \* bound: whose calls overlap each other, and whose accounts
                  \* change where they do

VARIABLE part

\* The name a script would use differs only where there is one.
SecurityInit ==
  /\ part \in {"bans", "setup", "calls", "requests"} /\ Init /\ SetupInit /\ SessionsInit
  /\ part # "setup" => script.name = CHOOSE n \in Names : TRUE

CallsUnderWay    == {a \in Attempts : attempt[a].at # "idle"}
RequestsUnderWay == {q \in Operations : operation[q].at # "idle"}

\* One thing of a kind is under way where the other may be two.
Bounded ==
  \/ part = "requests" /\ Cardinality(CallsUnderWay') <= 1
  \/ /\ part = "calls" /\ Cardinality(RequestsUnderWay') <= 1
     /\ \A a \in CallsUnderWay' : attempt'[a].who \in Callers
     /\ \A p \in People \ Callers :
          role'[p] = role[p] /\ banned'[p] = banned[p] /\ password'[p] = password[p]

SecurityNext ==
  /\ UNCHANGED part
  /\ \/ part = "bans" /\ Next /\ UNCHANGED <<setupVars, sessionVars>>
     \/ part = "setup" /\ SetupNext /\ UNCHANGED <<vars, sessionVars>>
     \/ SessionsNext /\ Bounded /\ UNCHANGED <<vars, setupVars>>

SecuritySpec ==
  SecurityInit /\ [][SecurityNext]_<<part, vars, setupVars, sessionVars>>

\* The calls differ in nothing but their names, and so do the requests.
Symmetry == Permutations(Attempts) \cup Permutations(Operations)
=============================================================================
