------------------------------- MODULE Setup -------------------------------
(***************************************************************************)
(* First-run setup: POST /api/setup/bootstrap, which the installer calls,  *)
(* and scripts/bootstrap-owner.ts, which a developer runs. The route reads *)
(* whether it is locked and whether an owner exists with two queries side  *)
(* by side, creates the owner in a transaction of the authentication       *)
(* library, and finishes in another. Nothing removes an owner.             *)
(***************************************************************************)
EXTENDS Naturals, FiniteSets

CONSTANTS
  Setups,    \* calls of the route
  Names,     \* user names
  MaxRuns    \* bound: runs of the script

ASSUME SetupAssumption == IsFiniteSet(Setups) /\ MaxRuns \in Nat

VARIABLES
  owners,    \* names of the users whose role is owner
  locked,    \* instance_settings.setup_locked_at is set
  finalize,  \* the calls whose FINALIZE_SETUP and UPDATE_DUCKDNS are queued
  setup,     \* each call: where it is, the name it asks for, what it has read
  script,    \* the script: what it does next, and for which name
  runs,
  late       \* history: the calls that began when an owner existed

setupVars == <<owners, locked, finalize, setup, script, runs, late>>

Calls  == [at : {"new", "checking", "created", "done", "refused", "failed"},
           name : Names, read : SUBSET {"lock", "owner"}]
Steps  == {"idle", "create", "settings"}

SetupTypeOK ==
  /\ owners \in SUBSET Names /\ locked \in BOOLEAN /\ finalize \in SUBSET Setups
  /\ setup \in [Setups -> Calls]
  /\ script \in [next : Steps, name : Names] /\ runs \in 0..MaxRuns
  /\ late \in SUBSET Setups

SetupInit ==
  /\ owners = {} /\ locked = FALSE /\ finalize = {}
  /\ \E n \in Names :
       /\ setup = [b \in Setups |-> [at |-> "new", name |-> n, read |-> {}]]
       /\ script = [next |-> "idle", name |-> n]
  /\ runs = 0 /\ late = {}

-----------------------------------------------------------------------------
(* The route.                                                              *)

\* The token is right and the body parses.
BeginSetup(b) ==
  /\ setup[b].at = "new"
  /\ \E n \in Names :
       setup' = [setup EXCEPT ![b].at = "checking", ![b].name = n]
  /\ late' = IF owners # {} THEN late \cup {b} ELSE late
  /\ UNCHANGED <<owners, locked, finalize, script, runs>>

Read(b, what, found) ==
  /\ setup[b].at = "checking" /\ what \notin setup[b].read
  /\ setup' = IF found THEN [setup EXCEPT ![b].at = "refused"]
                       ELSE [setup EXCEPT ![b].read = @ \cup {what}]
  /\ UNCHANGED <<owners, locked, finalize, script, runs, late>>

ReadLock(b) == Read(b, "lock", locked)

\* Mutant of ReadOwner: the lock alone is asked.
OwnerUnread(b) == Read(b, "owner", FALSE)

ReadOwner(b) == Read(b, "owner", owners # {})

\* auth.api.createUser: the user name is unique.
CreateOwner(b) ==
  /\ setup[b].at = "checking" /\ setup[b].read = {"lock", "owner"}
  /\ IF setup[b].name \in owners
     THEN setup' = [setup EXCEPT ![b].at = "failed"] /\ UNCHANGED owners
     ELSE /\ setup' = [setup EXCEPT ![b].at = "created"]
          /\ owners' = owners \cup {setup[b].name}
  /\ UNCHANGED <<locked, finalize, script, runs, late>>

\* The transaction: settings, the token of DuckDNS, two commands, the audit log.
LockSetup(b) ==
  /\ setup[b].at = "created" /\ setup' = [setup EXCEPT ![b].at = "done"]
  /\ locked' = TRUE /\ finalize' = finalize \cup {b}
  /\ UNCHANGED <<owners, script, runs, late>>

\* A statement fails or the process ends; the owner that was created stays.
FailSetup(b) ==
  /\ setup[b].at \in {"checking", "created"}
  /\ setup' = [setup EXCEPT ![b].at = "failed"]
  /\ UNCHANGED <<owners, locked, finalize, script, runs, late>>

-----------------------------------------------------------------------------
(* The script: no transaction and no lock. The reset of a password, which  *)
(* it also does, is in Sessions.                                           *)

RunScript ==
  /\ script.next = "idle" /\ runs < MaxRuns /\ runs' = runs + 1
  /\ \E n \in Names : script' =
       [next |-> IF n \in owners THEN "idle" ELSE "create", name |-> n]
  /\ UNCHANGED <<owners, locked, finalize, setup, late>>

ScriptCreates ==
  /\ script.next = "create"
  /\ script' = [script EXCEPT !.next = IF script.name \in owners
                                         THEN "idle" ELSE "settings"]
  /\ owners' = owners \cup {script.name}
  /\ UNCHANGED <<locked, finalize, setup, runs, late>>

\* The settings are written without a lock.
ScriptSettles ==
  /\ script.next = "settings" /\ script' = [script EXCEPT !.next = "idle"]
  /\ UNCHANGED <<owners, locked, finalize, setup, runs, late>>

SetupNext ==
  \/ \E b \in Setups :
       \/ BeginSetup(b) \/ ReadLock(b) \/ ReadOwner(b) \/ CreateOwner(b)
       \/ LockSetup(b) \/ FailSetup(b)
  \/ RunScript \/ ScriptCreates \/ ScriptSettles

SetupSpec == SetupInit /\ [][SetupNext]_setupVars

-----------------------------------------------------------------------------
(* Properties.                                                             *)

\* Once an owner exists, by whatever way and however far setup got, a call that
\* begins creates no other: only calls that overlap can (route.ts: 409).
LateSetupRefused ==
  \A b \in late : setup[b].at \notin {"created", "done"} /\ b \notin finalize

\* A locked instance has its owner, and the commands that finish the
\* installation are queued by exactly the calls that locked it.
LockIsComplete ==
  /\ locked => owners # {} /\ finalize # {}
  /\ finalize = {b \in Setups : setup[b].at = "done"}

\* An owner without the lock is what a call left behind that failed or has not
\* finished, or the work of the script; a call that succeeded has locked.
OpenOnlyHalfway ==
  owners # {} /\ ~locked =>
    \/ \E b \in Setups : setup[b].at \in {"created", "failed"}
    \/ runs > 0

\* Setup happens once, and wholly or visibly not (route.ts).
SetupHolds == SetupTypeOK /\ LateSetupRefused /\ LockIsComplete /\ OpenOnlyHalfway

\* The strengthening: a late call finds the owner, who stays.
SetupInv ==
  /\ SetupTypeOK /\ LateSetupRefused /\ LockIsComplete /\ OpenOnlyHalfway
  /\ \A b \in late : owners # {} /\ "owner" \notin setup[b].read
  /\ \A b \in Setups :
       /\ setup[b].at = "new" => setup[b].read = {}
       /\ setup[b].at = "created" => owners # {}
  /\ script.next # "idle" => runs > 0
=============================================================================
