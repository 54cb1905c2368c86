--------------------------- MODULE SecurityProofs ---------------------------
(***************************************************************************)
(* For any number of requests and any threshold: overlapping handlers do   *)
(* not miss the ban, and automatic bans leave an administrator's decision  *)
(* be. For any number of calls, sign-ins, requests and people: setup       *)
(* creates no late owner, suspension and new passwords end sessions, every *)
(* chain of redirects is short, and an owner remains.                      *)
(***************************************************************************)
EXTENDS BanRecords, Setup, Sessions, FiniteSetTheorems, TLAPS

(* The ban of an address.                                                  *)

\* The bans the routes write are rows.
LEMMA WrittenBans == Permanent \in Bans /\ Temporary \in Bans
  BY DEF Permanent, Temporary, Bans

\* The events of the last five minutes are finitely many, and forgetting one of
\* them does not make them more.
LEMMA RecentIsFinite ==
  ASSUME TypeOK PROVE IsFiniteSet(recent) /\ Cardinality(recent) \in Nat
  BY BanAssumption, FS_Subset, FS_CardinalityType DEF BanAssumption, TypeOK

LEMMA ForgottenAreFewer ==
  ASSUME TypeOK, NEW r \in Requests
  PROVE  /\ Cardinality(recent \ {r}) \in Nat
         /\ Cardinality(recent \ {r}) <= Cardinality(recent)
<1>1. IsFiniteSet(recent)
  BY RecentIsFinite
<1>2. recent \ {r} \subseteq recent
  OBVIOUS
<1>3. QED
  BY <1>1, <1>2, FS_Subset, FS_CardinalityType

\* Nothing has been banned, recorded or decided at first.
LEMMA InitBans == Init => BanInv
<1> SUFFICES ASSUME Init PROVE BanInv
  OBVIOUS
<1>1. TypeOK
  <2>1. 0 \in 0..MaxDecisions /\ 0 \in 0..MaxFaults
    BY BanAssumption DEF BanAssumption
  <2>2. pc \in [Requests -> {"new", "insert", "lookup", "count", "upsert", "done"}]
    BY DEF Init
  <2>3. QED
    BY <2>1, <2>2 DEF Init, TypeOK
<1>2. Cardinality(recent) = 0
  BY FS_EmptySet DEF Init
<1>3. CountersRemain
  BY <1>2, BanAssumption DEF CountersRemain, BanAssumption
<1>4. NobodyMissedTheBan /\ DecisionStands
  BY DEF Init, NobodyMissedTheBan, DecisionStands
<1>5. QED
  BY <1>1, <1>3, <1>4 DEF BanInv

\* The types.
LEMMA TypeStep == ASSUME TypeOK, [Next]_vars PROVE TypeOK'
<1> USE DEF TypeOK, Goto, requests, admin
<1>1. ASSUME NEW r \in Requests, RequestStep(r) PROVE TypeOK'
  <2>1. CASE Screen(r)
    BY <2>1 DEF Screen
  <2>2. CASE InsertEvent(r)
    BY <2>2 DEF InsertEvent
  <2>3. CASE FindBan(r)
    BY <2>3 DEF FindBan
  <2>4. CASE FindNoBan(r)
    BY <2>4 DEF FindNoBan
  <2>5. CASE CountEvents(r)
    BY <2>5 DEF CountEvents
  <2>6. CASE UpsertBan(r)
    BY <2>6, WrittenBans DEF UpsertBan
  <2>7. CASE Fail(r)
    BY <2>7, BanAssumption DEF Fail, BanAssumption
  <2>8. CASE Forget(r)
    BY <2>8 DEF Forget
  <2>9. QED
    BY <1>1, <2>1, <2>2, <2>3, <2>4, <2>5, <2>6, <2>7, <2>8 DEF RequestStep
<1>2. CASE AdminStep
  <2>1. ASSUME NEW d \in {"permanent", "temporary"}, PostBan(d) PROVE TypeOK'
    BY <2>1, WrittenBans, BanAssumption DEF PostBan, Begin, Decide, BanAssumption
  <2>2. ASSUME NEW action \in {"release", "permanent", "temporary"},
               SelectBan(action)
        PROVE  TypeOK'
    BY <2>2, BanAssumption DEF SelectBan, Begin, BanAssumption
  <2>3. CASE ReleaseBan
    <3>1. [ban EXCEPT !.released = TRUE] \in Bans
      BY <2>3 DEF ReleaseBan, Bans
    <3>2. QED
      BY <2>3, <3>1 DEF ReleaseBan, Decide
  <2>4. CASE ChangeBan
    BY <2>4, WrittenBans DEF ChangeBan, Decide
  <2>5. CASE UpdateNothing
    BY <2>5 DEF UpdateNothing
  <2>6. QED
    BY <1>2, <2>1, <2>2, <2>3, <2>4, <2>5 DEF AdminStep
<1>3. CASE Expire
  <2>1. [ban EXCEPT !.expires = "past"] \in Bans
    BY <1>3 DEF Expire, Bans
  <2>2. QED
    BY <1>3, <2>1 DEF Expire
<1>4. CASE CleanUp
  BY <1>4 DEF CleanUp
<1>5. CASE UNCHANGED vars
  BY <1>5 DEF vars
<1>6. QED
  BY <1>1, <1>2, <1>3, <1>4, <1>5 DEF Next

\* Between recording an event and answering it, its handler is on its way.
LEMMA CountersStep ==
  ASSUME TypeOK, CountersRemain, [Next]_vars PROVE CountersRemain'
<1> USE DEF TypeOK, CountersRemain, Goto
<1>1. ASSUME UNCHANGED <<requests, faults, answered>> PROVE CountersRemain'
  BY <1>1 DEF requests
<1>2. ASSUME NEW r \in Requests, RequestStep(r) PROVE CountersRemain'
  <2>1. CASE Screen(r)
    BY <2>1 DEF Screen
  <2>2. CASE InsertEvent(r)
    BY <2>2 DEF InsertEvent
  <2>3. CASE FindBan(r)
    BY <2>3 DEF FindBan
  <2>4. CASE FindNoBan(r)
    BY <2>4 DEF FindNoBan
  <2>5. CASE CountEvents(r)
    \* Who stops below the threshold leaves fewer events than that.
    <3>1. CASE Cardinality(recent) < Threshold
      <4>1. ~(Cardinality(recent) >= Threshold)
        BY <3>1, RecentIsFinite, BanAssumption DEF BanAssumption
      <4>2. QED
        BY <2>5, <4>1 DEF CountEvents
    <3>2. CASE ~(Cardinality(recent) < Threshold)
      BY <2>5, <3>2 DEF CountEvents
    <3>3. QED
      BY <3>1, <3>2
  <2>6. CASE UpsertBan(r)
    BY <2>6 DEF UpsertBan
  <2>7. CASE Fail(r)
    BY <2>7, BanAssumption DEF Fail, BanAssumption
  <2>8. CASE Forget(r)
    <3>1. Cardinality(recent') >= Threshold => Cardinality(recent) >= Threshold
      BY <2>8, ForgottenAreFewer, RecentIsFinite, BanAssumption
      DEF Forget, BanAssumption
    <3>2. QED
      BY <2>8, <3>1 DEF Forget
  <2>9. QED
    BY <1>2, <2>1, <2>2, <2>3, <2>4, <2>5, <2>6, <2>7, <2>8 DEF RequestStep
<1>3. CASE AdminStep
  BY <1>1, <1>3 DEF AdminStep, PostBan, SelectBan, ReleaseBan, ChangeBan,
     UpdateNothing, Decide, Begin
<1>4. CASE Expire \/ CleanUp
  BY <1>1, <1>4 DEF Expire, CleanUp
<1>5. CASE UNCHANGED vars
  BY <1>1, <1>5 DEF vars
<1>6. QED
  BY <1>2, <1>3, <1>4, <1>5 DEF Next

\* A decision holds off automatic bans, unless a request overlaps it.
LEMMA DecisionStep ==
  ASSUME BanInv, [Next]_vars PROVE NobodyMissedTheBan' /\ DecisionStands'
<1> USE DEF BanInv, TypeOK, NobodyMissedTheBan, DecisionStands, Goto
<1>1. ASSUME NEW r \in Requests, RequestStep(r)
      PROVE  NobodyMissedTheBan' /\ DecisionStands'
  <2>1. CASE Screen(r)
    BY <2>1 DEF Screen, admin
  <2>2. CASE InsertEvent(r)
    BY <2>2 DEF InsertEvent, admin
  <2>3. CASE FindBan(r)
    BY <2>3 DEF FindBan, admin
  <2>4. CASE FindNoBan(r)
    \* A ban that stands is in force, so it would have been found.
    <3>1. decision = "none" \/ overlap
      BY <2>4 DEF FindNoBan, InForce, Bans
    <3>2. QED
      BY <2>4, <3>1 DEF FindNoBan, admin
  <2>5. CASE CountEvents(r)
    BY <2>5 DEF CountEvents, admin
  <2>6. CASE UpsertBan(r)
    BY <2>6 DEF UpsertBan, admin
  <2>7. CASE Fail(r)
    BY <2>7 DEF Fail, admin
  <2>8. CASE Forget(r)
    BY <2>8 DEF Forget, admin
  <2>9. QED
    BY <1>1, <2>1, <2>2, <2>3, <2>4, <2>5, <2>6, <2>7, <2>8 DEF RequestStep
<1>2. CASE AdminStep
  <2>1. ASSUME NEW d \in {"permanent", "temporary"}, PostBan(d)
        PROVE  NobodyMissedTheBan' /\ DecisionStands'
    BY <2>1, WrittenBans, BanAssumption
    DEF PostBan, Decide, requests, Permanent, Temporary, BanAssumption
  <2>2. ASSUME NEW action \in {"release", "permanent", "temporary"},
               SelectBan(action)
        PROVE  NobodyMissedTheBan' /\ DecisionStands'
    BY <2>2 DEF SelectBan, requests
  <2>3. CASE ReleaseBan
    BY <2>3 DEF ReleaseBan, Decide
  <2>4. CASE ChangeBan
    BY <2>4, WrittenBans, BanAssumption
    DEF ChangeBan, Decide, requests, Permanent, Temporary, BanAssumption
  <2>5. CASE UpdateNothing
    BY <2>5 DEF UpdateNothing, requests
  <2>6. QED
    BY <1>2, <2>1, <2>2, <2>3, <2>4, <2>5 DEF AdminStep
<1>3. CASE Expire
  BY <1>3 DEF Expire
<1>4. CASE CleanUp
  BY <1>4 DEF CleanUp, admin, requests
<1>5. CASE UNCHANGED vars
  BY <1>5 DEF vars, admin, requests
<1>6. QED
  BY <1>1, <1>2, <1>3, <1>4, <1>5 DEF Next

\* Every behaviour keeps the invariant.
LEMMA BanInvariance == Spec => []BanInv
<1>1. BanInv /\ [Next]_vars => BanInv'
  BY TypeStep, CountersStep, DecisionStep DEF BanInv
<1>2. QED
  BY InitBans, <1>1, PTL DEF Spec

\* The type invariant; in it, that only a permanent ban has no expiry.
THEOREM BanTypeCorrect == Spec => []TypeOK
<1>1. BanInv => TypeOK
  BY DEF BanInv
<1>2. QED
  BY BanInvariance, <1>1, PTL

\* Overlapping requests cannot all miss the threshold, however many there are.
THEOREM ThresholdIsMet == Spec => []ThresholdBans
<1>1. BanInv => ThresholdBans
  BY DEF BanInv, TypeOK, CountersRemain, ThresholdBans
<1>2. QED
  BY BanInvariance, <1>1, PTL

\* Automatic bans and the cleanup leave an administrator's ban as it is, unless a
\* request had looked for a ban before it was made.
THEOREM DecisionsStand == Spec => []DecisionStands
<1>1. BanInv => DecisionStands
  BY DEF BanInv
<1>2. QED
  BY BanInvariance, <1>1, PTL

-----------------------------------------------------------------------------
(* First-run setup.                                                        *)

LEMMA InitSetup == SetupInit => SetupInv
<1> SUFFICES ASSUME SetupInit PROVE SetupInv
  OBVIOUS
<1>1. SetupTypeOK
  <2>1. 0 \in 0..MaxRuns
    BY SetupAssumption DEF SetupAssumption
  <2>2. PICK n \in Names :
          /\ setup = [b \in Setups |-> [at |-> "new", name |-> n, read |-> {}]]
          /\ script = [next |-> "idle", name |-> n]
    BY DEF SetupInit
  <2>3. [at |-> "new", name |-> n, read |-> {}] \in Calls
    BY DEF Calls
  <2>4. setup \in [Setups -> Calls] /\ script \in [next : Steps, name : Names]
    BY <2>2, <2>3 DEF Steps
  <2>5. QED
    BY <2>1, <2>4 DEF SetupInit, SetupTypeOK
<1>2. LateSetupRefused /\ LockIsComplete /\ OpenOnlyHalfway
  BY DEF SetupInit, LateSetupRefused, LockIsComplete, OpenOnlyHalfway
<1>3. QED
  BY <1>1, <1>2 DEF SetupInv, SetupInit

LEMMA SetupTypes == ASSUME SetupTypeOK, SetupNext PROVE SetupTypeOK'
<1> USE DEF SetupTypeOK, Calls, Steps
<1>1. ASSUME NEW b \in Setups, BeginSetup(b) PROVE SetupTypeOK'
  <2>1. PICK n \in Names :
          setup' = [setup EXCEPT ![b].at = "checking", ![b].name = n]
    BY <1>1 DEF BeginSetup
  <2>2. setup' \in [Setups -> Calls]
    BY <2>1
  <2>3. late' \in SUBSET Setups
    BY <1>1 DEF BeginSetup
  <2>4. QED
    BY <1>1, <2>2, <2>3 DEF BeginSetup
<1>2. ASSUME NEW b \in Setups, ReadLock(b) PROVE SetupTypeOK'
  BY <1>2 DEF ReadLock, Read
<1>3. ASSUME NEW b \in Setups, ReadOwner(b) PROVE SetupTypeOK'
  BY <1>3 DEF ReadOwner, Read
<1>4. ASSUME NEW b \in Setups, CreateOwner(b) PROVE SetupTypeOK'
  BY <1>4 DEF CreateOwner
<1>5. ASSUME NEW b \in Setups, LockSetup(b) PROVE SetupTypeOK'
  BY <1>5 DEF LockSetup
<1>6. ASSUME NEW b \in Setups, FailSetup(b) PROVE SetupTypeOK'
  BY <1>6 DEF FailSetup
<1>7. CASE RunScript
  BY <1>7, SetupAssumption DEF RunScript, SetupAssumption
<1>8. CASE ScriptCreates
  BY <1>8 DEF ScriptCreates
<1>9. CASE ScriptSettles
  BY <1>9 DEF ScriptSettles
<1>10. QED
  BY <1>1, <1>2, <1>3, <1>4, <1>5, <1>6, <1>7, <1>8, <1>9 DEF SetupNext

LEMMA SetupStep == ASSUME SetupInv, [SetupNext]_setupVars PROVE SetupInv'
<1> USE DEF SetupInv, LateSetupRefused, LockIsComplete, OpenOnlyHalfway
<1>1. CASE UNCHANGED setupVars
  BY <1>1 DEF setupVars, SetupTypeOK
<1>2. ASSUME SetupNext PROVE SetupInv'
  <2>1. SetupTypeOK'
    BY <1>2, SetupTypes
  <2> USE <2>1 DEF SetupTypeOK
  <2>2. ASSUME NEW b \in Setups, BeginSetup(b) PROVE SetupInv'
    <3>1. \A c \in Setups : setup'[c].at = (IF c = b THEN "checking" ELSE setup[c].at)
                            /\ setup'[c].read = setup[c].read
      <4>1. PICK n \in Names :
              setup' = [setup EXCEPT ![b].at = "checking", ![b].name = n]
        BY <2>2 DEF BeginSetup
      <4>2. QED
        BY <4>1 DEF Calls
    <3>2. setup[b].at = "new"
      BY <2>2 DEF BeginSetup
    <3>3. QED
      BY <2>2, <3>1, <3>2 DEF BeginSetup
  <2>3. ASSUME NEW b \in Setups, ReadLock(b) \/ ReadOwner(b) PROVE SetupInv'
    BY <2>3 DEF ReadLock, ReadOwner, Read, Calls
  <2>4. ASSUME NEW b \in Setups, CreateOwner(b) PROVE SetupInv'
    BY <2>4 DEF CreateOwner, Calls
  <2>5. ASSUME NEW b \in Setups, LockSetup(b) PROVE SetupInv'
    BY <2>5 DEF LockSetup, Calls
  <2>6. ASSUME NEW b \in Setups, FailSetup(b) PROVE SetupInv'
    BY <2>6 DEF FailSetup, Calls
  <2>7. CASE RunScript
    BY <2>7 DEF RunScript, Calls
  <2>8. CASE ScriptCreates
    BY <2>8 DEF ScriptCreates, Calls
  <2>9. CASE ScriptSettles
    BY <2>9 DEF ScriptSettles, Calls
  <2>10. QED
    BY <1>2, <2>2, <2>3, <2>4, <2>5, <2>6, <2>7, <2>8, <2>9 DEF SetupNext
<1>3. QED
  BY <1>1, <1>2

\* Types of first-run setup, for every value of the constants.
THEOREM SetupTypeCorrect == SetupSpec => []SetupTypeOK
<1>1. SetupSpec => []SetupInv
  BY InitSetup, SetupStep, PTL DEF SetupSpec
<1>2. SetupInv => SetupTypeOK
  BY DEF SetupInv
<1>3. QED
  BY <1>1, <1>2, PTL

\* A call that begins when an owner exists creates no other; the lock, its owner
\* and its commands come together; only failure, or the script, leaves an owner
\* without the lock.
THEOREM SetsUpOnce == SetupSpec => []SetupHolds
<1>1. SetupSpec => []SetupInv
  BY InitSetup, SetupStep, PTL DEF SetupSpec
<1>2. SetupInv => SetupHolds
  BY DEF SetupInv, SetupHolds
<1>3. QED
  BY <1>1, <1>2, PTL

-----------------------------------------------------------------------------
(* Sessions.                                                               *)

LEMMA SomeoneIsThere == Someone \in OwnerPeople /\ Someone \in People
  BY SessionAssumption DEF SessionAssumption, Someone, People

LEMMA NothingUnderWay ==
  /\ NoSignIn \in SignIns /\ NoSignIn.at = "idle"
  /\ NoWork \in Works /\ NoWork.at = "idle"
  BY SomeoneIsThere DEF NoSignIn, NoWork, SignIns, Works, Roles

LEMMA InitSessions == SessionsInit => SessionsInv
<1> SUFFICES ASSUME SessionsInit PROVE SessionsInv
  OBVIOUS
<1>1. SessionsTypeOK
  <2>1. 0 \in 0..MaxActs /\ 0 \in Nat
    BY SessionAssumption DEF SessionAssumption
  <2>2. attempt \in [Attempts -> SignIns] /\ operation \in [Operations -> Works]
    BY NothingUnderWay DEF SessionsInit
  <2>3. role \in [People -> Roles]
    BY DEF SessionsInit, Roles
  <2>4. QED
    BY <2>1, <2>2, <2>3 DEF SessionsInit, SessionsTypeOK
<1>2. SuspendedHasNoSession /\ OldPasswordEnds
  BY DEF SessionsInit, SuspendedHasNoSession, OldPasswordEnds
<1>3. OwnerRemains
  BY SomeoneIsThere DEF SessionsInit, OwnerRemains
<1>4. CallsNoted /\ RequestsNoted
  BY NothingUnderWay DEF SessionsInit, CallsNoted, RequestsNoted
<1>5. QED
  BY <1>1, <1>2, <1>3, <1>4 DEF SessionsInv

\* One more act is within the bound.
LEMMA ActsType ==
  ASSUME SessionsTypeOK, acts < MaxActs, acts' = acts + 1 PROVE acts' \in 0..MaxActs
  BY SessionAssumption DEF SessionsTypeOK, SessionAssumption

\* A call goes on, and may insert a session that notes what the call has missed.
LEMMA MakingStep ==
  ASSUME SessionsInv, NEW a \in Attempts, NEW to \in SignIns, AttemptGoto(a, to),
         UNCHANGED <<role, banned, password, operation, renewing, banning, crossed,
                     mounted>>,
         factor' \in [People -> BOOLEAN], acts' \in 0..MaxActs,
         sessions' \in SUBSET Entries,
         to.at = "checked" /\ banned[to.who] => to.met,
         to.at # "idle" /\ to.pw # password[to.who] => to.stale,
         \A s \in sessions' \ sessions :
           /\ banned[s.who] => s.met
           /\ s.pw # password[s.who] => s.stale
  PROVE  SessionsInv'
<1> USE DEF SessionsInv
<1>1. attempt' \in [Attempts -> SignIns]
  BY DEF SessionsTypeOK, AttemptGoto
<1>2. SessionsTypeOK'
  BY <1>1 DEF SessionsTypeOK
<1>3. SuspendedHasNoSession' /\ OldPasswordEnds' /\ OwnerRemains'
  BY DEF SuspendedHasNoSession, OldPasswordEnds, OwnerRemains
<1>4. \A c \in Attempts : attempt'[c] = IF c = a THEN to ELSE attempt[c]
  BY DEF SessionsTypeOK, AttemptGoto
<1>5. CallsNoted' /\ RequestsNoted'
  BY <1>4 DEF CallsNoted, RequestsNoted
<1>6. QED
  BY <1>2, <1>3, <1>5

LEMMA CallStep ==
  ASSUME SessionsInv, NEW a \in Attempts,
         \/ VerifyPassword(a) \/ CheckBanned(a) \/ Challenge(a) \/ InsertSession(a)
         \/ VerifyCode(a) \/ AbandonSignIn(a) \/ ToggleFactor(a) \/ ProvePassword(a)
  PROVE  SessionsInv'
<1> DEFINE t == attempt[a]
<1>1. /\ t \in SignIns /\ sessions \in SUBSET Entries /\ acts \in 0..MaxActs
      /\ factor \in [People -> BOOLEAN] /\ password \in [People -> Nat]
  BY DEF SessionsInv, SessionsTypeOK
<1>2. /\ t.at = "checked" /\ banned[t.who] => t.met
      /\ t.at # "idle" /\ t.pw # password[t.who] => t.stale
  BY DEF SessionsInv, CallsNoted
<1>3. CASE VerifyPassword(a) \/ ProvePassword(a)
  <2>1. PICK p \in People, at \in {"verified", "proved"}, code \in BOOLEAN :
          AttemptGoto(a, [at |-> at, who |-> p, pw |-> password[p], code |-> code,
                          met |-> FALSE, stale |-> FALSE, old |-> {}])
    BY <1>3 DEF VerifyPassword, ProvePassword
  <2> DEFINE to == [at |-> at, who |-> p, pw |-> password[p], code |-> code,
                    met |-> FALSE, stale |-> FALSE, old |-> {}]
  <2>2. to \in SignIns /\ to.at # "checked" /\ to.pw = password[to.who]
    BY <1>1 DEF SignIns
  <2>3. AttemptGoto(a, to)
    BY <2>1
  <2> HIDE DEF to
  <2>4. QED
    BY <1>1, <1>3, <2>2, <2>3, MakingStep DEF VerifyPassword, ProvePassword, MakingKeeps
<1>4. CASE CheckBanned(a)
  <2>1. CASE banned[t.who]
    BY <1>1, <1>4, <2>1, NothingUnderWay, MakingStep DEF CheckBanned, MakingKeeps
  <2>2. CASE ~banned[t.who]
    <3> DEFINE to == [t EXCEPT !.at = "checked", !.met = FALSE]
    <3>1. to \in SignIns /\ to.who = t.who /\ to.pw = t.pw /\ to.stale = t.stale
      BY <1>1 DEF SignIns
    <3>2. AttemptGoto(a, to) /\ sessions' = sessions /\ t.at # "idle"
      BY <1>4, <2>2 DEF CheckBanned
    <3> HIDE DEF to
    <3>3. QED
      BY <1>1, <1>2, <1>4, <2>2, <3>1, <3>2, MakingStep DEF CheckBanned, MakingKeeps
  <2>3. QED
    BY <2>1, <2>2
<1>5. CASE Challenge(a) \/ VerifyCode(a)
  <2>1. PICK at \in {"challenge", "verified"}, code \in BOOLEAN :
          AttemptGoto(a, [t EXCEPT !.at = at, !.code = code])
    <3>1. [t EXCEPT !.at = "challenge"] = [t EXCEPT !.at = "challenge", !.code = t.code]
          /\ t.code \in BOOLEAN
      BY <1>1 DEF SignIns
    <3>2. QED
      BY <1>5, <3>1 DEF Challenge, VerifyCode
  <2> DEFINE to == [t EXCEPT !.at = at, !.code = code]
  <2>2. /\ to \in SignIns /\ to.at # "checked"
        /\ to.who = t.who /\ to.pw = t.pw /\ to.stale = t.stale
    BY <1>1 DEF SignIns
  <2>3. AttemptGoto(a, to) /\ t.at # "idle"
    BY <1>5, <2>1 DEF Challenge, VerifyCode
  <2> HIDE DEF to
  <2>4. QED
    BY <1>1, <1>2, <1>5, <2>2, <2>3, MakingStep DEF Challenge, VerifyCode, MakingKeeps
<1>6. CASE InsertSession(a)
  <2> DEFINE new == [who |-> t.who, pw |-> t.pw, met |-> t.met, stale |-> t.stale]
  <2>1. new \in Entries /\ new.who = t.who /\ new.pw = t.pw /\ new.met = t.met
        /\ new.stale = t.stale
    BY <1>1 DEF SignIns, Entries
  <2>2. PICK gone \in SUBSET t.old : sessions' = (sessions \ gone) \cup {new}
    BY <1>6 DEF InsertSession
  <2>3. AttemptGoto(a, NoSignIn) /\ t.at = "checked"
    BY <1>6 DEF InsertSession
  <2> HIDE DEF new
  <2>4. /\ sessions' \in SUBSET Entries
        /\ \A s \in sessions' \ sessions : s = new
    BY <1>1, <2>1, <2>2
  <2>5. QED
    BY <1>1, <1>2, <1>6, <2>1, <2>3, <2>4, NothingUnderWay, MakingStep
    DEF InsertSession, MakingKeeps
<1>7. CASE AbandonSignIn(a)
  BY <1>1, <1>7, NothingUnderWay, MakingStep DEF AbandonSignIn, MakingKeeps
<1>8. CASE ToggleFactor(a)
  <2>1. PICK s \in sessions :
          /\ factor' = [factor EXCEPT ![s.who] = ~@]
          /\ AttemptGoto(a, [at |-> "verified", who |-> s.who, pw |-> s.pw,
               code |-> TRUE, met |-> FALSE,
               stale |-> s.stale \/ s.pw # password[s.who], old |-> {s}])
    BY <1>8 DEF ToggleFactor
  <2> DEFINE stale == s.stale \/ s.pw # password[s.who]
             to    == [at |-> "verified", who |-> s.who, pw |-> s.pw, code |-> TRUE,
                       met |-> FALSE, stale |-> stale, old |-> {s}]
  <2>2. s \in Entries
    BY <1>1
  <2>3. to.at = "verified" /\ to.who = s.who /\ to.pw = s.pw /\ to.stale = stale
    OBVIOUS
  <2>4. stale \in BOOLEAN /\ (s.pw # password[s.who] => stale)
    BY <2>2 DEF Entries
  <2>5. AttemptGoto(a, to)
    BY <2>1
  <2> HIDE DEF stale
  <2>6. to \in SignIns
    BY <2>2, <2>4 DEF SignIns, Entries
  <2>7. factor' \in [People -> BOOLEAN] /\ acts' \in 0..MaxActs
    BY <1>1, <1>8, <2>1, ActsType DEF ToggleFactor, SessionsInv
  <2> HIDE DEF to
  <2>8. QED
    BY <1>1, <1>8, <2>3, <2>4, <2>5, <2>6, <2>7, MakingStep DEF ToggleFactor
<1>9. QED
  BY <1>3, <1>4, <1>5, <1>6, <1>7, <1>8

LEMMA EndStep == ASSUME SessionsInv, EndSession PROVE SessionsInv'
<1>1. sessions' \in SUBSET sessions /\ MakingKeeps /\ UNCHANGED attempt
  BY DEF EndSession
<1>2. QED
  BY <1>1 DEF SessionsInv, SessionsTypeOK, SuspendedHasNoSession, OldPasswordEnds,
     OwnerRemains, CallsNoted, RequestsNoted, MakingKeeps

\* Where the sessions of somebody end, what happened to the account leaves none
\* that should not be.
LEMMA Ended ==
  ASSUME SessionsInv, NEW p \in People, EndAll(p),
         \A o \in People \ {p} : banned'[o] = banned[o] /\ password'[o] = password[o]
  PROVE  /\ sessions' \in SUBSET Entries
         /\ renewing' \in SUBSET People /\ banning' \in SUBSET People
         /\ SuspendedHasNoSession' /\ OldPasswordEnds'
<1>1. \A s \in sessions' : s \in sessions /\ s.who \in People \ {p}
  BY DEF EndAll, Others, SessionsInv, SessionsTypeOK, Entries
<1>2. /\ renewing' = renewing \ {p} /\ banning' = banning \ {p}
      /\ sessions \in SUBSET Entries
      /\ renewing \in SUBSET People /\ banning \in SUBSET People
  BY DEF EndAll, SessionsInv, SessionsTypeOK
<1>3. QED
  BY <1>1, <1>2 DEF SessionsInv, SuspendedHasNoSession, OldPasswordEnds

\* What a suspension and a new password note of the calls they meet.
LEMMA Meeting ==
  ASSUME SessionsTypeOK, NEW p \in People, MeetSuspension(p)
  PROVE  /\ attempt' \in [Attempts -> SignIns]
         /\ \A a \in Attempts :
              /\ attempt'[a].at = attempt[a].at /\ attempt'[a].who = attempt[a].who
              /\ attempt'[a].pw = attempt[a].pw /\ attempt'[a].stale = attempt[a].stale
              /\ attempt'[a].met = attempt[a].met
                   \/ (attempt[a].at # "idle" /\ attempt[a].who = p)
              /\ attempt[a].at # "idle" /\ attempt[a].who = p => attempt'[a].met
<1>1. \A a \in Attempts : attempt[a] \in SignIns
  BY DEF SessionsTypeOK
<1>2. \A a \in Attempts : attempt'[a] =
        IF attempt[a].at # "idle" /\ attempt[a].who = p
        THEN [attempt[a] EXCEPT !.met = TRUE] ELSE attempt[a]
  BY DEF MeetSuspension
<1>3. QED
  BY <1>1, <1>2 DEF SignIns, MeetSuspension

LEMMA Renewing ==
  ASSUME SessionsTypeOK, NEW p \in People
  PROVE  /\ MeetPassword(p, attempt) \in [Attempts -> SignIns]
         /\ \A a \in Attempts :
              LET t == MeetPassword(p, attempt)[a] IN
              /\ t.at = attempt[a].at /\ t.who = attempt[a].who
              /\ t.pw = attempt[a].pw /\ t.met = attempt[a].met
              /\ attempt[a].stale => t.stale
              /\ attempt[a].at # "idle" /\ attempt[a].who = p => t.stale
<1>1. \A a \in Attempts : attempt[a] \in SignIns
  BY DEF SessionsTypeOK
<1>2. \A a \in Attempts : MeetPassword(p, attempt)[a] =
        IF attempt[a].at # "idle" /\ attempt[a].who = p
        THEN [attempt[a] EXCEPT !.stale = TRUE] ELSE attempt[a]
  BY DEF MeetPassword
<1>3. QED
  BY <1>1, <1>2 DEF SignIns, MeetPassword

\* A new password, of the Security page or the script: until the second statement
\* the old sessions stand, noted.
LEMMA StoreStep ==
  ASSUME SessionsInv, NEW a \in Attempts, ReplacePassword(a) \/ ScriptReplaces(a)
  PROVE  SessionsInv'
<1>1. PICK p \in People, to \in SignIns :
        /\ StorePassword(a, p, to)
        /\ to.at # "checked" /\ to.who = p /\ to.pw = password[p] + 1
  <2>1. /\ attempt[a] \in SignIns /\ password \in [People -> Nat]
        /\ NoSignIn \in SignIns
    BY NothingUnderWay DEF SessionsInv, SessionsTypeOK
  <2>2. CASE ReplacePassword(a)
    <3> DEFINE p  == attempt[a].who
               to == [attempt[a] EXCEPT !.at = "replaced", !.pw = password[p] + 1]
    <3>1. p \in People /\ password[p] + 1 \in Nat
      BY <2>1 DEF SignIns
    <3>2. StorePassword(a, p, to)
      BY <2>2 DEF ReplacePassword
    <3> HIDE DEF p
    <3>3. to \in SignIns /\ to.at # "checked" /\ to.pw = password[p] + 1
      BY <2>1, <3>1 DEF SignIns
    <3>4. to.who = p
      BY <2>1 DEF SignIns, p
    <3> HIDE DEF to
    <3>5. QED
      BY <3>1, <3>2, <3>3, <3>4
  <2>3. CASE ScriptReplaces(a)
    <3>1. PICK p \in People :
            StorePassword(a, p, [NoSignIn EXCEPT !.at = "scripted", !.who = p,
                                                 !.pw = password[p] + 1])
      BY <2>3 DEF ScriptReplaces
    <3> DEFINE to == [NoSignIn EXCEPT !.at = "scripted", !.who = p,
                                      !.pw = password[p] + 1]
    <3>2. password[p] + 1 \in Nat
      BY <2>1
    <3>3. /\ to \in SignIns
          /\ to.at # "checked" /\ to.who = p /\ to.pw = password[p] + 1
      BY <2>1, <3>2 DEF SignIns
    <3>4. StorePassword(a, p, to)
      BY <3>1
    <3> HIDE DEF to
    <3>5. QED
      BY <3>3, <3>4
  <2>4. QED
    BY <2>2, <2>3
<1>2. /\ UNCHANGED <<role, banned, factor, sessions, operation, banning, crossed, mounted>>
      /\ acts' \in 0..MaxActs /\ renewing' = renewing \cup {p}
  BY <1>1, ActsType DEF SessionsInv, StorePassword
<1>3. /\ password' \in [People -> Nat] /\ password'[p] = password[p] + 1
      /\ \A o \in People \ {p} : password'[o] = password[o]
  BY <1>1 DEF StorePassword, SessionsInv, SessionsTypeOK
<1>4. /\ attempt' \in [Attempts -> SignIns]
      /\ \A c \in Attempts : attempt'[c] = IF c = a THEN to ELSE MeetPassword(p, attempt)[c]
  BY <1>1, Renewing DEF StorePassword, SessionsInv
<1>5. SessionsTypeOK'
  BY <1>2, <1>3, <1>4 DEF SessionsInv, SessionsTypeOK
<1>6. SuspendedHasNoSession' /\ OldPasswordEnds' /\ OwnerRemains'
  <2>1. \A s \in sessions : s.who \in People
    BY DEF SessionsInv, SessionsTypeOK, Entries
  <2>2. QED
    BY <1>2, <1>3, <2>1 DEF SessionsInv, SuspendedHasNoSession, OldPasswordEnds,
       OwnerRemains
<1>7. CallsNoted'
  <2>1. \A c \in Attempts : attempt[c].who \in People
    BY DEF SessionsInv, SessionsTypeOK, SignIns
  <2>2. ASSUME NEW c \in Attempts, c # a
        PROVE  /\ attempt'[c].at = "checked" /\ banned'[attempt'[c].who] => attempt'[c].met
               /\ attempt'[c].at # "idle" /\ attempt'[c].pw # password'[attempt'[c].who]
                    => attempt'[c].stale
    BY <1>2, <1>3, <1>4, <2>1, <2>2, Renewing DEF SessionsInv, CallsNoted
  <2>3. attempt'[a].at # "checked" /\ attempt'[a].pw = password'[attempt'[a].who]
    BY <1>1, <1>3, <1>4
  <2>4. QED
    BY <2>2, <2>3 DEF CallsNoted
<1>8. RequestsNoted'
  BY <1>2 DEF SessionsInv, RequestsNoted
<1>9. QED
  BY <1>5, <1>6, <1>7, <1>8 DEF SessionsInv

LEMMA DeleteStep ==
  ASSUME SessionsInv, NEW a \in Attempts, DeleteSessions(a) PROVE SessionsInv'
<1> DEFINE t == attempt[a]
<1>1. t \in SignIns /\ t.who \in People /\ EndAll(t.who) /\ t.at # "idle"
  BY DEF SessionsInv, SessionsTypeOK, SignIns, DeleteSessions
<1>2. PICK to \in SignIns :
        /\ AttemptGoto(a, to) /\ to.at # "checked"
        /\ to.at # "idle" => to.who = t.who /\ to.pw = t.pw /\ to.stale = t.stale
  <2>1. CASE t.at = "scripted"
    BY <2>1, NothingUnderWay DEF DeleteSessions
  <2>2. CASE t.at # "scripted"
    <3> DEFINE to == [t EXCEPT !.at = "verified"]
    <3>1. /\ to \in SignIns /\ to.at # "checked"
          /\ to.who = t.who /\ to.pw = t.pw /\ to.stale = t.stale
      BY <1>1 DEF SignIns
    <3>2. AttemptGoto(a, to)
      BY <2>2 DEF DeleteSessions
    <3> HIDE DEF to
    <3>3. QED
      BY <3>1, <3>2
  <2>3. QED
    BY <2>1, <2>2
<1>3. UNCHANGED <<role, banned, password, factor, operation, acts, crossed, mounted>>
  BY DEF DeleteSessions
<1>4. /\ sessions' \in SUBSET Entries
      /\ renewing' \in SUBSET People /\ banning' \in SUBSET People
      /\ SuspendedHasNoSession' /\ OldPasswordEnds'
  BY <1>1, <1>3, Ended
<1>5. /\ attempt' \in [Attempts -> SignIns]
      /\ \A c \in Attempts : attempt'[c] = IF c = a THEN to ELSE attempt[c]
  BY <1>2 DEF AttemptGoto, SessionsInv, SessionsTypeOK
<1>6. SessionsTypeOK'
  BY <1>3, <1>4, <1>5 DEF SessionsInv, SessionsTypeOK
<1>7. CallsNoted'
  <2>1. t.pw # password[t.who] => t.stale
    BY <1>1 DEF SessionsInv, CallsNoted
  <2>2. QED
    BY <1>2, <1>3, <1>5, <2>1 DEF SessionsInv, CallsNoted
<1>8. OwnerRemains' /\ RequestsNoted'
  BY <1>3 DEF SessionsInv, OwnerRemains, RequestsNoted
<1>9. QED
  BY <1>4, <1>6, <1>7, <1>8 DEF SessionsInv

LEMMA AdmitStep ==
  ASSUME SessionsInv, NEW q \in Operations, Admit(q) \/ FailOperation(q)
  PROVE  SessionsInv'
<1>1. UNCHANGED <<role, banned, password, factor, sessions, attempt, renewing,
                  banning, acts, crossed, mounted>>
  BY DEF Admit, FailOperation
<1>2. PICK to \in Works :
        /\ operation' = [operation EXCEPT ![q] = to]
        /\ to.at = "admitted" => /\ banned[to.actor] => to.met
                                 /\ to.role = role[to.actor]
                                 /\ \A t \in to.users : role[t] = "user"
  <2>1. CASE Admit(q)
    <3> DEFINE users == {t \in People : role[t] = "user"}
    <3>1. PICK p \in People :
            operation' = [operation EXCEPT ![q] =
              [at |-> "admitted", actor |-> p, role |-> role[p], met |-> banned[p],
               users |-> users]]
      BY <2>1 DEF Admit
    <3>2. users \in SUBSET People /\ \A t \in users : role[t] = "user"
      OBVIOUS
    <3> HIDE DEF users
    <3>3. [at |-> "admitted", actor |-> p, role |-> role[p], met |-> banned[p],
           users |-> users] \in Works
      BY <3>2 DEF SessionsInv, SessionsTypeOK, Works
    <3>4. QED
      BY <3>1, <3>2, <3>3
  <2>2. CASE FailOperation(q)
    BY <2>2, NothingUnderWay DEF FailOperation
  <2>3. QED
    BY <2>1, <2>2
<1>3. /\ operation' \in [Operations -> Works]
      /\ \A r \in Operations : operation'[r] = IF r = q THEN to ELSE operation[r]
  BY <1>2 DEF SessionsInv, SessionsTypeOK
<1>4. SessionsTypeOK'
  BY <1>1, <1>3 DEF SessionsInv, SessionsTypeOK
<1>5. RequestsNoted'
  BY <1>1, <1>2, <1>3 DEF SessionsInv, RequestsNoted
<1>6. SuspendedHasNoSession' /\ OldPasswordEnds' /\ OwnerRemains' /\ CallsNoted'
  BY <1>1 DEF SessionsInv, SuspendedHasNoSession, OldPasswordEnds, OwnerRemains,
     CallsNoted
<1>7. QED
  BY <1>4, <1>5, <1>6 DEF SessionsInv

\* A request that ends, and suspends nobody, leaves the others noted.
LEMMA RequestEnds ==
  ASSUME SessionsInv, NEW q \in Operations,
         operation' = [operation EXCEPT ![q] = NoWork],
         \A p \in People : banned'[p] => banned[p],
         mounted \/ role' = role, mounted => mounted'
  PROVE  operation' \in [Operations -> Works] /\ RequestsNoted'
<1>1. /\ operation' \in [Operations -> Works]
      /\ \A r \in Operations : operation'[r] = IF r = q THEN NoWork ELSE operation[r]
  BY NothingUnderWay DEF SessionsInv, SessionsTypeOK
<1>2. \A r \in Operations : operation[r].actor \in People
  BY DEF SessionsInv, SessionsTypeOK, Works
<1>3. QED
  BY <1>1, <1>2, NothingUnderWay DEF SessionsInv, RequestsNoted

\* A suspension is noted by the calls and requests it meets, and leaves another
\* owner, unless it is one of those that crossed or were mounted.
LEMMA BanStep ==
  ASSUME SessionsInv, NEW q \in Operations, NEW t \in People, BanUser(q, t),
         operation[q].at = "admitted", UNCHANGED <<role, password>>,
         mounted' \in BOOLEAN, mounted => mounted',
         ~mounted' /\ role[t] = "owner" =>
           operation[q].role = "owner" /\ operation[q].actor # t
  PROVE  /\ banned' \in [People -> BOOLEAN] /\ crossed' \in BOOLEAN
         /\ \A p \in People : banned'[p] = (banned[p] \/ p = t)
         /\ attempt' \in [Attempts -> SignIns] /\ operation' \in [Operations -> Works]
         /\ OwnerRemains' /\ CallsNoted' /\ RequestsNoted'
<1>1. SessionsTypeOK /\ MeetSuspension(t)
  BY DEF SessionsInv, BanUser
<1>2. /\ banned' \in [People -> BOOLEAN] /\ crossed' \in BOOLEAN
      /\ \A p \in People : banned'[p] = (banned[p] \/ p = t)
  BY <1>1 DEF BanUser, SessionsTypeOK
<1>3. \A r \in Operations : operation[r] \in Works
  BY <1>1 DEF SessionsTypeOK
<1>4. \A r \in Operations : operation'[r] =
        IF r = q THEN NoWork
        ELSE IF operation[r].at # "idle" /\ operation[r].actor = t
             THEN [operation[r] EXCEPT !.met = TRUE] ELSE operation[r]
  BY DEF BanUser
<1>5. operation' \in [Operations -> Works]
  <2>1. \A r \in Operations : [operation[r] EXCEPT !.met = TRUE] \in Works
    BY <1>3 DEF Works
  <2>2. QED
    BY <1>3, <2>1, NothingUnderWay DEF BanUser
<1>6. OwnerRemains'
  <2>1. ASSUME ~crossed', ~mounted' PROVE \E p \in People : role[p] = "owner" /\ ~banned'[p]
    <3>1. ~crossed /\ ~mounted /\ (operation[q].met => role[t] # "owner")
      BY <2>1 DEF BanUser
    <3>2. CASE role[t] # "owner"
      <4>1. PICK p \in People : role[p] = "owner" /\ ~banned[p]
        BY <3>1 DEF SessionsInv, OwnerRemains
      <4>2. QED
        BY <1>2, <3>2, <4>1
    <3>3. CASE role[t] = "owner"
      <4>1. ~operation[q].met /\ operation[q].role = "owner" /\ operation[q].actor # t
        BY <2>1, <3>1, <3>3
      <4>2. ~banned[operation[q].actor] /\ role[operation[q].actor] = "owner"
        BY <3>1, <4>1 DEF SessionsInv, RequestsNoted
      <4>3. operation[q].actor \in People
        BY <1>3 DEF Works
      <4>4. QED
        BY <1>2, <4>1, <4>2, <4>3
    <3>4. QED
      BY <3>2, <3>3
  <2>2. QED
    BY <2>1 DEF OwnerRemains
<1>7. CallsNoted'
  <2>1. \A a \in Attempts : attempt[a].who \in People
    BY <1>1 DEF SessionsTypeOK, SignIns
  <2>2. QED
    BY <1>1, <1>2, <2>1, Meeting DEF SessionsInv, CallsNoted
<1>8. RequestsNoted'
  <2>1. SUFFICES ASSUME NEW r \in Operations, operation'[r].at = "admitted"
                 PROVE  /\ banned'[operation'[r].actor] => operation'[r].met
                        /\ ~mounted' =>
                             /\ operation'[r].role = "owner"
                                  => role[operation'[r].actor] = "owner"
                             /\ \A p \in operation'[r].users : role[p] # "owner"
    BY DEF RequestsNoted
  <2>2. r # q
    BY <1>4, <2>1, NothingUnderWay
  <2>3. /\ operation[r].at = "admitted" /\ operation'[r].actor = operation[r].actor
        /\ operation'[r].role = operation[r].role /\ operation[r].actor \in People
        /\ operation'[r].users = operation[r].users
        /\ IF operation[r].actor = t THEN operation'[r].met
           ELSE operation'[r].met = operation[r].met
    BY <1>3, <1>4, <2>1, <2>2 DEF Works
  <2>4. QED
    BY <1>2, <2>3 DEF SessionsInv, RequestsNoted
<1>9. QED
  BY <1>1, <1>2, <1>5, <1>6, <1>7, <1>8, Meeting

\* The suspended loses the sessions, at once
LEMMA SuspendStep == ASSUME SessionsInv, NEW q \in Operations, Suspend(q) PROVE SessionsInv'
<1>1. PICK t \in People : MayEnd(q, t) /\ BanUser(q, t) /\ EndAll(t)
  BY DEF Suspend
<1>2. /\ UNCHANGED <<role, password, mounted, factor>> /\ acts' \in 0..MaxActs
      /\ operation[q].at = "admitted" /\ mounted \in BOOLEAN
  BY ActsType DEF Suspend, Commit, SessionsInv, SessionsTypeOK
<1>3. ~mounted /\ role[t] = "owner" =>
        operation[q].role = "owner" /\ operation[q].actor # t
  BY <1>1, <1>2 DEF MayEnd, MayActOn, SessionsInv, RequestsNoted
<1>4. /\ banned' \in [People -> BOOLEAN] /\ crossed' \in BOOLEAN
      /\ \A p \in People : banned'[p] = (banned[p] \/ p = t)
      /\ attempt' \in [Attempts -> SignIns] /\ operation' \in [Operations -> Works]
      /\ OwnerRemains' /\ CallsNoted' /\ RequestsNoted'
  BY <1>1, <1>2, <1>3, BanStep
<1>5. \A o \in People \ {t} : banned'[o] = banned[o] /\ password'[o] = password[o]
  BY <1>2, <1>4 DEF SessionsInv, SessionsTypeOK
<1>6. /\ sessions' \in SUBSET Entries
      /\ renewing' \in SUBSET People /\ banning' \in SUBSET People
      /\ SuspendedHasNoSession' /\ OldPasswordEnds'
  BY <1>1, <1>5, Ended
<1>7. SessionsTypeOK'
  BY <1>2, <1>4, <1>6 DEF SessionsInv, SessionsTypeOK
<1>8. QED
  BY <1>4, <1>6, <1>7 DEF SessionsInv

\* or, by the endpoint, in a second statement.
LEMMA EndpointBansStep ==
  ASSUME SessionsInv, NEW q \in Operations, EndpointBans(q) PROVE SessionsInv'
<1>1. PICK t \in People :
        /\ BanUser(q, t) /\ banning' = banning \cup {t}
        /\ mounted' = (mounted \/ (role[t] = "owner" /\
             (operation[q].role # "owner" \/ operation[q].actor = t)))
  BY DEF EndpointBans
<1>2. /\ UNCHANGED <<role, password, sessions, renewing, factor>> /\ acts' \in 0..MaxActs
      /\ operation[q].at = "admitted"
  BY ActsType DEF EndpointBans, Commit, SessionsInv
<1>3. /\ mounted' \in BOOLEAN /\ (mounted => mounted')
      /\ ~mounted' /\ role[t] = "owner" =>
           operation[q].role = "owner" /\ operation[q].actor # t
  BY <1>1 DEF SessionsInv, SessionsTypeOK
<1>4. /\ banned' \in [People -> BOOLEAN] /\ crossed' \in BOOLEAN
      /\ \A p \in People : banned'[p] = (banned[p] \/ p = t)
      /\ attempt' \in [Attempts -> SignIns] /\ operation' \in [Operations -> Works]
      /\ OwnerRemains' /\ CallsNoted' /\ RequestsNoted'
  BY <1>1, <1>2, <1>3, BanStep
<1>5. SessionsTypeOK'
  BY <1>1, <1>2, <1>3, <1>4 DEF SessionsInv, SessionsTypeOK
<1>6. SuspendedHasNoSession' /\ OldPasswordEnds'
  <2>1. \A s \in sessions : s.who \in People
    BY DEF SessionsInv, SessionsTypeOK, Entries
  <2>2. QED
    BY <1>1, <1>2, <1>4, <2>1 DEF SessionsInv, SuspendedHasNoSession, OldPasswordEnds
<1>7. QED
  BY <1>4, <1>5, <1>6 DEF SessionsInv

LEMMA EndpointDeletesStep ==
  ASSUME SessionsInv, NEW t \in People, EndpointDeletes(t) PROVE SessionsInv'
<1>1. /\ UNCHANGED <<role, banned, password, factor, attempt, operation, acts, crossed,
                     mounted>>
      /\ EndAll(t)
  BY DEF EndpointDeletes
<1>2. /\ sessions' \in SUBSET Entries
      /\ renewing' \in SUBSET People /\ banning' \in SUBSET People
      /\ SuspendedHasNoSession' /\ OldPasswordEnds'
  BY <1>1, Ended
<1>3. SessionsTypeOK'
  BY <1>1, <1>2 DEF SessionsInv, SessionsTypeOK
<1>4. QED
  BY <1>1, <1>2, <1>3 DEF SessionsInv, OwnerRemains, CallsNoted, RequestsNoted

LEMMA ActivateStep ==
  ASSUME SessionsInv, NEW q \in Operations, Activate(q) \/ EndpointUnbans(q)
  PROVE  SessionsInv'
<1>1. PICK t \in People : Activated(q, t)
  BY DEF Activate, EndpointUnbans
<1>2. /\ UNCHANGED <<role, password, sessions, attempt, renewing, banning, crossed,
                     mounted, factor>>
      /\ acts' \in 0..MaxActs
  BY <1>1, ActsType DEF Activate, EndpointUnbans, Activated, Commit, SessionsInv
<1>3. banned' \in [People -> BOOLEAN] /\ \A p \in People : banned'[p] => banned[p]
  BY <1>1 DEF Activated, SessionsInv, SessionsTypeOK
<1>4. operation' \in [Operations -> Works] /\ RequestsNoted'
  <2>1. operation' = [operation EXCEPT ![q] = NoWork]
    BY <1>1 DEF Activated
  <2>2. (mounted \/ role' = role) /\ (mounted => mounted')
    BY <1>2
  <2>3. QED
    BY <1>3, <2>1, <2>2, RequestEnds
<1>5. SessionsTypeOK'
  BY <1>2, <1>3, <1>4 DEF SessionsInv, SessionsTypeOK
<1>6. SuspendedHasNoSession' /\ OldPasswordEnds' /\ OwnerRemains' /\ CallsNoted'
  <2>1. /\ \A s \in sessions : s.who \in People
        /\ \A a \in Attempts : attempt[a].who \in People
    BY DEF SessionsInv, SessionsTypeOK, Entries, SignIns
  <2>2. QED
    BY <1>2, <1>3, <2>1 DEF SessionsInv, SuspendedHasNoSession, OldPasswordEnds,
       OwnerRemains, CallsNoted
<1>7. QED
  BY <1>4, <1>5, <1>6 DEF SessionsInv

\* A new password by a route or an endpoint.
LEMMA NewPasswordStep ==
  ASSUME SessionsInv, NEW q \in Operations, NEW t \in People, NewPassword(q, t),
         UNCHANGED <<role, banned, mounted>>
  PROVE  /\ password' \in [People -> Nat]
         /\ \A o \in People \ {t} : password'[o] = password[o]
         /\ attempt' \in [Attempts -> SignIns] /\ CallsNoted'
         /\ operation' \in [Operations -> Works] /\ RequestsNoted'
<1>1. /\ password' \in [People -> Nat]
      /\ \A o \in People \ {t} : password'[o] = password[o]
  BY DEF NewPassword, SessionsInv, SessionsTypeOK
<1>2. attempt' = MeetPassword(t, attempt) /\ operation' = [operation EXCEPT ![q] = NoWork]
  BY DEF NewPassword
<1>3. attempt' \in [Attempts -> SignIns]
  BY <1>2, Renewing DEF SessionsInv
<1>4. CallsNoted'
  <2>1. \A a \in Attempts : attempt[a].who \in People
    BY DEF SessionsInv, SessionsTypeOK, SignIns
  <2>2. QED
    BY <1>1, <1>2, <2>1, Renewing DEF SessionsInv, CallsNoted
<1>5. operation' \in [Operations -> Works] /\ RequestsNoted'
  <2>1. (mounted \/ role' = role) /\ (mounted => mounted')
    OBVIOUS
  <2>2. \A p \in People : banned'[p] => banned[p]
    OBVIOUS
  <2>3. QED
    BY <1>2, <2>1, <2>2, RequestEnds
<1>6. QED
  BY <1>1, <1>3, <1>4, <1>5

LEMMA ResetStep ==
  ASSUME SessionsInv, NEW q \in Operations, ResetPassword(q) PROVE SessionsInv'
<1>1. PICK t \in People : NewPassword(q, t) /\ EndAll(t)
  BY DEF ResetPassword
<1>2. UNCHANGED <<role, banned, crossed, mounted, factor>> /\ acts' \in 0..MaxActs
  BY ActsType DEF ResetPassword, Commit, SessionsInv
<1>3. /\ password' \in [People -> Nat]
      /\ \A o \in People \ {t} : password'[o] = password[o]
      /\ attempt' \in [Attempts -> SignIns] /\ CallsNoted'
      /\ operation' \in [Operations -> Works] /\ RequestsNoted'
  BY <1>1, <1>2, NewPasswordStep
<1>4. /\ sessions' \in SUBSET Entries
      /\ renewing' \in SUBSET People /\ banning' \in SUBSET People
      /\ SuspendedHasNoSession' /\ OldPasswordEnds'
  BY <1>1, <1>2, <1>3, Ended
<1>5. SessionsTypeOK'
  BY <1>2, <1>3, <1>4 DEF SessionsInv, SessionsTypeOK
<1>6. OwnerRemains'
  BY <1>2 DEF SessionsInv, OwnerRemains
<1>7. QED
  BY <1>3, <1>4, <1>5, <1>6 DEF SessionsInv

LEMMA EndpointPasswordStep ==
  ASSUME SessionsInv, NEW q \in Operations, EndpointSetsPassword(q) PROVE SessionsInv'
<1>1. PICK t \in People : NewPassword(q, t) /\ renewing' = renewing \cup {t}
  BY DEF EndpointSetsPassword
<1>2. /\ UNCHANGED <<role, banned, sessions, banning, crossed, mounted, factor>>
      /\ acts' \in 0..MaxActs
  BY ActsType DEF EndpointSetsPassword, Commit, SessionsInv
<1>3. /\ password' \in [People -> Nat]
      /\ \A o \in People \ {t} : password'[o] = password[o]
      /\ attempt' \in [Attempts -> SignIns] /\ CallsNoted'
      /\ operation' \in [Operations -> Works] /\ RequestsNoted'
  BY <1>1, <1>2, NewPasswordStep
<1>4. SessionsTypeOK'
  BY <1>1, <1>2, <1>3 DEF SessionsInv, SessionsTypeOK
<1>5. SuspendedHasNoSession' /\ OldPasswordEnds' /\ OwnerRemains'
  <2>1. \A s \in sessions : s.who \in People
    BY DEF SessionsInv, SessionsTypeOK, Entries
  <2>2. QED
    BY <1>1, <1>2, <1>3, <2>1 DEF SessionsInv, SuspendedHasNoSession, OldPasswordEnds,
       OwnerRemains
<1>6. QED
  BY <1>3, <1>4, <1>5 DEF SessionsInv

\* A role that is not an owner's, before and after, leaves the owners as they are.
LEMMA EndpointRoleStep ==
  ASSUME SessionsInv, NEW q \in Operations, EndpointSetsRole(q) PROVE SessionsInv'
<1>1. PICK t \in People, r \in Roles :
        /\ role' = [role EXCEPT ![t] = r]
        /\ mounted' = (mounted \/ "owner" \in {role[t], r})
        /\ operation' = [o \in Operations |->
             IF o = q THEN NoWork
             ELSE IF operation[o].at # "idle" /\ r = "user"
                  THEN [operation[o] EXCEPT !.users = @ \cup {t}] ELSE operation[o]]
  BY DEF EndpointSetsRole
<1>2. /\ UNCHANGED <<banned, password, sessions, attempt, renewing, banning, crossed,
                     factor>>
      /\ acts' \in 0..MaxActs
  BY ActsType DEF EndpointSetsRole, Commit, SessionsInv
<1>3. /\ role' \in [People -> Roles] /\ mounted' \in BOOLEAN
      /\ ~mounted' =>
           ~mounted /\ r # "owner" /\ \A p \in People : role[p] = "owner" <=> role'[p] = "owner"
  BY <1>1 DEF SessionsInv, SessionsTypeOK
<1>4. \A o \in Operations :
        /\ operation'[o] \in Works
        /\ operation'[o].at = "admitted" =>
             /\ operation[o].at = "admitted" /\ operation'[o].actor = operation[o].actor
             /\ operation'[o].role = operation[o].role
             /\ operation'[o].met = operation[o].met
             /\ \A p \in operation'[o].users : p \in operation[o].users \/ (p = t /\ r = "user")
  <2>1. \A o \in Operations : operation[o] \in Works
    BY DEF SessionsInv, SessionsTypeOK
  <2>2. TAKE o \in Operations
  <2>3. CASE o = q
    BY <1>1, <2>3, NothingUnderWay
  <2>4. CASE o # q /\ operation[o].at # "idle" /\ r = "user"
    <3>1. operation'[o] = [operation[o] EXCEPT !.users = @ \cup {t}]
      BY <1>1, <2>4
    <3>2. QED
      BY <2>1, <2>4, <3>1 DEF Works
  <2>5. CASE o # q /\ ~(operation[o].at # "idle" /\ r = "user")
    BY <1>1, <2>1, <2>5
  <2>6. QED
    BY <2>3, <2>4, <2>5
<1>5. operation' \in [Operations -> Works]
  BY <1>1, <1>4
<1>6. SessionsTypeOK'
  BY <1>2, <1>3, <1>5 DEF SessionsInv, SessionsTypeOK
<1>7. RequestsNoted'
  <2>1. \A o \in Operations :
          operation[o].actor \in People /\ operation[o].users \subseteq People
    BY DEF SessionsInv, SessionsTypeOK, Works
  <2>2. role'[t] = r
    BY <1>1 DEF SessionsInv, SessionsTypeOK
  <2>3. QED
    BY <1>2, <1>3, <1>4, <2>1, <2>2 DEF SessionsInv, RequestsNoted
<1>8. SuspendedHasNoSession' /\ OldPasswordEnds' /\ OwnerRemains' /\ CallsNoted'
  BY <1>2, <1>3 DEF SessionsInv, SuspendedHasNoSession, OldPasswordEnds, OwnerRemains,
     CallsNoted
<1>9. QED
  BY <1>6, <1>7, <1>8 DEF SessionsInv

LEMMA SessionsStep == ASSUME SessionsInv, [SessionsNext]_sessionVars PROVE SessionsInv'
<1>1. CASE SessionsNext
  <2>1. ASSUME NEW a \in Attempts,
               \/ VerifyPassword(a) \/ CheckBanned(a) \/ Challenge(a) \/ InsertSession(a)
               \/ VerifyCode(a) \/ AbandonSignIn(a) \/ ToggleFactor(a)
               \/ ProvePassword(a) \/ ReplacePassword(a) \/ ScriptReplaces(a)
               \/ DeleteSessions(a)
        PROVE  SessionsInv'
    BY <2>1, CallStep, StoreStep, DeleteStep
  <2>2. ASSUME NEW q \in Operations,
               \/ Admit(q) \/ Suspend(q) \/ Activate(q) \/ ResetPassword(q)
               \/ FailOperation(q) \/ EndpointBans(q) \/ EndpointUnbans(q)
               \/ EndpointSetsPassword(q) \/ EndpointSetsRole(q)
        PROVE  SessionsInv'
    BY <2>2, AdmitStep, SuspendStep, ActivateStep, ResetStep, EndpointBansStep,
       EndpointPasswordStep, EndpointRoleStep
  <2>3. QED
    BY <1>1, <2>1, <2>2, EndStep, EndpointDeletesStep DEF SessionsNext
<1>2. CASE UNCHANGED sessionVars
  BY <1>2 DEF sessionVars, SessionsInv, SessionsTypeOK, SuspendedHasNoSession,
     OldPasswordEnds, OwnerRemains, CallsNoted, RequestsNoted
<1>3. QED
  BY <1>1, <1>2

\* Types of sessions, for every value of the constants.
THEOREM SessionsTypeCorrect == SessionsSpec => []SessionsTypeOK
<1>1. SessionsSpec => []SessionsInv
  BY InitSessions, SessionsStep, PTL DEF SessionsSpec
<1>2. SessionsInv => SessionsTypeOK
  BY DEF SessionsInv
<1>3. QED
  BY <1>1, <1>2, PTL

\* A suspended user has no session but one that a call made which had read that
\* there was no suspension: a sign-in, or a change of one's own password or second
\* factor; and those that admin/ban-user has yet to delete.
THEOREM EndsSuspended == SessionsSpec => []SuspendedHasNoSession
<1>1. SessionsSpec => []SessionsInv
  BY InitSessions, SessionsStep, PTL DEF SessionsSpec
<1>2. SessionsInv => SuspendedHasNoSession
  BY DEF SessionsInv
<1>3. QED
  BY <1>1, <1>2, PTL

\* A replaced password keeps no session open, but one of a call that was under way
\* when it was replaced, and those that a replacement has yet to delete.
THEOREM EndsOldPasswords == SessionsSpec => []OldPasswordEnds
<1>1. SessionsSpec => []SessionsInv
  BY InitSessions, SessionsStep, PTL DEF SessionsSpec
<1>2. SessionsInv => OldPasswordEnds
  BY DEF SessionsInv
<1>3. QED
  BY <1>1, <1>2, PTL

\* Some owner is not suspended, unless two owners suspended each other by crossing
\* requests, or by better-auth's endpoints an owner was suspended by oneself or by
\* one who is no owner, or it changed who is an owner.
THEOREM KeepsAnOwner == SessionsSpec => []OwnerRemains
<1>1. SessionsSpec => []SessionsInv
  BY InitSessions, SessionsStep, PTL DEF SessionsSpec
<1>2. SessionsInv => OwnerRemains
  BY DEF SessionsInv
<1>3. QED
  BY <1>1, <1>2, PTL

\* Whoever asks for a page is sent on at most twice: "/sign-in" leads someone
\* with a session to "/", and "/" to their own page, which stays.
THEOREM EndsRedirects == SessionsSpec => []RedirectsEnd
<1>1. ASSUME NEW page \in Pages, NEW p
      PROVE  LET there == Redirect(Redirect(page, p), p) IN Redirect(there, p) = there
  <2>1. CASE p \notin People
    BY <2>1 DEF Redirect, Pages
  <2>2. CASE p \in People
    <3>1. AdminPage(p) = UserPage(p) /\ UserPage(p) \in {"/admin", "/portal"}
      BY DEF AdminPage, UserPage
    <3>2. Redirect("/", p) = UserPage(p) /\ Redirect("/sign-in", p) = "/"
      BY <2>2 DEF Redirect
    <3>3. Redirect("/admin", p) = UserPage(p) /\ Redirect("/portal", p) = UserPage(p)
      BY <2>2, <3>1 DEF Redirect
    <3>4. Redirect("/two-factor", p) = "/two-factor"
      BY DEF Redirect
    <3>5. QED
      BY <3>1, <3>2, <3>3, <3>4 DEF Pages
  <2>3. QED
    BY <2>1, <2>2
<1>2. RedirectsEnd
  BY <1>1 DEF RedirectsEnd
<1>3. QED
  BY <1>2, PTL
=============================================================================
