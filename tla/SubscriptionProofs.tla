------------------------- MODULE SubscriptionProofs -------------------------
(***************************************************************************)
(* However many clients ask at once: one device is served, a binding       *)
(* stands, and nobody is told of another device that does not exist.       *)
(***************************************************************************)
EXTENDS Subscription, FiniteSetTheorems, TLAPS

\* Every record the join can return is one.
LEMMA JoinIsARecord ==
  ASSUME TypeOK, NEW c \in Credentials
  PROVE  [device |-> device[c], account |-> account, hwid |-> hwid[c]] \in Records
  BY DEF TypeOK, Records

LEMMA EmptyRecord == NoRecord \in Records
  BY DEF NoRecord, Records, Accounts

\* Nothing is bound or under way at first.
LEMMA InitBinding == Init => BindingInv
<1> SUFFICES ASSUME Init PROVE BindingInv
  OBVIOUS
<1>1. TypeOK
  <2>1. 0 \in 0..MaxChanges
    BY SubscriptionAssumption DEF SubscriptionAssumption
  <2>2. NoRecord.account \in Accounts
    BY DEF NoRecord, Accounts
  <2>3. QED
    BY <2>1, <2>2, EmptyRecord DEF Init, TypeOK, Phases, Answers
<1>2. OneDeviceServed /\ RefusalIsRight
  BY DEF Init, OneDeviceServed, RefusalIsRight
<1>3. \A r \in Requests : Knows(r)
  BY DEF Init, Knows
<1>4. QED
  BY <1>1, <1>2, <1>3 DEF BindingInv

-----------------------------------------------------------------------------
(* The types.                                                              *)

LEMMA CountedType ==
  ASSUME TypeOK, NEW k \in Keys
  PROVE  Counted(k) \in [count : Nat, over : BOOLEAN]
  BY DEF TypeOK, Counted

\* What a request keeps of its own keeps its type.
RequestTypes ==
  /\ phase \in [Requests -> Phases] /\ answer \in [Requests -> Answers]
  /\ asked \in [Requests -> Credentials \cup {Unknown}]
  /\ shows \in [Requests -> Hwids \cup {None}]
  /\ seen \in [Requests -> Records]

\* What the requests share keeps its type.
RowTypes ==
  /\ hwid \in [Credentials -> Hwids \cup {None}]
  /\ revoked \in [Credentials -> BOOLEAN]
  /\ device \in [Credentials -> {"active", "blocked_by_limit", "revoked"}]
  /\ account \in Accounts /\ enabled \in BOOLEAN /\ blocked \in BOOLEAN
  /\ changes \in 0..MaxChanges

LEMMA GotoType ==
  ASSUME TypeOK, NEW r \in Requests, NEW from, NEW to \in Phases, Goto(r, from, to)
  PROVE  /\ phase' \in [Requests -> Phases]
         /\ asked' \in [Requests -> Credentials \cup {Unknown}]
         /\ shows' \in [Requests -> Hwids \cup {None}]
  BY DEF TypeOK, Goto

LEMMA FinishType ==
  ASSUME TypeOK, NEW r \in Requests, NEW why \in Answers, Finish(r, why)
  PROVE  answer' \in [Requests -> Answers] /\ seen' \in [Requests -> Records]
  BY EmptyRecord DEF TypeOK, Finish

LEMMA RefuseType ==
  ASSUME TypeOK, NEW r \in Requests, NEW from, NEW why \in Answers,
         Refuse(r, from, why)
  PROVE  RequestTypes'
  BY GotoType, FinishType DEF Refuse, RequestTypes, Phases

LEMMA ContinueType ==
  ASSUME TypeOK, NEW r \in Requests, NEW from, NEW to \in Phases,
         Continue(r, from, to), seen' \in [Requests -> Records]
  PROVE  RequestTypes'
<1>1. answer' = answer
  BY DEF Continue
<1>2. QED
  BY <1>1, GotoType DEF Continue, RequestTypes, TypeOK

LEMMA RequestStepTypes ==
  ASSUME TypeOK, NEW r \in Requests, Handle(r) \/ Fail(r)
  PROVE  RequestTypes'
<1>1. /\ {"screened", "counted", "selected", "allowed", "judged", "configured",
          "lost", "bound", "done"} \subseteq Phases
      /\ {"blocked", "limited", "not found", "inactive", "over", "no hwid",
          "other device", "unavailable", "configuration", "error"} \subseteq Answers
  BY DEF Phases, Answers
<1>2. seen \in [Requests -> Records] /\ answer \in [Requests -> Answers]
  BY DEF TypeOK
<1>3. CASE Screen(r)
  BY <1>1, <1>2, <1>3, RefuseType, ContinueType DEF Screen
<1>4. CASE LimitAddress(r)
  BY <1>1, <1>2, <1>4, RefuseType, ContinueType DEF LimitAddress, RefuseRecorded
<1>5. CASE Select(r)
  <2>1. CASE Found(asked[r])
    <3>1. asked[r] \in Credentials
      BY <2>1 DEF Found
    <3>2. seen' \in [Requests -> Records]
      BY <1>2, <1>5, <2>1, <3>1, JoinIsARecord DEF Select
    <3>3. QED
      BY <1>1, <1>5, <2>1, <3>2, ContinueType DEF Select
  <2>2. CASE ~Found(asked[r])
    BY <1>1, <1>5, <2>2, RefuseType DEF Select, RefuseRecorded
  <2>3. QED
    BY <2>1, <2>2
<1>6. CASE LimitCredential(r)
  BY <1>1, <1>2, <1>6, RefuseType, ContinueType DEF LimitCredential, RefuseRecorded
<1>7. CASE Judge(r)
  BY <1>1, <1>2, <1>7, RefuseType, ContinueType DEF Judge, RefuseRecorded
<1>8. CASE ReadSettings(r)
  BY <1>1, <1>2, <1>8, RefuseType, ContinueType DEF ReadSettings
<1>9. CASE Bind(r)
  <2>1. seen' = seen /\ answer' = answer
    BY <1>9 DEF Bind
  <2>2. PICK to \in {"bound", "lost"} : Goto(r, "configured", to)
    BY <1>9 DEF Bind
  <2>3. QED
    BY <1>1, <1>2, <2>1, <2>2, GotoType DEF RequestTypes
<1>10. CASE Reread(r)
  BY <1>1, <1>2, <1>10, RefuseType, ContinueType DEF Reread
<1>11. CASE Respond(r)
  BY <1>1, <1>11, GotoType, FinishType DEF Respond, RequestTypes
<1>12. CASE Fail(r)
  <2>1. phase' \in [Requests -> Phases]
    BY <1>1, <1>12 DEF Fail, TypeOK
  <2>2. QED
    BY <1>1, <1>12, <2>1, FinishType DEF Fail, RequestTypes, TypeOK
<1>13. QED
  BY <1>3, <1>4, <1>5, <1>6, <1>7, <1>8, <1>9, <1>10, <1>11, <1>12 DEF Handle

LEMMA RowStepTypes ==
  ASSUME TypeOK, NEW r \in Requests, Handle(r) \/ Fail(r), Knows(r)
  PROVE  RowTypes'
<1>1. CASE Bind(r)
  <2>1. shows[r] \in Hwids \cup {None}
    BY DEF TypeOK
  <2>2. hwid' \in [Credentials -> Hwids \cup {None}]
    BY <1>1, <2>1 DEF Bind, TypeOK
  <2>3. QED
    BY <1>1, <2>2 DEF Bind, TypeOK, RowTypes
<1>2. CASE (Handle(r) /\ ~Bind(r)) \/ Fail(r)
  <2>1. UNCHANGED <<hwid, revoked, device, account, enabled, changes>>
    BY <1>2 DEF Handle, Screen, LimitAddress, Select, LimitCredential, Judge,
      ReadSettings, Reread, Respond, Fail, Refuse, RefuseRecorded, Continue, rows
  <2>2. blocked' \in {blocked, TRUE}
    BY <1>2 DEF Handle, Screen, LimitAddress, Select, LimitCredential, Judge,
      ReadSettings, Reread, Respond, Fail, Refuse, RefuseRecorded, Continue, rows
  <2>3. QED
    BY <2>1, <2>2 DEF TypeOK, RowTypes
<1>3. QED
  BY <1>1, <1>2

LEMMA LimitStepTypes ==
  ASSUME TypeOK, NEW r \in Requests, Handle(r) \/ Fail(r), Knows(r)
  PROVE  window' \in [Keys -> [count : Nat, over : BOOLEAN]]
         /\ passed' \in [Keys -> SUBSET Requests]
<1>1. ASSUME NEW k \in Keys, Consume(k), Pass(r, k) \/ UNCHANGED passed
      PROVE  window' \in [Keys -> [count : Nat, over : BOOLEAN]]
             /\ passed' \in [Keys -> SUBSET Requests]
  <2>1. Counted(k) \in [count : Nat, over : BOOLEAN]
    BY CountedType
  <2>2. QED
    BY <1>1, <2>1 DEF Consume, Pass, TypeOK
<1>2. CASE LimitAddress(r)
  BY <1>1, <1>2 DEF LimitAddress, Keys
<1>3. CASE LimitCredential(r)
  <2>1. asked[r] \in Keys
    BY <1>3 DEF LimitCredential, Knows, Keys
  <2>2. QED
    BY <1>1, <1>3, <2>1 DEF LimitCredential
<1>4. CASE ~LimitAddress(r) /\ ~LimitCredential(r)
  BY <1>4 DEF Handle, Screen, Select, Judge, ReadSettings, Bind, Reread, Respond, Fail,
    TypeOK
<1>5. QED
  BY <1>2, <1>3, <1>4

LEMMA ServedTypes ==
  ASSUME TypeOK, NEW r \in Requests, Handle(r) \/ Fail(r), Knows(r)
  PROVE  served' \in [Credentials -> SUBSET Hwids]
<1>1. CASE Respond(r)
  <2>1. shows[r] \in Hwids /\ asked[r] \in Credentials
    BY <1>1 DEF Respond, Goto, Knows, TypeOK
  <2>2. QED
    BY <1>1, <2>1 DEF Respond, TypeOK
<1>2. CASE ~Respond(r)
  BY <1>2 DEF Handle, Screen, LimitAddress, Select, LimitCredential, Judge,
    ReadSettings, Bind, Reread, Fail, Refuse, RefuseRecorded, Continue, TypeOK
<1>3. QED
  BY <1>1, <1>2

LEMMA HandlerTypes ==
  ASSUME TypeOK, NEW r \in Requests, Handle(r) \/ Fail(r), Knows(r)
  PROVE  TypeOK'
  BY RequestStepTypes, RowStepTypes, LimitStepTypes, ServedTypes
     DEF TypeOK, RequestTypes, RowTypes

LEMMA OtherTypes == ASSUME TypeOK, Others PROVE TypeOK'
<1> USE SubscriptionAssumption DEF TypeOK, SubscriptionAssumption, Change, requests, rows
<1>1. ASSUME NEW c \in Credentials, RevokeDevice(c) PROVE TypeOK'
  BY <1>1 DEF RevokeDevice
<1>2. CASE PatchAccount
  <2>1. account' \in Accounts
    BY <1>2 DEF PatchAccount, Accounts
  <2>2. device' \in [Credentials -> {"active", "blocked_by_limit", "revoked"}]
    BY <1>2 DEF PatchAccount
  <2>3. QED
    BY <1>2, <2>1, <2>2 DEF PatchAccount
<1>3. CASE RunOut
  <2>1. account' \in Accounts
    BY <1>3 DEF RunOut, Accounts
  <2>2. QED
    BY <1>3, <2>1 DEF RunOut
<1>4. CASE ToggleSubscriptions
  BY <1>4 DEF ToggleSubscriptions
<1>5. CASE ToggleBan
  BY <1>5 DEF ToggleBan
<1>6. ASSUME NEW k \in Keys, WindowEnds(k) PROVE TypeOK'
  BY <1>6 DEF WindowEnds
<1>7. QED
  BY <1>1, <1>2, <1>3, <1>4, <1>5, <1>6 DEF Others

-----------------------------------------------------------------------------
(* The binding.                                                            *)

\* A step changes a binding only from none, and only the step that binds does.
LEMMA Binds ==
  ASSUME TypeOK, [Next]_vars, NEW c \in Credentials, hwid[c] # None
  PROVE  hwid'[c] = hwid[c]
<1>1. ASSUME NEW r \in Requests, Handle(r) \/ Fail(r) PROVE hwid'[c] = hwid[c]
  <2>1. CASE Bind(r)
    BY <2>1 DEF Bind, TypeOK
  <2>2. CASE Handle(r) /\ ~Bind(r)
    BY <2>2 DEF Handle, Screen, LimitAddress, Select, LimitCredential, Judge,
      ReadSettings, Reread, Respond, Refuse, RefuseRecorded, Continue, rows
  <2>3. CASE Fail(r)
    BY <2>3 DEF Fail, rows
  <2>4. QED
    BY <1>1, <2>1, <2>2, <2>3
<1>2. CASE Others
  BY <1>2 DEF Others, RevokeDevice, PatchAccount, RunOut, ToggleSubscriptions,
    ToggleBan, WindowEnds, Change, rows
<1>3. CASE UNCHANGED vars
  BY <1>3 DEF vars, rows
<1>4. QED
  BY <1>1, <1>2, <1>3 DEF Next

\* A request's own knowledge survives the steps of others: the binding it saw,
\* made or lost to stands.
LEMMA OthersLeaveMe ==
  ASSUME TypeOK, TypeOK', [Next]_vars, NEW r \in Requests, Knows(r),
         phase'[r] = phase[r], asked'[r] = asked[r], shows'[r] = shows[r],
         seen'[r] = seen[r], answer'[r] = answer[r]
  PROVE  Knows(r)'
<1>1. asked[r] \in Credentials /\ hwid[asked[r]] # None
        => hwid'[asked[r]] = hwid[asked[r]]
  BY Binds
<1>2. QED
  BY <1>1, SubscriptionAssumption DEF Knows, SubscriptionAssumption

\* The steps of a request, for that request.
LEMMA KnowsStep ==
  ASSUME TypeOK, TypeOK', NEW r \in Requests, Knows(r), Handle(r) \/ Fail(r)
  PROVE  Knows(r)'
<1> USE DEF Knows, TypeOK, Goto, Finish, Refuse, RefuseRecorded, Continue, rows
<1>1. CASE Screen(r)
  BY <1>1 DEF Screen
<1>2. CASE LimitAddress(r)
  BY <1>2 DEF LimitAddress
<1>3. CASE Select(r)
  <2>1. CASE Found(asked[r])
    <3>1. seen'[r].hwid = hwid[asked[r]] /\ asked[r] \in Credentials
      <4>1. seen' = [seen EXCEPT ![r] = [device |-> device[asked[r]],
                       account |-> account, hwid |-> hwid[asked[r]]]]
        BY <1>3, <2>1 DEF Select
      <4>2. r \in DOMAIN seen
        OBVIOUS
      <4>3. QED
        BY <2>1, <4>1, <4>2 DEF Found
    <3>2. phase[r] = "counted" /\ phase'[r] = "selected"
      BY <1>3, <2>1 DEF Select
    <3>3. UNCHANGED <<hwid, asked, shows, answer>>
      BY <1>3, <2>1 DEF Select
    <3>4. QED
      BY <3>1, <3>2, <3>3
  <2>2. CASE ~Found(asked[r])
    BY <1>3, <2>2 DEF Select
  <2>3. QED
    BY <2>1, <2>2
<1>4. CASE LimitCredential(r)
  BY <1>4 DEF LimitCredential
<1>5. CASE Judge(r)
  BY <1>5 DEF Judge, Mismatch
<1>6. CASE ReadSettings(r)
  BY <1>6 DEF ReadSettings
<1>7. CASE Bind(r)
  BY <1>7 DEF Bind
<1>8. CASE Reread(r)
  BY <1>8 DEF Reread
<1>9. CASE Respond(r)
  BY <1>9 DEF Respond
<1>10. CASE Fail(r)
  BY <1>10 DEF Fail
<1>11. QED
  BY <1>1, <1>2, <1>3, <1>4, <1>5, <1>6, <1>7, <1>8, <1>9, <1>10 DEF Handle

\* A step of one request leaves what another one holds.
LEMMA Alone ==
  ASSUME TypeOK, NEW r \in Requests, Handle(r) \/ Fail(r), NEW q \in Requests, q # r
  PROVE  /\ phase'[q] = phase[q] /\ asked'[q] = asked[q] /\ shows'[q] = shows[q]
         /\ seen'[q] = seen[q] /\ answer'[q] = answer[q]
  BY DEF TypeOK, Handle, Screen, LimitAddress, Select, LimitCredential, Judge,
    ReadSettings, Bind, Reread, Respond, Fail, Goto, Finish, Refuse, RefuseRecorded,
    Continue

LEMMA BindingStep == ASSUME BindingInv, [Next]_vars PROVE BindingInv'
<1> USE DEF BindingInv
<1>1. ASSUME NEW r \in Requests, Handle(r) \/ Fail(r) PROVE BindingInv'
  <2>1. TypeOK'
    BY <1>1, HandlerTypes
  <2>2. ASSUME NEW q \in Requests PROVE Knows(q)'
    <3>1. CASE q = r
      BY <1>1, <2>1, <3>1, KnowsStep
    <3>2. CASE q # r
      BY <1>1, <2>1, <3>2, Alone, OthersLeaveMe
    <3>3. QED
      BY <3>1, <3>2
  <2>3. OneDeviceServed'
    <3>1. ASSUME NEW c \in Credentials PROVE served'[c] \subseteq {hwid'[c]} \ {None}
      <4>1. CASE served'[c] = served[c]
        <5>1. served[c] \subseteq {hwid[c]} \ {None}
          BY DEF OneDeviceServed
        <5>2. hwid[c] # None => hwid'[c] = hwid[c]
          BY Binds
        <5>3. QED
          BY <4>1, <5>1, <5>2
      <4>2. CASE served'[c] # served[c]
        <5>1. Respond(r) /\ c = asked[r]
          BY <1>1, <4>2 DEF Handle, Screen, LimitAddress, Select, LimitCredential,
            Judge, ReadSettings, Bind, Reread, Respond, Fail, Refuse, RefuseRecorded,
            Continue, TypeOK
        <5>2. hwid[c] = shows[r] /\ shows[r] # None
          BY <5>1 DEF Respond, Goto, Knows
        <5>3. served'[c] = served[c] \cup {shows[r]} /\ hwid'[c] = hwid[c]
          BY <5>1 DEF Respond, TypeOK, rows
        <5>4. served[c] \subseteq {hwid[c]} \ {None}
          BY DEF OneDeviceServed
        <5>5. QED
          BY <5>2, <5>3, <5>4
      <4>3. QED
        BY <4>1, <4>2
    <3>2. QED
      BY <3>1 DEF OneDeviceServed
  <2>4. RefusalIsRight'
    <3>1. ASSUME NEW q \in Requests, answer'[q] = "other device"
          PROVE  hwid'[asked'[q]] \notin {None, shows'[q]}
      <4>1. CASE answer[q] = "other device"
        <5>1. asked'[q] = asked[q] /\ shows'[q] = shows[q]
          BY <1>1 DEF TypeOK, Handle, Screen, LimitAddress, Select, LimitCredential,
            Judge, ReadSettings, Bind, Reread, Respond, Fail, Goto, Refuse,
            RefuseRecorded, Continue
        <5>2. hwid[asked[q]] \notin {None, shows[q]} /\ asked[q] \in Credentials
          BY <4>1 DEF RefusalIsRight, Knows
        <5>3. QED
          BY <5>1, <5>2, Binds
      <4>2. CASE answer[q] # "other device"
        <5>1. q = r
          BY <1>1, <3>1, <4>2, Alone
        <5>2. CASE Judge(r)
          <6>1. phase[r] = "allowed" /\ Mismatch(r)
            BY <3>1, <4>2, <5>1, <5>2 DEF Judge, Refuse, RefuseRecorded, Continue,
              Finish, Goto, TypeOK
          <6>2. hwid' = hwid /\ asked' = asked /\ shows' = shows
            BY <5>2 DEF Judge, Refuse, RefuseRecorded, Continue, Goto, rows
          <6>3. QED
            BY <5>1, <6>1, <6>2 DEF Mismatch, Knows
        <5>3. CASE Reread(r)
          <6>1. phase[r] = "lost" /\ hwid[asked[r]] # shows[r]
            BY <3>1, <4>2, <5>1, <5>3 DEF Reread, Refuse, Continue, Finish, Goto, TypeOK
          <6>2. hwid' = hwid /\ asked' = asked /\ shows' = shows
            BY <5>3 DEF Reread, Refuse, Continue, Goto, rows
          <6>3. QED
            BY <5>1, <6>1, <6>2 DEF Knows
        <5>4. CASE ~Judge(r) /\ ~Reread(r)
          BY <1>1, <3>1, <4>2, <5>1, <5>4 DEF TypeOK, Handle, Screen, LimitAddress,
            Select, LimitCredential, ReadSettings, Bind, Respond, Fail, Finish, Refuse,
            RefuseRecorded, Continue
        <5>5. QED
          BY <5>2, <5>3, <5>4
      <4>3. QED
        BY <4>1, <4>2
    <3>2. QED
      BY <3>1 DEF RefusalIsRight
  <2>5. QED
    BY <2>1, <2>2, <2>3, <2>4
<1>2. CASE Others \/ UNCHANGED vars
  <2>1. TypeOK'
    BY <1>2, OtherTypes DEF TypeOK, vars, rows, requests
  <2>2. UNCHANGED <<requests, served, hwid>>
    BY <1>2 DEF Others, RevokeDevice, PatchAccount, RunOut, ToggleSubscriptions,
      ToggleBan, WindowEnds, Change, vars, rows, requests
  <2>3. (\A r \in Requests : Knows(r))' /\ OneDeviceServed' /\ RefusalIsRight'
    BY <2>2 DEF Knows, OneDeviceServed, RefusalIsRight, requests
  <2>4. QED
    BY <2>1, <2>3
<1>3. QED
  BY <1>1, <1>2 DEF Next

-----------------------------------------------------------------------------
(* The limits.                                                             *)

LEMMA PassedAreFinite ==
  ASSUME TypeOK, NEW k \in Keys
  PROVE  IsFiniteSet(passed[k]) /\ Cardinality(passed[k]) \in Nat
  BY SubscriptionAssumption, FS_Subset, FS_CardinalityType
     DEF SubscriptionAssumption, TypeOK

LEMMA OneMore ==
  ASSUME TypeOK, NEW k \in Keys, NEW r \in Requests
  PROVE  /\ Cardinality({r}) = 1 /\ Cardinality(passed[k] \cup {r}) \in Nat
         /\ Cardinality(passed[k] \cup {r}) <= Cardinality(passed[k]) + 1
<1>1. IsFiniteSet(passed[k]) /\ Cardinality(passed[k]) \in Nat
  BY PassedAreFinite
<1>2. Cardinality({r}) = 1
  BY FS_Singleton
<1>3. Cardinality(passed[k] \cup {r}) \in {Cardinality(passed[k]), Cardinality(passed[k]) + 1}
  <2>1. CASE r \in passed[k]
    <3>1. passed[k] \cup {r} = passed[k]
      BY <2>1
    <3>2. QED
      BY <3>1
  <2>2. CASE r \notin passed[k]
    BY <1>1, <2>2, FS_AddElement
  <2>3. QED
    BY <2>1, <2>2
<1>4. QED
  BY <1>1, <1>2, <1>3

LEMMA LimitIsNat == ASSUME NEW k \in Keys PROVE Limit(k) \in Nat
  BY SubscriptionAssumption DEF SubscriptionAssumption, Limit

LEMMA InitRate == Init => RateInv
<1> SUFFICES ASSUME Init PROVE RateInv
  OBVIOUS
<1>1. \A k \in Keys : Cardinality(passed[k]) = 0 /\ window[k].count = 0
  BY FS_EmptySet DEF Init
<1>2. RateHolds
  BY <1>1, LimitIsNat DEF RateHolds
<1>3. QED
  BY <1>1, <1>2, InitBinding DEF RateInv

\* One upsert counts a request, and lets it pass only within the limit.
LEMMA CountStep ==
  ASSUME RateInv, NEW r \in Requests, NEW k \in Keys, Consume(k),
         \/ Allowed(k, Limit(k)) /\ Pass(r, k)
         \/ ~Allowed(k, Limit(k)) /\ UNCHANGED passed,
         NEW j \in Keys
  PROVE  /\ Cardinality(passed'[j]) <= Limit(j)
         /\ Cardinality(passed'[j]) <= window'[j].count
<1> USE DEF RateInv
<1>1. TypeOK
  BY DEF BindingInv
<1>2. /\ Cardinality(passed[j]) <= Limit(j) /\ Cardinality(passed[j]) <= window[j].count
      /\ Cardinality(passed[j]) \in Nat /\ Limit(j) \in Nat /\ window[j].count \in Nat
  BY <1>1, PassedAreFinite, LimitIsNat DEF RateHolds, TypeOK
<1>3. CASE j # k
  <2>1. passed'[j] = passed[j] /\ window'[j] = window[j]
    BY <1>1, <1>3 DEF Consume, Pass, TypeOK
  <2>2. QED
    BY <1>2, <2>1
<1>4. CASE j = k
  <2>1. window'[j] = Counted(j)
    BY <1>1, <1>4 DEF Consume, TypeOK
  <2>2. CASE ~Allowed(k, Limit(k))
    <3>1. Counted(j).count > Limit(j) /\ Counted(j).count \in Nat
      BY <1>2, <1>4, <2>2 DEF Allowed, Counted
    <3>2. passed' = passed
      BY <2>2
    <3>3. QED
      BY <1>2, <2>1, <3>1, <3>2
  <2>3. CASE Allowed(k, Limit(k)) /\ window[k].over
    <3>1. passed'[j] = {r} /\ Counted(j).count = 1
      BY <1>1, <1>4, <2>3 DEF Pass, Counted, TypeOK
    <3>2. Cardinality({r}) = 1
      BY FS_Singleton
    <3>3. QED
      BY <1>4, <2>1, <2>3, <3>1, <3>2 DEF Allowed
  <2>4. CASE Allowed(k, Limit(k)) /\ ~window[k].over
    <3>1. passed'[j] = passed[j] \cup {r} /\ Counted(j).count = window[j].count + 1
      BY <1>1, <1>4, <2>4 DEF Pass, Counted, TypeOK
    <3>2. /\ Cardinality(passed[j] \cup {r}) <= Cardinality(passed[j]) + 1
          /\ Cardinality(passed[j] \cup {r}) \in Nat
      BY <1>1, OneMore
    <3>3. Counted(j).count <= Limit(j)
      BY <1>4, <2>4 DEF Allowed
    <3>4. QED
      BY <1>2, <2>1, <3>1, <3>2, <3>3
  <2>5. QED
    BY <2>2, <2>3, <2>4
<1>5. QED
  BY <1>3, <1>4

LEMMA RateStep == ASSUME RateInv, [Next]_vars PROVE RateInv'
<1> USE DEF RateInv
<1>1. BindingInv' /\ TypeOK
  BY BindingStep DEF BindingInv
<1>2. ASSUME NEW r \in Requests, NEW k \in Keys, Consume(k),
             \/ Allowed(k, Limit(k)) /\ Pass(r, k)
             \/ ~Allowed(k, Limit(k)) /\ UNCHANGED passed
      PROVE  RateInv'
  BY <1>1, <1>2, CountStep DEF RateHolds, Limit
<1>3. ASSUME UNCHANGED <<window, passed>> PROVE RateInv'
  BY <1>1, <1>3 DEF RateHolds, Limit
<1>4. ASSUME NEW r \in Requests, Handle(r) \/ Fail(r) PROVE RateInv'
  <2>1. CASE LimitAddress(r)
    BY <1>2, <2>1 DEF LimitAddress, Limit, Keys
  <2>2. CASE LimitCredential(r)
    <3>1. asked[r] \in Credentials /\ asked[r] \in Keys /\ asked[r] # "address"
      BY <2>2, SubscriptionAssumption
         DEF LimitCredential, BindingInv, Knows, Keys, SubscriptionAssumption
    <3>2. QED
      BY <1>2, <2>2, <3>1 DEF LimitCredential, Limit
  <2>3. CASE ~LimitAddress(r) /\ ~LimitCredential(r)
    BY <1>3, <1>4, <2>3 DEF Handle, Screen, Select, Judge, ReadSettings, Bind, Reread,
      Respond, Fail
  <2>4. QED
    BY <2>1, <2>2, <2>3
<1>5. ASSUME NEW k \in Keys, WindowEnds(k) PROVE RateInv'
  <2>1. passed' = passed /\ \A j \in Keys : window'[j].count = window[j].count
    BY <1>1, <1>5 DEF WindowEnds, TypeOK
  <2>2. QED
    BY <1>1, <2>1 DEF RateHolds, Limit
<1>6. CASE Others /\ ~\E k \in Keys : WindowEnds(k)
  BY <1>3, <1>6 DEF Others, RevokeDevice, PatchAccount, RunOut, ToggleSubscriptions,
    ToggleBan, Change
<1>7. CASE UNCHANGED vars
  BY <1>3, <1>7 DEF vars
<1>8. QED
  BY <1>4, <1>5, <1>6, <1>7 DEF Next, Others

\* Types, for every value of the constants.
THEOREM TypeCorrect == Spec => []TypeOK
<1>1. Spec => []BindingInv
  BY InitBinding, BindingStep, PTL DEF Spec
<1>2. BindingInv => TypeOK
  BY DEF BindingInv
<1>3. QED
  BY <1>1, <1>2, PTL

\* However many first requests meet, one hardware id is given a credential's
\* configuration: the one it is bound to.
THEOREM ServesOneDevice == Spec => []OneDeviceServed
<1>1. Spec => []BindingInv
  BY InitBinding, BindingStep, PTL DEF Spec
<1>2. BindingInv => OneDeviceServed
  BY DEF BindingInv
<1>3. QED
  BY <1>1, <1>2, PTL

\* Only a client of another device is told that it is one.
THEOREM RefusesRightly == Spec => []RefusalIsRight
<1>1. Spec => []BindingInv
  BY InitBinding, BindingStep, PTL DEF Spec
<1>2. BindingInv => RefusalIsRight
  BY DEF BindingInv
<1>3. QED
  BY <1>1, <1>2, PTL

\* A binding is never replaced or removed.
THEOREM BindsOnce == Spec => BindingStands
<1>1. Spec => []BindingInv
  BY InitBinding, BindingStep, PTL DEF Spec
<1>2. BindingInv /\ [Next]_vars
        => [\A c \in Credentials : hwid[c] # None => hwid'[c] = hwid[c]]_vars
  BY Binds DEF BindingInv
<1>3. QED
  BY <1>1, <1>2, PTL DEF Spec, BindingStands

\* Requests counted at the same time do not pass together over a limit.
THEOREM KeepsRates == Spec => []RateHolds
<1>1. Spec => []RateInv
  BY InitRate, RateStep, PTL DEF Spec
<1>2. RateInv => RateHolds
  BY DEF RateInv
<1>3. QED
  BY <1>1, <1>2, PTL
=============================================================================
