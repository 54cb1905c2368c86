---------------------------- MODULE ConsoleProofs ----------------------------
(***************************************************************************)
(* For any number of administrators, targets and edits: what is stored was *)
(* tested, a badge stands for a test, and one token is current. For any    *)
(* number of diagnostics: what a diagnostic left in Xray is explained. For *)
(* any number of open account forms: who lifts a suspension knows of it,   *)
(* and who does not touch the end leaves it. For any number of devices:    *)
(* what a dashboard shows adds up and does not go back. For tables of any  *)
(* length: they show what was asked, and turning pages passes over no row. *)
(***************************************************************************)
EXTENDS AccountForm, SettingsForm, Listing, LiveView, Diagnostics, SequenceTheorems,
        FiniteSetTheorems, TLAPS

(* The settings.                                                           *)

LEMMA PairsExist == First \in Pairs /\ NoPair \notin Pairs
<1>1. PICK t \in Targets, n \in ServerNames : TRUE
  BY SettingsFormAssumption DEF SettingsFormAssumption
<1>2. <<t, n>> \in Pairs
  BY DEF Pairs
<1>3. First \in Pairs
  BY <1>2 DEF First
<1>4. NoPair \notin Pairs
  BY SettingsFormAssumption DEF SettingsFormAssumption, NoPair, Pairs
<1>5. QED
  BY <1>3, <1>4

LEMMA InitSettings == SettingsFormInit => SettingsFormInv
<1> SUFFICES ASSUME SettingsFormInit PROVE SettingsFormInv
  OBVIOUS
<1> USE PairsExist
<1>1. 0 \in 0..MaxEdits
  BY SettingsFormAssumption DEF SettingsFormAssumption
<1>2. SettingsFormTypeOK
  BY <1>1 DEF SettingsFormInit, SettingsFormTypeOK, Editings, Patches, NoPatch
<1>3. OneCurrentToken
  BY FS_EmptySet DEF SettingsFormInit, OneCurrentToken
<1>4. QED
  BY <1>2, <1>3 DEF SettingsFormInit, SettingsFormInv, TargetWasChecked, NoPatch

LEMMA TestedEditing ==
  ASSUME NEW x \in Editings
  PROVE  [x EXCEPT !.test = x.pair, !.badge = NoPair] \in Editings
BY DEF Editings

LEMMA RotatedPatch ==
  ASSUME NEW q \in Patches, NEW tokens \in SUBSET Editors
  PROVE  [q EXCEPT !.at = "rotated", !.rotated = tokens] \in Patches
BY DEF Patches

\* What an edit, a test or a request of one form leaves alone.
LEMMA EditStep ==
  ASSUME SettingsFormInv, NEW e \in Editors, NEW to \in Editings, Edit(e, to),
         to.badge = editor[e].badge, to.edits = editor[e].edits
  PROVE  SettingsFormInv'
<1> USE DEF SettingsFormInv, SettingsFormTypeOK, Edit
<1>1. to.edits + 1 \in 0..MaxEdits
  BY SettingsFormAssumption DEF SettingsFormAssumption, Editings
<1>2. editor' \in [Editors -> Editings]
  BY <1>1 DEF Editings
<1>3. \A f \in Editors : editor'[f].badge = editor[f].badge
  BY DEF Editings
<1>4. QED
  BY <1>2, <1>3 DEF TargetWasChecked, OneCurrentToken

LEMMA SettingsStep ==
  ASSUME SettingsFormInv, [SettingsFormNext]_settingsVars PROVE SettingsFormInv'
<1> USE DEF SettingsFormInv
<1>0. CASE UNCHANGED settingsVars
  BY <1>0 DEF settingsVars, SettingsFormTypeOK, TargetWasChecked, OneCurrentToken
<1>1. ASSUME NEW e \in Editors, EditTarget(e) PROVE SettingsFormInv'
  <2>1. PICK t \in Targets : Edit(e, [editor[e] EXCEPT !.pair = <<t, editor[e].pair[2]>>])
    BY <1>1 DEF EditTarget
  <2>2. editor[e] \in Editings /\ <<t, editor[e].pair[2]>> \in Pairs
    BY DEF SettingsFormTypeOK, Editings, Pairs
  <2>3. QED
    BY <2>1, <2>2, EditStep DEF Editings
<1>2. ASSUME NEW e \in Editors, EditServerName(e) PROVE SettingsFormInv'
  <2>1. PICK n \in ServerNames : Edit(e, [editor[e] EXCEPT !.pair = <<editor[e].pair[1], n>>])
    BY <1>2 DEF EditServerName
  <2>2. editor[e] \in Editings /\ <<editor[e].pair[1], n>> \in Pairs
    BY DEF SettingsFormTypeOK, Editings, Pairs
  <2>3. QED
    BY <2>1, <2>2, EditStep DEF Editings
<1>3. ASSUME NEW e \in Editors, EnterToken(e) PROVE SettingsFormInv'
  <2>1. editor[e] \in Editings
    BY DEF SettingsFormTypeOK
  <2>2. QED
    BY <1>3, <2>1, EditStep DEF EnterToken, Editings
<1> USE DEF SettingsFormTypeOK, TargetWasChecked, OneCurrentToken, Editings, Patches
<1>4. ASSUME NEW e \in Editors, StartTest(e) PROVE SettingsFormInv'
  <2>1. editor' \in [Editors -> Editings]
    <3>1. [editor[e] EXCEPT !.test = editor[e].pair, !.badge = NoPair] \in Editings
      BY TestedEditing
    <3>2. editor' = [editor EXCEPT ![e] =
                       [editor[e] EXCEPT !.test = editor[e].pair, !.badge = NoPair]]
      BY <1>4 DEF StartTest
    <3>3. QED
      BY <3>1, <3>2
  <2>2. \A f \in Editors : editor'[f].badge \in {editor[f].badge, NoPair}
    BY <1>4 DEF StartTest
  <2>3. QED
    BY <1>4, <2>1, <2>2 DEF StartTest
<1>5. ASSUME NEW e \in Editors, TestPasses(e) PROVE SettingsFormInv'
  BY <1>5 DEF TestPasses
<1>6. ASSUME NEW e \in Editors, TestFails(e) PROVE SettingsFormInv'
  BY <1>6 DEF TestFails
<1>7. ASSUME NEW e \in Editors, Save(e) PROVE SettingsFormInv'
  BY <1>7 DEF Save, NoPatch
<1>8. ASSUME NEW e \in Editors, ReadReality(e) PROVE SettingsFormInv'
  BY <1>8 DEF ReadReality, PatchStep, Changed
<1>9. ASSUME NEW e \in Editors, CheckPasses(e) PROVE SettingsFormInv'
  <2>1. request[e].pair \in Pairs
    BY <1>9 DEF CheckPasses, PatchStep
  <2>2. QED
    BY <1>9, <2>1 DEF CheckPasses, PatchStep
<1>10. ASSUME NEW e \in Editors, UpsertSettings(e) PROVE SettingsFormInv'
  BY <1>10, SettingsFormAssumption
    DEF UpsertSettings, PatchStep, Nobody, SettingsFormAssumption
<1>11. ASSUME NEW e \in Editors, RotateToken(e) PROVE SettingsFormInv'
  <2>1. request' \in [Editors -> Patches]
    <3>1. [request[e] EXCEPT !.at = "rotated", !.rotated = current] \in Patches
      BY RotatedPatch
    <3>2. request' = [request EXCEPT ![e] =
                        [request[e] EXCEPT !.at = "rotated", !.rotated = current]]
      BY <1>11 DEF RotateToken
    <3>3. QED
      BY <3>1, <3>2
  <2>2. request'[e].at = "rotated" /\ request'[e].rotated = current
        /\ request'[e].pair = request[e].pair
    BY <1>11 DEF RotateToken
  <2>3. \A f \in Editors \ {e} : request'[f] = request[f]
    BY <1>11 DEF RotateToken
  <2>4. rowLock = e /\ request[e].pair \in checked
    BY <1>11 DEF RotateToken
  <2>5. QED
    BY <1>11, <2>1, <2>2, <2>3, <2>4 DEF RotateToken
<1>12. ASSUME NEW e \in Editors, CommitSettings(e) PROVE SettingsFormInv'
  <2>1. request[e].pair \in checked /\ rowLock = e
    BY <1>12 DEF CommitSettings
  <2>2. current' \in {current, {e}}
    BY <1>12 DEF CommitSettings
  <2>3. Cardinality(current') <= 1
    <3>1. Cardinality({e}) = 1
      BY FS_Singleton
    <3>2. CASE current' = current
      BY <3>2
    <3>3. CASE current' = {e}
      <4>1. Cardinality(current') = 1
        BY <3>1, <3>3, Zenon
      <4>2. QED
        BY <4>1
    <3>4. QED
      BY <2>2, <3>2, <3>3
  <2>4. \A f \in Editors \ {e} : request[f].at \notin {"locked", "rotated"}
    BY <2>1
  <2>5. QED
    BY <1>12, <2>1, <2>2, <2>3, <2>4 DEF CommitSettings, NoPatch
<1>13. ASSUME NEW e \in Editors, PatchFails(e) PROVE SettingsFormInv'
  BY <1>13 DEF PatchFails, NoPatch
<1>14. QED
  BY <1>0, <1>1, <1>2, <1>3, <1>4, <1>5, <1>6, <1>7, <1>8, <1>9, <1>10, <1>11, <1>12,
     <1>13 DEF SettingsFormNext

LEMMA SettingsInvariant == SettingsFormSpec => []SettingsFormInv
<1>1. SettingsFormInv /\ [SettingsFormNext]_settingsVars => SettingsFormInv'
  BY SettingsStep
<1>2. QED
  BY InitSettings, <1>1, PTL DEF SettingsFormSpec

\* The variables of the settings keep their types.
THEOREM SettingsTypeCorrect == SettingsFormSpec => []SettingsFormTypeOK
<1>1. SettingsFormInv => SettingsFormTypeOK
  BY DEF SettingsFormInv
<1>2. QED
  BY SettingsInvariant, <1>1, PTL

\* No target is stored, and no badge is shown, that was not tested (route.ts,
\* realityChanged; the form, realityCheckIsCurrent), and however saves overlap one
\* token is current (the upsert locks the row).
THEOREM KeepsSettings == SettingsFormSpec => []SettingsHold
<1>1. SettingsFormInv => ShownCheckWasMade
  BY PairsExist DEF SettingsFormInv, ShownCheckWasMade, BadgeShown, SettingsFormTypeOK,
                    Editings
<1>2. SettingsFormInv => SettingsHold
  BY <1>1 DEF SettingsFormInv, SettingsHold
<1>3. QED
  BY SettingsInvariant, <1>2, PTL

-----------------------------------------------------------------------------
(* Diagnostics.                                                            *)

LEMMA DiagnosticsStep ==
  ASSUME DiagnosticsTypeOK, LeftoverExplained, [DiagnosticsNext]_diagnosticVars
  PROVE  DiagnosticsTypeOK' /\ LeftoverExplained'
<1> USE DEF DiagnosticsTypeOK, LeftoverExplained, Outcomes
<1> DEFINE Goal == DiagnosticsTypeOK' /\ LeftoverExplained'
<1>0. CASE UNCHANGED diagnosticVars
  BY <1>0 DEF diagnosticVars
<1>1. ASSUME NEW d \in Probes, AskDiagnostic(d) PROVE Goal
  BY <1>1 DEF AskDiagnostic, xray
<1>2. ASSUME NEW d \in Probes, ReceiveAnswer(d) \/ GiveUp(d) PROVE Goal
  BY <1>2 DEF ReceiveAnswer, GiveUp, Tell, xray
<1> USE DEF ProbeStep, EndProbe, page, xray, Free
<1>3. ASSUME NEW d \in Probes, TakeLock(d) PROVE Goal
  BY <1>3 DEF TakeLock
<1>4. ASSUME NEW d \in Probes, CheckFirst(d) PROVE Goal
  BY <1>4 DEF CheckFirst
<1>5. ASSUME NEW d \in Probes, AddProbeUser(d) PROVE Goal
  BY <1>5 DEF AddProbeUser
<1>6. ASSUME xrayFaults < MaxXrayFaults, xrayFaults' = xrayFaults + 1
      PROVE  xrayFaults' \in 0..MaxXrayFaults
  BY <1>6, DiagnosticsAssumption DEF DiagnosticsAssumption
<1>7. ASSUME NEW d \in Probes, AddFails(d) PROVE Goal
  BY <1>6, <1>7 DEF AddFails, XrayFault
<1>8. ASSUME NEW d \in Probes, TryTunnel(d) PROVE Goal
  BY <1>8 DEF TryTunnel
<1>9. ASSUME NEW d \in Probes, RemoveProbeUser(d) PROVE Goal
  BY <1>9 DEF RemoveProbeUser
<1>10. ASSUME NEW d \in Probes, NothingToRemove(d) PROVE Goal
  BY <1>10 DEF NothingToRemove
<1>11. ASSUME NEW d \in Probes, RemoveFails(d) PROVE Goal
  BY <1>6, <1>11 DEF RemoveFails, XrayFault
<1>12. CASE RestartXray \/ StartAgain
  BY <1>6, <1>12 DEF RestartXray, StartAgain
<1>13. CASE RestartAgent
  <2>1. xrayFaults' \in 0..MaxXrayFaults
    BY <1>6, <1>13 DEF RestartAgent
  <2>2. DiagnosticsTypeOK'
    BY <1>13, <2>1 DEF RestartAgent
  <2>3. probeUsers' = {}
    BY <1>13 DEF RestartAgent
  <2>4. QED
    BY <2>2, <2>3
<1>14. QED
  BY <1>0, <1>1, <1>2, <1>3, <1>4, <1>5, <1>7, <1>8, <1>9, <1>10, <1>11, <1>12,
     <1>13 DEF DiagnosticsNext, Thread

LEMMA DiagnosticsInvariant ==
  DiagnosticsSpec => [](DiagnosticsTypeOK /\ LeftoverExplained)
<1>1. DiagnosticsInit => DiagnosticsTypeOK /\ LeftoverExplained
  BY DiagnosticsAssumption
    DEF DiagnosticsInit, DiagnosticsTypeOK, LeftoverExplained, Outcomes, Free,
        DiagnosticsAssumption
<1>2. DiagnosticsTypeOK /\ LeftoverExplained /\ [DiagnosticsNext]_diagnosticVars
        => (DiagnosticsTypeOK /\ LeftoverExplained)'
  BY DiagnosticsStep
<1>3. QED
  BY <1>1, <1>2, PTL DEF DiagnosticsSpec

\* The variables of the diagnostics keep their types.
THEOREM DiagnosticsTypeCorrect == DiagnosticsSpec => []DiagnosticsTypeOK
BY DiagnosticsInvariant, PTL

\* However many diagnostics, restarts and failures there are, a user that a
\* diagnostic left in Xray is one of which a call to Xray failed
\* (run_vpn_diagnostic, finally).
THEOREM LeavesExplained == DiagnosticsSpec => []LeftoverExplained
BY DiagnosticsInvariant, PTL

-----------------------------------------------------------------------------
(* The form of an account.                                                 *)

\* A form never shows a number of days that is not one.
LEMMA DaysAreNatural ==
  ASSUME NEW end \in Nat \cup {Unlimited}, NEW at \in Nat
  PROVE  RemainingDays(end, at) \in Nat \cup {Unlimited}
<1> USE AccountFormAssumption DEF AccountFormAssumption
<1>1. CASE end # Unlimited /\ end > at
  <2>1. end - at + Day - 1 \in Nat /\ Day \in Nat \ {0}
    BY <1>1
  <2>2. \A n \in Nat, k \in Nat \ {0} : n \div k \in Nat
    OBVIOUS
  <2>3. (end - at + Day - 1) \div Day \in Nat
    BY <2>1, <2>2
  <2>4. QED
    BY <1>1, <2>3 DEF RemainingDays
<1>2. CASE end = Unlimited \/ end <= at
  BY <1>2 DEF RemainingDays
<1>3. QED
  BY <1>1, <1>2

LEMMA EndIsNatural ==
  ASSUME NEW days \in Nat \cup {Unlimited}, NEW at \in Nat
  PROVE  NewEnd(days, at) \in Nat \cup {Unlimited}
<1>1. CASE days = Unlimited
  BY <1>1 DEF NewEnd
<1>2. CASE days \in Nat
  <2>1. days * Day \in Nat
    BY <1>2, AccountFormAssumption DEF AccountFormAssumption
  <2>2. QED
    BY <1>2, <2>1 DEF NewEnd
<1>3. QED
  BY <1>1, <1>2

LEMMA FormsChange ==
  ASSUME NEW f \in Forms, NEW n \in Nat \cup {Unlimited}, NEW k \in Nat, NEW b \in BOOLEAN
  PROVE  /\ [NoForm EXCEPT !.step = "open", !.at = k, !.days = n, !.off = b] \in Forms
         /\ [f EXCEPT !.days = n, !.own = FALSE, !.at = 0] \in Forms
         /\ [f EXCEPT !.off = ~f.off, !.lifts = f.lifts \/ f.off] \in Forms
         /\ [f EXCEPT !.step = "sent"] \in Forms
         /\ [f EXCEPT !.step = "computed", !.asked = n, !.when = k] \in Forms
         /\ [f EXCEPT !.step = "open", !.asked = Unlimited, !.when = 0] \in Forms
BY DEF Forms, NoForm

\* A step that changes one form, and not the account.
LEMMA FormChanges ==
  ASSUME AccountFormInv, NEW t \in Tabs, NEW form \in Forms,
         tab' = [tab EXCEPT ![t] = form], UNCHANGED <<clock, expires, suspended>>,
         sends' \in 0..MaxSaves,
         form.step # "closed" /\ suspended /\ ~form.off => form.lifts
  PROVE  AccountFormInv'
BY DEF AccountFormInv, AccountFormTypeOK

LEMMA FormStep ==
  ASSUME AccountFormInv, AccountFormNext PROVE AccountFormInv'
<1> USE DEF AccountFormInv, AccountFormTypeOK
<1>0. clock \in Nat /\ (clock < MaxTime => clock + 1 \in 0..MaxTime)
      /\ (sends < MaxSaves => sends + 1 \in 0..MaxSaves)
  BY AccountFormAssumption DEF AccountFormAssumption
<1>1. ASSUME NEW t \in Tabs, OpenForm(t) PROVE AccountFormInv'
  <2> DEFINE days == RemainingDays(expires, clock)
             form == [NoForm EXCEPT !.step = "open", !.at = clock,
                                    !.days = days, !.off = suspended]
  <2>1. days \in Nat \cup {Unlimited}
    BY <1>0, DaysAreNatural
  <2>2. tab' = [tab EXCEPT ![t] = form]
    BY <1>1 DEF OpenForm
  <2> HIDE DEF days
  <2>3. NoForm \in Forms
    BY DEF NoForm, Forms
  <2>4. form \in Forms
    BY <1>0, <2>1, <2>3, FormsChange
  <2>5. form.off = suspended
    BY DEF NoForm
  <2> HIDE DEF form
  <2>6. QED
    BY <1>1, <2>2, <2>4, <2>5, FormChanges DEF OpenForm
<1>2. ASSUME NEW t \in Tabs, EditDays(t) PROVE AccountFormInv'
  <2>1. PICK d \in Days \cup {Unlimited} :
          tab' = [tab EXCEPT ![t].days = d, ![t].own = FALSE, ![t].at = 0]
    BY <1>2 DEF EditDays
  <2> DEFINE form == [tab[t] EXCEPT !.days = d, !.own = FALSE, !.at = 0]
  <2>2. d \in Nat \cup {Unlimited}
    BY AccountFormAssumption DEF AccountFormAssumption
  <2>3. form \in Forms /\ tab' = [tab EXCEPT ![t] = form]
    BY <2>1, <2>2, FormsChange
  <2>4. form.step = tab[t].step /\ form.off = tab[t].off /\ form.lifts = tab[t].lifts
    BY DEF Forms
  <2> HIDE DEF form
  <2>5. QED
    BY <1>2, <2>3, <2>4, FormChanges DEF EditDays
<1>3. ASSUME NEW t \in Tabs, EditStatus(t) PROVE AccountFormInv'
  <2> DEFINE form == [tab[t] EXCEPT !.off = ~tab[t].off, !.lifts = tab[t].lifts \/ tab[t].off]
  <2>1. tab' = [tab EXCEPT ![t] = form]
    BY <1>3 DEF EditStatus
  <2>2. form \in Forms
    BY FormsChange
  <2>3. form.off = ~tab[t].off /\ form.lifts = (tab[t].lifts \/ tab[t].off)
    BY DEF Forms
  <2> HIDE DEF form
  <2>4. QED
    BY <1>3, <2>1, <2>2, <2>3, FormChanges DEF EditStatus
<1>4. ASSUME NEW t \in Tabs, SendForm(t) PROVE AccountFormInv'
  <2> DEFINE form == [tab[t] EXCEPT !.step = "sent"]
  <2>1. form \in Forms /\ tab' = [tab EXCEPT ![t] = form]
    BY <1>4, FormsChange DEF SendForm
  <2>2. form.off = tab[t].off /\ form.lifts = tab[t].lifts /\ tab[t].step = "open"
    BY <1>4 DEF Forms, SendForm
  <2> HIDE DEF form
  <2>3. QED
    BY <1>0, <1>4, <2>1, <2>2, FormChanges DEF SendForm
<1>5. ASSUME NEW t \in Tabs, ComputeEnd(t) PROVE AccountFormInv'
  <2> DEFINE end  == NewEnd(tab[t].days, clock)
             form == [tab[t] EXCEPT !.step = "computed", !.asked = end, !.when = clock]
  <2>1. tab[t].days \in Nat \cup {Unlimited}
    BY DEF Forms
  <2>2. end \in Nat \cup {Unlimited}
    BY <1>0, <2>1, EndIsNatural
  <2>3. tab' = [tab EXCEPT ![t] = form] /\ tab[t].step = "sent"
    BY <1>5 DEF ComputeEnd
  <2> HIDE DEF end
  <2>4. form \in Forms
    BY <1>0, <2>2, FormsChange
  <2>5. form.off = tab[t].off /\ form.lifts = tab[t].lifts
    BY DEF Forms
  <2> HIDE DEF form
  <2>6. QED
    BY <1>5, <2>3, <2>4, <2>5, FormChanges DEF ComputeEnd
<1>6. ASSUME NEW t \in Tabs, StoreAccount(t) PROVE AccountFormInv'
  <2>1. tab' \in [Tabs -> Forms]
    BY <1>6 DEF StoreAccount, Forms, NoForm
  <2>2. \A u \in Tabs : u # t /\ tab[u].step # "closed" =>
          tab'[u].off = tab[u].off
          /\ tab'[u].lifts = (tab[u].lifts \/ (~suspended /\ tab[t].off))
    BY <1>6 DEF StoreAccount, Forms
  <2>3. \A u \in Tabs : u # t /\ tab[u].step = "closed" => tab'[u].step = "closed"
    BY <1>6 DEF StoreAccount, NoForm
  <2>4. tab'[t].off = suspended' /\ suspended' = tab[t].off
    BY <1>6 DEF StoreAccount, Forms
  <2>5. expires' \in Nat \cup {Unlimited} /\ suspended' \in BOOLEAN
    BY <1>6 DEF StoreAccount, Forms
  <2>6. \A u \in Tabs : tab'[u].step # "closed" /\ suspended' /\ ~tab'[u].off
                          => tab'[u].lifts
    BY <2>2, <2>3, <2>4
  <2>7. QED
    BY <1>6, <2>1, <2>5, <2>6 DEF StoreAccount
<1>7. ASSUME NEW t \in Tabs, SendFails(t) PROVE AccountFormInv'
  <2> DEFINE form == [tab[t] EXCEPT !.step = "open", !.asked = Unlimited, !.when = 0]
  <2>1. tab' = [tab EXCEPT ![t] = form] /\ tab[t].step # "closed"
    BY <1>7 DEF SendFails
  <2>2. form \in Forms
    BY FormsChange
  <2>3. form.off = tab[t].off /\ form.lifts = tab[t].lifts
    BY DEF Forms
  <2> HIDE DEF form
  <2>4. QED
    BY <1>7, <2>1, <2>2, <2>3, FormChanges DEF SendFails
<1>8. ASSUME NEW t \in Tabs, CloseForm(t) PROVE AccountFormInv'
  <2>1. NoForm \in Forms /\ NoForm.step = "closed"
    BY DEF NoForm, Forms
  <2>2. QED
    BY <1>8, <2>1, FormChanges DEF CloseForm
<1>9. CASE TimePasses
  BY <1>0, <1>9 DEF TimePasses
<1>10. QED
  BY <1>1, <1>2, <1>3, <1>4, <1>5, <1>6, <1>7, <1>8, <1>9 DEF AccountFormNext

LEMMA FormInvariant == AccountFormSpec => []AccountFormInv
<1>1. AccountFormInit => AccountFormInv
  <2>1. \A d \in Days : d * Day \in Nat
    BY AccountFormAssumption DEF AccountFormAssumption
  <2>2. 0 \in 0..MaxTime /\ 0 \in 0..MaxSaves
    BY AccountFormAssumption DEF AccountFormAssumption
  <2>3. NoForm \in Forms /\ NoForm.step = "closed"
    BY DEF NoForm, Forms
  <2>4. SUFFICES ASSUME AccountFormInit PROVE AccountFormInv
    OBVIOUS
  <2>5. expires \in Nat \cup {Unlimited}
    <3>1. expires = Unlimited \/ \E d \in Days : expires = d * Day
      BY <2>4 DEF AccountFormInit
    <3>2. QED
      BY <2>1, <3>1
  <2>6. tab \in [Tabs -> Forms] /\ \A t \in Tabs : tab[t].step = "closed"
    BY <2>3, <2>4 DEF AccountFormInit
  <2>7. QED
    BY <2>2, <2>4, <2>5, <2>6 DEF AccountFormInit, AccountFormInv, AccountFormTypeOK
<1>2. AccountFormInv /\ UNCHANGED accountVars => AccountFormInv'
  BY DEF AccountFormInv, AccountFormTypeOK, accountVars
<1>3. AccountFormInv /\ [AccountFormNext]_accountVars => AccountFormInv'
  BY <1>2, FormStep
<1>4. QED
  BY <1>1, <1>3, PTL DEF AccountFormSpec

\* The variables of the form keep their types: in particular no number of days
\* is negative, whenever the form was opened.
THEOREM AccountFormTypeCorrect == AccountFormSpec => []AccountFormTypeOK
<1>1. AccountFormInv => AccountFormTypeOK
  BY DEF AccountFormInv
<1>2. QED
  BY FormInvariant, <1>1, PTL

\* A form that was left open never lifts a suspension nobody meant to lift,
\* unless it was rendered before it (route.ts, which stores every field).
THEOREM LiftsKnowingly == AccountFormSpec => LiftedKnowingly
<1> DEFINE Lift == \A t \in Tabs : suspended /\ ~suspended' /\ tab[t].step = "computed"
                     /\ tab'[t].step = "open" => tab[t].lifts
<1>1. AccountFormInv /\ AccountFormNext => Lift
  <2> SUFFICES ASSUME AccountFormInv, AccountFormNext, NEW t \in Tabs, suspended,
                      ~suspended', tab[t].step = "computed", tab'[t].step = "open"
               PROVE  tab[t].lifts
    OBVIOUS
  <2>1. PICK u \in Tabs : StoreAccount(u)
    BY DEF AccountFormNext, OpenForm, EditDays, EditStatus, SendForm, ComputeEnd,
           SendFails, CloseForm, TimePasses
  <2>2. ~tab[u].off
    BY <2>1 DEF StoreAccount
  <2>3. u = t
    BY <2>1 DEF StoreAccount, AccountFormInv, AccountFormTypeOK, Forms
  <2>4. QED
    BY <2>2, <2>3 DEF AccountFormInv
<1>2. AccountFormInv /\ [AccountFormNext]_accountVars => [Lift]_accountVars
  BY <1>1
<1>3. QED
  BY FormInvariant, <1>2, PTL DEF AccountFormSpec, LiftedKnowingly

\* A number divided by another and rounded down.
LEMMA Rounds ==
  ASSUME NEW n \in Nat, NEW k \in Nat \ {0}
  PROVE  (n \div k) * k <= n /\ n < (n \div k) * k + k
<1>1. n \div k \in Nat /\ n % k \in 0..(k-1)
  OBVIOUS
<1>2. n = (n \div k) * k + (n % k)
  OBVIOUS
<1>3. (n \div k) * k \in Nat
  BY <1>1
<1> DEFINE m == (n \div k) * k
           r == n % k
<1>4. m \in Nat /\ r \in 0..(k-1) /\ n = m + r
  BY <1>1, <1>2, <1>3
<1> HIDE DEF m, r
<1>5. m <= n /\ n < m + k
  BY <1>4
<1>6. QED
  BY <1>5 DEF m

\* The days a form is rendered with reach the account's end, or less than a day
\* beyond; of an account that has ended, they reach a day from now.
LEMMA DaysReachTheEnd ==
  ASSUME NEW end \in Nat, NEW at \in Nat
  PROVE  LET days == RemainingDays(end, at)
         IN  /\ days \in Nat /\ end <= at + days * Day
             /\ at + days * Day <= (IF end > at THEN end ELSE at) + Day
<1>1. Day \in Nat \ {0} /\ end # Unlimited
  BY AccountFormAssumption DEF AccountFormAssumption
<1>2. CASE end <= at
  <2>1. RemainingDays(end, at) = 1 /\ 1 * Day = Day
    BY <1>1, <1>2 DEF RemainingDays
  <2>2. QED
    BY <1>1, <1>2, <2>1
<1>3. CASE end > at
  <2> DEFINE n    == end - at + Day - 1
             days == RemainingDays(end, at)
  <2>1. n \in Nat /\ days = n \div Day
    BY <1>1, <1>3 DEF RemainingDays
  <2>2. days \in Nat
    <3>1. \A m \in Nat, k \in Nat \ {0} : m \div k \in Nat
      OBVIOUS
    <3> HIDE DEF n, days
    <3>2. QED
      BY <1>1, <2>1, <3>1
  <2>3. days * Day \in Nat /\ days * Day <= n /\ n < days * Day + Day
    <3> HIDE DEF n, days
    <3>1. days * Day \in Nat
      BY <1>1, <2>2
    <3>2. QED
      BY <1>1, <2>1, <3>1, Rounds
  <2> DEFINE span == days * Day
  <2>4. span \in Nat /\ span <= end - at + Day - 1 /\ end - at + Day - 1 < span + Day
    BY <2>3
  <2> HIDE DEF span
  <2>5. end <= at + span /\ at + span <= end + Day
    BY <1>1, <2>4
  <2>6. QED
    BY <1>3, <2>2, <2>5 DEF span
<1>4. QED
  BY <1>2, <1>3

\* A step that changes one form, and not the account.
LEMMA EndChanges ==
  ASSUME EndsInv, AccountFormTypeOK', NEW t \in Tabs, NEW form \in Forms,
         tab' = [tab EXCEPT ![t] = form], UNCHANGED <<clock, expires>>,
         form.step # "closed" => KeepsEnd(form)
  PROVE  EndsInv'
<1>1. \A u \in Tabs : tab'[u] = IF u = t THEN form ELSE tab[u]
  BY DEF EndsInv, AccountFormTypeOK
<1>2. \A u \in Tabs : tab'[u].step # "closed" => KeepsEnd(tab'[u])
  BY <1>1 DEF EndsInv
<1>3. QED
  BY <1>2 DEF EndsInv, KeepsEnd, ShowsTheEnd

\* Saving, from whichever tab, and the time that passes keep every form's reach.
LEMMA EndsStep ==
  ASSUME AccountFormInv, EndsInv, AccountFormNext PROVE EndsInv'
<1>1. /\ AccountFormTypeOK /\ clock \in Nat /\ expires \in Nat \cup {Unlimited}
      /\ Unlimited \notin Nat /\ \A t \in Tabs : tab[t] \in Forms
      /\ \A t \in Tabs : tab[t].step # "closed" => KeepsEnd(tab[t])
  BY AccountFormAssumption DEF AccountFormAssumption, EndsInv, AccountFormTypeOK
<1>2. AccountFormTypeOK' /\ \A t \in Tabs : tab'[t] \in Forms
  BY FormStep DEF AccountFormInv, AccountFormTypeOK
<1>3. ASSUME NEW t \in Tabs, OpenForm(t) PROVE EndsInv'
  <2> DEFINE form == [NoForm EXCEPT !.step = "open", !.at = clock,
                        !.days = RemainingDays(expires, clock), !.off = suspended]
  <2>1. tab' = [tab EXCEPT ![t] = form] /\ UNCHANGED <<clock, expires>>
    BY <1>3 DEF OpenForm
  <2>2. tab'[t] = form
    BY <1>1, <2>1 DEF AccountFormTypeOK
  <2>3. form.step = "open" /\ form.at = clock /\ form.days = RemainingDays(expires, clock)
    BY DEF NoForm
  <2>4. form \in Forms
    BY <1>2, <2>2
  <2> HIDE DEF form
  <2>5. ShowsTheEnd(form)
    <3>1. CASE expires = Unlimited
      BY <2>3, <3>1 DEF ShowsTheEnd, RemainingDays
    <3>2. CASE expires # Unlimited
      <4>1. expires \in Nat
        BY <1>1, <3>2
      <4>2. QED
        BY <1>1, <2>3, <3>2, <4>1, DaysReachTheEnd DEF ShowsTheEnd
    <3>3. QED
      BY <3>1, <3>2
  <2>6. KeepsEnd(form)
    BY <1>1, <2>3, <2>5 DEF KeepsEnd
  <2>7. QED
    BY <1>2, <2>1, <2>4, <2>6, EndChanges
<1>4. ASSUME NEW t \in Tabs, EditDays(t) PROVE EndsInv'
  <2>1. PICK d \in Days \cup {Unlimited} :
          tab' = [tab EXCEPT ![t].days = d, ![t].own = FALSE, ![t].at = 0]
    BY <1>4 DEF EditDays
  <2> DEFINE form == [tab[t] EXCEPT !.days = d, !.own = FALSE, !.at = 0]
  <2>2. tab' = [tab EXCEPT ![t] = form] /\ UNCHANGED <<clock, expires>>
    BY <1>4, <2>1 DEF EditDays
  <2>3. tab'[t] = form
    BY <1>1, <2>2 DEF AccountFormTypeOK
  <2>4. form \in Forms
    BY <1>2, <2>3
  <2>5. form.step = "open" /\ ~form.own /\ form.at = 0
    BY <1>1, <1>4 DEF EditDays, Forms
  <2> HIDE DEF form
  <2>6. KeepsEnd(form)
    BY <1>1, <2>5 DEF KeepsEnd
  <2>7. QED
    BY <1>2, <2>2, <2>4, <2>6, EndChanges
<1>5. ASSUME NEW t \in Tabs, NEW form \in Forms, tab[t].step # "closed",
             tab' = [tab EXCEPT ![t] = form],
             UNCHANGED <<clock, expires>>, form.step # "computed",
             form.days = tab[t].days, form.own = tab[t].own, form.at = tab[t].at
      PROVE  EndsInv'
  <2>1. KeepsEnd(form)
    BY <1>1, <1>5 DEF KeepsEnd, ShowsTheEnd
  <2>2. QED
    BY <1>2, <1>5, <2>1, EndChanges
<1>6. ASSUME NEW t \in Tabs, EditStatus(t) \/ SendForm(t) \/ SendFails(t) PROVE EndsInv'
  <2>1. /\ tab'[t] \in Forms /\ tab' = [tab EXCEPT ![t] = tab'[t]]
        /\ UNCHANGED <<clock, expires>> /\ tab[t].step # "closed"
    BY <1>1, <1>2, <1>6 DEF EditStatus, SendForm, SendFails, AccountFormTypeOK
  <2>2. /\ tab'[t].step # "computed" /\ tab'[t].days = tab[t].days
        /\ tab'[t].own = tab[t].own /\ tab'[t].at = tab[t].at
    BY <1>1, <1>6 DEF EditStatus, SendForm, SendFails, AccountFormTypeOK, Forms
  <2>3. QED
    BY <1>5, <2>1, <2>2
<1>7. ASSUME NEW t \in Tabs, ComputeEnd(t) PROVE EndsInv'
  <2> DEFINE form == [tab[t] EXCEPT !.step = "computed", !.when = clock,
                                    !.asked = NewEnd(tab[t].days, clock)]
  <2>1. /\ tab' = [tab EXCEPT ![t] = form] /\ UNCHANGED <<clock, expires>>
        /\ tab[t].step = "sent"
    BY <1>7 DEF ComputeEnd
  <2>2. tab'[t] = form
    BY <1>1, <2>1 DEF AccountFormTypeOK
  <2>3. form \in Forms
    BY <1>2, <2>2
  <2>4. /\ form.days = tab[t].days /\ form.own = tab[t].own /\ form.at = tab[t].at
        /\ form.when = clock /\ form.asked = NewEnd(form.days, form.when)
    BY <1>1 DEF Forms
  <2> HIDE DEF form
  <2>5. KeepsEnd(form)
    BY <1>1, <2>1, <2>4 DEF KeepsEnd, ShowsTheEnd
  <2>6. QED
    BY <1>2, <2>1, <2>3, <2>5, EndChanges
<1>8. ASSUME NEW t \in Tabs, StoreAccount(t) PROVE EndsInv'
  <2>1. /\ tab[t].step = "computed" /\ KeepsEnd(tab[t]) /\ UNCHANGED clock
        /\ expires' = tab[t].asked /\ tab[t].asked = NewEnd(tab[t].days, tab[t].when)
    BY <1>1, <1>8 DEF StoreAccount, KeepsEnd
  <2>2. /\ tab'[t].step = "open" /\ tab'[t].at = tab[t].when /\ tab'[t].days = tab[t].days
    BY <1>1, <1>8 DEF StoreAccount, Forms
  <2>3. /\ tab[t].when \in Nat /\ tab[t].when <= clock /\ Day \in Nat
        /\ tab[t].days \in Nat \cup {Unlimited}
    BY <1>1, <2>1, AccountFormAssumption DEF KeepsEnd, Forms, AccountFormAssumption
  <2>4. ShowsTheEnd(tab[t])'
    <3>1. CASE tab[t].days = Unlimited
      BY <2>1, <2>2, <3>1 DEF ShowsTheEnd, NewEnd
    <3>2. CASE tab[t].days # Unlimited
      <4>1. expires' = tab[t].when + tab[t].days * Day
        BY <2>1, <3>2 DEF NewEnd
      <4>2. tab[t].days \in Nat /\ expires' \in Nat
        <5>1. tab[t].days \in Nat
          BY <2>3, <3>2
        <5>2. tab[t].days * Day \in Nat
          BY <2>3, <5>1
        <5>3. QED
          BY <2>3, <4>1, <5>1, <5>2
      <4>3. expires' # Unlimited /\ tab'[t].days # Unlimited
        BY <1>1, <2>2, <4>2
      <4>4. tab'[t].at + tab'[t].days * Day = expires'
        BY <2>2, <4>1
      <4>5. tab'[t].at \in Nat
        BY <2>2, <2>3
      <4>6. QED
        BY <2>3, <4>2, <4>3, <4>4, <4>5 DEF ShowsTheEnd
    <3>3. QED
      BY <3>1, <3>2
  <2>5. KeepsEnd(tab[t])'
    BY <2>1, <2>2, <2>3, <2>4 DEF KeepsEnd
  <2>6. \A u \in Tabs : u # t /\ tab'[u].step # "closed" =>
          /\ ~tab'[u].own /\ tab'[u].at = 0 /\ tab[u].step = tab'[u].step
          /\ tab'[u].when = tab[u].when /\ tab'[u].asked = tab[u].asked
          /\ tab'[u].days = tab[u].days
    BY <1>1, <1>8 DEF StoreAccount, NoForm, Forms
  <2>7. \A u \in Tabs : u # t /\ tab'[u].step # "closed" => KeepsEnd(tab[u])'
    BY <1>1, <2>1, <2>6 DEF KeepsEnd, Forms
  <2>8. QED
    BY <1>2, <2>5, <2>7 DEF EndsInv
<1>9. ASSUME NEW t \in Tabs, CloseForm(t) PROVE EndsInv'
  <2>1. NoForm \in Forms /\ NoForm.step = "closed"
    BY DEF NoForm, Forms
  <2>2. QED
    BY <1>2, <1>9, <2>1, EndChanges, <1>1 DEF CloseForm, EndsInv
<1>10. CASE TimePasses
  <2>1. clock' = clock + 1 /\ UNCHANGED <<expires, tab>>
    BY <1>10 DEF TimePasses
  <2>2. \A t \in Tabs : tab[t].at \in Nat /\ tab[t].when \in Nat
    BY <1>1 DEF Forms
  <2>3. \A t \in Tabs : KeepsEnd(tab[t]) => KeepsEnd(tab[t])'
    BY <1>1, <2>1, <2>2 DEF KeepsEnd, ShowsTheEnd
  <2>4. QED
    BY <1>1, <1>2, <2>1, <2>3 DEF EndsInv
<1>11. QED
  BY <1>3, <1>4, <1>6, <1>7, <1>8, <1>9, <1>10 DEF AccountFormNext

LEMMA EndsInvariant == AccountFormSpec => []EndsInv
<1>1. AccountFormInit /\ AccountFormInv => EndsInv
  <2>1. NoForm.step = "closed"
    BY DEF NoForm
  <2>2. QED
    BY <2>1 DEF AccountFormInit, AccountFormInv, EndsInv
<1>2. EndsInv /\ UNCHANGED accountVars => EndsInv'
  BY DEF EndsInv, AccountFormTypeOK, KeepsEnd, ShowsTheEnd, accountVars
<1>3. AccountFormInv /\ EndsInv /\ [AccountFormNext]_accountVars => EndsInv'
  BY <1>2, EndsStep
<1>4. QED
  BY FormInvariant, <1>1, <1>3, PTL DEF AccountFormSpec

\* For any tabs, length of the day, days entered and time that passes: saving
\* another field takes no time from the account, and gives away no more than the
\* form's age and a day.
THEOREM UntouchedKeepsItsEnd == AccountFormSpec => UntouchedEndHolds
<1> DEFINE Held ==
      \A t \in Tabs :
        Untouched(t) /\ tab'[t].step = "open" /\ expires' # expires =>
          /\ expires # Unlimited /\ expires' # Unlimited
          /\ expires' \in expires ..
               (IF expires > clock THEN expires ELSE clock) + (clock - tab[t].at) + Day
<1>1. ASSUME EndsInv, AccountFormNext PROVE Held
  <2> SUFFICES ASSUME NEW t \in Tabs, Untouched(t), tab'[t].step = "open",
                      expires' # expires
               PROVE  /\ expires # Unlimited /\ expires' # Unlimited
                      /\ expires' \in expires ..
                           (IF expires > clock THEN expires ELSE clock)
                             + (clock - tab[t].at) + Day
    OBVIOUS
  <2>1. PICK u \in Tabs : StoreAccount(u)
    BY <1>1 DEF AccountFormNext, OpenForm, EditDays, EditStatus, SendForm, ComputeEnd,
                SendFails, CloseForm, TimePasses
  <2>2. /\ tab[t] \in Forms /\ tab[t].step = "computed" /\ tab[t].own
        /\ KeepsEnd(tab[t]) /\ expires \in Nat \cup {Unlimited} /\ clock \in Nat
        /\ Day \in Nat /\ Unlimited \notin Nat
    BY <1>1, AccountFormAssumption
       DEF EndsInv, AccountFormTypeOK, Untouched, AccountFormAssumption
  <2>3. u = t
    BY <2>1, <2>2 DEF StoreAccount, Forms
  <2>4. /\ expires' = NewEnd(tab[t].days, tab[t].when) /\ ShowsTheEnd(tab[t])
        /\ tab[t].at <= tab[t].when /\ tab[t].when <= clock
        /\ tab[t].at \in Nat /\ tab[t].when \in Nat /\ tab[t].days \in Nat \cup {Unlimited}
    BY <2>1, <2>2, <2>3 DEF StoreAccount, KeepsEnd, Forms
  <2>5. tab[t].days # Unlimited /\ expires # Unlimited
    BY <2>4 DEF NewEnd, ShowsTheEnd
  <2> DEFINE span == tab[t].days * Day
  <2>6. span \in Nat
    BY <2>2, <2>4, <2>5
  <2>7. /\ expires' = tab[t].when + span /\ expires <= tab[t].at + span
        /\ tab[t].at + span <= (IF expires > tab[t].at THEN expires ELSE tab[t].at) + Day
    BY <2>4, <2>5 DEF NewEnd, ShowsTheEnd
  <2>8. expires \in Nat
    BY <2>2, <2>5
  <2> HIDE DEF span
  <2>9. expires' \in Nat
    BY <2>4, <2>6, <2>7
  <2>10. QED
    BY <2>2, <2>4, <2>5, <2>6, <2>7, <2>8, <2>9
<1>2. EndsInv /\ [AccountFormNext]_accountVars => [Held]_accountVars
  BY <1>1
<1>3. QED
  BY EndsInvariant, <1>2, PTL DEF AccountFormSpec, UntouchedEndHolds

-----------------------------------------------------------------------------
(* The dashboards.                                                         *)

\* What devices have used is a finite number, which grows with what each has used
\* and with the devices it is summed over.
LEMMA TotalGrows ==
  ASSUME NEW a \in [Gadgets -> Nat], NEW b \in [Gadgets -> Nat],
         NEW S \in SUBSET Gadgets, NEW T \in SUBSET Gadgets,
         S \subseteq T, \A g \in S : a[g] <= b[g]
  PROVE  Total(a, S) \in Nat /\ Total(a, S) <= Total(b, T)
<1> DEFINE of(g)  == {g} \X (1..b[g])
           bytes  == UNION {of(g) : g \in T}
           each   == [g \in T |-> of(g)]
<1>1. \A g \in T : IsFiniteSet(of(g))
  <2> TAKE g \in T
  <2>1. IsFiniteSet({g})
    BY FS_Singleton
  <2>2. 1 \in Int /\ b[g] \in Int
    OBVIOUS
  <2>3. IsFiniteSet(1..b[g])
    BY <2>2, FS_Interval
  <2>4. QED
    BY <2>1, <2>3, FS_Product
<1>2. IsFiniteSet({of(g) : g \in T})
  <2>1. IsFiniteSet(T)
    BY FS_Subset, LiveViewAssumption DEF LiveViewAssumption
  <2>2. each \in Surjection(T, {of(g) : g \in T})
    BY DEF Surjection
  <2>3. QED
    BY <2>1, <2>2, FS_Surjection
<1>3. IsFiniteSet(bytes)
  BY <1>1, <1>2, FS_UNION
<1>4. UNION {{g} \X (1..a[g]) : g \in S} \subseteq bytes
  <2>1. \A g \in S : 1..a[g] \subseteq 1..b[g]
    OBVIOUS
  <2>2. QED
    BY <2>1
<1>5. QED
  BY <1>3, <1>4, FS_Subset, FS_CardinalityType DEF Total

\* A dashboard nobody has opened yet.
LEMMA InitLiveView == LiveViewInit => LiveViewInv
<1> SUFFICES ASSUME LiveViewInit PROVE LiveViewInv
  OBVIOUS
<1>1. NoRead \in Reads
  BY DEF NoRead, Reads
<1>2. LiveViewTypeOK
  <2>1. used \in [access : Nat, devices : [Gadgets -> Nat]]
    BY DEF LiveViewInit, NoRead
  <2>2. version \in 0..MaxSamples /\ lapses \in 0..MaxLapses
    BY LiveViewAssumption DEF LiveViewAssumption, LiveViewInit
  <2>3. fetches \in [Slots -> Reads]
    BY <1>1 DEF LiveViewInit
  <2>4. QED
    BY <1>1, <2>1, <2>2, <2>3 DEF LiveViewInit, LiveViewTypeOK
<1>3. OneFetch
  BY DEF LiveViewInit, OneFetch, Fetching, NoRead
<1>4. 0 <= Total(used.devices, Gadgets)
  <2>1. used.devices \in [Gadgets -> Nat] /\ \A g \in Gadgets : used.devices[g] <= used.devices[g]
    BY <1>2 DEF LiveViewTypeOK
  <2>2. Total(used.devices, Gadgets) \in Nat
    BY <2>1, TotalGrows
  <2>3. QED
    BY <2>2
<1>5. QED
  BY <1>2, <1>3, <1>4 DEF LiveViewInit, LiveViewInv, AddsUp, Follows, NoRead

\* The rows only gain: the reads under way still add up.
LEMMA RowsStep ==
  ASSUME LiveViewInv, StoreTelemetry \/ RevokeGadget
  PROVE  LiveViewInv'
<1> USE DEF LiveViewInv
<1>1. /\ version \in Nat /\ version' \in 0..MaxSamples /\ version' = version + 1
      /\ UNCHANGED <<cached, fetches, render, mounted, visible, lapses>>
  BY LiveViewAssumption
     DEF LiveViewAssumption, StoreTelemetry, RevokeGadget, RowsGoOn, LiveViewTypeOK
<1>2. /\ used' \in [access : Nat, devices : [Gadgets -> Nat]] /\ gone' \in SUBSET Gadgets
      /\ \A g \in Gadgets : used.devices[g] <= used.devices'[g]
      /\ used'.access <= Total(used'.devices, Gadgets)
  <2>1. CASE RevokeGadget
    BY <2>1 DEF RevokeGadget, LiveViewTypeOK
  <2>2. CASE StoreTelemetry
    <3>1. PICK g \in Gadgets \ gone :
            used' = [devices |-> [used.devices EXCEPT ![g] = @ + 1],
                     access  |-> Total([used.devices EXCEPT ![g] = @ + 1], Gadgets \ gone)]
      BY <2>2 DEF StoreTelemetry
    <3> DEFINE now == [used.devices EXCEPT ![g] = @ + 1]
    <3>2. /\ now \in [Gadgets -> Nat]
          /\ \A d \in Gadgets : used.devices[d] <= now[d] /\ now[d] <= now[d]
      BY DEF LiveViewTypeOK
    <3>3. Total(now, Gadgets \ gone) \in Nat
          /\ Total(now, Gadgets \ gone) <= Total(now, Gadgets)
      BY <3>2, TotalGrows
    <3>4. QED
      BY <2>2, <3>1, <3>2, <3>3 DEF StoreTelemetry, LiveViewTypeOK
  <2>3. QED
    BY <2>1, <2>2
<1>3. /\ Total(used.devices, Gadgets) \in Nat /\ Total(used'.devices, Gadgets) \in Nat
      /\ Total(used.devices, Gadgets) <= Total(used'.devices, Gadgets)
  <2>1. used.devices \in [Gadgets -> Nat]
    BY DEF LiveViewTypeOK
  <2>2. /\ used'.devices \in [Gadgets -> Nat]
        /\ \A g \in Gadgets : used.devices[g] <= used'.devices[g]
                              /\ used'.devices[g] <= used'.devices[g]
    BY <1>2
  <2>3. QED
    BY <2>1, <2>2, TotalGrows
<1>4. LiveViewTypeOK'
  BY <1>1, <1>2 DEF LiveViewTypeOK
<1>5. OneFetch'
  BY <1>1 DEF OneFetch, Fetching
<1>6. \A r \in Reads : AddsUp(r) /\ r.of <= version /\ r.at <= version
                         => (AddsUp(r) /\ r.of <= version /\ r.at <= version)'
  BY <1>1, <1>3 DEF AddsUp, Reads
<1>7. \A r \in {cached, render} \cup {fetches[f] : f \in Slots} : r \in Reads
  BY DEF LiveViewTypeOK
<1>8. QED
  BY <1>1, <1>2, <1>4, <1>5, <1>6, <1>7 DEF Follows

\* One statement of getPortalDashboard. The second reads what is at least as new,
\* and adds up to no less.
LEMMA ReadingFollows ==
  ASSUME LiveViewInv, NEW r \in Reads, r.step \in {"asked", "access"},
         AddsUp(r), r.of <= version, r.at <= version
  PROVE  /\ Reading(r) \in Reads /\ Reading(r).step \in {"access", "answered"}
         /\ AddsUp(Reading(r)) /\ Reading(r).of <= version /\ Reading(r).at <= version
         /\ Follows(r) => Follows(Reading(r))
<1> USE DEF LiveViewInv
<1>1. /\ version \in Nat /\ used.access \in Nat /\ used.devices \in [Gadgets -> Nat]
      /\ cached \in Reads /\ cached.of <= version /\ cached.at <= version
  BY LiveViewAssumption DEF LiveViewAssumption, LiveViewTypeOK
<1>2. CASE r.step = "asked"
  <2>1. Reading(r) = ReadAccess(r)
    BY <1>2 DEF Reading
  <2>2. /\ Reading(r) \in Reads /\ Reading(r).step = "access" /\ Reading(r).at = r.at
        /\ Reading(r).access = used.access /\ Reading(r).of = version
    BY <1>1, <2>1 DEF ReadAccess, Reads
  <2>3. QED
    BY <1>1, <1>2, <2>2 DEF AddsUp, Follows, Reads
<1>3. CASE r.step = "access"
  <2>1. Reading(r) = ReadDevices(r)
    BY <1>3 DEF Reading
  <2>2. /\ Reading(r) \in Reads /\ Reading(r).step = "answered"
        /\ Reading(r).at = version /\ Reading(r).devices = used.devices
        /\ Reading(r).access = r.access /\ Reading(r).of = r.of
    BY <1>1, <2>1 DEF ReadDevices, Reads
  <2>3. QED
    BY <1>1, <1>3, <2>2 DEF AddsUp, Follows, Reads
<1>4. QED
  BY <1>2, <1>3

\* A new request.
LEMMA AskedIsRead ==
  ASSUME LiveViewInv, NEW n \in 1..2
  PROVE  LET asked == [NoRead EXCEPT !.step = "asked", !.try = n]
         IN  /\ asked \in Reads /\ asked.step = "asked" /\ AddsUp(asked)
             /\ Follows(asked) /\ asked.of <= version /\ asked.at <= version
<1> DEFINE asked == [NoRead EXCEPT !.step = "asked", !.try = n]
<1>1. version \in Nat
  BY LiveViewAssumption DEF LiveViewAssumption, LiveViewInv, LiveViewTypeOK
<1>2. n \in 0..2
  OBVIOUS
<1>3. NoRead \in Reads
  BY DEF NoRead, Reads
<1>4. asked \in Reads
  BY <1>2, <1>3 DEF asked, Reads
<1>5. asked.step = "asked" /\ asked.of = 0 /\ asked.at = 0
  BY DEF asked, NoRead
<1>6. AddsUp(asked) /\ Follows(asked) /\ asked.of <= version /\ asked.at <= version
  BY <1>1, <1>5 DEF AddsUp, Follows
<1>7. QED
  BY <1>4, <1>5, <1>6 DEF asked

LEMMA NothingRead ==
  ASSUME LiveViewInv
  PROVE  /\ NoRead \in Reads /\ NoRead.step = "none" /\ AddsUp(NoRead)
         /\ Follows(NoRead) /\ NoRead.of <= version /\ NoRead.at <= version
BY LiveViewAssumption
   DEF LiveViewAssumption, LiveViewInv, LiveViewTypeOK, NoRead, Reads, AddsUp, Follows

\* A fetch that takes the place of another, of which nothing else is seen.
LEMMA FetchChanges ==
  ASSUME LiveViewInv, NEW f \in Slots, NEW r \in Reads, AddsUp(r), Follows(r),
         r.of <= version, r.at <= version,
         fetches' = [fetches EXCEPT ![f] = r], cached # NoRead,
         fetches[f].step # "none" \/ ~Fetching,
         UNCHANGED <<rowsOfView, cached, render, mounted, visible>>,
         lapses' \in 0..MaxLapses
  PROVE  LiveViewInv'
<1> USE DEF LiveViewInv, rowsOfView
<1>1. LiveViewTypeOK'
  BY DEF LiveViewTypeOK
<1>2. \A g \in Slots : fetches'[g] = IF g = f THEN r ELSE fetches[g]
  BY DEF LiveViewTypeOK
<1>3. OneFetch'
  BY <1>2 DEF OneFetch, Fetching
<1>4. \A x \in {cached, render} \cup {fetches'[g] : g \in Slots} :
        AddsUp(x) /\ x.of <= version /\ x.at <= version
  BY <1>2
<1>5. \A x \in Reads : AddsUp(x)' <=> AddsUp(x)
  BY DEF AddsUp
<1>6. \A g \in Slots : Follows(fetches'[g])
  BY <1>2
<1>7. \A x \in {cached', render'} \cup {fetches'[g] : g \in Slots} :
        (AddsUp(x) /\ x.of <= version /\ x.at <= version)'
  BY <1>4, <1>5 DEF AddsUp
<1>8. \A g \in Slots : Follows(fetches[g])'
  BY <1>6 DEF Follows
<1>9. (used.access <= Total(used.devices, Gadgets))'
  OBVIOUS
<1>10. QED
  BY <1>1, <1>3, <1>7, <1>8, <1>9

\* Every step keeps it.
LEMMA LiveViewStep ==
  ASSUME LiveViewInv, [LiveViewNext]_viewVars
  PROVE  LiveViewInv'
<1> USE DEF LiveViewInv
<1>1. /\ version \in Nat /\ cached \in Reads /\ render \in Reads
      /\ \A f \in Slots : fetches[f] \in Reads
  BY LiveViewAssumption DEF LiveViewAssumption, LiveViewTypeOK
<1>2. ASSUME NEW r \in Reads, AddsUp(r), r.of <= version, r.at <= version, render' = r,
             UNCHANGED <<rowsOfView, cached, fetches, mounted, visible, lapses>>
      PROVE  LiveViewInv'
  BY <1>2 DEF LiveViewTypeOK, OneFetch, Fetching, AddsUp, Follows, rowsOfView
<1>3. CASE ReadForPage
  <2>1. render.step \in {"asked", "access"} /\ render' = Reading(render)
        /\ UNCHANGED <<rowsOfView, cached, fetches, mounted, visible, lapses>>
    BY <1>3 DEF ReadForPage
  <2>2. AddsUp(render) /\ render.of <= version /\ render.at <= version
    OBVIOUS
  <2>3. QED
    BY <1>1, <1>2, <2>1, <2>2, ReadingFollows
<1>4. CASE OpenPage
  <2> DEFINE asked == [NoRead EXCEPT !.step = "asked", !.try = 1]
  <2>1. asked \in Reads /\ AddsUp(asked) /\ asked.of <= version /\ asked.at <= version
    <3>1. 1 \in 1..2
      OBVIOUS
    <3>2. QED
      BY <3>1, AskedIsRead
  <2>2. render' = asked
        /\ UNCHANGED <<rowsOfView, cached, fetches, mounted, visible, lapses>>
    BY <1>4 DEF OpenPage
  <2> HIDE DEF asked
  <2>3. QED
    BY <1>2, <2>1, <2>2
<1>5. ASSUME NEW f \in Slots, ReadForFetch(f) PROVE LiveViewInv'
  <2>1. /\ fetches[f].step \in {"asked", "access"}
        /\ fetches' = [fetches EXCEPT ![f] = Reading(fetches[f])]
        /\ UNCHANGED <<rowsOfView, cached, render, mounted, visible, lapses>>
    BY <1>5 DEF ReadForFetch
  <2>2. /\ AddsUp(fetches[f]) /\ fetches[f].of <= version /\ fetches[f].at <= version
        /\ Follows(fetches[f]) /\ cached # NoRead /\ lapses' \in 0..MaxLapses
    BY <2>1 DEF OneFetch, Fetching, LiveViewTypeOK
  <2>3. /\ Reading(fetches[f]) \in Reads /\ AddsUp(Reading(fetches[f]))
        /\ Follows(Reading(fetches[f])) /\ Reading(fetches[f]).of <= version
        /\ Reading(fetches[f]).at <= version
    BY <1>1, <2>1, <2>2, ReadingFollows
  <2>4. fetches[f].step # "none"
    BY <2>1
  <2>5. QED
    BY <2>1, <2>2, <2>3, <2>4, FetchChanges
<1>6. ASSUME NEW f \in Slots, Poll(f) PROVE LiveViewInv'
  <2> DEFINE asked == [NoRead EXCEPT !.step = "asked", !.try = 1]
  <2>1. /\ ~Fetching /\ fetches' = [fetches EXCEPT ![f] = asked]
        /\ UNCHANGED <<rowsOfView, cached, render, mounted, visible, lapses>>
    BY <1>6 DEF Poll
  <2>2. cached # NoRead /\ lapses' \in 0..MaxLapses
    BY <1>6, <2>1 DEF Poll, OneFetch, LiveViewTypeOK
  <2>3. /\ asked \in Reads /\ AddsUp(asked) /\ Follows(asked)
        /\ asked.of <= version /\ asked.at <= version
    <3>1. 1 \in 1..2
      OBVIOUS
    <3>2. QED
      BY <3>1, AskedIsRead
  <2> HIDE DEF asked
  <2>4. QED
    BY <2>1, <2>2, <2>3, FetchChanges
<1>7. ASSUME NEW f \in Slots, FetchFails(f) PROVE LiveViewInv'
  <2> DEFINE next == IF fetches[f].try = 1 /\ mounted
                     THEN [NoRead EXCEPT !.step = "asked", !.try = 2] ELSE NoRead
  <2>1. /\ fetches[f].step # "none" /\ fetches' = [fetches EXCEPT ![f] = next]
        /\ UNCHANGED <<rowsOfView, cached, render, mounted, visible>>
    BY <1>7 DEF FetchFails, Lapse, LiveViewTypeOK
  <2>2. cached # NoRead /\ lapses' \in 0..MaxLapses
    BY <1>7, <2>1, LiveViewAssumption
       DEF FetchFails, Lapse, OneFetch, Fetching, LiveViewTypeOK, LiveViewAssumption
  <2>3. /\ next \in Reads /\ AddsUp(next) /\ Follows(next)
        /\ next.of <= version /\ next.at <= version
    BY AskedIsRead, NothingRead
  <2>4. QED
    BY <2>1, <2>2, <2>3, FetchChanges
<1>8. ASSUME NEW f \in Slots, Answer(f) PROVE LiveViewInv'
  <2>1. /\ fetches[f].step = "answered" /\ cached' = fetches[f]
        /\ fetches' = [fetches EXCEPT ![f] = NoRead]
        /\ UNCHANGED <<rowsOfView, render, mounted, visible, lapses>>
    BY <1>8 DEF Answer
  <2>2. \A g \in Slots : fetches'[g].step = "none" /\ fetches'[g] = IF g = f THEN NoRead ELSE fetches[g]
    BY <2>1, NothingRead DEF OneFetch, LiveViewTypeOK
  <2>3. cached' # NoRead
    BY <2>1, NothingRead
  <2>4. LiveViewTypeOK'
    BY <1>1, <2>1, NothingRead DEF LiveViewTypeOK, rowsOfView
  <2>5. OneFetch'
    BY <2>1, <2>2, <2>3 DEF OneFetch, Fetching
  <2>6. \A x \in {cached', render'} \cup {fetches'[g] : g \in Slots} :
          AddsUp(x) /\ x.of <= version /\ x.at <= version
    BY <2>1, <2>2, NothingRead
  <2>7. \A g \in Slots : Follows(fetches[g])'
    BY <2>2 DEF Follows
  <2>8. QED
    BY <2>1, <2>4, <2>5, <2>6, <2>7 DEF AddsUp, rowsOfView
<1>9. CASE Mount \/ Forget
  <2>1. /\ UNCHANGED <<rowsOfView, fetches, visible, lapses>>
        /\ mounted' \in BOOLEAN /\ (mounted' => cached' # NoRead)
        /\ render' \in {render, NoRead}
        /\ cached' \in {cached, render, NoRead} /\ (cached' = cached \/ ~Fetching)
        /\ cached' # NoRead => cached'.step = "answered"
    <3>1. CASE Mount
      <4>1. render # NoRead
        BY <3>1, NothingRead DEF Mount
      <4>2. cached' = (IF cached = NoRead THEN render ELSE cached) /\ render.step = "answered"
        BY <3>1 DEF Mount
      <4>3. QED
        BY <3>1, <4>1, <4>2 DEF Mount, OneFetch
    <3>2. CASE Forget
      BY <3>2 DEF Forget, LiveViewTypeOK
    <3>3. QED
      BY <1>9, <3>1, <3>2
  <2>2. LiveViewTypeOK'
    BY <1>1, <2>1, NothingRead DEF LiveViewTypeOK, rowsOfView
  <2>3. OneFetch'
    BY <2>1 DEF OneFetch, Fetching
  <2>4. \A x \in {cached', render'} \cup {fetches'[g] : g \in Slots} :
          AddsUp(x) /\ x.of <= version /\ x.at <= version
    BY <2>1, NothingRead
  <2>5. \A g \in Slots : Follows(fetches[g])'
    BY <1>1, <2>1 DEF Follows, Fetching
  <2>6. QED
    BY <2>1, <2>2, <2>3, <2>4, <2>5 DEF AddsUp, rowsOfView
<1>10. CASE Hide \/ Show \/ Leave \/ UNCHANGED viewVars
  <2>1. /\ UNCHANGED <<rowsOfView, cached, fetches, render>> /\ visible' \in BOOLEAN
        /\ mounted' \in BOOLEAN /\ (mounted' => mounted) /\ lapses' \in 0..MaxLapses
    <3>1. \/ UNCHANGED lapses
          \/ lapses < MaxLapses /\ lapses' = lapses + 1
      BY <1>10 DEF Hide, Show, Leave, Lapse, viewVars
    <3>2. lapses' \in 0..MaxLapses
      BY <3>1, LiveViewAssumption DEF LiveViewTypeOK, LiveViewAssumption
    <3>3. UNCHANGED <<rowsOfView, cached, fetches, render>>
      BY <1>10 DEF Hide, Show, Leave, Lapse, viewVars, rowsOfView
    <3>4. visible' \in {visible, TRUE, FALSE} /\ mounted' \in {mounted, FALSE}
      BY <1>10 DEF Hide, Show, Leave, viewVars
    <3>5. visible \in BOOLEAN /\ mounted \in BOOLEAN
      BY DEF LiveViewTypeOK
    <3>6. visible' \in BOOLEAN
      BY <3>4, <3>5
    <3>7. mounted' \in BOOLEAN /\ (mounted' => mounted)
      <4>1. CASE mounted' = mounted
        BY <3>5, <4>1, Zenon
      <4>2. CASE mounted' = FALSE
        BY <4>2, Zenon
      <4>3. QED
        BY <3>4, <4>1, <4>2
    <3>8. QED
      BY <3>2, <3>3, <3>6, <3>7, Zenon
  <2>2. QED
    BY <2>1 DEF LiveViewTypeOK, OneFetch, Fetching, AddsUp, Follows, rowsOfView
<1>11. QED
  BY RowsStep, <1>3, <1>4, <1>5, <1>6, <1>7, <1>8, <1>9, <1>10 DEF LiveViewNext

LEMMA LiveViewInvariant == LiveViewSpec => []LiveViewInv
BY InitLiveView, LiveViewStep, PTL DEF LiveViewSpec

\* For any number of devices and however often telemetry is stored while an answer
\* is read or waits: no dashboard shows an account that used more than its devices.
THEOREM AddsUpAlways == LiveViewSpec => []ViewAddsUp
<1>1. LiveViewInv => ViewAddsUp
  BY DEF LiveViewInv, OneFetch, AddsUp, ViewAddsUp
<1>2. QED
  BY LiveViewInvariant, <1>1, PTL

\* For any opening, leaving, failing and late answers: what a dashboard shows is
\* never replaced by something older.
THEOREM MovesOn == LiveViewSpec => ViewMovesOn
<1>1. ASSUME LiveViewInv, [LiveViewNext]_viewVars
      PROVE  [cached # NoRead /\ cached' # NoRead
               => cached'.of >= cached.of /\ cached'.at >= cached.at]_viewVars
  <2>1. cached.of \in Nat /\ cached.at \in Nat
    BY <1>1 DEF LiveViewInv, LiveViewTypeOK, Reads
  <2>2. CASE \E f \in Slots : Answer(f)
    <3>1. PICK f \in Slots : Answer(f)
      BY <2>2
    <3>2. fetches[f] \in Reads /\ Follows(fetches[f])
      BY <1>1 DEF LiveViewInv, LiveViewTypeOK
    <3>3. QED
      BY <2>1, <3>1, <3>2 DEF Answer, Follows, Reads
  <2>3. CASE Mount \/ Forget
    BY <2>1, <2>3 DEF Mount, Forget
  <2>4. CASE UNCHANGED cached
    BY <2>1, <2>4
  <2>5. QED
    BY <1>1, <2>2, <2>3, <2>4
       DEF LiveViewNext, StoreTelemetry, RevokeGadget, RowsGoOn, ReadForPage, Hide, Show,
           Leave, OpenPage, ReadForFetch, Poll, FetchFails, viewVars
<1>2. QED
  BY <1>1, LiveViewInvariant, PTL DEF LiveViewSpec, ViewMovesOn

-----------------------------------------------------------------------------
(* The tables.                                                             *)

\* A set of naturals has a least element: no interval 0..n-1 is the smallest
\* but one.
LEMMA LeastOf ==
  ASSUME NEW T, T \subseteq Nat, T # {}
  PROVE  \E n \in T : \A m \in T : n <= m
<1> DEFINE below == {0..n-1 : n \in T}
<1>1. below \subseteq FiniteSubsetsOf(Nat)
  <2>1. \A n \in T : 0..n-1 \subseteq Nat /\ IsFiniteSet(0..n-1)
    BY FS_Interval
  <2>2. QED
    BY <2>1 DEF FiniteSubsetsOf
<1>2. \E x \in below : \A y \in below : <<y, x>> \notin StrictSubsetOrdering(Nat)
  <2>1. below # {}
    OBVIOUS
  <2> HIDE DEF below
  <2>2. QED
    BY <1>1, <2>1, FS_StrictSubsetOrderingWellFounded, WFMin
<1>3. PICK n \in T : \A y \in below : <<y, 0..n-1>> \notin StrictSubsetOrdering(Nat)
  BY <1>2
<1>4. ASSUME NEW m \in T, m < n PROVE FALSE
  <2>1. 0..m-1 \subseteq 0..n-1 /\ m \in 0..n-1 /\ m \notin 0..m-1
    BY <1>4
  <2>2. <<0..m-1, 0..n-1>> \in StrictSubsetOrdering(Nat)
    BY <2>1 DEF StrictSubsetOrdering
  <2>3. QED
    BY <1>3, <2>2
<1>5. QED
  BY <1>4

\* The rows a search finds are finitely many, and no more than there are.
LEMMA MatchingIsFinite ==
  ASSUME NEW rows \in Seq(Row), NEW q
  PROVE  /\ IsFiniteSet(Matching(rows, q)) /\ Cardinality(Matching(rows, q)) \in 0..Len(rows)
         /\ Matching(rows, q) \subseteq 1..Len(rows)
         /\ \A k \in Nat : Place(rows, q, k) \in Nat
                           /\ Place(rows, q, k) <= Cardinality(Matching(rows, q))
<1>1. 1 \in Int /\ Len(rows) \in Int /\ Len(rows) \in Nat /\ DOMAIN rows = 1..Len(rows)
  OBVIOUS
<1>2. IsFiniteSet(1..Len(rows)) /\ Cardinality(1..Len(rows)) = Len(rows)
  BY <1>1, FS_Interval
<1>3. Matching(rows, q) \in SUBSET (1..Len(rows))
  BY <1>1 DEF Matching
<1>4. IsFiniteSet(Matching(rows, q)) /\ Cardinality(Matching(rows, q)) <= Len(rows)
  BY <1>2, <1>3, FS_Subset
<1>5. Cardinality(Matching(rows, q)) \in Nat
  BY <1>4, FS_CardinalityType
<1>6. ASSUME NEW k \in Nat
      PROVE  Place(rows, q, k) \in Nat /\ Place(rows, q, k) <= Cardinality(Matching(rows, q))
  <2> DEFINE before == {i \in Matching(rows, q) : i <= k}
  <2>1. before \in SUBSET Matching(rows, q)
    OBVIOUS
  <2>2. IsFiniteSet(before) /\ Cardinality(before) <= Cardinality(Matching(rows, q))
    BY <1>4, <2>1, FS_Subset
  <2>3. QED
    BY <2>2, FS_CardinalityType DEF Place
<1>7. QED
  BY <1>1, <1>3, <1>4, <1>5, <1>6

\* Rows that keep their order when others come between them are no higher up.
LEMMA PlaceGrows ==
  ASSUME NEW rows \in Seq(Row), NEW more \in Seq(Row), NEW q,
         NEW f \in [DOMAIN rows -> DOMAIN more],
         \A i, j \in DOMAIN rows : f[i] = f[j] => i = j,
         \A i \in DOMAIN rows : more[f[i]] = rows[i]
  PROVE  /\ Cardinality(Matching(rows, q)) <= Cardinality(Matching(more, q))
         /\ \A k \in DOMAIN rows, m \in Nat :
              (\A i \in DOMAIN rows : i <= k => f[i] <= m)
                => Place(rows, q, k) <= Place(more, q, m)
<1>1. \A i \in Matching(rows, q) : f[i] \in Matching(more, q)
  BY DEF Matching
<1>2. IsFiniteSet(Matching(more, q))
  BY MatchingIsFinite
<1>3. Cardinality(Matching(rows, q)) <= Cardinality(Matching(more, q))
  <2> DEFINE g == [i \in Matching(rows, q) |-> f[i]]
  <2>1. g \in Injection(Matching(rows, q), Matching(more, q))
    BY <1>1 DEF Injection, IsInjective, Matching
  <2>2. QED
    BY <1>2, <2>1, FS_Injection
<1>4. ASSUME NEW k \in DOMAIN rows, NEW m \in Nat,
             \A i \in DOMAIN rows : i <= k => f[i] <= m
      PROVE  Place(rows, q, k) <= Place(more, q, m)
  <2> DEFINE S == {i \in Matching(rows, q) : i <= k}
             T == {i \in Matching(more, q) : i <= m}
             g == [i \in S |-> f[i]]
  <2>1. IsFiniteSet(T)
    BY <1>2, FS_Subset
  <2>2. g \in Injection(S, T)
    BY <1>1, <1>4 DEF Injection, IsInjective, Matching
  <2>3. Cardinality(S) <= Cardinality(T)
    BY <2>1, <2>2, FS_Injection
  <2>4. QED
    BY <2>3 DEF Place
<1>5. QED
  BY <1>3, <1>4

\* Further down is not further up.
LEMMA PlaceOrder ==
  ASSUME NEW rows \in Seq(Row), NEW q, NEW i \in Nat, NEW j \in Nat, i <= j
  PROVE  Place(rows, q, i) <= Place(rows, q, j)
<1> DEFINE S == {m \in Matching(rows, q) : m <= i}
           T == {m \in Matching(rows, q) : m <= j}
<1>1. Matching(rows, q) \subseteq Nat
  <2>1. DOMAIN rows = 1..Len(rows) /\ Len(rows) \in Nat
    OBVIOUS
  <2>2. Matching(rows, q) \subseteq 1..Len(rows)
    BY <2>1 DEF Matching
  <2>3. QED
    BY <2>1, <2>2
<1>2. IsFiniteSet(T)
  BY MatchingIsFinite, FS_Subset
<1>3. S \in SUBSET T
  BY <1>1
<1>4. Cardinality(S) <= Cardinality(T)
  BY <1>2, <1>3, FS_Subset
<1>5. QED
  BY <1>4 DEF Place

\* Of the rows that are found there is a first, a second, ... and a last.
LEMMA PlacesAreTaken ==
  ASSUME NEW rows \in Seq(Row), NEW q, NEW n \in Nat,
         0 < n, n <= Cardinality(Matching(rows, q))
  PROVE  \E k \in Matching(rows, q) : Place(rows, q, k) = n
<1> DEFINE T == {k \in Nat : n <= Place(rows, q, k)}
           all == Matching(rows, q)
           upto(k) == {m \in all : m <= k}
<1>1. Len(rows) \in Nat /\ DOMAIN rows = 1..Len(rows) /\ all \subseteq 1..Len(rows)
  <2>1. DOMAIN rows = 1..Len(rows) /\ Len(rows) \in Nat
    OBVIOUS
  <2>2. QED
    BY <2>1 DEF Matching
<1>2. upto(Len(rows)) = all
  BY <1>1
<1>3. Len(rows) \in T
  BY <1>1, <1>2 DEF Place
<1>4. PICK k \in T : \A m \in T : k <= m
  <2>1. T \subseteq Nat /\ T # {}
    BY <1>3
  <2> HIDE DEF T
  <2>2. QED
    BY <2>1, LeastOf
<1>5. k \in Nat /\ n <= Place(rows, q, k) /\ k # 0
  <2>1. upto(0) = {}
    BY <1>1
  <2>2. Place(rows, q, 0) = 0
    BY <2>1, FS_EmptySet DEF Place
  <2>3. QED
    BY <1>4, <2>2
<1>6. k - 1 \in Nat /\ ~(n <= Place(rows, q, k - 1))
  BY <1>4, <1>5
<1>7. IsFiniteSet(upto(k - 1))
  BY MatchingIsFinite, FS_Subset
<1>8. CASE k \notin all
  <2>1. upto(k) = upto(k - 1)
    BY <1>1, <1>5, <1>8
  <2>2. QED
    BY <1>5, <1>6, <2>1 DEF Place
<1>9. CASE k \in all
  <2>1. upto(k) = upto(k - 1) \cup {k} /\ k \notin upto(k - 1)
    BY <1>1, <1>5, <1>9
  <2>2. Cardinality(upto(k)) = Cardinality(upto(k - 1)) + 1
    BY <1>7, <2>1, FS_AddElement
  <2>3. Place(rows, q, k) = Place(rows, q, k - 1) + 1
    BY <2>2 DEF Place
  <2>4. Place(rows, q, k - 1) \in Nat /\ Place(rows, q, k) \in Nat
    BY <1>5, <1>6, MatchingIsFinite
  <2> HIDE DEF all
  <2>5. Place(rows, q, k) = n
    BY <1>5, <1>6, <2>3, <2>4
  <2>6. QED
    BY <1>9, <2>5 DEF all
<1>10. QED
  BY <1>8, <1>9

\* Pages are counted from one, there are no more than rows, and the last is not
\* empty.
LEMMA PagesBound ==
  ASSUME NEW count \in Nat, NEW n \in Nat \ {0}
  PROVE  /\ Pages(count, n) \in Nat \ {0}
         /\ Pages(count, n) = 1 \/ Pages(count, n) <= count
         /\ count # 0 => (Pages(count, n) - 1) * n < count
<1>1. CASE count = 0
  BY <1>1 DEF Pages
<1>2. CASE count # 0
  <2> DEFINE m == count + n - 1
             p == m \div n
  <2>1. m \in Nat /\ Pages(count, n) = p
    BY <1>2 DEF Pages
  <2>2. p \in Nat
    <3>1. \A i \in Nat, k \in Nat \ {0} : i \div k \in Nat
      OBVIOUS
    <3> HIDE DEF m
    <3>2. QED
      BY <2>1, <3>1
  <2>3. p * n \in Nat /\ p * n <= m /\ m < p * n + n
    <3> HIDE DEF m
    <3>1. p * n <= m /\ m < p * n + n
      BY <2>1, Rounds
    <3> HIDE DEF p
    <3>2. p * n \in Nat
      BY <2>2
    <3>3. QED
      BY <3>1, <3>2
  <2> HIDE DEF p
  <2>4. p # 0 /\ (p - 1) * n = p * n - n
    <3>1. p = 0 => p * n = 0
      OBVIOUS
    <3>2. (p - 1) * n = p * n - n
      BY <2>2
    <3>3. QED
      BY <1>2, <2>3, <3>1, <3>2
  <2>5. (p - 1) * n < count
    BY <2>3, <2>4
  <2>6. p <= count
    <3>1. p - 1 \in Nat
      BY <2>2, <2>4
    <3>2. p - 1 <= (p - 1) * n
      BY <3>1
    <3>3. (p - 1) * n \in Nat
      BY <3>1
    <3>4. QED
      BY <2>2, <2>5, <3>2, <3>3
  <2>7. QED
    BY <2>1, <2>2, <2>4, <2>5, <2>6
<1>3. QED
  BY <1>1, <1>2

\* The beginning and the end of a table.
LEMMA FrontRows ==
  ASSUME NEW rows \in Seq(Row), NEW k \in 0..Len(rows)
  PROVE  /\ SubSeq(rows, 1, k) \in Seq(Row) /\ Len(SubSeq(rows, 1, k)) = k
         /\ \A i \in 1..k : SubSeq(rows, 1, k)[i] = rows[i]
<1>1. k \in Nat /\ \A i \in 1..k : rows[i] \in Row
  OBVIOUS
<1>2. 1 \in Int /\ k \in Int
  BY <1>1
<1>3. /\ SubSeq(rows, 1, k) \in Seq(Row)
      /\ Len(SubSeq(rows, 1, k)) = IF 1 <= k THEN k - 1 + 1 ELSE 0
      /\ \A i \in 1..k-1+1 : SubSeq(rows, 1, k)[i] = rows[1 + i - 1]
  BY <1>1, <1>2, SubSeqProperties
<1>4. (IF 1 <= k THEN k - 1 + 1 ELSE 0) = k /\ 1..k-1+1 = 1..k
      /\ \A i \in 1..k : 1 + i - 1 = i
  BY <1>1
<1>5. QED
  BY <1>3, <1>4

LEMMA BackRows ==
  ASSUME NEW rows \in Seq(Row), NEW k \in 0..Len(rows)
  PROVE  /\ SubSeq(rows, k + 1, Len(rows)) \in Seq(Row)
         /\ Len(SubSeq(rows, k + 1, Len(rows))) = Len(rows) - k
         /\ \A i \in 1..Len(rows) - k : SubSeq(rows, k + 1, Len(rows))[i] = rows[k + i]
<1> DEFINE n == Len(rows)
<1>1. k \in Nat /\ n \in Nat /\ k <= n /\ \A i \in k+1..n : rows[i] \in Row
  OBVIOUS
<1>2. k + 1 \in Int /\ n \in Int
  BY <1>1
<1> HIDE DEF n
<1>3. /\ SubSeq(rows, k + 1, n) \in Seq(Row)
      /\ Len(SubSeq(rows, k + 1, n)) = IF k + 1 <= n THEN n - (k + 1) + 1 ELSE 0
      /\ \A i \in 1..n-(k+1)+1 : SubSeq(rows, k + 1, n)[i] = rows[(k + 1) + i - 1]
  BY <1>1, <1>2, SubSeqProperties
<1>4. (IF k + 1 <= n THEN n - (k + 1) + 1 ELSE 0) = n - k /\ 1..n-(k+1)+1 = 1..n-k
      /\ \A i \in 1..n-k : (k + 1) + i - 1 = k + i
  BY <1>1
<1>5. QED
  BY <1>3, <1>4 DEF n

\* What Insert, Delete and Touch do to the rows that stay: f says where each goes.
LEMMA WithRow ==
  ASSUME log \in Seq(Row), NEW row \in Row, NEW k \in 0..Len(log)
  PROVE  /\ With(k, row) \in Seq(Row) /\ Len(With(k, row)) = Len(log) + 1 /\ With(k, row)[k + 1] = row
         /\ \A i \in 1..k : With(k, row)[i] = log[i]
         /\ \A i \in k+1..Len(log) : With(k, row)[i + 1] = log[i]
<1> DEFINE front == SubSeq(log, 1, k)
           new   == <<row>>
           back  == SubSeq(log, k + 1, Len(log))
           n     == Len(log)
<1>1. n \in Nat /\ k \in Nat /\ k <= n
  OBVIOUS
<1>2. /\ front \in Seq(Row) /\ Len(front) = k /\ \A i \in 1..k : front[i] = log[i]
      /\ back \in Seq(Row) /\ Len(back) = n - k /\ \A i \in 1..n-k : back[i] = log[k + i]
  BY FrontRows, BackRows
<1>3. new \in Seq(Row) /\ Len(new) = 1 /\ new[1] = row
  OBVIOUS
<1> HIDE DEF front, new, back, n
<1>4. /\ front \o new \in Seq(Row) /\ Len(front \o new) = Len(front) + Len(new)
      /\ \A i \in 1..Len(front)+Len(new) :
           (front \o new)[i] = IF i <= Len(front) THEN front[i] ELSE new[i - Len(front)]
  BY <1>2, <1>3, ConcatProperties
<1> DEFINE start == front \o new
<1>5. /\ start \in Seq(Row) /\ Len(start) = k + 1 /\ start[k + 1] = row
      /\ \A i \in 1..k : start[i] = log[i]
  <2>1. Len(start) = k + 1 /\ k + 1 \in 1..k+1 /\ k + 1 - k = 1 /\ ~(k + 1 <= k)
    BY <1>1, <1>2, <1>3, <1>4
  <2>2. start[k + 1] = new[1]
    BY <1>2, <1>3, <1>4, <2>1
  <2>3. \A i \in 1..k : i \in 1..k+1 /\ i <= k
    BY <1>1
  <2>4. \A i \in 1..k : start[i] = front[i]
    BY <1>2, <1>3, <1>4, <2>3
  <2>5. QED
    BY <1>2, <1>3, <1>4, <2>1, <2>2, <2>4
<1>6. With(k, row) = start \o back
  BY DEF With, front, new, back
<1> HIDE DEF start
<1>7. /\ With(k, row) \in Seq(Row) /\ Len(With(k, row)) = Len(start) + Len(back)
      /\ \A i \in 1..Len(start)+Len(back) :
           With(k, row)[i] = IF i <= Len(start) THEN start[i] ELSE back[i - Len(start)]
  <2>1. start \in Seq(Row) /\ back \in Seq(Row)
    BY <1>2, <1>5
  <2>2. QED
    BY <1>6, <2>1, ConcatProperties
<1>8. Len(With(k, row)) = n + 1 /\ Len(start) + Len(back) = n + 1
  BY <1>1, <1>2, <1>5, <1>7
<1>9. With(k, row)[k + 1] = row /\ \A i \in 1..k : With(k, row)[i] = log[i]
  BY <1>1, <1>5, <1>7, <1>8
<1>10. \A i \in k+1..n : With(k, row)[i + 1] = log[i]
  <2> TAKE i \in k+1..n
  <2>1. /\ i + 1 \in 1..n+1 /\ ~(i + 1 <= k + 1) /\ i + 1 - (k + 1) = i - k
        /\ i - k \in 1..n-k /\ k + (i - k) = i
    BY <1>1
  <2>2. With(k, row)[i + 1] = back[i - k]
    BY <1>5, <1>7, <1>8, <2>1
  <2>3. QED
    BY <1>2, <2>1, <2>2
<1>11. QED
  BY <1>7, <1>8, <1>9, <1>10 DEF n

LEMMA WithoutRow ==
  ASSUME log \in Seq(Row), NEW k \in DOMAIN log
  PROVE  /\ Without(k) \in Seq(Row) /\ Len(Without(k)) = Len(log) - 1
         /\ \A i \in 1..k-1 : Without(k)[i] = log[i]
         /\ \A i \in k..Len(log)-1 : Without(k)[i] = log[i + 1]
<1> DEFINE front == SubSeq(log, 1, k - 1)
           back  == SubSeq(log, k + 1, Len(log))
           n     == Len(log)
<1>1. n \in Nat /\ k \in Nat \ {0} /\ k <= n
  OBVIOUS
<1>2. k - 1 \in 0..n /\ k \in 0..n
  BY <1>1
<1>3. /\ front \in Seq(Row) /\ Len(front) = k - 1 /\ \A i \in 1..k-1 : front[i] = log[i]
      /\ back \in Seq(Row) /\ Len(back) = n - k /\ \A i \in 1..n-k : back[i] = log[k + i]
  BY <1>2, FrontRows, BackRows
<1>4. Without(k) = front \o back
  BY DEF Without
<1> HIDE DEF front, back, n
<1>5. /\ Without(k) \in Seq(Row) /\ Len(Without(k)) = (k - 1) + (n - k)
      /\ \A i \in 1..(k-1)+(n-k) :
           Without(k)[i] = IF i <= k - 1 THEN front[i] ELSE back[i - (k - 1)]
  BY <1>3, <1>4, ConcatProperties
<1>6. Len(Without(k)) = n - 1
  BY <1>1, <1>5
<1>7. \A i \in 1..k-1 : Without(k)[i] = log[i]
  BY <1>1, <1>3, <1>5
<1>8. \A i \in k..n-1 : Without(k)[i] = log[i + 1]
  <2> TAKE i \in k..n-1
  <2>1. Without(k)[i] = back[i - (k - 1)]
    BY <1>1, <1>5
  <2>2. i - (k - 1) \in 1..n-k /\ k + (i - (k - 1)) = i + 1
    BY <1>1
  <2>3. QED
    BY <1>3, <2>1, <2>2
<1>9. QED
  BY <1>5, <1>6, <1>7, <1>8 DEF n

LEMMA ToFrontRow ==
  ASSUME log \in Seq(Row), NEW k \in DOMAIN log
  PROVE  /\ ToFront(k) \in Seq(Row) /\ Len(ToFront(k)) = Len(log) /\ ToFront(k)[1] = log[k]
         /\ \A i \in 1..k-1 : ToFront(k)[i + 1] = log[i]
         /\ \A i \in k+1..Len(log) : ToFront(k)[i] = log[i]
<1> DEFINE new  == <<log[k]>>
           rest == Without(k)
           n    == Len(log)
<1>1. n \in Nat /\ k \in Nat \ {0} /\ k <= n /\ log[k] \in Row
  OBVIOUS
<1>2. /\ rest \in Seq(Row) /\ Len(rest) = n - 1
      /\ \A i \in 1..k-1 : rest[i] = log[i]
      /\ \A i \in k..n-1 : rest[i] = log[i + 1]
  BY WithoutRow
<1>3. new \in Seq(Row) /\ Len(new) = 1 /\ new[1] = log[k]
  BY <1>1
<1>4. ToFront(k) = new \o rest
  BY DEF ToFront
<1> HIDE DEF new, rest, n
<1>5. /\ ToFront(k) \in Seq(Row) /\ Len(ToFront(k)) = Len(new) + Len(rest)
      /\ \A i \in 1..Len(new)+Len(rest) :
           ToFront(k)[i] = IF i <= Len(new) THEN new[i] ELSE rest[i - Len(new)]
  <2>1. new \in Seq(Row) /\ rest \in Seq(Row)
    BY <1>2, <1>3
  <2>2. QED
    BY <1>4, <2>1, ConcatProperties
<1>6. Len(new) + Len(rest) = n
  BY <1>1, <1>2, <1>3
<1>7. ToFront(k)[1] = log[k]
  BY <1>1, <1>3, <1>5, <1>6
<1>8. \A i \in 1..k-1 : ToFront(k)[i + 1] = log[i]
  <2> TAKE i \in 1..k-1
  <2>1. i + 1 \in 1..n /\ ~(i + 1 <= 1) /\ i + 1 - 1 = i
    BY <1>1
  <2>2. QED
    BY <1>2, <1>3, <1>5, <1>6, <2>1
<1>9. \A i \in k+1..n : ToFront(k)[i] = log[i]
  <2> TAKE i \in k+1..n
  <2>1. i \in 1..n /\ ~(i <= 1) /\ i - 1 \in k..n-1 /\ i - 1 + 1 = i
    BY <1>1
  <2>2. QED
    BY <1>2, <1>3, <1>5, <1>6, <2>1
<1>10. QED
  BY <1>5, <1>6, <1>7, <1>8, <1>9 DEF n

\* The timers of the searches: one more, or one less.
LEMMA TimersChange ==
  ASSUME NEW S, NEW queue \in Seq(S), NEW e \in S
  PROVE  /\ Append(queue, e) \in Seq(S) /\ Append(queue, e) # <<>>
         /\ Append(queue, e)[Len(Append(queue, e))] = e
         /\ \A i \in DOMAIN Append(queue, e) :
              Append(queue, e)[i] = e \/ \E j \in DOMAIN queue : Append(queue, e)[i] = queue[j]
         /\ SubSeq(queue, 1, Len(queue) - 1) \in Seq(S)
         /\ \A i \in DOMAIN SubSeq(queue, 1, Len(queue) - 1) :
              \E j \in DOMAIN queue : SubSeq(queue, 1, Len(queue) - 1)[i] = queue[j]
         /\ queue # <<>> =>
              /\ Head(queue) \in S /\ Head(queue) = queue[1] /\ 1 \in DOMAIN queue
              /\ Tail(queue) \in Seq(S) /\ (Tail(queue) # <<>> <=> Len(queue) > 1)
              /\ Len(queue) = 1 => Head(queue) = queue[Len(queue)]
              /\ Len(queue) > 1 => Tail(queue)[Len(Tail(queue))] = queue[Len(queue)]
              /\ \A i \in DOMAIN Tail(queue) : \E j \in DOMAIN queue : Tail(queue)[i] = queue[j]
<1> DEFINE more == Append(queue, e)
           less == SubSeq(queue, 1, Len(queue) - 1)
           n    == Len(queue)
<1>1. n \in Nat /\ DOMAIN queue = 1..n /\ \A i \in 1..n : queue[i] \in S
  OBVIOUS
<1>2. /\ more \in Seq(S) /\ more # <<>> /\ Len(more) = n + 1
      /\ (\A i \in 1..n : more[i] = queue[i]) /\ more[n + 1] = e
  BY AppendProperties
<1>3. \A i \in DOMAIN more : more[i] = e \/ \E j \in DOMAIN queue : more[i] = queue[j]
  <2>1. DOMAIN more = 1..n+1
    BY <1>2
  <2> HIDE DEF more, n
  <2>2. QED
    BY <1>1, <1>2, <2>1
<1>4. /\ less \in Seq(S) /\ DOMAIN less = 1..n-1 /\ \A i \in 1..n-1 : less[i] = queue[i]
  <2>1. 1 \in Int /\ n - 1 \in Int /\ \A i \in 1..n-1 : queue[i] \in S
    BY <1>1
  <2>2. /\ less \in Seq(S)
        /\ Len(less) = IF 1 <= n - 1 THEN n - 1 - 1 + 1 ELSE 0
        /\ \A i \in 1..n-1-1+1 : less[i] = queue[1 + i - 1]
    BY <2>1, SubSeqProperties
  <2>3. DOMAIN less = 1..Len(less)
    BY <2>2
  <2> HIDE DEF less, n
  <2>4. 1..Len(less) = 1..n-1 /\ 1..n-1-1+1 = 1..n-1 /\ \A i \in 1..n-1 : 1 + i - 1 = i
    BY <1>1, <2>2
  <2>5. QED
    BY <2>2, <2>3, <2>4
<1>5. \A i \in DOMAIN less : \E j \in DOMAIN queue : less[i] = queue[j]
  <2> HIDE DEF less, n
  <2>1. QED
    BY <1>1, <1>4
<1>6. ASSUME queue # <<>>
      PROVE  /\ Head(queue) \in S /\ Head(queue) = queue[1] /\ 1 \in DOMAIN queue
             /\ Tail(queue) \in Seq(S) /\ (Tail(queue) # <<>> <=> n > 1)
             /\ n = 1 => Head(queue) = queue[n]
             /\ n > 1 => Tail(queue)[Len(Tail(queue))] = queue[n]
             /\ \A i \in DOMAIN Tail(queue) : \E j \in DOMAIN queue : Tail(queue)[i] = queue[j]
  <2> DEFINE rest == Tail(queue)
  <2>1. /\ n # 0 /\ Head(queue) = queue[1] /\ rest \in Seq(S) /\ Len(rest) = n - 1
        /\ DOMAIN rest = 1..n-1 /\ (rest = <<>> <=> Len(rest) = 0)
        /\ \A i \in 1..n-1 : rest[i] = queue[i + 1]
    <3>1. n # 0 /\ Head(queue) = queue[1]
      BY <1>6
    <3>2. /\ rest \in Seq(S) /\ Len(rest) = n - 1
          /\ \A i \in 1..Len(rest) : rest[i] = queue[i + 1]
      BY <1>6, HeadTailProperties
    <3> HIDE DEF rest
    <3>3. DOMAIN rest = 1..Len(rest) /\ (rest = <<>> <=> Len(rest) = 0)
      BY <3>2
    <3>4. QED
      BY <3>1, <3>2, <3>3
  <2> HIDE DEF rest, n
  <2>2. \A i \in DOMAIN rest : \E j \in DOMAIN queue : rest[i] = queue[j]
    BY <1>1, <2>1
  <2>3. n > 1 => rest[Len(rest)] = queue[n]
    BY <1>1, <2>1
  <2>4. rest # <<>> <=> n > 1
    BY <1>1, <2>1
  <2>5. QED
    BY <1>1, <2>1, <2>2, <2>3, <2>4 DEF rest
<1>7. more[Len(more)] = e
  BY <1>2
<1>8. QED
  BY <1>2, <1>3, <1>4, <1>5, <1>6, <1>7

\* What a page of a table shows, and what it leaves to the pages before it.
LEMMA SliceShows ==
  ASSUME NEW rows \in Seq(Row), NEW q, NEW at \in Nat \ {0}, NEW n \in Nat \ {0}
  PROVE  /\ Slice(rows, q, at, n) \subseteq Found(rows, q)
         /\ Found(rows, q) \subseteq Row
         /\ \A i \in Matching(rows, q) :
              /\ Place(rows, q, i) <= at * n
              /\ (rows[i] \notin Slice(rows, q, at, n))
              => at # 1 /\ Place(rows, q, i) <= (at - 1) * n
         /\ (\A i, j \in DOMAIN rows : rows[i] = rows[j] => i = j) =>
              \A j \in DOMAIN rows : rows[j] \in Slice(rows, q, at, n)
                => j \in Matching(rows, q) /\ Place(rows, q, j) <= at * n
         /\ (at - 1) * n < Cardinality(Matching(rows, q)) => Slice(rows, q, at, n) # {}
<1>1. DOMAIN rows = 1..Len(rows) /\ Len(rows) \in Nat /\ \A i \in DOMAIN rows : rows[i] \in Row
  OBVIOUS
<1>2. \A i \in Matching(rows, q) : i \in DOMAIN rows /\ i \in Nat
  BY <1>1, MatchingIsFinite
<1>3. (at - 1) * n \in Nat /\ at * n \in Nat /\ at * n = (at - 1) * n + n
  <2>1. at - 1 \in Nat
    OBVIOUS
  <2>2. (at - 1) * n \in Nat /\ at * n \in Nat
    BY <2>1
  <2>3. at * n = (at - 1) * n + n
    OBVIOUS
  <2>4. QED
    BY <2>2, <2>3
<1>4. \A i \in Matching(rows, q) : Place(rows, q, i) \in Nat \ {0}
  <2> TAKE i \in Matching(rows, q)
  <2> DEFINE S == {m \in Matching(rows, q) : m <= i}
  <2>1. i \in S /\ IsFiniteSet(S)
    BY <1>2, MatchingIsFinite, FS_Subset
  <2>2. Cardinality(S) # 0
    BY <2>1, FS_EmptySet
  <2>3. Place(rows, q, i) \in Nat
    BY <1>2, MatchingIsFinite
  <2>4. QED
    BY <2>2, <2>3 DEF Place
<1>5. Slice(rows, q, at, n) \subseteq Found(rows, q) /\ Found(rows, q) \subseteq Row
  BY <1>1, <1>2 DEF Slice, Found
<1>6. ASSUME NEW i \in Matching(rows, q), Place(rows, q, i) <= at * n,
             rows[i] \notin Slice(rows, q, at, n)
      PROVE  at # 1 /\ Place(rows, q, i) <= (at - 1) * n
  <2>1. ~((at - 1) * n < Place(rows, q, i))
    BY <1>6 DEF Slice
  <2>2. Place(rows, q, i) <= (at - 1) * n
    BY <1>3, <1>4, <2>1
  <2>3. at = 1 => (at - 1) * n = 0
    OBVIOUS
  <2>4. QED
    BY <1>3, <1>4, <2>2, <2>3
<1>7. ASSUME \A i, j \in DOMAIN rows : rows[i] = rows[j] => i = j,
             NEW j \in DOMAIN rows, rows[j] \in Slice(rows, q, at, n)
      PROVE  j \in Matching(rows, q) /\ Place(rows, q, j) <= at * n
  <2>1. PICK k \in Matching(rows, q) : Place(rows, q, k) <= at * n /\ rows[j] = rows[k]
    BY <1>7 DEF Slice
  <2>2. QED
    BY <1>2, <1>7, <2>1
<1>8. ASSUME (at - 1) * n < Cardinality(Matching(rows, q))
      PROVE  Slice(rows, q, at, n) # {}
  <2> DEFINE m == (at - 1) * n + 1
  <2>1. m \in Nat /\ 0 < m /\ m <= Cardinality(Matching(rows, q))
        /\ (at - 1) * n < m /\ m <= at * n
    <3>1. Cardinality(Matching(rows, q)) \in Nat
      BY MatchingIsFinite
    <3> DEFINE a == (at - 1) * n
               b == at * n
    <3>2. a \in Nat /\ b = a + n /\ a < Cardinality(Matching(rows, q))
      BY <1>3, <1>8
    <3> HIDE DEF a, b
    <3>3. /\ a + 1 \in Nat /\ 0 < a + 1 /\ a + 1 <= Cardinality(Matching(rows, q))
          /\ a < a + 1 /\ a + 1 <= b
      BY <3>1, <3>2
    <3>4. QED
      BY <3>3 DEF a, b
  <2> HIDE DEF m
  <2>2. PICK k \in Matching(rows, q) : Place(rows, q, k) = m
    BY <2>1, PlacesAreTaken
  <2>3. rows[k] \in Slice(rows, q, at, n)
    BY <2>1, <2>2 DEF Slice
  <2>4. QED
    BY <2>3
<1>9. QED
  BY <1>5, <1>6, <1>7, <1>8

\* What is a URL of a table.
LEMMA AddressIsURL ==
  /\ \A q \in Terms, at \in 1..MaxRows, n \in Sizes :
       [q |-> q, page |-> at, size |-> n] \in URLs
  /\ \A url \in URLs :
       /\ url.q \in Terms /\ url.page \in 1..MaxRows /\ url.size \in Sizes
       /\ url = [q |-> url.q, page |-> url.page, size |-> url.size]
  /\ \A url \in URLs : url # NoURL
<1>1. \A q \in Terms, at \in 1..MaxRows, n \in Sizes :
       [q |-> q, page |-> at, size |-> n] \in URLs
  BY DEF URLs
<1>2. \A url \in URLs :
       /\ url.q \in Terms /\ url.page \in 1..MaxRows /\ url.size \in Sizes
       /\ url = [q |-> url.q, page |-> url.page, size |-> url.size]
  BY DEF URLs
<1>3. "none" \notin Terms /\ NoURL.q = "none"
  BY DEF Terms, NoURL
<1>4. QED
  BY <1>1, <1>2, <1>3

\* Where the rows of the table go when one is inserted, or moves to the front.
LEMMA InsertMoves ==
  ASSUME log \in Seq(Row), NEW row \in Row, NEW k \in 0..Len(log)
  PROVE  \E f \in [DOMAIN log -> DOMAIN With(k, row)] :
           /\ \A i, j \in DOMAIN log : f[i] = f[j] => i = j
           /\ \A i \in DOMAIN log : With(k, row)[f[i]] = log[i]
           /\ \A i, j \in DOMAIN log : f[i] <= f[j] => i <= j
           /\ \A i, j \in DOMAIN log : i <= j => f[i] <= f[j]
           /\ \A m \in DOMAIN With(k, row) :
                With(k, row)[m] = row \/ \E i \in DOMAIN log : f[i] = m
<1> DEFINE n == Len(log)
           new == With(k, row)
           f == [i \in 1..n |-> IF i <= k THEN i ELSE i + 1]
<1>1. n \in Nat /\ k \in Nat /\ k <= n /\ DOMAIN log = 1..n
  OBVIOUS
<1>2. /\ new \in Seq(Row) /\ Len(new) = n + 1 /\ new[k + 1] = row
      /\ \A i \in 1..k : new[i] = log[i]
      /\ \A i \in k+1..n : new[i + 1] = log[i]
  BY WithRow
<1>3. DOMAIN new = 1..n+1
  <2>1. DOMAIN new = 1..Len(new)
    BY <1>2
  <2>2. QED
    BY <1>2, <2>1
<1> HIDE DEF new, n
<1>4. f \in [1..n -> 1..n+1]
  BY <1>1
<1>5. \A i \in 1..n : new[f[i]] = log[i]
  <2> TAKE i \in 1..n
  <2>1. CASE i <= k
    BY <1>1, <1>2, <2>1
  <2>2. CASE ~(i <= k)
    <3>1. f[i] = i + 1 /\ i \in k+1..n
      BY <1>1, <2>2
    <3>2. QED
      BY <1>2, <3>1
  <2>3. QED
    BY <2>1, <2>2
<1>6. /\ \A i, j \in 1..n : f[i] <= f[j] => i <= j
      /\ \A i, j \in 1..n : i <= j => f[i] <= f[j]
      /\ \A i, j \in 1..n : f[i] = f[j] => i = j
  BY <1>1
<1>7. \A m \in 1..n+1 : m = k + 1 \/ \E i \in 1..n : f[i] = m
  <2> TAKE m \in 1..n+1
  <2>1. CASE m <= k
    <3>1. m \in 1..n /\ f[m] = m
      BY <1>1, <2>1
    <3>2. QED
      BY <3>1
  <2>2. CASE m > k + 1
    <3>1. m - 1 \in 1..n /\ f[m - 1] = m
      BY <1>1, <2>2
    <3>2. QED
      BY <3>1
  <2>3. QED
    BY <1>1, <2>1, <2>2
<1>8. \A m \in 1..n+1 : new[m] = row \/ \E i \in 1..n : f[i] = m
  BY <1>2, <1>7
<1> HIDE DEF f
<1>9. DOMAIN log = 1..n /\ DOMAIN new = 1..n+1
  BY <1>1, <1>3
<1>10. f \in [DOMAIN log -> DOMAIN new]
  BY <1>4, <1>9, Zenon
<1>11. /\ \A i, j \in DOMAIN log : f[i] = f[j] => i = j
       /\ \A i \in DOMAIN log : new[f[i]] = log[i]
       /\ \A i, j \in DOMAIN log : f[i] <= f[j] => i <= j
       /\ \A i, j \in DOMAIN log : i <= j => f[i] <= f[j]
       /\ \A m \in DOMAIN new : new[m] = row \/ \E i \in DOMAIN log : f[i] = m
  BY <1>5, <1>6, <1>8, <1>9
<1> USE DEF new
<1> WITNESS f \in [DOMAIN log -> DOMAIN new]
<1>12. QED
  BY <1>11

LEMMA TouchMoves ==
  ASSUME log \in Seq(Row), NEW k \in DOMAIN log
  PROVE  \E f \in [DOMAIN log -> DOMAIN ToFront(k)] :
           /\ \A i, j \in DOMAIN log : f[i] = f[j] => i = j
           /\ \A i \in DOMAIN log : ToFront(k)[f[i]] = log[i]
           /\ \A m \in DOMAIN ToFront(k) : \E i \in DOMAIN log : f[i] = m
<1> DEFINE n == Len(log)
           new == ToFront(k)
           f == [i \in 1..n |-> IF i = k THEN 1 ELSE IF i < k THEN i + 1 ELSE i]
<1>1. n \in Nat /\ k \in 1..n /\ DOMAIN log = 1..n
  OBVIOUS
<1>2. /\ new \in Seq(Row) /\ Len(new) = n /\ new[1] = log[k]
      /\ \A i \in 1..k-1 : new[i + 1] = log[i]
      /\ \A i \in k+1..n : new[i] = log[i]
  BY ToFrontRow
<1>3. DOMAIN new = 1..n
  <2>1. DOMAIN new = 1..Len(new)
    BY <1>2
  <2>2. QED
    BY <1>2, <2>1
<1> HIDE DEF new, n
<1>4. f \in [1..n -> 1..n]
  BY <1>1
<1>5. \A i \in 1..n : new[f[i]] = log[i]
  <2> TAKE i \in 1..n
  <2>1. CASE i = k
    BY <1>1, <1>2, <2>1
  <2>2. CASE i < k
    <3>1. f[i] = i + 1 /\ i \in 1..k-1
      BY <1>1, <2>2
    <3>2. QED
      BY <1>2, <3>1
  <2>3. CASE i > k
    <3>1. f[i] = i /\ i \in k+1..n
      BY <1>1, <2>3
    <3>2. QED
      BY <1>2, <3>1
  <2>4. QED
    BY <1>1, <2>1, <2>2, <2>3
<1>6. \A i, j \in 1..n : f[i] = f[j] => i = j
  BY <1>1
<1>7. \A m \in 1..n : \E i \in 1..n : f[i] = m
  <2> TAKE m \in 1..n
  <2>1. CASE m = 1
    BY <1>1, <2>1
  <2>2. CASE m # 1 /\ m <= k
    <3>1. m - 1 \in 1..n /\ f[m - 1] = m
      BY <1>1, <2>2
    <3>2. QED
      BY <3>1
  <2>3. CASE m > k
    BY <1>1, <2>3
  <2>4. QED
    BY <1>1, <2>1, <2>2, <2>3
<1> HIDE DEF f
<1>8. f \in [DOMAIN log -> DOMAIN new]
  BY <1>1, <1>3, <1>4, Zenon
<1>9. /\ \A i, j \in DOMAIN log : f[i] = f[j] => i = j
      /\ \A i \in DOMAIN log : new[f[i]] = log[i]
      /\ \A m \in DOMAIN new : \E i \in DOMAIN log : f[i] = m
  BY <1>1, <1>3, <1>5, <1>6, <1>7
<1> USE DEF new
<1> WITNESS f \in [DOMAIN log -> DOMAIN new]
<1>10. QED
  BY <1>9

\* What the administrator asks for is a URL.
LEMMA URLChanges ==
  ASSUME NEW url \in URLs
  PROVE  /\ FirstPage(url) \in URLs /\ FirstPage(url).q = url.q /\ FirstPage(url).size = url.size
         /\ \A q \in Terms :
              /\ [FirstPage(url) EXCEPT !.q = q] \in URLs
              /\ [FirstPage(url) EXCEPT !.q = q].q = q
              /\ [FirstPage(url) EXCEPT !.q = q].size = url.size
         /\ \A n \in Sizes :
              /\ [FirstPage(url) EXCEPT !.size = n] \in URLs
              /\ [FirstPage(url) EXCEPT !.size = n].size = n
              /\ [FirstPage(url) EXCEPT !.size = n].q = url.q
         /\ \A at \in 1..MaxRows :
              /\ [url EXCEPT !.page = at] \in URLs
              /\ [url EXCEPT !.page = at].page = at
              /\ [url EXCEPT !.page = at].size = url.size
              /\ [url EXCEPT !.page = at].q = url.q
<1>1. 1 \in 1..MaxRows
  BY ListingAssumption DEF ListingAssumption
<1>2. FirstPage(url) \in URLs /\ FirstPage(url).q = url.q /\ FirstPage(url).size = url.size
  BY <1>1 DEF FirstPage, URLs
<1>3. \A other \in URLs :
        /\ \A q \in Terms :
             /\ [other EXCEPT !.q = q] \in URLs
             /\ [other EXCEPT !.q = q].q = q /\ [other EXCEPT !.q = q].size = other.size
        /\ \A n \in Sizes :
             /\ [other EXCEPT !.size = n] \in URLs
             /\ [other EXCEPT !.size = n].size = n /\ [other EXCEPT !.size = n].q = other.q
        /\ \A at \in 1..MaxRows :
             /\ [other EXCEPT !.page = at] \in URLs
             /\ [other EXCEPT !.page = at].page = at
             /\ [other EXCEPT !.page = at].size = other.size
             /\ [other EXCEPT !.page = at].q = other.q
  BY DEF URLs
<1>4. QED
  BY <1>2, <1>3

\* What the browser does leaves the rows, and what is shown, as they are.
LEMMA ListingCases ==
  ASSUME ListingNext
  PROVE  \/ \E v \in Terms : Type(v)
         \/ \E n \in Sizes : ChooseSize(n)
         \/ SearchFires \/ NextPage \/ PreviousPage \/ Count \/ Select
         \/ \E k \in 0..Smaller(1, Len(log)) :
              /\ inserted < MaxRows /\ inserted' = inserted + 1
              /\ log' = With(k, inserted + 1) /\ UNCHANGED counted /\ RowsChange
         \/ \E k \in DOMAIN log :
              /\ table = "audit" => k = Len(log)
              /\ log' = Without(k) /\ UNCHANGED inserted
              /\ counted' = [counted EXCEPT !.gone = counted.known] /\ RowsChange
         \/ \E k \in DOMAIN log :
              /\ table = "bans" /\ log' = ToFront(k) /\ UNCHANGED inserted
              /\ UNCHANGED counted /\ RowsChange
  BY DEF ListingNext, Insert, Delete, Touch

\* The types, one step.
LEMMA TypesKept ==
  ASSUME ListingTypeOK, RowsInv, ListingNext
  PROVE  ListingTypeOK'
<1> DEFINE Asks == [q : Terms, url : URLs]
<1>1. /\ MaxRows \in Nat /\ 1 \in 1..MaxRows /\ MaxClicks \in Nat /\ Sizes \subseteq Nat \ {0}
      /\ 0 \in 0..MaxRows
  BY ListingAssumption DEF ListingAssumption
<1>2. /\ table \in {"audit", "bans"} /\ log \in Seq(Row) /\ inserted \in 0..MaxRows
      /\ shown.url \in URLs /\ shown.page \in 1..MaxRows /\ shown.pages \in 1..MaxRows
      /\ shown.rows \in SUBSET Row /\ shown.count \in 0..MaxRows /\ shown.gone \in BOOLEAN
      /\ box \in Terms /\ size \in Sizes /\ own \in BOOLEAN /\ crossed \in BOOLEAN
      /\ timers \in Seq(Asks)
      /\ going \in URLs \cup {NoURL} /\ clicks \in 0..MaxClicks
      /\ counted \in [count : 0..MaxRows, gone : BOOLEAN, known : BOOLEAN]
      /\ walk \in [on : BOOLEAN, next : BOOLEAN, seen : SUBSET Row, held : SUBSET Row]
  BY DEF ListingTypeOK
<1>3. Uncounted \in [count : 0..MaxRows, gone : BOOLEAN, known : BOOLEAN]
  BY <1>1 DEF Uncounted
<1>4. ASSUME NEW url \in URLs, NEW forward \in BOOLEAN, Navigate(url, forward)
      PROVE  /\ going' \in URLs \cup {NoURL}
             /\ counted' \in [count : 0..MaxRows, gone : BOOLEAN, known : BOOLEAN]
             /\ walk' \in [on : BOOLEAN, next : BOOLEAN, seen : SUBSET Row, held : SUBSET Row]
  <2>1. going' \in URLs \cup {NoURL}
    BY <1>4 DEF Navigate
  <2>2. counted' \in [count : 0..MaxRows, gone : BOOLEAN, known : BOOLEAN]
    BY <1>3, <1>4 DEF Navigate
  <2>3. walk' \in [on : BOOLEAN, next : BOOLEAN, seen : SUBSET Row, held : SUBSET Row]
    BY <1>2, <1>4 DEF Navigate
  <2>4. QED
    BY <2>1, <2>2, <2>3
<1>5. Click => clicks' \in 0..MaxClicks
  BY <1>1, <1>2 DEF Click
<1>6. ASSUME NEW v \in Terms, Type(v) PROVE ListingTypeOK'
  <2> DEFINE before == IF own THEN SubSeq(timers, 1, Len(timers) - 1) ELSE timers
             e == [q |-> v, url |-> shown.url]
  <2>1. e \in Asks
    BY <1>2
  <2>2. before \in Seq(Asks)
    BY <1>2, <2>1, TimersChange
  <2>3. Append(before, e) \in Seq(Asks)
    BY <2>1, <2>2, TimersChange
  <2> HIDE DEF Asks
  <2>4. timers' \in Seq(Asks)
    BY <1>6, <2>3 DEF Type
  <2>5. /\ UNCHANGED <<table, log, inserted, shown, size, going, counted, walk>> /\ box' = v
        /\ own' = TRUE /\ crossed' \in BOOLEAN /\ Click
    BY <1>2, <1>6 DEF Type, Click, server
  <2> USE DEF Asks
  <2>6. QED
    BY <1>2, <1>5, <2>4, <2>5 DEF ListingTypeOK
<1>7. ASSUME NEW n \in Sizes, ChooseSize(n) PROVE ListingTypeOK'
  <2> DEFINE url == [FirstPage(shown.url) EXCEPT !.size = n]
  <2>1. url \in URLs
    BY <1>2, URLChanges
  <2> HIDE DEF url
  <2>2. /\ Navigate(url, FALSE) /\ UNCHANGED <<table, log, inserted, shown, box, timers, own>>
        /\ size' = n /\ crossed' \in BOOLEAN /\ Click
    BY <1>7, <1>2 DEF ChooseSize, url, Waiting, Click, server
  <2>3. QED
    BY <1>2, <1>4, <1>5, <2>1, <2>2 DEF ListingTypeOK
<1>8. ASSUME SearchFires PROVE ListingTypeOK'
  <2>1. Head(timers) \in Asks /\ Tail(timers) \in Seq(Asks)
    <3>1. timers # <<>>
      BY <1>8 DEF SearchFires
    <3> HIDE DEF Asks
    <3>2. timers[1] \in Asks
      BY <1>2, <3>1
    <3>3. QED
      BY <1>2, <3>1, <3>2, TimersChange
  <2> DEFINE url == [FirstPage(Head(timers).url) EXCEPT !.q = Head(timers).q]
  <2>2. url \in URLs
    BY <2>1, URLChanges
  <2> HIDE DEF url, Asks
  <2>3. /\ Navigate(url, FALSE)
        /\ UNCHANGED <<table, log, inserted, shown, box, size, clicks, crossed>>
        /\ timers' = Tail(timers) /\ own' \in BOOLEAN
    BY <1>8, <1>2 DEF SearchFires, url, server
  <2>4. timers' \in Seq(Asks)
    BY <2>1, <2>3
  <2> USE DEF Asks
  <2>5. QED
    BY <1>2, <1>4, <2>2, <2>3, <2>4 DEF ListingTypeOK
<1>9. ASSUME NEW at \in 1..MaxRows, NEW forward \in BOOLEAN, TurnTo(at, forward)
      PROVE  ListingTypeOK'
  <2> DEFINE url == [shown.url EXCEPT !.page = at]
  <2>1. url \in URLs
    BY <1>2, URLChanges
  <2> HIDE DEF url
  <2>2. /\ Navigate(url, forward)
        /\ UNCHANGED <<table, log, inserted, shown, box, size, timers, own>>
        /\ crossed' \in BOOLEAN /\ Click
    BY <1>9, <1>2 DEF TurnTo, url, Waiting, Click, server
  <2>3. QED
    BY <1>2, <1>4, <1>5, <2>1, <2>2 DEF ListingTypeOK
<1>10. CASE NextPage
  <2>1. shown.page + 1 \in 1..MaxRows
    BY <1>1, <1>2, <1>10 DEF NextPage
  <2>2. QED
    BY <1>9, <1>10, <2>1 DEF NextPage
<1>11. CASE PreviousPage
  <2>1. shown.page - 1 \in 1..MaxRows
    BY <1>1, <1>2, <1>11 DEF PreviousPage
  <2>2. QED
    BY <1>9, <1>11, <2>1 DEF PreviousPage
<1>12. CASE Count
  <2>1. Len(log) <= inserted
    BY DEF RowsInv
  <2>2. Cardinality(Matching(log, going.q)) \in 0..Len(log)
    BY <1>2, MatchingIsFinite
  <2> DEFINE m == Cardinality(Matching(log, going.q))
  <2>3. m \in 0..MaxRows
    <3>1. Len(log) \in Nat
      BY <1>2
    <3>2. m \in 0..Len(log)
      BY <2>2
    <3> HIDE DEF m
    <3>3. QED
      BY <1>1, <1>2, <2>1, <3>1, <3>2
  <2> HIDE DEF m
  <2>4. /\ counted' = [count |-> m, gone |-> FALSE, known |-> TRUE]
        /\ UNCHANGED <<table, log, inserted, shown, box, size, timers, own, going, clicks, walk,
                       crossed>>
    BY <1>12 DEF Count, m, server
  <2>5. counted' \in [count : 0..MaxRows, gone : BOOLEAN, known : BOOLEAN]
    BY <2>3, <2>4
  <2>6. QED
    BY <1>2, <2>4, <2>5 DEF ListingTypeOK
<1>13. CASE Select
  <2> DEFINE pages == Pages(counted.count, going.size)
             at    == Clamp(going.page, pages)
             rows  == Slice(log, going.q, at, going.size)
  <2>1. counted.known /\ going \in URLs /\ going.q \in Terms /\ going.page \in 1..MaxRows
        /\ going.size \in Nat \ {0} /\ counted.count \in 0..MaxRows /\ counted.gone \in BOOLEAN
    <3>1. counted.known /\ going # NoURL
      BY <1>13 DEF Select, RowsInv
    <3>2. QED
      BY <1>1, <1>2, <3>1, AddressIsURL
  <2>2. pages \in 1..MaxRows
    <3>1. counted.count \in Nat
      BY <1>1, <2>1
    <3>2. pages \in Nat \ {0} /\ (pages = 1 \/ pages <= counted.count)
      BY <2>1, <3>1, PagesBound
    <3> HIDE DEF pages
    <3>3. QED
      BY <1>1, <2>1, <3>1, <3>2
  <2>3. at \in 1..MaxRows /\ at \in Nat \ {0}
    <3> HIDE DEF pages
    <3>1. QED
      BY <1>1, <2>1, <2>2 DEF Clamp, Smaller
  <2>4. rows \in SUBSET Row /\ Found(log, going.q) \in SUBSET Row
    <3> HIDE DEF at
    <3>1. QED
      BY <1>2, <2>1, <2>3, SliceShows
  <2> HIDE DEF pages, at, rows
  <2>5. /\ shown' = [url |-> going, page |-> at, pages |-> pages, rows |-> rows,
                     count |-> counted.count, gone |-> counted.gone]
        /\ box' \in Terms /\ own' \in BOOLEAN /\ going' = NoURL /\ counted' = Uncounted
        /\ UNCHANGED <<table, log, inserted, size, timers, clicks, crossed>>
    <3>1. /\ shown' = [url |-> going, page |-> at, pages |-> pages, rows |-> rows,
                     count |-> counted.count, gone |-> counted.gone]
          /\ box' = (IF going.q # shown.url.q THEN going.q ELSE box)
          /\ own' = (own /\ ~(going.q # shown.url.q)) /\ going' = NoURL /\ counted' = Uncounted
          /\ UNCHANGED <<table, log, inserted, size, timers, clicks, crossed>>
      BY <1>13 DEF Select, at, pages, rows, server
    <3>2. QED
      BY <1>2, <2>1, <3>1
  <2>6. walk' \in [on : BOOLEAN, next : BOOLEAN, seen : SUBSET Row, held : SUBSET Row]
    <3>1. walk' = IF at = 1
                  THEN [on |-> TRUE, next |-> FALSE, seen |-> rows, held |-> Found(log, going.q)]
                  ELSE IF walk.on /\ walk.next /\ at = shown.page + 1
                  THEN [walk EXCEPT !.next = FALSE, !.seen = @ \cup rows]
                  ELSE [on |-> FALSE, next |-> FALSE, seen |-> {}, held |-> {}]
      BY <1>13 DEF Select, at, pages, rows
    <3>2. walk.seen \cup rows \in SUBSET Row
      BY <1>2, <2>4
    <3>3. [walk EXCEPT !.next = FALSE, !.seen = @ \cup rows]
            \in [on : BOOLEAN, next : BOOLEAN, seen : SUBSET Row, held : SUBSET Row]
      BY <1>2, <3>2
    <3>4. QED
      BY <2>4, <3>1, <3>3
  <2>7. /\ shown'.url \in URLs /\ shown'.page \in 1..MaxRows /\ shown'.pages \in 1..MaxRows
        /\ shown'.rows \in SUBSET Row /\ shown'.count \in 0..MaxRows /\ shown'.gone \in BOOLEAN
    BY <2>1, <2>2, <2>3, <2>4, <2>5
  <2>8. QED
    BY <1>2, <1>3, <2>5, <2>6, <2>7 DEF ListingTypeOK
<1>14. ASSUME log' \in Seq(Row), inserted' \in 0..MaxRows, RowsChange,
              counted' \in [count : 0..MaxRows, gone : BOOLEAN, known : BOOLEAN]
       PROVE  ListingTypeOK'
  BY <1>2, <1>14 DEF ListingTypeOK, RowsChange
<1>15. ASSUME NEW k \in 0..Smaller(1, Len(log)), inserted < MaxRows, inserted' = inserted + 1,
              log' = With(k, inserted + 1), UNCHANGED counted, RowsChange
       PROVE  ListingTypeOK'
  <2>1. k \in 0..Len(log) /\ inserted + 1 \in Row /\ inserted' \in 0..MaxRows
    <3>1. Len(log) \in Nat
      BY <1>2
    <3>2. inserted + 1 \in Row /\ inserted' \in 0..MaxRows
      BY <1>1, <1>2, <1>15 DEF Row
    <3>3. k \in 0..Len(log)
      BY <3>1 DEF Smaller
    <3>4. QED
      BY <3>2, <3>3
  <2>2. With(k, inserted + 1) \in Seq(Row)
    BY <1>2, <2>1, WithRow
  <2>3. QED
    BY <1>2, <1>14, <1>15, <2>1, <2>2
<1>16. ASSUME NEW k \in DOMAIN log, log' = Without(k), UNCHANGED inserted,
              counted' = [counted EXCEPT !.gone = counted.known], RowsChange
       PROVE  ListingTypeOK'
  <2>1. Without(k) \in Seq(Row)
    BY <1>2, WithoutRow
  <2>2. counted' \in [count : 0..MaxRows, gone : BOOLEAN, known : BOOLEAN]
    BY <1>2, <1>16
  <2>3. QED
    BY <1>2, <1>14, <1>16, <2>1, <2>2
<1>17. ASSUME NEW k \in DOMAIN log, log' = ToFront(k), UNCHANGED <<inserted, counted>>, RowsChange
       PROVE  ListingTypeOK'
  <2>1. ToFront(k) \in Seq(Row)
    BY <1>2, ToFrontRow
  <2>2. QED
    BY <1>2, <1>14, <1>17, <2>1
<1>18. QED
  BY <1>6, <1>7, <1>8, <1>10, <1>11, <1>12, <1>13, <1>15, <1>16, <1>17, ListingCases

\* Where a search and a size are, one step.
LEMMA SettledKept ==
  ASSUME ListingTypeOK, SettledInv, RowsInv, ListingNext
  PROVE  SettledInv'
<1> DEFINE Asks == [q : Terms, url : URLs]
<1>1. /\ shown.url \in URLs /\ box \in Terms /\ size \in Sizes /\ own \in BOOLEAN
      /\ crossed \in BOOLEAN /\ timers \in Seq(Asks) /\ going \in URLs \cup {NoURL}
  BY DEF ListingTypeOK
<1>2. /\ own => timers # <<>>
      /\ ~crossed =>
           /\ own => timers[Len(timers)].q = box
           /\ ~own => \/ box = shown.url.q
                      \/ timers = <<>> /\ going # NoURL /\ box = going.q
           /\ going = NoURL \/ timers # <<>> => shown.url.size = size
           /\ going # NoURL => going.size = size
           /\ \A i \in DOMAIN timers : timers[i].url.size = size
  BY DEF SettledInv
<1>3. ASSUME NEW v \in Terms, Type(v) PROVE SettledInv'
  <2> DEFINE before == IF own THEN SubSeq(timers, 1, Len(timers) - 1) ELSE timers
             e == [q |-> v, url |-> shown.url]
             after == Append(before, e)
  <2>1. e \in Asks /\ e.q = v /\ e.url = shown.url
    BY <1>1
  <2>2. /\ box' = v /\ timers' = after /\ own' = TRUE
        /\ crossed' = (crossed \/ (going # NoURL /\ going.size # shown.url.size))
        /\ UNCHANGED <<shown, size, going>>
    BY <1>3 DEF Type, Click
  <2> HIDE DEF Asks, e, after
  <2>3. before \in Seq(Asks)
        /\ \A i \in DOMAIN before : \E j \in DOMAIN timers : before[i] = timers[j]
    BY <1>1, <2>1, TimersChange
  <2> HIDE DEF before
  <2>4. /\ after # <<>> /\ after[Len(after)] = e
        /\ \A i \in DOMAIN after : after[i] = e \/ \E j \in DOMAIN before : after[i] = before[j]
    BY <2>1, <2>3, TimersChange DEF after
  <2>5. ~crossed' => ~crossed /\ shown.url.size = size
    BY <1>2, <2>2
  <2>6. ~crossed' => \A i \in DOMAIN after : after[i].url.size = size
    BY <1>2, <2>1, <2>3, <2>4, <2>5
  <2>7. QED
    BY <1>2, <2>1, <2>2, <2>4, <2>5, <2>6 DEF SettledInv
<1>4. ASSUME SearchFires PROVE SettledInv'
  <2> DEFINE rest == Tail(timers)
             url  == [FirstPage(Head(timers).url) EXCEPT !.q = Head(timers).q]
  <2>1. /\ timers # <<>> /\ timers' = rest /\ own' = (own /\ Len(timers) > 1)
        /\ going' = url /\ UNCHANGED <<shown, box, size, crossed>>
    BY <1>4 DEF SearchFires, Navigate
  <2> HIDE DEF Asks, rest
  <2>2. /\ Head(timers) \in Asks /\ Head(timers) = timers[1] /\ 1 \in DOMAIN timers
        /\ (rest # <<>> <=> Len(timers) > 1)
        /\ Len(timers) = 1 => Head(timers) = timers[Len(timers)]
        /\ Len(timers) > 1 => rest[Len(rest)] = timers[Len(timers)]
        /\ \A i \in DOMAIN rest : \E j \in DOMAIN timers : rest[i] = timers[j]
    <3>1. timers[1] \in Asks
      BY <1>1, <2>1
    <3>2. QED
      BY <1>1, <2>1, <3>1, TimersChange DEF rest
  <2>3. url \in URLs /\ url.q = Head(timers).q /\ url.size = Head(timers).url.size /\ url # NoURL
    <3> USE DEF Asks
    <3>1. Head(timers).q \in Terms /\ Head(timers).url \in URLs
      BY <2>2
    <3>2. QED
      BY <3>1, URLChanges, AddressIsURL
  <2> HIDE DEF url
  <2>4. Len(timers) = 1 \/ Len(timers) > 1
    <3>1. Len(timers) \in Nat /\ Len(timers) # 0
      BY <1>1, <2>1
    <3>2. QED
      BY <3>1
  <2>5. ~crossed => url.size = size /\ \A i \in DOMAIN rest : rest[i].url.size = size
    BY <1>2, <2>2, <2>3
  <2>6. ~crossed /\ own' => rest # <<>> /\ rest[Len(rest)].q = box
    BY <1>2, <2>1, <2>2
  <2>7. ~crossed /\ ~own' => box = shown.url.q \/ (rest = <<>> /\ box = url.q)
    <3>1. CASE own
      <4>1. CASE Len(timers) > 1
        BY <2>1, <3>1, <4>1
      <4>2. CASE Len(timers) = 1
        <5>1. ~(Len(timers) > 1)
          BY <4>2
        <5>2. rest = <<>> /\ url.q = timers[Len(timers)].q
          BY <2>2, <2>3, <4>2, <5>1
        <5>3. ~crossed => timers[Len(timers)].q = box
          BY <1>2, <3>1
        <5>4. QED
          BY <5>2, <5>3
      <4>3. QED
        BY <2>4, <4>1, <4>2
    <3>2. CASE ~own
      BY <1>2, <2>1, <3>2
    <3>3. QED
      BY <3>1, <3>2
  <2>8. ~crossed => shown.url.size = size
    BY <1>2, <2>1
  <2>9. QED
    BY <2>1, <2>2, <2>3, <2>5, <2>6, <2>7, <2>8 DEF SettledInv
<1>5. ASSUME NEW url \in URLs, going' = url, UNCHANGED <<shown, box, timers, own>>,
             crossed' = (crossed \/ Waiting), url.size = size'
      PROVE  SettledInv'
  <2>1. url # NoURL
    BY AddressIsURL
  <2>2. ~crossed' => ~crossed /\ timers = <<>> /\ going = NoURL
    BY <1>5 DEF Waiting
  <2>3. DOMAIN << >> = {}
    OBVIOUS
  <2>4. ~crossed' => /\ ~own /\ box = shown.url.q /\ timers = <<>>
                     /\ \A i \in DOMAIN timers : timers[i].url.size = size'
    BY <1>2, <2>2, <2>3
  <2>5. QED
    BY <1>2, <1>5, <2>1, <2>4 DEF SettledInv
<1>6. ASSUME NEW n \in Sizes, ChooseSize(n) PROVE SettledInv'
  <2> DEFINE url == [FirstPage(shown.url) EXCEPT !.size = n]
  <2>1. url \in URLs /\ url.size = n
    BY <1>1, URLChanges
  <2> HIDE DEF url
  <2>2. /\ going' = url /\ UNCHANGED <<shown, box, timers, own>> /\ size' = n
        /\ crossed' = (crossed \/ Waiting)
    BY <1>6 DEF ChooseSize, Navigate, Click, url
  <2>3. QED
    BY <1>5, <2>1, <2>2
<1>7. ASSUME NEW at \in 1..MaxRows, NEW forward \in BOOLEAN, TurnTo(at, forward)
      PROVE  SettledInv'
  <2> DEFINE url == [shown.url EXCEPT !.page = at]
  <2>1. url \in URLs /\ url.size = shown.url.size
    BY <1>1, URLChanges
  <2> HIDE DEF url
  <2>2. /\ going' = url /\ UNCHANGED <<shown, box, timers, own, size>>
        /\ crossed' = (crossed \/ Waiting)
    BY <1>7 DEF TurnTo, Navigate, Click, url
  <2>3. CASE crossed'
    BY <1>2, <2>2, <2>3 DEF SettledInv
  <2>4. CASE ~crossed'
    <3>1. shown.url.size = size
      BY <1>2, <2>2, <2>4 DEF Waiting
    <3>2. QED
      BY <1>5, <2>1, <2>2, <3>1
  <2>5. QED
    BY <2>3, <2>4
<1>8. CASE NextPage
  <2>1. shown.page + 1 \in 1..MaxRows
    <3>1. shown.page \in 1..MaxRows /\ shown.pages \in 1..MaxRows /\ MaxRows \in Nat
      BY ListingAssumption DEF ListingTypeOK, ListingAssumption
    <3>2. QED
      BY <1>8, <3>1 DEF NextPage
  <2>2. QED
    BY <1>7, <1>8, <2>1 DEF NextPage
<1>9. CASE PreviousPage
  <2>1. shown.page - 1 \in 1..MaxRows
    <3>1. shown.page \in 1..MaxRows /\ MaxRows \in Nat
      BY ListingAssumption DEF ListingTypeOK, ListingAssumption
    <3>2. QED
      BY <1>9, <3>1 DEF PreviousPage
  <2>2. QED
    BY <1>7, <1>9, <2>1 DEF PreviousPage
<1>10. CASE UNCHANGED <<shown, box, size, timers, own, going, crossed>>
  BY <1>2, <1>10 DEF SettledInv
<1>11. CASE Count
  BY <1>10, <1>11 DEF Count
<1>12. CASE RowsChange
  BY <1>10, <1>12 DEF RowsChange
<1>13. CASE Select
  <2>1. /\ going # NoURL /\ shown'.url = going /\ going' = NoURL
        /\ box' = (IF going.q # shown.url.q THEN going.q ELSE box)
        /\ own' = (own /\ ~(going.q # shown.url.q))
        /\ UNCHANGED <<size, timers, crossed>>
    BY <1>13 DEF Select, RowsInv
  <2>2. CASE crossed
    BY <1>1, <1>2, <2>1, <2>2 DEF SettledInv
  <2>3. CASE ~crossed
    <3>1. /\ going.size = size /\ \A i \in DOMAIN timers : timers[i].url.size = size
          /\ own' => timers # <<>> /\ timers[Len(timers)].q = box'
      BY <1>1, <1>2, <2>1, <2>3
    <3>2. ~own' => box' = going.q
      BY <1>1, <1>2, <2>1, <2>3
    <3>3. QED
      BY <2>1, <2>3, <3>1, <3>2 DEF SettledInv
  <2>4. QED
    BY <2>2, <2>3
<1>14. QED
  BY <1>3, <1>4, <1>6, <1>8, <1>9, <1>11, <1>12, <1>13, ListingCases

\* A row is in the table once, and what was counted is still there, one step.
LEMMA TableKept ==
  ASSUME ListingTypeOK, RowsInv, ListingTypeOK', ListingNext
  PROVE  RowsInv'
<1>1. /\ MaxRows \in Nat /\ log \in Seq(Row) /\ inserted \in 0..MaxRows /\ inserted \in Nat
      /\ log' \in Seq(Row) /\ Len(log) \in Nat
      /\ \A i \in DOMAIN log : log[i] \in Nat /\ log[i] \in Row
  <2>1. MaxRows \in Nat
    BY ListingAssumption DEF ListingAssumption
  <2>2. log \in Seq(Row) /\ inserted \in 0..MaxRows /\ log' \in Seq(Row)
    BY DEF ListingTypeOK
  <2>3. inserted \in Nat
    BY <2>1, <2>2
  <2>4. Len(log) \in Nat /\ \A i \in DOMAIN log : log[i] \in Row
    BY <2>2
  <2>5. \A r \in Row : r \in Nat
    BY <2>1 DEF Row
  <2>6. QED
    BY <2>1, <2>2, <2>3, <2>4, <2>5
<1>2. /\ Len(log) <= inserted /\ \A i \in DOMAIN log : log[i] <= inserted
      /\ \A i, j \in DOMAIN log : log[i] = log[j] => i = j
      /\ counted.known => going # NoURL
      /\ counted.known /\ ~counted.gone => counted.count <= Cardinality(Matching(log, going.q))
      /\ EmptyOnlyIfNone /\ \A r \in shown.rows : r <= inserted
  BY DEF RowsInv
<1>3. ~Uncounted.known
  BY DEF Uncounted
<1>4. ASSUME UNCHANGED <<log, inserted, shown>>,
             counted' = Uncounted \/ UNCHANGED <<counted, going>>
      PROVE  RowsInv'
  <2>1. CASE counted' = Uncounted
    BY <1>2, <1>3, <1>4, <2>1 DEF RowsInv, EmptyOnlyIfNone
  <2>2. CASE UNCHANGED <<counted, going>>
    BY <1>2, <1>4, <2>2 DEF RowsInv, EmptyOnlyIfNone
  <2>3. QED
    BY <1>4, <2>1, <2>2
<1>5. ASSUME NEW v \in Terms, Type(v) PROVE RowsInv'
  BY <1>4, <1>5 DEF Type, Click, server
<1>6. ASSUME NEW n \in Sizes, ChooseSize(n) PROVE RowsInv'
  BY <1>4, <1>6 DEF ChooseSize, Click, server, Navigate
<1>7. CASE SearchFires
  BY <1>4, <1>7 DEF SearchFires, server, Navigate
<1>8. CASE NextPage
  BY <1>4, <1>8 DEF NextPage, TurnTo, Click, server, Navigate
<1>9. CASE PreviousPage
  BY <1>4, <1>9 DEF PreviousPage, TurnTo, Click, server, Navigate
<1>10. CASE Count
  <2> DEFINE m == Cardinality(Matching(log, going.q))
  <2>1. m <= m
    <3>1. m \in 0..Len(log)
      BY <1>1, MatchingIsFinite
    <3> HIDE DEF m
    <3>2. QED
      BY <1>1, <3>1
  <2>2. /\ going # NoURL /\ counted' = [count |-> m, gone |-> FALSE, known |-> TRUE]
        /\ UNCHANGED <<log, inserted, shown, going>>
    BY <1>10 DEF Count, server
  <2>3. counted'.count = m
    BY <2>2
  <2>4. counted'.count <= Cardinality(Matching(log', going'.q))
    BY <2>1, <2>2, <2>3
  <2> HIDE DEF m
  <2>5. QED
    BY <1>2, <2>2, <2>4 DEF RowsInv, EmptyOnlyIfNone
<1>11. CASE Select
  <2> DEFINE pages == Pages(counted.count, going.size)
             at    == Clamp(going.page, pages)
             rows  == Slice(log, going.q, at, going.size)
             found == Cardinality(Matching(log, going.q))
  <2>1. /\ counted.known /\ going \in URLs /\ going.q \in Terms /\ going.page \in 1..MaxRows
        /\ going.size \in Nat \ {0} /\ counted.count \in 0..MaxRows
    <3>1. counted.known
      BY <1>11 DEF Select
    <3>2. going \in URLs
      BY <1>2, <3>1 DEF ListingTypeOK
    <3>3. going.q \in Terms /\ going.page \in 1..MaxRows /\ going.size \in Sizes
      BY <3>2, AddressIsURL
    <3>4. counted.count \in 0..MaxRows
      BY DEF ListingTypeOK
    <3>5. Sizes \subseteq Nat \ {0}
      BY ListingAssumption DEF ListingAssumption
    <3>6. QED
      BY <3>1, <3>2, <3>3, <3>4, <3>5
  <2>2. counted.count \in Nat /\ going.page \in Nat \ {0}
    BY <1>1, <2>1
  <2>3. pages \in Nat \ {0} /\ (counted.count # 0 => (pages - 1) * going.size < counted.count)
    BY <2>1, <2>2, PagesBound
  <2> HIDE DEF pages
  <2>4. at \in Nat \ {0} /\ at <= pages
    BY <2>2, <2>3 DEF Clamp, Smaller
  <2> HIDE DEF at
  <2>5. /\ rows \subseteq Found(log, going.q)
        /\ (at - 1) * going.size < found => rows # {}
    BY <1>1, <2>1, <2>4, SliceShows
  <2>6. found \in Nat
    <3>1. found \in 0..Len(log)
      BY <1>1, MatchingIsFinite
    <3> HIDE DEF found
    <3>2. QED
      BY <1>1, <3>1
  <2>7. ASSUME counted.count # 0, ~counted.gone PROVE (at - 1) * going.size < found
    <3>1. counted.count <= found
      BY <1>2, <2>1, <2>7
    <3>2. (at - 1) * going.size <= (pages - 1) * going.size
      <4> DEFINE a == at - 1
                 b == pages - 1
                 n == going.size
      <4>1. a \in Nat /\ b \in Nat /\ a <= b /\ n \in Nat
        BY <2>1, <2>3, <2>4
      <4> HIDE DEF a, b, n
      <4>2. a * n <= b * n
        <5>1. b - a \in Nat /\ b = a + (b - a)
          BY <4>1
        <5> DEFINE d == b - a
        <5> HIDE DEF d
        <5>2. d \in Nat /\ b = a + d
          BY <5>1 DEF d
        <5>3. b * n = a * n + d * n /\ a * n \in Nat /\ d * n \in Nat
          BY <4>1, <5>2
        <5>4. QED
          BY <5>3
      <4>3. QED
        BY <4>2 DEF a, b, n
    <3> DEFINE x == (at - 1) * going.size
               y == (pages - 1) * going.size
    <3>3. x \in Nat /\ y \in Nat
      <4>1. at - 1 \in Nat /\ pages - 1 \in Nat
        BY <2>3, <2>4
      <4>2. QED
        BY <2>1, <4>1
    <3>4. x <= y /\ y < counted.count
      BY <2>3, <2>7, <3>2
    <3> HIDE DEF x, y, found
    <3>5. x < found
      BY <2>2, <2>6, <3>1, <3>3, <3>4
    <3>6. QED
      BY <3>5 DEF x
  <2>8. \A r \in rows : r <= inserted
    BY <1>2, <2>5 DEF Found, Matching
  <2>9. /\ shown' = [url |-> going, page |-> at, pages |-> pages, rows |-> rows,
                     count |-> counted.count, gone |-> counted.gone]
        /\ counted' = Uncounted /\ UNCHANGED <<log, inserted>>
    BY <1>11 DEF Select, pages, at, server
  <2> HIDE DEF rows, found
  <2>10. rows = {} => counted.count = 0 \/ counted.gone
    BY <2>5, <2>7
  <2>11. EmptyOnlyIfNone' /\ \A r \in shown'.rows : r <= inserted'
    BY <2>8, <2>9, <2>10 DEF EmptyOnlyIfNone
  <2>12. QED
    BY <1>2, <1>3, <2>9, <2>11 DEF RowsInv
<1>12. ASSUME RowsChange, inserted' = inserted \/ inserted' = inserted + 1,
              Len(log') <= inserted', \A i \in DOMAIN log' : log'[i] <= inserted',
              \A i, j \in DOMAIN log' : log'[i] = log'[j] => i = j,
              counted'.known => counted.known,
              counted'.known /\ ~counted'.gone
                => /\ UNCHANGED counted
                   /\ Cardinality(Matching(log, going.q)) <= Cardinality(Matching(log', going.q))
       PROVE  RowsInv'
  <2>1. going' = going /\ shown' = shown
    BY <1>12 DEF RowsChange
  <2>2. \A r \in shown'.rows : r <= inserted'
    <3>1. shown.rows \in SUBSET Row
      BY DEF ListingTypeOK
    <3>2. \A r \in shown.rows : r \in Nat
      BY <1>1, <3>1 DEF Row
    <3>3. QED
      BY <1>1, <1>2, <1>12, <2>1, <3>2
  <2>3. EmptyOnlyIfNone'
    BY <1>2, <2>1 DEF EmptyOnlyIfNone
  <2>4. ASSUME counted'.known, ~counted'.gone
        PROVE  counted'.count <= Cardinality(Matching(log', going'.q))
    <3> DEFINE a == Cardinality(Matching(log, going.q))
               b == Cardinality(Matching(log', going.q))
               c == counted.count
    <3>1. c <= a /\ a <= b
      BY <1>2, <1>12, <2>4
    <3>2. a \in 0..Len(log) /\ b \in 0..Len(log') /\ c \in 0..MaxRows
      BY <1>1, MatchingIsFinite DEF ListingTypeOK
    <3>3. Len(log') \in Nat
      BY <1>1
    <3> HIDE DEF a, b, c
    <3>4. c <= b
      BY <1>1, <3>1, <3>2, <3>3
    <3>5. QED
      BY <1>12, <2>1, <2>4, <3>4 DEF b, c
  <2>5. counted'.known => going' # NoURL
    BY <1>2, <1>12, <2>1
  <2>6. QED
    BY <1>12, <2>2, <2>3, <2>4, <2>5 DEF RowsInv
<1>13. ASSUME NEW k \in 0..Smaller(1, Len(log)), inserted < MaxRows, inserted' = inserted + 1,
              log' = With(k, inserted + 1), UNCHANGED counted, RowsChange
       PROVE  RowsInv'
  <2>1. k \in 0..Len(log)
    BY <1>1 DEF Smaller
  <2>2. inserted + 1 \in Row
    BY <1>1, <1>13 DEF Row
  <2>3. PICK f \in [DOMAIN log -> DOMAIN log'] :
           /\ \A i, j \in DOMAIN log : f[i] = f[j] => i = j
           /\ \A i \in DOMAIN log : log'[f[i]] = log[i]
           /\ \A m \in DOMAIN log' : log'[m] = inserted + 1 \/ \E i \in DOMAIN log : f[i] = m
    BY <1>1, <1>13, <2>1, <2>2, InsertMoves
  <2>4. Len(log') = Len(log) + 1
    BY <1>1, <1>13, <2>1, <2>2, WithRow
  <2>5. Len(log') <= inserted'
    BY <1>1, <1>2, <1>13, <2>4
  <2>6. \A m \in DOMAIN log' : log'[m] <= inserted'
    <3> TAKE m \in DOMAIN log'
    <3>1. CASE log'[m] = inserted + 1
      BY <1>1, <1>13, <3>1
    <3>2. CASE \E i \in DOMAIN log : f[i] = m
      <4>1. PICK i \in DOMAIN log : log'[m] = log[i]
        BY <2>3, <3>2
      <4>2. log[i] \in Nat /\ log[i] <= inserted
        BY <1>1, <1>2
      <4>3. QED
        BY <1>1, <1>13, <4>1, <4>2
    <3>3. QED
      BY <2>3, <3>1, <3>2
  <2>7. \A a, b \in DOMAIN log' : log'[a] = log'[b] => a = b
    <3> SUFFICES ASSUME NEW a \in DOMAIN log', NEW b \in DOMAIN log', log'[a] = log'[b]
                 PROVE  a = b
      OBVIOUS
    <3>1. log'[k + 1] = inserted + 1 /\ DOMAIN log' = 1..Len(log)+1
      <4>1. log'[k + 1] = inserted + 1
        BY <1>1, <1>13, <2>1, <2>2, WithRow
      <4>2. DOMAIN log' = 1..Len(log')
        BY <1>1
      <4>3. QED
        BY <2>4, <4>1, <4>2
    <3>2. \A i \in DOMAIN log : log[i] # inserted + 1
      BY <1>1, <1>2
    <3>3. \A m \in DOMAIN log' : log'[m] = inserted + 1 => m = k + 1
      <4> SUFFICES ASSUME NEW m \in DOMAIN log', log'[m] = inserted + 1 PROVE m = k + 1
        OBVIOUS
      <4>1. /\ \A i \in 1..k : log'[i] = log[i]
            /\ \A i \in k+1..Len(log) : log'[i + 1] = log[i]
        BY <1>1, <1>13, <2>1, <2>2, WithRow
      <4>2. DOMAIN log = 1..Len(log)
        BY <1>1
      <4>3. CASE m <= k
        <5>1. m \in 1..k /\ m \in 1..Len(log)
          BY <1>1, <2>1, <3>1, <4>3
        <5>2. QED
          BY <3>2, <4>1, <4>2, <5>1
      <4>4. CASE m > k + 1
        <5>1. m - 1 \in k+1..Len(log) /\ m - 1 \in 1..Len(log) /\ m - 1 + 1 = m
          BY <1>1, <2>1, <3>1, <4>4
        <5>2. log'[m] = log[m - 1]
          BY <4>1, <5>1
        <5>3. QED
          BY <3>2, <4>2, <5>1, <5>2
      <4>5. QED
        BY <1>1, <2>1, <3>1, <4>3, <4>4
    <3>4. CASE log'[a] = inserted + 1
      BY <3>3, <3>4
    <3>5. CASE log'[a] # inserted + 1
      <4>1. PICK i \in DOMAIN log : f[i] = a
        BY <2>3, <3>5
      <4>2. PICK j \in DOMAIN log : f[j] = b
        BY <2>3, <3>5
      <4>3. QED
        BY <1>2, <2>3, <4>1, <4>2
    <3>6. QED
      BY <3>4, <3>5
  <2>8. Cardinality(Matching(log, going.q)) <= Cardinality(Matching(log', going.q))
    BY <1>1, <2>3, PlaceGrows
  <2>9. QED
    BY <1>12, <1>13, <2>5, <2>6, <2>7, <2>8
<1>14. ASSUME NEW k \in DOMAIN log, log' = Without(k), UNCHANGED inserted,
              counted' = [counted EXCEPT !.gone = counted.known], RowsChange
       PROVE  RowsInv'
  <2> DEFINE n == Len(log)
  <2>1. n \in Nat /\ k \in 1..n /\ DOMAIN log = 1..n
    BY <1>1
  <2>2. /\ Len(log') = n - 1
        /\ \A i \in 1..k-1 : log'[i] = log[i]
        /\ \A i \in k..n-1 : log'[i] = log[i + 1]
    BY <1>1, <1>14, WithoutRow
  <2>3. DOMAIN log' = 1..Len(log')
    BY <1>1
  <2> HIDE DEF n
  <2> DEFINE f == [i \in 1..n-1 |-> IF i < k THEN i ELSE i + 1]
  <2>4. /\ DOMAIN log' = 1..n-1 /\ \A i \in 1..n-1 : f[i] \in 1..n
        /\ \A i, j \in 1..n-1 : f[i] = f[j] => i = j
    BY <2>1, <2>2, <2>3
  <2>5. \A i \in 1..n-1 : log'[i] = log[f[i]]
    <3> TAKE i \in 1..n-1
    <3>1. CASE i < k
      <4>1. i \in 1..k-1 /\ f[i] = i
        BY <2>1, <3>1
      <4>2. QED
        BY <2>2, <4>1
    <3>2. CASE ~(i < k)
      <4>1. i \in k..n-1 /\ f[i] = i + 1
        BY <2>1, <3>2
      <4>2. QED
        BY <2>2, <4>1
    <3>3. QED
      BY <3>1, <3>2
  <2> HIDE DEF f
  <2>6. \A i \in DOMAIN log' : log'[i] <= inserted'
    BY <1>2, <1>14, <2>1, <2>4, <2>5
  <2>7. \A i, j \in DOMAIN log' : log'[i] = log'[j] => i = j
    BY <1>2, <2>1, <2>4, <2>5
  <2>8. Len(log') <= inserted'
    <3>1. n <= inserted
      BY <1>2 DEF n
    <3>2. QED
      BY <1>1, <1>14, <2>1, <2>2, <3>1
  <2>9. counted'.known = counted.known /\ counted'.gone = counted.known
    <3>1. counted \in [count : 0..MaxRows, gone : BOOLEAN, known : BOOLEAN]
      BY DEF ListingTypeOK
    <3>2. QED
      BY <1>14, <3>1
  <2>10. QED
    BY <1>12, <1>14, <2>6, <2>7, <2>8, <2>9
<1>15. ASSUME NEW k \in DOMAIN log, log' = ToFront(k), UNCHANGED <<inserted, counted>>, RowsChange
       PROVE  RowsInv'
  <2>1. PICK f \in [DOMAIN log -> DOMAIN log'] :
           /\ \A i, j \in DOMAIN log : f[i] = f[j] => i = j
           /\ \A i \in DOMAIN log : log'[f[i]] = log[i]
           /\ \A m \in DOMAIN log' : \E i \in DOMAIN log : f[i] = m
    <3>1. \E f \in [DOMAIN log -> DOMAIN ToFront(k)] :
             /\ \A i, j \in DOMAIN log : f[i] = f[j] => i = j
             /\ \A i \in DOMAIN log : ToFront(k)[f[i]] = log[i]
             /\ \A m \in DOMAIN ToFront(k) : \E i \in DOMAIN log : f[i] = m
      BY <1>1, TouchMoves
    <3>2. log' = ToFront(k)
      BY <1>15
    <3>3. QED
      BY <3>1, <3>2, Zenon
  <2>2. Len(log') = Len(log)
    BY <1>1, <1>15, ToFrontRow
  <2>3. \A m \in DOMAIN log' : log'[m] <= inserted'
    BY <1>2, <1>15, <2>1
  <2>4. \A a, b \in DOMAIN log' : log'[a] = log'[b] => a = b
    BY <1>2, <2>1
  <2>5. Cardinality(Matching(log, going.q)) <= Cardinality(Matching(log', going.q))
    <3>1. /\ log \in Seq(Row) /\ log' \in Seq(Row) /\ f \in [DOMAIN log -> DOMAIN log']
          /\ \A i, j \in DOMAIN log : f[i] = f[j] => i = j
          /\ \A i \in DOMAIN log : log'[f[i]] = log[i]
      BY <1>1, <2>1
    <3>2. QED
      BY <3>1, PlaceGrows
  <2>6. QED
    BY <1>2, <1>12, <1>15, <2>2, <2>3, <2>4, <2>5
<1>16. QED
  BY <1>5, <1>6, <1>7, <1>8, <1>9, <1>10, <1>11, <1>13, <1>14, <1>15, ListingCases

\* Whatever is found above a row of a page is on that page or one before it.
LEMMA PagePrecedes ==
  ASSUME NEW rows \in Seq(Row), NEW q, NEW at \in Nat \ {0}, NEW n \in Nat \ {0},
         \A i, j \in DOMAIN rows : rows[i] = rows[j] => i = j,
         NEW i \in DOMAIN rows, NEW j \in DOMAIN rows, i <= j,
         rows[j] \in Slice(rows, q, at, n)
  PROVE  Place(rows, q, i) <= at * n
<1>1. Place(rows, q, j) <= at * n
  BY SliceShows
<1>2. i \in Nat /\ j \in Nat
  OBVIOUS
<1>3. Place(rows, q, i) <= Place(rows, q, j)
  BY <1>2, PlaceOrder
<1>4. Place(rows, q, i) \in Nat /\ Place(rows, q, j) \in Nat
  BY <1>2, MatchingIsFinite
<1>5. at * n \in Nat
  OBVIOUS
<1> DEFINE a == Place(rows, q, i)
           b == Place(rows, q, j)
           c == at * n
<1>6. a <= b /\ b <= c /\ a \in Nat /\ b \in Nat /\ c \in Nat
  BY <1>1, <1>3, <1>4, <1>5
<1> HIDE DEF a, b, c
<1>7. a <= c
  BY <1>6
<1>8. QED
  BY <1>7 DEF a, c

\* A page that was just selected: its rows are seen, and what precedes them of the
\* rows that are found was seen before, if that was so of the page before.
LEMMA PageIsSeen ==
  ASSUME NEW rows \in Seq(Row), NEW q, NEW at \in Nat \ {0}, NEW n \in Nat \ {0},
         \A i, j \in DOMAIN rows : rows[i] = rows[j] => i = j,
         NEW seen, NEW held,
         \A i \in Matching(rows, q) :
           rows[i] \in held /\ at # 1 /\ Place(rows, q, i) <= (at - 1) * n => rows[i] \in seen,
         \A r \in held : q = "" \/ r \in Hits
  PROVE  /\ \A i \in Matching(rows, q) :
              rows[i] \in held /\ Place(rows, q, i) <= at * n
                => rows[i] \in seen \cup Slice(rows, q, at, n)
         /\ \A i, j \in DOMAIN rows :
              i <= j /\ rows[j] \in Slice(rows, q, at, n) /\ rows[i] \in held
                => rows[i] \in seen \cup Slice(rows, q, at, n)
<1>1. \A i \in Matching(rows, q) :
        rows[i] \in held /\ Place(rows, q, i) <= at * n
          => rows[i] \in seen \cup Slice(rows, q, at, n)
  <2> TAKE i \in Matching(rows, q)
  <2> HAVE rows[i] \in held /\ Place(rows, q, i) <= at * n
  <2>1. CASE rows[i] \in Slice(rows, q, at, n)
    BY <2>1
  <2>2. CASE rows[i] \notin Slice(rows, q, at, n)
    <3>1. at # 1 /\ Place(rows, q, i) <= (at - 1) * n
      BY <2>2, SliceShows
    <3>2. QED
      BY <3>1
  <2>3. QED
    BY <2>1, <2>2
<1>2. ASSUME NEW i \in DOMAIN rows, NEW j \in DOMAIN rows, i <= j,
             rows[j] \in Slice(rows, q, at, n), rows[i] \in held
      PROVE  rows[i] \in seen \cup Slice(rows, q, at, n)
  <2>1. i \in Matching(rows, q)
    BY <1>2 DEF Matching
  <2>2. Place(rows, q, i) <= at * n
    BY <1>2, PagePrecedes
  <2>3. QED
    BY <1>1, <1>2, <2>1, <2>2
<1>3. QED
  BY <1>1, <1>2

\* Rows that keep their order when others come between them.
Grown(rows, more, f) ==
  /\ \A i, j \in DOMAIN rows : f[i] = f[j] => i = j
  /\ \A i, j \in DOMAIN rows : f[i] <= f[j] => i <= j
  /\ \A i, j \in DOMAIN rows : i <= j => f[i] <= f[j]
  /\ \A i \in DOMAIN rows : more[f[i]] = rows[i]

\* What was there at the beginning, and precedes the end of the page, was seen.
SeenUpTo(rows, q, limit, on, held, seen) ==
  /\ \A i \in Matching(rows, q) :
       rows[i] \in held /\ Place(rows, q, i) <= limit => rows[i] \in seen
  /\ \A i, j \in DOMAIN rows :
       i <= j /\ rows[j] \in on /\ rows[i] \in held => rows[i] \in seen

\* The rows stay, perhaps with one more among them: what was seen is enough.
LEMMA SeenStays ==
  ASSUME NEW rows \in Seq(Row), NEW more \in Seq(Row), NEW q, NEW limit \in Nat,
         NEW f \in [DOMAIN rows -> DOMAIN more], NEW seen, NEW held, NEW on,
         Grown(rows, more, f), SeenUpTo(rows, q, limit, on, held, seen),
         \A m \in DOMAIN more :
           (\E i \in DOMAIN rows : f[i] = m) \/ (more[m] \notin held /\ more[m] \notin on)
  PROVE  SeenUpTo(more, q, limit, on, held, seen)
<1> USE DEF Grown, SeenUpTo
<1>1. ASSUME NEW m \in Matching(more, q), more[m] \in held, Place(more, q, m) <= limit
      PROVE  more[m] \in seen
  <2>1. m \in DOMAIN more /\ m \in Nat
    <3>1. DOMAIN more = 1..Len(more)
      OBVIOUS
    <3>2. m \in 1..Len(more)
      BY <3>1 DEF Matching
    <3>3. QED
      BY <3>1, <3>2
  <2>2. PICK i \in DOMAIN rows : f[i] = m
    BY <1>1, <2>1
  <2>3. i \in Matching(rows, q)
    BY <1>1, <2>2 DEF Matching
  <2>4. Place(rows, q, i) <= Place(more, q, m)
    <3>1. \A j \in DOMAIN rows : j <= i => f[j] <= m
      BY <2>2
    <3>2. QED
      BY <2>1, <3>1, PlaceGrows
  <2>5. Place(rows, q, i) \in Nat /\ Place(more, q, m) \in Nat
    <3>1. DOMAIN rows = 1..Len(rows)
      OBVIOUS
    <3>2. i \in Nat
      BY <3>1
    <3>3. QED
      BY <2>1, <3>2, MatchingIsFinite
  <2>6. Place(rows, q, i) <= limit
    <3> DEFINE a == Place(rows, q, i)
               b == Place(more, q, m)
    <3>1. a <= b /\ b <= limit /\ a \in Nat /\ b \in Nat
      BY <1>1, <2>4, <2>5
    <3> HIDE DEF a, b
    <3>2. a <= limit
      BY <3>1
    <3>3. QED
      BY <3>2 DEF a
  <2>7. rows[i] \in held
    BY <1>1, <2>2
  <2>8. QED
    BY <2>2, <2>3, <2>6, <2>7
<1>2. ASSUME NEW a \in DOMAIN more, NEW b \in DOMAIN more, a <= b, more[b] \in on, more[a] \in held
      PROVE  more[a] \in seen
  <2>1. PICK i \in DOMAIN rows : f[i] = a
    BY <1>2
  <2>2. PICK j \in DOMAIN rows : f[j] = b
    BY <1>2
  <2>3. i <= j /\ rows[j] \in on /\ rows[i] \in held
    BY <1>2, <2>1, <2>2
  <2>4. QED
    BY <2>1, <2>3
<1>3. QED
  BY <1>1, <1>2

\* Of going from page to page, one step.
LEMMA WalkKept ==
  ASSUME ListingTypeOK, RowsInv, WalkInv, ListingTypeOK', RowsInv', ListingNext
  PROVE  WalkInv'
<1>1. /\ MaxRows \in Nat /\ log \in Seq(Row) /\ log' \in Seq(Row) /\ inserted \in Nat
      /\ shown.page \in Nat \ {0} /\ shown.url.size \in Nat \ {0} /\ shown.url \in URLs
      /\ walk \in [on : BOOLEAN, next : BOOLEAN, seen : SUBSET Row, held : SUBSET Row]
      /\ \A r \in Row : r \in Nat
  <2>1. MaxRows \in Nat /\ Sizes \subseteq Nat \ {0}
    BY ListingAssumption DEF ListingAssumption
  <2>2. /\ log \in Seq(Row) /\ log' \in Seq(Row) /\ inserted \in 0..MaxRows
        /\ shown.page \in 1..MaxRows /\ shown.url \in URLs
        /\ walk \in [on : BOOLEAN, next : BOOLEAN, seen : SUBSET Row, held : SUBSET Row]
    BY DEF ListingTypeOK
  <2>3. shown.url.size \in Nat \ {0}
    BY <2>1, <2>2, AddressIsURL
  <2>4. inserted \in Nat /\ shown.page \in Nat \ {0} /\ \A r \in Row : r \in Nat
    BY <2>1, <2>2 DEF Row
  <2>5. QED
    BY <2>1, <2>2, <2>3, <2>4
<1> DEFINE limit == shown.page * shown.url.size
<1>2. limit \in Nat
  BY <1>1
<1> HIDE DEF limit
<1>3. /\ \A i \in DOMAIN log : log[i] <= inserted
      /\ \A i, j \in DOMAIN log : log[i] = log[j] => i = j
      /\ counted.known => going # NoURL
      /\ \A r \in shown.rows : r <= inserted
  BY DEF RowsInv
<1>4. ASSUME table = "audit", walk.on
      PROVE  /\ \A r \in walk.held : r <= inserted /\ (shown.url.q = "" \/ r \in Hits)
             /\ walk.next => going = [shown.url EXCEPT !.page = shown.page + 1]
             /\ \A i \in Matching(log, shown.url.q) :
                  log[i] \in walk.held /\ Place(log, shown.url.q, i) <= limit => log[i] \in walk.seen
             /\ \A i, j \in DOMAIN log :
                  i <= j /\ log[j] \in shown.rows /\ log[i] \in walk.held => log[i] \in walk.seen
  BY <1>4 DEF WalkInv, WalkSkipsNothing, limit
<1>5. ASSUME UNCHANGED <<table, log, inserted, shown>>,
             walk' = [walk EXCEPT !.next = walk'.next],
             walk'.next => (going' = [shown.url EXCEPT !.page = shown.page + 1])
      PROVE  WalkInv'
  <2>1. walk'.on = walk.on /\ walk'.held = walk.held /\ walk'.seen = walk.seen
    BY <1>1, <1>5
  <2>2. QED
    BY <1>4, <1>5, <2>1 DEF WalkInv, WalkSkipsNothing, limit
<1>6. ASSUME NEW url, NEW forward \in BOOLEAN, Navigate(url, forward),
             UNCHANGED <<table, log, inserted, shown>>,
             forward => url = [shown.url EXCEPT !.page = shown.page + 1]
      PROVE  WalkInv'
  <2>1. walk' = [walk EXCEPT !.next = forward] /\ going' = url
    BY <1>6 DEF Navigate
  <2>2. walk'.next = forward
    BY <1>1, <2>1
  <2>3. walk' = [walk EXCEPT !.next = walk'.next]
    BY <2>1, <2>2
  <2>4. QED
    BY <1>5, <1>6, <2>1, <2>2, <2>3
<1>7. ASSUME UNCHANGED <<table, log, inserted, shown, going, walk>> PROVE WalkInv'
  BY <1>4, <1>7 DEF WalkInv, WalkSkipsNothing, limit
<1>8. ASSUME NEW v \in Terms, Type(v) PROVE WalkInv'
  BY <1>7, <1>8 DEF Type, Click, server
<1>9. ASSUME NEW n \in Sizes, ChooseSize(n) PROVE WalkInv'
  BY <1>6, <1>9 DEF ChooseSize, Click, server
<1>10. CASE SearchFires
  BY <1>6, <1>10 DEF SearchFires, server
<1>11. CASE NextPage
  BY <1>6, <1>11 DEF NextPage, TurnTo, Click, server
<1>12. CASE PreviousPage
  BY <1>6, <1>12 DEF PreviousPage, TurnTo, Click, server
<1>13. CASE Count
  BY <1>7, <1>13 DEF Count, server
<1>14. CASE Select
  <2> DEFINE pages == Pages(counted.count, going.size)
             at    == Clamp(going.page, pages)
             q     == going.q
             n     == going.size
             rows  == Slice(log, q, at, n)
  <2>1. going \in URLs /\ n \in Nat \ {0} /\ going.page \in Nat \ {0} /\ counted.count \in Nat
    <3>1. counted.known
      BY <1>14 DEF Select
    <3>2. going \in URLs
      BY <1>3, <3>1 DEF ListingTypeOK
    <3>3. going.page \in 1..MaxRows /\ going.size \in Sizes
      BY <3>2, AddressIsURL
    <3>4. counted.count \in 0..MaxRows
      BY DEF ListingTypeOK
    <3>5. Sizes \subseteq Nat \ {0}
      BY ListingAssumption DEF ListingAssumption
    <3>6. going.page \in Nat \ {0} /\ counted.count \in Nat
      BY <1>1, <3>3, <3>4
    <3>7. n \in Nat \ {0}
      BY <3>3, <3>5
    <3>8. QED
      BY <3>2, <3>6, <3>7
  <2>2. at \in Nat \ {0}
    <3>1. pages \in Nat \ {0}
      BY <2>1, PagesBound
    <3> HIDE DEF pages
    <3>2. QED
      BY <2>1, <3>1 DEF Clamp, Smaller
  <2>3. /\ shown' = [url |-> going, page |-> at, pages |-> pages, rows |-> rows,
                     count |-> counted.count, gone |-> counted.gone]
        /\ walk' = IF at = 1
                   THEN [on |-> TRUE, next |-> FALSE, seen |-> rows, held |-> Found(log, q)]
                   ELSE IF walk.on /\ walk.next /\ at = shown.page + 1
                   THEN [walk EXCEPT !.next = FALSE, !.seen = @ \cup rows]
                   ELSE [on |-> FALSE, next |-> FALSE, seen |-> {}, held |-> {}]
        /\ UNCHANGED <<table, log, inserted>>
    BY <1>14 DEF Select, server
  <2> HIDE DEF pages, at, rows, n, q
  <2>4. shown'.url.q = q /\ shown'.url.size = n /\ shown'.page = at /\ shown'.rows = rows
    BY <2>3 DEF q, n
  <2>5. ASSUME NEW seen, NEW held, walk'.on, ~walk'.next, walk'.held = held,
               walk'.seen = seen \cup rows,
               \A i \in Matching(log, q) :
                 log[i] \in held /\ at # 1 /\ Place(log, q, i) <= (at - 1) * n
                   => log[i] \in seen,
               \A r \in held : r <= inserted /\ (q = "" \/ r \in Hits)
        PROVE  WalkInv'
    <3>1. /\ \A i \in Matching(log, q) :
               log[i] \in held /\ Place(log, q, i) <= at * n => log[i] \in seen \cup rows
          /\ \A i, j \in DOMAIN log :
               i <= j /\ log[j] \in rows /\ log[i] \in held => log[i] \in seen \cup rows
      <4>1. /\ log \in Seq(Row) /\ \A i, j \in DOMAIN log : log[i] = log[j] => i = j
            /\ at \in Nat \ {0} /\ n \in Nat \ {0} /\ rows = Slice(log, q, at, n)
        BY <1>1, <1>3, <2>1, <2>2 DEF rows, n
      <4>2. \A r \in held : q = "" \/ r \in Hits
        BY <2>5
      <4>3. \A i \in Matching(log, q) :
              log[i] \in held /\ at # 1 /\ Place(log, q, i) <= (at - 1) * n
                => log[i] \in seen
        BY <2>5
      <4>4. QED
        BY <4>1, <4>2, <4>3, PageIsSeen
    <3>2. WalkSkipsNothing'
      BY <2>3, <2>4, <2>5, <3>1 DEF WalkSkipsNothing
    <3>3. QED
      BY <2>3, <2>4, <2>5, <3>1, <3>2 DEF WalkInv
  <2>6. CASE at = 1
    <3>1. walk' = [on |-> TRUE, next |-> FALSE, seen |-> rows, held |-> Found(log, q)]
      BY <2>3, <2>6
    <3>2. walk'.on /\ ~walk'.next /\ walk'.held = Found(log, q) /\ walk'.seen = {} \cup rows
      BY <3>1
    <3>3. \A r \in Found(log, q) : r <= inserted /\ (q = "" \/ r \in Hits)
      BY <1>3 DEF Found, Matching
    <3>4. QED
      BY <2>5, <2>6, <3>2, <3>3
  <2>7. CASE at # 1 /\ walk.on /\ walk.next /\ at = shown.page + 1
    <3>1. walk' = [walk EXCEPT !.next = FALSE, !.seen = @ \cup rows]
      BY <2>3, <2>7
    <3>2. /\ walk'.on /\ ~walk'.next /\ walk'.held = walk.held
          /\ walk'.seen = walk.seen \cup rows
      BY <1>1, <2>7, <3>1
    <3>3. CASE table # "audit"
      BY <2>3, <3>3 DEF WalkInv
    <3>4. CASE table = "audit"
      <4>1. going = [shown.url EXCEPT !.page = shown.page + 1]
        BY <1>4, <2>7, <3>4
      <4>2. q = shown.url.q /\ n = shown.url.size
        BY <1>1, <4>1 DEF q, n, URLs
      <4>3. at - 1 = shown.page
        BY <1>1, <2>7
      <4>4. (at - 1) * n = limit
        BY <4>2, <4>3 DEF limit
      <4>5. \A i \in Matching(log, q) :
              log[i] \in walk.held /\ at # 1 /\ Place(log, q, i) <= (at - 1) * n
                => log[i] \in walk.seen
        BY <1>4, <2>7, <3>4, <4>2, <4>4
      <4>6. \A r \in walk.held : r <= inserted /\ (q = "" \/ r \in Hits)
        BY <1>4, <2>7, <3>4, <4>2
      <4>7. QED
        BY <2>5, <3>2, <4>5, <4>6
    <3>5. QED
      BY <3>3, <3>4
  <2>8. CASE at # 1 /\ ~(walk.on /\ walk.next /\ at = shown.page + 1)
    <3>1. ~walk'.on
      BY <2>3, <2>8
    <3>2. QED
      BY <3>1 DEF WalkInv
  <2>9. QED
    BY <2>6, <2>7, <2>8
<1>15. ASSUME RowsChange, inserted' \in Nat, inserted <= inserted',
              table = "audit" /\ walk.on =>
                /\ \A i \in Matching(log', shown.url.q) :
                     log'[i] \in walk.held /\ Place(log', shown.url.q, i) <= limit
                       => log'[i] \in walk.seen
                /\ \A i, j \in DOMAIN log' :
                     i <= j /\ log'[j] \in shown.rows /\ log'[i] \in walk.held
                       => log'[i] \in walk.seen
       PROVE  WalkInv'
  <2>1. UNCHANGED <<table, shown, going, walk>>
    BY <1>15 DEF RowsChange
  <2> SUFFICES ASSUME table = "audit", walk.on PROVE WalkInv'
    BY <2>1 DEF WalkInv
  <2>2. \A r \in walk.held : r \in Nat
    BY <1>1
  <2>3. \A r \in walk.held : r <= inserted' /\ (shown.url.q = "" \/ r \in Hits)
    <3>1. \A r \in Nat : r <= inserted => r <= inserted'
      BY <1>1, <1>15
    <3>2. QED
      BY <1>4, <2>2, <3>1
  <2>4. WalkSkipsNothing'
    BY <1>15, <2>1 DEF WalkSkipsNothing
  <2>5. QED
    BY <1>4, <1>15, <2>1, <2>3, <2>4 DEF WalkInv, limit
<1>16. ASSUME NEW k \in 0..Smaller(1, Len(log)), inserted < MaxRows, inserted' = inserted + 1,
              log' = With(k, inserted + 1), UNCHANGED counted, RowsChange
       PROVE  WalkInv'
  <2>1. k \in 0..Len(log)
    <3>1. Len(log) \in Nat
      BY <1>1
    <3>2. QED
      BY <3>1 DEF Smaller
  <2>2. inserted + 1 \in Row
    BY <1>1, <1>16 DEF Row
  <2> DEFINE new == With(k, inserted + 1)
  <2>3. PICK f \in [DOMAIN log -> DOMAIN new] :
           /\ \A i, j \in DOMAIN log : f[i] = f[j] => i = j
           /\ \A i \in DOMAIN log : new[f[i]] = log[i]
           /\ \A i, j \in DOMAIN log : f[i] <= f[j] => i <= j
           /\ \A i, j \in DOMAIN log : i <= j => f[i] <= f[j]
           /\ \A m \in DOMAIN new : new[m] = inserted + 1 \/ \E i \in DOMAIN log : f[i] = m
    <3>1. log \in Seq(Row)
      BY <1>1
    <3>2. QED
      BY <3>1, <2>1, <2>2, InsertMoves, Zenon
  <2> HIDE DEF new
  <2>7. log' = new
    BY <1>16 DEF new
  <2>4. inserted' \in Nat /\ inserted <= inserted'
    BY <1>1, <1>16
  <2>5. ASSUME table = "audit", walk.on
        PROVE  /\ \A i \in Matching(log', shown.url.q) :
                    log'[i] \in walk.held /\ Place(log', shown.url.q, i) <= limit
                      => log'[i] \in walk.seen
               /\ \A i, j \in DOMAIN log' :
                    i <= j /\ log'[j] \in shown.rows /\ log'[i] \in walk.held
                      => log'[i] \in walk.seen
    <3>1. inserted + 1 \notin walk.held /\ inserted + 1 \notin shown.rows
      <4>1. \A r \in Row : r <= inserted => r # inserted + 1
        BY <1>1
      <4>2. walk.held \subseteq Row /\ shown.rows \subseteq Row
        BY <1>1 DEF ListingTypeOK
      <4>3. \A r \in walk.held : r <= inserted
        BY <1>4, <2>5
      <4>4. QED
        BY <1>3, <4>1, <4>2, <4>3
    <3>2. \A m \in DOMAIN new :
            (\E i \in DOMAIN log : f[i] = m)
              \/ (new[m] \notin walk.held /\ new[m] \notin shown.rows)
      BY <2>3, <3>1
    <3>3. /\ \A i \in Matching(log, shown.url.q) :
               log[i] \in walk.held /\ Place(log, shown.url.q, i) <= limit => log[i] \in walk.seen
          /\ \A i, j \in DOMAIN log :
               i <= j /\ log[j] \in shown.rows /\ log[i] \in walk.held => log[i] \in walk.seen
      BY <1>4, <2>5
    <3>4. /\ log \in Seq(Row) /\ new \in Seq(Row) /\ limit \in Nat
          /\ f \in [DOMAIN log -> DOMAIN new]
      BY <1>1, <1>2, <2>3, <2>7
    <3>5. Grown(log, new, f)
      BY <2>3 DEF Grown
    <3>6. SeenUpTo(log, shown.url.q, limit, shown.rows, walk.held, walk.seen)
      BY <3>3 DEF SeenUpTo
    <3>7. SeenUpTo(new, shown.url.q, limit, shown.rows, walk.held, walk.seen)
      BY <3>2, <3>4, <3>5, <3>6, SeenStays
    <3>8. QED
      BY <2>7, <3>7 DEF SeenUpTo
  <2>6. QED
    BY <1>15, <1>16, <2>4, <2>5
<1>17. ASSUME NEW k \in DOMAIN log, table = "audit" => k = Len(log), log' = Without(k),
              UNCHANGED inserted, RowsChange
       PROVE  WalkInv'
  <2>1. CASE table # "audit"
    BY <1>17, <2>1 DEF WalkInv, RowsChange
  <2>2. CASE table = "audit"
    <3> DEFINE n == Len(log)
    <3>1. n \in Nat /\ DOMAIN log = 1..n /\ k = n /\ DOMAIN log' = 1..Len(log')
      BY <1>1, <1>17, <2>2
    <3>2. Len(log') = n - 1 /\ \A i \in 1..k-1 : log'[i] = log[i]
      BY <1>1, <1>17, WithoutRow
    <3> HIDE DEF n
    <3>3. DOMAIN log' = 1..n-1 /\ \A i \in 1..n-1 : log'[i] = log[i] /\ i \in DOMAIN log
      BY <3>1, <3>2
    <3>4. ASSUME NEW i \in Matching(log', shown.url.q)
          PROVE  /\ i \in Matching(log, shown.url.q) /\ log'[i] = log[i]
                 /\ Place(log', shown.url.q, i) = Place(log, shown.url.q, i)
      <4>1. i \in 1..n-1
        BY <3>3, <3>4 DEF Matching
      <4>2. {m \in Matching(log', shown.url.q) : m <= i}
              = {m \in Matching(log, shown.url.q) : m <= i}
        <5>1. \A m \in 1..n-1 : m \in Matching(log', shown.url.q)
                                  <=> m \in Matching(log, shown.url.q)
          BY <3>1, <3>3 DEF Matching
        <5>2. \A m \in Matching(log', shown.url.q) : m \in 1..n-1
          BY <3>3 DEF Matching
        <5>3. \A m \in Matching(log, shown.url.q) : m <= i => m \in 1..n-1
          <6>1. \A m \in Matching(log, shown.url.q) : m \in 1..n
            BY <3>1 DEF Matching
          <6>2. QED
            BY <3>1, <4>1, <6>1
        <5>4. QED
          BY <5>1, <5>2, <5>3
      <4>3. QED
        BY <3>3, <3>4, <4>1, <4>2 DEF Place, Matching
    <3>5. inserted' \in Nat /\ inserted <= inserted'
      BY <1>1, <1>17
    <3>6. ASSUME walk.on
          PROVE  /\ \A i \in Matching(log', shown.url.q) :
                      log'[i] \in walk.held /\ Place(log', shown.url.q, i) <= limit
                        => log'[i] \in walk.seen
                 /\ \A i, j \in DOMAIN log' :
                      i <= j /\ log'[j] \in shown.rows /\ log'[i] \in walk.held
                        => log'[i] \in walk.seen
      <4>1. \A i \in Matching(log', shown.url.q) :
              log'[i] \in walk.held /\ Place(log', shown.url.q, i) <= limit
                => log'[i] \in walk.seen
        BY <1>4, <2>2, <3>4, <3>6
      <4>2. ASSUME NEW i \in DOMAIN log', NEW j \in DOMAIN log',
                   i <= j, log'[j] \in shown.rows, log'[i] \in walk.held
            PROVE  log'[i] \in walk.seen
        <5>1. log'[i] = log[i] /\ log'[j] = log[j] /\ i \in DOMAIN log /\ j \in DOMAIN log
          BY <3>3, <4>2
        <5>2. QED
          BY <1>4, <2>2, <3>6, <4>2, <5>1
      <4>3. QED
        BY <4>1, <4>2
    <3>7. QED
      BY <1>15, <1>17, <3>5, <3>6
  <2>3. QED
    BY <2>1, <2>2
<1>18. ASSUME table = "bans", RowsChange PROVE WalkInv'
  BY <1>18 DEF WalkInv, RowsChange
<1>19. QED
  BY <1>8, <1>9, <1>10, <1>11, <1>12, <1>13, <1>14, <1>16, <1>17, <1>18, ListingCases

LEMMA InitListing == ListingInit => ListingInv
<1> SUFFICES ASSUME ListingInit PROVE ListingInv
  OBVIOUS
<1> DEFINE rows  == [i \in 1..FirstRows |-> FirstRows + 1 - i]
           first == CHOOSE n \in Sizes : \A m \in Sizes : n <= m
<1>1. /\ MaxRows \in Nat \ {0} /\ FirstRows \in 0..MaxRows /\ FirstRows \in Nat
      /\ Sizes \subseteq Nat \ {0} /\ Sizes # {} /\ 0 \in 0..MaxClicks
  BY ListingAssumption DEF ListingAssumption
<1>2. first \in Sizes /\ first \in Nat \ {0}
  <2>1. \E n \in Sizes : \A m \in Sizes : n <= m
    BY <1>1, LeastOf
  <2>2. QED
    BY <1>1, <2>1
<1>3. /\ rows \in Seq(Row) /\ Len(rows) = FirstRows /\ DOMAIN rows = 1..FirstRows
      /\ \A i \in DOMAIN rows : rows[i] <= FirstRows
      /\ \A i, j \in DOMAIN rows : rows[i] = rows[j] => i = j
  BY <1>1 DEF Row
<1>4. /\ table \in {"audit", "bans"} /\ log = rows /\ inserted = FirstRows
      /\ shown = [url |-> [q |-> "", page |-> 1, size |-> first], page |-> 1,
                  pages |-> Pages(FirstRows, first), rows |-> Slice(rows, "", 1, first),
                  count |-> FirstRows, gone |-> FALSE]
      /\ box = "" /\ size = first /\ timers = <<>> /\ own = FALSE
      /\ going = NoURL /\ counted = Uncounted /\ clicks = 0 /\ crossed = FALSE
      /\ walk = [on |-> TRUE, next |-> FALSE, held |-> Found(rows, ""),
                 seen |-> Slice(rows, "", 1, first)]
  BY DEF ListingInit
<1> HIDE DEF rows, first
<1>5. Pages(FirstRows, first) \in 1..MaxRows
  <2>1. Pages(FirstRows, first) \in Nat \ {0}
        /\ (Pages(FirstRows, first) = 1 \/ Pages(FirstRows, first) <= FirstRows)
    BY <1>1, <1>2, PagesBound
  <2> DEFINE p == Pages(FirstRows, first)
  <2> HIDE DEF p
  <2>2. p \in Nat \ {0} /\ (p = 1 \/ p <= FirstRows)
    BY <2>1 DEF p
  <2>3. p \in 1..MaxRows
    BY <1>1, <2>2
  <2>4. QED
    BY <2>3 DEF p
<1>6. /\ Slice(rows, "", 1, first) \subseteq Found(rows, "") /\ Found(rows, "") \subseteq Row
      /\ \A i \in Matching(rows, "") :
           Place(rows, "", i) <= 1 * first => rows[i] \in Slice(rows, "", 1, first)
      /\ \A j \in DOMAIN rows : rows[j] \in Slice(rows, "", 1, first)
           => j \in Matching(rows, "") /\ Place(rows, "", j) <= 1 * first
  <2>1. 1 \in Nat \ {0}
    OBVIOUS
  <2>2. QED
    BY <1>2, <1>3, <2>1, SliceShows
<1>7. \A r \in Found(rows, "") : r <= FirstRows
  BY <1>3 DEF Found, Matching
<1>8. /\ shown.url = [q |-> "", page |-> 1, size |-> first] /\ shown.page = 1
      /\ shown.pages = Pages(FirstRows, first) /\ shown.rows = Slice(rows, "", 1, first)
      /\ shown.count = FirstRows /\ shown.gone = FALSE
      /\ shown.url.q = "" /\ shown.url.size = first
      /\ walk.on /\ ~walk.next /\ walk.held = Found(rows, "")
      /\ walk.seen = Slice(rows, "", 1, first)
      /\ log = rows /\ inserted = FirstRows /\ box = "" /\ size = first /\ ~own
      /\ timers = <<>> /\ going = NoURL
  BY <1>4
<1>9. ListingTypeOK
  <2>1. shown.url \in URLs
    <3>1. 1 \in 1..MaxRows
      BY <1>1
    <3>2. "" \in Terms
      BY DEF Terms
    <3>3. shown.url = [q |-> "", page |-> 1, size |-> first]
      BY <1>8
    <3>4. QED
      BY <1>2, <3>1, <3>2, <3>3, AddressIsURL
  <2>2. shown.rows \in SUBSET Row /\ shown.page \in 1..MaxRows /\ shown.pages \in 1..MaxRows
        /\ shown.count \in 0..MaxRows /\ shown.gone \in BOOLEAN
    <3>1. shown.rows \in SUBSET Row
      BY <1>6, <1>8
    <3>2. 1 \in 1..MaxRows
      BY <1>1
    <3>3. QED
      BY <1>1, <1>5, <1>8, <3>1, <3>2
  <2>3. walk \in [on : BOOLEAN, next : BOOLEAN, seen : SUBSET Row, held : SUBSET Row]
    BY <1>4, <1>6
  <2>4. counted \in [count : 0..MaxRows, gone : BOOLEAN, known : BOOLEAN]
    <3>1. 0 \in 0..MaxRows
      BY <1>1
    <3>2. QED
      BY <1>4, <3>1 DEF Uncounted
  <2>5. <<>> \in Seq([q : Terms, url : URLs])
    OBVIOUS
  <2>6. log \in Seq(Row) /\ inserted \in 0..MaxRows /\ size \in Sizes /\ clicks \in 0..MaxClicks
    BY <1>1, <1>2, <1>3, <1>4
  <2>7. /\ table \in {"audit", "bans"} /\ box \in Terms /\ own \in BOOLEAN
        /\ crossed \in BOOLEAN /\ timers = <<>> /\ going = NoURL
    BY <1>4 DEF Terms
  <2>8. QED
    BY <2>1, <2>2, <2>3, <2>4, <2>5, <2>6, <2>7 DEF ListingTypeOK
<1>10. RowsInv
  <2>1. EmptyOnlyIfNone
    <3>1. CASE FirstRows = 0
      BY <1>8, <3>1 DEF EmptyOnlyIfNone
    <3>2. CASE FirstRows # 0
      <4>1. Matching(rows, "") = 1..FirstRows
        BY <1>3 DEF Matching
      <4>2. Cardinality(Matching(rows, "")) = FirstRows
        <5>1. 1 \in Int /\ FirstRows \in Int /\ ~(1 > FirstRows) /\ FirstRows - 1 + 1 = FirstRows
          BY <1>1, <3>2
        <5>2. Cardinality(1..FirstRows) = IF 1 > FirstRows THEN 0 ELSE FirstRows - 1 + 1
          BY <5>1, FS_Interval
        <5>3. QED
          BY <4>1, <5>1, <5>2
      <4>3. (1 - 1) * first < FirstRows
        BY <1>1, <1>2, <3>2
      <4>4. Slice(rows, "", 1, first) # {}
        <5>1. 1 \in Nat \ {0}
          OBVIOUS
        <5>2. QED
          BY <1>2, <1>3, <4>2, <4>3, <5>1, SliceShows
      <4>5. QED
        BY <1>8, <4>4 DEF EmptyOnlyIfNone
    <3>3. QED
      BY <3>1, <3>2
  <2>2. ~counted.known
    BY <1>4 DEF Uncounted
  <2>3. \A r \in shown.rows : r <= inserted
    BY <1>4, <1>6, <1>7, <1>8
  <2>4. Len(log) <= inserted
    <3>1. Len(log) = FirstRows /\ inserted = FirstRows
      BY <1>3, <1>8
    <3>2. QED
      BY <1>1, <3>1
  <2>5. QED
    BY <1>3, <1>4, <2>1, <2>2, <2>3, <2>4 DEF RowsInv
<1>11. WalkInv
  <2>1. WalkSkipsNothing
    <3> SUFFICES ASSUME NEW i \in DOMAIN log, NEW j \in DOMAIN log, i <= j,
                        log[j] \in shown.rows, log[i] \in walk.held
                 PROVE  log[i] \in walk.seen
      BY DEF WalkSkipsNothing
    <3>1. i \in DOMAIN rows /\ j \in DOMAIN rows /\ rows[j] \in Slice(rows, "", 1, first)
      BY <1>4, <1>8
    <3>2. i \in Matching(rows, "")
      BY <3>1 DEF Matching
    <3>3. i \in Nat /\ j \in Nat
      <4>1. i \in 1..FirstRows /\ j \in 1..FirstRows
        BY <1>3, <3>1
      <4>2. QED
        BY <4>1
    <3>4. Place(rows, "", i) <= Place(rows, "", j) /\ Place(rows, "", j) <= 1 * first
      BY <1>3, <1>6, <3>1, <3>3, PlaceOrder
    <3>5. Place(rows, "", i) \in Nat /\ Place(rows, "", j) \in Nat
      BY <1>3, <3>3, MatchingIsFinite
    <3>6. Place(rows, "", i) <= 1 * first
      <4>1. 1 * first \in Nat
        BY <1>2
      <4> DEFINE a == Place(rows, "", i)
                 b == Place(rows, "", j)
                 c == 1 * first
      <4>2. a <= b /\ b <= c /\ a \in Nat /\ b \in Nat /\ c \in Nat
        BY <3>4, <3>5, <4>1
      <4> HIDE DEF a, b, c
      <4>3. a <= c
        BY <4>2
      <4>4. QED
        BY <4>3 DEF a, c
    <3>7. QED
      BY <1>4, <1>6, <1>8, <3>2, <3>6
  <2>2. QED
    BY <1>4, <1>6, <1>7, <1>8, <2>1 DEF WalkInv
<1>12. SettledInv
  <2>1. DOMAIN timers = {}
    <3>1. timers = <<>>
      BY <1>8
    <3>2. DOMAIN << >> = {}
      OBVIOUS
    <3>3. QED
      BY <3>1, <3>2, Zenon
  <2>2. QED
    BY <1>8, <2>1 DEF SettledInv
<1>13. QED
  BY <1>9, <1>10, <1>11, <1>12 DEF ListingInv
LEMMA ListingInvariant == ListingSpec => []ListingInv
<1>1. ASSUME ListingInv, [ListingNext]_listingVars PROVE ListingInv'
  <2>1. ListingTypeOK /\ SettledInv /\ RowsInv /\ WalkInv
    BY <1>1 DEF ListingInv
  <2>2. CASE ListingNext
    <3>1. ListingTypeOK'
      BY <2>1, <2>2, TypesKept
    <3>2. RowsInv'
      BY <2>1, <2>2, <3>1, TableKept
    <3>3. SettledInv'
      BY <2>1, <2>2, SettledKept
    <3>4. WalkInv'
      BY <2>1, <2>2, <3>1, <3>2, WalkKept
    <3>5. QED
      BY <3>1, <3>2, <3>3, <3>4 DEF ListingInv
  <2>3. CASE UNCHANGED listingVars
    BY <2>1, <2>3 DEF ListingInv, ListingTypeOK, SettledInv, RowsInv, WalkInv, EmptyOnlyIfNone,
                      WalkSkipsNothing, listingVars
  <2>4. QED
    BY <1>1, <2>2, <2>3
<1>2. QED
  BY <1>1, InitListing, PTL DEF ListingSpec

\* When nothing is pending, the search box and the page size are those of the rows
\* that are shown, however searches and loading pages overlap.
THEOREM ShownIsAsked == ListingSpec => []SettledShowsAsked
<1>1. ListingInv => SettledShowsAsked
  BY DEF ListingInv, SettledInv, SettledShowsAsked, Waiting
<1>2. QED
  BY <1>1, ListingInvariant, PTL

\* A table is shown empty only if nothing matched or rows were deleted meanwhile,
\* and whoever turns the pages of the audit log passes over no row of those that
\* were there when they began.
THEOREM PagesHold == ListingSpec => []ListingHolds
<1>1. ListingInv => ListingHolds
  BY DEF ListingInv, RowsInv, WalkInv, ListingHolds, WalkSkipsNothing
<1>2. QED
  BY <1>1, ListingInvariant, PTL
=============================================================================
