---------------------------- MODULE SettingsForm ----------------------------
(***************************************************************************)
(* The settings of the instance: the form with its test of the REALITY     *)
(* target, and PATCH /api/admin/settings, which tests a target that is     *)
(* changed before it stores it, and rotates the DuckDNS token in the same  *)
(* transaction. Administrators save at the same time; what they do not     *)
(* test or rotate is the last saver's.                                     *)
(***************************************************************************)
EXTENDS Naturals, FiniteSets

CONSTANTS
  Editors,       \* forms that are open, each an administrator's
  Targets, ServerNames,
  MaxEdits       \* bound: fields changed, by each editor

ASSUME SettingsFormAssumption ==
  /\ Targets # {} /\ ServerNames # {} /\ MaxEdits \in Nat
  /\ "nobody" \notin Editors /\ "none" \notin Targets

VARIABLES
  stored,      \* instance_settings: REALITY target and server name
  current,     \* rows of encrypted_secrets with rotated_at null, by who made them
  rowLock,     \* who holds the lock of the row of instance_settings
  editor,      \* each form
  request,     \* the request each form has sent
  checked      \* history: the pairs that passed a check, and the first

settingsVars == <<stored, current, rowLock, editor, request, checked>>

Pairs   == Targets \X ServerNames
NoPair  == <<"none", "none">>
Nobody  == "nobody"

\* test: the pair whose test is under way. badge: the pair that passed it.
Editings == [pair : Pairs, token : BOOLEAN, edits : 0..MaxEdits,
             test : Pairs \cup {NoPair}, badge : Pairs \cup {NoPair}]
Patches  == [at : {"idle", "sent", "changed", "ready", "locked", "rotated"},
             pair : Pairs \cup {NoPair}, rotates : BOOLEAN, rotated : SUBSET Editors]

NoPatch == [at |-> "idle", pair |-> NoPair, rotates |-> FALSE, rotated |-> {}]

SettingsFormTypeOK ==
  /\ stored \in Pairs /\ current \in SUBSET Editors
  /\ rowLock \in Editors \cup {Nobody}
  /\ editor \in [Editors -> Editings] /\ request \in [Editors -> Patches]
  /\ checked \in SUBSET Pairs

First == CHOOSE p \in Pairs : TRUE

SettingsFormInit ==
  /\ stored = First /\ current = {} /\ rowLock = Nobody /\ checked = {First}
  /\ editor = [e \in Editors |-> [pair |-> First, token |-> FALSE, edits |-> 0,
                                  test |-> NoPair, badge |-> NoPair]]
  /\ request = [e \in Editors |-> NoPatch]

-----------------------------------------------------------------------------
(* The form.                                                               *)

Edit(e, to) ==
  /\ editor[e].edits < MaxEdits
  /\ editor' = [editor EXCEPT ![e] = [to EXCEPT !.edits = @ + 1]]
  /\ UNCHANGED <<stored, current, rowLock, request, checked>>

EditTarget(e) ==
  \E t \in Targets \ {editor[e].pair[1]} :
    Edit(e, [editor[e] EXCEPT !.pair = <<t, editor[e].pair[2]>>])

EditServerName(e) ==
  \E n \in ServerNames \ {editor[e].pair[2]} :
    Edit(e, [editor[e] EXCEPT !.pair = <<editor[e].pair[1], n>>])

\* The token that was typed stays in its field, and is sent with every save.
EnterToken(e) == ~editor[e].token /\ Edit(e, [editor[e] EXCEPT !.token = TRUE])

\* testRealityTarget: the fields are read when the button is pressed; they can
\* be edited while the answer is awaited.
StartTest(e) ==
  /\ editor[e].test = NoPair /\ request[e].at = "idle"
  /\ editor' = [editor EXCEPT ![e].test = editor[e].pair, ![e].badge = NoPair]
  /\ UNCHANGED <<stored, current, rowLock, request, checked>>

TestPasses(e) ==
  /\ editor[e].test # NoPair /\ checked' = checked \cup {editor[e].test}
  /\ editor' = [editor EXCEPT ![e].badge = editor[e].test, ![e].test = NoPair]
  /\ UNCHANGED <<stored, current, rowLock, request>>

\* The target is refused, or the Runtime Agent does not answer in ten seconds.
TestFails(e) ==
  /\ editor[e].test # NoPair /\ editor' = [editor EXCEPT ![e].test = NoPair]
  /\ UNCHANGED <<stored, current, rowLock, request, checked>>

\* realityCheckIsCurrent
BadgeShown(e) == editor[e].badge = editor[e].pair

-----------------------------------------------------------------------------
(* PATCH /api/admin/settings.                                              *)

PatchStep(e, from, to) ==
  /\ request[e].at = from /\ request' = [request EXCEPT ![e].at = to]
  /\ UNCHANGED editor

Save(e) ==
  /\ request[e].at = "idle"
  /\ request' = [request EXCEPT ![e] = [NoPatch EXCEPT !.at = "sent",
                   !.pair = editor[e].pair, !.rotates = editor[e].token]]
  /\ UNCHANGED <<stored, current, rowLock, editor, checked>>

Changed(pair) == pair # stored

ReadReality(e) ==
  /\ PatchStep(e, "sent", IF Changed(request[e].pair) THEN "changed" ELSE "ready")
  /\ UNCHANGED <<stored, current, rowLock, checked>>

\* checkRealityTarget, before the transaction.
CheckPasses(e) ==
  /\ PatchStep(e, "changed", "ready") /\ checked' = checked \cup {request[e].pair}
  /\ UNCHANGED <<stored, current, rowLock>>

\* Mutant of UpsertSettings: the row is not locked by the transaction.
UpsertUnlocked(e) ==
  /\ PatchStep(e, "ready", "locked") /\ UNCHANGED <<stored, current, rowLock, checked>>

\* The upsert comes first: its lock on the row, held until the transaction
\* ends, makes those that rotate the token take turns.
UpsertSettings(e) ==
  /\ PatchStep(e, "ready", "locked") /\ rowLock = Nobody /\ rowLock' = e
  /\ UNCHANGED <<stored, current, checked>>

\* The rows that are current and committed are marked, and a new one inserted.
RotateToken(e) ==
  /\ request[e].at = "locked" /\ request[e].rotates
  /\ request' = [request EXCEPT ![e].at = "rotated", ![e].rotated = current]
  /\ UNCHANGED <<stored, current, rowLock, editor, checked>>

CommitSettings(e) ==
  LET q == request[e] IN
  /\ \/ q.at = "rotated" /\ current' = (current \ q.rotated) \cup {e}
     \/ q.at = "locked" /\ ~q.rotates /\ UNCHANGED current
  /\ stored' = q.pair
  /\ request' = [request EXCEPT ![e] = NoPatch]
  /\ rowLock' = IF rowLock = e THEN Nobody ELSE rowLock
  /\ UNCHANGED <<editor, checked>>

\* The check refuses, or a statement fails: nothing is stored.
PatchFails(e) ==
  /\ request[e].at # "idle" /\ request' = [request EXCEPT ![e] = NoPatch]
  /\ rowLock' = IF rowLock = e THEN Nobody ELSE rowLock
  /\ UNCHANGED <<stored, current, editor, checked>>

SettingsFormNext ==
  \E e \in Editors :
    \/ EditTarget(e) \/ EditServerName(e) \/ EnterToken(e)
    \/ StartTest(e) \/ TestPasses(e) \/ TestFails(e)
    \/ Save(e) \/ ReadReality(e) \/ CheckPasses(e) \/ UpsertSettings(e)
    \/ RotateToken(e) \/ CommitSettings(e) \/ PatchFails(e)

SettingsFormSpec == SettingsFormInit /\ [][SettingsFormNext]_settingsVars

-----------------------------------------------------------------------------
(* Properties.                                                             *)

\* Xray is never given a target and server name that were not tested together,
\* however saves overlap: the one that skips the test does so because what it
\* stores was stored before (route.ts, realityChanged).
TargetWasChecked == stored \in checked

\* The badge next to the target stands for a test of what the fields hold, also
\* when they were edited while the test ran (instance-settings-form.tsx).
ShownCheckWasMade == \A e \in Editors : BadgeShown(e) => editor[e].pair \in checked

\* However saves with a new token overlap, one row is current: the transaction
\* that would see another's row too late waits for it (route.ts).
OneCurrentToken == Cardinality(current) <= 1

\* However administrators overlap, what is stored or shown as tested was, and one
\* token is current.
SettingsHold ==
  SettingsFormTypeOK /\ TargetWasChecked /\ ShownCheckWasMade /\ OneCurrentToken

\* The strengthening.
SettingsFormInv ==
  /\ SettingsFormTypeOK /\ TargetWasChecked /\ OneCurrentToken
  /\ \A e \in Editors :
       /\ editor[e].badge \in checked \cup {NoPair}
       /\ request[e].at # "idle" => request[e].pair \in Pairs
       /\ request[e].at \in {"ready", "locked", "rotated"} => request[e].pair \in checked
       /\ request[e].at \in {"locked", "rotated"} => rowLock = e
       /\ request[e].at = "rotated" => request[e].rotated = current
=============================================================================
