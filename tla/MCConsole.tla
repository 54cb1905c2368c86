----------------------------- MODULE MCConsole -----------------------------
(***************************************************************************)
(* Model checking of the pages of the console. The five share no state, so *)
(* nothing is learnt from interleaving them: a behaviour is one of them,   *)
(* and the variables of the others stay as they are at first.              *)
(***************************************************************************)
EXTENDS AccountForm, SettingsForm, Listing, LiveView, Diagnostics

VARIABLE part   \* the page that is open

Only(name, next) == part = name /\ next /\ UNCHANGED part

ConsoleInit ==
  /\ part \in {"account", "settings", "listing", "view", "diagnostic"}
  /\ AccountFormInit /\ SettingsFormInit /\ ListingInit /\ LiveViewInit /\ DiagnosticsInit
  /\ part # "account" => expires = Unlimited
  /\ part # "listing" => table = "audit"
  /\ part # "diagnostic" => xrayUp

ConsoleNext ==
  \/ /\ Only("account", AccountFormNext)
     /\ UNCHANGED <<settingsVars, listingVars, viewVars, diagnosticVars>>
  \/ /\ Only("settings", SettingsFormNext)
     /\ UNCHANGED <<accountVars, listingVars, viewVars, diagnosticVars>>
  \/ /\ Only("listing", ListingNext)
     /\ UNCHANGED <<accountVars, settingsVars, viewVars, diagnosticVars>>
  \/ /\ Only("view", LiveViewNext)
     /\ UNCHANGED <<accountVars, settingsVars, listingVars, diagnosticVars>>
  \/ /\ Only("diagnostic", DiagnosticsNext)
     /\ UNCHANGED <<accountVars, settingsVars, listingVars, viewVars>>

consoleVars == <<part, accountVars, settingsVars, listingVars, viewVars, diagnosticVars>>

\* What is fair is disabled in a page that is not open.
ConsoleSpec ==
  ConsoleInit /\ [][ConsoleNext]_consoleVars /\ LiveViewFairness /\ DiagnosticsFairness
=============================================================================
