\* Two browser tabs, two editors, three rows, two devices, two diagnostics.
SPECIFICATION ConsoleSpec
CONSTANTS
  Tabs = {t1, t2}
  Day = 2
  Days = {1, 2}
  Unlimited = null
  MaxTime = 3
  MaxSaves = 2
  Editors = {e1, e2}
  Targets = {g1, g2}
  ServerNames = {s1, s2}
  MaxEdits = 1
  MaxRows = 3
  FirstRows = 2
  Hits = {2}
  Sizes = {1, 2}
  MaxClicks = 3
  Gadgets = {d1, d2}
  MaxSamples = 2
  MaxLapses = 2
  Probes = {p1, p2}
  MaxXrayFaults = 3
INVARIANTS
  SettingsHold
  ListingHolds
  SettledShowsAsked
  ViewAddsUp
  LeftoverExplained
PROPERTIES
  UntouchedEndHolds
  LiftedKnowingly
  ViewMovesOn
  ViewSettles
  DiagnosticsEnd
\* Each page may be left alone when its bounds are reached.
CHECK_DEADLOCK FALSE
