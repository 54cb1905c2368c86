---------------------------- MODULE AccountForm ----------------------------
(***************************************************************************)
(* The form of an account in the admin console. The date an account ends   *)
(* is shown, and sent back, as a number of days from now, and the form     *)
(* keeps what it was rendered with: saving it later, without touching that *)
(* field, stores another date. Several administrators have it open.        *)
(***************************************************************************)
EXTENDS Naturals

CONSTANTS
  Tabs,         \* browser tabs in which the account may be open
  Day,          \* ticks of the clock in a day
  Days,         \* numbers of days an administrator enters
  Unlimited,    \* no end: expires_at is null, the field is empty
  MaxTime,      \* bound of the clock
  MaxSaves      \* bound: forms sent

ASSUME AccountFormAssumption ==
  /\ Day \in Nat \ {0} /\ Days \subseteq Nat \ {0} /\ Unlimited \notin Nat
  /\ MaxTime \in Nat /\ MaxSaves \in Nat

VARIABLES
  clock,
  expires,      \* vpn_accesses.expires_at
  suspended,    \* vpn_accesses.status and user.banned, which change together
  tab,          \* the form in each tab
  sends         \* forms sent

accountVars == <<clock, expires, suspended, tab, sends>>

\* days, off: the fields. asked, when: the date a request computed, and when.
\* Histories: own, nobody entered the days, nor saved another form, since "at",
\* when they were what the account had left; lifts, "active" was picked, or the
\* account was suspended after the form was rendered.
Forms ==
  [step : {"closed", "open", "sent", "computed"}, days : Nat \cup {Unlimited},
   off : BOOLEAN, asked : Nat \cup {Unlimited}, when : Nat,
   own : BOOLEAN, at : Nat, lifts : BOOLEAN]

NoForm == [step |-> "closed", days |-> Unlimited, off |-> FALSE, asked |-> Unlimited,
           when |-> 0, own |-> TRUE, at |-> 0, lifts |-> FALSE]

AccountFormTypeOK ==
  /\ clock \in 0..MaxTime /\ expires \in Nat \cup {Unlimited} /\ suspended \in BOOLEAN
  /\ tab \in [Tabs -> Forms] /\ sends \in 0..MaxSaves

AccountFormInit ==
  /\ clock = 0 /\ suspended = FALSE /\ tab = [t \in Tabs |-> NoForm] /\ sends = 0
  /\ expires \in {Unlimited} \cup {d * Day : d \in Days}

-----------------------------------------------------------------------------
(* The two conversions.                                                    *)

\* Mutant of RemainingDays: rounded down.
WholeDays(end, at) ==
  IF end = Unlimited THEN Unlimited
  ELSE IF end < at + Day THEN 1 ELSE (end - at) \div Day

\* calculateRemainingDays: rounded up, and one for an account that has ended.
RemainingDays(end, at) ==
  IF end = Unlimited THEN Unlimited
  ELSE IF end <= at THEN 1 ELSE (end - at + Day - 1) \div Day

NewEnd(days, at) == IF days = Unlimited THEN Unlimited ELSE at + days * Day

-----------------------------------------------------------------------------
\* Mutant of OpenForm: the status is not the account's.
OpenActive(t) ==
  /\ tab[t].step = "closed"
  /\ tab' = [tab EXCEPT ![t] = [NoForm EXCEPT !.step = "open", !.at = clock,
                                !.days = RemainingDays(expires, clock)]]
  /\ UNCHANGED <<clock, expires, suspended, sends>>

\* The page is rendered, and the form with what it read.
OpenForm(t) ==
  /\ tab[t].step = "closed"
  /\ tab' = [tab EXCEPT ![t] = [NoForm EXCEPT !.step = "open", !.at = clock,
       !.days = RemainingDays(expires, clock), !.off = suspended]]
  /\ UNCHANGED <<clock, expires, suspended, sends>>

EditDays(t) ==
  /\ tab[t].step = "open"
  /\ \E d \in Days \cup {Unlimited} :
       tab' = [tab EXCEPT ![t].days = d, ![t].own = FALSE, ![t].at = 0]
  /\ UNCHANGED <<clock, expires, suspended, sends>>

EditStatus(t) ==
  /\ tab[t].step = "open"
  /\ tab' = [tab EXCEPT ![t].off = ~@, ![t].lifts = @ \/ tab[t].off]
  /\ UNCHANGED <<clock, expires, suspended, sends>>

SendForm(t) ==
  /\ tab[t].step = "open" /\ sends < MaxSaves /\ sends' = sends + 1
  /\ tab' = [tab EXCEPT ![t].step = "sent"]
  /\ UNCHANGED <<clock, expires, suspended>>

\* The route computes the date before its transaction.
ComputeEnd(t) ==
  /\ tab[t].step = "sent"
  /\ tab' = [tab EXCEPT ![t].step = "computed", ![t].asked = NewEnd(tab[t].days, clock),
                     ![t].when = clock]
  /\ UNCHANGED <<clock, expires, suspended, sends>>

\* The transaction, and the answer. The form is not reset: the days it goes on
\* showing are days from this save.
StoreAccount(t) ==
  /\ tab[t].step = "computed"
  /\ expires' = tab[t].asked /\ suspended' = tab[t].off
  /\ tab' = [u \in Tabs |->
       IF u = t THEN [tab[t] EXCEPT !.step = "open", !.asked = Unlimited, !.when = 0,
                      !.own = TRUE, !.at = tab[t].when, !.lifts = FALSE]
       ELSE IF tab[u].step = "closed" THEN NoForm
       ELSE [tab[u] EXCEPT !.own = FALSE, !.at = 0,
                           !.lifts = @ \/ (~suspended /\ tab[t].off)]]
  /\ UNCHANGED <<clock, sends>>

\* The request fails; nothing is stored and the form keeps what was entered.
SendFails(t) ==
  /\ tab[t].step \in {"sent", "computed"}
  /\ tab' = [tab EXCEPT ![t].step = "open", ![t].asked = Unlimited, ![t].when = 0]
  /\ UNCHANGED <<clock, expires, suspended, sends>>

CloseForm(t) ==
  /\ tab[t].step = "open" /\ tab' = [tab EXCEPT ![t] = NoForm]
  /\ UNCHANGED <<clock, expires, suspended, sends>>

TimePasses ==
  /\ clock < MaxTime /\ clock' = clock + 1
  /\ UNCHANGED <<expires, suspended, tab, sends>>

AccountFormNext ==
  \/ \E t \in Tabs :
       \/ OpenForm(t) \/ EditDays(t) \/ EditStatus(t) \/ SendForm(t) \/ ComputeEnd(t)
       \/ StoreAccount(t) \/ SendFails(t) \/ CloseForm(t)
  \/ TimePasses

AccountFormSpec == AccountFormInit /\ [][AccountFormNext]_accountVars

-----------------------------------------------------------------------------
(* Properties.                                                             *)

\* Form t stores days nobody entered, over an account nobody else changed.
Untouched(t) == tab[t].step = "computed" /\ tab[t].own
\* An administrator who saves another field never takes days from the account,
\* however long the form was open (format.ts, which rounds up; route.ts). Nor
\* does it give away more than the age of the form, the time the request took and
\* a day; no end stays no end. An account that has ended is given a day from the
\* save: the form cannot leave it ended.
UntouchedEndHolds ==
  [][\A t \in Tabs :
       Untouched(t) /\ tab'[t].step = "open" /\ expires' # expires =>
         /\ expires # Unlimited /\ expires' # Unlimited
         /\ expires' \in expires ..
              (IF expires > clock THEN expires ELSE clock) + (clock - tab[t].at) + Day
    ]_accountVars

\* A suspension is lifted only by who picked "active", or from a form that was
\* rendered before the account was suspended.
LiftedKnowingly ==
  [][\A t \in Tabs : suspended /\ ~suspended' /\ tab[t].step = "computed"
       /\ tab'[t].step = "open" => tab[t].lifts]_accountVars

\* The strengthening: a form that would lift a suspension says so.
AccountFormInv ==
  /\ AccountFormTypeOK
  /\ \A t \in Tabs : tab[t].step # "closed" /\ suspended /\ ~tab[t].off => tab[t].lifts

\* Another strengthening: the days of a form nobody edited reach from when they
\* were read to the account's end, or at most a day beyond it; and the date a
\* request computed is that many days from then.
ShowsTheEnd(form) ==
  /\ form.days = Unlimited <=> expires = Unlimited
  /\ expires # Unlimited =>
       LET reach == form.at + form.days * Day
       IN  expires <= reach /\ reach <= (IF expires > form.at THEN expires ELSE form.at) + Day

KeepsEnd(form) ==
  /\ form.at <= clock /\ (form.own => ShowsTheEnd(form))
  /\ form.step = "computed" =>
       /\ form.at <= form.when /\ form.when <= clock
       /\ form.asked = NewEnd(form.days, form.when)

EndsInv ==
  AccountFormTypeOK /\ \A t \in Tabs : tab[t].step # "closed" => KeepsEnd(tab[t])
=============================================================================
