------------------------------ MODULE Sessions ------------------------------
(***************************************************************************)
(* Who is signed in, and how that ends. Calls that make a session in       *)
(* several statements overlap: sign-in with a password and, where it is    *)
(* on, a second factor, and the change of one's own password or second     *)
(* factor. So do requests of administrators: suspension (PATCH of an       *)
(* account), the reset of a password (its route), and the admin endpoints  *)
(* that come with better-auth, which /api/auth/[...all] serves although no *)
(* page calls them. The script bootstrap-owner.ts replaces a password too. *)
(* A session lasts an hour and is not asked again whether its user is      *)
(* suspended: the code ends it. What better-auth does is external.         *)
(***************************************************************************)
EXTENDS Naturals, FiniteSets

CONSTANTS
  OwnerPeople, AdminPeople, UserPeople,   \* users, by their role at first
  Attempts,      \* calls that make a session, and runs of the script, under way
  Operations,    \* requests of administrators under way
  MaxActs        \* bound: suspensions, activations, new passwords, roles, factors

People == OwnerPeople \cup AdminPeople \cup UserPeople
Roles  == {"owner", "admin", "user"}

ASSUME SessionAssumption ==
  /\ MaxActs \in Nat /\ OwnerPeople # {}
  /\ OwnerPeople \cap AdminPeople = {} /\ OwnerPeople \cap UserPeople = {}
  /\ AdminPeople \cap UserPeople = {}

VARIABLES
  role,       \* user.role
  banned,     \* user.banned
  password,   \* account.password, as the number of times it was replaced
  factor,     \* user.two_factor_enabled
  sessions,   \* rows of session: whose, after which password, and history
  attempt,    \* each call that makes a session
  operation,  \* each request of an administrator
  renewing,   \* whose password a call has replaced that has yet to delete the
              \* sessions of the old one, or that never will
  banning,    \* whom better-auth suspended, with the sessions yet to delete
  acts,
  crossed,    \* history: an owner was suspended by one already suspended, whose
              \* request, or session, was under way when that happened
  mounted     \* history: by better-auth's endpoints an owner was suspended by
              \* oneself or by one who is no owner, or it changed who is one

sessionVars ==
  <<role, banned, password, factor, sessions, attempt, operation, renewing,
    banning, acts, crossed, mounted>>

\* met: a suspension came after the call had read that there was none;
\* stale: a new password came while it was under way.
Entries  == [who : People, pw : Nat, met : BOOLEAN, stale : BOOLEAN]
\* pw: the password that was verified, or that the call has set; code: no second
\* factor is asked for, or any more; old: the session the new one replaces.
SignIns  == [at : {"idle", "proved", "replaced", "scripted", "verified", "checked",
                   "challenge"},
             who : People, pw : Nat, code : BOOLEAN, met : BOOLEAN,
             stale : BOOLEAN, old : SUBSET Entries]
\* users: who has been a user since the request was admitted, when it read the role
\* of the account it asks for.
Works    == [at : {"idle", "admitted"}, actor : People, role : Roles, met : BOOLEAN,
             users : SUBSET People]

SessionsTypeOK ==
  /\ role \in [People -> Roles]
  /\ banned \in [People -> BOOLEAN] /\ password \in [People -> Nat]
  /\ factor \in [People -> BOOLEAN] /\ sessions \in SUBSET Entries
  /\ attempt \in [Attempts -> SignIns] /\ operation \in [Operations -> Works]
  /\ renewing \in SUBSET People /\ banning \in SUBSET People
  /\ acts \in 0..MaxActs /\ crossed \in BOOLEAN /\ mounted \in BOOLEAN

Someone == CHOOSE p \in OwnerPeople : TRUE
NoSignIn == [at |-> "idle", who |-> Someone, pw |-> 0, code |-> FALSE,
             met |-> FALSE, stale |-> FALSE, old |-> {}]
NoWork   == [at |-> "idle", actor |-> Someone, role |-> "owner", met |-> FALSE,
             users |-> {}]

SessionsInit ==
  /\ role = [p \in People |-> IF p \in OwnerPeople THEN "owner"
                              ELSE IF p \in AdminPeople THEN "admin" ELSE "user"]
  /\ banned = [p \in People |-> FALSE] /\ password = [p \in People |-> 0]
  /\ factor = [p \in People |-> FALSE] /\ sessions = {}
  /\ attempt = [a \in Attempts |-> NoSignIn]
  /\ operation = [q \in Operations |-> NoWork]
  /\ renewing = {} /\ banning = {} /\ acts = 0
  /\ crossed = FALSE /\ mounted = FALSE

SignedIn(p) == \E s \in sessions : s.who = p

\* DELETE FROM session WHERE user_id = p.
Others(p)   == {s \in sessions : s.who # p}
EndAll(p)   == /\ sessions' = Others(p)
               /\ renewing' = renewing \ {p} /\ banning' = banning \ {p}

\* history: the calls of p that a new password meets, with the others as they were
MeetPassword(p, all) ==
  [a \in Attempts |-> IF all[a].at # "idle" /\ all[a].who = p
     THEN [all[a] EXCEPT !.stale = TRUE] ELSE all[a]]

\* and those that a suspension meets
MeetSuspension(p) ==
  attempt' = [a \in Attempts |-> IF attempt[a].at # "idle" /\ attempt[a].who = p
               THEN [attempt[a] EXCEPT !.met = TRUE] ELSE attempt[a]]

-----------------------------------------------------------------------------
(* Calls that make a session.                                              *)

AttemptGoto(a, to) == attempt' = [attempt EXCEPT ![a] = to]

\* What the statements of such a call leave as it is.
MakingKeeps  == UNCHANGED <<role, banned, password, factor, operation, renewing,
                            banning, acts, crossed, mounted>>

\* Sign-in. A password that is not the account's is refused; BanRecords counts those.
VerifyPassword(a) ==
  /\ attempt[a].at = "idle" /\ UNCHANGED sessions /\ MakingKeeps
  /\ \E p \in People :
       AttemptGoto(a, [at |-> "verified", who |-> p, pw |-> password[p],
         code |-> FALSE, met |-> FALSE, stale |-> FALSE, old |-> {}])

\* Whoever makes a session: the hook of the admin plugin reads whether the user
\* is suspended.
CheckBanned(a) ==
  LET t == attempt[a] IN
  /\ t.at = "verified" /\ UNCHANGED sessions /\ MakingKeeps
  /\ AttemptGoto(a, IF banned[t.who] THEN NoSignIn
                    ELSE [t EXCEPT !.at = "checked", !.met = FALSE])

\* A second factor is still to be shown; nobody is given the session made so far.
Challenge(a) ==
  LET t == attempt[a] IN
  /\ t.at = "checked" /\ factor[t.who] /\ ~t.code /\ UNCHANGED sessions /\ MakingKeeps
  /\ AttemptGoto(a, [t EXCEPT !.at = "challenge"])

\* The session is inserted, and the one it replaces deleted; that one stays for
\* now if the call fails before, or where another session is like it.
InsertSession(a) ==
  LET t == attempt[a] IN
  /\ t.at = "checked" /\ (~factor[t.who] \/ t.code) /\ MakingKeeps
  /\ AttemptGoto(a, NoSignIn)
  /\ \E gone \in SUBSET t.old :
       sessions' = (sessions \ gone) \cup
         {[who |-> t.who, pw |-> t.pw, met |-> t.met, stale |-> t.stale]}

\* The code is right; the session is made, and so the ban is read, again.
VerifyCode(a) ==
  LET t == attempt[a] IN
  /\ t.at = "challenge" /\ UNCHANGED sessions /\ MakingKeeps
  /\ AttemptGoto(a, [t EXCEPT !.at = "verified", !.code = TRUE])

\* The form is left, the cookie of the challenge expires, or a statement fails.
AbandonSignIn(a) ==
  /\ attempt[a].at # "idle" /\ UNCHANGED sessions /\ MakingKeeps
  /\ AttemptGoto(a, NoSignIn)

\* Sign-out, "revoke other sessions", or the hour is over.
EndSession ==
  /\ \E s \in sessions : sessions' = sessions \ {s}
  /\ MakingKeeps /\ UNCHANGED attempt

\* The second factor is turned on or off; a session is made in place of the
\* current one, with no password asked for when it is turned on.
ToggleFactor(a) ==
  /\ attempt[a].at = "idle" /\ acts < MaxActs /\ acts' = acts + 1
  /\ \E s \in sessions :
       /\ factor' = [factor EXCEPT ![s.who] = ~@]
       /\ AttemptGoto(a, [at |-> "verified", who |-> s.who, pw |-> s.pw,
            code |-> TRUE, met |-> FALSE,
            stale |-> s.stale \/ s.pw # password[s.who], old |-> {s}])
  /\ UNCHANGED <<role, banned, password, sessions, operation, renewing, banning,
                 crossed, mounted>>

\* One's own password, on the Security page: the current one is verified,
ProvePassword(a) ==
  /\ attempt[a].at = "idle" /\ UNCHANGED sessions /\ MakingKeeps
  /\ \E p \in People :
       /\ SignedIn(p)
       /\ AttemptGoto(a, [at |-> "proved", who |-> p, pw |-> password[p],
            code |-> TRUE, met |-> FALSE, stale |-> FALSE, old |-> {}])

\* (call a of p stores a password, and goes on there)
StorePassword(a, p, to) ==
  /\ acts < MaxActs /\ acts' = acts + 1
  /\ password' = [password EXCEPT ![p] = @ + 1]
  /\ attempt' = [MeetPassword(p, attempt) EXCEPT ![a] = to]
  /\ renewing' = renewing \cup {p}
  /\ UNCHANGED <<role, banned, factor, sessions, operation, banning, crossed, mounted>>

\* replaced, whatever it is by now,
ReplacePassword(a) ==
  LET t == attempt[a] IN
  /\ t.at = "proved"
  /\ StorePassword(a, t.who, [t EXCEPT !.at = "replaced", !.pw = password[t.who] + 1])

\* (or the script, with OWNER_RESET_PASSWORD, that of the user it is given)
ScriptReplaces(a) ==
  /\ attempt[a].at = "idle"
  /\ \E p \in People :
       StorePassword(a, p, [NoSignIn EXCEPT !.at = "scripted", !.who = p,
                                            !.pw = password[p] + 1])

\* all sessions are deleted, and the Security page goes on with a new one.
DeleteSessions(a) ==
  LET t == attempt[a] IN
  /\ t.at \in {"replaced", "scripted"} /\ EndAll(t.who)
  /\ AttemptGoto(a, IF t.at = "scripted" THEN NoSignIn ELSE [t EXCEPT !.at = "verified"])
  /\ UNCHANGED <<role, banned, password, factor, operation, acts, crossed, mounted>>

-----------------------------------------------------------------------------
(* What an administrator does, by the routes of the application.           *)

\* requireApiSession; better-auth's endpoints ask for the same roles. What the
\* request asks is chosen when it commits.
Admit(q) ==
  /\ operation[q].at = "idle" /\ acts < MaxActs
  /\ \E p \in People :
       /\ SignedIn(p) /\ role[p] \in {"owner", "admin"}
       /\ operation' = [operation EXCEPT ![q] =
            [at |-> "admitted", actor |-> p, role |-> role[p], met |-> banned[p],
             users |-> {t \in People : role[t] = "user"}]]
  /\ UNCHANGED <<role, banned, password, factor, sessions, attempt, renewing,
                 banning, acts, crossed, mounted>>

\* An account that is no user's is the owner's to change: its role was read before
\* the transaction.
MayActOn(q, t) == operation[q].role = "owner" \/ t \in operation[q].users

\* Mutant of MayEnd: nobody asks whose account it is.
MayEndAny(q, t) == MayActOn(q, t)

\* One does not suspend oneself, nor reset one's own password here.
MayEnd(q, t) == MayActOn(q, t) /\ operation[q].actor # t

Commit(q) ==
  /\ operation[q].at = "admitted" /\ acts < MaxActs
  /\ acts' = acts + 1 /\ UNCHANGED factor

\* Requests of the suspended that were admitted go on.
BanUser(q, t) ==
  /\ banned' = [banned EXCEPT ![t] = TRUE] /\ MeetSuspension(t)
  /\ operation' = [r \in Operations |->
       IF r = q THEN NoWork
       ELSE IF operation[r].at # "idle" /\ operation[r].actor = t
            THEN [operation[r] EXCEPT !.met = TRUE] ELSE operation[r]]
  /\ crossed' = (crossed \/ (operation[q].met /\ role[t] = "owner"))

\* Mutant of Suspend: the sessions are left to expire.
SuspendOnly(q) ==
  /\ Commit(q) /\ UNCHANGED <<role, password, sessions, renewing, banning, mounted>>
  /\ \E t \in People : MayEnd(q, t) /\ BanUser(q, t)

\* The transaction that suspends deletes the sessions.
Suspend(q) ==
  /\ Commit(q) /\ UNCHANGED <<role, password, mounted>>
  /\ \E t \in People : MayEnd(q, t) /\ BanUser(q, t) /\ EndAll(t)

Activated(q, t) ==
  /\ banned' = [banned EXCEPT ![t] = FALSE]
  /\ operation' = [operation EXCEPT ![q] = NoWork]
  /\ UNCHANGED <<role, password, sessions, attempt, renewing, banning, crossed, mounted>>

Activate(q) == Commit(q) /\ \E t \in People : MayActOn(q, t) /\ Activated(q, t)

NewPassword(q, t) ==
  /\ password' = [password EXCEPT ![t] = @ + 1] /\ attempt' = MeetPassword(t, attempt)
  /\ operation' = [operation EXCEPT ![q] = NoWork]

\* Mutant of ResetPassword: the sessions are kept.
ResetOnly(q) ==
  /\ Commit(q) /\ UNCHANGED <<role, banned, sessions, renewing, banning, crossed, mounted>>
  /\ \E t \in People : MayEnd(q, t) /\ NewPassword(q, t)

\* POST .../password: one transaction; the credential account is always there.
ResetPassword(q) ==
  /\ Commit(q) /\ UNCHANGED <<role, banned, crossed, mounted>>
  /\ \E t \in People : MayEnd(q, t) /\ NewPassword(q, t) /\ EndAll(t)

FailOperation(q) ==
  /\ operation[q].at = "admitted" /\ operation' = [operation EXCEPT ![q] = NoWork]
  /\ UNCHANGED <<role, banned, password, factor, sessions, attempt, renewing,
                 banning, acts, crossed, mounted>>

-----------------------------------------------------------------------------
(* The same by better-auth's own endpoints, where permissions.ts alone says *)
(* who may: "ban" is an administrator's, and asks nothing of the account;   *)
(* "set-password" and "set-role" are the owner's.                           *)

\* admin/ban-user, of another: the sessions go in a second statement. What
\* admin/update-user may write to the same column is the first statement alone,
\* of oneself too.
EndpointBans(q) ==
  /\ Commit(q) /\ UNCHANGED <<role, password, sessions, renewing>>
  /\ \E t \in People :
       /\ BanUser(q, t)
       /\ banning' = banning \cup {t}
       /\ mounted' = (mounted \/ (role[t] = "owner" /\
            (operation[q].role # "owner" \/ operation[q].actor = t)))

EndpointDeletes(t) ==
  /\ t \in banning /\ EndAll(t)
  /\ UNCHANGED <<role, banned, password, factor, attempt, operation, acts, crossed,
                 mounted>>

\* admin/unban-user
EndpointUnbans(q) == Commit(q) /\ \E t \in People : Activated(q, t)

\* admin/set-user-password: the sessions stay.
EndpointSetsPassword(q) ==
  /\ Commit(q) /\ operation[q].role = "owner"
  /\ \E t \in People : NewPassword(q, t) /\ renewing' = renewing \cup {t}
  /\ UNCHANGED <<role, banned, sessions, banning, crossed, mounted>>

\* admin/set-role; what admin/remove-user does to an owner counts as this.
EndpointSetsRole(q) ==
  /\ Commit(q) /\ operation[q].role = "owner"
  /\ \E t \in People, r \in Roles :
       /\ role' = [role EXCEPT ![t] = r]
       /\ mounted' = (mounted \/ "owner" \in {role[t], r})
       /\ operation' = [o \in Operations |->
            IF o = q THEN NoWork
            ELSE IF operation[o].at # "idle" /\ r = "user"
                 THEN [operation[o] EXCEPT !.users = @ \cup {t}] ELSE operation[o]]
  /\ UNCHANGED <<banned, password, sessions, attempt, renewing, banning, crossed>>

-----------------------------------------------------------------------------
SessionsNext ==
  \/ \E a \in Attempts :
       \/ VerifyPassword(a) \/ CheckBanned(a) \/ Challenge(a) \/ InsertSession(a)
       \/ VerifyCode(a) \/ AbandonSignIn(a) \/ ToggleFactor(a)
       \/ ProvePassword(a) \/ ReplacePassword(a) \/ ScriptReplaces(a) \/ DeleteSessions(a)
  \/ EndSession
  \/ \E q \in Operations :
       \/ Admit(q) \/ Suspend(q) \/ Activate(q) \/ ResetPassword(q) \/ FailOperation(q)
       \/ EndpointBans(q) \/ EndpointUnbans(q) \/ EndpointSetsPassword(q)
       \/ EndpointSetsRole(q)
  \/ \E t \in People : EndpointDeletes(t)

SessionsSpec == SessionsInit /\ [][SessionsNext]_sessionVars

-----------------------------------------------------------------------------
(* Pages and where they send a browser: with the session of p, or without. *)

Pages == {"/", "/sign-in", "/two-factor", "/admin", "/portal"}

\* Mutant of AdminPage: the pages of administrators are the owner's alone.
OwnerPage(p) == IF role[p] = "owner" THEN "/admin" ELSE "/portal"

\* requireSession, requireAdmin and requireUser, for who has a session.
AdminPage(p) == IF role[p] \in {"owner", "admin"} THEN "/admin" ELSE "/portal"
UserPage(p)  == IF role[p] \in {"owner", "admin"} THEN "/admin" ELSE "/portal"

Redirect(page, p) ==
  LET known == p \in People IN
  CASE page = "/"           -> IF known THEN UserPage(p) ELSE "/sign-in"
    [] page = "/sign-in"    -> IF known THEN "/" ELSE page
    [] page = "/two-factor" -> page
    [] page = "/admin"      -> IF known THEN AdminPage(p) ELSE "/sign-in"
    [] page = "/portal"     -> IF known THEN UserPage(p) ELSE "/sign-in"

-----------------------------------------------------------------------------
(* Properties.                                                             *)

\* A suspended user has no session, except one of a call (sign-in, or a change of
\* one's own password or second factor) that had read, before the suspension,
\* that the user was not suspended, or while admin/ban-user has not come to its
\* second statement, or never will.
SuspendedHasNoSession ==
  \A s \in sessions : banned[s.who] => s.met \/ s.who \in banning

\* A session opened with a password that has been replaced is ended, except one
\* of a call that was under way when it was replaced, though by a later password
\* than the one it verified or set (with a second factor this may be five
\* minutes), or while a replacement without a transaction has not come to its
\* second statement, or never will.
OldPasswordEnds ==
  \A s \in sessions : s.pw # password[s.who] => s.stale \/ s.who \in renewing

\* Some owner can administer the instance, unless two owners suspended each
\* other, the second by a request or a session that outlived the suspension, or
\* better-auth's endpoints were used to suspend an owner without being another
\* one, or to change who is an owner: with the routes of the application, and
\* with admin/ban-user between owners, an owner can suspend an owner, but not
\* oneself.
OwnerRemains ==
  ~crossed /\ ~mounted => \E p \in People : role[p] = "owner" /\ ~banned[p]

\* Whoever is signed in, or not, every page leads to one that stays.
RedirectsEnd ==
  \A page \in Pages, p \in {q \in People : SignedIn(q)} \cup {"nobody"} :
    LET there == Redirect(Redirect(page, p), p) IN Redirect(there, p) = there

\* What a call under way has missed is noted,
CallsNoted ==
  \A a \in Attempts :
    /\ attempt[a].at = "checked" /\ banned[attempt[a].who] => attempt[a].met
    /\ attempt[a].at # "idle" /\ attempt[a].pw # password[attempt[a].who]
         => attempt[a].stale

\* and what a request has; an owner's stays one's but by better-auth's endpoint.
RequestsNoted ==
  \A q \in Operations :
    operation[q].at = "admitted" =>
      /\ banned[operation[q].actor] => operation[q].met
      /\ ~mounted => /\ operation[q].role = "owner" => role[operation[q].actor] = "owner"
                     /\ \A t \in operation[q].users : role[t] # "owner"

\* The strengthening.
SessionsInv ==
  /\ SessionsTypeOK /\ SuspendedHasNoSession /\ OldPasswordEnds /\ OwnerRemains
  /\ CallsNoted /\ RequestsNoted
=============================================================================
