---------------------------- MODULE UserAccounts ----------------------------
(***************************************************************************)
(* User administration (apps/web admin/users/actions.ts): roles, accounts  *)
(* switched off and on, passwords set and accounts made, by administrators *)
(* who work at the same time, over a table of profiles and an identity     *)
(* provider that keeps logins, sessions and sign-in bans.                  *)
(*                                                                         *)
(* A request looks at its target, then changes the profile in one          *)
(* transaction (a count under row locks, when it could take away the last  *)
(* super admin, then an update), then makes calls to the provider.  Any of *)
(* these may fail, and the process may die between them.                   *)
(***************************************************************************)
EXTENDS FiniteSets, Naturals

CONSTANTS Handlers,  \* administrators' requests in flight
          Users,
          Founder,   \* the super admin the seed made
          NoUser,
          MaxChanges \* how many requests are made

ASSUME UserAssumption ==
  Founder \in Users /\ NoUser \notin Users /\ MaxChanges \in Nat

VARIABLES role,      \* users.role, "none" when there is no profile
          active,    \* users whose profile is active
          banned,    \* the provider's sign-in ban
          signedIn,  \* users with a session at the provider
          task,      \* each request
          changes,
          uncounted, \* a super admin was taken away by a write that did not count
          kept,      \* users whose sessions a request failed to end
          crossed    \* users whose ban two requests raced for, or one failed to set

userVars ==
  <<role, active, banned, signedIn, task, changes, uncounted, kept, crossed>>
-----------------------------------------------------------------------------
Staff  == "staff"  \* teacher, observer or mentor: no rule tells them apart
AdminRoles == {"programme_admin", "super_admin"}
UserRoles  == AdminRoles \cup {Staff}

\* What a request is for: a role, "off", "on", "password" or "create".
Wishes == UserRoles \cup {"off", "on", "password"}

TaskAt == {"none", "count", "write", "provider", "revoke", "ban", "promote",
           "link", "undo"}

NoTask == [at |-> "none", whom |-> NoUser, saw |-> "none", want |-> "on", locks |-> {}]

\* The super admins who can act.
Usable == {u \in active : role[u] = "super_admin"}

Initially(u) == IF u = Founder THEN "super_admin" ELSE "none"

UserInit ==
  /\ role = [u \in Users |-> Initially(u)]
  /\ active = {Founder}
  /\ banned = {}
  /\ signedIn = {}
  /\ task = [t \in Handlers |-> NoTask]
  /\ changes = 0
  /\ uncounted = FALSE
  /\ kept = {}
  /\ crossed = {}

profiles == <<role, active>>
provider == <<banned, signedIn>>
excuses  == <<uncounted, kept, crossed>>

TaskGoes(t, at) == task' = [task EXCEPT ![t] = [@ EXCEPT !.at = at, !.locks = {}]]
TaskEnds(t)     == task' = [task EXCEPT ![t] = NoTask]
-----------------------------------------------------------------------------
\* assignableBy().
AssignableBy(a) == IF role[a] = "super_admin" THEN UserRoles ELSE {Staff}

\* requireAdmin() and canActOn(): an administrator, never on herself, and a
\* programme admin on staff only.
MayActOn(a, u) ==
  /\ a \in active /\ role[a] \in AdminRoles
  /\ a # u /\ role[u] # "none"
  /\ role[a] = "super_admin" \/ role[u] \notin AdminRoles

\* A bug for TLC to find: a super admin switched off without a count.
DemotionsOnly(saw, want) == saw = "super_admin" /\ want \in {Staff, "programme_admin"}

\* What takes a super admin away is counted first.
TakesAway(saw, want) == saw = "super_admin" /\ want \in {Staff, "programme_admin", "off"}

\* setRoleAction(), setActiveAction() and setPasswordAction() up to their first
\* write: what they know of the target's role is what they read here.
Request(t, a, u, want) ==
  /\ task[t].at = "none" /\ changes < MaxChanges
  /\ MayActOn(a, u) /\ (want \in UserRoles => want \in AssignableBy(a))
  /\ changes' = changes + 1
  /\ task' = [task EXCEPT ![t] =
       [at    |-> IF want = "password" THEN "provider"
                  ELSE IF TakesAway(role[u], want) THEN "count" ELSE "write",
        whom  |-> u, saw |-> role[u], want |-> want, locks |-> {}]]
  /\ UNCHANGED <<profiles, provider, excuses>>

RowLocked(u, t) == \E other \in Handlers \ {t} : u \in task[other].locks

\* A bug for TLC to find: the others counted and not locked.
CountOnly(t) == {}

\* wouldStrandTheOrg(): the other usable super admins, locked FOR UPDATE.
OtherSupers(t) == Usable \ {task[t].whom}
ToLock(t) == OtherSupers(t)

CountSupers(t) ==
  /\ task[t].at = "count"
  /\ \A u \in OtherSupers(t) : ~RowLocked(u, t)
  /\ IF OtherSupers(t) = {} THEN TaskEnds(t)
     ELSE task' = [task EXCEPT ![t] = [@ EXCEPT !.at = "write", !.locks = ToLock(t)]]
  /\ UNCHANGED <<profiles, provider, changes, excuses>>

\* The role or the flag the request asks for.
RoleWanted(t)   == IF task[t].want \in UserRoles THEN task[t].want ELSE role[task[t].whom]
ActiveWanted(t) == CASE task[t].want = "off" -> active \ {task[t].whom}
                     [] task[t].want = "on"  -> active \cup {task[t].whom}
                     [] OTHER                -> active

IsDemotion(t) == task[t].saw \in AdminRoles /\ task[t].want = Staff

\* A bug for TLC to find: the sessions ended before the flag is written.
BanNext(t) == IF task[t].want \in {"on", "off"} THEN "ban"
              ELSE IF IsDemotion(t) THEN "revoke" ELSE "none"

\* What follows the transaction.
After(t) ==
  IF task[t].want = "off" \/ IsDemotion(t) THEN "revoke"
  ELSE IF task[t].want = "on" THEN "ban" ELSE "none"

\* Another request has this account's flag written and its ban still to set.
Racing(t) == \E other \in Handlers \ {t} : /\ task[other].whom = task[t].whom
                                       /\ task[other].at \in {"revoke", "ban"}
                                       /\ task[other].want \in {"on", "off"}

\* The profile was undone meanwhile: the UPDATE finds no row.
Missing(u) == role[u] = "none"

\* The UPDATE by id, and the commit.
Write(t) ==
  LET u == task[t].whom
  IN /\ task[t].at = "write"
     /\ ~RowLocked(u, t)
     /\ IF Missing(u) THEN UNCHANGED <<profiles, uncounted>>
        ELSE /\ role' = [role EXCEPT ![u] = RoleWanted(t)]
             /\ active' = ActiveWanted(t)
             /\ uncounted' = \/ uncounted
                             \/ /\ ~TakesAway(task[t].saw, task[t].want)
                                /\ TakesAway(role[u], task[t].want)
     /\ IF After(t) = "none" THEN TaskEnds(t) ELSE TaskGoes(t, After(t))
     /\ crossed' = IF task[t].want \in {"on", "off"} /\ Racing(t)
                     THEN crossed \cup {u} ELSE crossed
     /\ UNCHANGED <<provider, changes, kept>>

\* setPasswordAction(): the provider takes the password.
SetPassword(t) ==
  /\ task[t].at = "provider"
  /\ TaskGoes(t, "revoke")
  /\ UNCHANGED <<profiles, provider, changes, excuses>>

\* revokeAllSessions(): it never throws.
Revoke(t, ok) ==
  LET u == task[t].whom
  IN /\ task[t].at = "revoke"
     /\ signedIn' = IF ok THEN signedIn \ {u} ELSE signedIn
     /\ kept' = IF ok THEN kept \ {u} ELSE kept \cup {u}
     /\ IF task[t].want = "off" THEN TaskGoes(t, "ban") ELSE TaskEnds(t)
     /\ UNCHANGED <<profiles, banned, changes, uncounted, crossed>>

\* A bug for TLC to find: a reactivation that lifts no ban.
BanOnly(t) == banned \cup {task[t].whom}

\* setSignInBan(): applied when switched off, lifted when switched on.
BanWanted(t) ==
  IF task[t].want = "off" THEN banned \cup {task[t].whom} ELSE banned \ {task[t].whom}

SetSignInBan(t, ok) ==
  LET u == task[t].whom
  IN /\ task[t].at = "ban"
     /\ banned' = IF ok THEN BanWanted(t) ELSE banned
     /\ crossed' = IF ok THEN crossed ELSE crossed \cup {u}
     /\ TaskEnds(t)
     /\ UNCHANGED <<profiles, signedIn, changes, uncounted, kept>>
-----------------------------------------------------------------------------
\* createUserAction() up to the provider: the trigger writes an inactive
\* teacher's profile beside the login.
CreateUserLogin(t, a, u, r) ==
  /\ task[t].at = "none" /\ changes < MaxChanges
  /\ a \in active /\ role[a] \in AdminRoles /\ r \in AssignableBy(a)
  /\ role[u] = "none"
  /\ \A other \in Handlers : task[other].whom # u
  /\ changes' = changes + 1
  /\ role' = [role EXCEPT ![u] = Staff]
  /\ task' = [task EXCEPT ![t] =
       [at |-> "promote", whom |-> u, saw |-> Staff, want |-> r, locks |-> {}]]
  /\ UNCHANGED <<active, provider, excuses>>

\* The upsert that makes the profile what was asked for, committed at once.
Promote(t) ==
  LET u == task[t].whom
  IN /\ task[t].at = "promote" /\ ~RowLocked(u, t)
     /\ role' = [role EXCEPT ![u] = task[t].want]
     /\ active' = active \cup {u}
     /\ crossed' = IF u \in banned \/ Racing(t) THEN crossed \cup {u} ELSE crossed
     /\ uncounted' = (uncounted \/ (u \in Usable /\ task[t].want # "super_admin"))
     /\ TaskGoes(t, "link")
     /\ UNCHANGED <<provider, changes, kept>>

\* linkAccountToRecord(): nothing to link, or the record was free.
Link(t) ==
  /\ task[t].at = "link"
  /\ TaskEnds(t)
  /\ UNCHANGED <<profiles, provider, changes, excuses>>

\* The record was taken, or either statement failed.
CreateUserFails(t) ==
  /\ task[t].at \in {"promote", "link"}
  /\ TaskGoes(t, "undo")
  /\ UNCHANGED <<profiles, provider, changes, excuses>>

\* rollbackNewAccount(): the profile, then the login; it counts nobody.
RollbackNewAccount(t) ==
  LET u == task[t].whom
  IN /\ task[t].at = "undo" /\ ~RowLocked(u, t)
     /\ role' = [role EXCEPT ![u] = "none"]
     /\ active' = active \ {u}
     /\ signedIn' = signedIn \ {u}
     /\ banned' = banned \ {u}
     /\ uncounted' = (uncounted \/ u \in Usable)
     /\ TaskEnds(t)
     /\ UNCHANGED <<changes, kept, crossed>>

\* A failed transaction, a deadlock or the death of the process.
TaskGivesUp(t) ==
  /\ task[t].at # "none"
  /\ kept' = IF task[t].at = "revoke" THEN kept \cup {task[t].whom} ELSE kept
  /\ crossed' = IF task[t].at \in {"revoke", "ban"} THEN crossed \cup {task[t].whom}
                ELSE crossed
  /\ TaskEnds(t)
  /\ UNCHANGED <<profiles, provider, changes, uncounted>>

\* The provider signs in who is not banned, and mints a token for an active
\* profile only.
SignIn(u) ==
  /\ u \in active \ banned /\ u \notin signedIn
  /\ signedIn' = signedIn \cup {u}
  /\ UNCHANGED <<profiles, banned, task, changes, excuses>>

UserNext ==
  \/ \E t \in Handlers :
       \/ \E a, u \in Users, want \in Wishes : Request(t, a, u, want)
       \/ \E a, u \in Users, r \in UserRoles : CreateUserLogin(t, a, u, r)
       \/ CountSupers(t) \/ Write(t) \/ SetPassword(t)
       \/ \E ok \in BOOLEAN : Revoke(t, ok) \/ SetSignInBan(t, ok)
       \/ Promote(t) \/ Link(t) \/ CreateUserFails(t) \/ RollbackNewAccount(t)
       \/ TaskGivesUp(t)
  \/ \E u \in Users : SignIn(u)

UserSpec == UserInit /\ [][UserNext]_userVars
-----------------------------------------------------------------------------
\* The values of the profiles, of the provider's state and of the requests.
UserTypeOK ==
  /\ role \in [Users -> UserRoles \cup {"none"}]
  /\ active \subseteq {u \in Users : role[u] # "none"}
  /\ banned \subseteq Users /\ signedIn \subseteq Users
  /\ task \in [Handlers -> [at : TaskAt, whom : Users \cup {NoUser},
                        saw : UserRoles \cup {"none"}, want : Wishes,
                        locks : SUBSET Users]]
  /\ changes \in 0..MaxChanges
  /\ uncounted \in BOOLEAN
  /\ kept \subseteq Users /\ crossed \subseteq Users

\* However demotions and deactivations interleave, a super admin who can act is
\* left.  The ways around the count only: a target who became a super admin
\* after the request looked at her, and an account still being made, already a
\* super admin, that is undone or given its first role.
NeverStranded == uncounted \/ Usable # {}

\* An account that is switched off has no session, once the request that
\* switched it off has ended them or was seen to fail.
OffIsSignedOut ==
  \A u \in signedIn \ active :
    \/ u \in kept
    \/ \E t \in Handlers : task[t].whom = u /\ task[t].at = "revoke"

\* An account that is switched on can sign in: no ban is left on it by an
\* earlier switching off, unless a request's call failed or two requests
\* switched it at once.
OnIsNotBanned ==
  \A u \in active \cap banned :
    \/ u \in crossed
    \/ \E t \in Handlers : task[t].whom = u /\ task[t].at = "ban"

\* The actions on accounts, called at once and with calls to the provider that
\* fail: a super admin is left, and rows and provider agree on who may sign in.
UserPromises == UserTypeOK /\ NeverStranded /\ OffIsSignedOut /\ OnIsNotBanned
=============================================================================
