----------------------------- MODULE HostProofs -----------------------------
(***************************************************************************)
(* What a host keeps for everyone who signs in, for any number of people,  *)
(* records, replicas and releases: user administration (UserAccounts), who *)
(* is shown what (SectionAccess), the daily sweep (DailySchedule), and the *)
(* release scripts (Deployment).                                           *)
(***************************************************************************)
EXTENDS UserAccounts, SectionAccess, DailySchedule, Deployment, FiniteSetTheorems, TLAPS

-----------------------------------------------------------------------------
(***************************************************************************)
(* User administration (UserAccounts).  That a super admin is left is not  *)
(* inductive: what a request has locked is, until it writes, super admins  *)
(* who can act and are not its target.  Nor is that who is switched on has *)
(* no ban: a request that is to set one has its target switched off, or    *)
(* was crossed by another.                                                 *)
(***************************************************************************)
Task == [at : TaskAt, whom : Users \cup {NoUser}, saw : UserRoles \cup {"none"},
         want : Wishes, locks : SUBSET Users]

\* A request has a target; a new account is given a role; what it locked is usable
\* still.
TaskFits(t) ==
  /\ task[t].at # "none" => task[t].whom \in Users
  /\ task[t].at = "promote" => task[t].want \in UserRoles
  /\ task[t].at = "provider" => task[t].want = "password"
  /\ task[t].locks \subseteq Usable \ {task[t].whom}
  /\ task[t].at = "write" /\ TakesAway(task[t].saw, task[t].want) => task[t].locks # {}

\* Who a request is switching off is switched off, or two requests switched her.
SwitchesOff(t) ==
  task[t].at \in {"revoke", "ban"} /\ task[t].want = "off"
    => task[t].whom \notin active \/ task[t].whom \in crossed

UserInv == UserPromises /\ \A t \in Handlers : TaskFits(t) /\ SwitchesOff(t)


\* The requests keep their types.
TasksTyped == task \in [Handlers -> Task]

\* One request moves on, to hold some rows.
Moved(t, at, held) ==
  /\ task' \in [Handlers -> Task]
  /\ \A s \in Handlers \ {t} : task'[s] = task[s]
  /\ task'[t].at = at /\ task'[t].locks = held
  /\ task'[t].whom = task[t].whom /\ task'[t].saw = task[t].saw /\ task'[t].want = task[t].want

\* One request moves on, and no account changes.
LEMMA TaskMoved ==
  ASSUME TasksTyped, NEW t \in Handlers, NEW at \in TaskAt, NEW held \in SUBSET Users,
         task' = [task EXCEPT ![t] = [@ EXCEPT !.at = at, !.locks = held]]
  PROVE  Moved(t, at, held)
<1>1. task[t] \in Task
  BY DEF TasksTyped
<1> DEFINE new == [task[t] EXCEPT !.at = at, !.locks = held]
<1>3. /\ new \in Task /\ new.at = at /\ new.locks = held
      /\ new.whom = task[t].whom /\ new.saw = task[t].saw /\ new.want = task[t].want
  BY <1>1 DEF Task
<1>4. task' = [task EXCEPT ![t] = new]
  OBVIOUS
<1> HIDE DEF new
<1> QED
  BY <1>3, <1>4 DEF TasksTyped, Moved

\* A request ends.
LEMMA TaskEnded ==
  ASSUME TasksTyped, NEW t \in Handlers, TaskEnds(t)
  PROVE  /\ task' \in [Handlers -> Task] /\ \A s \in Handlers \ {t} : task'[s] = task[s]
         /\ task'[t].at = "none" /\ task'[t].locks = {} /\ task'[t].whom = NoUser
<1>1. NoTask \in Task /\ NoTask.at = "none" /\ NoTask.locks = {} /\ NoTask.whom = NoUser
  BY DEF NoTask, Task, TaskAt, Wishes, UserRoles, AdminRoles
<1> QED
  BY <1>1 DEF TasksTyped, TaskEnds

\* The types as the proofs use them.
LEMMA UserTypes ==
  UserTypeOK <=> /\ role \in [Users -> UserRoles \cup {"none"}]
                 /\ active \subseteq Users /\ (\A u \in active : role[u] # "none")
                 /\ banned \subseteq Users /\ signedIn \subseteq Users
                 /\ TasksTyped /\ changes \in 0..MaxChanges /\ uncounted \in BOOLEAN
                 /\ kept \subseteq Users /\ crossed \subseteq Users
  BY DEF UserTypeOK, TasksTyped, Task

\* What a step of one request owes, the others staying as they were.
LEMMA UserFrame ==
  ASSUME UserInv, UserTypeOK', NEW t \in Handlers,
         \A s \in Handlers \ {t} : task'[s] = task[s],
         TaskFits(t)', SwitchesOff(t)',
         \A s \in Handlers \ {t} : task[s].locks \subseteq Usable',
         crossed \subseteq crossed',
         \A s \in Handlers \ {t} :
           /\ task[s].at \in {"revoke", "ban"} /\ task[s].want = "off"
           /\ task[s].whom \in active' \ active
           => task[s].whom \in crossed',
         uncounted' \/ Usable' # {},
         \A u \in signedIn' \ active' :
           \/ u \in kept'
           \/ task'[t].whom = u /\ task'[t].at = "revoke"
           \/ u \in (signedIn \ active) \ kept /\ ~(task[t].whom = u /\ task[t].at = "revoke"),
         \A u \in active' \cap banned' :
           \/ u \in crossed'
           \/ task'[t].whom = u /\ task'[t].at = "ban"
           \/ u \in (active \cap banned) \ crossed /\ ~(task[t].whom = u /\ task[t].at = "ban")
  PROVE  UserInv'
<1>1. NeverStranded'
  BY DEF NeverStranded
<1>2. OffIsSignedOut'
  <2> SUFFICES ASSUME NEW u \in signedIn' \ active', u \notin kept',
                      ~(task'[t].whom = u /\ task'[t].at = "revoke")
               PROVE  \E s \in Handlers : task'[s].whom = u /\ task'[s].at = "revoke"
    BY DEF OffIsSignedOut
  <2>1. PICK s \in Handlers : task[s].whom = u /\ task[s].at = "revoke"
    BY DEF UserInv, UserPromises, OffIsSignedOut
  <2> QED
    BY <2>1
<1>3. OnIsNotBanned'
  <2> SUFFICES ASSUME NEW u \in active' \cap banned', u \notin crossed',
                      ~(task'[t].whom = u /\ task'[t].at = "ban")
               PROVE  \E s \in Handlers : task'[s].whom = u /\ task'[s].at = "ban"
    BY DEF OnIsNotBanned
  <2>1. PICK s \in Handlers : task[s].whom = u /\ task[s].at = "ban"
    BY DEF UserInv, UserPromises, OnIsNotBanned
  <2> QED
    BY <2>1
<1>4. ASSUME NEW s \in Handlers \ {t} PROVE TaskFits(s)' /\ SwitchesOff(s)'
  BY DEF UserInv, TaskFits, SwitchesOff
<1> QED
  BY <1>1, <1>2, <1>3, <1>4 DEF UserInv, UserPromises

\* The steps that write neither profiles nor provider.
LEMMA TaskOnlyInv ==
  ASSUME UserInv, NEW t \in Handlers, UNCHANGED <<role, active, banned, signedIn, uncounted>>,
         task' \in [Handlers -> Task], \A s \in Handlers \ {t} : task'[s] = task[s],
         TaskFits(t)', SwitchesOff(t)',
         changes' \in 0..MaxChanges, kept \subseteq kept', kept' \subseteq Users,
         crossed \subseteq crossed', crossed' \subseteq Users,
         task[t].at = "revoke" => task[t].whom \in kept',
         task[t].at = "ban" => task[t].whom \in crossed'
  PROVE  UserInv'
<1>1. UserTypeOK'
  BY UserTypes DEF UserInv, UserPromises, UserTypeOK, Task
<1>2. Usable' = Usable
  BY DEF Usable
<1>3. \A s \in Handlers : task[s].locks \subseteq Usable
  BY DEF UserInv, TaskFits
<1>4. uncounted \/ Usable # {}
  BY DEF UserInv, UserPromises, NeverStranded
<1> QED
  BY <1>1, <1>2, <1>3, <1>4, UserFrame


\* A request looks at its target.
LEMMA RequestInv ==
  ASSUME UserInv, NEW t \in Handlers, NEW a \in Users, NEW u \in Users, NEW want \in Wishes,
         Request(t, a, u, want)
  PROVE  UserInv'
<1>1. /\ UNCHANGED <<role, active, banned, signedIn, uncounted, kept, crossed>>
      /\ task[t].at = "none" /\ changes' \in 0..MaxChanges
  BY UserAssumption DEF Request, profiles, provider, excuses, UserInv, UserPromises, UserTypeOK
<1> DEFINE at == IF want = "password" THEN "provider"
                 ELSE IF TakesAway(role[u], want) THEN "count" ELSE "write"
<1>2. PICK new \in Task : /\ task' = [task EXCEPT ![t] = new]
                          /\ new.at \in {"provider", "count", "write"} /\ new.whom = u
                          /\ new.at = "write" => ~TakesAway(new.saw, new.want)
                          /\ new.locks = {} /\ (new.at = "provider" => new.want = "password")
  <2> DEFINE n == [at |-> at, whom |-> u, saw |-> role[u], want |-> want, locks |-> {}]
  <2>1. role[u] \in UserRoles \cup {"none"}
    BY UserTypes DEF UserInv, UserPromises
  <2>2. at \in {"provider", "count", "write"} /\ (at = "write" => ~TakesAway(role[u], want))
        /\ (at = "provider" => want = "password")
    OBVIOUS
  <2> HIDE DEF at
  <2>3. /\ n \in Task /\ n.at = at /\ n.whom = u /\ n.locks = {}
        /\ n.saw = role[u] /\ n.want = want
    BY <2>1, <2>2 DEF Task, TaskAt
  <2>4. task' = [task EXCEPT ![t] = n]
    BY DEF Request, at
  <2> HIDE DEF n
  <2> QED
    BY <2>2, <2>3, <2>4
<1>3. /\ task' \in [Handlers -> Task] /\ task'[t] = new
      /\ \A s \in Handlers \ {t} : task'[s] = task[s]
  BY <1>2, UserTypes DEF TasksTyped, UserInv, UserPromises
<1>4. TaskFits(t)' /\ SwitchesOff(t)'
  BY <1>2, <1>3 DEF TaskFits, SwitchesOff
<1> QED
  BY <1>1, <1>3, <1>4, TaskOnlyInv DEF UserInv, UserPromises, UserTypeOK

\* The count under locks.
LEMMA CountInv ==
  ASSUME UserInv, NEW t \in Handlers, CountSupers(t)
  PROVE  UserInv'
<1>1. /\ UNCHANGED <<role, active, banned, signedIn, uncounted, kept, crossed, changes>>
      /\ task[t].at = "count" /\ TasksTyped /\ Usable' = Usable
  BY UserTypes DEF CountSupers, profiles, provider, excuses, UserInv, UserPromises, Usable
<1>2. kept \subseteq Users /\ crossed \subseteq Users /\ changes \in 0..MaxChanges
  BY DEF UserInv, UserPromises, UserTypeOK
<1>3. CASE OtherSupers(t) = {}
  <2>1. TaskEnds(t)
    BY <1>3 DEF CountSupers
  <2>2. TaskFits(t)' /\ SwitchesOff(t)'
    BY <1>1, <2>1, TaskEnded DEF TaskFits, SwitchesOff
  <2> QED
    BY <1>1, <1>2, <2>1, <2>2, TaskEnded, TaskOnlyInv
<1>4. CASE OtherSupers(t) # {}
  <2>1. task' = [task EXCEPT ![t] = [@ EXCEPT !.at = "write", !.locks = ToLock(t)]]
    BY <1>4 DEF CountSupers
  <2>2. PICK held \in SUBSET Users : held = ToLock(t)
    BY DEF ToLock, OtherSupers, Usable, UserInv, UserPromises, UserTypeOK
  <2>3. Moved(t, "write", held)
    BY <1>1, <2>1, <2>2, TaskMoved DEF TaskAt
  <2>4. held # {} /\ held \subseteq Usable \ {task[t].whom}
    BY <1>4, <2>2 DEF ToLock, OtherSupers
  <2>5. TaskFits(t)' /\ SwitchesOff(t)'
    BY <1>1, <2>3, <2>4 DEF Moved, TaskFits, SwitchesOff, UserInv
  <2> QED
    BY <1>1, <1>2, <2>3, <2>5, TaskOnlyInv DEF Moved
<1> QED
  BY <1>3, <1>4

\* A password that is set, an account that is linked or cannot be, a death.
LEMMA GoesInv ==
  ASSUME UserInv, NEW t \in Handlers, SetPassword(t) \/ Link(t) \/ CreateUserFails(t) \/ TaskGivesUp(t)
  PROVE  UserInv'
<1>1. /\ UNCHANGED <<role, active, banned, signedIn, uncounted, changes>>
      /\ task[t].at # "none" /\ TasksTyped /\ Usable' = Usable
      /\ kept \subseteq kept' /\ crossed \subseteq crossed'
      /\ task[t].at = "revoke" => task[t].whom \in kept'
      /\ task[t].at = "ban" => task[t].whom \in crossed'
  BY UserTypes DEF SetPassword, Link, CreateUserFails, TaskGivesUp, profiles, provider, excuses,
                   UserInv, UserPromises, Usable
<1>2. kept' \subseteq Users /\ crossed' \subseteq Users /\ changes \in 0..MaxChanges
  BY <1>1 DEF UserInv, UserPromises, UserTypeOK, TaskFits,
              SetPassword, Link, CreateUserFails, TaskGivesUp, excuses
<1>3. CASE TaskEnds(t)
  <2>1. TaskFits(t)' /\ SwitchesOff(t)'
    BY <1>1, <1>3, TaskEnded DEF TaskFits, SwitchesOff
  <2> QED
    BY <1>1, <1>2, <1>3, <2>1, TaskEnded, TaskOnlyInv
<1>4. ASSUME NEW at \in {"revoke", "undo"}, TaskGoes(t, at), at = "revoke" => task[t].at = "provider"
      PROVE  UserInv'
  <2>1. Moved(t, at, {})
    BY <1>1, <1>4, TaskMoved DEF TaskGoes, TaskAt
  <2>2. TaskFits(t)' /\ SwitchesOff(t)'
    BY <1>1, <1>4, <2>1 DEF Moved, TaskFits, SwitchesOff, UserInv
  <2> QED
    BY <1>1, <1>2, <2>1, <2>2, TaskOnlyInv DEF Moved
<1> QED
  BY <1>3, <1>4 DEF SetPassword, Link, CreateUserFails, TaskGivesUp


\* A row that no other request has locked is written: what the others locked stays.
LEMMA OthersKeepLocks ==
  ASSUME UserInv, NEW t \in Handlers, NEW u, ~RowLocked(u, t),
         \A v \in Usable \ {u} : v \in Usable'
  PROVE  \A s \in Handlers \ {t} : task[s].locks \subseteq Usable'
BY DEF UserInv, TaskFits, RowLocked

\* The UPDATE: who is taken away was counted, and one of the others is locked.
LEMMA WriteInv ==
  ASSUME UserInv, NEW t \in Handlers, Write(t)
  PROVE  UserInv'
<1> DEFINE u == task[t].whom
           want == task[t].want
<1>1. /\ task[t].at = "write" /\ ~RowLocked(u, t) /\ TasksTyped /\ task[t] \in Task
      /\ UNCHANGED <<banned, signedIn, changes, kept>> /\ u \in Users /\ want \in Wishes
  BY UserTypes DEF Write, provider, UserInv, UserPromises, TaskFits, TasksTyped, Task
<1>2. /\ crossed \subseteq crossed' /\ crossed' \subseteq Users
      /\ want \in {"on", "off"} /\ Racing(t) => u \in crossed'
  BY <1>1 DEF Write, UserInv, UserPromises, UserTypeOK
<1>3. PICK at \in {"none", "revoke", "ban"} :
        /\ task' \in [Handlers -> Task] /\ \A s \in Handlers \ {t} : task'[s] = task[s]
        /\ task'[t].at = at /\ task'[t].locks = {}
        /\ at # "none" => task'[t].whom = u /\ task'[t].want = want
        /\ want = "off" => at = "revoke"
        /\ want = "on" => at = "ban"
  <2>1. CASE After(t) = "none"
    <3>1. TaskEnds(t) /\ want # "off" /\ want # "on"
      BY <2>1 DEF Write, After
    <3> QED
      BY <1>1, <3>1, TaskEnded
  <2>2. CASE After(t) # "none"
    <3>1. TaskGoes(t, After(t))
      BY <2>2 DEF Write
    <3>2. PICK at \in {"revoke", "ban"} : at = After(t)
      BY <2>2 DEF After
    <3>3. Moved(t, at, {})
      BY <1>1, <3>1, <3>2, TaskMoved DEF TaskGoes, TaskAt
    <3>4. (want = "off" => at = "revoke") /\ (want = "on" => at = "ban")
      BY <3>2 DEF After, IsDemotion, Staff
    <3> QED
      BY <3>3, <3>4 DEF Moved
  <2> QED
    BY <2>1, <2>2
<1>4. /\ role' \in [Users -> UserRoles \cup {"none"}]
      /\ active' \subseteq Users /\ (\A v \in active' : role'[v] # "none")
      /\ uncounted' \in BOOLEAN
      /\ \A v \in Users \ {u} : role'[v] = role[v] /\ (v \in active' <=> v \in active)
  <2>1. CASE Missing(u)
    BY <1>1, <2>1, UserTypes DEF Write, profiles, UserInv, UserPromises
  <2>2. CASE ~Missing(u)
    <3>1. /\ role' = [role EXCEPT ![u] = RoleWanted(t)] /\ active' = ActiveWanted(t)
          /\ uncounted' = (uncounted \/ /\ ~TakesAway(task[t].saw, want)
                                        /\ TakesAway(role[u], want))
      BY <2>2 DEF Write
    <3>2. RoleWanted(t) \in UserRoles /\ role[u] # "none"
      BY <1>1, <2>2, UserTypes DEF RoleWanted, Missing, UserInv, UserPromises
    <3>3. "none" \notin UserRoles
      BY DEF UserRoles, AdminRoles, Staff
    <3>4. ActiveWanted(t) \in {active, active \cup {u}, active \ {u}}
      BY DEF ActiveWanted
    <3> QED
      BY <1>1, <3>1, <3>2, <3>3, <3>4, UserTypes DEF UserInv, UserPromises
  <2> QED
    BY <2>1, <2>2
<1>5. UserTypeOK'
  BY <1>1, <1>2, <1>3, <1>4, UserTypes DEF UserInv, UserPromises, UserTypeOK, Task
<1>6. \A v \in Usable \ {u} : v \in Usable'
  BY <1>4, UserTypes DEF Usable, UserInv, UserPromises
<1>7. \/ UNCHANGED active
      \/ want = "on" /\ active' = active \cup {u}
      \/ want = "off" /\ active' = active \ {u}
  BY <1>1 DEF Write, ActiveWanted, profiles
<1>8. want = "off" => u \notin active'
  <2>1. Missing(u) => u \notin active
    BY <1>1, UserTypes DEF Missing, UserInv, UserPromises
  <2> QED
    BY <1>1, <2>1 DEF Write, ActiveWanted, profiles
<1>9. uncounted' \/ Usable' # {}
  <2>1. CASE uncounted
    BY <2>1 DEF Write
  <2>2. CASE TakesAway(task[t].saw, want)
    BY <1>1, <1>6, <2>2 DEF UserInv, TaskFits
  <2>3. CASE ~Missing(u) /\ ~TakesAway(task[t].saw, want) /\ TakesAway(role[u], want)
    BY <2>3 DEF Write
  <2>4. CASE ~uncounted /\ (Missing(u) \/ ~TakesAway(role[u], want))
    <3>1. u \in Usable => u \in Usable'
      <4> SUFFICES ASSUME u \in Usable
                   PROVE  u \in Usable'
        OBVIOUS
      <4>1. u \in active /\ role[u] = "super_admin" /\ ~Missing(u)
        BY DEF Usable, Missing
      <4>2. want \notin {Staff, "programme_admin", "off"}
        BY <2>4, <4>1 DEF TakesAway
      <4>3. RoleWanted(t) = "super_admin"
        BY <1>1, <4>1, <4>2 DEF RoleWanted, UserRoles, AdminRoles
      <4>4. role'[u] = "super_admin"
        BY <1>1, <4>1, <4>3, UserTypes DEF Write, UserInv, UserPromises
      <4> QED
        BY <1>7, <4>1, <4>2, <4>4 DEF Usable
    <3>2. Usable # {}
      BY <2>4 DEF UserInv, UserPromises, NeverStranded
    <3> QED
      BY <1>6, <3>1, <3>2
  <2> QED
    BY <2>1, <2>2, <2>3, <2>4
<1>10. TaskFits(t)' /\ SwitchesOff(t)'
  BY <1>1, <1>3, <1>8 DEF TaskFits, SwitchesOff
<1>11. \A s \in Handlers \ {t} :
         /\ task[s].at \in {"revoke", "ban"} /\ task[s].want = "off"
         /\ task[s].whom \in active' \ active
         => task[s].whom \in crossed'
  BY <1>2, <1>7 DEF Racing
<1>12. \A v \in signedIn' \ active' :
         \/ v \in kept'
         \/ task'[t].whom = v /\ task'[t].at = "revoke"
         \/ v \in (signedIn \ active) \ kept /\ ~(task[t].whom = v /\ task[t].at = "revoke")
  BY <1>1, <1>3, <1>7
<1>13. \A v \in active' \cap banned' :
         \/ v \in crossed'
         \/ task'[t].whom = v /\ task'[t].at = "ban"
         \/ v \in (active \cap banned) \ crossed /\ ~(task[t].whom = v /\ task[t].at = "ban")
  BY <1>1, <1>2, <1>3, <1>7
<1>14. \A s \in Handlers \ {t} : task[s].locks \subseteq Usable'
  BY <1>1, <1>6, OthersKeepLocks
<1> HIDE DEF u, want
<1> QED
  BY <1>2, <1>3, <1>5, <1>9, <1>10, <1>11, <1>12, <1>13, <1>14, UserFrame


\* The sessions are ended, or the call fails.
LEMMA RevokeInv ==
  ASSUME UserInv, NEW t \in Handlers, NEW ok \in BOOLEAN, Revoke(t, ok)
  PROVE  UserInv'
<1> DEFINE u == task[t].whom
<1>1. /\ task[t].at = "revoke" /\ TasksTyped /\ u \in Users
      /\ UNCHANGED <<role, active, banned, changes, uncounted, crossed>> /\ Usable' = Usable
      /\ signedIn' \subseteq signedIn /\ kept' \subseteq kept \cup {u} /\ kept \ {u} \subseteq kept'
      /\ u \in signedIn' => u \in kept'
  BY UserTypes DEF Revoke, profiles, UserInv, UserPromises, TaskFits, Usable
<1>2. /\ task' \in [Handlers -> Task] /\ (\A s \in Handlers \ {t} : task'[s] = task[s])
      /\ TaskFits(t)' /\ SwitchesOff(t)'
  <2>1. CASE TaskEnds(t)
    BY <1>1, <2>1, TaskEnded DEF TaskFits, SwitchesOff
  <2>2. CASE task[t].want = "off" /\ TaskGoes(t, "ban")
    <3>1. Moved(t, "ban", {})
      BY <1>1, <2>2, TaskMoved DEF TaskGoes, TaskAt
    <3> QED
      BY <1>1, <3>1 DEF Moved, TaskFits, SwitchesOff, UserInv
  <2> QED
    BY <2>1, <2>2 DEF Revoke
<1>3. UserTypeOK'
  BY <1>1, <1>2, UserTypes DEF UserInv, UserPromises, UserTypeOK, Task
<1>4. /\ \A s \in Handlers : task[s].locks \subseteq Usable
      /\ uncounted \/ Usable # {}
  BY DEF UserInv, UserPromises, TaskFits, NeverStranded
<1>5. \A v \in signedIn' \ active' :
         \/ v \in kept'
         \/ v \in (signedIn \ active) \ kept /\ ~(task[t].whom = v /\ task[t].at = "revoke")
  BY <1>1
<1>6. \A v \in active' \cap banned' :
         \/ v \in crossed'
         \/ v \in (active \cap banned) \ crossed /\ ~(task[t].whom = v /\ task[t].at = "ban")
  BY <1>1
<1> HIDE DEF u
<1> QED
  BY <1>1, <1>2, <1>3, <1>4, <1>5, <1>6, UserFrame

\* The ban is set or lifted, or the call fails.
LEMMA BanInv ==
  ASSUME UserInv, NEW t \in Handlers, NEW ok \in BOOLEAN, SetSignInBan(t, ok)
  PROVE  UserInv'
<1> DEFINE u == task[t].whom
<1>1. /\ task[t].at = "ban" /\ TasksTyped /\ u \in Users /\ TaskEnds(t)
      /\ UNCHANGED <<role, active, signedIn, changes, uncounted, kept>> /\ Usable' = Usable
      /\ banned' \in {banned, banned \cup {u}, banned \ {u}}
      /\ crossed' \in {crossed, crossed \cup {u}}
      /\ task[t].want = "off" \/ banned' = banned \ {u} \/ u \in crossed'
  BY UserTypes DEF SetSignInBan, BanWanted, profiles, UserInv, UserPromises, TaskFits, Usable
<1>2. /\ task' \in [Handlers -> Task] /\ (\A s \in Handlers \ {t} : task'[s] = task[s])
      /\ TaskFits(t)' /\ SwitchesOff(t)'
  BY <1>1, TaskEnded DEF TaskFits, SwitchesOff
<1>3. UserTypeOK'
  BY <1>1, <1>2, UserTypes DEF UserInv, UserPromises, UserTypeOK, Task
<1>4. /\ \A s \in Handlers : task[s].locks \subseteq Usable
      /\ uncounted \/ Usable # {}
  BY DEF UserInv, UserPromises, TaskFits, NeverStranded
<1>5. u \in active' \cap banned' => u \in crossed'
  BY <1>1 DEF UserInv, SwitchesOff
<1>6. \A v \in active' \cap banned' :
         \/ v \in crossed'
         \/ v \in (active \cap banned) \ crossed /\ ~(task[t].whom = v /\ task[t].at = "ban")
  BY <1>1, <1>5
<1>7. \A v \in signedIn' \ active' :
         \/ v \in kept'
         \/ v \in (signedIn \ active) \ kept /\ ~(task[t].whom = v /\ task[t].at = "revoke")
  BY <1>1
<1> HIDE DEF u
<1> QED
  BY <1>1, <1>2, <1>3, <1>4, <1>6, <1>7, UserFrame

\* An account's login is made; nobody else's request is about it.
LEMMA LoginInv ==
  ASSUME UserInv, NEW t \in Handlers, NEW a \in Users, NEW u \in Users, NEW r \in UserRoles,
         CreateUserLogin(t, a, u, r)
  PROVE  UserInv'
<1>1. /\ UNCHANGED <<active, banned, signedIn, uncounted, kept, crossed>>
      /\ task[t].at = "none" /\ changes' \in 0..MaxChanges
      /\ role[u] = "none" /\ role' = [role EXCEPT ![u] = Staff]
  BY UserAssumption DEF CreateUserLogin, provider, excuses, UserInv, UserPromises, UserTypeOK
<1>2. PICK new \in Task : /\ task' = [task EXCEPT ![t] = new] /\ new.at = "promote"
                          /\ new.whom = u /\ new.want \in UserRoles /\ new.locks = {}
  <2> DEFINE n == [at |-> "promote", whom |-> u, saw |-> Staff, want |-> r, locks |-> {}]
  <2>1. /\ n \in Task /\ n.at = "promote" /\ n.whom = u /\ n.want = r /\ n.locks = {}
    BY DEF Task, TaskAt, Wishes, UserRoles
  <2>2. task' = [task EXCEPT ![t] = n]
    BY DEF CreateUserLogin
  <2> HIDE DEF n
  <2> QED
    BY <2>1, <2>2
<1>3. /\ task' \in [Handlers -> Task] /\ task'[t] = new
      /\ \A s \in Handlers \ {t} : task'[s] = task[s]
  BY <1>2, UserTypes DEF TasksTyped, UserInv, UserPromises
<1>4. TaskFits(t)' /\ SwitchesOff(t)'
  BY <1>2, <1>3 DEF TaskFits, SwitchesOff
<1>5. /\ role' \in [Users -> UserRoles \cup {"none"}] /\ role'[u] # "none"
      /\ \A v \in Users \ {u} : role'[v] = role[v]
  BY <1>1, UserTypes DEF UserRoles, Staff, UserInv, UserPromises
<1>6. u \notin active
  BY <1>1, UserTypes DEF UserInv, UserPromises
<1>7. UserTypeOK'
  BY <1>1, <1>3, <1>5, UserTypes DEF UserInv, UserPromises, UserTypeOK, Task
<1>8. Usable' = Usable
  BY <1>1, <1>5, <1>6, UserTypes DEF Usable, UserInv, UserPromises
<1>9. /\ \A s \in Handlers : task[s].locks \subseteq Usable
      /\ uncounted \/ Usable # {}
  BY DEF UserInv, UserPromises, TaskFits, NeverStranded
<1> QED
  BY <1>1, <1>3, <1>4, <1>7, <1>8, <1>9, UserFrame

\* The profile is made what was asked for.
LEMMA PromoteInv ==
  ASSUME UserInv, NEW t \in Handlers, Promote(t)
  PROVE  UserInv'
<1> DEFINE u == task[t].whom
<1>1. /\ task[t].at = "promote" /\ TasksTyped /\ u \in Users /\ ~RowLocked(u, t)
      /\ UNCHANGED <<banned, signedIn, changes, kept>> /\ active' = active \cup {u}
      /\ role' = [role EXCEPT ![u] = task[t].want] /\ task[t].want \in UserRoles
      /\ crossed \subseteq crossed' /\ crossed' \subseteq crossed \cup {u}
      /\ u \in banned \/ Racing(t) => u \in crossed'
  BY UserTypes DEF Promote, provider, UserInv, UserPromises, TaskFits
<1>2. Moved(t, "link", {})
  BY <1>1, TaskMoved DEF Promote, TaskGoes, TaskAt
<1>3. TaskFits(t)' /\ SwitchesOff(t)'
  BY <1>1, <1>2 DEF Moved, TaskFits, SwitchesOff
<1>4. /\ role' \in [Users -> UserRoles \cup {"none"}] /\ role'[u] = task[t].want
      /\ \A v \in Users \ {u} : role'[v] = role[v]
  BY <1>1, UserTypes DEF UserInv, UserPromises
<1>5. UserTypeOK'
  <2>1. "none" \notin UserRoles
    BY DEF UserRoles, AdminRoles, Staff
  <2>2. active' \subseteq Users /\ \A v \in active' : role'[v] # "none"
    BY <1>1, <1>4, <2>1, UserTypes DEF UserInv, UserPromises
  <2>3. uncounted' \in BOOLEAN
    BY DEF Promote
  <2> QED
    BY <1>1, <1>2, <1>4, <2>2, <2>3, UserTypes DEF Moved, UserInv, UserPromises, UserTypeOK, Task
<1>6. \A v \in Usable \ {u} : v \in Usable'
  BY <1>1, <1>4, UserTypes DEF Usable, UserInv, UserPromises
<1>7. \A s \in Handlers \ {t} : task[s].locks \subseteq Usable'
  BY <1>1, <1>6, OthersKeepLocks
<1>8. uncounted' \/ Usable' # {}
  <2>1. CASE uncounted \/ (u \in Usable /\ task[t].want # "super_admin")
    BY <2>1 DEF Promote
  <2>2. CASE ~uncounted /\ (u \in Usable => task[t].want = "super_admin")
    <3>1. u \in Usable => u \in Usable'
      BY <1>1, <1>4, <2>2 DEF Usable
    <3>2. Usable # {}
      BY <2>2 DEF UserInv, UserPromises, NeverStranded
    <3> QED
      BY <1>6, <3>1, <3>2
  <2> QED
    BY <2>1, <2>2
<1>9. \A s \in Handlers \ {t} :
         /\ task[s].at \in {"revoke", "ban"} /\ task[s].want = "off"
         /\ task[s].whom \in active' \ active
         => task[s].whom \in crossed'
  BY <1>1 DEF Racing
<1>10. \A v \in signedIn' \ active' :
         v \in kept' \/ (v \in (signedIn \ active) \ kept
                          /\ ~(task[t].whom = v /\ task[t].at = "revoke"))
  BY <1>1
<1>11. \A v \in active' \cap banned' :
         v \in crossed' \/ (v \in (active \cap banned) \ crossed
                             /\ ~(task[t].whom = v /\ task[t].at = "ban"))
  BY <1>1
<1> HIDE DEF u
<1> QED
  BY <1>1, <1>2, <1>3, <1>5, <1>7, <1>8, <1>9, <1>10, <1>11, UserFrame DEF Moved

\* A new account is undone.
LEMMA RollbackInv ==
  ASSUME UserInv, NEW t \in Handlers, RollbackNewAccount(t)
  PROVE  UserInv'
<1> DEFINE u == task[t].whom
<1>1. /\ task[t].at = "undo" /\ TasksTyped /\ u \in Users /\ ~RowLocked(u, t) /\ TaskEnds(t)
      /\ UNCHANGED <<changes, kept, crossed>> /\ active' = active \ {u}
      /\ role' = [role EXCEPT ![u] = "none"]
      /\ signedIn' = signedIn \ {u} /\ banned' = banned \ {u}
      /\ uncounted' = (uncounted \/ u \in Usable)
  BY UserTypes DEF RollbackNewAccount, UserInv, UserPromises, TaskFits
<1>2. /\ task' \in [Handlers -> Task] /\ (\A s \in Handlers \ {t} : task'[s] = task[s])
      /\ TaskFits(t)' /\ SwitchesOff(t)'
  BY <1>1, TaskEnded DEF TaskFits, SwitchesOff
<1>3. /\ role' \in [Users -> UserRoles \cup {"none"}]
      /\ \A v \in Users \ {u} : role'[v] = role[v]
  BY <1>1, UserTypes DEF UserInv, UserPromises
<1>4. UserTypeOK'
  BY <1>1, <1>2, <1>3, UserTypes DEF UserInv, UserPromises, UserTypeOK, Task
<1>5. \A v \in Usable \ {u} : v \in Usable'
  BY <1>1, <1>3, UserTypes DEF Usable, UserInv, UserPromises
<1>6. \A s \in Handlers \ {t} : task[s].locks \subseteq Usable'
  BY <1>1, <1>5, OthersKeepLocks
<1>7. uncounted' \/ Usable' # {}
  <2>1. uncounted \/ Usable # {}
    BY DEF UserInv, UserPromises, NeverStranded
  <2> QED
    BY <1>1, <1>5, <2>1
<1>8. /\ \A v \in signedIn' \ active' :
           v \in kept' \/ (v \in (signedIn \ active) \ kept
                            /\ ~(task[t].whom = v /\ task[t].at = "revoke"))
      /\ \A v \in active' \cap banned' :
           v \in crossed' \/ (v \in (active \cap banned) \ crossed
                               /\ ~(task[t].whom = v /\ task[t].at = "ban"))
      /\ active' \ active = {}
  BY <1>1
<1> HIDE DEF u
<1> QED
  BY <1>1, <1>2, <1>4, <1>6, <1>7, <1>8, UserFrame

\* The provider signs in who is active.
LEMMA SignInInv ==
  ASSUME UserInv, NEW u \in Users, SignIn(u)
  PROVE  UserInv'
<1>1. /\ UNCHANGED <<role, active, banned, task, changes, uncounted, kept, crossed>>
      /\ u \in active /\ signedIn' = signedIn \cup {u}
  BY DEF SignIn, profiles, excuses
<1>2. UserPromises'
  BY <1>1 DEF UserInv, UserPromises, UserTypeOK, NeverStranded, Usable, OffIsSignedOut, OnIsNotBanned
<1>3. \A t \in Handlers : TaskFits(t)' /\ SwitchesOff(t)'
  BY <1>1 DEF UserInv, TaskFits, SwitchesOff, Usable
<1> QED
  BY <1>2, <1>3 DEF UserInv

\* The seed: one super admin, nothing under way.
LEMMA UserInitInv == UserInit => UserInv
<1> SUFFICES ASSUME UserInit
             PROVE  UserInv
  OBVIOUS
<1>1. NoTask \in Task /\ NoTask.at = "none" /\ NoTask.locks = {}
  BY DEF NoTask, Task, TaskAt, Wishes, UserRoles, AdminRoles
<1>2. TasksTyped /\ \A t \in Handlers : task[t] = NoTask
  BY <1>1 DEF UserInit, TasksTyped
<1>3. role \in [Users -> UserRoles \cup {"none"}] /\ role[Founder] = "super_admin"
  BY UserAssumption DEF UserInit, Initially, UserRoles, AdminRoles
<1>4. UserTypeOK
  <2>1. active \subseteq Users /\ \A u \in active : role[u] # "none"
    BY <1>3, UserAssumption DEF UserInit
  <2>2. 0 \in 0..MaxChanges
    BY UserAssumption
  <2> QED
    BY <1>2, <1>3, <2>1, <2>2, UserTypes DEF UserInit
<1>5. NeverStranded /\ OffIsSignedOut /\ OnIsNotBanned
  BY <1>3 DEF UserInit, NeverStranded, Usable, OffIsSignedOut, OnIsNotBanned
<1>6. \A t \in Handlers : TaskFits(t) /\ SwitchesOff(t)
  BY <1>1, <1>2 DEF TaskFits, SwitchesOff
<1> QED
  BY <1>4, <1>5, <1>6 DEF UserInv, UserPromises

\* Every step of a request, and a sign-in, keeps it.
LEMMA UserStepInv == UserInv /\ [UserNext]_userVars => UserInv'
<1> SUFFICES ASSUME UserInv, [UserNext]_userVars
             PROVE  UserInv'
  OBVIOUS
<1>1. CASE UNCHANGED userVars
  <2>1. UNCHANGED <<role, active, banned, signedIn, task, changes, uncounted, kept, crossed>>
    BY <1>1 DEF userVars
  <2>2. UserPromises'
    BY <2>1 DEF UserInv, UserPromises, UserTypeOK, NeverStranded, Usable, OffIsSignedOut,
                OnIsNotBanned
  <2>3. \A t \in Handlers : TaskFits(t)' /\ SwitchesOff(t)'
    BY <2>1 DEF UserInv, TaskFits, SwitchesOff, Usable
  <2> QED
    BY <2>2, <2>3 DEF UserInv
<1>2. ASSUME NEW t \in Handlers, NEW ok \in BOOLEAN, Revoke(t, ok) \/ SetSignInBan(t, ok)
      PROVE  UserInv'
  BY <1>2, RevokeInv, BanInv
<1>3. ASSUME NEW t \in Handlers,
             \/ CountSupers(t) \/ Write(t) \/ Promote(t) \/ RollbackNewAccount(t)
             \/ SetPassword(t) \/ Link(t) \/ CreateUserFails(t) \/ TaskGivesUp(t)
      PROVE  UserInv'
  BY <1>3, CountInv, WriteInv, PromoteInv, RollbackInv, GoesInv
<1> QED
  BY <1>1, <1>2, <1>3, RequestInv, LoginInv, SignInInv DEF UserNext

\* However administrators' requests interleave, fail or die: a super admin who can
\* act is left, and rows and provider agree on who may sign in.
THEOREM UsersKeepPromises == UserSpec => []UserPromises
<1>1. UserInv => UserPromises
  BY DEF UserInv
<1> QED
  BY <1>1, UserInitInv, UserStepInv, PTL DEF UserSpec

-----------------------------------------------------------------------------
(***************************************************************************)
(* Who may see which record (SectionAccess).  A page is put together from  *)
(* several reads: after each, the invariant says what it has kept of the   *)
(* moment it read, and the ghosts carry that to the moment it is served.   *)
(***************************************************************************)
Shown == SUBSET (Cycles \cup Videos)

Page == [of : People \cup {NoPerson}, kind : {"none", "cycles", "library", "video"},
         at : {"idle", "grants", "mentees", "cycles", "pairings", "query", "edges", "gate", "served"},
         mentees : SUBSET Rows, cycles : SUBSET Cycles, pairings : SUBSET Pairings,
         locked : SUBSET Sections, shown : Shown, saw : Shown, free : Shown, always : Shown]

\* A cycle was seen, and so was every video attached to it.
Sees(c) ==
  c \in page.saw /\ \A v \in Videos : Context[v].type = "observation_cycle" /\ Context[v].of = c
                                       => v \in page.saw

\* A video that a reader of this role sees by its cycle.
ByCycle(v) ==
  Context[v].type = "observation_cycle" /\ SubmittedBy[v] # page.of /\ ~IsAdmin(page.of)

\* The cycles a list must have had: those visible all the while, and those of
\* videos that were.
Wanted == {c \in Cycles : \/ c \in page.always
                          \/ \E v \in Videos \cap page.always : ByCycle(v) /\ Context[v].of = c}

Is(kind, ats) == page.kind = kind /\ page.at \in ats

\* The ghosts are of this moment, too.
GhostsFollow ==
  Rendering => /\ Visible(page.of) \subseteq page.saw /\ Free(page.of) \subseteq page.free
               /\ page.always \subseteq Visible(page.of) \cap Free(page.of)

\* What a page has read of the mentees, the grants, the cycles and the pairings.
MenteesFit ==
  Is("cycles", {"query"}) \/ Is("library", {"cycles", "pairings", "grants", "query"}) =>
    /\ \A c \in Cycles : CycleTeacher[c] \in page.mentees => Sees(c)
    /\ Role[page.of] = "mentor" => \A c \in Wanted : CycleTeacher[c] \in page.mentees

CyclesFit ==
  Is("library", {"pairings", "grants", "query"}) =>
    (\A c \in page.cycles : Sees(c)) /\ Wanted \subseteq page.cycles

PairingsFit ==
  Is("library", {"grants", "query"}) =>
    page.pairings = IF Role[page.of] = "mentor"
                      THEN {q \in Pairings : PairMentor[q] = MentorOf[page.of]} ELSE {}

GrantsFit ==
  /\ Is("cycles", {"mentees", "query"}) => Cycles \subseteq page.free
  /\ Is("library", {"query"}) =>
       \A v \in Videos : /\ NotHidden(v) => v \in page.free
                         /\ v \in page.always => NotHidden(v)

EdgesFit == Is("video", {"gate"}) => page.shown \subseteq page.saw \cap Videos

\* Nothing is shown before the last read.
NothingYet ==
  page.at \in {"grants", "mentees", "cycles", "pairings", "query", "edges"} => page.shown = {}

PageFits ==
  /\ page \in Page /\ (page.at # "idle" => page.of \in People)
  /\ \/ page.at = "idle"
     \/ Is("cycles", {"grants", "mentees", "query", "served"})
     \/ Is("library", {"mentees", "cycles", "pairings", "grants", "query", "served"})
     \/ Is("video", {"edges", "gate", "served"})
  /\ GhostsFollow /\ MenteesFit /\ CyclesFit /\ PairingsFit /\ GrantsFit /\ EdgesFit
  /\ NothingYet

AccessInv == AccessTypeOK /\ ServedWasVisible /\ NothingMissed /\ PageFits


\* What the two kinds of record check have in common: the tables as they are typed.
Tables ==
  /\ observerOf \in [Cycles -> People] /\ activePair \subseteq Pairings
  /\ unlocked \subseteq People \X Sections /\ moves \in 0..MaxMoves

\* The list predicate, role by role.
LEMMA ScopeOf ==
  ASSUME NEW p \in People, NEW mentees
  PROVE  /\ Role[p] \in {"admin", "observer", "teacher", "mentor"}
         /\ Role[p] = "admin" => CycleScope(p, mentees) = Cycles
         /\ Role[p] = "observer" => CycleScope(p, mentees) = {c \in Cycles : observerOf[c] = p}
         /\ Role[p] = "teacher"
              => CycleScope(p, mentees) = {c \in Cycles : TeacherOf[p] = CycleTeacher[c]}
         /\ Role[p] = "mentor"
              => CycleScope(p, mentees) = {c \in Cycles : CycleTeacher[c] \in mentees}
BY AccessAssumption DEF CycleScope

\* A mentor's mentees are the teachers an active pairing opens to her.
LEMMA MenteesArePaired ==
  ASSUME Tables, NEW m, m # NoProfile, NEW x
  PROVE  /\ x \in MenteesOf(m) <=> PairedWith(m, x)
         /\ MenteesOf(m) \subseteq Rows
BY AccessAssumption DEF MenteesOf, PairedWith, Tables

\* What a video is gated by is sections.
LEMMA GatesAreSections == \A v : GateOf(v) \subseteq Sections
BY DEF GateOf, Sections

\* At one moment the list is the records that open.
LEMMA ScopeIsRecord ==
  ASSUME Tables, NEW p \in People
  PROVE  CycleScope(p, IF MentorOf[p] = NoProfile THEN {} ELSE MenteesOf(MentorOf[p]))
           = {c \in Cycles : CanAccessCycle(p, c)}
<1> DEFINE mentees == IF MentorOf[p] = NoProfile THEN {} ELSE MenteesOf(MentorOf[p])
<1>1. \A x : x \in mentees <=> PairedWith(MentorOf[p], x)
  BY MenteesArePaired DEF PairedWith
<1> HIDE DEF mentees
<1>2. CycleScope(p, mentees) = {c \in Cycles : CanAccessCycle(p, c)}
  BY <1>1, ScopeOf DEF CanAccessCycle, IsAdmin
<1> QED
  BY <1>2 DEF mentees

\* What opens now is seen, with the videos attached to it.
LEMMA SeesNow ==
  ASSUME Visible(page.of) \subseteq page.saw, NEW c \in Cycles, CanAccessCycle(page.of, c)
  PROVE  Sees(c)
BY DEF Sees, Visible, CanAccessVideo

\* What a list must have had opens now.
LEMMA WantedOpens ==
  ASSUME GhostsFollow, Rendering, NEW c \in Wanted
  PROVE  CanAccessCycle(page.of, c)
<1>1. c \in Cycles /\ page.always \subseteq Visible(page.of)
  BY DEF Wanted, GhostsFollow
<1>2. CASE c \in page.always
  BY <1>1, <1>2, AccessAssumption DEF Visible
<1>3. CASE \E v \in Videos \cap page.always : ByCycle(v) /\ Context[v].of = c
  <2>1. PICK v \in Videos \cap page.always : ByCycle(v) /\ Context[v].of = c
    BY <1>3
  <2>2. CanAccessVideo(page.of, v)
    BY <1>1, <2>1, AccessAssumption DEF Visible
  <2> QED
    BY <2>1, <2>2 DEF ByCycle, CanAccessVideo
<1> QED
  BY <1>2, <1>3 DEF Wanted

\* A step that only reads leaves what is visible as it was.
LEMMA ReadFrame ==
  ASSUME AccessInv, Rendering, UNCHANGED <<observerOf, activePair, unlocked, moves>>, page' \in Page,
         page'.of = page.of, page'.kind = page.kind, page'.saw = page.saw,
         page'.free = page.free, page'.always = page.always
  PROVE  /\ Tables /\ Tables' /\ page.of \in People /\ page \in Page /\ GhostsFollow'
         /\ Visible(page.of) \subseteq page.saw /\ Free(page.of) \subseteq page.free
         /\ page.always \subseteq Visible(page.of) \cap Free(page.of)
         /\ (\A c : Sees(c)' <=> Sees(c)) /\ Wanted' = Wanted
<1>1. Tables /\ Tables' /\ page.of \in People /\ page \in Page
  BY DEF AccessInv, AccessTypeOK, Tables, PageFits, Rendering
<1>2. \A p : Visible(p)' = Visible(p) /\ Free(p)' = Free(p)
  BY DEF Visible, Free, CanAccessCycle, CanAccessVideo, CanAccessPairing, PairedWith, IsAdmin,
         Ungated
<1>3. /\ Visible(page.of) \subseteq page.saw /\ Free(page.of) \subseteq page.free
      /\ page.always \subseteq Visible(page.of) \cap Free(page.of)
  BY DEF AccessInv, PageFits, GhostsFollow
<1>4. Visible(page.of)' = Visible(page.of) /\ Free(page.of)' = Free(page.of)
  BY DEF Visible, Free, CanAccessCycle, CanAccessVideo, CanAccessPairing, PairedWith, IsAdmin,
         Ungated
<1>5. GhostsFollow'
  BY <1>3, <1>4 DEF GhostsFollow
<1>6. Wanted' = Wanted /\ \A c : Sees(c)' <=> Sees(c)
  BY DEF Wanted, ByCycle, Sees
<1> QED
  BY <1>1, <1>3, <1>5, <1>6


\* The mentees are read.
LEMMA ReadMenteesInv ==
  ASSUME AccessInv, ReadMentees
  PROVE  AccessInv'
<1> DEFINE m == IF Role[page.of] = "mentor" /\ MentorOf[page.of] # NoProfile
                  THEN MenteesOf(MentorOf[page.of]) ELSE {}
           a == IF page.kind = "cycles" THEN "query" ELSE "cycles"
<1>1. /\ page.at = "mentees" /\ UNCHANGED <<observerOf, activePair, unlocked, moves>>
      /\ page' = [page EXCEPT !.mentees = m, !.at = a]
      /\ Tables /\ page \in Page /\ page.of \in People /\ Rendering
      /\ page.kind \in {"cycles", "library"}
  BY DEF ReadMentees, Reads, AccessInv, AccessTypeOK, Tables, PageFits, Rendering, Is
<1>2. m \subseteq Rows /\ \A x : x \in m => Role[page.of] = "mentor" /\ PairedWith(MentorOf[page.of], x)
  BY <1>1, MenteesArePaired
<1>3. Role[page.of] = "mentor" => \A x : PairedWith(MentorOf[page.of], x) => x \in m
  BY <1>1, MenteesArePaired DEF PairedWith
<1>4. a \in {"query", "cycles"} /\ (page.kind = "cycles" <=> a = "query")
  OBVIOUS
<1> HIDE DEF m, a
<1>5. /\ page' \in Page /\ page'.at = a /\ page'.mentees = m
      /\ page'.of = page.of /\ page'.kind = page.kind /\ page'.shown = page.shown
      /\ page'.saw = page.saw /\ page'.free = page.free /\ page'.always = page.always
  BY <1>1, <1>2, <1>4 DEF Page
<1>6. /\ Tables' /\ GhostsFollow' /\ Visible(page.of) \subseteq page.saw
      /\ (\A c : Sees(c)' <=> Sees(c)) /\ Wanted' = Wanted
  BY <1>1, <1>5, ReadFrame
<1>7. MenteesFit'
  <2>1. ASSUME NEW c \in Cycles, CycleTeacher[c] \in m PROVE Sees(c)
    <3>1. CanAccessCycle(page.of, c)
      BY <1>2, <2>1 DEF CanAccessCycle
    <3> QED
      BY <1>6, <3>1, SeesNow
  <2>2. ASSUME Role[page.of] = "mentor", NEW c \in Wanted PROVE CycleTeacher[c] \in m
    <3>1. CanAccessCycle(page.of, c)
      BY <1>1, <2>2, WantedOpens DEF AccessInv, PageFits
    <3> QED
      BY <1>3, <2>2, <3>1 DEF CanAccessCycle, IsAdmin
  <2> QED
    BY <1>5, <1>6, <2>1, <2>2 DEF MenteesFit
<1>8. GrantsFit'
  BY <1>1, <1>4, <1>5 DEF GrantsFit, Is, AccessInv, PageFits
<1>9. CyclesFit' /\ PairingsFit' /\ EdgesFit' /\ NothingYet'
  BY <1>1, <1>4, <1>5 DEF CyclesFit, PairingsFit, EdgesFit, NothingYet, Is, AccessInv, PageFits
<1>10. AccessTypeOK' /\ ServedWasVisible' /\ NothingMissed'
  BY <1>4, <1>5, <1>6 DEF AccessTypeOK, ServedWasVisible, NothingMissed, Tables, Page, Shown
<1> QED
  BY <1>1, <1>4, <1>5, <1>6, <1>7, <1>8, <1>9, <1>10 DEF AccessInv, PageFits, Is

\* The library reads the ids of the cycles.
LEMMA ReadCyclesInv ==
  ASSUME AccessInv, ReadCycles
  PROVE  AccessInv'
<1> DEFINE m == CycleScope(page.of, page.mentees)
<1>1. /\ page.at = "cycles" /\ UNCHANGED <<observerOf, activePair, unlocked, moves>>
      /\ page' = [page EXCEPT !.cycles = m, !.at = "pairings"]
      /\ Tables /\ page \in Page /\ page.of \in People /\ Rendering
      /\ page.kind = "library"
  BY DEF ReadCycles, Reads, AccessInv, AccessTypeOK, Tables, PageFits, Rendering, Is
<1>2. MenteesFit /\ Is("library", {"cycles"})
  BY <1>1 DEF AccessInv, PageFits, Is
<1>3. m \subseteq Cycles
  BY <1>1, ScopeOf
<1>4. ASSUME NEW c \in m PROVE CanAccessCycle(page.of, c) \/ CycleTeacher[c] \in page.mentees
  BY <1>1, <1>4, ScopeOf DEF CanAccessCycle, IsAdmin
<1>5. ASSUME NEW c \in Wanted PROVE c \in m
  <2>1. CanAccessCycle(page.of, c) /\ c \in Cycles
    BY <1>1, <1>5, WantedOpens DEF AccessInv, PageFits, Wanted
  <2>2. Role[page.of] = "mentor" => CycleTeacher[c] \in page.mentees
    BY <1>2, <1>5 DEF MenteesFit, Is
  <2> QED
    BY <1>1, <2>1, <2>2, ScopeOf DEF CanAccessCycle, IsAdmin
<1> HIDE DEF m
<1>6. /\ page' \in Page /\ page'.at = "pairings" /\ page'.cycles = m /\ page'.mentees = page.mentees
      /\ page'.of = page.of /\ page'.kind = page.kind /\ page'.shown = page.shown
      /\ page'.saw = page.saw /\ page'.free = page.free /\ page'.always = page.always
  BY <1>1, <1>3 DEF Page
<1>7. /\ Tables' /\ GhostsFollow' /\ Visible(page.of) \subseteq page.saw
      /\ (\A c : Sees(c)' <=> Sees(c)) /\ Wanted' = Wanted
  BY <1>1, <1>6, ReadFrame
<1>8. CyclesFit'
  <2>1. ASSUME NEW c \in m PROVE Sees(c)
    BY <1>2, <1>3, <1>4, <1>7, <2>1, SeesNow DEF MenteesFit, Is
  <2> QED
    BY <1>5, <1>6, <1>7, <2>1 DEF CyclesFit
<1>9. MenteesFit'
  BY <1>2, <1>6, <1>7 DEF MenteesFit, Is
<1>10. PairingsFit' /\ GrantsFit' /\ EdgesFit' /\ NothingYet'
  BY <1>1, <1>6 DEF PairingsFit, GrantsFit, EdgesFit, NothingYet, Is, AccessInv, PageFits
<1>11. AccessTypeOK' /\ ServedWasVisible' /\ NothingMissed'
  BY <1>6, <1>7 DEF AccessTypeOK, ServedWasVisible, NothingMissed, Tables, Page, Shown
<1> QED
  BY <1>1, <1>6, <1>7, <1>8, <1>9, <1>10, <1>11 DEF AccessInv, PageFits, Is

\* A mentor's pairings are read.
LEMMA ReadPairingsInv ==
  ASSUME AccessInv, ReadPairings
  PROVE  AccessInv'
<1> DEFINE m == IF Role[page.of] = "mentor"
                  THEN {q \in Pairings : PairMentor[q] = MentorOf[page.of]} ELSE {}
<1>1. /\ page.at = "pairings" /\ UNCHANGED <<observerOf, activePair, unlocked, moves>>
      /\ page' = [page EXCEPT !.pairings = m, !.at = "grants"]
      /\ Tables /\ page \in Page /\ page.of \in People /\ Rendering
      /\ page.kind = "library"
  BY DEF ReadPairings, Reads, AccessInv, AccessTypeOK, Tables, PageFits, Rendering, Is
<1>2. MenteesFit /\ CyclesFit /\ m \subseteq Pairings
  BY <1>1 DEF AccessInv, PageFits
<1>3. PairingsFit' <=> (Is("library", {"grants", "query"})' => page'.pairings
                          = IF Role[page'.of] = "mentor"
                              THEN {q \in Pairings : PairMentor[q] = MentorOf[page'.of]} ELSE {})
  BY DEF PairingsFit
<1>4. m = IF Role[page.of] = "mentor"
            THEN {q \in Pairings : PairMentor[q] = MentorOf[page.of]} ELSE {}
  OBVIOUS
<1> HIDE DEF m
<1>5. /\ page' \in Page /\ page'.at = "grants" /\ page'.pairings = m
      /\ page'.cycles = page.cycles /\ page'.mentees = page.mentees
      /\ page'.of = page.of /\ page'.kind = page.kind /\ page'.shown = page.shown
      /\ page'.saw = page.saw /\ page'.free = page.free /\ page'.always = page.always
  BY <1>1, <1>2 DEF Page
<1>6. /\ Tables' /\ GhostsFollow' /\ (\A c : Sees(c)' <=> Sees(c)) /\ Wanted' = Wanted
  BY <1>1, <1>5, ReadFrame
<1>7. PairingsFit'
  BY <1>3, <1>4, <1>5
<1>8. MenteesFit' /\ CyclesFit'
  BY <1>1, <1>2, <1>5, <1>6 DEF MenteesFit, CyclesFit, Is
<1>9. GrantsFit' /\ EdgesFit' /\ NothingYet'
  BY <1>1, <1>5 DEF GrantsFit, EdgesFit, NothingYet, Is, AccessInv, PageFits
<1>10. AccessTypeOK' /\ ServedWasVisible' /\ NothingMissed'
  BY <1>5, <1>6 DEF AccessTypeOK, ServedWasVisible, NothingMissed, Tables, Page, Shown
<1> QED
  BY <1>1, <1>5, <1>6, <1>7, <1>8, <1>9, <1>10 DEF AccessInv, PageFits, Is


\* The grants are read: a list of cycles goes on only with the section's.
LEMMA ReadGrantsInv ==
  ASSUME AccessInv, ReadGrants
  PROVE  AccessInv'
<1> DEFINE m == LockedFor(page.of)
           a == IF page.kind = "library" THEN "query"
                ELSE IF "observation" \in m THEN "served" ELSE "mentees"
<1>1. /\ page.at = "grants" /\ UNCHANGED <<observerOf, activePair, unlocked, moves>>
      /\ page' = [page EXCEPT !.locked = m, !.at = a]
      /\ Tables /\ page \in Page /\ page.of \in People /\ Rendering
      /\ page.kind \in {"cycles", "library"}
  BY DEF ReadGrants, Reads, AccessInv, AccessTypeOK, Tables, PageFits, Rendering, Is
<1>2. m \subseteq Sections /\ \A s \in Sections : s \in m <=> <<page.of, s>> \notin unlocked
  BY DEF LockedFor
<1>3. /\ a \in {"query", "served", "mentees"} /\ (page.kind = "library" <=> a = "query")
      /\ a = "served" => "observation" \in m
      /\ a = "mentees" => "observation" \notin m
  OBVIOUS
<1>4. "observation" \in Sections
  BY DEF Sections
<1> HIDE DEF m, a
<1>5. /\ page' \in Page /\ page'.at = a /\ page'.locked = m /\ page'.pairings = page.pairings
      /\ page'.cycles = page.cycles /\ page'.mentees = page.mentees
      /\ page'.of = page.of /\ page'.kind = page.kind /\ page'.shown = page.shown
      /\ page'.saw = page.saw /\ page'.free = page.free /\ page'.always = page.always
  BY <1>1, <1>2, <1>3 DEF Page
<1>6. /\ Tables' /\ GhostsFollow' /\ (\A c : Sees(c)' <=> Sees(c)) /\ Wanted' = Wanted
      /\ Free(page.of) \subseteq page.free /\ page.always \subseteq Free(page.of)
  BY <1>1, <1>5, ReadFrame
<1>7. page.shown = {}
  BY <1>1 DEF AccessInv, PageFits, NothingYet
<1>8. GrantsFit'
  <2>1. CASE a = "mentees"
    <3>1. <<page.of, "observation">> \in unlocked
      BY <1>2, <1>3, <1>4, <2>1
    <3>2. Cycles \subseteq Free(page.of)
      BY <3>1 DEF Free
    <3> QED
      BY <1>3, <1>5, <1>6, <2>1, <3>2 DEF GrantsFit, Is
  <2>2. CASE a = "query"
    <3>1. ASSUME NEW v \in Videos PROVE Ungated(page.of, v) <=> NotHidden(v)'
      BY <1>2, <1>5, GatesAreSections DEF Ungated, NotHidden
    <3>2. \A v \in Videos : v \in Free(page.of) <=> Ungated(page.of, v)
      BY AccessAssumption DEF Free
    <3> QED
      BY <1>3, <1>5, <1>6, <2>2, <3>1, <3>2 DEF GrantsFit, Is
  <2>3. CASE a = "served"
    BY <1>5, <2>3 DEF GrantsFit, Is
  <2> QED
    BY <1>3, <2>1, <2>2, <2>3
<1>9. MenteesFit' /\ CyclesFit' /\ PairingsFit' /\ EdgesFit' /\ NothingYet'
  BY <1>1, <1>3, <1>5, <1>6, <1>7 DEF MenteesFit, CyclesFit, PairingsFit, EdgesFit, NothingYet, Is,
                                      AccessInv, PageFits
<1>10. AccessTypeOK' /\ ServedWasVisible' /\ NothingMissed'
  <2>1. AccessTypeOK'
    BY <1>5, <1>6 DEF AccessTypeOK, Tables, Page, Shown
  <2>2. CASE a = "served"
    <3>1. <<page.of, "observation">> \notin unlocked /\ page.kind = "cycles"
      BY <1>1, <1>2, <1>3, <1>4, <2>2
    <3>2. page.always \cap Cycles = {}
      BY <1>6, <3>1, AccessAssumption DEF Free
    <3> QED
      BY <1>5, <1>7, <2>1, <3>1, <3>2 DEF ServedWasVisible, NothingMissed
  <2>3. CASE a # "served"
    BY <1>5, <2>1, <2>3 DEF ServedWasVisible, NothingMissed
  <2> QED
    BY <2>2, <2>3
<1> QED
  BY <1>1, <1>3, <1>5, <1>6, <1>8, <1>9, <1>10 DEF AccessInv, PageFits, Is

\* The list is made, of what was read and of what opens now.
LEMMA QueryInv ==
  ASSUME AccessInv, Query
  PROVE  AccessInv'
<1> DEFINE m == IF page.kind = "cycles" THEN CycleScope(page.of, page.mentees)
                 ELSE {v \in Videos : InLibrary(v) /\ NotHidden(v)}
<1>1. /\ page.at = "query" /\ UNCHANGED <<observerOf, activePair, unlocked, moves>>
      /\ page' = [page EXCEPT !.shown = m, !.at = "served"]
      /\ Tables /\ page \in Page /\ page.of \in People /\ Rendering
      /\ page.kind \in {"cycles", "library"}
  BY DEF Query, Reads, AccessInv, AccessTypeOK, Tables, PageFits, Rendering, Is
<1>2. /\ page.kind = "cycles" => m = CycleScope(page.of, page.mentees)
      /\ page.kind = "library" => m = {v \in Videos : InLibrary(v) /\ NotHidden(v)}
      /\ m \subseteq Cycles \cup Videos
  BY <1>1, ScopeOf
<1> HIDE DEF m
<1>3. /\ page' \in Page /\ page'.at = "served" /\ page'.shown = m
      /\ page'.of = page.of /\ page'.kind = page.kind
      /\ page'.locked = page.locked /\ page'.mentees = page.mentees
      /\ page'.saw = page.saw /\ page'.free = page.free /\ page'.always = page.always
  BY <1>1, <1>2 DEF Page, Shown
<1>4. /\ Tables' /\ GhostsFollow' /\ Visible(page.of) \subseteq page.saw
      /\ page.always \subseteq Visible(page.of)
  BY <1>1, <1>3, ReadFrame
<1>5. ASSUME page.kind = "cycles" PROVE ServedWasVisible' /\ NothingMissed'
  <2>1. MenteesFit /\ GrantsFit /\ Is("cycles", {"query"})
    BY <1>1, <1>5 DEF AccessInv, PageFits, Is
  <2>2. ASSUME NEW c \in m PROVE c \in page.saw \cap page.free
    <3>1. c \in Cycles
      BY <1>1, <1>2, <1>5, <2>2, ScopeOf
    <3>2. CanAccessCycle(page.of, c) \/ CycleTeacher[c] \in page.mentees
      BY <1>1, <1>2, <1>5, <2>2, ScopeOf DEF CanAccessCycle, IsAdmin
    <3>3. Sees(c)
      BY <1>4, <2>1, <3>1, <3>2, SeesNow DEF MenteesFit
    <3> QED
      BY <2>1, <3>1, <3>3 DEF GrantsFit, Sees, Is
  <2>3. ASSUME NEW c \in page.always \cap Cycles PROVE c \in m
    <3>1. c \in Wanted
      BY <2>3 DEF Wanted
    <3>2. CanAccessCycle(page.of, c)
      BY <1>1, <3>1, WantedOpens DEF AccessInv, PageFits
    <3>3. Role[page.of] = "mentor" => CycleTeacher[c] \in page.mentees
      BY <2>1, <3>1 DEF MenteesFit
    <3> QED
      BY <1>1, <1>2, <1>5, <2>3, <3>2, <3>3, ScopeOf DEF CanAccessCycle, IsAdmin
  <2> QED
    BY <1>3, <1>5, <2>2, <2>3 DEF ServedWasVisible, NothingMissed
<1>6. ASSUME page.kind = "library" PROVE ServedWasVisible' /\ NothingMissed'
  <2>1. CyclesFit /\ PairingsFit /\ GrantsFit /\ Is("library", {"query"})
    BY <1>1, <1>6 DEF AccessInv, PageFits, Is
  <2>2. ASSUME NEW v \in m PROVE v \in page.saw \cap page.free
    <3>1. v \in Videos /\ InLibrary(v) /\ NotHidden(v)
      BY <1>2, <1>6, <2>2
    <3>2. v \in page.free
      <4>1. \A w \in Videos : NotHidden(w) => w \in page.free
        BY <2>1 DEF GrantsFit
      <4> QED
        BY <3>1, <4>1
    <3>3. CASE Context[v].type = "observation_cycle" /\ Context[v].of \in page.cycles
      BY <2>1, <3>1, <3>2, <3>3 DEF CyclesFit, Is, Sees
    <3>4. CASE /\ Context[v].type \in {"mentee_quarterly", "mentor_meeting"}
               /\ Context[v].of \in page.pairings
      <4>1. Role[page.of] = "mentor" /\ PairMentor[Context[v].of] = MentorOf[page.of]
        BY <2>1, <3>4 DEF PairingsFit, Is
      <4>2. CanAccessVideo(page.of, v)
        BY <3>4, <4>1 DEF CanAccessVideo, CanAccessPairing
      <4> QED
        BY <1>4, <3>1, <3>2, <4>2 DEF Visible
    <3>5. CASE \/ IsAdmin(page.of) \/ SubmittedBy[v] = page.of
               \/ Context[v].type = "teach_back" /\ Role[page.of] \in {"mentor", "observer"}
               \/ /\ Context[v].type = "classroom_session" /\ Role[page.of] = "teacher"
                  /\ TeacherOf[page.of] = Context[v].of
      BY <1>4, <3>1, <3>2, <3>5 DEF Visible, CanAccessVideo
    <3> QED
      BY <3>1, <3>2, <3>3, <3>4, <3>5 DEF InLibrary
  <2>3. ASSUME NEW v \in page.always \cap Videos, v \notin Unlisted(page.of) PROVE v \in m
    <3>1. CanAccessVideo(page.of, v)
      BY <1>4, <2>3, AccessAssumption DEF Visible
    <3>2. NotHidden(v)
      BY <2>1, <2>3 DEF GrantsFit, Is
    <3>3. ASSUME ByCycle(v) PROVE Context[v].of \in page.cycles
      <4>1. Context[v].of \in Cycles
        BY <2>3, <3>3, AccessAssumption DEF ByCycle
      <4>2. Context[v].of \in Wanted
        BY <2>3, <3>3, <4>1 DEF Wanted
      <4> QED
        BY <2>1, <4>2 DEF CyclesFit, Is
    <3>4. ASSUME Context[v].type \in {"mentee_quarterly", "mentor_meeting"},
                 CanAccessPairing(page.of, Context[v].of), SubmittedBy[v] # page.of, ~IsAdmin(page.of)
          PROVE  Context[v].of \in page.pairings
      <4>1. Context[v].of \in Pairings
        BY <2>3, <3>4, AccessAssumption
      <4>2. Role[page.of] = "mentor" /\ MentorOf[page.of] = PairMentor[Context[v].of]
        BY <2>3, <3>4 DEF Unlisted, CanAccessPairing
      <4> QED
        BY <2>1, <4>1, <4>2 DEF PairingsFit, Is
    <3>5. InLibrary(v)
      BY <3>1, <3>3, <3>4 DEF InLibrary, CanAccessVideo, ByCycle
    <3> QED
      BY <1>2, <1>6, <2>3, <3>2, <3>5
  <2> QED
    BY <1>3, <1>6, <2>2, <2>3 DEF ServedWasVisible, NothingMissed, Unlisted
<1>7. AccessTypeOK'
  BY <1>3, <1>4 DEF AccessTypeOK, Tables, Page, Shown
<1>8. MenteesFit' /\ CyclesFit' /\ PairingsFit' /\ GrantsFit' /\ EdgesFit' /\ NothingYet'
  BY <1>3 DEF MenteesFit, CyclesFit, PairingsFit, GrantsFit, EdgesFit, NothingYet, Is
<1> QED
  BY <1>1, <1>3, <1>4, <1>5, <1>6, <1>7, <1>8 DEF AccessInv, PageFits, Is

\* One video is checked, its row and then its section's grant.
LEMMA CheckVideoInv ==
  ASSUME AccessInv, NEW v \in Videos, CheckVideo(v)
  PROVE  AccessInv'
<1>1. /\ page.at = "edges" /\ UNCHANGED <<observerOf, activePair, unlocked, moves>>
      /\ Tables /\ page \in Page /\ page.of \in People /\ Rendering /\ page.kind = "video"
      /\ page.shown = {}
  BY DEF CheckVideo, Reads, AccessInv, AccessTypeOK, Tables, PageFits, Rendering, Is, NothingYet
<1>2. PICK m \in SUBSET Videos, a \in {"gate", "served"} :
        /\ page' = [page EXCEPT !.shown = m, !.at = a]
        /\ a = "served" => m = {}
        /\ m \subseteq {v} /\ (m # {} => CanAccessVideo(page.of, v))
  <2>1. CASE CanAccessVideo(page.of, v)
    BY <2>1 DEF CheckVideo, Reads
  <2>2. CASE ~CanAccessVideo(page.of, v)
    <3>1. page' = [page EXCEPT !.at = "served"]
      BY <2>2 DEF CheckVideo, Reads
    <3>2. page = [page EXCEPT !.shown = {}]
      BY <1>1 DEF Page
    <3> QED
      BY <3>1, <3>2
  <2> QED
    BY <2>1, <2>2
<1>3. /\ page' \in Page /\ page'.at = a /\ page'.shown = m
      /\ page'.of = page.of /\ page'.kind = page.kind
      /\ page'.locked = page.locked /\ page'.mentees = page.mentees
      /\ page'.saw = page.saw /\ page'.free = page.free /\ page'.always = page.always
  BY <1>1, <1>2 DEF Page, Shown
<1>4. /\ Tables' /\ GhostsFollow' /\ Visible(page.of) \subseteq page.saw
  BY <1>1, <1>3, ReadFrame
<1>5. EdgesFit'
  BY <1>2, <1>3, <1>4 DEF EdgesFit, Visible
<1>6. MenteesFit' /\ CyclesFit' /\ PairingsFit' /\ GrantsFit' /\ NothingYet'
  BY <1>1, <1>3 DEF MenteesFit, CyclesFit, PairingsFit, GrantsFit, NothingYet, Is
<1>7. AccessTypeOK' /\ ServedWasVisible' /\ NothingMissed'
  BY <1>1, <1>2, <1>3, <1>4 DEF AccessTypeOK, ServedWasVisible, NothingMissed, Tables, Page, Shown
<1> QED
  BY <1>1, <1>3, <1>4, <1>5, <1>6, <1>7 DEF AccessInv, PageFits, Is

\* A page has its gates' answers and renders, or is refused.
LEMMA CheckGateInv ==
  ASSUME AccessInv, CheckGate
  PROVE  AccessInv'
<1>1. /\ page.at = "gate" /\ UNCHANGED <<observerOf, activePair, unlocked, moves>>
      /\ Tables /\ page \in Page /\ page.of \in People /\ Rendering /\ page.kind = "video"
      /\ page.shown \subseteq page.saw \cap Videos
  BY DEF CheckGate, Reads, AccessInv, AccessTypeOK, Tables, PageFits, Rendering, Is, EdgesFit
<1> DEFINE m == {v \in page.shown : Ungated(page.of, v)}
<1>2. page' = [page EXCEPT !.shown = m, !.at = "served"]
  BY DEF CheckGate, Reads
<1>3. m \subseteq page.saw \cap Videos /\ m \subseteq Free(page.of)
  BY <1>1 DEF Free
<1> HIDE DEF m
<1>4. /\ page' \in Page /\ page'.at = "served" /\ page'.shown = m
      /\ page'.of = page.of /\ page'.kind = page.kind
      /\ page'.locked = page.locked /\ page'.mentees = page.mentees
      /\ page'.saw = page.saw /\ page'.free = page.free /\ page'.always = page.always
  BY <1>1, <1>2, <1>3 DEF Page, Shown
<1>5. Tables' /\ GhostsFollow' /\ Free(page.of) \subseteq page.free
  BY <1>1, <1>4, ReadFrame
<1>6. MenteesFit' /\ CyclesFit' /\ PairingsFit' /\ GrantsFit' /\ EdgesFit' /\ NothingYet'
  BY <1>4 DEF MenteesFit, CyclesFit, PairingsFit, GrantsFit, EdgesFit, NothingYet, Is
<1>7. AccessTypeOK' /\ ServedWasVisible' /\ NothingMissed'
  BY <1>1, <1>3, <1>4, <1>5 DEF AccessTypeOK, ServedWasVisible, NothingMissed, Tables, Page, Shown
<1> QED
  BY <1>1, <1>4, <1>5, <1>6, <1>7 DEF AccessInv, PageFits, Is

\* A page that was sent, or not asked for.
LEMMA BlankFits == Tables /\ page = Blank => AccessInv
<1> SUFFICES ASSUME Tables, page = Blank
             PROVE  AccessInv
  OBVIOUS
<1>1. /\ Blank \in Page /\ Blank.at = "idle" /\ Blank.shown = {} /\ Blank.locked = {}
      /\ Blank.mentees = {}
  BY DEF Blank, Page, Shown
<1>2. AccessTypeOK /\ ServedWasVisible /\ NothingMissed
  BY <1>1 DEF AccessTypeOK, Tables, ServedWasVisible, NothingMissed
<1> QED
  BY <1>1, <1>2 DEF AccessInv, PageFits, GhostsFollow, Rendering, MenteesFit, CyclesFit, PairingsFit,
                    GrantsFit, EdgesFit, NothingYet, Is

\* A page is asked for.
LEMMA OpenPageInv ==
  ASSUME AccessInv, NEW p \in People, NEW kind \in {"cycles", "library", "video"}, OpenPage(p, kind)
  PROVE  AccessInv'
<1> DEFINE vis == Visible(p)
           fre == Free(p)
           a   == FirstRead(kind)
           new == [Blank EXCEPT !.of = p, !.kind = kind, !.at = a,
                     !.saw = vis, !.free = fre, !.always = vis \cap fre]
<1>1. Tables /\ UNCHANGED <<observerOf, activePair, unlocked, moves>> /\ page' = new
  BY DEF OpenPage, Tables, AccessInv, AccessTypeOK
<1>2. vis \in Shown /\ fre \in Shown
  BY DEF Visible, Free, Shown
<1>3. /\ a \in {"grants", "mentees", "edges"} /\ (kind = "cycles" <=> a = "grants")
      /\ kind = "library" <=> a = "mentees"
      /\ kind = "video" <=> a = "edges"
  BY DEF FirstRead
<1>4. vis = Visible(p)' /\ fre = Free(p)'
  BY <1>1 DEF Visible, Free, CanAccessCycle, CanAccessVideo, CanAccessPairing, PairedWith, IsAdmin,
              Ungated
<1>5. Blank \in Page /\ Blank.shown = {}
  BY DEF Blank, Page, Shown
<1> HIDE DEF vis, fre, a
<1>6. /\ page' \in Page /\ page'.of = p /\ page'.kind = kind /\ page'.at = a /\ page'.shown = {}
      /\ page'.saw = vis /\ page'.free = fre /\ page'.always = vis \cap fre
  BY <1>1, <1>2, <1>3, <1>5 DEF Page, Shown
<1> HIDE DEF new
<1>7. GhostsFollow'
  BY <1>4, <1>6 DEF GhostsFollow
<1>8. MenteesFit' /\ CyclesFit' /\ PairingsFit' /\ GrantsFit' /\ EdgesFit' /\ NothingYet'
  BY <1>3, <1>6 DEF MenteesFit, CyclesFit, PairingsFit, GrantsFit, EdgesFit, NothingYet, Is
<1>9. AccessTypeOK' /\ ServedWasVisible' /\ NothingMissed'
  BY <1>1, <1>3, <1>6 DEF AccessTypeOK, ServedWasVisible, NothingMissed, Tables, Page, Shown
<1> QED
  BY <1>3, <1>6, <1>7, <1>8, <1>9 DEF AccessInv, PageFits, Is


\* Something changes while a page may be rendered: the ghosts follow, and what the
\* page has read it keeps.
LEMMA MoveInv ==
  ASSUME AccessInv, Tables', Noted, page.at # "served"
  PROVE  AccessInv'
<1>1. Tables /\ page \in Page
  BY DEF AccessInv, AccessTypeOK, Tables, PageFits
<1>2. CASE ~Rendering
  <2>1. page' = page /\ page.at = "idle"
    BY <1>2 DEF Noted, Rendering
  <2>2. AccessTypeOK' /\ ServedWasVisible' /\ NothingMissed'
    BY <2>1 DEF AccessInv, AccessTypeOK, Tables, ServedWasVisible, NothingMissed
  <2> QED
    BY <1>1, <2>1, <2>2 DEF AccessInv, PageFits, GhostsFollow, Rendering, MenteesFit, CyclesFit,
                            PairingsFit, GrantsFit, EdgesFit, NothingYet, Is
<1>3. CASE Rendering
  <2> DEFINE p == page.of
  <2>1. PICK vis \in Shown, fre \in Shown :
          /\ vis = Visible(page.of)' /\ fre = Free(page.of)'
          /\ page' = [page EXCEPT !.saw = @ \cup vis, !.free = @ \cup fre,
                                  !.always = @ \cap (vis \cap fre)]
          /\ page'.of = page.of
    <3>1. PICK q \in {page.of} :
            page' = [page EXCEPT !.saw    = @ \cup Visible(q)',
                                 !.free   = @ \cup Free(q)',
                                 !.always = @ \cap (Visible(q) \cap Free(q))']
      BY <1>3 DEF Noted
    <3>2. Visible(q)' \in Shown /\ Free(q)' \in Shown
      BY DEF Visible, Free, Shown
    <3>3. page'.of = page.of
      BY <1>1, <3>1 DEF Page
    <3>4. page'.of = q
      BY <3>1, <3>3
    <3>5. \A k \in Cycles : CanAccessCycle(page.of, k)' <=> CanAccessCycle(q, k)'
      BY <3>4 DEF CanAccessCycle, PairedWith, IsAdmin
    <3>6. \A v \in Videos : CanAccessVideo(page.of, v)' <=> CanAccessVideo(q, v)'
      BY <3>4 DEF CanAccessVideo, CanAccessCycle, CanAccessPairing, PairedWith, IsAdmin
    <3>7. Visible(page.of)' = Visible(q)'
      BY <3>5, <3>6 DEF Visible
    <3>8. Free(page.of)' = Free(q)'
      BY <3>4 DEF Free, Ungated
    <3> QED
      BY <3>1, <3>2, <3>3, <3>7, <3>8
  <2> DEFINE s == page.saw \cup vis
             f == page.free \cup fre
             w == page.always \cap (vis \cap fre)
  <2>10. /\ s \in Shown /\ f \in Shown /\ w \in Shown
         /\ page' = [page EXCEPT !.saw = s, !.free = f, !.always = w]
    BY <1>1, <2>1 DEF Page, Shown
  <2> HIDE DEF s, f, w
  <2>11. /\ page' \in Page /\ page'.kind = page.kind /\ page'.at = page.at
         /\ page'.mentees = page.mentees /\ page'.cycles = page.cycles
         /\ page'.pairings = page.pairings /\ page'.locked = page.locked
         /\ page'.shown = page.shown /\ page'.saw = s /\ page'.free = f /\ page'.always = w
    BY <1>1, <2>10 DEF Page
  <2>2. /\ page' \in Page /\ page'.kind = page.kind /\ page'.at = page.at
        /\ page'.mentees = page.mentees /\ page'.cycles = page.cycles
        /\ page'.pairings = page.pairings /\ page'.locked = page.locked /\ page'.shown = page.shown
        /\ page'.saw = page.saw \cup vis /\ page'.free = page.free \cup fre
        /\ page'.always = page.always \cap (vis \cap fre)
    BY <2>11 DEF s, f, w
  <2>3. GhostsFollow'
    BY <2>1, <2>2 DEF GhostsFollow
  <2>4. Wanted' \subseteq Wanted /\ \A c : Sees(c) => Sees(c)'
    BY <2>1, <2>2 DEF Wanted, ByCycle, Sees
  <2>5. MenteesFit' /\ CyclesFit'
    BY <2>1, <2>2, <2>4 DEF MenteesFit, CyclesFit, Is, AccessInv, PageFits
  <2>6. PairingsFit' /\ NothingYet' /\ EdgesFit'
    BY <2>1, <2>2 DEF PairingsFit, NothingYet, EdgesFit, Is, AccessInv, PageFits
  <2>7. GrantsFit'
    BY <2>1, <2>2 DEF GrantsFit, Is, NotHidden, AccessInv, PageFits
  <2>8. AccessTypeOK' /\ ServedWasVisible' /\ NothingMissed'
    BY <2>2 DEF AccessTypeOK, ServedWasVisible, NothingMissed, Tables, Page, Shown
  <2>9. page'.of \in People
    BY <1>3, <2>1 DEF AccessInv, PageFits, Rendering
  <2> QED
    BY <2>2, <2>3, <2>5, <2>6, <2>7, <2>8, <2>9 DEF AccessInv, PageFits, Is
<1> QED
  BY <1>2, <1>3

\* Every change and every read keeps it.
LEMMA AccessStepInv == AccessInv /\ [AccessNext]_accessVars => AccessInv'
<1> SUFFICES ASSUME AccessInv, [AccessNext]_accessVars
             PROVE  AccessInv'
  OBVIOUS
<1>1. Tables
  BY DEF AccessInv, AccessTypeOK, Tables
<1>2. ASSUME NEW q \in Pairings, SetPairing(q) PROVE AccessInv'
  <2>1. Tables'
    BY <1>1, <1>2, AccessAssumption DEF SetPairing, Move, Tables
  <2> QED
    BY <1>2, <2>1, MoveInv DEF SetPairing, Move
<1>3. ASSUME NEW c \in Cycles, NEW p \in People, Reassign(c, p) PROVE AccessInv'
  <2>1. Tables'
    BY <1>1, <1>3, AccessAssumption DEF Reassign, Move, Tables
  <2> QED
    BY <1>3, <2>1, MoveInv DEF Reassign, Move
<1>4. ASSUME NEW p \in People, NEW s \in Sections, SetGrant(p, s) PROVE AccessInv'
  <2>1. Tables'
    BY <1>1, <1>4, AccessAssumption DEF SetGrant, Move, Tables
  <2> QED
    BY <1>4, <2>1, MoveInv DEF SetGrant, Move
<1>5. CASE ClosePage
  <2>1. Tables' /\ (page = Blank)'
    BY <1>1, <1>5 DEF ClosePage, Reads, Tables, Blank
  <2>2. (Tables /\ page = Blank => AccessInv)'
    BY BlankFits, PTL
  <2> QED
    BY <2>1, <2>2
<1>6. CASE UNCHANGED accessVars
  <2>1. UNCHANGED <<observerOf, activePair, unlocked, page, moves>>
    BY <1>6 DEF accessVars
  <2>2. \A p : Visible(p)' = Visible(p) /\ Free(p)' = Free(p)
    BY <2>1 DEF Visible, Free, CanAccessCycle, CanAccessVideo, CanAccessPairing, PairedWith, IsAdmin,
                Ungated
  <2>3. Wanted' = Wanted /\ \A c : Sees(c)' <=> Sees(c)
    BY <2>1 DEF Wanted, ByCycle, Sees
  <2>4. AccessTypeOK' /\ ServedWasVisible' /\ NothingMissed'
    BY <2>1 DEF AccessInv, AccessTypeOK, ServedWasVisible, NothingMissed, Unlisted
  <2>5. GhostsFollow'
    <3>1. Visible(page.of)' = Visible(page.of) /\ Free(page.of)' = Free(page.of)
      BY <2>1 DEF Visible, Free, CanAccessCycle, CanAccessVideo, CanAccessPairing, PairedWith,
                  IsAdmin, Ungated
    <3> QED
      BY <2>1, <3>1 DEF AccessInv, PageFits, GhostsFollow, Rendering
  <2>6. MenteesFit' /\ CyclesFit'
    BY <2>1, <2>3 DEF MenteesFit, CyclesFit, Is, AccessInv, PageFits
  <2>7. PairingsFit' /\ GrantsFit' /\ EdgesFit' /\ NothingYet'
    BY <2>1 DEF PairingsFit, GrantsFit, EdgesFit, NothingYet, NotHidden, Is, AccessInv, PageFits
  <2> QED
    BY <2>1, <2>4, <2>5, <2>6, <2>7 DEF AccessInv, PageFits, Is
<1> QED
  BY <1>2, <1>3, <1>4, <1>5, <1>6, OpenPageInv, ReadMenteesInv, ReadCyclesInv, ReadPairingsInv,
     ReadGrantsInv, QueryInv, CheckVideoInv, CheckGateInv DEF AccessNext

\* Whatever changes between the reads of a page, it shows only what its reader could
\* see and had unlocked since it was asked for, misses nothing she could see all the
\* while, and at one moment lists and records agree.
THEOREM AccessKeepsPromises == AccessSpec => []AccessPromises
<1>1. AccessInit => AccessInv
  <2> SUFFICES ASSUME AccessInit
               PROVE  AccessInv
    OBVIOUS
  <2>1. Tables
    BY AccessAssumption DEF AccessInit, Tables
  <2> QED
    BY <2>1, BlankFits DEF AccessInit
<1>2. AccessInv => AccessPromises
  <2> SUFFICES ASSUME AccessInv
               PROVE  AccessPromises
    OBVIOUS
  <2>1. Tables /\ page \in Page
    BY DEF AccessInv, AccessTypeOK, Tables, PageFits
  <2>2. ListMirrorsRecord
    <3> SUFFICES ASSUME NEW p \in {page.of} \ {NoPerson}
                 PROVE  CycleScope(p, IF MentorOf[p] = NoProfile THEN {} ELSE MenteesOf(MentorOf[p]))
                          = {c \in Cycles : CanAccessCycle(p, c)}
      BY DEF ListMirrorsRecord
    <3>1. p \in People
      BY <2>1 DEF Page
    <3> QED
      BY <2>1, <3>1, ScopeIsRecord
  <2> QED
    BY <2>2 DEF AccessInv, AccessPromises
<1> QED
  BY <1>1, <1>2, AccessStepInv, PTL DEF AccessSpec

-----------------------------------------------------------------------------
(***************************************************************************)
(* The daily schedule (DailySchedule).  That a day's sweep is enqueued     *)
(* once holds because no job is pruned on its own day: it ended after the  *)
(* day's hour, and is kept until the day is over.  That no day is missed   *)
(* holds because a replica that has had its tick found the sweep, enqueued *)
(* it, or failed to.                                                       *)
(***************************************************************************)
Worker == [up : BOOLEAN, due : BOOLEAN, inserts : BOOLEAN, for : Dates, sees : BOOLEAN]
DayJob == [is : {"none", "queued", "running", "succeeded", "dead"}, ended : Nat]

\* When the sweep of a day may run.
Its(d) == d * HoursADay + RetentionHour

\* An INSERT is of today's sweep, and saw a job if it was told of one.
InsertFits(w) ==
  replica[w].inserts => /\ replica[w].for = Today /\ Due
                        /\ replica[w].sees => enqueued[Today] > 0

\* After its tick, past the hour.
TickDone(w) == replica[w].up /\ ~replica[w].due /\ Due => enqueued[Today] > 0 \/ Today \in slept

SweepFits(d) ==
  /\ sweep[d].is # "none" => enqueued[d] > 0
  /\ sweep[d].is \in {"succeeded", "dead"} => sweep[d].ended >= Its(d)
  /\ sweep[d].is = "none" /\ enqueued[d] > 0 => d < Today

ScheduleInv ==
  /\ SchedulePromises
  /\ \A w \in Replicas : InsertFits(w) /\ TickDone(w)
  /\ \A d \in Dates : SweepFits(d)


\* Midnights are a day's hours apart.
LEMMA DaysApart == ASSUME NEW a \in Nat, NEW b \in Nat, a < b
                   PROVE  a * HoursADay + HoursADay <= b * HoursADay
<1> DEFINE between == b - a - 1
<1>1. HoursADay \in Nat
  BY ScheduleAssumption
<1>2. between \in Nat /\ b = a + between + 1
  OBVIOUS
<1>3. b * HoursADay = a * HoursADay + between * HoursADay + HoursADay
  BY <1>1, <1>2
<1>4. between * HoursADay >= 0
  BY <1>1, <1>2
<1> QED
  BY <1>1, <1>2, <1>3, <1>4

\* An hour is of a day, and of an hour of it.
LEMMA ClockReads == ASSUME NEW h \in Nat
                    PROVE  /\ h \div HoursADay \in Nat
                           /\ h % HoursADay \in 0..(HoursADay - 1)
                           /\ h = (h \div HoursADay) * HoursADay + (h % HoursADay)
<1>1. HoursADay \in Nat /\ HoursADay > 0
  BY ScheduleAssumption
<1>2. h \div HoursADay \in Nat
  BY <1>1, Z3
<1>3. h % HoursADay \in 0..(HoursADay - 1)
  BY <1>1
<1>4. h = HoursADay * (h \div HoursADay) + (h % HoursADay)
  BY <1>1
<1> QED
  BY <1>1, <1>2, <1>3, <1>4

\* An hour later it is the same day, or the day's last hour is over.
LEMMA DayTurns == ASSUME NEW h \in Nat
                  PROVE  \/ (h + 1) \div HoursADay = h \div HoursADay
                         \/ /\ (h + 1) \div HoursADay = (h \div HoursADay) + 1
                            /\ h % HoursADay = HoursADay - 1
<1> DEFINE a == h \div HoursADay
           b == (h + 1) \div HoursADay
           r == h % HoursADay
           s == (h + 1) % HoursADay
<1>0. HoursADay \in Nat /\ HoursADay > 0
  BY ScheduleAssumption
<1>1. a \in Nat /\ r \in 0..(HoursADay - 1) /\ h = a * HoursADay + r
  BY ClockReads
<1>2. b \in Nat /\ s \in 0..(HoursADay - 1) /\ h + 1 = b * HoursADay + s
  BY ClockReads
<1>3. b < a => b * HoursADay + HoursADay <= a * HoursADay
  BY <1>1, <1>2, DaysApart
<1>4. a < b => a * HoursADay + HoursADay <= b * HoursADay
  BY <1>1, <1>2, DaysApart
<1>5. a + 1 < b => (a + 1) * HoursADay + HoursADay <= b * HoursADay
  BY <1>1, <1>2, DaysApart
<1>6. (a + 1) * HoursADay = a * HoursADay + HoursADay
  BY <1>0, <1>1
<1>7. a * HoursADay \in Nat /\ b * HoursADay \in Nat
  BY <1>0, <1>1, <1>2
<1>8. b = a + 1 => b * HoursADay = a * HoursADay + HoursADay
  BY <1>6
<1> HIDE DEF a, b, r, s
<1>9. b = a \/ (b = a + 1 /\ r = HoursADay - 1)
  BY <1>0, <1>1, <1>2, <1>3, <1>4, <1>5, <1>6, <1>7, <1>8
<1> QED
  BY <1>9 DEF a, b, r

\* The day is one of those modelled, its hours those of the clock, and its own hour
\* has come when it is due.
LEMMA ClockFits == ASSUME ScheduleTypeOK
                   PROVE  /\ hour \in Nat /\ Today \in Dates /\ Today \in Nat
                          /\ Due <=> hour >= Its(Today)
                          /\ hour < Today * HoursADay + HoursADay
<1>0. /\ HoursADay \in Nat /\ HoursADay > 0 /\ Days \in Nat /\ Days > 0
      /\ RetentionHour \in Nat /\ RetentionHour < HoursADay
  BY ScheduleAssumption
<1>1. Days * HoursADay \in Nat
  BY <1>0
<1>2. hour \in Nat /\ hour < Days * HoursADay
  BY <1>1 DEF ScheduleTypeOK
<1>3. Today \in Nat /\ hour % HoursADay \in 0..(HoursADay - 1)
      /\ hour = Today * HoursADay + (hour % HoursADay)
  BY <1>2, ClockReads DEF Today
<1>4. Today * HoursADay \in Nat
  BY <1>0, <1>3
<1>5. Days < Today => Days * HoursADay + HoursADay <= Today * HoursADay
  BY <1>0, <1>3, DaysApart
<1>6. Days = Today => Days * HoursADay = Today * HoursADay
  OBVIOUS
<1>7. Today < Days
  BY <1>0, <1>1, <1>2, <1>3, <1>4, <1>5, <1>6
<1>8. Today \in Dates
  BY <1>0, <1>3, <1>7 DEF Dates
<1>9. Due <=> hour >= Its(Today)
  BY <1>0, <1>2, <1>3, <1>4 DEF Due, Its
<1> QED
  BY <1>0, <1>2, <1>3, <1>4, <1>8, <1>9


\* What the proofs of the steps start from.
LEMMA ScheduleHas ==
  ScheduleInv => /\ ScheduleTypeOK /\ OncePerDay /\ NotBeforeItsHour /\ EveryDaySwept
                 /\ sweep \in [Dates -> DayJob] /\ replica \in [Replicas -> Worker]
                 /\ enqueued \in [Dates -> Nat]
                 /\ slept \subseteq Dates /\ straddled \subseteq Dates
                 /\ \A w \in Replicas : InsertFits(w) /\ TickDone(w)
                 /\ \A w \in Replicas : replica[w].due \/ replica[w].inserts => replica[w].up
                 /\ \A d \in Dates : SweepFits(d)
BY DEF ScheduleInv, SchedulePromises, ScheduleTypeOK, Worker, DayJob

\* Only one replica moves.
LEMMA ReplicaMoves ==
  ASSUME ScheduleInv, NEW w \in Replicas, NEW n \in Worker,
         n.due \/ n.inserts => n.up,
         n.inserts => n.for = Today /\ Due /\ (n.sees => enqueued[Today] > 0),
         n.up /\ ~n.due /\ Due => enqueued[Today] > 0 \/ Today \in slept,
         replica' = [replica EXCEPT ![w] = n],
         UNCHANGED <<hour, sweep, enqueued, slept, straddled>>
  PROVE  ScheduleInv'
<1>1. replica \in [Replicas -> Worker]
  BY ScheduleHas
<1>2. replica' \in [Replicas -> Worker]
  BY <1>1
<1>3. Today' = Today /\ (Due <=> Due')
  BY DEF Today, Due
<1>4. ASSUME NEW v \in Replicas
      PROVE  /\ InsertFits(v)' /\ TickDone(v)'
             /\ replica'[v].due \/ replica'[v].inserts => replica'[v].up
  <2>1. CASE v = w
    BY <1>1, <1>3, <2>1 DEF InsertFits, TickDone
  <2>2. CASE v # w
    <3>1. replica'[v] = replica[v]
      BY <1>1, <2>2
    <3> QED
      BY <1>3, <3>1, ScheduleHas DEF InsertFits, TickDone
  <2> QED
    BY <2>1, <2>2
<1>5. \A d \in Dates : SweepFits(d)'
  BY <1>3, ScheduleHas DEF SweepFits, Its
<1>6. ScheduleTypeOK'
  BY <1>2, <1>4, ScheduleHas DEF ScheduleTypeOK, Worker
<1>7. OncePerDay' /\ NotBeforeItsHour' /\ EveryDaySwept'
  BY <1>3, ScheduleHas DEF OncePerDay, NotBeforeItsHour, EveryDaySwept
<1> QED
  BY <1>4, <1>5, <1>6, <1>7 DEF ScheduleInv, SchedulePromises

\* Only one day's job moves.
LEMMA JobMoves ==
  ASSUME ScheduleInv, NEW d \in Dates, NEW j \in DayJob,
         j.is # "none" => enqueued[d] > 0,
         j.is \in {"succeeded", "dead"} => j.ended >= Its(d),
         j.is = "none" /\ enqueued[d] > 0 => d < Today,
         sweep' = [sweep EXCEPT ![d] = j],
         UNCHANGED <<hour, replica, enqueued, slept, straddled>>
  PROVE  ScheduleInv'
<1>1. sweep \in [Dates -> DayJob]
  BY ScheduleHas
<1>2. sweep' \in [Dates -> DayJob]
  BY <1>1
<1>3. Today' = Today /\ (Due <=> Due')
  BY DEF Today, Due
<1>4. \A v \in Replicas : InsertFits(v)' /\ TickDone(v)'
  BY <1>3, ScheduleHas DEF InsertFits, TickDone
<1>5. ASSUME NEW e \in Dates
      PROVE  SweepFits(e)'
  <2>1. CASE e = d
    BY <1>1, <1>3, <2>1 DEF SweepFits, Its
  <2>2. CASE e # d
    <3>1. sweep'[e] = sweep[e]
      BY <1>1, <2>2
    <3> QED
      BY <1>3, <3>1, ScheduleHas DEF SweepFits, Its
  <2> QED
    BY <2>1, <2>2
<1>6. ScheduleTypeOK'
  BY <1>2, ScheduleHas DEF ScheduleTypeOK, DayJob
<1>7. OncePerDay' /\ NotBeforeItsHour' /\ EveryDaySwept'
  BY <1>3, ScheduleHas DEF OncePerDay, NotBeforeItsHour, EveryDaySwept
<1> QED
  BY <1>4, <1>5, <1>6, <1>7 DEF ScheduleInv, SchedulePromises

\* A worker starts, or stops.
LEMMA StartStopInv ==
  ASSUME ScheduleInv, NEW w \in Replicas, StartReplica(w) \/ StopReplica(w)
  PROVE  ScheduleInv'
<1> DEFINE started == [Down EXCEPT !.up = TRUE, !.due = TRUE]
<1>1. Down \in Worker /\ ~Down.up /\ ~Down.due /\ ~Down.inserts
  BY ScheduleAssumption DEF Down, Worker, Dates
<1>2. started \in Worker /\ started.up /\ started.due /\ ~started.inserts
  BY <1>1 DEF Worker
<1> HIDE DEF started
<1>3. CASE StartReplica(w)
  <2>1. replica' = [replica EXCEPT ![w] = started]
    BY <1>3 DEF StartReplica, started
  <2> QED
    BY <1>2, <1>3, <2>1, ReplicaMoves DEF StartReplica
<1>4. CASE StopReplica(w)
  BY <1>1, <1>4, ReplicaMoves DEF StopReplica
<1> QED
  BY <1>3, <1>4

\* A replica looks whether today's sweep is there.
LEMMA LookForSweepInv ==
  ASSUME ScheduleInv, NEW w \in Replicas, LookForSweep(w)
  PROVE  ScheduleInv'
<1> DEFINE r == replica[w]
           looks == [r EXCEPT !.inserts = TRUE, !.for = Today, !.sees = Exists(Today)]
           waits == [r EXCEPT !.due = FALSE]
<1>1. r \in Worker /\ r.due /\ r.up /\ ~r.inserts
  BY ScheduleHas DEF LookForSweep
<1>2. Today \in Dates
  BY ScheduleHas, ClockFits
<1>3. Exists(Today) \in BOOLEAN /\ (Exists(Today) => enqueued[Today] > 0)
  BY <1>2, ScheduleHas DEF Exists, SweepFits
<1>4. /\ looks \in Worker /\ looks.up /\ looks.due /\ looks.inserts
      /\ looks.for = Today /\ looks.sees = Exists(Today)
  BY <1>1, <1>2, <1>3 DEF Worker
<1>5. waits \in Worker /\ waits.up /\ ~waits.due /\ ~waits.inserts
  BY <1>1 DEF Worker
<1>6. CASE HourHasCome
  <2>1. replica' = [replica EXCEPT ![w] = looks]
    BY <1>6 DEF LookForSweep
  <2> HIDE DEF looks, r
  <2> QED
    BY <1>3, <1>4, <1>6, <2>1, ReplicaMoves DEF LookForSweep, HourHasCome
<1>7. CASE ~HourHasCome
  <2>1. replica' = [replica EXCEPT ![w] = waits]
    BY <1>7 DEF LookForSweep
  <2> HIDE DEF waits, r
  <2> QED
    BY <1>5, <1>7, <2>1, ReplicaMoves DEF LookForSweep, HourHasCome
<1> QED
  BY <1>6, <1>7


\* The sweep of today is enqueued, if no INSERT has seen it and none is under way.
LEMMA EnqueuedInv ==
  ASSUME ScheduleInv, NEW w \in Replicas, InsertSweep(w),
         ~replica[w].sees, ~Alive(Today)
  PROVE  ScheduleInv'
<1> DEFINE r == replica[w]
           n == [r EXCEPT !.inserts = FALSE, !.due = FALSE]
           j == [is |-> "queued", ended |-> 0]
<1>1. r \in Worker /\ r.up /\ r.inserts /\ r.for = Today /\ Due
  BY ScheduleHas DEF InsertSweep, InsertFits
<1>2. Today \in Dates /\ Today \in Nat /\ hour \in Nat /\ hour >= Its(Today)
  BY <1>1, ScheduleHas, ClockFits
<1>3. n \in Worker /\ n.up /\ ~n.due /\ ~n.inserts
  BY <1>1 DEF Worker
<1>4. j \in DayJob /\ j.is = "queued"
  BY DEF DayJob
<1>5. /\ sweep' = [sweep EXCEPT ![Today] = j]
      /\ enqueued' = [enqueued EXCEPT ![Today] = @ + 1]
      /\ straddled' = IF sweep[Today].is # "none" THEN straddled \cup {Today} ELSE straddled
      /\ replica' = [replica EXCEPT ![w] = n]
      /\ hour' = hour /\ slept' = slept
  BY <1>1 DEF InsertSweep
<1> HIDE DEF r, n, j
<1>6. Today' = Today /\ (Due <=> Due')
  BY <1>5 DEF Today, Due
<1>7. /\ sweep' \in [Dates -> DayJob] /\ replica' \in [Replicas -> Worker]
      /\ enqueued' \in [Dates -> Nat]
  BY <1>2, <1>3, <1>4, <1>5, ScheduleHas
<1>8. enqueued'[Today] = enqueued[Today] + 1 /\ enqueued[Today] \in Nat
  BY <1>2, <1>5, ScheduleHas
<1>9. \A d \in Dates \ {Today} : enqueued'[d] = enqueued[d] /\ sweep'[d] = sweep[d]
  BY <1>2, <1>5, ScheduleHas
<1>10. straddled \subseteq straddled' /\ straddled' \subseteq Dates
  BY <1>2, <1>5, ScheduleHas
<1>11. ASSUME NEW v \in Replicas
       PROVE  /\ InsertFits(v)' /\ TickDone(v)'
              /\ replica'[v].due \/ replica'[v].inserts => replica'[v].up
  <2>1. CASE v = w
    BY <1>3, <1>5, <1>6, <1>8, <2>1, ScheduleHas DEF InsertFits, TickDone
  <2>2. CASE v # w
    <3>1. replica'[v] = replica[v]
      BY <1>5, <2>2, ScheduleHas
    <3> QED
      BY <1>5, <1>6, <1>8, <3>1, ScheduleHas DEF InsertFits, TickDone
  <2> QED
    BY <2>1, <2>2
<1>12. ASSUME NEW d \in Dates
       PROVE  SweepFits(d)'
  <2>1. CASE d = Today
    <3>1. sweep'[d].is = "queued" /\ enqueued'[d] > 0
      BY <1>2, <1>4, <1>5, <1>8, <2>1, ScheduleHas
    <3> QED
      BY <3>1 DEF SweepFits
  <2>2. CASE d # Today
    BY <1>5, <1>6, <1>9, <2>2, ScheduleHas DEF SweepFits, Its
  <2> QED
    BY <2>1, <2>2
<1>13. ScheduleTypeOK'
  BY <1>5, <1>7, <1>10, <1>11, ScheduleHas DEF ScheduleTypeOK, Worker, DayJob
<1>14. OncePerDay'
  <2> SUFFICES ASSUME NEW d \in Dates
               PROVE  enqueued'[d] <= 1 \/ d \in straddled'
    BY DEF OncePerDay
  <2>1. CASE d = Today /\ sweep[d].is = "none"
    <3>1. enqueued[d] = 0
      BY <1>2, <1>8, <2>1, ScheduleHas DEF SweepFits
    <3> QED
      BY <1>8, <2>1, <3>1
  <2>2. CASE d = Today /\ sweep[d].is # "none"
    BY <1>5, <2>2
  <2>3. CASE d # Today
    BY <1>9, <1>10, <2>3, ScheduleHas DEF OncePerDay
  <2> QED
    BY <2>1, <2>2, <2>3
<1>15. NotBeforeItsHour'
  <2> SUFFICES ASSUME NEW d \in Dates, enqueued'[d] > 0
               PROVE  hour >= d * HoursADay + RetentionHour
    BY <1>5 DEF NotBeforeItsHour
  <2>1. CASE d = Today
    BY <1>2, <2>1 DEF Its
  <2>2. CASE d # Today
    BY <1>9, <2>2, ScheduleHas DEF NotBeforeItsHour
  <2> QED
    BY <2>1, <2>2
<1>16. EveryDaySwept'
  BY <1>5, <1>6, <1>8, <1>9, ScheduleHas DEF EveryDaySwept
<1> QED
  BY <1>11, <1>12, <1>13, <1>14, <1>15, <1>16 DEF ScheduleInv, SchedulePromises

\* An INSERT ends.
LEMMA InsertSweepInv ==
  ASSUME ScheduleInv, NEW w \in Replicas, InsertSweep(w)
  PROVE  ScheduleInv'
<1> DEFINE r == replica[w]
           n == [r EXCEPT !.inserts = FALSE, !.due = FALSE]
<1>1. /\ r \in Worker /\ r.up /\ r.inserts /\ r.for = Today
      /\ r.sees => enqueued[Today] > 0
  BY ScheduleHas DEF InsertSweep, InsertFits
<1>2. Today \in Dates
  BY ScheduleHas, ClockFits
<1>3. n \in Worker /\ n.up /\ ~n.due /\ ~n.inserts
  BY <1>1 DEF Worker
<1>4. CASE r.sees \/ Alive(Today)
  <2>1. enqueued[Today] > 0
    BY <1>1, <1>2, <1>4, ScheduleHas DEF Alive, SweepFits
  <2>2. replica' = [replica EXCEPT ![w] = n]
        /\ UNCHANGED <<hour, sweep, enqueued, slept, straddled>>
    BY <1>1, <1>4 DEF InsertSweep
  <2> HIDE DEF r, n
  <2> QED
    BY <1>3, <2>1, <2>2, ReplicaMoves
<1> QED
  BY <1>4, EnqueuedInv

\* An INSERT fails.
LEMMA InsertFailsInv ==
  ASSUME ScheduleInv, NEW w \in Replicas, InsertFails(w)
  PROVE  ScheduleInv'
<1> DEFINE r == replica[w]
           n == [r EXCEPT !.inserts = FALSE, !.due = FALSE]
<1>1. r \in Worker /\ r.up /\ r.inserts /\ r.for = Today
  BY ScheduleHas DEF InsertFails, InsertFits
<1>2. Today \in Dates
  BY ScheduleHas, ClockFits
<1>3. n \in Worker /\ n.up /\ ~n.due /\ ~n.inserts
  BY <1>1 DEF Worker
<1>4. /\ replica' = [replica EXCEPT ![w] = n]
      /\ slept' = slept \cup {Today}
      /\ UNCHANGED <<hour, sweep, enqueued, straddled>>
  BY <1>1 DEF InsertFails
<1> HIDE DEF r, n
<1>5. Today' = Today /\ (Due <=> Due')
  BY <1>4 DEF Today, Due
<1>6. replica' \in [Replicas -> Worker]
  BY <1>3, <1>4, ScheduleHas
<1>7. ASSUME NEW v \in Replicas
      PROVE  /\ InsertFits(v)' /\ TickDone(v)'
             /\ replica'[v].due \/ replica'[v].inserts => replica'[v].up
  <2>1. CASE v = w
    BY <1>3, <1>4, <1>5, <2>1, ScheduleHas DEF InsertFits, TickDone
  <2>2. CASE v # w
    <3>1. replica'[v] = replica[v]
      BY <1>4, <2>2, ScheduleHas
    <3> QED
      BY <1>4, <1>5, <3>1, ScheduleHas DEF InsertFits, TickDone
  <2> QED
    BY <2>1, <2>2
<1>8. \A d \in Dates : SweepFits(d)'
  BY <1>4, <1>5, ScheduleHas DEF SweepFits, Its
<1>9. ScheduleTypeOK'
  BY <1>2, <1>4, <1>6, <1>7, ScheduleHas DEF ScheduleTypeOK, Worker
<1>10. OncePerDay' /\ NotBeforeItsHour' /\ EveryDaySwept'
  BY <1>4, <1>5, ScheduleHas DEF OncePerDay, NotBeforeItsHour, EveryDaySwept
<1> QED
  BY <1>7, <1>8, <1>9, <1>10 DEF ScheduleInv, SchedulePromises

\* What a day's job ended with is kept until the day is over.
LEMMA OldEnoughIsPast ==
  ASSUME ScheduleInv, NEW d \in Dates, sweep[d].is = "succeeded", OldEnough(d)
  PROVE  d < Today
<1>0. /\ HoursADay \in Nat /\ RetentionHour \in Nat /\ KeptHours \in Nat /\ Days \in Nat
      /\ KeptHours >= HoursADay - RetentionHour
  BY ScheduleAssumption
<1>1. d \in Nat /\ d * HoursADay \in Nat
  BY <1>0 DEF Dates
<1>2. sweep[d].ended \in Nat /\ sweep[d].ended >= d * HoursADay + RetentionHour
  BY ScheduleHas DEF SweepFits, Its, DayJob
<1>3. hour > sweep[d].ended + KeptHours
  BY DEF OldEnough
<1>4. Today \in Nat /\ hour \in Nat /\ hour < Today * HoursADay + HoursADay
  BY ScheduleHas, ClockFits
<1>5. Today < d => Today * HoursADay + HoursADay <= d * HoursADay
  BY <1>1, <1>4, DaysApart
<1>6. Today = d => Today * HoursADay = d * HoursADay
  OBVIOUS
<1>7. Today * HoursADay \in Nat
  BY <1>0, <1>4
<1> QED
  BY <1>0, <1>1, <1>2, <1>3, <1>4, <1>5, <1>6, <1>7

\* The queue claims a sweep, ends it, or prunes it.
LEMMA SweepMovesInv ==
  ASSUME ScheduleInv, NEW d \in Dates,
         \/ ClaimSweep(d) \/ PruneSweep(d)
         \/ \E as \in {"succeeded", "dead"} : EndSweep(d, as)
  PROVE  ScheduleInv'
<1> DEFINE was == sweep[d]
           claimed == [was EXCEPT !.is = "running"]
           ended(as) == [is |-> as, ended |-> hour]
<1>1. was \in DayJob
  BY ScheduleHas
<1>2. hour \in Nat /\ Today \in Nat
  BY ScheduleHas, ClockFits
<1>3. was.is # "none" => enqueued[d] > 0
  BY ScheduleHas DEF SweepFits
<1>4. CASE ClaimSweep(d)
  <2>1. claimed \in DayJob /\ claimed.is = "running" /\ was.is = "queued"
    BY <1>1, <1>4 DEF DayJob, ClaimSweep
  <2>2. sweep' = [sweep EXCEPT ![d] = claimed]
    BY <1>4 DEF ClaimSweep
  <2> HIDE DEF claimed, was
  <2> QED
    BY <1>3, <1>4, <2>1, <2>2, JobMoves DEF ClaimSweep
<1>5. CASE PruneSweep(d)
  <2>1. NoSweep \in DayJob /\ NoSweep.is = "none"
    BY DEF NoSweep, DayJob
  <2>2. d < Today
    BY <1>5, OldEnoughIsPast DEF PruneSweep
  <2> QED
    BY <1>5, <2>1, <2>2, JobMoves DEF PruneSweep
<1>6. ASSUME NEW as \in {"succeeded", "dead"}, EndSweep(d, as)
      PROVE  ScheduleInv'
  <2>1. ended(as) \in DayJob /\ ended(as).is = as /\ ended(as).ended = hour
    BY <1>2 DEF DayJob
  <2>2. was.is = "running" /\ sweep' = [sweep EXCEPT ![d] = ended(as)]
    BY <1>6 DEF EndSweep
  <2>3. hour >= Its(d)
    BY <1>3, <2>2, ScheduleHas DEF NotBeforeItsHour, Its
  <2> HIDE DEF ended, was
  <2> QED
    BY <1>3, <1>6, <2>1, <2>2, <2>3, JobMoves DEF EndSweep
<1> QED
  BY <1>4, <1>5, <1>6


\* An hour passes: whoever is up has had its tick, so a day that ends had its sweep,
\* or an hour when no one tried, or a try that failed.
LEMMA HourPassesInv == ScheduleInv /\ HourPasses => ScheduleInv'
<1> SUFFICES ASSUME ScheduleInv, HourPasses
             PROVE  ScheduleInv'
  OBVIOUS
<1>0. /\ HoursADay \in Nat /\ HoursADay > 0 /\ Days \in Nat
      /\ RetentionHour \in Nat /\ RetentionHour < HoursADay
  BY ScheduleAssumption
<1>1. /\ hour \in Nat /\ Today \in Dates /\ Today \in Nat /\ (Due <=> hour >= Its(Today))
  BY ScheduleHas, ClockFits
<1>2. /\ hour' = hour + 1 /\ hour + 1 < Days * HoursADay
      /\ sweep' = sweep /\ enqueued' = enqueued /\ straddled' = straddled
      /\ slept' = IF Due /\ \A w \in Replicas : ~replica[w].up THEN slept \cup {Today}
                  ELSE slept
      /\ \A w \in Replicas : ~replica[w].due /\ ~replica[w].inserts
      /\ replica' = [w \in Replicas |-> [replica[w] EXCEPT !.due = TimerFires(w)]]
  BY DEF HourPasses
<1>3. \/ Today' = Today
      \/ Today' = Today + 1 /\ hour % HoursADay = HoursADay - 1
  BY <1>1, <1>2, DayTurns DEF Today
<1>4. ASSUME NEW w \in Replicas
      PROVE  /\ replica'[w] \in Worker /\ ~replica'[w].inserts
             /\ replica'[w].due = replica[w].up /\ replica'[w].up = replica[w].up
  <2> DEFINE r == replica[w]
             n == [r EXCEPT !.due = TimerFires(w)]
  <2>1. r \in Worker /\ ~r.inserts
    BY <1>2, ScheduleHas
  <2>2. TimerFires(w) \in BOOLEAN /\ TimerFires(w) = r.up
    BY <2>1 DEF TimerFires, Worker
  <2>3. n \in Worker /\ ~n.inserts /\ n.due = r.up /\ n.up = r.up
    BY <2>1, <2>2 DEF Worker
  <2>4. replica'[w] = n
    BY <1>2
  <2> HIDE DEF n
  <2> QED
    BY <2>3, <2>4
<1>5. replica' \in [Replicas -> Worker]
  <2>1. DOMAIN replica' = Replicas /\ replica' = [w \in Replicas |-> replica'[w]]
    BY <1>2
  <2> QED
    BY <1>4, <2>1
<1>6. \A w \in Replicas : /\ InsertFits(w)' /\ TickDone(w)'
                          /\ replica'[w].due \/ replica'[w].inserts => replica'[w].up
  BY <1>4 DEF InsertFits, TickDone
<1>7. \A d \in Dates : d < Today => d < Today'
  BY <1>1, <1>3 DEF Dates
<1>8. \A d \in Dates : SweepFits(d)'
  BY <1>2, <1>7, ScheduleHas DEF SweepFits, Its
<1>9. slept \subseteq slept' /\ slept' \subseteq Dates
  BY <1>1, <1>2, ScheduleHas
<1>10. ScheduleTypeOK'
  <2>1. Days * HoursADay \in Nat
    BY <1>0
  <2>2. hour' \in 0..(Days * HoursADay - 1)
    BY <1>1, <1>2, <2>1
  <2> QED
    BY <1>2, <1>5, <1>6, <1>9, <2>2, ScheduleHas DEF ScheduleTypeOK, Worker
<1>11. OncePerDay'
  BY <1>2, ScheduleHas DEF OncePerDay
<1>12. NotBeforeItsHour'
  <2> SUFFICES ASSUME NEW d \in Dates, enqueued[d] > 0
               PROVE  hour + 1 >= d * HoursADay + RetentionHour
    BY <1>2 DEF NotBeforeItsHour
  <2>1. hour >= d * HoursADay + RetentionHour
    BY ScheduleHas DEF NotBeforeItsHour
  <2>2. d * HoursADay + RetentionHour \in Nat
    BY <1>0 DEF Dates
  <2> QED
    BY <1>1, <2>1, <2>2
<1>13. EveryDaySwept'
  <2> SUFFICES ASSUME NEW d \in Dates, d < Today', enqueued[d] = 0
               PROVE  d \in slept'
    BY <1>2 DEF EveryDaySwept
  <2>1. CASE d < Today
    BY <1>9, <2>1, ScheduleHas DEF EveryDaySwept
  <2>2. CASE ~(d < Today)
    <3>1. d \in Nat
      BY <1>0 DEF Dates
    <3>2. d = Today /\ hour % HoursADay = HoursADay - 1
      BY <1>1, <1>3, <2>2, <3>1
    <3>3. Due
      BY <1>0, <3>2 DEF Due
    <3>4. ASSUME NEW w \in Replicas, replica[w].up
          PROVE  d \in slept
      <4>1. TickDone(w) /\ ~replica[w].due
        BY <1>2, ScheduleHas
      <4> QED
        BY <3>2, <3>3, <3>4, <4>1 DEF TickDone
    <3> QED
      BY <1>2, <1>9, <3>2, <3>3, <3>4
  <2> QED
    BY <2>1, <2>2
<1> QED
  BY <1>6, <1>8, <1>10, <1>11, <1>12, <1>13 DEF ScheduleInv, SchedulePromises

\* Every step of the schedule.
LEMMA ScheduleStepInv == ScheduleInv /\ [ScheduleNext]_scheduleVars => ScheduleInv'
<1> SUFFICES ASSUME ScheduleInv, [ScheduleNext]_scheduleVars
             PROVE  ScheduleInv'
  OBVIOUS
<1>1. ASSUME NEW w \in Replicas,
             \/ StartReplica(w) \/ StopReplica(w)
             \/ LookForSweep(w) \/ InsertSweep(w) \/ InsertFails(w)
      PROVE  ScheduleInv'
  BY <1>1, StartStopInv, LookForSweepInv, InsertSweepInv, InsertFailsInv
<1>2. ASSUME NEW d \in Dates,
             \/ ClaimSweep(d) \/ PruneSweep(d)
             \/ \E as \in {"succeeded", "dead"} : EndSweep(d, as)
      PROVE  ScheduleInv'
  BY <1>2, SweepMovesInv
<1>3. CASE HourPasses
  BY <1>3, HourPassesInv
<1>4. CASE UNCHANGED scheduleVars
  <2>1. Today' = Today /\ (Due <=> Due')
    BY <1>4 DEF scheduleVars, Today, Due
  <2>2. ScheduleTypeOK' /\ OncePerDay' /\ NotBeforeItsHour' /\ EveryDaySwept'
    BY <1>4, <2>1, ScheduleHas DEF scheduleVars, ScheduleTypeOK, OncePerDay,
       NotBeforeItsHour, EveryDaySwept
  <2>3. \A w \in Replicas : InsertFits(w)' /\ TickDone(w)'
    BY <1>4, <2>1, ScheduleHas DEF scheduleVars, InsertFits, TickDone
  <2>4. \A d \in Dates : SweepFits(d)'
    BY <1>4, <2>1, ScheduleHas DEF scheduleVars, SweepFits, Its
  <2> QED
    BY <2>2, <2>3, <2>4 DEF ScheduleInv, SchedulePromises
<1> QED
  BY <1>1, <1>2, <1>3, <1>4 DEF ScheduleNext

\* For any number of replicas, days and hours a day: each day's sweep is enqueued
\* once, not before its hour, and on every day on which a replica was up each hour
\* and no try failed.
THEOREM ScheduleKeepsPromises == ScheduleSpec => []SchedulePromises
<1>1. ScheduleInit => ScheduleInv
  <2> SUFFICES ASSUME ScheduleInit
               PROVE  ScheduleInv
    OBVIOUS
  <2>0. HoursADay \in Nat /\ HoursADay > 0 /\ Days \in Nat /\ Days > 0
    BY ScheduleAssumption
  <2>1. /\ hour = 0 /\ slept = {} /\ straddled = {}
        /\ sweep = [d \in Dates |-> NoSweep] /\ replica = [w \in Replicas |-> Down]
        /\ enqueued = [d \in Dates |-> 0]
    BY DEF ScheduleInit
  <2>2. 0 \in Dates
    BY <2>0 DEF Dates
  <2>3. Down \in Worker /\ ~Down.up /\ ~Down.due /\ ~Down.inserts
    BY <2>2 DEF Down, Worker
  <2>4. NoSweep \in DayJob /\ NoSweep.is = "none"
    BY DEF NoSweep, DayJob
  <2>5. 0 \in 0..(Days * HoursADay - 1)
    <3>1. 0 * HoursADay + HoursADay <= Days * HoursADay
      BY <2>0, DaysApart
    <3>2. Days * HoursADay \in Nat
      BY <2>0
    <3> QED
      BY <2>0, <3>1, <3>2
  <2>6. ScheduleTypeOK
    BY <2>1, <2>3, <2>4, <2>5 DEF ScheduleTypeOK, Worker, DayJob
  <2>7. Today = 0
    <3>1. Today \in Nat /\ 0 % HoursADay \in Nat
          /\ 0 = Today * HoursADay + (0 % HoursADay)
      BY <2>0, <2>1, ClockReads DEF Today
    <3>2. 0 < Today => 0 * HoursADay + HoursADay <= Today * HoursADay
      BY <3>1, DaysApart
    <3>3. 0 * HoursADay = 0 /\ Today * HoursADay \in Nat
      BY <2>0, <3>1
    <3> QED
      BY <2>0, <3>1, <3>2, <3>3
  <2>8. OncePerDay /\ NotBeforeItsHour
    BY <2>1 DEF OncePerDay, NotBeforeItsHour
  <2>9. EveryDaySwept
    BY <2>0, <2>7 DEF EveryDaySwept, Dates
  <2>10. \A w \in Replicas : InsertFits(w) /\ TickDone(w)
    BY <2>1, <2>3 DEF InsertFits, TickDone
  <2>11. \A d \in Dates : SweepFits(d)
    BY <2>1, <2>4 DEF SweepFits
  <2> QED
    BY <2>6, <2>8, <2>9, <2>10, <2>11 DEF ScheduleInv, SchedulePromises
<1>2. ScheduleInv => SchedulePromises
  BY DEF ScheduleInv
<1> QED
  BY <1>1, <1>2, ScheduleStepInv, PTL DEF ScheduleSpec


-----------------------------------------------------------------------------
(***************************************************************************)
(* The releases of a host (Deployment).  That a host can go back to a      *)
(* whole release is not inductive: a run of the scripts moves the tags of  *)
(* one service after the other.  While it does, the release it would put   *)
(* back is whole, and what it has moved so far agrees with what it will.   *)
(***************************************************************************)

\* The release a deploy puts back if it fails before it moves :previous.
Held == [s \in Services |-> IF run.at = "restore" /\ s \notin run.left THEN current[s]
                            ELSE saved[s]]

\* release_changed, of any service.
ReleaseChanged == \E o \in Services : saved[o] \notin {0, current[o]}

\* It is whole, what a rollback goes to is of the services it has, and it is the
\* release found healthy last.
HeldFits ==
  run.at \in {"build", "migrate", "restore", "tag"} =>
    /\ Held \in Whole
    /\ \A s \in Services : previous[s] # 0 => Held[s] # 0
    /\ risked \/ Held = good
    /\ (previous # NoRelease /\ previous = Held)
         => rolled \/ Held \in torn \/ (run.at = "tag" /\ ReleaseChanged)

\* What was built is there, and then migrated.
BuiltFits ==
  /\ run.at = "build" => \A s \in Services \ run.left : current[s] # 0
  /\ run.at \in {"migrate", "tag"} => \A s \in Services : current[s] # 0
  /\ run.at \in {"tag", "drop", "up", "health"} => current \in Whole

\* :previous moves for all services or for none.
TagFits ==
  run.at = "tag" => IF ReleaseChanged
                      THEN \A s \in Services \ run.left : previous[s] = saved[s]
                      ELSE previous \in Whole

\* And keeps what was healthy, of another release.
TaggedFits ==
  run.at \in {"drop", "up", "health"} =>
    /\ (previous # NoRelease /\ previous = current) => rolled \/ current \in torn
    /\ risked \/ \A s \in Services : good[s] \in {current[s], previous[s], 0}

\* A rollback moves :current to :previous, then the containers.
RollFits ==
  /\ run.at = "retag" =>
       /\ \A s \in Services \ run.left : current[s] = previous[s]
       /\ good = previous
       /\ run.apart \/ \A s \in Services \ run.roll : serving[s] = previous[s]
  /\ run.at \in {"restart", "probe"} => current = previous /\ rolled
  /\ run.at = "restart" =>
       run.apart \/ \A s \in Services \ run.left : serving[s] = previous[s]

\* A service that has a release to go back to has one.
BothThere == \A s \in Services : previous[s] # 0 => current[s] # 0

RunFits ==
  /\ run.at = "rest" => run = NoRun
  /\ HeldFits /\ BuiltFits /\ TagFits /\ TaggedFits /\ RollFits /\ BothThere

DeployInv ==
  /\ DeployTypeOK /\ StartedIsMigrated /\ CurrentIsMigrated /\ TargetIsRelease
  /\ TargetDiffers /\ GoodKept /\ RunFits


\* Where a run of the scripts is.
RunAt == {"rest", "build", "migrate", "restore", "tag", "drop", "up", "health", "retag",
          "restart", "probe"}
Run == [at : RunAt, left : SUBSET Services, roll : SUBSET Services, apart : BOOLEAN]

\* What the proofs of the steps start from.
LEMMA DeployHas ==
  DeployInv => /\ current \in Releases /\ previous \in Releases /\ saved \in Releases
               /\ serving \in Releases /\ good \in Releases
               /\ run \in Run /\ released \subseteq Releases /\ torn \subseteq Releases
               /\ StartedIsMigrated /\ CurrentIsMigrated /\ TargetIsRelease
               /\ TargetDiffers /\ GoodKept
               /\ run.at = "rest" <=> run = NoRun
               /\ HeldFits /\ BuiltFits /\ TagFits /\ TaggedFits /\ RollFits /\ BothThere
               /\ risked \in BOOLEAN /\ rolled \in BOOLEAN
               /\ builds \in 0..MaxBuilds /\ interrupts \in 0..MaxInterrupts
BY DEF DeployInv, DeployTypeOK, RunFits, Run, RunAt, NoRun

\* The run enters a phase.
LEMMA Enters ==
  ASSUME run \in Run, NEW at \in RunAt, NEW left \in SUBSET Services
  PROVE  /\ Enter(at, left) \in Run /\ Enter(at, left).at = at
         /\ Enter(at, left).left = left
         /\ Enter(at, left).roll = run.roll /\ Enter(at, left).apart = run.apart
BY DEF Enter, Run

\* It is done with a service, and has others left or enters the next phase.
LEMMA Passes ==
  ASSUME run \in Run, NEW s \in run.left, NEW then
  PROVE  \/ run.left = {s} /\ PastService(s, then) = then
         \/ /\ PastService(s, then) \in Run /\ PastService(s, then).at = run.at
            /\ PastService(s, then).left = run.left \ {s}
            /\ PastService(s, then).roll = run.roll
            /\ PastService(s, then).apart = run.apart
<1>1. CASE run.left = {s}
  BY <1>1 DEF PastService
<1>2. CASE run.left # {s}
  <2>1. PastService(s, then) = [run EXCEPT !.left = @ \ {s}]
    BY <1>2 DEF PastService
  <2> QED
    BY <2>1 DEF Run
<1> QED
  BY <1>1, <1>2

\* The rest of a release.
LEMMA NoRunIs == NoRun \in Run /\ NoRun.at = "rest" /\ NoRelease \in Releases
BY DeploymentAssumption DEF NoRun, Run, RunAt, NoRelease, Releases

\* Beside what concerns the phase, an invariant of the tags.
LEMMA TagsFit ==
  ASSUME DeployInv, run' \in Run, run'.at = "rest" => run' = NoRun,
         current' \in Releases, previous' \in Releases, saved' \in Releases,
         serving' \in Releases, good' \in Releases,
         released \subseteq released', released' \subseteq Releases,
         torn \subseteq torn', torn' \subseteq Releases,
         risked' \in BOOLEAN, rolled' \in BOOLEAN,
         builds' \in 0..MaxBuilds, interrupts' \in 0..MaxInterrupts,
         \A s \in Services : serving'[s] = serving[s]
                             \/ (serving'[s] = current[s] /\ current \in Whole),
         CurrentIsMigrated', TargetIsRelease', TargetDiffers', GoodKept',
         HeldFits', BuiltFits', TagFits', TaggedFits', RollFits', BothThere'
  PROVE  DeployInv'
<1>1. DeployTypeOK'
  BY DEF DeployTypeOK, Run, RunAt
<1>2. Whole \subseteq Whole'
  BY DEF Whole
<1>3. StartedIsMigrated'
  <2> SUFFICES ASSUME NEW s \in Services
               PROVE  \E release \in Whole' : release[s] = serving'[s]
    BY DEF StartedIsMigrated
  <2>1. \E release \in Whole : release[s] = serving[s]
    BY DeployHas DEF StartedIsMigrated
  <2> QED
    BY <1>2, <2>1
<1> QED
  BY <1>1, <1>3 DEF DeployInv, RunFits


\* A deploy holds on to what is there.
LEMMA BeginDeployInv ==
  ASSUME DeployInv, NEW n \in {builds, builds + 1} \ {0}, BeginDeploy(n)
  PROVE  DeployInv'
<1>1. /\ run = NoRun /\ saved' = current /\ n \in 0..MaxBuilds /\ builds' = n
      /\ risked' = (risked \/ current # good)
      /\ UNCHANGED <<current, previous, serving, released, interrupts, torn, good, rolled>>
  BY DeployHas, DeploymentAssumption DEF BeginDeploy, HeldNow
<1>2. run.at = "rest" /\ run' \in Run /\ run'.at = "build" /\ run'.left = Services
  <2>1. run' = Enter("build", Services)
    BY DEF BeginDeploy
  <2> QED
    BY <1>1, <2>1, NoRunIs, Enters DEF RunAt
<1>3. Held' = current
  BY <1>1, <1>2, DeployHas DEF Held, Releases
<1>4. Whole' = Whole /\ current \in Whole /\ previous \in Whole
  BY <1>1, <1>2, DeployHas DEF Whole, CurrentIsMigrated, TargetIsRelease
<1>5. HeldFits'
  BY <1>1, <1>2, <1>3, <1>4, DeployHas DEF HeldFits, BothThere, TargetDiffers
<1>6. BuiltFits' /\ TagFits' /\ TaggedFits' /\ RollFits' /\ BothThere'
  BY <1>1, <1>2, DeployHas DEF BuiltFits, TagFits, TaggedFits, RollFits, BothThere
<1>7. CurrentIsMigrated' /\ TargetIsRelease' /\ TargetDiffers'
  BY <1>1, <1>2, <1>4, NoRunIs DEF CurrentIsMigrated, TargetIsRelease, TargetDiffers
<1>8. GoodKept'
  BY <1>1 DEF GoodKept, Tagged
<1>9. risked' \in BOOLEAN
  BY <1>1
<1> QED
  BY <1>1, <1>2, <1>5, <1>6, <1>7, <1>8, <1>9, DeployHas, TagsFit

\* A service is built.
LEMMA BuildInv ==
  ASSUME DeployInv, NEW s \in Services, NEW image \in 1..MaxBuilds, Build(s, image)
  PROVE  DeployInv'
<1>1. /\ run.at = "build" /\ s \in run.left
      /\ current' = [current EXCEPT ![s] = image]
      /\ run' = PastService(s, Enter("migrate", {}))
      /\ UNCHANGED <<previous, saved, serving, builds, released, interrupts, torn, good,
                     risked, rolled>>
  BY DEF Build, history
<1>2. /\ current' \in Releases /\ current'[s] # 0
      /\ \A o \in Services \ {s} : current'[o] = current[o]
  BY <1>1, DeployHas, DeploymentAssumption DEF Releases
<1>3. /\ run' \in Run
      /\ \/ run'.at = "migrate" /\ run.left = {s}
         \/ run'.at = "build" /\ run'.left = run.left \ {s}
  BY <1>1, DeployHas, Enters, Passes DEF RunAt
<1>4. Held' = Held /\ Whole' = Whole
  BY <1>1, <1>3 DEF Held, Whole
<1>5. HeldFits'
  <2>1. /\ Held \in Whole /\ \A o \in Services : previous[o] # 0 => Held[o] # 0
        /\ risked \/ Held = good
        /\ (previous # NoRelease /\ previous = Held) => rolled \/ Held \in torn
    BY <1>1, DeployHas DEF HeldFits
  <2> QED
    BY <1>1, <1>4, <2>1 DEF HeldFits
<1>6. BuiltFits'
  BY <1>1, <1>2, <1>3, DeployHas DEF BuiltFits
<1>7. BothThere'
  BY <1>1, <1>2, DeployHas DEF BothThere
<1>8. TagFits' /\ TaggedFits' /\ RollFits'
  BY <1>3 DEF TagFits, TaggedFits, RollFits
<1>9. CurrentIsMigrated' /\ TargetIsRelease' /\ TargetDiffers'
  BY <1>1, <1>3, <1>4, NoRunIs, DeployHas DEF CurrentIsMigrated, TargetIsRelease, TargetDiffers
<1>10. GoodKept'
  <2>1. risked \/ \A o \in Services : good[o] = saved[o]
    BY <1>1, DeployHas DEF HeldFits, Held
  <2> QED
    BY <1>1, <2>1 DEF GoodKept, Tagged
<1> QED
  BY <1>1, <1>2, <1>3, <1>5, <1>6, <1>7, <1>8, <1>9, <1>10, DeployHas, TagsFit

\* A build or the migrations fail.
LEMMA RecoveryInv ==
  ASSUME DeployInv, BuildFails \/ MigrationsFail
  PROVE  DeployInv'
<1>1. /\ run.at \in {"build", "migrate"}
      /\ UNCHANGED <<current, previous, saved, serving, builds, released, interrupts, torn,
                     good, risked, rolled>>
  BY DEF BuildFails, MigrationsFail, history
<1>2. run' \in Run /\ run'.at = "restore" /\ run'.left = Services
  <2>1. run' = Enter("restore", Services)
    BY DEF BuildFails, MigrationsFail, Recovery
  <2> QED
    BY <2>1, DeployHas, Enters DEF RunAt
<1>3. Held' = Held /\ Whole' = Whole
  BY <1>1, <1>2 DEF Held, Whole
<1>4. /\ Held \in Whole /\ \A o \in Services : previous[o] # 0 => Held[o] # 0
      /\ risked \/ Held = good
      /\ (previous # NoRelease /\ previous = Held) => rolled \/ Held \in torn
  BY <1>1, DeployHas DEF HeldFits
<1>5. HeldFits'
  BY <1>1, <1>3, <1>4 DEF HeldFits
<1>6. BuiltFits' /\ TagFits' /\ TaggedFits' /\ RollFits' /\ BothThere'
  BY <1>1, <1>2, DeployHas DEF BuiltFits, TagFits, TaggedFits, RollFits, BothThere
<1>7. CurrentIsMigrated' /\ TargetIsRelease' /\ TargetDiffers'
  BY <1>1, <1>2, <1>3, NoRunIs, DeployHas DEF CurrentIsMigrated, TargetIsRelease, TargetDiffers
<1>8. GoodKept'
  BY <1>1, DeployHas DEF GoodKept, Tagged
<1> QED
  BY <1>1, <1>2, <1>5, <1>6, <1>7, <1>8, DeployHas, TagsFit

\* The migrations are applied.
LEMMA MigrateInv ==
  ASSUME DeployInv, Migrate
  PROVE  DeployInv'
<1>1. /\ run.at = "migrate" /\ released' = released \cup {current}
      /\ UNCHANGED <<current, previous, saved, serving, builds, interrupts, torn, good,
                     risked, rolled>>
  BY DEF Migrate
<1>2. run' \in Run /\ run'.at = "tag" /\ run'.left = Services
  <2>1. run' = Enter("tag", Services)
    BY DEF Migrate
  <2> QED
    BY <2>1, DeployHas, Enters DEF RunAt
<1>3. Held' = Held /\ Whole \subseteq Whole' /\ current \in Whole'
  BY <1>1, <1>2 DEF Held, Whole
<1>4. /\ Held \in Whole /\ \A o \in Services : previous[o] # 0 => Held[o] # 0
      /\ risked \/ Held = good
      /\ (previous # NoRelease /\ previous = Held) => rolled \/ Held \in torn
  BY <1>1, DeployHas DEF HeldFits
<1>5. HeldFits'
  BY <1>1, <1>3, <1>4 DEF HeldFits
<1>6. BuiltFits' /\ TaggedFits' /\ RollFits' /\ BothThere'
  BY <1>1, <1>2, <1>3, DeployHas DEF BuiltFits, TaggedFits, RollFits, BothThere
<1>7. TagFits'
  BY <1>1, <1>2, <1>3, DeployHas DEF TagFits, TargetIsRelease
<1>8. CurrentIsMigrated' /\ TargetIsRelease' /\ TargetDiffers'
  BY <1>2, NoRunIs DEF CurrentIsMigrated, TargetIsRelease, TargetDiffers
<1>9. GoodKept'
  BY <1>1, DeployHas DEF GoodKept, Tagged
<1>10. released' \subseteq Releases
  BY <1>1, DeployHas
<1> QED
  BY <1>1, <1>2, <1>5, <1>6, <1>7, <1>8, <1>9, <1>10, DeployHas, TagsFit

\* restore_current().
LEMMA RestoreInv ==
  ASSUME DeployInv, NEW s \in Services, Restore(s)
  PROVE  DeployInv'
<1>1. /\ run.at = "restore" /\ s \in run.left
      /\ current' = [current EXCEPT ![s] = saved[s]]
      /\ saved' = [saved EXCEPT ![s] = 0]
      /\ run' = PastService(s, NoRun)
      /\ UNCHANGED <<previous, serving, builds, released, interrupts, torn, good,
                     risked, rolled>>
  BY DEF Restore, Turn, history
<1>2. /\ current' \in Releases /\ saved' \in Releases
      /\ current'[s] = saved[s] /\ saved'[s] = 0
      /\ \A o \in Services \ {s} : current'[o] = current[o] /\ saved'[o] = saved[o]
  BY <1>1, DeployHas, DeploymentAssumption DEF Releases
<1>3. /\ run' \in Run
      /\ \/ run' = NoRun /\ run.left = {s}
         \/ run'.at = "restore" /\ run'.left = run.left \ {s}
  BY <1>1, DeployHas, Passes, NoRunIs
<1>4. Whole' = Whole
  BY <1>1 DEF Whole
<1>5. \A o \in Services : Held[o] = IF o \in run.left THEN saved[o] ELSE current[o]
  BY <1>1 DEF Held
<1>6. /\ Held \in Whole /\ Held \in Releases
      /\ \A o \in Services : previous[o] # 0 => Held[o] # 0
      /\ risked \/ Held = good
      /\ (previous # NoRelease /\ previous = Held) => rolled \/ Held \in torn
  BY <1>1, NoRunIs, DeployHas DEF HeldFits, Whole
<1>7. CASE run' = NoRun
  <2>1. current' = Held
    BY <1>2, <1>3, <1>5, <1>6, <1>7, NoRunIs DEF Releases
  <2>2. HeldFits' /\ BuiltFits' /\ TagFits' /\ TaggedFits' /\ RollFits'
    BY <1>7, NoRunIs DEF HeldFits, BuiltFits, TagFits, TaggedFits, RollFits
  <2>3. BothThere'
    BY <1>1, <1>6, <2>1 DEF BothThere
  <2>4. CurrentIsMigrated' /\ TargetIsRelease' /\ TargetDiffers'
    BY <1>1, <1>4, <1>6, <2>1, DeployHas DEF CurrentIsMigrated, TargetIsRelease, TargetDiffers
  <2>5. GoodKept'
    BY <1>1, <1>6, <2>1 DEF GoodKept, Tagged
  <2> QED
    BY <1>1, <1>2, <1>3, <1>7, <2>2, <2>3, <2>4, <2>5, NoRunIs, DeployHas, TagsFit
<1>8. CASE run'.at = "restore" /\ run'.left = run.left \ {s}
  <2>1. Held' = Held
    <3>1. ASSUME NEW o \in Services
          PROVE  (IF run'.at = "restore" /\ o \notin run'.left THEN current'[o]
                  ELSE saved'[o]) = Held[o]
      <4>1. CASE o = s
        BY <1>1, <1>2, <1>5, <1>8, <4>1
      <4>2. CASE o # s
        <5>1. current'[o] = current[o] /\ saved'[o] = saved[o]
          BY <1>2, <4>2
        <5>2. o \in run'.left <=> o \in run.left
          BY <1>8, <4>2
        <5>3. Held[o] = IF o \in run.left THEN saved[o] ELSE current[o]
          BY <1>5
        <5> QED
          BY <1>8, <5>1, <5>2, <5>3
      <4> QED
        BY <4>1, <4>2
    <3>2. Held' = [o \in Services |-> IF run'.at = "restore" /\ o \notin run'.left
                                        THEN current'[o] ELSE saved'[o]]
      BY DEF Held
    <3> QED
      BY <1>6, <3>1, <3>2 DEF Releases
  <2>2. HeldFits'
    BY <1>1, <1>4, <1>6, <2>1 DEF HeldFits
  <2>3. BuiltFits' /\ TagFits' /\ TaggedFits' /\ RollFits'
    BY <1>8 DEF BuiltFits, TagFits, TaggedFits, RollFits
  <2>4. BothThere'
    <3>1. previous[s] # 0 => saved[s] # 0
      BY <1>1, <1>5, <1>6
    <3> QED
      BY <1>1, <1>2, <3>1, DeployHas DEF BothThere
  <2>5. CurrentIsMigrated' /\ TargetIsRelease' /\ TargetDiffers'
    BY <1>1, <1>4, <1>8, NoRunIs, DeployHas DEF CurrentIsMigrated, TargetIsRelease, TargetDiffers
  <2>6. GoodKept'
    <3>1. ASSUME NEW o \in Services
          PROVE  Held[o] \in {current'[o], saved'[o]}
      <4>1. Held[o] = IF o \in run.left THEN saved[o] ELSE current[o]
        BY <1>5
      <4>2. CASE o = s
        BY <1>1, <1>2, <4>1, <4>2
      <4>3. CASE o # s
        BY <1>2, <4>1, <4>3
      <4> QED
        BY <4>2, <4>3
    <3> QED
      BY <1>1, <1>6, <3>1 DEF GoodKept, Tagged
  <2> QED
    BY <1>1, <1>2, <1>3, <1>8, <2>2, <2>3, <2>4, <2>5, <2>6, NoRunIs, DeployHas, TagsFit
<1> QED
  BY <1>3, <1>7, <1>8


\* :previous moves on, for one service.
LEMMA TagReleaseInv ==
  ASSUME DeployInv, NEW s \in Services, TagRelease(s)
  PROVE  DeployInv'
<1>1. /\ run.at = "tag" /\ s \in run.left
      /\ previous' = IF saved[s] # 0 /\ ReleaseChanged THEN [previous EXCEPT ![s] = saved[s]]
                     ELSE previous
      /\ rolled' = (rolled /\ ~ReleaseChanged)
      /\ run' = PastService(s, Enter("drop", {}))
      /\ UNCHANGED <<current, saved, serving, builds, released, interrupts, torn, good, risked>>
  BY DEF TagRelease, Turn, Changed, ReleaseChanged
<1>2. /\ run' \in Run
      /\ \/ run'.at = "drop" /\ run.left = {s}
         \/ run'.at = "tag" /\ run'.left = run.left \ {s}
  BY <1>1, DeployHas, Enters, Passes DEF RunAt
<1>3. Held' = Held /\ Whole' = Whole /\ (ReleaseChanged' <=> ReleaseChanged)
  BY <1>1, <1>2 DEF Held, Whole, ReleaseChanged
<1>4. Held = saved
  BY <1>1, DeployHas DEF Held, Releases
<1>5. /\ saved \in Whole /\ \A o \in Services : previous[o] # 0 => saved[o] # 0
      /\ risked \/ saved = good
      /\ (previous # NoRelease /\ previous = saved) => rolled \/ saved \in torn \/ ReleaseChanged
  BY <1>1, <1>4, DeployHas DEF HeldFits
<1>6. /\ \A o \in Services : current[o] # 0
      /\ current \in Whole
  BY <1>1, DeployHas DEF BuiltFits
<1>7. /\ previous' \in Releases /\ rolled' \in BOOLEAN
      /\ \A o \in Services \ {s} : previous'[o] = previous[o]
      /\ ReleaseChanged => previous'[s] = saved[s]
  BY <1>1, <1>5, DeployHas, DeploymentAssumption DEF Releases
<1>8. \A o \in Services : previous'[o] # 0 => saved[o] # 0
  BY <1>1, <1>5, <1>7
<1>9. HeldFits'
  <2> SUFFICES ASSUME previous' # NoRelease, previous' = saved, ~ReleaseChanged
               PROVE  rolled' \/ saved \in torn
    BY <1>1, <1>2, <1>3, <1>4, <1>5, <1>8 DEF HeldFits
  <2> QED
    BY <1>1, <1>5
<1>10. BuiltFits' /\ RollFits' /\ BothThere'
  BY <1>1, <1>2, <1>3, <1>6 DEF BuiltFits, RollFits, BothThere
<1>11. ASSUME ReleaseChanged
       PROVE  \A o \in Services \ (run.left \ {s}) : previous'[o] = saved[o]
  BY <1>1, <1>7, <1>11, DeployHas DEF TagFits
<1>12. ASSUME ~ReleaseChanged
       PROVE  /\ previous' = previous /\ previous \in Whole /\ rolled' = rolled
              /\ \A o \in Services : saved[o] \in {0, current[o]}
  BY <1>1, <1>12, DeployHas DEF TagFits, ReleaseChanged
<1>13. TagFits'
  BY <1>1, <1>2, <1>3, <1>11, <1>12 DEF TagFits
<1>14. CASE run'.at = "drop" /\ run.left = {s}
  <2>1. CASE ReleaseChanged
    <3>1. previous' = saved
      BY <1>7, <1>11, <1>14, <2>1, DeployHas DEF Releases
    <3>2. previous' # current
      BY <2>1, <1>6, <3>1 DEF ReleaseChanged
    <3>3. TaggedFits'
      BY <1>1, <1>5, <3>1, <3>2 DEF TaggedFits
    <3>4. TargetIsRelease' /\ CurrentIsMigrated' /\ TargetDiffers'
      BY <1>3, <1>5, <1>14, <3>1, NoRunIs DEF TargetIsRelease, CurrentIsMigrated, TargetDiffers
    <3>5. GoodKept'
      BY <1>1, <1>5 DEF GoodKept, Tagged
    <3> QED
      BY <1>1, <1>2, <1>7, <1>9, <1>10, <1>13, <1>14, <3>3, <3>4, <3>5, DeployHas, TagsFit
  <2>2. CASE ~ReleaseChanged
    <3>1. previous = current => previous = saved
      BY <1>5, <1>6, <1>12, <2>2, DeployHas DEF Releases
    <3>2. TaggedFits'
      BY <1>1, <1>5, <1>12, <2>2, <3>1 DEF TaggedFits
    <3>3. TargetIsRelease' /\ CurrentIsMigrated' /\ TargetDiffers'
      BY <1>3, <1>12, <1>14, <2>2, NoRunIs DEF TargetIsRelease, CurrentIsMigrated, TargetDiffers
    <3>4. GoodKept'
      BY <1>1, <1>5 DEF GoodKept, Tagged
    <3> QED
      BY <1>1, <1>2, <1>7, <1>9, <1>10, <1>13, <1>14, <3>2, <3>3, <3>4, DeployHas, TagsFit
  <2> QED
    BY <2>1, <2>2
<1>15. CASE run'.at = "tag" /\ run'.left = run.left \ {s}
  <2>1. TaggedFits'
    BY <1>15 DEF TaggedFits
  <2>2. TargetIsRelease' /\ CurrentIsMigrated' /\ TargetDiffers'
    BY <1>15, NoRunIs DEF TargetIsRelease, CurrentIsMigrated, TargetDiffers
  <2>3. GoodKept'
    BY <1>1, <1>5 DEF GoodKept, Tagged
  <2> QED
    BY <1>1, <1>2, <1>7, <1>9, <1>10, <1>13, <1>15, <2>1, <2>2, <2>3, DeployHas, TagsFit
<1> QED
  BY <1>2, <1>14, <1>15

\* What was held is let go.
LEMMA DropHeldInv ==
  ASSUME DeployInv, DropHeld
  PROVE  DeployInv'
<1>1. /\ run.at = "drop" /\ saved' = NoRelease
      /\ UNCHANGED <<current, previous, serving, builds, released, interrupts, torn, good,
                     risked, rolled>>
  BY DEF DropHeld, history
<1>2. run' \in Run /\ run'.at = "up"
  <2>1. run' = Enter("up", Services)
    BY DEF DropHeld
  <2> QED
    BY <2>1, DeployHas, Enters DEF RunAt
<1>3. Whole' = Whole
  BY <1>1 DEF Whole
<1>4. TaggedFits' /\ BuiltFits' /\ BothThere'
  BY <1>1, <1>2, <1>3, DeployHas DEF TaggedFits, BuiltFits, BothThere
<1>5. HeldFits' /\ TagFits' /\ RollFits'
  BY <1>2 DEF HeldFits, TagFits, RollFits
<1>6. CurrentIsMigrated' /\ TargetIsRelease' /\ TargetDiffers'
  BY <1>1, <1>2, <1>3, NoRunIs, DeployHas DEF CurrentIsMigrated, TargetIsRelease, TargetDiffers
<1>7. GoodKept'
  BY <1>1, DeployHas DEF TaggedFits, GoodKept, Tagged
<1> QED
  BY <1>1, <1>2, <1>4, <1>5, <1>6, <1>7, NoRunIs, DeployHas, TagsFit

\* A container starts on what :current names.
LEMMA StartContainerInv ==
  ASSUME DeployInv, NEW s \in Services, StartContainer(s)
  PROVE  DeployInv'
<1>1. /\ run.at = "up" /\ s \in run.left
      /\ serving' = [serving EXCEPT ![s] = current[s]]
      /\ run' = PastService(s, Enter("health", {}))
      /\ UNCHANGED <<current, previous, saved, builds, released, interrupts, torn, good,
                     risked, rolled>>
  BY DEF StartContainer, history
<1>2. run' \in Run /\ run'.at \in {"up", "health"}
  BY <1>1, DeployHas, Enters, Passes DEF RunAt
<1>3. Whole' = Whole /\ current \in Whole
  BY <1>1, DeployHas DEF Whole, BuiltFits
<1>4. /\ serving' \in Releases
      /\ \A o \in Services : serving'[o] = serving[o] \/ serving'[o] = current[o]
  BY <1>1, DeployHas DEF Releases
<1>5. TaggedFits' /\ BuiltFits' /\ BothThere'
  BY <1>1, <1>2, <1>3, DeployHas DEF TaggedFits, BuiltFits, BothThere
<1>6. HeldFits' /\ TagFits' /\ RollFits'
  BY <1>2 DEF HeldFits, TagFits, RollFits
<1>7. CurrentIsMigrated' /\ TargetIsRelease' /\ TargetDiffers'
  BY <1>1, <1>2, <1>3, NoRunIs, DeployHas DEF CurrentIsMigrated, TargetIsRelease, TargetDiffers
<1>8. GoodKept'
  BY <1>1, DeployHas DEF GoodKept, Tagged
<1> QED
  BY <1>1, <1>2, <1>3, <1>4, <1>5, <1>6, <1>7, <1>8, DeployHas, TagsFit

\* A deploy ends, healthy or not; a rollback ends.
LEMMA EndRunInv ==
  ASSUME DeployInv, NotHealthy \/ Healthy \/ EndRollback
  PROVE  DeployInv'
<1>1. /\ run.at \in {"up", "health", "restart", "probe"} /\ run' = NoRun
      /\ UNCHANGED <<current, previous, saved, serving, builds, released, interrupts, torn,
                     rolled>>
      /\ \/ good' = good /\ risked' = risked
         \/ good' = current /\ risked' = FALSE
  BY DEF NotHealthy, Healthy, EndRollback, history
<1>2. Whole' = Whole
  BY <1>1 DEF Whole
<1>3. HeldFits' /\ BuiltFits' /\ TagFits' /\ TaggedFits' /\ RollFits' /\ BothThere'
  BY <1>1, NoRunIs, DeployHas DEF HeldFits, BuiltFits, TagFits, TaggedFits, RollFits, BothThere
<1>4. CurrentIsMigrated' /\ TargetIsRelease'
  BY <1>1, <1>2, DeployHas DEF CurrentIsMigrated, TargetIsRelease, BuiltFits, RollFits
<1>5. TargetDiffers'
  BY <1>1, DeployHas DEF TargetDiffers, TaggedFits, RollFits
<1>6. GoodKept'
  BY <1>1, DeployHas DEF GoodKept, Tagged
<1>7. good' \in Releases /\ risked' \in BOOLEAN
  BY <1>1, DeployHas
<1> QED
  BY <1>1, <1>3, <1>4, <1>5, <1>6, <1>7, NoRunIs, DeployHas, TagsFit


\* A rollback begins.
LEMMA BeginRollbackInv ==
  ASSUME DeployInv, BeginRollback
  PROVE  DeployInv'
<1> DEFINE back == [at |-> "retag", left |-> ToRoll, roll |-> ToRoll,
                    apart |-> current # serving]
<1>1. /\ run = NoRun /\ run' = back /\ good' = previous /\ risked' = FALSE
      /\ UNCHANGED <<current, previous, saved, serving, builds, released, interrupts, torn,
                     rolled>>
  BY DEF BeginRollback
<1>2. /\ back \in Run /\ back.at = "retag" /\ back.left = ToRoll /\ back.roll = ToRoll
      /\ back.apart = (current # serving)
  BY DEF Run, RunAt, ToRoll
<1> HIDE DEF back
<1>3. run.at = "rest" /\ Whole' = Whole
  BY <1>1, NoRunIs DEF Whole
<1>4. RollFits'
  BY <1>1, <1>2 DEF RollFits, ToRoll
<1>5. HeldFits' /\ BuiltFits' /\ TagFits' /\ TaggedFits' /\ BothThere'
  BY <1>1, <1>2, DeployHas DEF HeldFits, BuiltFits, TagFits, TaggedFits, BothThere
<1>6. CurrentIsMigrated' /\ TargetIsRelease' /\ TargetDiffers'
  BY <1>1, <1>2, <1>3, NoRunIs, DeployHas DEF CurrentIsMigrated, TargetIsRelease, TargetDiffers
<1>7. GoodKept'
  BY <1>1 DEF GoodKept, Tagged
<1>8. run' \in Run /\ run'.at # "rest" /\ good' \in Releases /\ risked' \in BOOLEAN
  BY <1>1, <1>2, DeployHas
<1> QED
  BY <1>1, <1>4, <1>5, <1>6, <1>7, <1>8, DeployHas, TagsFit

\* A service's :current is its :previous.
LEMMA RetagInv ==
  ASSUME DeployInv, NEW s \in Services, Retag(s)
  PROVE  DeployInv'
<1>1. /\ run.at = "retag" /\ s \in run.left
      /\ current' = [current EXCEPT ![s] = previous[s]]
      /\ rolled' = TRUE
      /\ run' = PastService(s, Enter("restart", run.roll))
      /\ UNCHANGED <<previous, saved, serving, builds, released, interrupts, torn, good, risked>>
  BY DEF Retag, Turn
<1>2. run.roll \in SUBSET Services
  BY DeployHas DEF Run
<1>3. /\ run' \in Run /\ run'.roll = run.roll /\ run'.apart = run.apart
      /\ \/ run'.at = "restart" /\ run'.left = run.roll /\ run.left = {s}
         \/ run'.at = "retag" /\ run'.left = run.left \ {s}
  BY <1>1, <1>2, DeployHas, Enters, Passes DEF RunAt
<1>4. /\ current' \in Releases /\ current'[s] = previous[s]
      /\ \A o \in Services \ {s} : current'[o] = current[o]
  BY <1>1, DeployHas DEF Releases
<1>5. Whole' = Whole
  BY <1>1 DEF Whole
<1>6. /\ \A o \in Services \ (run.left \ {s}) : current'[o] = previous[o]
      /\ good = previous
      /\ run.apart \/ \A o \in Services \ run.roll : serving[o] = previous[o]
  BY <1>1, <1>4, DeployHas DEF RollFits
<1>7. ASSUME run.left = {s}
      PROVE  current' = previous
  BY <1>4, <1>6, <1>7, DeployHas DEF Releases
<1>8. RollFits'
  BY <1>1, <1>3, <1>6, <1>7 DEF RollFits
<1>9. BothThere'
  BY <1>1, <1>4, DeployHas DEF BothThere
<1>10. HeldFits' /\ BuiltFits' /\ TagFits' /\ TaggedFits'
  BY <1>3 DEF HeldFits, BuiltFits, TagFits, TaggedFits
<1>11. CurrentIsMigrated' /\ TargetIsRelease' /\ TargetDiffers'
  BY <1>1, <1>3, <1>5, NoRunIs, DeployHas DEF CurrentIsMigrated, TargetIsRelease, TargetDiffers
<1>12. GoodKept'
  <2>1. good = previous
    BY <1>1, DeployHas DEF RollFits
  <2> QED
    BY <1>1, <2>1 DEF GoodKept, Tagged
<1> QED
  BY <1>1, <1>3, <1>4, <1>8, <1>9, <1>10, <1>11, <1>12, DeployHas, TagsFit

\* A container of a rollback is restarted.
LEMMA RestartInv ==
  ASSUME DeployInv, NEW s \in Services, Restart(s)
  PROVE  DeployInv'
<1>1. /\ run.at = "restart" /\ s \in run.left
      /\ serving' = [serving EXCEPT ![s] = current[s]]
      /\ run' = PastService(s, Enter("probe", {}))
      /\ UNCHANGED <<current, previous, saved, builds, released, interrupts, torn, good,
                     risked, rolled>>
  BY DEF Restart, LeftAlone, history
<1>2. /\ run' \in Run
      /\ \/ run'.at = "probe" /\ run.left = {s}
         \/ /\ run'.at = "restart" /\ run'.left = run.left \ {s}
            /\ run'.apart = run.apart
  BY <1>1, DeployHas, Enters, Passes DEF RunAt
<1>3. /\ current = previous /\ rolled
      /\ run.apart \/ \A o \in Services \ run.left : serving[o] = previous[o]
  BY <1>1, DeployHas DEF RollFits
<1>4. Whole' = Whole /\ current \in Whole
  BY <1>1, <1>3, DeployHas DEF Whole, TargetIsRelease
<1>5. /\ serving' \in Releases /\ serving'[s] = current[s]
      /\ \A o \in Services \ {s} : serving'[o] = serving[o]
  BY <1>1, DeployHas DEF Releases
<1>6. RollFits'
  <2>1. run.apart \/ \A o \in Services \ (run.left \ {s}) : serving'[o] = previous[o]
    BY <1>3, <1>5
  <2> QED
    BY <1>1, <1>2, <1>3, <2>1 DEF RollFits
<1>7. HeldFits' /\ BuiltFits' /\ TagFits' /\ TaggedFits' /\ BothThere'
  BY <1>1, <1>2, DeployHas DEF HeldFits, BuiltFits, TagFits, TaggedFits, BothThere
<1>8. CurrentIsMigrated' /\ TargetIsRelease' /\ TargetDiffers'
  BY <1>1, <1>2, <1>4, NoRunIs, DeployHas DEF CurrentIsMigrated, TargetIsRelease, TargetDiffers
<1>9. GoodKept'
  BY <1>1, DeployHas DEF GoodKept, Tagged
<1>10. \A o \in Services : serving'[o] = serving[o] \/ serving'[o] = current[o]
  BY <1>5
<1> QED
  BY <1>1, <1>2, <1>4, <1>5, <1>6, <1>7, <1>8, <1>9, <1>10, NoRunIs, DeployHas, TagsFit

\* A run is interrupted.
LEMMA InterruptInv ==
  ASSUME DeployInv, Interrupt
  PROVE  DeployInv'
<1>1. /\ run' = NoRun
      /\ interrupts < MaxInterrupts /\ interrupts' = interrupts + 1
      /\ torn' = torn \cup ({current, previous} \ {NoRelease})
      /\ UNCHANGED <<current, previous, saved, serving, builds, released, good, risked, rolled>>
  BY DEF Interrupt
<1>2. current \in Whole' /\ previous \in Whole'
  BY <1>1 DEF Whole
<1>3. interrupts' \in 0..MaxInterrupts /\ torn' \subseteq Releases
  BY <1>1, DeploymentAssumption, DeployHas
<1>4. HeldFits' /\ BuiltFits' /\ TagFits' /\ TaggedFits' /\ RollFits' /\ BothThere'
  BY <1>1, NoRunIs, DeployHas DEF HeldFits, BuiltFits, TagFits, TaggedFits, RollFits, BothThere
<1>5. CurrentIsMigrated' /\ TargetIsRelease' /\ TargetDiffers'
  BY <1>1, <1>2 DEF CurrentIsMigrated, TargetIsRelease, TargetDiffers
<1>6. GoodKept'
  BY <1>1, DeployHas DEF GoodKept, Tagged
<1> QED
  BY <1>1, <1>3, <1>4, <1>5, <1>6, NoRunIs, DeployHas, TagsFit

\* Every step of the scripts.
LEMMA DeployStepInv == DeployInv /\ [DeployNext]_deployVars => DeployInv'
<1> SUFFICES ASSUME DeployInv, [DeployNext]_deployVars
             PROVE  DeployInv'
  OBVIOUS
<1>1. CASE UNCHANGED deployVars
  BY <1>1 DEF deployVars, DeployInv, DeployTypeOK, StartedIsMigrated, CurrentIsMigrated,
     TargetIsRelease, TargetDiffers, GoodKept, Tagged, Whole, RunFits, HeldFits, Held, BuiltFits,
     TagFits, ReleaseChanged, TaggedFits, RollFits, BothThere
<1>2. ASSUME NEW s \in Services,
             \/ Restore(s) \/ TagRelease(s) \/ StartContainer(s) \/ Retag(s) \/ Restart(s)
             \/ \E image \in 1..MaxBuilds : Build(s, image)
      PROVE  DeployInv'
  BY <1>2, RestoreInv, TagReleaseInv, StartContainerInv, RetagInv, RestartInv, BuildInv
<1> QED
  BY <1>1, <1>2, BeginDeployInv, RecoveryInv, MigrateInv, DropHeldInv, EndRunInv,
     BeginRollbackInv, InterruptInv DEF DeployNext

\* A rollback's last restart leaves every service on the target.
LEMMA RollbackStep ==
  DeployInv /\ [DeployNext]_deployVars
    => ((run.at = "restart" /\ run'.at = "probe")
          => run.apart \/ \A s \in Services : serving'[s] = previous[s])
<1> SUFFICES ASSUME DeployInv, [DeployNext]_deployVars, run.at = "restart", run'.at = "probe"
             PROVE  run.apart \/ \A s \in Services : serving'[s] = previous[s]
  OBVIOUS
<1>1. PICK s \in Services : Restart(s)
  <2>1. run' # run /\ run' # NoRun
    BY NoRunIs
  <2> QED
    BY <2>1, NoRunIs DEF DeployNext, deployVars, BeginDeploy, Build, BuildFails, MigrationsFail,
       Migrate, Restore, TagRelease, DropHeld, StartContainer, NotHealthy, Healthy,
       BeginRollback, Retag, EndRollback, Interrupt, Turn
<1>2. /\ s \in run.left /\ run' = PastService(s, Enter("probe", {}))
      /\ serving' = [serving EXCEPT ![s] = current[s]]
  BY <1>1 DEF Restart, LeftAlone
<1>3. run.left = {s}
  BY <1>2, Passes, DeployHas
<1>4. current = previous /\ (run.apart \/ \A o \in Services \ run.left : serving[o] = previous[o])
  BY DeployHas DEF RollFits
<1>5. serving \in [Services -> 0..MaxBuilds]
  BY DeployHas DEF Releases
<1> QED
  BY <1>2, <1>3, <1>4, <1>5

\* Whatever fails, and wherever a deploy is interrupted: the containers run what was
\* migrated, between runs :current is one release and :previous another one to go back
\* to, what was healthy keeps a tag, and a rollback restarts every service on it.
THEOREM DeployKeepsPromises == DeploySpec => DeployPromises
<1> DEFINE Parts == DeployTypeOK /\ StartedIsMigrated /\ CurrentIsMigrated /\ TargetIsRelease
                      /\ TargetDiffers /\ GoodKept
           Rolls == (run.at = "restart" /\ run'.at = "probe")
                      => run.apart \/ \A s \in Services : serving'[s] = previous[s]
<1>1. DeployInit => DeployInv
  <2> SUFFICES ASSUME DeployInit
               PROVE  DeployInv
    OBVIOUS
  <2>1. /\ current = NoRelease /\ previous = NoRelease /\ saved = NoRelease
        /\ serving = NoRelease /\ run = NoRun /\ run.at = "rest"
        /\ builds = 0 /\ released = {} /\ interrupts = 0 /\ torn = {}
        /\ good = NoRelease /\ risked = FALSE /\ rolled = FALSE
    BY NoRunIs DEF DeployInit
  <2>2. DeployTypeOK
    <3>1. 0 \in 0..MaxBuilds /\ 0 \in 0..MaxInterrupts
      BY DeploymentAssumption
    <3>2. {current, previous, saved, serving, good} \subseteq Releases
      BY <2>1, NoRunIs
    <3>3. {risked, rolled} \subseteq BOOLEAN
      BY <2>1
    <3> QED
      BY <2>1, <3>1, <3>2, <3>3, NoRunIs DEF DeployTypeOK, Run, RunAt
  <2>3. StartedIsMigrated /\ CurrentIsMigrated /\ TargetIsRelease /\ TargetDiffers
    BY <2>1 DEF StartedIsMigrated, CurrentIsMigrated, TargetIsRelease, TargetDiffers, Whole
  <2>4. GoodKept
    BY <2>1 DEF GoodKept, Tagged, NoRelease
  <2>5. RunFits
    BY <2>1 DEF RunFits, HeldFits, BuiltFits, TagFits, TaggedFits, RollFits, BothThere, NoRelease
  <2> QED
    BY <2>2, <2>3, <2>4, <2>5 DEF DeployInv
<1>2. DeployInv => Parts
  BY DEF DeployInv
<1>3. DeployInv /\ [DeployNext]_deployVars => Rolls
  BY RollbackStep
<1>4. DeployInv /\ [DeployNext]_deployVars => [Rolls]_deployVars
  BY <1>3
<1> HIDE DEF Parts, Rolls
<1>5. DeploySpec => []Parts /\ [][Rolls]_deployVars
  BY <1>1, <1>2, <1>4, DeployStepInv, PTL DEF DeploySpec
<1> QED
  BY <1>5 DEF DeployPromises, RollbackRestarts, Parts, Rolls
=============================================================================
