-------------------------- MODULE AccountRequests --------------------------
(***************************************************************************)
(* "Request an account": requests from one address, and the approvers who  *)
(* decide them (apps/web lib/approvals/account-requests.ts and             *)
(* handlers/account-request.ts, through decideApproval of                  *)
(* lib/approvals/index.ts).                                                *)
(*                                                                         *)
(* An approval is a saga: the identity provider makes the login, one       *)
(* transaction makes the profile and claims the request, another decides,  *)
(* and whatever fails is undone by a third and a call to the provider.     *)
(* Any of these may fail, may be done and its answer lost, or may be the   *)
(* last thing the process does.                                            *)
(***************************************************************************)
EXTENDS FiniteSets

CONSTANTS Approvers,    \* approvals and rejections in flight
          Applications, \* account_requests rows from the address
          Logins,       \* the ids the provider may give
          NoLogin, NoItem

ASSUME AccountAssumption == NoLogin \notin Logins /\ NoItem \notin Applications

VARIABLES application, \* account_requests.status
          queued,      \* the status of its row in approvals
          created,     \* account_requests.created_user_id
          login,       \* the provider's accounts for the address
          profile,     \* public.users, with the teachers row beside it
          deciding,    \* each approver's handler
          mislaid,     \* logins whose maker died, or never heard they were made
          told,        \* logins an approver was told are left behind
          unheard      \* approvals committed whose answer was lost

accountVars ==
  <<application, queued, created, login, profile, deciding, mislaid, told, unheard>>
-----------------------------------------------------------------------------
RequestStates == {"none", "pending", "approved", "rejected"}

LoginStates == {"unused", "live", "deleted"}

ProfileStates == {"none", "inactive", "active"}

\* Where an approval or a rejection is between two calls.
DecidingAt == {"none", "create", "claim", "decide", "undo", "remove", "reject"}

NotDeciding == [at |-> "none", item |-> NoItem, id |-> NoLogin]

Live == {i \in Logins : login[i] = "live"}

AccountInit ==
  /\ application = [r \in Applications |-> "none"]
  /\ queued  = [r \in Applications |-> "none"]
  /\ created = [r \in Applications |-> NoLogin]
  /\ login   = [i \in Logins |-> "unused"]
  /\ profile = [i \in Logins |-> "none"]
  /\ deciding = [a \in Approvers |-> NotDeciding]
  /\ mislaid = {}
  /\ told = {}
  /\ unheard = {}

DecisionAt(a, step) == deciding' = [deciding EXCEPT ![a].at = step]

EndDecision(a) == deciding' = [deciding EXCEPT ![a] = NotDeciding]

applicationRows   == <<application, queued, created>>
people == <<login, profile>>
fates  == <<mislaid, told, unheard>>
-----------------------------------------------------------------------------
\* submitAccountRequest(): the request and its row in the queue, together; the
\* unique index allows one pending request of the address.
SubmitRequest(r) ==
  /\ application[r] = "none"
  /\ \A other \in Applications : application[other] # "pending"
  /\ application' = [application EXCEPT ![r] = "pending"]
  /\ queued'  = [queued EXCEPT ![r] = "pending"]
  /\ UNCHANGED <<created, people, deciding, fates>>

\* loadPending().
Loaded(r) == queued[r] = "pending" /\ application[r] = "pending"

\* approveAccountRequest() up to the provider: the request is pending, and no
\* profile has the address.
BeginApproval(a, r) ==
  /\ deciding[a].at = "none"
  /\ Loaded(r)
  /\ \A i \in Logins : profile[i] = "none"
  /\ deciding' = [deciding EXCEPT ![a] = [at |-> "create", item |-> r, id |-> NoLogin]]
  /\ UNCHANGED <<applicationRows, people, fates>>

\* The provider refuses, as it must a second login of an address
\* (email_exists), or fails.
ProviderRefuses(a) ==
  /\ deciding[a].at = "create"
  /\ EndDecision(a)
  /\ UNCHANGED <<applicationRows, people, fates>>

\* createUser(): the trigger writes an inactive profile with it.  When the
\* answer is lost the handler takes it that no login was made.
ProviderCreates(a, i, answered) ==
  /\ deciding[a].at = "create"
  /\ Live = {} /\ login[i] = "unused"
  /\ login'   = [login EXCEPT ![i] = "live"]
  /\ profile' = [profile EXCEPT ![i] = "inactive"]
  /\ IF answered
       THEN /\ deciding' = [deciding EXCEPT ![a] = [@ EXCEPT !.at = "claim", !.id = i]]
            /\ UNCHANGED mislaid
       ELSE /\ EndDecision(a)
            /\ mislaid' = mislaid \cup {i}
  /\ UNCHANGED <<applicationRows, told, unheard>>

\* What the claim's WHERE asks of the request.
Unclaimed(r) == application[r] = "pending" /\ created[r] = NoLogin

\* A bug for TLC to find: a lost claim answered like a request already decided.
ClaimOrGiveUp(a, answered) ==
  LET r == deciding[a].item
      i == deciding[a].id
  IN /\ deciding[a].at = "claim"
     /\ IF Unclaimed(r)
          THEN /\ profile' = [profile EXCEPT ![i] = "active"]
               /\ created' = [created EXCEPT ![r] = i]
               /\ DecisionAt(a, IF answered THEN "decide" ELSE "undo")
          ELSE EndDecision(a) /\ UNCHANGED <<profile, created>>
     /\ UNCHANGED <<application, queued, login, fates>>

\* The transaction that makes the profile what was asked for and claims the
\* request for it: done, refused (RequestTaken) or failed, or done and unanswered.
Claim(a, answered) ==
  LET r == deciding[a].item
      i == deciding[a].id
  IN /\ deciding[a].at = "claim"
     /\ IF Unclaimed(r)
          THEN /\ profile' = [profile EXCEPT ![i] = "active"]
               /\ created' = [created EXCEPT ![r] = i]
               /\ DecisionAt(a, IF answered THEN "decide" ELSE "undo")
          ELSE /\ DecisionAt(a, "undo")
               /\ UNCHANGED <<profile, created>>
     /\ UNCHANGED <<application, queued, login, fates>>

\* A bug for TLC to find: a rejection that only looks at the status.
TakesAnyRejection(r) == application[r] = "pending"

\* What the handler's onDecision asks of the request: an approval a recorded
\* login, a rejection none.
TakesApproval(r)  == application[r] = "pending" /\ created[r] # NoLogin
TakesRejection(r) == application[r] = "pending" /\ created[r] = NoLogin

\* decideApproval(): the row of the queue and, through onDecision, the request,
\* or neither.
DecideBoth(r, decision) ==
  /\ queued'  = [queued EXCEPT ![r] = decision]
  /\ application' = [application EXCEPT ![r] = decision]

\* A bug for TLC to find: the audit in the same try as the decision.
DecideAndAudit(a, answered) ==
  LET r == deciding[a].item
  IN /\ deciding[a].at = "decide"
     /\ queued[r] = "pending" /\ TakesApproval(r)
     /\ DecideBoth(r, "approved")
     /\ IF answered THEN EndDecision(a) ELSE DecisionAt(a, "undo")
     /\ UNCHANGED <<created, people, fates>>

DecideApproved(a, answered) ==
  LET r == deciding[a].item
  IN /\ deciding[a].at = "decide"
     /\ IF queued[r] = "pending" /\ TakesApproval(r)
          THEN /\ DecideBoth(r, "approved")
               /\ IF answered
                    THEN EndDecision(a) /\ UNCHANGED unheard
                    ELSE DecisionAt(a, "undo") /\ unheard' = unheard \cup {r}
          ELSE /\ DecisionAt(a, "undo")
               /\ UNCHANGED <<application, queued, unheard>>
     /\ UNCHANGED <<created, people, mislaid, told>>

\* A bug for TLC to find: an undo that fails and nobody told.
StepFailsQuietly(a) ==
  /\ \/ deciding[a].at \in {"claim", "decide"} /\ DecisionAt(a, "undo")
     \/ deciding[a].at \in {"undo", "remove"} /\ EndDecision(a)
  /\ UNCHANGED <<applicationRows, people, fates>>

\* Any of the handler's transactions may fail: the login is undone, or the
\* undoing is given up and the approver told.
StepFails(a) ==
  /\ \/ /\ deciding[a].at \in {"claim", "decide"}
        /\ DecisionAt(a, "undo")
        /\ UNCHANGED told
     \/ /\ deciding[a].at \in {"undo", "remove"}
        /\ EndDecision(a)
        /\ told' = told \cup {deciding[a].id}
  /\ UNCHANGED <<applicationRows, people, mislaid, unheard>>

\* undoLogin()'s transaction clears the claim of a pending request, and deleting
\* the profile clears created_user_id wherever it stands (ON DELETE SET NULL).
Release(i) == [r \in Applications |-> IF created[r] = i THEN NoLogin ELSE created[r]]

UndoProfile(a, answered) ==
  LET i == deciding[a].id
  IN /\ deciding[a].at = "undo"
     /\ created' = Release(i)
     /\ profile' = [profile EXCEPT ![i] = "none"]
     /\ IF answered THEN DecisionAt(a, "remove") /\ UNCHANGED told
                    ELSE EndDecision(a) /\ told' = told \cup {i}
     /\ UNCHANGED <<application, queued, login, mislaid, unheard>>

\* Its call to the provider.
RemoveLogin(a, answered) ==
  LET i == deciding[a].id
  IN /\ deciding[a].at = "remove"
     /\ login' = [login EXCEPT ![i] = "deleted"]
     /\ told' = IF answered THEN told ELSE told \cup {i}
     /\ EndDecision(a)
     /\ UNCHANGED <<applicationRows, profile, mislaid, unheard>>

\* rejectAccountRequest(): loadPending(), then the decision.
BeginRejection(a, r) ==
  /\ deciding[a].at = "none"
  /\ Loaded(r)
  /\ deciding' = [deciding EXCEPT ![a] = [at |-> "reject", item |-> r, id |-> NoLogin]]
  /\ UNCHANGED <<applicationRows, people, fates>>

DecideRejected(a) ==
  LET r == deciding[a].item
  IN /\ deciding[a].at = "reject"
     /\ IF queued[r] = "pending" /\ TakesRejection(r)
          THEN DecideBoth(r, "rejected")
          ELSE UNCHANGED <<application, queued>>
     /\ EndDecision(a)
     /\ UNCHANGED <<created, people, fates>>

\* The process dies.
ApproverDies(a) ==
  /\ deciding[a].at # "none"
  /\ EndDecision(a)
  /\ mislaid' = mislaid \cup ({deciding[a].id} \ {NoLogin})
  /\ UNCHANGED <<applicationRows, people, told, unheard>>

AccountNext ==
  \/ \E r \in Applications : SubmitRequest(r)
  \/ \E a \in Approvers :
       \/ \E r \in Applications : BeginApproval(a, r) \/ BeginRejection(a, r)
       \/ ProviderRefuses(a)
       \/ \E i \in Logins, answered \in BOOLEAN : ProviderCreates(a, i, answered)
       \/ \E answered \in BOOLEAN :
            \/ Claim(a, answered) \/ DecideApproved(a, answered)
            \/ UndoProfile(a, answered) \/ RemoveLogin(a, answered)
       \/ StepFails(a)
       \/ DecideRejected(a)
       \/ ApproverDies(a)

AccountSpec == AccountInit /\ [][AccountNext]_accountVars
-----------------------------------------------------------------------------
\* The values of the rows and of the handlers' local state.
AccountTypeOK ==
  /\ application \in [Applications -> RequestStates]
  /\ queued \in [Applications -> RequestStates]
  /\ created \in [Applications -> Logins \cup {NoLogin}]
  /\ login \in [Logins -> LoginStates]
  /\ profile \in [Logins -> ProfileStates]
  /\ deciding \in [Approvers -> [at : DecidingAt, item : Applications \cup {NoItem},
                                 id : Logins \cup {NoLogin}]]
  /\ mislaid \subseteq Logins
  /\ told \subseteq Logins
  /\ unheard \subseteq Applications

\* An approved request has the login it was approved with, active, whoever
\* rejected, crashed or was undone beside it; except when the decision was
\* committed and its answer lost, for then the handler undoes the login of a
\* request it has approved.
ApprovedHasLogin ==
  \A r \in Applications : application[r] = "approved" =>
    \/ \E i \in Logins : created[r] = i /\ login[i] = "live" /\ profile[i] = "active"
    \/ r \in unheard

\* No login stands behind a rejected request, not even for the moment between a
\* claim and its decision.
RejectedHasNoLogin ==
  \A r \in Applications : application[r] = "rejected" => created[r] = NoLogin

\* A login of the address that no approved request owns is being worked on, or
\* an approver was told it was left behind, or its fate was lost with an answer
\* or a process: nothing else leaves a login lying about.
NoStrayLogin ==
  \A i \in Live :
    \/ \E r \in Applications : application[r] = "approved" /\ created[r] = i
    \/ \E a \in Approvers : deciding[a].id = i
    \/ i \in told \cup mislaid

\* approveAccountRequest(), its undo, a rejection beside it and a crash anywhere
\* leave no request whose verdict and login disagree without somebody told.
AccountPromises ==
  AccountTypeOK /\ ApprovedHasLogin /\ RejectedHasNoLogin /\ NoStrayLogin
=============================================================================
