--------------------------- MODULE SignInThrottle ---------------------------
(***************************************************************************)
(* The sign-in throttle (apps/web auth.ts, lib/rate-limit.ts; packages/db  *)
(* scripts/retention.ts): password attempts from one address, charged to   *)
(* the address and to the account before the password is looked at, and    *)
(* given back when it was right.                                           *)
(*                                                                         *)
(* Each charge and each refund is a statement of its own; attempts run at  *)
(* the same time and an attempt may die anywhere.  Time is in ticks.       *)
(***************************************************************************)
EXTENDS FiniteSets, Integers

CONSTANTS SignIns,
          Accounts,
          Address,      \* the counter of the address they come from
          AddressLimit, \* 100
          AccountLimit, \* 10
          WindowLength, \* 15 minutes
          KeptFor,      \* 24 hours: the nightly job keeps younger counters
          MaxTime

ASSUME ThrottleAssumption ==
  /\ Address \notin Accounts /\ IsFiniteSet(SignIns)
  /\ {AddressLimit, AccountLimit, WindowLength, KeptFor, MaxTime} \subseteq Nat
  /\ WindowLength > 0 /\ KeptFor > WindowLength

VARIABLES counter, \* rate_limits: each key's window and count
          signIn,  \* each sign-in
          now

throttleVars == <<counter, signIn, now>>
-----------------------------------------------------------------------------
Keys   == Accounts \cup {Address}
Never  == -1
NoRow  == [start |-> Never, count |-> 0]

\* An attempt remembers the window each of its charges was counted in (and when,
\* a ghost); givenBack holds those refunded.
NoCharge == [start |-> Never, made |-> Never]

NotMade == [at |-> "none", account |-> Address,
            charged |-> [k \in {} |-> NoCharge], givenBack |-> {}]

ThrottleInit ==
  /\ counter = [k \in Keys |-> NoRow]
  /\ signIn = [a \in SignIns |-> NotMade]
  /\ now = 0

Limit(k) == IF k = Address THEN AddressLimit ELSE AccountLimit

SignInGoes(a, at) == signIn' = [signIn EXCEPT ![a].at = at]
-----------------------------------------------------------------------------
\* signInWithPassword().
Begin(a, u) ==
  /\ signIn[a].at = "none"
  /\ signIn' = [signIn EXCEPT ![a] = [NotMade EXCEPT !.at = "address", !.account = u]]
  /\ UNCHANGED <<counter, now>>

\* The stored window has aged out, or there is none.
AgedOut(row) == row.start = Never \/ row.start < now - WindowLength

\* rateLimit()'s one statement.
Charged(k) ==
  IF AgedOut(counter[k]) THEN [start |-> now, count |-> 1]
  ELSE [counter[k] EXCEPT !.count = @ + 1]

\* A bug for TLC to find: one more than the limit.
OneTooMany(k) == Charged(k).count <= Limit(k) + 1

Allows(k) == Charged(k).count <= Limit(k)

AfterCharge(at) == IF at = "address" THEN "account" ELSE "password"

KeyOf(a, at) == IF at = "address" THEN Address ELSE signIn[a].account

\* signInAllowed(): the address first, then the account.
Charge(a, at) ==
  LET k == KeyOf(a, at)
      charges == signIn[a].charged
  IN /\ signIn[a].at = at /\ at \in {"address", "account"}
     /\ counter' = [counter EXCEPT ![k] = Charged(k)]
     /\ signIn' = [signIn EXCEPT ![a] = [@ EXCEPT
          !.at = IF Allows(k) THEN AfterCharge(at) ELSE "limited",
          !.charged = [c \in DOMAIN charges \cup {k} |->
            IF c = k THEN [start |-> Charged(k).start, made |-> now] ELSE charges[c]]]]
     /\ UNCHANGED now

AfterPassword(right) == IF right THEN "refund" ELSE "refused"

\* The identity provider answers.
TryPassword(a, right) ==
  /\ signIn[a].at = "password"
  /\ SignInGoes(a, AfterPassword(right))
  /\ UNCHANGED <<counter, now>>

\* A bug for TLC to find: the counter of today for a charge of yesterday.
AnyWindow(a, k) == counter[k].count > 0

\* Another: a counter that was deleted meanwhile is written.
AnyRow(a, k) == TRUE

\* rateLimitRefund()'s WHERE.
SameWindow(a, k) ==
  counter[k].start = signIn[a].charged[k].start /\ counter[k].count > 0

\* The address is refunded first, then the account.
RefundOf(k) == IF k = Address THEN "refund" ELSE "refundAccount"

AfterRefund(at) == IF at = "refund" THEN "refundAccount" ELSE "in"

\* refundSignIn(), one of its refunds.
Refund(a, k) ==
  /\ signIn[a].at = RefundOf(k) /\ k \in DOMAIN signIn[a].charged \ signIn[a].givenBack
  /\ counter' = IF SameWindow(a, k) THEN [counter EXCEPT ![k].count = @ - 1] ELSE counter
  /\ signIn' = [signIn EXCEPT ![a] =
       [@ EXCEPT !.givenBack = signIn[a].givenBack \cup {k},
                 !.at = AfterRefund(signIn[a].at)]]
  /\ UNCHANGED now

\* A charge that fails makes sign-in unavailable; a refund that fails leaves its
\* count one high, and the other is refunded all the same.
AfterFailure(at) ==
  CASE at \in {"address", "account"} -> "unavailable"
    [] at = "password" -> "refused"
    [] at \in {"refund", "refundAccount"} -> AfterRefund(at)

\* A statement fails.  (A process that dies goes no further.)
Fails(a) ==
  /\ signIn[a].at \in {"address", "account", "password", "refund", "refundAccount"}
  /\ SignInGoes(a, AfterFailure(signIn[a].at))
  /\ UNCHANGED <<counter, now>>

\* pruneRateLimits(), at night.
Prune ==
  /\ \E k \in Keys : counter[k].start # Never /\ counter[k].start < now - KeptFor
  /\ counter' = [k \in Keys |-> IF counter[k].start < now - KeptFor THEN NoRow
                                ELSE counter[k]]
  /\ UNCHANGED <<signIn, now>>

Tick ==
  /\ now < MaxTime /\ now' = now + 1
  /\ UNCHANGED <<counter, signIn>>

ThrottleNext ==
  \/ \E a \in SignIns :
       \/ \E u \in Accounts : Begin(a, u)
       \/ \E at \in {"address", "account"} : Charge(a, at)
       \/ \E right \in BOOLEAN : TryPassword(a, right)
       \/ \E k \in Keys : Refund(a, k)
       \/ Fails(a)
  \/ Prune \/ Tick

ThrottleSpec == ThrottleInit /\ [][ThrottleNext]_throttleVars
-----------------------------------------------------------------------------
Times == {Never} \cup 0..MaxTime

\* The values of the counters and the attempts: what was given back was charged.
ThrottleTypeOK ==
  /\ counter \in [Keys -> [start : Times, count : 0..Cardinality(SignIns)]]
  /\ now \in 0..MaxTime
  /\ \A a \in SignIns :
       /\ signIn[a].at \in {"none", "address", "account", "password", "refund",
                             "refundAccount", "limited", "unavailable", "refused", "in"}
       /\ signIn[a].account \in Keys
       /\ DOMAIN signIn[a].charged \subseteq {Address, signIn[a].account}
       /\ signIn[a].givenBack \subseteq DOMAIN signIn[a].charged

\* The attempts charged to a key's window and not given back.
Standing(k, start) ==
  {a \in SignIns : /\ k \in DOMAIN signIn[a].charged \ signIn[a].givenBack
                    /\ signIn[a].charged[k].start = start}

\* A counter says what was charged in its window and not given back, however
\* charges, refunds, roll-overs and the nightly deletion fall together.
CountIsCharges ==
  \A k \in Keys :
    counter[k].start # Never => counter[k].count = Cardinality(Standing(k, counter[k].start))

\* Attempts that were let at a password and did not get it right.
Guesses(k) == {a \in SignIns : /\ signIn[a].at \in {"password", "refused"}
                                /\ k \in DOMAIN signIn[a].charged}

\* Guesses at an account, and from an address, are capped however many run at
\* once: the limit in a window, twice the limit in any stretch as long as one.
GuessesCapped ==
  \A k \in Keys :
    /\ \A s \in Times :
         Cardinality({a \in Guesses(k) : signIn[a].charged[k].start = s}) <= Limit(k)
    /\ \A t \in Times :
         Cardinality({a \in Guesses(k) :
                        signIn[a].charged[k].made \in t..(t + WindowLength)})
           <= 2 * Limit(k)

\* The counters of rate-limit.ts count what happened, and cap what may.
ThrottlePromises == ThrottleTypeOK /\ CountIsCharges /\ GuessesCapped
=============================================================================
