---------------------------- MODULE ScormAttempt ----------------------------
(***************************************************************************)
(* A learner's SCORM record and the players that commit to it: the runtime *)
(* and the player of each launch in a browser (apps/web lib/scorm/         *)
(* runtime.ts, scorm/[id]/player.tsx), the requests between, and the       *)
(* server's upsert (api/scorm/attempts/[id]/route.ts, lib/scorm/store.ts). *)
(*                                                                         *)
(* Requests arrive in any order, or not at all, and their answers are lost *)
(* while the server still works on them.  A commit is known by its launch  *)
(* and its number; its number also stands for the session time it reports. *)
(***************************************************************************)
EXTENDS Integers, Sequences, FiniteSets, FiniteSetsExt

CONSTANTS Launches,       \* sessions: page loads of the module
          NoLaunch,
          LessonStatuses, \* the lesson statuses their commits carry
          MaxCommits,     \* payloads the runtimes number, together
          MaxSends        \* fetches the players make, resends included

ASSUME ScormAssumption ==
  /\ LessonStatuses \subseteq {"incomplete", "failed", "completed", "passed"}
  /\ IsFiniteSet(Launches) /\ NoLaunch \notin Launches
  /\ MaxCommits \in Nat /\ MaxSends \in Nat

VARIABLES player,      \* each launch's runtime and player
          wire,        \* fetches that the server has not finished
          attempt,     \* the learner's scorm_attempts row
          handled,     \* commits the server has recorded or found stale
          finishes,    \* scorm.attempt.finish audit rows of each launch
          interleaved, \* a launch's commit was taken after another launch's
          raced        \* two first commits both found no row

scormVars ==
  <<player, wire, attempt, handled, finishes, interleaved, raced>>
-----------------------------------------------------------------------------
\* STATUS_RANK, without the two a commit of interest never carries.
Rank == [none |-> 0, incomplete |-> 2, failed |-> 3, completed |-> 3, passed |-> 4]

FinishedAs == {"failed", "completed", "passed"}

NoAttempt == [status |-> "none", launch |-> NoLaunch, seq |-> 0, total |-> 0,
              sessions |-> 0, completed |-> FALSE]

\* The player's newest failed send, by the player's own count, and its payload.
NoFailure == [mine |-> 0, seq |-> 0]

Unopened == [phase |-> "idle", sent |-> <<>>, mine |-> 0, ok |-> 0,
             failed |-> NoFailure, overtook |-> FALSE]

ScormInit ==
  /\ player = [l \in Launches |-> Unopened]
  /\ wire = {}
  /\ attempt = NoAttempt
  /\ handled = {}
  /\ finishes = [l \in Launches |-> 0]
  /\ interleaved = FALSE
  /\ raced = FALSE

\* How many payloads the runtimes have numbered, how often the players have sent.
Committed == Cardinality({c \in Launches \X (1..MaxCommits) : c[2] <= Len(player[c[1]].sent)})
Fetched   == MapThenSumSet(LAMBDA l : player[l].mine, Launches)

recordRow == <<attempt, handled, finishes, interleaved, raced>>

\* A fetch: the payload's number, the player's own, where the server is with it,
\* whether it was newer, and whether the player has given up on it.
Fetch(l, seq, mine) ==
  [l |-> l, seq |-> seq, mine |-> mine, at |-> "sent", heard |-> FALSE]
-----------------------------------------------------------------------------
\* LMSInitialize().
Initialize(l) ==
  /\ player[l].phase = "idle"
  /\ player' = [player EXCEPT ![l].phase = "running"]
  /\ UNCHANGED <<wire, recordRow>>

\* LMSCommit(), LMSFinish(), or the flush of a page that is hidden, left or back
\* online: the current state, numbered.
Commits(l, status, final) ==
  LET p == player[l]
  IN /\ p.phase = "running" /\ Committed < MaxCommits /\ Fetched < MaxSends
     /\ player' = [player EXCEPT
          ![l] = [p EXCEPT !.sent = Append(p.sent, status), !.mine = p.mine + 1,
                           !.phase = IF final THEN "finished" ELSE "running"]]
     /\ wire' = wire \cup {Fetch(l, Len(p.sent) + 1, p.mine + 1)}
     /\ UNCHANGED recordRow

\* Back online, the session finished: the lost payload again, under its number.
\* The player counts it as its newest send, though a newer payload may still be
\* on its way (overtook, a ghost).
ResendOlder(l) ==
  LET p == player[l]
  IN /\ p.phase = "finished" /\ p.failed # NoFailure /\ Fetched < MaxSends
     /\ player' = [player EXCEPT
          ![l] = [p EXCEPT !.mine = p.mine + 1,
                           !.overtook = p.overtook \/ p.failed.seq < Len(p.sent)]]
     /\ wire' = wire \cup {Fetch(l, p.failed.seq, p.mine + 1)}
     /\ UNCHANGED recordRow
-----------------------------------------------------------------------------
StatusOf(r) == player[r.l].sent[r.seq]

\* Whether a commit is the LMSFinish of its launch.
IsFinal(r) ==
  player[r.l].phase = "finished" /\ r.seq = Len(player[r.l].sent)

\* A bug for TLC to find: a new session's commit compared by number too.
HigherOnly(r) == r.seq > attempt.seq

\* Whether the upsert takes a commit for newer than the row.
Newer(r) == r.l # attempt.launch \/ r.seq > attempt.seq

\* Bugs for TLC to find: the newest outcome kept instead of the best; the time
\* of the session folded in with each of its commits.
LatestWins(r) == Newer(r)
FoldAlways(r) == attempt.total + attempt.seq

\* A lower status never replaces a higher one.
Better(r) == Newer(r) /\ Rank[StatusOf(r)] >= Rank[attempt.status]

\* A new session folds the time of the one before into the total.
Total(r) == IF r.l # attempt.launch THEN attempt.total + attempt.seq ELSE attempt.total

Upserted(r) ==
  [status    |-> IF Better(r) THEN StatusOf(r) ELSE attempt.status,
   launch    |-> r.l,
   seq       |-> IF Newer(r) THEN r.seq ELSE attempt.seq,
   total     |-> Total(r),
   sessions  |-> IF r.l # attempt.launch THEN attempt.sessions + 1 ELSE attempt.sessions,
   completed |-> attempt.completed \/ (Better(r) /\ StatusOf(r) \in FinishedAs)]

\* A bug for TLC to find: every LMSFinish that arrives is audited.
RecordAnyFinish(r, newer) ==
  /\ attempt' = Upserted(r)
  /\ handled' = handled \cup {<<r.l, r.seq>>}
  /\ finishes' = IF IsFinal(r) THEN [finishes EXCEPT ![r.l] = @ + 1] ELSE finishes
  /\ interleaved' = \/ interleaved
                    \/ r.l # attempt.launch /\ \E c \in handled : c[1] = r.l

\* upsertCommit(), and the audit of a finish that commitAttempt() calls newer.
WriteCommit(r, newer) ==
  /\ attempt' = Upserted(r)
  /\ handled' = handled \cup {<<r.l, r.seq>>}
  /\ finishes' = IF IsFinal(r) /\ newer THEN [finishes EXCEPT ![r.l] = @ + 1] ELSE finishes
  /\ interleaved' = \/ interleaved
                    \/ r.l # attempt.launch /\ \E c \in handled : c[1] = r.l

Step(r, at) == wire' = (wire \ {r}) \cup {[r EXCEPT !.at = at]}

\* commitAttempt() with a row to lock: one step.
RecordUnderLock(r) ==
  /\ r \in wire /\ r.at = "sent" /\ attempt # NoAttempt
  /\ WriteCommit(r, Newer(r))
  /\ Step(r, "done")
  /\ UNCHANGED <<player, raced>>

\* Without one there is nothing to lock: another first commit comes between the
\* look and the upsert, and each is told it was newer.
FindNoRow(r) ==
  /\ r \in wire /\ r.at = "sent" /\ attempt = NoAttempt
  /\ Step(r, "first")
  /\ raced' = (raced \/ \E other \in wire : other.at = "first")
  /\ UNCHANGED <<player, attempt, handled, finishes, interleaved>>

RecordFirst(r) ==
  /\ r \in wire /\ r.at = "first"
  /\ WriteCommit(r, TRUE)
  /\ Step(r, "done")
  /\ UNCHANGED <<player, raced>>

\* The request is lost, or refused, or fails in the server.
LoseFetch(r) ==
  /\ r \in wire /\ r.at # "done" /\ r.heard
  /\ wire' = wire \ {r}
  /\ UNCHANGED <<player, recordRow>>

\* A bug for TLC to find: any success clears the warning, an older one's too.
HearsAny(r) ==
  LET p == player[r.l]
  IN /\ r \in wire /\ r.at = "done"
     /\ wire' = wire \ {r}
     /\ IF ~r.heard
          THEN player' = [player EXCEPT
                 ![r.l] = [p EXCEPT !.ok = IF r.mine > p.ok THEN r.mine ELSE p.ok,
                                    !.failed = NoFailure]]
          ELSE UNCHANGED player
     /\ UNCHANGED recordRow

\* The answer: ok.
Hears(r) ==
  LET p == player[r.l]
  IN /\ r \in wire /\ r.at = "done"
     /\ wire' = wire \ {r}
     /\ IF ~r.heard
          THEN player' = [player EXCEPT
                 ![r.l] = [p EXCEPT !.ok = IF r.mine > p.ok THEN r.mine ELSE p.ok,
                                    !.failed = IF p.failed.mine <= r.mine
                                                 THEN NoFailure ELSE p.failed]]
          ELSE UNCHANGED player
     /\ UNCHANGED recordRow

\* A bug for TLC to find: a failure reported only while none is.
FirstFailureOnly(p, r) == r.mine > p.ok /\ p.failed = NoFailure

\* lost(): only the newest failure matters, and none older than a success.
IsLost(p, r) == r.mine > p.ok /\ r.mine > p.failed.mine

\* The fetch fails in the browser, whatever becomes of it in the server.
FetchGivesUp(r) ==
  LET p == player[r.l]
  IN /\ r \in wire /\ ~r.heard
     /\ wire' = (wire \ {r}) \cup {[r EXCEPT !.heard = TRUE]}
     /\ IF IsLost(p, r)
          THEN player' = [player EXCEPT
                 ![r.l] = [p EXCEPT !.failed = [mine |-> r.mine, seq |-> r.seq]]]
          ELSE UNCHANGED player
     /\ UNCHANGED recordRow

ScormNext ==
  \/ \E l \in Launches :
       \/ Initialize(l) \/ ResendOlder(l)
       \/ \E status \in LessonStatuses, final \in BOOLEAN : Commits(l, status, final)
  \/ \E r \in wire :
       \/ RecordUnderLock(r) \/ FindNoRow(r) \/ RecordFirst(r)
       \/ LoseFetch(r) \/ Hears(r) \/ FetchGivesUp(r)

ScormSpec == ScormInit /\ [][ScormNext]_scormVars
-----------------------------------------------------------------------------
\* The values of the row, of the players and of what is between them.
ScormTypeOK ==
  /\ \A l \in Launches :
       /\ player[l].phase \in {"idle", "running", "finished"}
       /\ player[l].sent \in Seq(LessonStatuses)
       /\ player[l].ok \in 0..player[l].mine
       /\ player[l].overtook \in BOOLEAN
       /\ player[l].failed \in [mine : 0..player[l].mine, seq : 0..Len(player[l].sent)]
  /\ \A r \in wire : /\ r.l \in Launches
                     /\ r.seq \in 1..Len(player[r.l].sent)
                     /\ r.mine \in 1..player[r.l].mine
                     /\ r.at \in {"sent", "first", "done"} /\ r.heard \in BOOLEAN
  /\ attempt.status \in DOMAIN Rank
  /\ attempt.launch \in Launches \cup {NoLaunch}
  /\ handled \subseteq Launches \X (1..MaxCommits)
  /\ finishes \in [Launches -> Nat]

\* The units of session time reported in commits the server has seen.
Reported ==
  {c \in Launches \X (1..MaxCommits) : \E n \in c[2]..MaxCommits : <<c[1], n>> \in handled}

\* In whatever order commits arrive, the record is no worse than the last word
\* of any launch the server has heard it from.
LastWordCounts ==
  \A l \in Launches :
    LET n == Len(player[l].sent)
    IN (n > 0 /\ <<l, n>> \in handled) => Rank[attempt.status] >= Rank[player[l].sent[n]]

\* Every unit of session time counts once: the row's total and its current
\* session add up to all that was reported, unless launches interleave.
TimeCountsOnce ==
  interleaved \/ attempt.total + attempt.seq = Cardinality(Reported)

\* LMSFinish is audited once, unless launches interleave or its first sending
\* and its second both found no row.
FinishAuditedOnce ==
  \A l \in Launches : finishes[l] <= 1 \/ interleaved \/ raced

\* A player that waits for nothing and shows no warning has had its newest
\* commit recorded, whichever of its sends failed, and in whichever order it
\* learned of them; except after it sent an older payload again while a newer
\* one was on its way, whose failure it then takes for old news.
NoSilentLoss ==
  \A l \in Launches :
    LET p == player[l]
    IN (/\ p.sent # <<>>
        /\ p.failed = NoFailure /\ \A r \in wire : r.l = l => r.heard)
       => p.overtook \/ <<l, Len(p.sent)>> \in handled

\* The record never gets worse, and never forgets that it was finished.
NeverWorse ==
  [][/\ Rank[attempt'.status] >= Rank[attempt.status]
     /\ attempt.completed => attempt'.completed
     /\ attempt'.launch = attempt.launch => attempt'.seq >= attempt.seq]_scormVars

\* Whatever commits are lost, doubled, reordered or sent from two launches, the
\* record is the best the server heard, and the learner is told of what it did not.
ScormPromises ==
  /\ [](ScormTypeOK /\ LastWordCounts /\ TimeCountsOnce /\ FinishAuditedOnce /\ NoSilentLoss)
  /\ NeverWorse
=============================================================================
