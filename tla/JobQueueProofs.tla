--------------------------- MODULE JobQueueProofs ---------------------------
(***************************************************************************)
(* Proofs about JobQueue, for any number of jobs, keys, loops, processes,  *)
(* shutdowns and stalls.  The inductive invariant is QueueInv.             *)
(***************************************************************************)
EXTENDS JobQueue, TLAPS

(***************************************************************************)
(* What the SQL statements do to a row: their results are rows, and        *)
(* consistent ones.                                                        *)
(***************************************************************************)

\* claim() puts a consistent row on the claimer's lease.
LEMMA ClaimedRowFacts ==
  ASSUME NEW row \in Row, NEW c \in Consumers, row.status = "queued", Consistent(row)
  PROVE  /\ ClaimedRow(row, c) \in Row
         /\ Consistent(ClaimedRow(row, c))
         /\ ClaimedRow(row, c).status = "running"
         /\ ClaimedRow(row, c).by = c
         /\ ClaimedRow(row, c).lease = "live"
         /\ ClaimedRow(row, c).attempts = row.attempts + 1
         /\ ClaimedRow(row, c).key = row.key
<1>1. row.attempts + 1 \in Nat
  BY DEF Row
<1>2. ClaimedRow(row, c) \in Row
  BY <1>1 DEF Row, ClaimedRow, RowStatus, LeaseState
<1>3. /\ ClaimedRow(row, c).status = "running" /\ ClaimedRow(row, c).by = c
      /\ ClaimedRow(row, c).lease = "live" /\ ClaimedRow(row, c).key = row.key
      /\ ClaimedRow(row, c).attempts = row.attempts + 1
  BY DEF Row, ClaimedRow
<1>4. Consistent(ClaimedRow(row, c))
  BY <1>3 DEF Consistent
<1> QED
  BY <1>2, <1>3, <1>4

\* Taking a job off its worker leaves a consistent row, whichever status it is
\* given.
LEMMA UnlockedFacts ==
  ASSUME NEW row \in Row, NEW s \in {"queued", "succeeded", "dead"},
         row.status # "absent", Consistent(row)
  PROVE  /\ Unlocked(row, s) \in Row
         /\ Consistent(Unlocked(row, s))
         /\ Unlocked(row, s).status = s
         /\ Unlocked(row, s).key = row.key
         /\ Unlocked(row, s).attempts = row.attempts
         /\ Unlocked(row, s).due = row.due
  BY DEF Row, Unlocked, Consistent, RowStatus, LeaseState

\* fail() requeues behind a backoff or dead-letters.
LEMMA FailedRowFacts ==
  ASSUME NEW row \in Row, NEW again \in BOOLEAN, row.status # "absent", Consistent(row)
  PROVE  /\ FailedRow(row, again) \in Row
         /\ Consistent(FailedRow(row, again))
         /\ FailedRow(row, again).status = IF again THEN "queued" ELSE "dead"
         /\ FailedRow(row, again).key = row.key
         /\ FailedRow(row, again).attempts = row.attempts
         /\ again => ~FailedRow(row, again).due
  BY DEF Row, FailedRow, Unlocked, Consistent, RowStatus, LeaseState

\* release() requeues, with one attempt less.
LEMMA ReleasedRowFacts ==
  ASSUME NEW row \in Row, row.status # "absent", Consistent(row)
  PROVE  /\ ReleasedRow(row) \in Row
         /\ Consistent(ReleasedRow(row))
         /\ ReleasedRow(row).status = "queued"
         /\ ReleasedRow(row).key = row.key
         /\ ReleasedRow(row).attempts = IF row.attempts > 0 THEN row.attempts - 1 ELSE 0
<1> DEFINE left == IF row.attempts > 0 THEN row.attempts - 1 ELSE 0
<1>1. left \in Nat
  BY DEF Row
<1>2. ReleasedRow(row) = [Unlocked(row, "queued") EXCEPT !.attempts = left, !.due = TRUE]
  BY UnlockedFacts DEF ReleasedRow, Row
<1> HIDE DEF left
<1>3. ReleasedRow(row) \in Row
  BY <1>1, <1>2 DEF Row, Unlocked, RowStatus, LeaseState
<1>4. /\ ReleasedRow(row).status = "queued" /\ ReleasedRow(row).key = row.key
      /\ ReleasedRow(row).attempts = left
      /\ ReleasedRow(row).lease = "none" /\ ReleasedRow(row).by = NoOne
  BY <1>2 DEF Row, Unlocked
<1>5. Consistent(ReleasedRow(row))
  BY <1>4 DEF Consistent
<1> QED
  BY <1>3, <1>4, <1>5 DEF left

\* The reaper requeues a row with attempts left, and dead-letters the others.
LEMMA ReapedRowFacts ==
  ASSUME NEW row \in Row, NEW max \in Nat, row.status # "absent", Consistent(row)
  PROVE  /\ ReapedRow(row, max) \in Row
         /\ Consistent(ReapedRow(row, max))
         /\ ReapedRow(row, max).status = IF row.attempts >= max THEN "dead" ELSE "queued"
         /\ ReapedRow(row, max).key = row.key
         /\ ReapedRow(row, max).attempts = row.attempts
  BY DEF Row, ReapedRow, Unlocked, Consistent, RowStatus, LeaseState

\* enqueue() inserts a live row with no attempt made.
LEMMA NewRowFacts ==
  ASSUME NEW k \in Keys
  PROVE  /\ NewRow(k) \in Row
         /\ Consistent(NewRow(k))
         /\ NewRow(k).status = "queued"
         /\ NewRow(k).key = k
         /\ NewRow(k).attempts = 0
  BY JobQueueAssumption DEF Row, NewRow, NoRow, Consistent, RowStatus, LeaseState
-----------------------------------------------------------------------------
(***************************************************************************)
(* What the statements that depend on the state do to the row.             *)
(***************************************************************************)

\* release(), fence included, keeps the key and whether the row is live.
LEMMA AfterReleaseFacts ==
  ASSUME TypeOK, RowsConsistent, NEW c \in Consumers, NEW j \in Jobs
  PROVE  /\ AfterRelease(c, j) \in Row
         /\ Consistent(AfterRelease(c, j))
         /\ AfterRelease(c, j).key = jobs[j].key
         /\ Live(AfterRelease(c, j)) <=> Live(jobs[j])
<1>1. jobs[j] \in Row /\ Consistent(jobs[j])
  BY DEF TypeOK, RowsConsistent
<1>2. CASE Releasable(jobs[j], c)
  BY <1>1, <1>2, ReleasedRowFacts DEF AfterRelease, Releasable, Live
<1>3. CASE ~Releasable(jobs[j], c)
  BY <1>1, <1>3 DEF AfterRelease
<1> QED
  BY <1>2, <1>3

\* The outcome's UPDATE writes a consistent row of the same key.
LEMMA AfterOutcomeFacts ==
  ASSUME TypeOK, RowsConsistent, NEW c \in Consumers, JobOf(c) \in Jobs
  PROVE  /\ AfterOutcome(c) \in Row
         /\ Consistent(AfterOutcome(c))
         /\ AfterOutcome(c).key = jobs[JobOf(c)].key
<1> DEFINE row == jobs[JobOf(c)]
<1>1. row \in Row /\ Consistent(row)
  BY DEF TypeOK, RowsConsistent
<1>2. CASE row.status = "absent"
  <2>1. AfterOutcome(c) = row
    BY <1>2 DEF AfterOutcome
  <2> QED
    BY <1>1, <2>1
<1>3. CASE row.status # "absent" /\ cons[c].outcome = "ok"
  BY <1>1, <1>3, UnlockedFacts DEF AfterOutcome, SucceededRow
<1>4. CASE row.status # "absent" /\ cons[c].outcome = "interrupted"
  BY <1>1, <1>4, AfterReleaseFacts DEF AfterOutcome
<1>5. CASE row.status # "absent" /\ cons[c].outcome \notin {"ok", "interrupted"}
  <2>1. Retrying(c) \in BOOLEAN
    BY DEF Retrying, WillRetry
  <2>2. AfterOutcome(c) = FailedRow(row, Retrying(c))
    BY <1>5 DEF AfterOutcome
  <2> QED
    BY <1>1, <1>5, <2>1, <2>2, FailedRowFacts
<1> QED
  BY <1>2, <1>3, <1>4, <1>5

\* The reaper's UPDATE, row by row: only lapsed running rows change.
LEMMA ReapedJobsFacts ==
  ASSUME TypeOK, RowsConsistent, NEW j \in Jobs
  PROVE  LET row == ReapedJobs[j]
             max == MaxAttempts[jobs[j].key]
         IN  /\ row \in Row /\ Consistent(row)
             /\ row.key = jobs[j].key
             /\ Live(row) => Live(jobs[j])
             /\ row # jobs[j] =>
                  /\ jobs[j].status = "running" /\ jobs[j].lease = "lapsed"
                  /\ row.attempts = jobs[j].attempts
                  /\ max \in Nat
                  /\ row.status = IF jobs[j].attempts >= max THEN "dead" ELSE "queued"
<1>1. jobs[j] \in Row /\ Consistent(jobs[j])
  BY DEF TypeOK, RowsConsistent
<1>2. CASE j \in Lapsed
  <2>1. jobs[j].status = "running" /\ jobs[j].lease = "lapsed"
    BY <1>2 DEF Lapsed, Reapable
  <2>2. MaxAttempts[jobs[j].key] \in Nat
    BY <1>1, <2>1, JobQueueAssumption DEF Consistent
  <2>3. ReapedJobs[j] = ReapedRow(jobs[j], MaxAttempts[jobs[j].key])
    BY <1>2 DEF ReapedJobs
  <2> QED
    BY <1>1, <2>1, <2>2, <2>3, ReapedRowFacts DEF Live
<1>3. CASE j \notin Lapsed
  BY <1>1, <1>3 DEF ReapedJobs
<1> QED
  BY <1>2, <1>3

\* The state a loop is left in by a try that failed.
LEMMA NextTryFacts ==
  ASSUME TypeOK, NEW c \in Consumers, NEW landed \in BOOLEAN
  PROVE  NextTry(c, landed) \in ConsumerState
<1>1. cons[c] \in ConsumerState
  BY DEF TypeOK
<1>2. CASE cons[c].tries + 1 < OutcomeWriteAttempts
  <2>1. cons[c].tries + 1 \in 0..OutcomeWriteAttempts - 1
    BY <1>1, <1>2 DEF ConsumerState, OutcomeWriteAttempts
  <2>2. (cons[c].landed \/ landed) \in BOOLEAN
    OBVIOUS
  <2> QED
    BY <1>1, <1>2, <2>1, <2>2 DEF NextTry, ConsumerState
<1>3. CASE ~(cons[c].tries + 1 < OutcomeWriteAttempts)
  <2>1. Idle \in ConsumerState
    BY DEF Idle, ConsumerState, Outcomes, OutcomeWriteAttempts
  <2> QED
    BY <1>3, <2>1 DEF NextTry
<1> QED
  BY <1>2, <1>3
-----------------------------------------------------------------------------
(***************************************************************************)
(* Framing: what an action that writes one row, or none, leaves alone.     *)
(***************************************************************************)

\* Writing a consistent row, live only if no other live row has its key, keeps
\* the table typed, consistent and unique.
LEMMA RowWrite ==
  ASSUME TypeOK, RowsConsistent, LiveKeyUnique,
         NEW j \in Jobs, NEW new \in Row, Consistent(new),
         Live(new) => \A i \in Jobs \ {j} : Live(jobs[i]) => jobs[i].key # new.key,
         jobs' = [jobs EXCEPT ![j] = new]
  PROVE  /\ jobs' \in [Jobs -> Row]
         /\ RowsConsistent'
         /\ LiveKeyUnique'
<1>1. /\ jobs' \in [Jobs -> Row]
      /\ jobs'[j] = new
      /\ \A i \in Jobs \ {j} : jobs'[i] = jobs[i]
  BY DEF TypeOK
<1>2. RowsConsistent'
  <2> SUFFICES ASSUME NEW i \in Jobs PROVE Consistent(jobs'[i])
    BY DEF RowsConsistent, Consistent
  <2> QED
    BY <1>1 DEF RowsConsistent
<1>3. LiveKeyUnique'
  <2> SUFFICES ASSUME NEW a \in Jobs, NEW b \in Jobs,
                      Live(jobs'[a]), Live(jobs'[b]), jobs'[a].key = jobs'[b].key
               PROVE  a = b
    BY DEF LiveKeyUnique, Live
  <2>1. CASE a # j /\ b # j
    BY <1>1, <2>1 DEF LiveKeyUnique
  <2>2. CASE a = j \/ b = j
    BY <1>1, <2>2
  <2> QED
    BY <2>1, <2>2
<1> QED
  BY <1>1, <1>2, <1>3

\* So does writing one that has its key already, and is live only if it was.
LEMMA RowRewrite ==
  ASSUME TypeOK, RowsConsistent, LiveKeyUnique,
         NEW j \in Jobs, NEW new \in Row, Consistent(new),
         new.key = jobs[j].key, Live(new) => Live(jobs[j]),
         jobs' = [jobs EXCEPT ![j] = new]
  PROVE  /\ jobs' \in [Jobs -> Row]
         /\ RowsConsistent'
         /\ LiveKeyUnique'
<1>1. Live(new) => \A i \in Jobs \ {j} : Live(jobs[i]) => jobs[i].key # new.key
  BY DEF LiveKeyUnique
<1> QED
  BY <1>1, RowWrite

\* The budget is kept if the row written is within it.
LEMMA BudgetWrite ==
  ASSUME TypeOK, AttemptsWithinBudget, NEW j \in Jobs, NEW new \in Row,
         jobs' = [jobs EXCEPT ![j] = new],
         stalls' = 0 => stalls = 0,
         stalls' = 0 => WithinBudget(new)
  PROVE  AttemptsWithinBudget'
<1> SUFFICES ASSUME stalls' = 0, NEW i \in Jobs PROVE WithinBudget(jobs'[i])
  BY DEF AttemptsWithinBudget, WithinBudget
<1>1. CASE i = j
  BY <1>1 DEF TypeOK
<1>2. CASE i # j
  BY <1>2 DEF TypeOK, AttemptsWithinBudget
<1> QED
  BY <1>1, <1>2

\* A loop keeps its hold if neither its state nor its row changes.
LEMMA HoldsFrame ==
  ASSUME NEW c \in Consumers, HoldsJob(c), cons'[c] = cons[c],
         Busy(c) => jobs'[JobOf(c)] = jobs[JobOf(c)],
         stalls' = 0 => stalls = 0
  PROVE  HoldsJob(c)'
<1>1. CASE ~Busy(c)
  BY <1>1 DEF HoldsJob, Busy
<1>2. CASE Busy(c)
  <2>1. JobOf(c)' = JobOf(c) /\ (Busy(c)' <=> Busy(c))
    BY DEF JobOf, Busy
  <2>2. Leased(c) => Leased(c)'
    BY <1>2, <2>1 DEF Leased
  <2>3. Retrying(c)' <=> Retrying(c)
    BY <1>2, <2>1 DEF Retrying, WillRetry
  <2>4. Written(c) => Written(c)'
    BY <1>2, <2>1, <2>3 DEF Written
  <2> QED
    BY <1>2, <2>1, <2>2, <2>4 DEF HoldsJob
<1> QED
  BY <1>1, <1>2
-----------------------------------------------------------------------------
(***************************************************************************)
(* Each action preserves the inductive invariant.                          *)
(***************************************************************************)

\* A step of stuttering, which also covers the actions that leave jobs, cons
\* and stalls alone.
LEMMA UnchangedInv ==
  ASSUME QueueInv, UNCHANGED <<jobs, cons, stalls>>,
         proc' \in [Procs -> {"up", "stopping", "gone"}], stops' \in 0..MaxStops
  PROVE  QueueInv'
<1>1. TypeOK' /\ RowsConsistent' /\ LiveKeyUnique' /\ AttemptsWithinBudget'
  BY DEF QueueInv, TypeOK, RowsConsistent, Consistent, LiveKeyUnique,
         AttemptsWithinBudget, WithinBudget, Live
<1>2. BusyHoldsJob'
  BY HoldsFrame DEF QueueInv, BusyHoldsJob
<1> QED
  BY <1>1, <1>2 DEF QueueInv

\* enqueue() finds an id nobody holds and a key nobody has live.
LEMMA EnqueueInv ==
  ASSUME QueueInv, NEW j \in Jobs, NEW k \in Keys, Enqueue(j, k)
  PROVE  QueueInv'
<1>1. jobs' = [jobs EXCEPT ![j] = NewRow(k)]
  BY DEF Enqueue, SetRow
<1>2. /\ jobs' \in [Jobs -> Row] /\ RowsConsistent' /\ LiveKeyUnique'
  <2>1. \A i \in Jobs \ {j} : Live(jobs[i]) => jobs[i].key # k
    BY DEF Enqueue, KeyTaken, QueueInv, TypeOK
  <2> QED
    BY <1>1, <2>1, NewRowFacts, RowWrite DEF QueueInv
<1>3. TypeOK'
  BY <1>2 DEF QueueInv, TypeOK, Enqueue
<1>4. AttemptsWithinBudget'
  <2>1. MaxAttempts[k] \in Nat \ {0}
    BY JobQueueAssumption
  <2>2. WithinBudget(NewRow(k))
    BY <2>1, NewRowFacts DEF WithinBudget
  <2> QED
    BY <1>1, <2>2, NewRowFacts, BudgetWrite DEF QueueInv, Enqueue
<1>5. BusyHoldsJob'
  <2> SUFFICES ASSUME NEW c \in Consumers PROVE HoldsJob(c)'
    BY DEF BusyHoldsJob
  <2>1. Busy(c) => JobOf(c) # j
    BY DEF Enqueue, Attended
  <2>2. Busy(c) => jobs'[JobOf(c)] = jobs[JobOf(c)]
    BY <1>1, <2>1 DEF QueueInv, TypeOK, BusyHoldsJob, HoldsJob
  <2> QED
    BY <2>2, HoldsFrame DEF QueueInv, BusyHoldsJob, Enqueue
<1> QED
  BY <1>2, <1>3, <1>4, <1>5 DEF QueueInv

\* Nobody holds a row whose backoff elapses, unless a worker stalls.
LEMMA BackoffElapseInv ==
  ASSUME QueueInv, NEW j \in Jobs, BackoffElapse(j)
  PROVE  QueueInv'
<1> DEFINE new == [jobs[j] EXCEPT !.due = TRUE]
<1>1. /\ jobs' = [jobs EXCEPT ![j] = new] /\ cons' = cons
      /\ jobs[j] \in Row /\ Consistent(jobs[j])
  BY DEF BackoffElapse, SetRow, QueueInv, TypeOK, RowsConsistent
<1>2. /\ new \in Row /\ Consistent(new)
      /\ new.status = "queued" /\ new.key = jobs[j].key /\ new.attempts = jobs[j].attempts
  BY <1>1 DEF BackoffElapse, Row, Consistent
<1>3. /\ stalls \in Nat /\ stalls' \in 0..MaxStalls
      /\ stalls' = 0 => stalls = 0 /\ ~Attended(j)
  BY JobQueueAssumption DEF BackoffElapse, QueueInv, TypeOK
<1> HIDE DEF new
<1>4. /\ jobs' \in [Jobs -> Row] /\ RowsConsistent' /\ LiveKeyUnique'
  BY <1>1, <1>2, RowRewrite DEF BackoffElapse, QueueInv, Live
<1>5. TypeOK'
  BY <1>1, <1>3, <1>4 DEF QueueInv, TypeOK, BackoffElapse
<1>6. AttemptsWithinBudget'
  <2>1. stalls' = 0 => WithinBudget(new)
    BY <1>2, <1>3 DEF QueueInv, AttemptsWithinBudget, WithinBudget, BackoffElapse
  <2> QED
    BY <1>1, <1>2, <1>3, <2>1, BudgetWrite DEF QueueInv
<1>7. BusyHoldsJob'
  <2> SUFFICES ASSUME NEW c \in Consumers PROVE HoldsJob(c)'
    BY DEF BusyHoldsJob
  <2>1. CASE stalls' = 0
    <3>1. Busy(c) => JobOf(c) # j
      BY <1>3, <2>1 DEF Attended
    <3>2. Busy(c) => jobs'[JobOf(c)] = jobs[JobOf(c)]
      BY <1>1, <3>1 DEF QueueInv, TypeOK, BusyHoldsJob, HoldsJob
    <3> QED
      BY <1>1, <1>3, <3>2, HoldsFrame DEF QueueInv, BusyHoldsJob
  <2>2. CASE stalls' # 0
    BY <1>1, <2>2 DEF QueueInv, BusyHoldsJob, HoldsJob, Busy, JobOf
  <2> QED
    BY <2>1, <2>2
<1> QED
  BY <1>4, <1>5, <1>6, <1>7 DEF QueueInv

\* What claiming a row does to the table, whether or not its answer arrives:
\* no other loop holds a queued, due row.
LEMMA ClaimTable ==
  ASSUME QueueInv, NEW c \in Consumers, NEW j \in Jobs, Runnable(c, j),
         jobs' = [jobs EXCEPT ![j] = ClaimedRow(jobs[j], c)],
         UNCHANGED <<proc, stops, stalls>>, ~Busy(c)
  PROVE  /\ jobs' \in [Jobs -> Row] /\ RowsConsistent' /\ LiveKeyUnique'
         /\ AttemptsWithinBudget'
         /\ jobs'[j] = ClaimedRow(jobs[j], c)
         /\ \A d \in Consumers \ {c} : cons'[d] = cons[d] => HoldsJob(d)'
<1> DEFINE new == ClaimedRow(jobs[j], c)
<1>1. /\ jobs[j] \in Row /\ Consistent(jobs[j])
      /\ jobs[j].status = "queued" /\ jobs[j].due
  BY DEF Runnable, QueueInv, TypeOK, RowsConsistent
<1>2. /\ new \in Row /\ Consistent(new) /\ new.status = "running" /\ new.by = c
      /\ new.attempts = jobs[j].attempts + 1 /\ new.key = jobs[j].key
  BY <1>1, ClaimedRowFacts
<1> HIDE DEF new
<1>3. /\ jobs' \in [Jobs -> Row] /\ RowsConsistent' /\ LiveKeyUnique'
  BY <1>1, <1>2, RowRewrite DEF QueueInv, Live, new
<1>4. AttemptsWithinBudget'
  <2>1. jobs[j].attempts \in Nat /\ MaxAttempts[jobs[j].key] \in Nat
    BY <1>1, JobQueueAssumption DEF Row, Consistent
  <2>2. stalls = 0 => WithinBudget(new)
    BY <1>1, <1>2, <2>1 DEF QueueInv, AttemptsWithinBudget, WithinBudget
  <2> QED
    BY <1>2, <2>2, BudgetWrite DEF QueueInv, new
<1>5. ASSUME NEW d \in Consumers \ {c}, cons'[d] = cons[d]
      PROVE  HoldsJob(d)'
  <2>1. CASE Busy(d) /\ JobOf(d) = j /\ stalls = 0
    <3>1. ~Leased(d)
      BY <1>1, <2>1 DEF Leased
    <3>2. cons[d].landed /\ Written(d)
      BY <2>1, <3>1 DEF QueueInv, BusyHoldsJob, HoldsJob
    <3>3. cons[d].outcome = "interrupted"
      BY <1>1, <2>1, <3>2 DEF Written
    <3>4. jobs'[JobOf(d)] = new
      BY <2>1 DEF new, QueueInv, TypeOK
    <3>5. Written(d)'
      BY <1>2, <1>5, <3>3, <3>4 DEF Written, JobOf
    <3> QED
      BY <1>5, <2>1, <3>2, <3>5 DEF QueueInv, BusyHoldsJob, HoldsJob, Busy, JobOf
  <2>2. CASE stalls # 0
    BY <1>5, <2>2 DEF QueueInv, BusyHoldsJob, HoldsJob, Busy, JobOf
  <2>3. CASE ~Busy(d) \/ JobOf(d) # j
    <3>1. Busy(d) => jobs'[JobOf(d)] = jobs[JobOf(d)]
      BY <2>3 DEF QueueInv, TypeOK, BusyHoldsJob, HoldsJob
    <3> QED
      BY <1>5, <3>1, HoldsFrame DEF QueueInv, BusyHoldsJob
  <2> QED
    BY <2>1, <2>2, <2>3
<1> QED
  BY <1>3, <1>4, <1>5 DEF QueueInv, TypeOK

\* claim(): the claimer now has the job on its own lease.
LEMMA ClaimInv ==
  ASSUME QueueInv, NEW c \in Consumers, NEW j \in Jobs, Claim(c, j)
  PROVE  QueueInv'
<1> DEFINE st == Holding(j, jobs[j].attempts + 1)
<1>1. /\ ~Busy(c) /\ Runnable(c, j) /\ UNCHANGED <<proc, stops, stalls>>
      /\ jobs' = [jobs EXCEPT ![j] = ClaimedRow(jobs[j], c)]
      /\ cons' = [cons EXCEPT ![c] = st]
  BY DEF Claim, Busy, SetRow, SetCons
<1>2. /\ jobs[j] \in Row /\ jobs[j].status = "queued" /\ Consistent(jobs[j])
      /\ jobs[j].attempts \in Nat
  BY <1>1 DEF Runnable, QueueInv, TypeOK, RowsConsistent, Row
<1>3. /\ st \in ConsumerState
      /\ st.pc = "claimed" /\ st.job = j /\ ~st.landed /\ st.att = jobs[j].attempts + 1
  <2>1. jobs[j].attempts + 1 \in Nat /\ 0 \in 0..OutcomeWriteAttempts - 1
    BY <1>2 DEF OutcomeWriteAttempts
  <2> QED
    BY <2>1 DEF Holding, ConsumerState, Outcomes
<1> HIDE DEF st
<1>4. /\ cons'[c] = st
      /\ cons' \in [Consumers -> ConsumerState]
      /\ \A d \in Consumers \ {c} : cons'[d] = cons[d]
  BY <1>1, <1>3 DEF QueueInv, TypeOK
<1>5. /\ jobs' \in [Jobs -> Row] /\ RowsConsistent' /\ LiveKeyUnique'
      /\ AttemptsWithinBudget' /\ jobs'[j] = ClaimedRow(jobs[j], c)
      /\ \A d \in Consumers \ {c} : HoldsJob(d)'
  BY <1>1, <1>4, ClaimTable
<1>6. HoldsJob(c)'
  <2>1. /\ jobs'[j].status = "running" /\ jobs'[j].by = c
        /\ jobs'[j].lease = "live" /\ jobs'[j].attempts = st.att
    BY <1>2, <1>3, <1>5, ClaimedRowFacts
  <2>2. Leased(c)'
    BY <1>3, <1>4, <2>1 DEF Leased, JobOf
  <2> QED
    BY <1>3, <1>4, <2>2 DEF HoldsJob, Busy, JobOf
<1> QED
  BY <1>1, <1>4, <1>5, <1>6 DEF QueueInv, TypeOK, BusyHoldsJob

\* claim() whose answer is lost leaves a leased row nobody attends.
LEMMA ClaimLostInv ==
  ASSUME QueueInv, NEW c \in Consumers, NEW j \in Jobs, ClaimLost(c, j)
  PROVE  QueueInv'
<1>1. /\ ~Busy(c) /\ Runnable(c, j) /\ UNCHANGED <<cons, proc, stops, stalls>>
      /\ jobs' = [jobs EXCEPT ![j] = ClaimedRow(jobs[j], c)]
  BY DEF ClaimLost, Busy, SetRow
<1>2. /\ jobs' \in [Jobs -> Row] /\ RowsConsistent' /\ LiveKeyUnique'
      /\ AttemptsWithinBudget'
      /\ \A d \in Consumers \ {c} : HoldsJob(d)'
  BY <1>1, ClaimTable
<1>3. HoldsJob(c)'
  BY <1>1 DEF HoldsJob, Busy
<1> QED
  BY <1>1, <1>2, <1>3 DEF QueueInv, TypeOK, BusyHoldsJob

\* A loop that only moves on keeps its job, and nobody else notices.
LEMMA LocalStep ==
  ASSUME QueueInv, NEW c \in Consumers, NEW st \in ConsumerState,
         cons' = [cons EXCEPT ![c] = st], UNCHANGED <<jobs, proc, stops, stalls>>,
         HoldsJob(c)'
  PROVE  QueueInv'
<1>1. TypeOK' /\ RowsConsistent' /\ LiveKeyUnique' /\ AttemptsWithinBudget'
  BY DEF QueueInv, TypeOK, RowsConsistent, Consistent, LiveKeyUnique,
         AttemptsWithinBudget, WithinBudget, Live
<1>2. \A d \in Consumers \ {c} : HoldsJob(d)'
  <2> SUFFICES ASSUME NEW d \in Consumers \ {c} PROVE HoldsJob(d)'
    OBVIOUS
  <2>1. cons'[d] = cons[d]
    BY DEF QueueInv, TypeOK
  <2> QED
    BY <2>1, HoldsFrame DEF QueueInv, BusyHoldsJob
<1> QED
  BY <1>1, <1>2 DEF QueueInv, BusyHoldsJob

\* Entering the handler only moves the loop on.
LEMMA BeginInv ==
  ASSUME QueueInv, NEW c \in Consumers, Begin(c)
  PROVE  QueueInv'
<1> DEFINE st == [cons[c] EXCEPT !.pc = "running"]
<1>1. cons[c] \in ConsumerState /\ cons[c].pc = "claimed" /\ HoldsJob(c)
  BY DEF QueueInv, TypeOK, Begin, BusyHoldsJob
<1>2. /\ st \in ConsumerState /\ st.pc = "running" /\ st.job = cons[c].job
      /\ st.att = cons[c].att /\ st.landed = cons[c].landed
  BY <1>1 DEF ConsumerState
<1> HIDE DEF st
<1>3. cons' = [cons EXCEPT ![c] = st] /\ cons'[c] = st
  BY DEF Begin, SetCons, st, QueueInv, TypeOK
<1>4. HoldsJob(c)'
  BY <1>1, <1>2, <1>3 DEF HoldsJob, Busy, JobOf, Leased, Begin
<1> QED
  BY <1>2, <1>3, <1>4, LocalStep DEF Begin

\* So does the handler returning or throwing: the loop has an outcome to write.
LEMMA HandlerEndsInv ==
  ASSUME QueueInv, NEW c \in Consumers, NEW result \in Results, HandlerEnds(c, result)
  PROVE  QueueInv'
<1> DEFINE o == IF Stopping(c) /\ result # "ok" THEN "interrupted" ELSE result
           st == [cons[c] EXCEPT !.pc = "recording", !.outcome = o]
<1>1. cons[c] \in ConsumerState /\ cons[c].pc = "running" /\ HoldsJob(c)
  BY DEF QueueInv, TypeOK, HandlerEnds, BusyHoldsJob
<1>2. o \in Outcomes /\ o # "none"
  BY DEF Results, Outcomes
<1> HIDE DEF o
<1>3. /\ st \in ConsumerState /\ st.pc = "recording" /\ st.job = cons[c].job
      /\ st.att = cons[c].att /\ st.landed = cons[c].landed /\ st.outcome = o
  BY <1>1, <1>2 DEF ConsumerState
<1>4. cons' = [cons EXCEPT ![c] = st] /\ cons'[c] = st
  BY DEF HandlerEnds, SetCons, o, QueueInv, TypeOK
<1> HIDE DEF st
<1>5. HoldsJob(c)'
  BY <1>1, <1>2, <1>3, <1>4 DEF HoldsJob, Busy, JobOf, Leased, HandlerEnds
<1> QED
  BY <1>3, <1>4, <1>5, LocalStep DEF HandlerEnds

\* So does a write that failed: the loop waits for its next try.
LEMMA WriteFailsInv ==
  ASSUME QueueInv, NEW c \in Consumers, WriteFails(c)
  PROVE  QueueInv'
<1>1. cons[c] \in ConsumerState /\ cons[c].pc = "recording" /\ HoldsJob(c)
  BY DEF QueueInv, TypeOK, WriteFails, BusyHoldsJob
<1>2. cons' = [cons EXCEPT ![c] = NextTry(c, FALSE)] /\ cons'[c] = NextTry(c, FALSE)
  BY DEF WriteFails, SetCons, QueueInv, TypeOK
<1>3. NextTry(c, FALSE) \in ConsumerState
  BY NextTryFacts DEF QueueInv
<1>4. HoldsJob(c)'
  <2>1. CASE NextTry(c, FALSE) = Idle
    <3>1. cons'[c] = Idle
      BY <1>2, <2>1
    <3>2. Idle.pc = "idle"
      BY DEF Idle
    <3> QED
      BY <3>1, <3>2 DEF HoldsJob, Busy
  <2>2. CASE NextTry(c, FALSE) # Idle
    <3>1. /\ cons'[c].pc = "recording" /\ cons'[c].job = cons[c].job
          /\ cons'[c].att = cons[c].att /\ cons'[c].outcome = cons[c].outcome
          /\ cons'[c].landed = cons[c].landed
      BY <1>1, <1>2, <2>2 DEF NextTry, ConsumerState
    <3>2. jobs' = jobs /\ stalls' = stalls
      BY DEF WriteFails
    <3>3. (Leased(c) => Leased(c)') /\ (Retrying(c)' <=> Retrying(c))
      BY <3>1, <3>2 DEF Leased, JobOf, Retrying, WillRetry
    <3>4. Written(c) => Written(c)'
      BY <3>1, <3>2, <3>3 DEF Written, JobOf
    <3> QED
      BY <1>1, <3>1, <3>2, <3>3, <3>4 DEF HoldsJob, Busy, JobOf
  <2> QED
    BY <2>1, <2>2
<1> QED
  BY <1>2, <1>3, <1>4, LocalStep DEF WriteFails

\* While leases are kept, a write that already landed is repeated to no effect,
\* and the first one takes the job off the writer's lease.
LEMMA OutcomeEffect ==
  ASSUME QueueInv, stalls = 0, NEW c \in Consumers, cons[c].pc = "recording"
  PROVE  /\ cons[c].landed => AfterOutcome(c) = jobs[JobOf(c)]
         /\ ~cons[c].landed =>
              /\ Leased(c)
              /\ AfterOutcome(c).status =
                   CASE cons[c].outcome = "ok" -> "succeeded"
                     [] cons[c].outcome = "interrupted" -> "queued"
                     [] OTHER -> IF Retrying(c) THEN "queued" ELSE "dead"
              /\ Retrying(c) => ~AfterOutcome(c).due
              /\ WithinBudget(AfterOutcome(c))
<1> DEFINE row == jobs[JobOf(c)]
<1>1. /\ HoldsJob(c) /\ Busy(c) /\ JobOf(c) \in Jobs
      /\ row \in Row /\ Consistent(row) /\ cons[c] \in ConsumerState
      /\ cons[c].outcome # "none" /\ WithinBudget(row)
  BY DEF QueueInv, TypeOK, RowsConsistent, BusyHoldsJob, HoldsJob, Busy, AttemptsWithinBudget
<1>2. ASSUME cons[c].landed PROVE AfterOutcome(c) = row
  <2>1. Written(c)
    BY <1>1, <1>2 DEF HoldsJob
  <2>2. CASE row.status = "absent"
    BY <2>2 DEF AfterOutcome
  <2>3. CASE row.status # "absent" /\ cons[c].outcome = "ok"
    <3>1. row.status = "succeeded" /\ row.lease = "none" /\ row.by = NoOne
      BY <1>1, <2>1, <2>3 DEF Written, Consistent
    <3>2. SucceededRow(row) = row
      BY <1>1, <3>1 DEF SucceededRow, Unlocked, Row
    <3> QED
      BY <2>3, <3>2 DEF AfterOutcome
  <2>4. CASE row.status # "absent" /\ cons[c].outcome = "interrupted"
    <3>1. ~Releasable(row, c)
      BY <2>1, <2>4 DEF Written, Releasable
    <3> QED
      BY <2>4, <3>1 DEF AfterOutcome, AfterRelease
  <2>5. CASE row.status # "absent" /\ cons[c].outcome \notin {"ok", "interrupted"}
    <3>1. AfterOutcome(c) = FailedRow(row, Retrying(c))
      BY <2>5 DEF AfterOutcome
    <3>2. \/ row.status = "queued" /\ ~row.due /\ Retrying(c)
          \/ row.status = "dead" /\ ~Retrying(c)
      BY <2>1, <2>5 DEF Written
    <3>3. row.lease = "none" /\ row.by = NoOne /\ row.due \in BOOLEAN
      BY <1>1, <3>2 DEF Consistent, Row
    <3>4. CASE Retrying(c)
      <4>1. row.due = FALSE /\ row.status = "queued"
        BY <3>2, <3>3, <3>4
      <4>2. FailedRow(row, TRUE) = row
        BY <1>1, <3>3, <4>1 DEF FailedRow, Unlocked, Row
      <4> QED
        BY <3>1, <3>4, <4>2 DEF FailedRow
    <3>5. CASE ~Retrying(c)
      <4>1. FailedRow(row, FALSE) = row
        BY <1>1, <3>2, <3>3, <3>5 DEF FailedRow, Unlocked, Row
      <4> QED
        BY <3>1, <3>5, <4>1 DEF FailedRow
    <3> QED
      BY <3>4, <3>5
  <2> QED
    BY <2>2, <2>3, <2>4, <2>5
<1>3. ASSUME ~cons[c].landed
      PROVE  /\ Leased(c)
             /\ AfterOutcome(c).status =
                  CASE cons[c].outcome = "ok" -> "succeeded"
                    [] cons[c].outcome = "interrupted" -> "queued"
                    [] OTHER -> IF Retrying(c) THEN "queued" ELSE "dead"
             /\ Retrying(c) => ~AfterOutcome(c).due
             /\ WithinBudget(AfterOutcome(c))
  <2>1. Leased(c)
    BY <1>1, <1>3 DEF HoldsJob
  <2>2. /\ row.status = "running" /\ row.by = c /\ row.attempts = cons[c].att
        /\ row.attempts \in Nat /\ MaxAttempts[row.key] \in Nat \ {0}
    BY <1>1, <2>1, JobQueueAssumption DEF Leased, Row, Consistent
  <2>3. CASE cons[c].outcome = "ok"
    <3>1. AfterOutcome(c) = Unlocked(row, "succeeded")
      BY <2>2, <2>3 DEF AfterOutcome, SucceededRow
    <3> QED
      BY <1>1, <2>1, <2>2, <2>3, <3>1, UnlockedFacts DEF WithinBudget, Retrying, WillRetry
  <2>4. CASE cons[c].outcome = "interrupted"
    <3>1. AfterOutcome(c) = ReleasedRow(row)
      BY <2>2, <2>4 DEF AfterOutcome, AfterRelease, Releasable
    <3> QED
      BY <1>1, <2>1, <2>2, <2>4, <3>1, ReleasedRowFacts DEF WithinBudget, Retrying, WillRetry
  <2>5. CASE cons[c].outcome \notin {"ok", "interrupted"}
    <3>1. AfterOutcome(c) = FailedRow(row, Retrying(c))
      BY <2>2, <2>5 DEF AfterOutcome
    <3>2. Retrying(c) \in BOOLEAN
      BY DEF Retrying, WillRetry
    <3>3. Retrying(c) => row.attempts < MaxAttempts[row.key]
      BY <2>2 DEF Retrying, WillRetry
    <3>4. /\ AfterOutcome(c).status = IF Retrying(c) THEN "queued" ELSE "dead"
          /\ AfterOutcome(c).key = row.key /\ AfterOutcome(c).attempts = row.attempts
          /\ Retrying(c) => ~AfterOutcome(c).due
      BY <1>1, <2>2, <3>1, <3>2, FailedRowFacts
    <3>5. WithinBudget(AfterOutcome(c))
      BY <1>1, <2>2, <3>3, <3>4 DEF WithinBudget
    <3> QED
      BY <2>1, <2>5, <3>4, <3>5
  <2> QED
    BY <2>3, <2>4, <2>5
<1> QED
  BY <1>2, <1>3

\* When a loop writes its own job's row, the others keep their holds: while
\* leases are kept, none of them holds a row that runs on this loop's lease.
LEMMA OthersKeepHold ==
  ASSUME QueueInv, NEW c \in Consumers, Busy(c), NEW new \in Row,
         jobs' = [jobs EXCEPT ![JobOf(c)] = new], stalls' = stalls,
         stalls = 0 => \/ new = jobs[JobOf(c)]
                       \/ Leased(c) /\ new.status # "running",
         NEW d \in Consumers \ {c}, cons'[d] = cons[d]
  PROVE  HoldsJob(d)'
<1>1. HoldsJob(c) /\ HoldsJob(d) /\ JobOf(c) \in Jobs
  BY DEF QueueInv, BusyHoldsJob, HoldsJob
<1>2. CASE stalls # 0
  BY <1>1, <1>2 DEF HoldsJob, Busy, JobOf
<1>3. CASE ~Busy(d) \/ JobOf(d) # JobOf(c) \/ new = jobs[JobOf(c)]
  <2>1. Busy(d) => jobs'[JobOf(d)] = jobs[JobOf(d)]
    BY <1>1, <1>3 DEF QueueInv, TypeOK, HoldsJob
  <2> QED
    BY <1>1, <2>1, HoldsFrame
<1>4. CASE stalls = 0 /\ Busy(d) /\ JobOf(d) = JobOf(c) /\ new # jobs[JobOf(c)]
  <2>1. Leased(c) /\ new.status # "running"
    BY <1>4
  <2>2. ~Leased(d)
    BY <1>4, <2>1 DEF Leased
  <2>3. cons[d].landed /\ Written(d)
    BY <1>1, <1>4, <2>2 DEF HoldsJob
  <2>4. cons[d].outcome = "interrupted"
    BY <1>4, <2>1, <2>3 DEF Written, Leased
  <2>5. jobs'[JobOf(d)] = new
    BY <1>1, <1>4 DEF QueueInv, TypeOK
  <2>6. Written(d)'
    BY <2>1, <2>4, <2>5 DEF Written, JobOf
  <2> QED
    BY <1>1, <1>4, <2>3, <2>6 DEF HoldsJob, Busy, JobOf
<1> QED
  BY <1>2, <1>3, <1>4

\* What writing the outcome does to the table, whoever learns of it.
LEMMA OutcomeTable ==
  ASSUME QueueInv, NEW c \in Consumers, cons[c].pc = "recording", ~Refused(c),
         jobs' = [jobs EXCEPT ![JobOf(c)] = AfterOutcome(c)], stalls' = stalls
  PROVE  /\ jobs' \in [Jobs -> Row] /\ RowsConsistent' /\ LiveKeyUnique'
         /\ AttemptsWithinBudget'
         /\ jobs'[JobOf(c)] = AfterOutcome(c)
         /\ \A d \in Consumers \ {c} : cons'[d] = cons[d] => HoldsJob(d)'
<1>1. JobOf(c) \in Jobs /\ Busy(c)
  BY DEF QueueInv, BusyHoldsJob, HoldsJob, Busy
<1>2. /\ AfterOutcome(c) \in Row /\ Consistent(AfterOutcome(c))
      /\ AfterOutcome(c).key = jobs[JobOf(c)].key
  BY <1>1, AfterOutcomeFacts DEF QueueInv
<1>3. jobs' \in [Jobs -> Row] /\ RowsConsistent' /\ LiveKeyUnique'
  <2>1. Live(AfterOutcome(c)) =>
          \A i \in Jobs \ {JobOf(c)} : Live(jobs[i]) => jobs[i].key # AfterOutcome(c).key
    BY <1>2 DEF Refused, KeyTakenByOther, QueueInv, TypeOK
  <2> QED
    BY <1>1, <1>2, <2>1, RowWrite DEF QueueInv
<1>4. AttemptsWithinBudget'
  <2>1. stalls = 0 => WithinBudget(AfterOutcome(c))
    BY <1>1, OutcomeEffect DEF QueueInv, AttemptsWithinBudget
  <2> QED
    BY <1>1, <1>2, <2>1, BudgetWrite DEF QueueInv
<1>5. ASSUME NEW d \in Consumers \ {c}, cons'[d] = cons[d] PROVE HoldsJob(d)'
  <2>1. stalls = 0 => \/ AfterOutcome(c) = jobs[JobOf(c)]
                      \/ Leased(c) /\ AfterOutcome(c).status # "running"
    <3> SUFFICES ASSUME stalls = 0
                 PROVE  \/ AfterOutcome(c) = jobs[JobOf(c)]
                        \/ Leased(c) /\ AfterOutcome(c).status # "running"
      OBVIOUS
    <3>1. CASE cons[c].landed
      BY <3>1, OutcomeEffect
    <3>2. CASE ~cons[c].landed
      BY <3>2, OutcomeEffect
    <3> QED
      BY <3>1, <3>2
  <2> QED
    BY <1>1, <1>2, <1>5, <2>1, OthersKeepHold
<1> QED
  BY <1>1, <1>3, <1>4, <1>5 DEF QueueInv, TypeOK

\* The loop that wrote its outcome is idle.
LEMMA RecordInv ==
  ASSUME QueueInv, NEW c \in Consumers, Record(c)
  PROVE  QueueInv'
<1>1. /\ jobs' = [jobs EXCEPT ![JobOf(c)] = AfterOutcome(c)]
      /\ cons[c].pc = "recording" /\ ~Refused(c) /\ UNCHANGED <<proc, stops, stalls>>
      /\ cons' = [cons EXCEPT ![c] = Idle]
  BY DEF Record, SetRow, SetCons
<1>2. Idle \in ConsumerState /\ Idle.pc = "idle"
  BY DEF Idle, ConsumerState, Outcomes, OutcomeWriteAttempts
<1>3. /\ cons' \in [Consumers -> ConsumerState] /\ cons'[c] = Idle
      /\ \A d \in Consumers \ {c} : cons'[d] = cons[d]
  BY <1>1, <1>2 DEF QueueInv, TypeOK
<1>4. HoldsJob(c)'
  BY <1>2, <1>3 DEF HoldsJob, Busy
<1>5. /\ jobs' \in [Jobs -> Row] /\ RowsConsistent' /\ LiveKeyUnique'
      /\ AttemptsWithinBudget'
      /\ \A d \in Consumers \ {c} : HoldsJob(d)'
  BY <1>1, <1>3, OutcomeTable
<1> QED
  BY <1>1, <1>3, <1>4, <1>5 DEF QueueInv, TypeOK, BusyHoldsJob

\* A loop whose write landed unknown to it will find it there.
LEMMA AnswerLostInv ==
  ASSUME QueueInv, NEW c \in Consumers, AnswerLost(c)
  PROVE  QueueInv'
<1>1. /\ jobs' = [jobs EXCEPT ![JobOf(c)] = AfterOutcome(c)]
      /\ cons[c].pc = "recording" /\ ~Refused(c) /\ UNCHANGED <<proc, stops, stalls>>
      /\ cons' = [cons EXCEPT ![c] = NextTry(c, TRUE)]
  BY DEF AnswerLost, SetRow, SetCons
<1>2. NextTry(c, TRUE) \in ConsumerState
  BY NextTryFacts DEF QueueInv
<1>3. /\ cons' \in [Consumers -> ConsumerState] /\ cons'[c] = NextTry(c, TRUE)
      /\ \A d \in Consumers \ {c} : cons'[d] = cons[d]
  BY <1>1, <1>2 DEF QueueInv, TypeOK
<1>4. /\ jobs' \in [Jobs -> Row] /\ RowsConsistent' /\ LiveKeyUnique'
      /\ AttemptsWithinBudget'
      /\ jobs'[JobOf(c)] = AfterOutcome(c)
      /\ \A d \in Consumers \ {c} : HoldsJob(d)'
  BY <1>1, <1>3, OutcomeTable
<1>5. HoldsJob(c)'
  <2>1. /\ HoldsJob(c) /\ JobOf(c) \in Jobs /\ cons[c].outcome # "none"
        /\ cons[c] \in ConsumerState /\ Busy(c)
    BY <1>1 DEF QueueInv, TypeOK, BusyHoldsJob, HoldsJob, Busy
  <2>2. CASE NextTry(c, TRUE) = Idle
    <3>1. cons'[c] = Idle
      BY <1>3, <2>2
    <3>2. Idle.pc = "idle"
      BY DEF Idle
    <3> QED
      BY <3>1, <3>2 DEF HoldsJob, Busy
  <2>3. CASE NextTry(c, TRUE) # Idle
    <3>1. /\ cons'[c].pc = "recording" /\ cons'[c].job = cons[c].job
          /\ cons'[c].att = cons[c].att /\ cons'[c].outcome = cons[c].outcome
          /\ cons'[c].landed
      <4>1. NextTry(c, TRUE) = [cons[c] EXCEPT !.tries = @ + 1, !.landed = TRUE]
        BY <2>3 DEF NextTry
      <4>2. cons'[c] = [cons[c] EXCEPT !.tries = @ + 1, !.landed = TRUE]
        BY <1>3, <4>1
      <4>3. cons[c].pc = "recording" /\ cons[c] \in ConsumerState
        BY <1>1, <2>1
      <4> QED
        BY <4>2, <4>3 DEF ConsumerState
    <3>2. AfterOutcome(c).key = jobs[JobOf(c)].key
      BY <2>1, AfterOutcomeFacts DEF QueueInv
    <3>3. jobs'[JobOf(c)'] = AfterOutcome(c) /\ JobOf(c)' = JobOf(c)
      BY <1>4, <3>1 DEF JobOf
    <3>4. CASE stalls = 0 /\ cons[c].landed
      <4>1. jobs'[JobOf(c)'] = jobs[JobOf(c)] /\ Written(c)
        BY <1>1, <2>1, <3>3, <3>4, OutcomeEffect DEF HoldsJob
      <4>2. Retrying(c)' <=> Retrying(c)
        BY <3>1, <3>3, <4>1 DEF Retrying, WillRetry
      <4>3. Written(c)'
        BY <3>1, <3>3, <4>1, <4>2 DEF Written
      <4> QED
        BY <2>1, <3>1, <3>3, <4>3 DEF HoldsJob
    <3>5. CASE stalls = 0 /\ ~cons[c].landed
      <4>1. /\ Leased(c)
            /\ AfterOutcome(c).status =
                 CASE cons[c].outcome = "ok" -> "succeeded"
                   [] cons[c].outcome = "interrupted" -> "queued"
                   [] OTHER -> IF Retrying(c) THEN "queued" ELSE "dead"
            /\ Retrying(c) => ~AfterOutcome(c).due
        BY <1>1, <3>5, OutcomeEffect
      <4>2. jobs[JobOf(c)].status # "absent" /\ AfterOutcome(c).status # "absent"
        BY <4>1 DEF Leased
      <4>3. Retrying(c)' <=> Retrying(c)
        BY <3>1, <3>2, <3>3, <4>2 DEF Retrying, WillRetry
      <4>4. Written(c)'
        BY <3>1, <3>3, <4>1, <4>3 DEF Written
      <4> QED
        BY <2>1, <3>1, <3>3, <4>4 DEF HoldsJob
    <3>6. CASE stalls # 0
      BY <1>1, <2>1, <3>1, <3>3, <3>6 DEF HoldsJob
    <3> QED
      BY <3>4, <3>5, <3>6
  <2> QED
    BY <2>2, <2>3
<1> QED
  BY <1>1, <1>3, <1>4, <1>5 DEF QueueInv, TypeOK, BusyHoldsJob

\* A job handed back at shutdown is released, or left to the reaper.
LEMMA HandBackInv ==
  ASSUME QueueInv, NEW c \in Consumers, HandBack(c)
  PROVE  QueueInv'
<1> DEFINE new == AfterRelease(c, JobOf(c))
<1>1. /\ cons[c].pc = "claimed" /\ Busy(c) /\ HoldsJob(c) /\ JobOf(c) \in Jobs
      /\ UNCHANGED <<proc, stops, stalls>> /\ cons' = [cons EXCEPT ![c] = Idle]
  BY DEF HandBack, SetCons, Busy, QueueInv, BusyHoldsJob, HoldsJob
<1>2. Idle \in ConsumerState /\ Idle.pc = "idle"
  BY DEF Idle, ConsumerState, Outcomes, OutcomeWriteAttempts
<1>3. /\ cons' \in [Consumers -> ConsumerState] /\ cons'[c] = Idle
      /\ \A d \in Consumers \ {c} : cons'[d] = cons[d]
  BY <1>1, <1>2 DEF QueueInv, TypeOK
<1>4. HoldsJob(c)'
  BY <1>2, <1>3 DEF HoldsJob, Busy
<1>5. CASE jobs' = jobs
  <2>1. TypeOK' /\ RowsConsistent' /\ LiveKeyUnique' /\ AttemptsWithinBudget'
    BY <1>1, <1>3, <1>5 DEF QueueInv, TypeOK, RowsConsistent, Consistent, LiveKeyUnique,
           AttemptsWithinBudget, WithinBudget, Live
  <2>2. \A d \in Consumers \ {c} : HoldsJob(d)'
    BY <1>1, <1>3, <1>5, HoldsFrame DEF QueueInv, BusyHoldsJob
  <2> QED
    BY <1>4, <2>1, <2>2 DEF QueueInv, BusyHoldsJob
<1>6. CASE jobs' = [jobs EXCEPT ![JobOf(c)] = new]
  <2>1. /\ new \in Row /\ Consistent(new) /\ new.key = jobs[JobOf(c)].key
        /\ Live(new) <=> Live(jobs[JobOf(c)])
    BY <1>1, AfterReleaseFacts DEF QueueInv
  <2>2. jobs' \in [Jobs -> Row] /\ RowsConsistent' /\ LiveKeyUnique'
    BY <1>1, <1>6, <2>1, RowRewrite DEF QueueInv
  <2>3. jobs[JobOf(c)] \in Row /\ Consistent(jobs[JobOf(c)])
    BY <1>1 DEF QueueInv, TypeOK, RowsConsistent
  <2>4. stalls = 0 => /\ Leased(c) /\ new = ReleasedRow(jobs[JobOf(c)])
                      /\ new.status = "queued" /\ WithinBudget(new)
    <3> SUFFICES ASSUME stalls = 0
                 PROVE  /\ Leased(c) /\ new = ReleasedRow(jobs[JobOf(c)])
                        /\ new.status = "queued" /\ WithinBudget(new)
      OBVIOUS
    <3>1. Leased(c)
      BY <1>1 DEF HoldsJob
    <3>2. new = ReleasedRow(jobs[JobOf(c)]) /\ jobs[JobOf(c)].status = "running"
      BY <3>1 DEF Leased, AfterRelease, Releasable
    <3>3. /\ new.status = "queued"
          /\ new.attempts = IF jobs[JobOf(c)].attempts > 0
                            THEN jobs[JobOf(c)].attempts - 1 ELSE 0
      BY <2>3, <3>2, ReleasedRowFacts
    <3>4. /\ jobs[JobOf(c)].attempts \in Nat
          /\ MaxAttempts[new.key] \in Nat \ {0}
          /\ jobs[JobOf(c)].attempts <= MaxAttempts[new.key]
      BY <1>1, <2>1, <2>3, <3>2, JobQueueAssumption
      DEF Row, Consistent, QueueInv, AttemptsWithinBudget, WithinBudget
    <3>5. WithinBudget(new)
      BY <3>3, <3>4 DEF WithinBudget
    <3> QED
      BY <3>1, <3>2, <3>3, <3>5
  <2> HIDE DEF new
  <2>5. AttemptsWithinBudget'
    BY <1>1, <1>6, <2>1, <2>4, BudgetWrite DEF QueueInv
  <2>6. \A d \in Consumers \ {c} : HoldsJob(d)'
    BY <1>1, <1>3, <1>6, <2>1, <2>4, OthersKeepHold
  <2> QED
    BY <1>1, <1>3, <1>4, <2>2, <2>5, <2>6 DEF QueueInv, TypeOK, BusyHoldsJob
<1> QED
  BY <1>5, <1>6 DEF HandBack, SetRow

\* Writing only the lease of a running row, which is its holder's already when
\* leases are kept.
LEMMA LeaseWrite ==
  ASSUME QueueInv, NEW j \in Jobs, NEW s \in {"live", "lapsed"},
         jobs[j].status = "running",
         jobs' = [jobs EXCEPT ![j] = [jobs[j] EXCEPT !.lease = s]],
         stops' = stops, proc' = proc, cons' = cons,
         stalls' \in 0..MaxStalls, stalls' = 0 => stalls = 0,
         stalls' = 0 => \A c \in Consumers :
                          Busy(c) /\ JobOf(c) = j /\ Leased(c) => s = "live"
  PROVE  QueueInv'
<1> DEFINE new == [jobs[j] EXCEPT !.lease = s]
<1>1. jobs[j] \in Row /\ Consistent(jobs[j])
  BY DEF QueueInv, TypeOK, RowsConsistent
<1>2. /\ new \in Row /\ Consistent(new) /\ new.key = jobs[j].key
      /\ new.status = "running" /\ new.attempts = jobs[j].attempts
      /\ new.by = jobs[j].by /\ new.lease = s
  BY <1>1 DEF Row, Consistent, LeaseState
<1>3. jobs' = [jobs EXCEPT ![j] = new]
  OBVIOUS
<1> HIDE DEF new
<1>4. jobs' \in [Jobs -> Row] /\ RowsConsistent' /\ LiveKeyUnique'
  BY <1>2, <1>3, RowRewrite DEF QueueInv, Live
<1>5. AttemptsWithinBudget'
  <2>1. stalls' = 0 => WithinBudget(new)
    BY <1>2 DEF QueueInv, AttemptsWithinBudget, WithinBudget
  <2> QED
    BY <1>2, <1>3, <2>1, BudgetWrite DEF QueueInv
<1>6. BusyHoldsJob'
  <2> SUFFICES ASSUME NEW c \in Consumers PROVE HoldsJob(c)'
    BY DEF BusyHoldsJob
  <2>1. HoldsJob(c) /\ cons'[c] = cons[c]
    BY DEF QueueInv, BusyHoldsJob
  <2>2. CASE stalls' # 0
    BY <2>1, <2>2 DEF HoldsJob, Busy, JobOf
  <2>3. CASE ~Busy(c) \/ JobOf(c) # j
    <3>1. Busy(c) => jobs'[JobOf(c)] = jobs[JobOf(c)]
      BY <1>3, <2>1, <2>3 DEF QueueInv, TypeOK, HoldsJob
    <3> QED
      BY <2>1, <3>1, HoldsFrame
  <2>4. CASE stalls' = 0 /\ Busy(c) /\ JobOf(c) = j
    <3>1. jobs'[JobOf(c)'] = new /\ JobOf(c)' = j
      BY <1>3, <2>1, <2>4 DEF QueueInv, TypeOK, JobOf
    <3>2. Leased(c) => Leased(c)'
      BY <1>2, <2>1, <2>4, <3>1 DEF Leased
    <3>3. Retrying(c)' <=> Retrying(c)
      BY <1>2, <2>1, <2>4, <3>1 DEF Retrying, WillRetry
    <3>4. Written(c) => Written(c)'
      BY <1>2, <2>1, <2>4, <3>1, <3>3 DEF Written
    <3> QED
      BY <2>1, <2>4, <3>2, <3>4 DEF HoldsJob, Busy, JobOf
  <2> QED
    BY <2>2, <2>3, <2>4
<1> QED
  BY <1>4, <1>5, <1>6 DEF QueueInv, TypeOK

\* A heartbeat renews a lease and nothing else.
LEMMA HeartbeatInv ==
  ASSUME QueueInv, NEW c \in Consumers, Heartbeat(c)
  PROVE  QueueInv'
<1>1. JobOf(c) \in Jobs
  BY DEF Heartbeat, QueueInv, BusyHoldsJob, HoldsJob, Busy
<1>2. stalls' \in 0..MaxStalls
  BY DEF Heartbeat, QueueInv, TypeOK
<1> QED
  BY <1>1, <1>2, LeaseWrite DEF Heartbeat, SetRow

\* A lease lapses only once no loop attends the row, or by a stall.
LEMMA LeaseLapseInv ==
  ASSUME QueueInv, NEW j \in Jobs, LeaseLapse(j)
  PROVE  QueueInv'
<1>1. stalls' \in 0..MaxStalls
  BY DEF LeaseLapse, QueueInv, TypeOK
<1> QED
  BY <1>1, LeaseWrite DEF LeaseLapse, SetRow, Attended

\* A stall voids the promises that hold only while leases are kept.
LEMMA StallInv ==
  ASSUME QueueInv, NEW j \in Jobs, Stall(j)
  PROVE  QueueInv'
<1>1. stalls' \in 0..MaxStalls /\ stalls' # 0
  BY JobQueueAssumption DEF Stall, QueueInv, TypeOK
<1> QED
  BY <1>1, LeaseWrite DEF Stall, SetRow

\* Pruning a finished row: nobody leases it, and who wrote it need not find it.
LEMMA PruneInv ==
  ASSUME QueueInv, NEW p \in Procs, NEW j \in Jobs, Prune(p, j)
  PROVE  QueueInv'
<1>1. /\ jobs' = [jobs EXCEPT ![j] = NoRow] /\ Finished(jobs[j])
      /\ UNCHANGED <<cons, proc, stops, stalls>>
  BY DEF Prune, SetRow
<1>2. /\ NoRow \in Row /\ Consistent(NoRow) /\ ~Live(NoRow) /\ WithinBudget(NoRow)
      /\ NoRow.status = "absent"
  BY DEF NoRow, Row, Consistent, Live, WithinBudget, RowStatus, LeaseState
<1>3. jobs' \in [Jobs -> Row] /\ RowsConsistent' /\ LiveKeyUnique'
  BY <1>1, <1>2, RowWrite DEF QueueInv
<1>4. AttemptsWithinBudget'
  BY <1>1, <1>2, BudgetWrite DEF QueueInv
<1>5. BusyHoldsJob'
  <2> SUFFICES ASSUME NEW c \in Consumers PROVE HoldsJob(c)'
    BY DEF BusyHoldsJob
  <2>1. HoldsJob(c) /\ cons'[c] = cons[c]
    BY <1>1 DEF QueueInv, BusyHoldsJob
  <2>2. CASE ~Busy(c) \/ JobOf(c) # j
    <3>1. Busy(c) => jobs'[JobOf(c)] = jobs[JobOf(c)]
      BY <1>1, <2>1, <2>2 DEF QueueInv, TypeOK, HoldsJob
    <3> QED
      BY <1>1, <2>1, <3>1, HoldsFrame
  <2>3. CASE Busy(c) /\ JobOf(c) = j
    <3>1. jobs'[JobOf(c)'].status = "absent"
      BY <1>1, <1>2, <2>1, <2>3 DEF QueueInv, TypeOK, JobOf
    <3>2. ~Leased(c)
      BY <1>1, <2>3 DEF Leased, Finished
    <3>3. Written(c)'
      BY <3>1 DEF Written
    <3> QED
      BY <1>1, <2>1, <2>3, <3>2, <3>3 DEF HoldsJob, Busy, JobOf
  <2> QED
    BY <2>2, <2>3
<1> QED
  BY <1>1, <1>3, <1>4, <1>5 DEF QueueInv, TypeOK

\* Deleting the waiting and dead rows of a key touches nobody's lease.
LEMMA WithdrawInv ==
  ASSUME QueueInv, NEW k \in Keys, Withdraw(k)
  PROVE  QueueInv'
<1>1. /\ jobs' = [j \in Jobs |-> IF j \in Withdrawable(k) THEN NoRow ELSE jobs[j]]
      /\ UNCHANGED <<cons, proc, stops, stalls>>
  BY DEF Withdraw
<1>2. /\ NoRow \in Row /\ Consistent(NoRow) /\ ~Live(NoRow) /\ WithinBudget(NoRow)
      /\ NoRow.status = "absent"
  BY DEF NoRow, Row, Consistent, Live, WithinBudget, RowStatus, LeaseState
<1>3. ASSUME NEW j \in Jobs
      PROVE  /\ jobs'[j] \in Row /\ Consistent(jobs'[j])
             /\ jobs'[j] # jobs[j] => /\ jobs'[j] = NoRow
                                      /\ jobs[j].status \in {"queued", "dead"}
  BY <1>1, <1>2 DEF Withdrawable, QueueInv, TypeOK, RowsConsistent
<1>4. jobs' \in [Jobs -> Row]
  BY <1>1, <1>3
<1>5. RowsConsistent'
  <2> SUFFICES ASSUME NEW j \in Jobs PROVE Consistent(jobs'[j])
    BY DEF RowsConsistent, Consistent
  <2> QED
    BY <1>3
<1>6. LiveKeyUnique'
  <2> SUFFICES ASSUME NEW a \in Jobs, NEW b \in Jobs,
                      Live(jobs'[a]), Live(jobs'[b]), jobs'[a].key = jobs'[b].key
               PROVE  a = b
    BY DEF LiveKeyUnique, Live
  <2>1. jobs'[a] = jobs[a] /\ jobs'[b] = jobs[b]
    BY <1>2, <1>3
  <2> QED
    BY <2>1 DEF QueueInv, LiveKeyUnique
<1>7. AttemptsWithinBudget'
  <2> SUFFICES ASSUME stalls' = 0, NEW j \in Jobs PROVE WithinBudget(jobs'[j])
    BY DEF AttemptsWithinBudget, WithinBudget
  <2> QED
    BY <1>1, <1>2, <1>3 DEF QueueInv, AttemptsWithinBudget
<1>8. BusyHoldsJob'
  <2> SUFFICES ASSUME NEW c \in Consumers PROVE HoldsJob(c)'
    BY DEF BusyHoldsJob
  <2>1. HoldsJob(c) /\ cons'[c] = cons[c] /\ stalls' = stalls
    BY <1>1 DEF QueueInv, BusyHoldsJob
  <2>2. CASE Busy(c) => jobs'[JobOf(c)] = jobs[JobOf(c)]
    BY <2>1, <2>2, HoldsFrame
  <2>3. CASE Busy(c) /\ jobs'[JobOf(c)] # jobs[JobOf(c)]
    <3>1. /\ JobOf(c) \in Jobs /\ jobs[JobOf(c)].status # "running"
          /\ jobs'[JobOf(c)].status = "absent"
      BY <1>2, <1>3, <2>1, <2>3 DEF HoldsJob
    <3>2. ~Leased(c) /\ JobOf(c)' = JobOf(c)
      BY <2>1, <3>1 DEF Leased, JobOf
    <3>3. Written(c)'
      BY <3>1, <3>2 DEF Written
    <3> QED
      BY <2>1, <2>3, <3>2, <3>3 DEF HoldsJob, Busy
  <2> QED
    BY <2>2, <2>3
<1> QED
  BY <1>1, <1>4, <1>5, <1>6, <1>7, <1>8 DEF QueueInv, TypeOK

\* The reaper takes only rows nobody leases, and those keep to their budget.
LEMMA ReapInv ==
  ASSUME QueueInv, NEW p \in Procs, Reap(p)
  PROVE  QueueInv'
<1>1. jobs' = ReapedJobs /\ UNCHANGED <<cons, proc, stops, stalls>>
  BY DEF Reap
<1>2. ASSUME NEW j \in Jobs
      PROVE  /\ jobs'[j] \in Row /\ Consistent(jobs'[j])
             /\ jobs'[j].key = jobs[j].key
             /\ Live(jobs'[j]) => Live(jobs[j])
             /\ jobs'[j] # jobs[j] =>
                  /\ jobs[j].status = "running" /\ jobs[j].lease = "lapsed"
                  /\ jobs'[j].attempts = jobs[j].attempts
                  /\ MaxAttempts[jobs[j].key] \in Nat
                  /\ jobs'[j].status = IF jobs[j].attempts >= MaxAttempts[jobs[j].key]
                                       THEN "dead" ELSE "queued"
  BY <1>1, ReapedJobsFacts DEF QueueInv
<1>3. jobs' \in [Jobs -> Row]
  BY <1>1, <1>2 DEF ReapedJobs
<1>4. RowsConsistent'
  <2> SUFFICES ASSUME NEW j \in Jobs PROVE Consistent(jobs'[j])
    BY DEF RowsConsistent, Consistent
  <2> QED
    BY <1>2
<1>5. LiveKeyUnique'
  BY <1>2 DEF QueueInv, LiveKeyUnique, Live
<1>6. AttemptsWithinBudget'
  <2> SUFFICES ASSUME stalls' = 0, NEW j \in Jobs PROVE WithinBudget(jobs'[j])
    BY DEF AttemptsWithinBudget, WithinBudget
  <2>1. WithinBudget(jobs[j]) /\ jobs[j].attempts \in Nat
    BY <1>1 DEF QueueInv, AttemptsWithinBudget, TypeOK, Row
  <2>2. CASE jobs'[j] = jobs[j]
    BY <2>1, <2>2
  <2>3. CASE jobs'[j] # jobs[j]
    BY <1>2, <2>1, <2>3 DEF WithinBudget
  <2> QED
    BY <2>2, <2>3
<1>7. BusyHoldsJob'
  <2> SUFFICES ASSUME NEW c \in Consumers PROVE HoldsJob(c)'
    BY DEF BusyHoldsJob
  <2>1. HoldsJob(c) /\ cons'[c] = cons[c] /\ stalls' = stalls
    BY <1>1 DEF QueueInv, BusyHoldsJob
  <2>2. CASE Busy(c) => jobs'[JobOf(c)] = jobs[JobOf(c)]
    BY <2>1, <2>2, HoldsFrame
  <2>3. CASE Busy(c) /\ jobs'[JobOf(c)] # jobs[JobOf(c)] /\ stalls = 0
    <3>1. /\ JobOf(c) \in Jobs /\ jobs[JobOf(c)].status = "running"
          /\ jobs[JobOf(c)].lease = "lapsed" /\ jobs'[JobOf(c)].status # "running"
      BY <1>2, <2>1, <2>3 DEF HoldsJob
    <3>2. cons[c].landed /\ Written(c)
      BY <2>1, <2>3, <3>1 DEF HoldsJob, Leased
    <3>3. cons[c].outcome = "interrupted"
      BY <3>1, <3>2 DEF Written
    <3>4. Written(c)'
      BY <2>1, <3>1, <3>3 DEF Written, JobOf
    <3> QED
      BY <2>1, <2>3, <3>2, <3>4 DEF HoldsJob, Busy, JobOf
  <2>4. CASE stalls # 0
    BY <2>1, <2>4 DEF HoldsJob, Busy, JobOf
  <2> QED
    BY <2>2, <2>3, <2>4
<1> QED
  BY <1>1, <1>3, <1>4, <1>5, <1>6, <1>7 DEF QueueInv, TypeOK

\* A killed process holds nothing; its rows stay leased until they lapse.
LEMMA KillInv ==
  ASSUME QueueInv, NEW p \in Procs, Kill(p)
  PROVE  QueueInv'
<1>1. /\ UNCHANGED <<jobs, stops, stalls>>
      /\ proc' = [proc EXCEPT ![p] = "gone"]
      /\ cons' = [c \in Consumers |-> IF ProcOf[c] = p THEN Idle ELSE cons[c]]
  BY DEF Kill, LoopsEnd
<1>2. Idle \in ConsumerState /\ Idle.pc = "idle"
  BY DEF Idle, ConsumerState, Outcomes, OutcomeWriteAttempts
<1>3. TypeOK' /\ RowsConsistent' /\ LiveKeyUnique' /\ AttemptsWithinBudget'
  BY <1>1, <1>2 DEF QueueInv, TypeOK, RowsConsistent, Consistent, LiveKeyUnique,
         AttemptsWithinBudget, WithinBudget, Live
<1>4. BusyHoldsJob'
  <2> SUFFICES ASSUME NEW c \in Consumers PROVE HoldsJob(c)'
    BY DEF BusyHoldsJob
  <2>1. CASE ProcOf[c] = p
    <3>1. cons'[c] = Idle
      BY <1>1, <2>1
    <3> QED
      BY <1>2, <3>1 DEF HoldsJob, Busy
  <2>2. CASE ProcOf[c] # p
    <3>1. cons'[c] = cons[c]
      BY <1>1, <2>2
    <3> QED
      BY <1>1, <3>1, HoldsFrame DEF QueueInv, BusyHoldsJob
  <2> QED
    BY <2>1, <2>2
<1> QED
  BY <1>3, <1>4 DEF QueueInv

\* SIGTERM, a drained exit and a restart touch neither table nor loops.
LEMMA ProcInv ==
  ASSUME QueueInv, NEW p \in Procs, Shutdown(p) \/ Exit(p) \/ Start(p)
  PROVE  QueueInv'
<1>1. UNCHANGED <<jobs, cons, stalls>>
  BY DEF Shutdown, Exit, Start
<1>2. proc' \in [Procs -> {"up", "stopping", "gone"}] /\ stops' \in 0..MaxStops
  BY JobQueueAssumption DEF Shutdown, Exit, Start, QueueInv, TypeOK
<1> QED
  BY <1>1, <1>2, UnchangedInv
-----------------------------------------------------------------------------
(***************************************************************************)
(* The theorems.                                                           *)
(***************************************************************************)

\* A fresh table and idle loops satisfy the invariant.
LEMMA InitInv == Init => QueueInv
<1> SUFFICES ASSUME Init PROVE QueueInv
  OBVIOUS
<1>1. Idle \in ConsumerState /\ Idle.pc = "idle" /\ NoRow \in Row
  BY DEF Idle, ConsumerState, Outcomes, OutcomeWriteAttempts, NoRow, Row,
         RowStatus, LeaseState
<1>2. NoRow.status = "absent" /\ Consistent(NoRow)
  BY DEF NoRow, Consistent
<1>3. TypeOK
  BY <1>1, JobQueueAssumption DEF Init, TypeOK
<1>4. RowsConsistent /\ LiveKeyUnique /\ AttemptsWithinBudget
  BY <1>2 DEF Init, RowsConsistent, LiveKeyUnique, Live, AttemptsWithinBudget, WithinBudget
<1>5. BusyHoldsJob
  BY <1>1 DEF Init, BusyHoldsJob, HoldsJob, Busy
<1> QED
  BY <1>3, <1>4, <1>5 DEF QueueInv

\* Every step preserves it.
LEMMA StepInv == QueueInv /\ [Next]_vars => QueueInv'
<1> SUFFICES ASSUME QueueInv, [Next]_vars PROVE QueueInv'
  OBVIOUS
<1>1. ASSUME NEW c \in Consumers, ConsumerStep(c) PROVE QueueInv'
  <2>1. ASSUME NEW j \in Jobs, Claim(c, j) \/ ClaimLost(c, j) PROVE QueueInv'
    BY <2>1, ClaimInv, ClaimLostInv
  <2>2. CASE Begin(c) \/ HandBack(c) \/ Heartbeat(c)
    BY <2>2, BeginInv, HandBackInv, HeartbeatInv
  <2>3. ASSUME NEW result \in Results, HandlerEnds(c, result) PROVE QueueInv'
    BY <2>3, HandlerEndsInv
  <2>4. CASE Record(c) \/ WriteFails(c) \/ AnswerLost(c)
    BY <2>4, RecordInv, WriteFailsInv, AnswerLostInv
  <2> QED
    BY <1>1, <2>1, <2>2, <2>3, <2>4 DEF ConsumerStep
<1>2. ASSUME NEW j \in Jobs, JobStep(j) \/ Stall(j) PROVE QueueInv'
  BY <1>2, EnqueueInv, BackoffElapseInv, LeaseLapseInv, StallInv DEF JobStep
<1>3. ASSUME NEW p \in Procs, ProcStep(p) PROVE QueueInv'
  BY <1>3, ReapInv, PruneInv, KillInv, ProcInv DEF ProcStep
<1>4. CASE UNCHANGED vars
  BY <1>4, UnchangedInv DEF vars, QueueInv, TypeOK
<1>5. ASSUME NEW k \in Keys, Withdraw(k) PROVE QueueInv'
  BY <1>5, WithdrawInv
<1> QED
  BY <1>1, <1>2, <1>3, <1>4, <1>5 DEF Next, TimelyNext

\* The inductive invariant holds throughout.
THEOREM Invariance == Spec => []QueueInv
  BY InitInv, StepInv, PTL DEF Spec

\* Every row and loop keeps its type.
THEOREM TypeCorrect == Spec => []TypeOK
<1>1. QueueInv => TypeOK
  BY DEF QueueInv
<1> QED
  BY <1>1, Invariance, PTL

\* However badly workers stall, a key never has two live jobs: what lets the
\* webhook and the upload completion fire twice.
THEOREM LiveKeysStayUnique == Spec => []LiveKeyUnique
<1>1. QueueInv => LiveKeyUnique
  BY DEF QueueInv
<1> QED
  BY <1>1, Invariance, PTL

\* While leases are kept, attempts stay within max_attempts.
THEOREM AttemptsBounded == Spec => []AttemptsWithinBudget
<1>1. QueueInv => AttemptsWithinBudget
  BY DEF QueueInv
<1> QED
  BY <1>1, Invariance, PTL

\* While leases are kept, one handler per key.
LEMMA InvExclusive == QueueInv => Exclusive
<1> SUFFICES ASSUME QueueInv, stalls = 0, NEW c \in Consumers, NEW d \in Consumers,
                    cons[c].pc = "running", cons[d].pc = "running",
                    jobs[JobOf(c)].key = jobs[JobOf(d)].key
             PROVE  c = d
  BY DEF Exclusive
<1>1. Leased(c) /\ Leased(d) /\ JobOf(c) \in Jobs /\ JobOf(d) \in Jobs
  BY DEF QueueInv, BusyHoldsJob, HoldsJob, Busy
<1>2. JobOf(c) = JobOf(d)
  BY <1>1 DEF Leased, QueueInv, LiveKeyUnique, Live
<1> QED
  BY <1>1, <1>2 DEF Leased

\* While leases are kept, no two handlers run for one video or message at once.
THEOREM HandlersExclusive == Spec => []Exclusive
  BY InvExclusive, Invariance, PTL
-----------------------------------------------------------------------------
\* While leases are kept, no step rewrites a finished row but the pruning of
\* it: an outcome is written by the one loop that holds the job.
LEMMA FinishedKept ==
  ASSUME QueueInv, Next, stalls' = 0, NEW j \in Jobs, Finished(jobs[j])
  PROVE  jobs'[j] = jobs[j] \/ jobs'[j] = NoRow
<1>1. /\ jobs \in [Jobs -> Row] /\ jobs[j].status \notin {"absent", "queued", "running"}
  BY DEF QueueInv, TypeOK, Finished
<1>2. ASSUME NEW c \in Consumers, ConsumerStep(c) PROVE jobs'[j] = jobs[j]
  <2>1. ASSUME NEW i \in Jobs, Claim(c, i) \/ ClaimLost(c, i) PROVE jobs'[j] = jobs[j]
    BY <1>1, <2>1 DEF Claim, ClaimLost, Runnable, SetRow
  <2>2. CASE Begin(c) \/ WriteFails(c) \/ \E result \in Results : HandlerEnds(c, result)
    BY <2>2 DEF Begin, WriteFails, HandlerEnds
  <2>3. CASE HandBack(c)
    <3>1. Busy(c) => JobOf(c) \in Jobs
      BY DEF QueueInv, BusyHoldsJob, HoldsJob
    <3>2. CASE JobOf(c) = j
      BY <1>1, <2>3, <3>2 DEF HandBack, SetRow, AfterRelease, Releasable
    <3>3. CASE JobOf(c) # j
      BY <1>1, <2>3, <3>3 DEF HandBack, SetRow
    <3> QED
      BY <3>2, <3>3
  <2>4. CASE Heartbeat(c)
    BY <1>1, <2>4 DEF Heartbeat, SetRow
  <2>5. CASE Record(c) \/ AnswerLost(c)
    <3>1. /\ cons[c].pc = "recording" /\ stalls = 0
          /\ jobs' = [jobs EXCEPT ![JobOf(c)] = AfterOutcome(c)]
      BY <2>5 DEF Record, AnswerLost, SetRow
    <3>2. CASE JobOf(c) # j
      BY <1>1, <3>1, <3>2
    <3>3. CASE JobOf(c) = j
      <4>1. cons[c].landed
        BY <1>1, <3>1, <3>3, OutcomeEffect DEF Leased
      <4>2. AfterOutcome(c) = jobs[j]
        BY <3>1, <3>3, <4>1, OutcomeEffect
      <4> QED
        BY <1>1, <3>1, <3>3, <4>2
    <3> QED
      BY <3>2, <3>3
  <2> QED
    BY <1>2, <2>1, <2>2, <2>3, <2>4, <2>5 DEF ConsumerStep
<1>3. ASSUME NEW i \in Jobs, JobStep(i) \/ Stall(i) PROVE jobs'[j] = jobs[j]
  BY <1>1, <1>3 DEF JobStep, Enqueue, BackoffElapse, LeaseLapse, Stall, SetRow
<1>4. ASSUME NEW p \in Procs, ProcStep(p) PROVE jobs'[j] = jobs[j] \/ jobs'[j] = NoRow
  <2>1. ASSUME NEW i \in Jobs, Prune(p, i) PROVE jobs'[j] = jobs[j] \/ jobs'[j] = NoRow
    BY <1>1, <2>1 DEF Prune, SetRow
  <2>2. CASE Reap(p)
    BY <1>1, <2>2 DEF Reap, ReapedJobs, Lapsed, Reapable
  <2>3. CASE Shutdown(p) \/ Exit(p) \/ Kill(p) \/ Start(p)
    BY <2>3 DEF Shutdown, Exit, Kill, Start
  <2> QED
    BY <1>4, <2>1, <2>2, <2>3 DEF ProcStep
<1>5. ASSUME NEW k \in Keys, Withdraw(k) PROVE jobs'[j] = jobs[j] \/ jobs'[j] = NoRow
  BY <1>5 DEF Withdraw
<1> QED
  BY <1>2, <1>3, <1>4, <1>5 DEF Next, TimelyNext

\* A settled job is not revived by a late or repeated write.
THEOREM OutcomesFinal == Spec => OutcomeIsFinal
<1> DEFINE Kept == stalls' = 0 =>
                     \A j \in Jobs :
                       Finished(jobs[j]) => jobs'[j] = jobs[j] \/ jobs'[j] = NoRow
<1>1. QueueInv /\ [Next]_vars => [Kept]_vars
  BY FinishedKept
<1>2. Spec => [][Kept]_vars
  BY <1>1, Invariance, PTL DEF Spec
<1> QED
  BY <1>2 DEF OutcomeIsFinal
-----------------------------------------------------------------------------
(***************************************************************************)
(* What the modules built on the queue rely on.                            *)
(***************************************************************************)

\* A row keeps its key until it is deleted, whatever the queue does to it.
LEMMA KeyKept ==
  ASSUME QueueInv, [Next]_vars, NEW j \in Jobs,
         jobs[j].status # "absent", jobs'[j].status # "absent"
  PROVE  jobs'[j].key = jobs[j].key
<1>1. /\ jobs \in [Jobs -> Row] /\ jobs[j] \in Row /\ Consistent(jobs[j])
      /\ NoRow.status = "absent"
  BY DEF QueueInv, TypeOK, RowsConsistent, NoRow
<1>2. ASSUME NEW c \in Consumers, ConsumerStep(c) PROVE jobs'[j].key = jobs[j].key
  <2>1. ASSUME NEW i \in Jobs, Claim(c, i) \/ ClaimLost(c, i)
        PROVE  jobs'[j].key = jobs[j].key
    BY <1>1, <2>1, ClaimedRowFacts DEF Claim, ClaimLost, Runnable, SetRow
  <2>2. CASE Begin(c) \/ WriteFails(c) \/ \E result \in Results : HandlerEnds(c, result)
    BY <2>2 DEF Begin, WriteFails, HandlerEnds
  <2>3. CASE HandBack(c)
    <3>1. JobOf(c) \in Jobs
      BY <2>3 DEF QueueInv, BusyHoldsJob, HoldsJob, HandBack, Busy
    <3> QED
      BY <1>1, <2>3, <3>1, AfterReleaseFacts DEF HandBack, SetRow, QueueInv
  <2>4. CASE Heartbeat(c)
    BY <1>1, <2>4 DEF Heartbeat, SetRow, Row
  <2>5. CASE Record(c) \/ AnswerLost(c)
    <3>1. JobOf(c) \in Jobs
      BY <2>5 DEF QueueInv, BusyHoldsJob, HoldsJob, Record, AnswerLost, Busy
    <3> QED
      BY <1>1, <2>5, <3>1, AfterOutcomeFacts DEF Record, AnswerLost, SetRow, QueueInv
  <2> QED
    BY <1>2, <2>1, <2>2, <2>3, <2>4, <2>5 DEF ConsumerStep
<1>3. ASSUME NEW i \in Jobs, JobStep(i) \/ Stall(i) PROVE jobs'[j].key = jobs[j].key
  BY <1>1, <1>3 DEF JobStep, Enqueue, BackoffElapse, LeaseLapse, Stall, SetRow, Row
<1>4. ASSUME NEW p \in Procs, ProcStep(p) PROVE jobs'[j].key = jobs[j].key
  <2>1. CASE Reap(p)
    BY <2>1, ReapedJobsFacts DEF Reap, QueueInv
  <2>2. CASE \E i \in Jobs : Prune(p, i)
    BY <1>1, <2>2 DEF Prune, SetRow
  <2>3. CASE Shutdown(p) \/ Exit(p) \/ Kill(p) \/ Start(p)
    BY <2>3 DEF Shutdown, Exit, Kill, Start
  <2> QED
    BY <1>4, <2>1, <2>2, <2>3 DEF ProcStep
<1>5. ASSUME NEW k \in Keys, Withdraw(k) PROVE jobs'[j].key = jobs[j].key
  BY <1>1, <1>5 DEF Withdraw
<1>6. CASE UNCHANGED vars
  BY <1>6 DEF vars
<1> QED
  BY <1>2, <1>3, <1>4, <1>5, <1>6 DEF Next, TimelyNext

\* A breach of the timing is never taken back.
LEMMA StallsStay ==
  ASSUME TypeOK, [Next]_vars, stalls' = 0
  PROVE  stalls = 0
<1>1. stalls \in Nat
  BY JobQueueAssumption DEF TypeOK
<1>2. ASSUME NEW c \in Consumers, ConsumerStep(c) PROVE UNCHANGED stalls
  BY <1>2 DEF ConsumerStep, Claim, ClaimLost, Begin, HandBack, Heartbeat, HandlerEnds, Record,
              WriteFails, AnswerLost
<1>3. ASSUME NEW j \in Jobs, JobStep(j) \/ Stall(j)
      PROVE  UNCHANGED stalls \/ stalls' = stalls + 1
  BY <1>3 DEF JobStep, Enqueue, BackoffElapse, LeaseLapse, Stall
<1>4. ASSUME NEW p \in Procs, ProcStep(p) PROVE UNCHANGED stalls
  BY <1>4 DEF ProcStep, Reap, Prune, Shutdown, Exit, Kill, Start
<1>5. ASSUME NEW k \in Keys, Withdraw(k) PROVE UNCHANGED stalls
  BY <1>5 DEF Withdraw
<1>6. UNCHANGED vars => UNCHANGED stalls
  BY DEF vars
<1> QED
  BY <1>1, <1>2, <1>3, <1>4, <1>5, <1>6 DEF Next, TimelyNext

\* What a loop's lease holds: its row is live, of one key, before and after.
LEMMA LeaseKeeps ==
  ASSUME QueueInv, QueueInv', [Next]_vars, stalls = 0, stalls' = 0,
         NEW c \in Consumers, Busy(c), cons'[c] = cons[c], ~cons[c].landed
  PROVE  /\ JobOf(c) \in Jobs /\ JobOf(c)' = JobOf(c)
         /\ KeyTaken(jobs, jobs[JobOf(c)].key)
         /\ jobs'[JobOf(c)].key = jobs[JobOf(c)].key
<1>1. Busy(c)' /\ JobOf(c)' = JobOf(c)
  BY DEF Busy, JobOf
<1>2. Leased(c) /\ Leased(c)' /\ JobOf(c) \in Jobs
  BY <1>1 DEF QueueInv, BusyHoldsJob, HoldsJob
<1>3. jobs[JobOf(c)].status = "running" /\ jobs'[JobOf(c)].status = "running"
  BY <1>1, <1>2 DEF Leased
<1> QED
  BY <1>1, <1>2, <1>3, KeyKept DEF KeyTaken, Live, QueueInv, TypeOK

\* A shutdown that a busy loop has seen is not taken back before it is idle.
LEMMA StoppingStays ==
  ASSUME TypeOK, NEW c \in Consumers, Busy(c), Stopping(c), cons'[c] = cons[c],
         [Next]_vars
  PROVE  Stopping(c)'
<1>1. proc \in [Procs -> {"up", "stopping", "gone"}] /\ ProcOf[c] \in Procs
  BY JobQueueAssumption DEF TypeOK
<1>2. UNCHANGED proc => Stopping(c)'
  BY DEF Stopping
<1>3. ASSUME NEW d \in Consumers, ConsumerStep(d) PROVE UNCHANGED proc
  BY <1>3 DEF ConsumerStep, Claim, ClaimLost, Begin, HandBack, Heartbeat, HandlerEnds, Record,
              WriteFails, AnswerLost
<1>4. ASSUME NEW j \in Jobs, JobStep(j) \/ Stall(j) PROVE UNCHANGED proc
  BY <1>4 DEF JobStep, Enqueue, BackoffElapse, LeaseLapse, Stall
<1>5. ASSUME NEW p \in Procs, ProcStep(p) PROVE Stopping(c)'
  <2>1. Kill(p) => ProcOf[c] # p
    BY DEF Kill, LoopsEnd, Idle, Busy
  <2> QED
    BY <1>1, <1>2, <1>5, <2>1 DEF ProcStep, Reap, Prune, Shutdown, Exit, Kill, Start, Stopping
<1>6. ASSUME NEW k \in Keys, Withdraw(k) PROVE UNCHANGED proc
  BY <1>6 DEF Withdraw
<1>7. UNCHANGED vars => UNCHANGED proc
  BY DEF vars
<1> QED
  BY <1>2, <1>3, <1>4, <1>5, <1>6, <1>7 DEF Next, TimelyNext

-----------------------------------------------------------------------------
(***************************************************************************)
(* The refinement of JobLifecycle.                                         *)
(***************************************************************************)

\* What each kind of write is to the abstract lifecycle.
LEMMA EnqueueSubmits ==
  ASSUME NEW k \in Keys
  PROVE  Lifecycle!Submitted(Entry(NoRow), Entry(NewRow(k)))
<1>1. Entry(NoRow) = [phase |-> "none", key |-> NoKey, holder |-> NoOne, taken |-> 0]
  BY DEF Entry, Phase, NoRow
<1>2. Entry(NewRow(k)) = [phase |-> "waiting", key |-> k, holder |-> NoOne, taken |-> 0]
  BY DEF Entry, Phase, NewRow, NoRow
<1> QED
  BY <1>1, <1>2 DEF Lifecycle!Submitted, Lifecycle!Unknown, Lifecycle!Entry

\* claim() takes a waiting entry, within its budget.
LEMMA ClaimTakes ==
  ASSUME NEW row \in Row, Consistent(row), row.status = "queued", WithinBudget(row),
         NEW c \in Consumers
  PROVE  Lifecycle!Taken(Entry(row), Entry(ClaimedRow(row, c)))
<1>1. Entry(row) = [phase |-> "waiting", key |-> row.key, holder |-> NoOne,
                    taken |-> row.attempts]
  BY DEF Entry, Phase, Consistent
<1>2. Entry(ClaimedRow(row, c)) = [phase |-> "held", key |-> row.key, holder |-> c,
                                   taken |-> row.attempts + 1]
  BY ClaimedRowFacts DEF Entry, Phase
<1>3. row.attempts < MaxAttempts[row.key]
  BY DEF WithinBudget
<1> QED
  BY <1>1, <1>2, <1>3 DEF Lifecycle!Taken, Lifecycle!Entry

\* An outcome that ends the job settles its entry.
LEMMA SettleSettles ==
  ASSUME NEW row \in Row, Consistent(row), row.status = "running",
         NEW s \in {"succeeded", "dead"}
  PROVE  Lifecycle!Settled(Entry(row), Entry(Unlocked(row, s)))
<1>1. Entry(row) = [phase |-> "held", key |-> row.key, holder |-> row.by,
                    taken |-> row.attempts]
  BY DEF Entry, Phase
<1>2. /\ Unlocked(row, s).status = s /\ Unlocked(row, s).key = row.key
      /\ Unlocked(row, s).attempts = row.attempts /\ Unlocked(row, s).by = NoOne
  BY UnlockedFacts DEF Consistent
<1>3. Entry(Unlocked(row, s)) = [phase |-> IF s = "dead" THEN "dead" ELSE "done",
                                 key |-> row.key, holder |-> NoOne,
                                 taken |-> row.attempts]
  BY <1>2 DEF Entry, Phase
<1> QED
  BY <1>1, <1>3 DEF Lifecycle!Settled, Lifecycle!Entry

\* A retry, a release or a reap puts the entry back.
LEMMA RequeuePutsBack ==
  ASSUME NEW row \in Row, row.status = "running",
         NEW new \in Row, Consistent(new), new.status = "queued", new.key = row.key,
         \/ new.attempts = row.attempts /\ row.attempts < MaxAttempts[row.key]
         \/ new.attempts = row.attempts - 1
  PROVE  Lifecycle!PutBack(Entry(row), Entry(new))
<1>1. Entry(row) = [phase |-> "held", key |-> row.key, holder |-> row.by,
                    taken |-> row.attempts]
  BY DEF Entry, Phase
<1>2. Entry(new) = [phase |-> "waiting", key |-> row.key, holder |-> NoOne,
                    taken |-> new.attempts]
  BY DEF Entry, Phase, Consistent
<1> QED
  BY <1>1, <1>2 DEF Lifecycle!PutBack, Lifecycle!Entry

\* Pruning or withdrawing a row forgets its entry.
LEMMA DeleteForgets ==
  ASSUME NEW row \in Row, row.status \in {"queued", "succeeded", "dead"}
  PROVE  Lifecycle!Forgotten(Entry(row), Entry(NoRow))
<1>1. Entry(NoRow) = [phase |-> "none", key |-> NoKey, holder |-> NoOne, taken |-> 0]
  BY DEF Entry, Phase, NoRow
<1>2. Entry(row).phase \in {"done", "dead", "waiting"}
  BY DEF Entry, Phase
<1> QED
  BY <1>1, <1>2 DEF Lifecycle!Forgotten, Lifecycle!Unknown, Lifecycle!Entry

\* Writing the outcome is, for the job's holder, a move of the lifecycle, and
\* for one whose write landed before, none.
LEMMA OutcomeMoves ==
  ASSUME QueueInv, stalls = 0, NEW c \in Consumers, cons[c].pc = "recording"
  PROVE  \/ AfterOutcome(c) = jobs[JobOf(c)]
         \/ Lifecycle!Move(Entry(jobs[JobOf(c)]), Entry(AfterOutcome(c)))
<1> DEFINE row == jobs[JobOf(c)]
<1>1. CASE cons[c].landed
  BY <1>1, OutcomeEffect
<1>2. CASE ~cons[c].landed
  <2>1. JobOf(c) \in Jobs /\ row \in Row /\ Consistent(row)
    BY DEF QueueInv, TypeOK, RowsConsistent, BusyHoldsJob, HoldsJob, Busy
  <2>2. Leased(c) /\ row.status = "running" /\ row.by = c
    BY <1>2, OutcomeEffect DEF Leased
  <2>3. CASE cons[c].outcome = "ok"
    <3>1. AfterOutcome(c) = Unlocked(row, "succeeded")
      BY <2>2, <2>3 DEF AfterOutcome, SucceededRow
    <3> QED
      BY <2>1, <2>2, <3>1, SettleSettles DEF Lifecycle!Move
  <2>4. CASE cons[c].outcome = "interrupted"
    <3>1. AfterOutcome(c) = ReleasedRow(row)
      BY <2>2, <2>4 DEF AfterOutcome, AfterRelease, Releasable
    <3>2. /\ ReleasedRow(row) \in Row /\ Consistent(ReleasedRow(row))
          /\ ReleasedRow(row).status = "queued" /\ ReleasedRow(row).key = row.key
          /\ ReleasedRow(row).attempts = IF row.attempts > 0 THEN row.attempts - 1 ELSE 0
      BY <2>1, <2>2, ReleasedRowFacts
    <3>3. row.attempts \in Nat /\ MaxAttempts[row.key] \in Nat \ {0}
      BY <2>1, <2>2, JobQueueAssumption DEF Row, Consistent
    <3>4. \/ ReleasedRow(row).attempts = row.attempts /\ row.attempts < MaxAttempts[row.key]
          \/ ReleasedRow(row).attempts = row.attempts - 1
      BY <3>2, <3>3
    <3> QED
      BY <2>1, <2>2, <3>1, <3>2, <3>4, RequeuePutsBack DEF Lifecycle!Move
  <2>5. CASE cons[c].outcome \notin {"ok", "interrupted"}
    <3>1. AfterOutcome(c) = FailedRow(row, Retrying(c)) /\ Retrying(c) \in BOOLEAN
      BY <2>2, <2>5 DEF AfterOutcome, Retrying, WillRetry
    <3>2. CASE Retrying(c)
      <4>1. row.attempts < MaxAttempts[row.key]
        BY <2>2, <3>2, OutcomeEffect, <1>2 DEF Retrying, WillRetry, Leased
      <4>2. /\ FailedRow(row, TRUE) \in Row /\ Consistent(FailedRow(row, TRUE))
            /\ FailedRow(row, TRUE).status = "queued"
            /\ FailedRow(row, TRUE).key = row.key
            /\ FailedRow(row, TRUE).attempts = row.attempts
        BY <2>1, <2>2, FailedRowFacts
      <4>3. Lifecycle!PutBack(Entry(row), Entry(FailedRow(row, TRUE)))
        BY <2>1, <2>2, <4>1, <4>2, RequeuePutsBack
      <4>4. AfterOutcome(c) = FailedRow(row, TRUE)
        BY <3>1, <3>2 DEF FailedRow
      <4> QED
        BY <4>3, <4>4 DEF Lifecycle!Move
    <3>3. CASE ~Retrying(c)
      <4>1. AfterOutcome(c) = Unlocked(row, "dead")
        BY <3>1, <3>3 DEF FailedRow
      <4> QED
        BY <2>1, <2>2, <4>1, SettleSettles DEF Lifecycle!Move
    <3> QED
      BY <3>1, <3>2, <3>3
  <2> QED
    BY <2>3, <2>4, <2>5
<1> QED
  BY <1>1, <1>2

\* While leases are kept, every step moves each job along its lifecycle or
\* leaves its entry alone.
LEMMA StepMoves ==
  ASSUME QueueInv, Next, stalls = 0, stalls' = 0, NEW j \in Jobs
  PROVE  \/ Entry(jobs'[j]) = Entry(jobs[j])
         \/ Lifecycle!Move(Entry(jobs[j]), Entry(jobs'[j]))
<1> DEFINE Same == Entry(jobs'[j]) = Entry(jobs[j])
           Moved == Lifecycle!Move(Entry(jobs[j]), Entry(jobs'[j]))
<1>1. /\ jobs \in [Jobs -> Row] /\ jobs[j] \in Row /\ Consistent(jobs[j])
      /\ WithinBudget(jobs[j])
  BY DEF QueueInv, TypeOK, RowsConsistent, AttemptsWithinBudget
<1>2. ASSUME NEW c \in Consumers, ConsumerStep(c) PROVE Same \/ Moved
  <2>1. ASSUME NEW i \in Jobs, Claim(c, i) \/ ClaimLost(c, i) PROVE Same \/ Moved
    <3>1. /\ jobs' = [jobs EXCEPT ![i] = ClaimedRow(jobs[i], c)]
          /\ jobs[i].status = "queued"
      BY <2>1 DEF Claim, ClaimLost, SetRow, Runnable
    <3>2. CASE i = j
      BY <1>1, <3>1, <3>2, ClaimTakes DEF Lifecycle!Move
    <3>3. CASE i # j
      BY <1>1, <3>1, <3>3
    <3> QED
      BY <3>2, <3>3
  <2>2. CASE Begin(c) \/ WriteFails(c) \/ \E result \in Results : HandlerEnds(c, result)
    BY <2>2 DEF Begin, WriteFails, HandlerEnds
  <2>3. CASE HandBack(c)
    <3>1. CASE jobs' = jobs
      BY <3>1
    <3>2. CASE jobs' = [jobs EXCEPT ![JobOf(c)] = AfterRelease(c, JobOf(c))] /\ JobOf(c) = j
      <4>1. CASE ~Releasable(jobs[j], c)
        BY <1>1, <3>2, <4>1 DEF AfterRelease
      <4>2. CASE Releasable(jobs[j], c)
        <5>1. jobs'[j] = ReleasedRow(jobs[j]) /\ jobs[j].status = "running"
          BY <1>1, <3>2, <4>2 DEF AfterRelease, Releasable
        <5>2. /\ jobs'[j] \in Row /\ Consistent(jobs'[j])
              /\ jobs'[j].status = "queued" /\ jobs'[j].key = jobs[j].key
              /\ jobs'[j].attempts = IF jobs[j].attempts > 0
                                     THEN jobs[j].attempts - 1 ELSE 0
          BY <1>1, <5>1, ReleasedRowFacts
        <5>3. jobs[j].attempts \in Nat /\ MaxAttempts[jobs[j].key] \in Nat \ {0}
          BY <1>1, <5>1, JobQueueAssumption DEF Row, Consistent
        <5>4. \/ jobs'[j].attempts = jobs[j].attempts
                 /\ jobs[j].attempts < MaxAttempts[jobs[j].key]
              \/ jobs'[j].attempts = jobs[j].attempts - 1
          BY <5>2, <5>3
        <5> QED
          BY <1>1, <5>1, <5>2, <5>4, RequeuePutsBack DEF Lifecycle!Move
      <4> QED
        BY <4>1, <4>2
    <3>3. CASE jobs' = [jobs EXCEPT ![JobOf(c)] = AfterRelease(c, JobOf(c))] /\ JobOf(c) # j
      BY <1>1, <3>3
    <3> QED
      BY <2>3, <3>1, <3>2, <3>3 DEF HandBack, SetRow
  <2>4. CASE Heartbeat(c)
    <3>1. /\ jobs' = [jobs EXCEPT ![JobOf(c)] = [jobs[JobOf(c)] EXCEPT !.lease = "live"]]
          /\ JobOf(c) \in Jobs
      BY <2>4 DEF Heartbeat, SetRow, QueueInv, BusyHoldsJob, HoldsJob, Busy
    <3> QED
      BY <1>1, <3>1 DEF Entry, Phase, Row
  <2>5. CASE Record(c) \/ AnswerLost(c)
    <3>1. /\ cons[c].pc = "recording"
          /\ jobs' = [jobs EXCEPT ![JobOf(c)] = AfterOutcome(c)]
      BY <2>5 DEF Record, AnswerLost, SetRow
    <3>2. CASE JobOf(c) # j
      BY <1>1, <3>1, <3>2
    <3>3. CASE JobOf(c) = j
      <4>1. jobs'[j] = AfterOutcome(c)
        BY <1>1, <3>1, <3>3
      <4> QED
        BY <3>1, <3>3, <4>1, OutcomeMoves
    <3> QED
      BY <3>2, <3>3
  <2> QED
    BY <1>2, <2>1, <2>2, <2>3, <2>4, <2>5 DEF ConsumerStep
<1>3. ASSUME NEW i \in Jobs, JobStep(i) \/ Stall(i) PROVE Same \/ Moved
  <2>1. ASSUME NEW k \in Keys, Enqueue(i, k) PROVE Same \/ Moved
    <3>1. jobs' = [jobs EXCEPT ![i] = NewRow(k)] /\ jobs[i] = NoRow
      BY <2>1 DEF Enqueue, SetRow, QueueInv, RowsConsistent, Consistent
    <3>2. CASE i = j
      BY <1>1, <3>1, <3>2, EnqueueSubmits DEF Lifecycle!Move
    <3>3. CASE i # j
      BY <1>1, <3>1, <3>3
    <3> QED
      BY <3>2, <3>3
  <2>2. CASE BackoffElapse(i)
    <3>1. jobs' = [jobs EXCEPT ![i] = [jobs[i] EXCEPT !.due = TRUE]]
      BY <2>2 DEF BackoffElapse, SetRow
    <3> QED
      BY <1>1, <3>1 DEF Entry, Phase, Row
  <2>3. CASE LeaseLapse(i) \/ Stall(i)
    <3>1. jobs' = [jobs EXCEPT ![i] = [jobs[i] EXCEPT !.lease = "lapsed"]]
      BY <2>3 DEF LeaseLapse, Stall, SetRow
    <3> QED
      BY <1>1, <3>1 DEF Entry, Phase, Row
  <2> QED
    BY <1>3, <2>1, <2>2, <2>3 DEF JobStep
<1>4. ASSUME NEW p \in Procs, ProcStep(p) PROVE Same \/ Moved
  <2>1. ASSUME NEW i \in Jobs, Prune(p, i) PROVE Same \/ Moved
    <3>1. jobs' = [jobs EXCEPT ![i] = NoRow] /\ Finished(jobs[i])
      BY <2>1 DEF Prune, SetRow
    <3>2. CASE i = j
      BY <1>1, <3>1, <3>2, DeleteForgets DEF Lifecycle!Move, Finished
    <3>3. CASE i # j
      BY <1>1, <3>1, <3>3
    <3> QED
      BY <3>2, <3>3
  <2>2. CASE Reap(p)
    <3>1. CASE j \notin Lapsed
      BY <2>2, <3>1 DEF Reap, ReapedJobs
    <3>2. CASE j \in Lapsed
      <4>1. /\ jobs'[j] = ReapedRow(jobs[j], MaxAttempts[jobs[j].key])
            /\ jobs[j].status = "running"
        BY <2>2, <3>2 DEF Reap, ReapedJobs, Lapsed, Reapable
      <4>2. jobs[j].attempts \in Nat /\ MaxAttempts[jobs[j].key] \in Nat
        BY <1>1, <4>1, JobQueueAssumption DEF Row, Consistent
      <4>3. CASE jobs[j].attempts >= MaxAttempts[jobs[j].key]
        <5>1. jobs'[j] = Unlocked(jobs[j], "dead")
          BY <4>1, <4>3 DEF ReapedRow
        <5> QED
          BY <1>1, <4>1, <5>1, SettleSettles DEF Lifecycle!Move
      <4>4. CASE ~(jobs[j].attempts >= MaxAttempts[jobs[j].key])
        <5>1. /\ jobs'[j] \in Row /\ Consistent(jobs'[j])
              /\ jobs'[j].status = "queued" /\ jobs'[j].key = jobs[j].key
              /\ jobs'[j].attempts = jobs[j].attempts
          BY <1>1, <4>1, <4>2, <4>4, ReapedRowFacts
        <5>2. jobs[j].attempts < MaxAttempts[jobs[j].key]
          BY <4>2, <4>4
        <5> QED
          BY <1>1, <4>1, <5>1, <5>2, RequeuePutsBack DEF Lifecycle!Move
      <4> QED
        BY <4>3, <4>4
    <3> QED
      BY <3>1, <3>2
  <2>3. CASE Shutdown(p) \/ Exit(p) \/ Kill(p) \/ Start(p)
    BY <2>3 DEF Shutdown, Exit, Kill, Start
  <2> QED
    BY <1>4, <2>1, <2>2, <2>3 DEF ProcStep
<1>5. ASSUME NEW k \in Keys, Withdraw(k) PROVE Same \/ Moved
  <2>1. CASE j \in Withdrawable(k)
    <3>1. jobs'[j] = NoRow /\ jobs[j].status \in {"queued", "dead"}
      BY <1>5, <2>1 DEF Withdraw, Withdrawable
    <3> QED
      BY <1>1, <3>1, DeleteForgets DEF Lifecycle!Move
  <2>2. CASE j \notin Withdrawable(k)
    BY <1>5, <2>2 DEF Withdraw
  <2> QED
    BY <2>1, <2>2
<1> QED
  BY <1>2, <1>3, <1>4, <1>5 DEF Next, TimelyNext

\* With the timing the code relies on, the queue implements the lifecycle: each
\* job is held by one worker at a time, within its budget, and settled once.
THEOREM QueueImplementsLifecycle ==
  ASSUME MaxStalls = 0
  PROVE  Spec => ImplementsLifecycle
<1> DEFINE mapped == [j \in Jobs |-> Entry(jobs[j])]
<1>1. Init => Lifecycle!Init
  <2> SUFFICES ASSUME Init PROVE Lifecycle!Init
    OBVIOUS
  <2>1. ASSUME NEW j \in Jobs PROVE Entry(jobs[j]) = Lifecycle!Unknown
    BY DEF Init, Entry, Phase, NoRow, Lifecycle!Unknown, Lifecycle!Entry
  <2> QED
    BY <2>1 DEF Lifecycle!Init
<1>2. QueueInv /\ QueueInv' /\ [Next]_vars => [Lifecycle!Next]_mapped
  <2> SUFFICES ASSUME QueueInv, QueueInv', [Next]_vars
               PROVE  [Lifecycle!Next]_mapped
    OBVIOUS
  <2>1. CASE UNCHANGED vars
    BY <2>1 DEF vars
  <2>2. CASE Next
    <3>1. stalls = 0 /\ stalls' = 0
      BY DEF QueueInv, TypeOK
    <3>2. ASSUME NEW j \in Jobs
          PROVE  \/ Entry(jobs'[j]) = Entry(jobs[j])
                 \/ Lifecycle!Move(Entry(jobs[j]), Entry(jobs'[j]))
      BY <2>2, <3>1, StepMoves
    <3>3. ASSUME NEW i \in Jobs, NEW j \in Jobs,
                 Lifecycle!Unsettled(Entry(jobs'[i])), Lifecycle!Unsettled(Entry(jobs'[j])),
                 Entry(jobs'[i]).key = Entry(jobs'[j]).key
          PROVE  i = j
      <4>1. Live(jobs'[i]) /\ Live(jobs'[j])
        BY <3>3 DEF Lifecycle!Unsettled, Entry, Phase, Live, QueueInv, TypeOK, Row, RowStatus
      <4>2. jobs'[i].key = jobs'[j].key
        BY <3>3 DEF Entry
      <4> QED
        BY <4>1, <4>2 DEF QueueInv, LiveKeyUnique, Live
    <3>4. mapped' = [j \in Jobs |-> Entry(jobs'[j])]
      BY DEF Entry, Phase
    <3> QED
      BY <3>2, <3>3, <3>4 DEF Lifecycle!Next, Lifecycle!KeysDistinct
  <2> QED
    BY <2>1, <2>2
<1> QED
  BY <1>1, <1>2, Invariance, PTL DEF Spec, ImplementsLifecycle, Lifecycle!Spec

\* All that the queue promises its users, for any keys, jobs, loops and processes.
THEOREM QueueKeepsPromises == Spec => QueuePromises
BY LiveKeysStayUnique, HandlersExclusive, AttemptsBounded, OutcomesFinal, PTL
   DEF QueuePromises
=============================================================================
