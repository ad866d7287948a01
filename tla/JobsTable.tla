----------------------------- MODULE JobsTable -----------------------------
(***************************************************************************)
(* The `jobs` table of packages/db: what each SQL statement of             *)
(* packages/db/src/queue.ts does to the row it matches.  Nothing here has  *)
(* state; JobQueue and the modules built on it apply these operators to    *)
(* their `jobs` variable.                                                  *)
(*                                                                         *)
(* A row keeps the columns the properties tell apart.  `key` stands for    *)
(* the pair (queue, dedupe_key); `due` for run_at <= now(); `lease` for    *)
(* lease_expires_at (NULL, in the future, in the past); `by` for           *)
(* locked_by.  last_error and the timestamps are left out, and the names   *)
(* and payloads of jobs are determined by their key.                       *)
(***************************************************************************)
EXTENDS Integers

CONSTANTS NoKey,    \* the key of an id that has no row
          NoOne     \* locked_by IS NULL

\* jobs_status_check also admits 'failed', which no statement ever writes.
RowStatus == {"absent", "queued", "running", "succeeded", "dead"}

LeaseState == {"none", "live", "lapsed"}

NoRow == [status |-> "absent", key |-> NoKey, attempts |-> 0, due |-> FALSE,
          lease |-> "none", by |-> NoOne]

Live(row) == row.status \in {"queued", "running"}

Finished(row) == row.status \in {"succeeded", "dead"}

\* A mutant of KeyTaken: the index covers waiting jobs only.
KeyTakenWhileQueued(rows, k) ==
  \E j \in DOMAIN rows : rows[j].status = "queued" /\ rows[j].key = k

\* The partial unique index jobs_dedupe_live_uq: a live row may carry k only
\* if no other live row does.
KeyTaken(rows, k) == \E j \in DOMAIN rows : Live(rows[j]) /\ rows[j].key = k

KeyTakenByOther(rows, j) ==
  \E i \in DOMAIN rows \ {j} : Live(rows[i]) /\ rows[i].key = rows[j].key

\* enqueue(): the INSERT.
NewRow(k) == [NoRow EXCEPT !.status = "queued", !.key = k, !.due = TRUE]

\* claim(): the outer UPDATE.
ClaimedRow(row, c) ==
  [row EXCEPT !.status = "running", !.attempts = @ + 1,
              !.lease = "live", !.by = c]

\* A mutant of Unlocked: the lease is left on the row.
UnlockedNot(row, status) == [row EXCEPT !.status = status]

\* Every statement that takes a job off its worker clears the lease.
Unlocked(row, status) ==
  [row EXCEPT !.status = status, !.lease = "none", !.by = NoOne]

\* succeed(): WHERE id only, so it overwrites whatever the row says.
SucceededRow(row) == Unlocked(row, "succeeded")

\* A mutant of WillRetry: one retry too many.
WillRetryOnceMore(retryable, attempts, max) == retryable /\ attempts <= max

\* fail()'s decision, from the attempts the CLAIM returned.
WillRetry(retryable, attempts, max) == retryable /\ attempts < max

\* fail(): WHERE id only.  A retry waits for its backoff; a dead-letter keeps
\* run_at.
FailedRow(row, willRetry) ==
  IF willRetry THEN [Unlocked(row, "queued") EXCEPT !.due = FALSE]
               ELSE Unlocked(row, "dead")

\* A mutant of Releasable: not fenced on the worker.
ReleasableByAnyone(row, c) == row.status # "absent"

\* release(): fenced on locked_by; runnable at once, its attempt given back.
Releasable(row, c) == row.status = "running" /\ row.by = c

ReleasedRow(row) ==
  [Unlocked(row, "queued") EXCEPT
     !.attempts = IF @ > 0 THEN @ - 1 ELSE 0, !.due = TRUE]

\* Mutants of Reapable: the lease is not looked at; only NULL leases match.
ReapableAnyLease(row) == row.status = "running"
ReapableNoLease(row)  == row.status = "running" /\ row.lease = "none"

\* reapExpiredLeases(): the UPDATE, run_at untouched.
Reapable(row) == row.status = "running" /\ row.lease = "lapsed"

\* A mutant of ReapedRow: the last attempt is put back.
ReapedRowOnceMore(row, max) ==
  Unlocked(row, IF row.attempts > max THEN "dead" ELSE "queued")

ReapedRow(row, max) ==
  Unlocked(row, IF row.attempts >= max THEN "dead" ELSE "queued")
=============================================================================
