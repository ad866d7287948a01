------------------------------ MODULE DataGrid ------------------------------
(***************************************************************************)
(* The administrators' data tables over the registers of attendance        *)
(* (apps/web admin/data/[entity]: the row actions and the CSV import;      *)
(* admin/derived-counts.ts): rows of session_attendance, and the count     *)
(* each session keeps of them.  The teacher's marking screen writes them   *)
(* beside it.                                                              *)
(*                                                                         *)
(* A transaction is steps with PostgreSQL's locks under READ COMMITTED:    *)
(* its write, then for each session a count and its UPDATE, which waits    *)
(* with the number already computed.  A mark is present: the statuses      *)
(* among the marked, and the student's percentage, move with them.         *)
(***************************************************************************)
EXTENDS Naturals

CONSTANTS Clerks,    \* people with a form or a file open
          Registers, \* classroom sessions
          Marked,    \* rows of session_attendance
          Nowhere,
          MaxCommits \* bound

ASSUME GridAssumption == Nowhere \notin Registers /\ MaxCommits \in Nat

VARIABLES place,    \* the session of each row, Nowhere when there is no such row
          tallied,  \* the rows each session's total_count counts
          existing, \* sessions there are
          working,  \* what each person is doing
          commits,
          spoiled   \* sessions whose count CountsAreCurrent does not speak of

gridVars == <<place, tallied, existing, working, commits, spoiled>>
-----------------------------------------------------------------------------
Places == Registers \cup {Nowhere}

\* What a person does: the first is the teacher's marking; "session" and "drop"
\* are an edit and a deletion of a session, the others write its rows.
Work == {"mark", "add", "move", "remove", "import", "session", "drop"}

NoRows == [r \in Marked |-> Nowhere]

NoWork == [at |-> "none", work |-> "none", rows |-> {}, to |-> Nowhere,
           before |-> NoRows, shown |-> {}, after |-> NoRows, todo |-> {},
           waits |-> Nowhere, number |-> [s \in Registers |-> {}],
           stored |-> {}, fresh |-> {}]

RowsIn(where, s) == {r \in Marked : where[r] = s}

GridInit ==
  /\ place \in [Marked -> Places]
  /\ tallied = [s \in Registers |-> RowsIn(place, s)]
  /\ existing = Registers
  /\ working = [t \in Clerks |-> NoWork]
  /\ commits = 0 /\ spoiled = {}
-----------------------------------------------------------------------------
(***************************************************************************)
(* Row locks.  A foreign key's check takes KEY SHARE on the session, which *)
(* conflicts with FOR UPDATE and not with a count's UPDATE.                *)
(***************************************************************************)
Others(t) == {u \in Clerks \ {t} : working[u].at = "counting"}

LocksSession(u, s) ==
  working[u].work \in {"mark", "session", "drop"} /\ working[u].to = s

RefersTo(u, s) ==
  /\ working[u].work \in {"add", "move", "import"} /\ working[u].to = s
  /\ \E r \in working[u].rows : place[r] # s

\* SELECT ... FOR UPDATE of the session.
MayLock(t, s) ==
  \A u \in Others(t) : ~LocksSession(u, s) /\ ~RefersTo(u, s) /\ s \notin working[u].stored

\* Only a row that was not of s has its key checked.
MayRefer(t, rows, s) ==
  (\E r \in rows : place[r] # s) => \A u \in Others(t) : ~LocksSession(u, s)

MayUpdate(t, s) == \A u \in Others(t) : ~LocksSession(u, s) /\ s \notin working[u].stored

MayWrite(t, rows) == \A u \in Others(t) : working[u].rows \cap rows = {}
-----------------------------------------------------------------------------
\* A session's form carries the count it showed when it was opened; the import
\* reads the rows its file names before its transaction.
OpenForm(t, work, rows, s) ==
  /\ working[t].at = "none" /\ commits < MaxCommits
  /\ working' = [working EXCEPT ![t] =
       [NoWork EXCEPT !.at = "open", !.work = work, !.rows = rows, !.to = s,
                      !.before = IF work = "import" THEN place ELSE @,
                      !.shown = IF work = "session" THEN tallied[s] ELSE @]]
  /\ UNCHANGED <<place, tallied, existing, commits, spoiled>>

Fresh(t) == working[t].at = "none" /\ commits < MaxCommits

Opened(t, work) == working[t].at = "open" /\ working[t].work = work

\* A transaction's write: it holds its rows, sees them in session s, and will
\* count the sessions in todo.
HoldRows(t, work, rows, s, holds, todo) ==
  /\ MayWrite(t, rows)
  /\ working' = [working EXCEPT ![t] =
       [@ EXCEPT !.at = "counting", !.work = work, !.rows = rows, !.to = holds,
                 !.todo = todo,
                 !.after = [r \in Marked |-> IF r \in rows THEN s ELSE Nowhere]]]
  /\ UNCHANGED <<place, tallied, existing, commits, spoiled>>

\* saveSessionMarks(): new marks, and those she had.
WriteMarking(t, rows, s) ==
  /\ Fresh(t) /\ s \in existing /\ MayLock(t, s)
  /\ \A r \in rows : place[r] \in {Nowhere, s}
  /\ HoldRows(t, "mark", rows, s, s, {s})

\* createRowAction(), or an import's rows without an id.
WriteAdded(t, rows, s) ==
  /\ Fresh(t) /\ s \in existing /\ MayRefer(t, rows, s)
  /\ \A r \in rows : place[r] = Nowhere
  /\ HoldRows(t, "add", rows, s, s, {s})

\* A bug for TLC to find: the session a mark was taken from keeps counting it.
ToOnly(from, to) == {to}

BothSides(from, to) == {from, to}

\* updateRowAction(): the row as it is under its lock, and as it will be.
WriteMoved(t, r, s) ==
  /\ Fresh(t) /\ s \in existing /\ MayRefer(t, {r}, s)
  /\ place[r] # Nowhere
  /\ HoldRows(t, "move", {r}, s, s, BothSides(place[r], s))

\* deleteRowAction(), bulkDeleteAction(): whichever of the rows there are.
WriteRemoved(t, rows) ==
  /\ Fresh(t) /\ \A r \in rows : place[r] # Nowhere
  /\ HoldRows(t, "remove", rows, Nowhere, Nowhere, {place[r] : r \in rows})

\* A bug for TLC to find: the counts of the session the file names, and no other.
AsTheFile(t) == {working[t].to}

\* What keepDerivedCounts() is given for an import: the rows of the file, and as
\* they were read before the transaction.
FileSessions(t) ==
  ({working[t].to} \cup {working[t].before[r] : r \in working[t].rows}) \ {Nowhere}

\* A row that appeared or vanished since the file was read is refused, alone.
Accepted(t) ==
  {r \in working[t].rows : (working[t].before[r] = Nowhere) <=> (place[r] = Nowhere)}

\* importCsv(): the rows with an id, each in a savepoint of its own.
WriteImported(t) ==
  LET s == working[t].to
  IN /\ Opened(t, "import") /\ s \in existing /\ MayRefer(t, Accepted(t), s)
     /\ MayWrite(t, working[t].rows)
     /\ HoldRows(t, "import", Accepted(t), s, s, FileSessions(t))

\* A session is edited, with every field of the form: nothing is tallied again.
WriteSession(t) ==
  LET s == working[t].to
  IN /\ Opened(t, "session") /\ s \in existing /\ MayLock(t, s)
     /\ HoldRows(t, "session", {}, Nowhere, s, {})

\* Its marks go with it.
WriteDropped(t, s) ==
  /\ Fresh(t) /\ s \in existing /\ MayLock(t, s)
  /\ HoldRows(t, "drop", RowsIn(place, s), Nowhere, s, {})

\* What a transaction sees: what is committed, and its own rows.
View(t) ==
  [r \in Marked |-> IF r \in working[t].rows THEN working[t].after[r] ELSE place[r]]

\* A bug for TLC to find: tallied before the write.
CommittedOnly(t) == place

Seen(t) == View(t)

\* recomputeSessionCounts(): the SELECT.
CountRows(t, s) ==
  LET d == working[t]
  IN /\ d.at = "counting" /\ d.waits = Nowhere /\ s \in d.todo
     /\ working' = [working EXCEPT ![t] =
          [d EXCEPT !.todo = d.todo \ {s}, !.waits = IF s \in existing THEN s ELSE Nowhere,
                    !.number = [d.number EXCEPT ![s] = RowsIn(Seen(t), s)],
                    !.fresh = d.fresh \cup {s}]]
     /\ UNCHANGED <<place, tallied, existing, commits, spoiled>>

\* The UPDATE; of a session deleted while it waited, it finds nothing.
StoreCount(t) ==
  LET d == working[t]
      s == d.waits
  IN /\ s # Nowhere /\ MayUpdate(t, s)
     /\ working' = [working EXCEPT ![t] =
          [d EXCEPT !.waits = Nowhere,
                    !.stored = IF s \in existing THEN d.stored \cup {s} ELSE d.stored]]
     /\ UNCHANGED <<place, tallied, existing, commits, spoiled>>

\* The sessions whose rows a commit changes.
Touched(t) ==
  {s \in Registers : RowsIn(View(t), s) # RowsIn(place, s)}

\* An import's row was moved after the file was read.
Misread(t) ==
  /\ working[t].work = "import"
  /\ \E r \in working[t].rows : working[t].before[r] # place[r]

CommitWork(t) ==
  LET d == working[t]
      typed == IF d.work = "session" THEN {d.to} ELSE {}
      stale == (d.stored \ d.fresh)
               \cup {s \in typed : d.shown # tallied[s]}
               \cup (IF Misread(t) THEN Touched(t) \ d.stored ELSE {})
  IN /\ d.at = "counting" /\ d.todo = {} /\ d.waits = Nowhere
     /\ commits < MaxCommits /\ commits' = commits + 1
     /\ place' = View(t)
     /\ existing' = IF d.work = "drop" THEN existing \ {d.to} ELSE existing
     /\ tallied' = [s \in Registers |-> IF s \in typed THEN d.shown
                                        ELSE IF s \in d.stored THEN d.number[s]
                                        ELSE tallied[s]]
     /\ spoiled' = (spoiled \ d.stored) \cup stale
     /\ working' = [u \in Clerks |->
          IF u = t THEN NoWork ELSE [working[u] EXCEPT !.fresh = @ \ Touched(t)]]

\* Refused, by a rule, a key or a deadlock; or the process is gone.
RollBack(t) ==
  /\ working[t].at # "none"
  /\ working' = [working EXCEPT ![t] = NoWork]
  /\ UNCHANGED <<place, tallied, existing, commits, spoiled>>

GridNext ==
  \E t \in Clerks :
    \/ \E s \in Registers :
         \/ \E rows \in SUBSET Marked \ {{}} :
              \/ WriteMarking(t, rows, s) \/ WriteAdded(t, rows, s)
              \/ OpenForm(t, "import", rows, s)
         \/ \E r \in Marked : WriteMoved(t, r, s)
         \/ OpenForm(t, "session", {}, s) \/ WriteDropped(t, s)
         \/ CountRows(t, s)
    \/ \E rows \in SUBSET Marked \ {{}} : WriteRemoved(t, rows)
    \/ WriteImported(t) \/ WriteSession(t)
    \/ StoreCount(t) \/ CommitWork(t) \/ RollBack(t)

GridSpec == GridInit /\ [][GridNext]_gridVars
-----------------------------------------------------------------------------
\* The values of the tables and of the requests.
GridTypeOK ==
  /\ place \in [Marked -> Places] /\ tallied \in [Registers -> SUBSET Marked]
  /\ existing \subseteq Registers /\ spoiled \subseteq Registers
  /\ commits \in 0..MaxCommits
  /\ \A t \in Clerks :
       /\ working[t].at \in {"none", "open", "counting"}
       /\ working[t].work \in Work \cup {"none"}
       /\ working[t].rows \subseteq Marked /\ working[t].to \in Places
       /\ working[t].todo \subseteq Registers /\ working[t].stored \subseteq Registers
       /\ working[t].waits \in Places

\* A mark is of a session that is there.
MarksHaveSession == \A r \in Marked : place[r] \in existing \cup {Nowhere}

\* A session counts the marks it has, whoever adds, moves or removes them; but
\* for one whose row was saved from a form that showed an older count, one whose
\* last count was computed beside a transaction it did not see, and one from
\* which an import took a mark it had read elsewhere.
CountsAreCurrent ==
  \A s \in existing \ spoiled : tallied[s] = RowsIn(place, s)

\* The registers and the numbers shown of them agree.
GridPromises == GridTypeOK /\ MarksHaveSession /\ CountsAreCurrent
=============================================================================
