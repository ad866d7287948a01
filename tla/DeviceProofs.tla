---------------------------- MODULE DeviceProofs ----------------------------
(***************************************************************************)
(* Proofs about what a browser begins and a server finishes: the direct    *)
(* upload and its sweep (DirectUpload), for any number of uploads, cycles, *)
(* completion calls and workers; the upload screen of a phone              *)
(* (UploadClient), for any number of files and of calls under way; and the *)
(* draft of a form (FormDrafts), for any number of keystrokes and saves.   *)
(***************************************************************************)
EXTENDS DirectUpload, UploadClient, FormDrafts, TLAPS
-----------------------------------------------------------------------------
\* One upload's rows: its submission's status and context, its file, the Evidence
\* rows and the transcodes queued.
RowsFit(status, ctx, f, e, h) ==
  /\ status = "none" => f = "none" /\ e = <<>>
  /\ status = "received" => f = "uploading"
  /\ status \in {"queued", "ready"} => f = "stored"
  /\ status = "failed" => f \in {"stored", "failed"}
  /\ f = "stored" => h # 0 /\ (ctx \in Cycles => e = <<ctx>>)
  /\ e # <<>> => e = <<ctx>>

\* The rows, and the object, of one whose complete bytes met no refusal under way.
Uncrossed(f, o, e, h) ==
  /\ f = "stored" => o = "full" /\ h = 1
  /\ f # "stored" => h = 0 /\ e = <<>>

UploadFits(u) ==
  /\ RowsFit(sub[u].status, sub[u].ctx, file[u], evidence[u], handed[u])
  /\ u \notin crossed => Uncrossed(file[u], object[u], evidence[u], handed[u])

\* A complete object that a caller found is still there, and no caller that refuses
\* an oversized one names a complete one by it, unless the two crossed.
FoundStays(x) ==
  /\ ~At(x, "none") => call[x].u \in Uploads
  /\ call[x].u \notin crossed =>
       /\ At(x, "act") /\ call[x].found = "full" => object[call[x].u] = "full"
       /\ Refusing(x, call[x].u) => object[call[x].u] # "full"

UploadInv ==
  TypeOK /\ (\A u \in Uploads : UploadFits(u)) /\ (\A x \in Callers : FoundStays(x))
-----------------------------------------------------------------------------
Submission == [status : SubStatus, ctx : Contexts]

Evidence == {<<>>} \cup {<<c>> : c \in Cycles}

UploadCall == [at : {"none", "stat", "act", "remove"}, u : Uploads \cup {NoUpload}, age : Ages,
               found : Sizes \cup {"none"}]

Types ==
  /\ sub \in [Uploads -> Submission]
  /\ file \in [Uploads -> FileStatus]
  /\ age \in [Uploads -> Ages]
  /\ object \in [Uploads -> Sizes \cup {"none", "removed"}]
  /\ evidence \in [Uploads -> Evidence]
  /\ handed \in [Uploads -> 0..2]
  /\ signedOff \subseteq Cycles /\ crossed \subseteq Uploads
  /\ call \in [Callers -> UploadCall]

\* The types as the proofs use them.
LEMMA TypesIsTypeOK == Types <=> TypeOK
  BY DEF Types, TypeOK, Submission, Evidence, UploadCall

\* The rows of one upload are written, to rows that fit.
LEMMA RowsWritten ==
  ASSUME UploadInv, UNCHANGED <<age, object, signedOff, crossed>>, NEW u \in Uploads,
         NEW status \in SubStatus, NEW ctx \in Contexts, NEW f \in FileStatus,
         NEW e \in Evidence, NEW h \in 0..2,
         sub' = [sub EXCEPT ![u] = [status |-> status, ctx |-> ctx]],
         file' = [file EXCEPT ![u] = f],
         evidence' = [evidence EXCEPT ![u] = e],
         handed' = [handed EXCEPT ![u] = h],
         RowsFit(status, ctx, f, e, h),
         u \notin crossed => Uncrossed(f, object[u], e, h)
  PROVE  /\ sub' \in [Uploads -> Submission] /\ file' \in [Uploads -> FileStatus]
         /\ evidence' \in [Uploads -> Evidence] /\ handed' \in [Uploads -> 0..2]
         /\ \A k \in Uploads : UploadFits(k)'
<1>1. Types /\ \A k \in Uploads : UploadFits(k)
  BY TypesIsTypeOK DEF UploadInv
<1>2. [status |-> status, ctx |-> ctx] \in Submission
  BY DEF Submission
<1>3. /\ sub' \in [Uploads -> Submission] /\ file' \in [Uploads -> FileStatus]
      /\ evidence' \in [Uploads -> Evidence] /\ handed' \in [Uploads -> 0..2]
  BY <1>1, <1>2 DEF Types
<1>4. UploadFits(u)'
  BY <1>1 DEF Types, UploadFits
<1>5. ASSUME NEW k \in Uploads, k # u PROVE UploadFits(k)'
  BY <1>1, <1>5 DEF Types, UploadFits
<1> QED
  BY <1>3, <1>4, <1>5

\* One caller goes on, to a call that fits.
LEMMA CallMoves ==
  ASSUME UploadInv, UNCHANGED <<object, crossed>>, NEW x \in Callers, NEW new \in UploadCall,
         call' = [call EXCEPT ![x] = new],
         new.at # "none" => new.u \in Uploads,
         new.u \notin crossed /\ new.at = "act" /\ new.found = "full" => object[new.u] = "full",
         new.u \notin crossed /\ (new.at = "remove" \/ (new.at = "act" /\ new.found = "over"))
           => object[new.u] # "full"
  PROVE  call' \in [Callers -> UploadCall] /\ \A y \in Callers : FoundStays(y)'
<1>1. /\ call \in [Callers -> UploadCall] /\ \A y \in Callers : FoundStays(y)
  BY TypesIsTypeOK DEF UploadInv, Types
<1>2. call' \in [Callers -> UploadCall]
  BY <1>1
<1>3. FoundStays(x)'
  BY <1>1 DEF FoundStays, Refusing, At
<1>4. ASSUME NEW y \in Callers, y # x PROVE FoundStays(y)'
  BY <1>1, <1>4 DEF FoundStays, Refusing, At
<1> QED
  BY <1>2, <1>3, <1>4

\* Returning fits.
LEMMA ReturnMoves ==
  ASSUME UploadInv, UNCHANGED <<object, crossed>>, NEW x \in Callers, Return(x)
  PROVE  call' \in [Callers -> UploadCall] /\ \A y \in Callers : FoundStays(y)'
<1>1. NoCall \in UploadCall /\ NoCall.at = "none"
  BY DEF NoCall, UploadCall, Ages
<1> QED
  BY <1>1, CallMoves DEF Return

\* What the rows and the calls need, together.
LEMMA InvFrom ==
  ASSUME sub' \in [Uploads -> Submission] /\ file' \in [Uploads -> FileStatus]
         /\ evidence' \in [Uploads -> Evidence] /\ handed' \in [Uploads -> 0..2],
         \A k \in Uploads : UploadFits(k)',
         call' \in [Callers -> UploadCall], \A y \in Callers : FoundStays(y)',
         age' \in [Uploads -> Ages], object' \in [Uploads -> Sizes \cup {"none", "removed"}],
         signedOff' \subseteq Cycles, crossed' \subseteq Uploads
  PROVE  UploadInv'
  BY DEF UploadInv, TypeOK, Submission, Evidence, UploadCall

\* The rows are left alone.
LEMMA RowsStill ==
  ASSUME UploadInv, UNCHANGED <<rows, object, crossed>>
  PROVE  /\ sub' \in [Uploads -> Submission] /\ file' \in [Uploads -> FileStatus]
         /\ evidence' \in [Uploads -> Evidence] /\ handed' \in [Uploads -> 0..2]
         /\ \A k \in Uploads : UploadFits(k)'
  BY TypesIsTypeOK DEF UploadInv, Types, rows, UploadFits

\* A failed upload's rows.
LEMMA RowsFailed ==
  ASSUME UploadInv, UNCHANGED <<age, object, signedOff, crossed>>, NEW u \in Uploads,
         sub[u].status \in {"received", "failed"}, u \notin crossed => file[u] # "stored",
         SetStatus(u, "failed"), file' = [file EXCEPT ![u] = "failed"],
         UNCHANGED <<evidence, handed>>
  PROVE  /\ sub' \in [Uploads -> Submission] /\ file' \in [Uploads -> FileStatus]
         /\ evidence' \in [Uploads -> Evidence] /\ handed' \in [Uploads -> 0..2]
         /\ \A k \in Uploads : UploadFits(k)'
<1>1. Types /\ UploadFits(u)
  BY TypesIsTypeOK DEF UploadInv
<1> DEFINE ctx == sub[u].ctx
           e == evidence[u]
           h == handed[u]
<1>2. sub[u] \in Submission /\ ctx \in Contexts /\ e \in Evidence /\ h \in 0..2
  BY <1>1 DEF Types, Submission
<1>3. \A r \in Submission : [r EXCEPT !.status = "failed"] = [status |-> "failed", ctx |-> r.ctx]
  BY DEF Submission
<1>4. sub' = [sub EXCEPT ![u] = [status |-> "failed", ctx |-> ctx]]
  BY <1>2, <1>3 DEF SetStatus
<1>5. evidence' = [evidence EXCEPT ![u] = e] /\ handed' = [handed EXCEPT ![u] = h]
  BY <1>1 DEF Types
<1>6. /\ RowsFit("failed", ctx, "failed", e, h)
      /\ u \notin crossed => Uncrossed("failed", object[u], e, h)
  BY <1>1 DEF UploadFits, RowsFit, Uncrossed
<1>7. "failed" \in SubStatus /\ "failed" \in FileStatus
  BY DEF SubStatus, FileStatus
<1> HIDE DEF ctx, e, h
<1> QED
  BY <1>2, <1>4, <1>5, <1>6, <1>7, RowsWritten

\* finalizeUpload() leaves rows that fit a complete object.
LEMMA FinalizeFits ==
  ASSUME UploadInv, UNCHANGED <<age, object, signedOff, crossed>>, NEW u \in Uploads,
         u \notin crossed => object[u] = "full", finalizeUpload(u)
  PROVE  /\ sub' \in [Uploads -> Submission] /\ file' \in [Uploads -> FileStatus]
         /\ evidence' \in [Uploads -> Evidence] /\ handed' \in [Uploads -> 0..2]
         /\ \A k \in Uploads : UploadFits(k)'
<1>1. Types /\ UploadFits(u)
  BY TypesIsTypeOK DEF UploadInv
<1>2. CASE ~Claimable(u)
  BY <1>2, RowsStill DEF finalizeUpload
<1>3. CASE Claimable(u)
  <2> DEFINE ctx == sub[u].ctx
             was == evidence[u]
             to == LinkedContext(u, ctx)
             e == IF ctx \in Cycles \ signedOff /\ was = <<>> THEN <<ctx>> ELSE was
             h == OnceMore(handed[u])
  <2>1. /\ was # <<>> => was = <<ctx>>
        /\ u \notin crossed => handed[u] = 0
        /\ ctx \in Contexts /\ was \in Evidence /\ handed[u] \in 0..2
    BY <1>1, <1>3 DEF Claimable, UploadFits, RowsFit, Uncrossed, Types, Submission
  <2>2. evidence' = [evidence EXCEPT ![u] = e]
    <3>1. evidence = [evidence EXCEPT ![u] = was]
      BY <1>1 DEF Types
    <3> QED
      BY <1>3, <3>1 DEF finalizeUpload, Linked
  <2>3. h \in 0..2 /\ h # 0 /\ (u \notin crossed => h = 1)
    BY <2>1 DEF OnceMore
  <2>4. \A c \in Cycles : was # <<>> /\ was = <<Generic>> => was # <<c>>
    BY UploadAssumption
  <2>5. /\ to \in Contexts /\ e \in Evidence
        /\ to \in Cycles => e = <<to>>
        /\ e # <<>> => e = <<to>>
    BY <1>1, <2>1, UploadAssumption DEF LinkedContext, Contexts, Types, Evidence
  <2>6. /\ sub' = [sub EXCEPT ![u] = [status |-> "queued", ctx |-> to]]
        /\ file' = [file EXCEPT ![u] = "stored"]
        /\ handed' = [handed EXCEPT ![u] = h]
    BY <1>1, <1>3 DEF finalizeUpload, Types
  <2>7. "queued" \in SubStatus /\ "stored" \in FileStatus
    BY DEF SubStatus, FileStatus
  <2> HIDE DEF e, h, to
  <2>8. /\ RowsFit("queued", to, "stored", e, h)
        /\ u \notin crossed => Uncrossed("stored", object[u], e, h)
    BY <2>3, <2>5 DEF RowsFit, Uncrossed
  <2> QED
    BY <2>2, <2>3, <2>5, <2>6, <2>7, <2>8, RowsWritten
<1> QED
  BY <1>2, <1>3

\* The uploader, Storage, the transcode and a cycle's sign-off.
LEMMA ReserveInv ==
  ASSUME UploadInv, NEW u \in Uploads, NEW c \in Contexts, Reserve(u, c)
  PROVE  UploadInv'
<1> DEFINE e == evidence[u]
           h == handed[u]
<1>1. Types /\ UploadFits(u) /\ (\A y \in Callers : FoundStays(y))
  BY TypesIsTypeOK DEF UploadInv
<1>2. /\ sub' = [sub EXCEPT ![u] = [status |-> "received", ctx |-> c]]
      /\ file' = [file EXCEPT ![u] = "uploading"]
      /\ evidence' = [evidence EXCEPT ![u] = e] /\ handed' = [handed EXCEPT ![u] = h]
      /\ UNCHANGED <<age, object, signedOff, crossed, call>>
  BY <1>1 DEF Reserve, world, Types
<1>3. /\ RowsFit("received", c, "uploading", e, h)
      /\ u \notin crossed => Uncrossed("uploading", object[u], e, h)
  BY <1>1 DEF Reserve, UploadFits, RowsFit, Uncrossed
<1>4. /\ e \in Evidence /\ h \in 0..2 /\ "received" \in SubStatus /\ "uploading" \in FileStatus
  BY <1>1 DEF Types, SubStatus, FileStatus
<1> HIDE DEF e, h
<1>5. /\ sub' \in [Uploads -> Submission] /\ file' \in [Uploads -> FileStatus]
      /\ evidence' \in [Uploads -> Evidence] /\ handed' \in [Uploads -> 0..2]
      /\ \A k \in Uploads : UploadFits(k)'
  BY <1>2, <1>3, <1>4, RowsWritten
<1>6. call' \in [Callers -> UploadCall] /\ \A y \in Callers : FoundStays(y)'
  BY <1>1, <1>2 DEF Types, FoundStays, Refusing, At
<1> QED
  BY <1>1, <1>2, <1>5, <1>6, InvFrom DEF Types

\* An object appears where none was, or none is any longer.
LEMMA LandInv ==
  ASSUME UploadInv, NEW u \in Uploads, NEW size \in Sizes, Land(u, size)
  PROVE  UploadInv'
<1>1. /\ Types /\ (\A k \in Uploads : UploadFits(k)) /\ (\A y \in Callers : FoundStays(y))
      /\ object[u] # "full" /\ file[u] # "stored" /\ object' = [object EXCEPT ![u] = size]
      /\ UNCHANGED <<rows, age, signedOff, call>>
  BY TypesIsTypeOK DEF UploadInv, Land
<1>2. /\ crossed \subseteq crossed' /\ crossed' \subseteq Uploads
      /\ size = "full" /\ u \notin crossed' => \A x \in Callers : ~Refusing(x, u)
  BY <1>1 DEF Land, Types
<1>3. ASSUME NEW k \in Uploads PROVE UploadFits(k)'
  <2>1. object'[k] = object[k] \/ k = u
    BY <1>1 DEF Types
  <2> QED
    BY <1>1, <1>2, <2>1 DEF UploadFits, Uncrossed, rows
<1>4. ASSUME NEW y \in Callers PROVE FoundStays(y)'
  <2>1. call[y].u \in Uploads /\ call[y].u # u => object'[call[y].u] = object[call[y].u]
    BY <1>1 DEF Types
  <2>2. call[y].u = u => object'[call[y].u] = size
    BY <1>1 DEF Types
  <2>3. (Refusing(y, call[y].u)' <=> Refusing(y, call[y].u)) /\ (\A at : At(y, at)' <=> At(y, at))
    BY <1>1 DEF Refusing, At
  <2>4. Refusing(y, call[y].u) => ~At(y, "none")
    BY DEF Refusing, At
  <2>5. At(y, "act") => ~At(y, "none")
    BY DEF At
  <2> QED
    BY <1>1, <1>2, <2>1, <2>2, <2>3, <2>4, <2>5 DEF FoundStays
<1>5. object' \in [Uploads -> Sizes \cup {"none", "removed"}]
  BY <1>1 DEF Types
<1> QED
  BY <1>1, <1>2, <1>3, <1>4, <1>5, InvFrom DEF Types, rows

\* Nothing but time, or the cycles, moves.
LEMMA WorldInv ==
  ASSUME UploadInv, UNCHANGED <<rows, object, crossed, call>>,
         age' \in [Uploads -> Ages], signedOff' \subseteq Cycles
  PROVE  UploadInv'
<1>1. call' \in [Callers -> UploadCall] /\ \A y \in Callers : FoundStays(y)'
  BY TypesIsTypeOK DEF UploadInv, Types, FoundStays, Refusing, At
<1> QED
  BY <1>1, RowsStill, InvFrom, TypesIsTypeOK DEF UploadInv, Types

\* A transcode ends.
LEMMA TranscodeEndsInv ==
  ASSUME UploadInv, NEW u \in Uploads, NEW status \in {"ready", "failed"}, TranscodeEnds(u, status)
  PROVE  UploadInv'
<1> DEFINE c == sub[u].ctx
           f == file[u]
           e == evidence[u]
           h == handed[u]
<1>1. Types /\ UploadFits(u) /\ (\A y \in Callers : FoundStays(y))
  BY TypesIsTypeOK DEF UploadInv
<1>2. /\ c \in Contexts /\ f \in FileStatus /\ e \in Evidence /\ h \in 0..2
      /\ status \in SubStatus /\ sub[u] \in Submission
  BY <1>1 DEF Types, SubStatus, Submission
<1>3. \A r \in Submission : [r EXCEPT !.status = status] = [status |-> status, ctx |-> r.ctx]
  BY DEF Submission
<1>4. sub' = [sub EXCEPT ![u] = [status |-> status, ctx |-> c]]
  BY <1>2, <1>3 DEF TranscodeEnds, SetStatus
<1>5. /\ file' = [file EXCEPT ![u] = f] /\ evidence' = [evidence EXCEPT ![u] = e]
      /\ handed' = [handed EXCEPT ![u] = h] /\ UNCHANGED <<age, object, signedOff, crossed, call>>
  BY <1>1 DEF TranscodeEnds, world, Types
<1>6. /\ RowsFit(status, c, f, e, h)
      /\ u \notin crossed => Uncrossed(f, object[u], e, h)
  BY <1>1 DEF TranscodeEnds, UploadFits, RowsFit
<1> HIDE DEF c, f, e, h
<1>7. /\ sub' \in [Uploads -> Submission] /\ file' \in [Uploads -> FileStatus]
      /\ evidence' \in [Uploads -> Evidence] /\ handed' \in [Uploads -> 0..2]
      /\ \A k \in Uploads : UploadFits(k)'
  BY <1>2, <1>4, <1>5, <1>6, RowsWritten
<1>8. call' \in [Callers -> UploadCall] /\ \A y \in Callers : FoundStays(y)'
  BY <1>1, <1>5 DEF Types, FoundStays, Refusing, At
<1> QED
  BY <1>1, <1>5, <1>7, <1>8, InvFrom DEF Types

\* A video is attached to a cycle: at once when it is stored, by its finalize when
\* it is not.
LEMMA AttachInv ==
  ASSUME UploadInv, NEW u \in Uploads, NEW c \in Cycles, Attach(u, c)
  PROVE  UploadInv'
<1> DEFINE s == sub[u].status
           f == file[u]
           h == handed[u]
           d == IF f = "stored" THEN LinkedContext(u, c) ELSE c
           e == IF f = "stored" /\ c \in Cycles \ signedOff THEN <<c>> ELSE <<>>
<1>1. Types /\ UploadFits(u) /\ (\A y \in Callers : FoundStays(y))
  BY TypesIsTypeOK DEF UploadInv
<1>2. /\ s \in SubStatus /\ f \in FileStatus /\ h \in 0..2 /\ sub[u] \in Submission
      /\ evidence[u] \in Evidence /\ c \in Contexts /\ e \in Evidence
  BY <1>1 DEF Types, Submission, Contexts, Evidence
<1>3. evidence[u] = <<>>
  <2>1. sub[u].ctx = Generic
    BY DEF Attach
  <2>2. \A k \in Cycles : <<k>> = <<Generic>> => k = Generic
    OBVIOUS
  <2> QED
    BY <1>1, <1>2, <2>1, <2>2, UploadAssumption DEF Evidence, UploadFits, RowsFit
<1>4. /\ d \in Contexts /\ (f = "stored" /\ d \in Cycles => e = <<d>>)
      /\ e # <<>> => f = "stored" /\ e = <<d>>
  BY <1>1, <1>2, <1>3, UploadAssumption DEF LinkedContext, Contexts, Types
<1>5. \A r \in Submission : \A x : [r EXCEPT !.ctx = x] = [status |-> r.status, ctx |-> x]
  BY DEF Submission
<1>6. sub' = [sub EXCEPT ![u] = [status |-> s, ctx |-> d]]
  BY <1>2, <1>5 DEF Attach
<1>7. evidence' = [evidence EXCEPT ![u] = e]
  <2>1. evidence = [evidence EXCEPT ![u] = <<>>]
    BY <1>1, <1>3 DEF Types
  <2> QED
    BY <1>3, <2>1 DEF Attach, Linked
<1>8. /\ file' = [file EXCEPT ![u] = f] /\ handed' = [handed EXCEPT ![u] = h]
      /\ UNCHANGED <<age, object, signedOff, crossed, call>>
  BY <1>1 DEF Attach, world, Types
<1>9. /\ RowsFit(s, d, f, e, h)
      /\ u \notin crossed => Uncrossed(f, object[u], e, h)
  <2>1. s # "none"
    BY DEF Attach
  <2> HIDE DEF d, e
  <2> QED
    BY <1>1, <1>4, <2>1 DEF UploadFits, RowsFit, Uncrossed
<1> HIDE DEF s, f, h, d, e
<1>10. /\ sub' \in [Uploads -> Submission] /\ file' \in [Uploads -> FileStatus]
       /\ evidence' \in [Uploads -> Evidence] /\ handed' \in [Uploads -> 0..2]
       /\ \A k \in Uploads : UploadFits(k)'
  BY <1>2, <1>4, <1>6, <1>7, <1>8, <1>9, RowsWritten
<1>11. call' \in [Callers -> UploadCall] /\ \A y \in Callers : FoundStays(y)'
  BY <1>1, <1>8 DEF Types, FoundStays, Refusing, At
<1> QED
  BY <1>1, <1>8, <1>10, <1>11, InvFrom DEF Types

\* A caller begins, asks Storage, or ends having written nothing.
LEMMA AskInv ==
  ASSUME UploadInv, NEW x \in Callers, UNCHANGED <<rows, world>>,
         \/ \E u \in Uploads : Reading(x, u)
         \/ Stat(x) \/ StatFails(x) \/ Die(x) \/ Leave(x)
  PROVE  UploadInv'
<1>1. Types /\ FoundStays(x) /\ call[x] \in UploadCall /\ UNCHANGED <<age, object, signedOff, crossed>>
  BY TypesIsTypeOK DEF UploadInv, Types, world
<1>2. call' \in [Callers -> UploadCall] /\ \A y \in Callers : FoundStays(y)'
  <2>1. ASSUME NEW u \in Uploads, Reading(x, u)
        PROVE  call' \in [Callers -> UploadCall] /\ \A y \in Callers : FoundStays(y)'
    <3> DEFINE new == [at |-> "stat", u |-> u, age |-> IF x \in Sweepers THEN age[u] ELSE "new",
                       found |-> "none"]
    <3>1. new \in UploadCall /\ new.at = "stat" /\ call' = [call EXCEPT ![x] = new] /\ new.u = u
      BY <1>1, <2>1 DEF UploadCall, Reading, Types, Ages
    <3> HIDE DEF new
    <3> QED
      BY <1>1, <3>1, CallMoves
  <2>2. CASE Stat(x)
    <3> DEFINE u == call[x].u
               new == [at |-> "act", u |-> u, age |-> call[x].age, found |-> Held(u)]
    <3>1. u \in Uploads /\ call' = [call EXCEPT ![x] = new]
      BY <1>1, <2>2 DEF Stat, FoundStays, Refusing, At
    <3>2. /\ new \in UploadCall /\ new.at = "act" /\ new.u = u
          /\ new.found = "full" => object[u] = "full"
          /\ new.found = "over" => object[u] # "full"
      BY <1>1, <3>1 DEF UploadCall, Types, Held
    <3> HIDE DEF new, u
    <3> QED
      BY <1>1, <3>1, <3>2, CallMoves
  <2>3. CASE StatFails(x) \/ Die(x) \/ Leave(x)
    BY <1>1, <2>3, ReturnMoves DEF StatFails, Die, Leave
  <2> QED
    BY <2>1, <2>2, <2>3
<1> QED
  BY <1>1, <1>2, RowsStill, InvFrom DEF Types

\* A caller finds the object complete, and finishes the upload.
LEMMA FinishInv ==
  ASSUME UploadInv, NEW x \in Callers, Finish(x)
  PROVE  UploadInv'
<1>1. Types /\ FoundStays(x) /\ call[x] \in UploadCall /\ UNCHANGED <<age, object, signedOff, crossed>>
  BY TypesIsTypeOK DEF UploadInv, Types, world, Finish
<1>2. At(x, "act") /\ Decision(x) = "complete"
  BY DEF Finish
<1>3. call[x].found = "full"
  BY <1>1, <1>2 DEF Decision, UploadCall, Sizes
<1>4. call[x].u \in Uploads /\ (call[x].u \notin crossed => object[call[x].u] = "full")
  BY <1>1, <1>2, <1>3 DEF FoundStays, Refusing, At
<1> QED
  BY <1>1, <1>4, FinalizeFits, ReturnMoves, InvFrom DEF Finish, Types

\* A reservation is given up, or an oversized object refused.
LEMMA GiveUpInv ==
  ASSUME UploadInv, NEW x \in Callers, Abandon(x) \/ RefuseBySweep(x) \/ RefuseByCall(x)
  PROVE  UploadInv'
<1> DEFINE u == call[x].u
<1>1. /\ Types /\ FoundStays(x) /\ call[x] \in UploadCall /\ UNCHANGED <<age, object, signedOff, crossed>>
      /\ At(x, "act")
  BY TypesIsTypeOK DEF UploadInv, Types, world, Abandon, RefuseBySweep, RefuseByCall
<1>2. u \in Uploads
  BY <1>1 DEF FoundStays, Refusing, At
<1>3. UploadFits(u)
  BY <1>2 DEF UploadInv
<1>4. Decision(x) = "refuse" /\ u \notin crossed => object[u] # "full"
  <2>1. Decision(x) = "refuse" => Refusing(x, u)
    BY <1>1 DEF Decision, UploadCall, Sizes, Refusing
  <2> QED
    BY <1>1, <2>1 DEF FoundStays
<1>5. /\ sub' \in [Uploads -> Submission] /\ file' \in [Uploads -> FileStatus]
      /\ evidence' \in [Uploads -> Evidence] /\ handed' \in [Uploads -> 0..2]
      /\ \A k \in Uploads : UploadFits(k)'
  <2>1. CASE UNCHANGED rows
    BY <1>1, <2>1, RowsStill
  <2>2. CASE ~UNCHANGED rows
    <3>1. /\ sub[u].status \in {"received", "failed"} /\ SetStatus(u, "failed")
          /\ file' = [file EXCEPT ![u] = "failed"] /\ UNCHANGED <<evidence, handed>>
          /\ sub[u].status = "received" \/ Decision(x) = "refuse"
      BY <2>2 DEF Abandon, RefuseBySweep, RefuseByCall, GiveUp
    <3>2. u \notin crossed => file[u] # "stored"
      BY <1>3, <1>4, <3>1 DEF UploadFits, RowsFit, Uncrossed
    <3> QED
      BY <1>1, <1>2, <3>1, <3>2, RowsFailed
  <2> QED
    BY <2>1, <2>2
<1>6. call' \in [Callers -> UploadCall] /\ \A y \in Callers : FoundStays(y)'
  <2>1. CASE Return(x)
    BY <1>1, <2>1, ReturnMoves
  <2>2. CASE Goto(x, "remove") /\ Decision(x) = "refuse"
    <3> DEFINE new == [call[x] EXCEPT !.at = "remove"]
    <3>1. new \in UploadCall /\ new.at = "remove" /\ new.u = u
      BY <1>1 DEF UploadCall
    <3>2. call' = [call EXCEPT ![x] = new]
      BY <2>2 DEF Goto
    <3> HIDE DEF new, u
    <3> QED
      BY <1>1, <1>2, <1>4, <2>2, <3>1, <3>2, CallMoves
  <2> QED
    BY <2>1, <2>2 DEF Abandon, RefuseBySweep, RefuseByCall
<1> QED
  BY <1>1, <1>5, <1>6, InvFrom DEF Types

\* The object at the refused key is deleted.
LEMMA RemoveInv ==
  ASSUME UploadInv, NEW x \in Callers, Remove(x)
  PROVE  UploadInv'
<1> DEFINE u == call[x].u
<1>1. /\ Types /\ (\A k \in Uploads : UploadFits(k)) /\ (\A y \in Callers : FoundStays(y))
      /\ u \in Uploads /\ (u \notin crossed => object[u] # "full") /\ Return(x)
      /\ UNCHANGED <<sub, file, evidence, handed, age, signedOff, crossed>>
      /\ object' = [object EXCEPT ![u] = "removed"] \/ UNCHANGED object
  BY TypesIsTypeOK DEF UploadInv, Remove, rows, FoundStays, Refusing, At
<1>2. object' \in [Uploads -> Sizes \cup {"none", "removed"}]
  BY <1>1 DEF Types
<1>3. ASSUME NEW k \in Uploads, k \notin crossed
       PROVE  object'[k] = object[k] \/ (object[k] # "full" /\ object'[k] # "full")
  <2>1. object'[k] = object[k] \/ (k = u /\ object'[k] = "removed")
    BY <1>1 DEF Types
  <2> QED
    BY <1>1, <1>3, <2>1
<1>4. ASSUME NEW k \in Uploads PROVE UploadFits(k)'
  BY <1>1, <1>3 DEF UploadFits, Uncrossed
<1>5. call' \in [Callers -> UploadCall] /\ (\A y \in Callers : call'[y] = call[y] \/ call'[y].at = "none")
  <2>1. NoCall \in UploadCall /\ NoCall.at = "none"
    BY DEF NoCall, UploadCall, Ages
  <2> QED
    BY <1>1, <2>1 DEF Return, Types
<1>6. ASSUME NEW y \in Callers PROVE FoundStays(y)'
  BY <1>1, <1>3, <1>5 DEF FoundStays, Refusing, At
<1> QED
  BY <1>1, <1>2, <1>4, <1>5, <1>6, InvFrom DEF Types

\* Before the first reservation.
LEMMA InitUpload == Init => UploadInv
<1> SUFFICES ASSUME Init PROVE UploadInv
  OBVIOUS
<1>1. /\ [status |-> "none", ctx |-> Generic] \in Submission /\ NoCall \in UploadCall
      /\ "none" \in FileStatus /\ "new" \in Ages /\ <<>> \in Evidence
  BY DEF Submission, SubStatus, Contexts, NoCall, UploadCall, Ages, FileStatus, Evidence
<1>2. Types
  BY <1>1 DEF Init, Types
<1>3. \A u \in Uploads : UploadFits(u)
  BY DEF Init, UploadFits, RowsFit, Uncrossed
<1>4. \A x \in Callers : FoundStays(x)
  BY DEF Init, FoundStays, Refusing, At, NoCall
<1> QED
  BY <1>2, <1>3, <1>4, TypesIsTypeOK DEF UploadInv

\* Each step keeps the upload's rows, its object and what callers found fitting.
LEMMA StepUpload == UploadInv /\ [Next]_vars => UploadInv'
<1> SUFFICES ASSUME UploadInv, [Next]_vars PROVE UploadInv'
  OBVIOUS
<1>1. Browsers \subseteq Callers /\ Sweepers \subseteq Callers /\ Types
  BY TypesIsTypeOK DEF Callers, UploadInv
<1>2. ASSUME NEW u \in Uploads, Wait(u) PROVE UploadInv'
  <2>1. Older(age[u]) \in Ages
    BY DEF Older, Ages
  <2> QED
    BY <1>1, <1>2, <2>1, WorldInv DEF Wait, Types
<1>3. ASSUME NEW c \in Cycles, SignOff(c) PROVE UploadInv'
  BY <1>1, <1>3, WorldInv DEF SignOff, Types
<1>4. CASE UNCHANGED vars
  BY <1>1, <1>4, WorldInv DEF vars, rows, Types
<1>5. ASSUME NEW u \in Uploads, NEW b \in Browsers, BeginComplete(b, u) PROVE UploadInv'
  BY <1>1, <1>5, AskInv DEF BeginComplete
<1>6. ASSUME NEW u \in Uploads, NEW w \in Sweepers, BeginReconcile(w, u) PROVE UploadInv'
  BY <1>1, <1>6, AskInv DEF BeginReconcile
<1>7. ASSUME NEW x \in Callers, Stat(x) \/ StatFails(x) \/ Die(x) \/ Leave(x) PROVE UploadInv'
  BY <1>7, AskInv DEF Stat, StatFails, Die, Leave
<1> QED
  BY <1>1, <1>2, <1>3, <1>4, <1>5, <1>6, <1>7, ReserveInv, LandInv, TranscodeEndsInv, AttachInv,
     FinishInv, GiveUpInv, RemoveInv DEF Next

\* The inductive invariant of the upload.
THEOREM UploadInvariance == Spec => []UploadInv
  BY InitUpload, StepUpload, PTL DEF Spec

\* What a transcode decided, a late completion call or sweep does not undo.
THEOREM DecidedAlwaysStays == Spec => DecidedStays
<1> DEFINE Stays ==
      \A u \in Uploads :
        /\ sub[u].status = "ready" => sub'[u].status = "ready"
        /\ sub[u].status = "failed" /\ file[u] = "stored" => sub'[u].status = "failed"
<1>1. UploadInv /\ [Next]_vars => [Stays]_vars
  <2> SUFFICES ASSUME UploadInv, Next, NEW u \in Uploads,
                      \/ sub[u].status = "ready"
                      \/ sub[u].status = "failed" /\ file[u] = "stored"
               PROVE  sub'[u].status = sub[u].status
    OBVIOUS
  <2>1. sub \in [Uploads -> Submission]
    BY TypesIsTypeOK DEF UploadInv, Types
  <2>2. UNCHANGED sub => sub'[u].status = sub[u].status
    OBVIOUS
  <2>3. ASSUME NEW k \in Uploads, NEW c, Reserve(k, c) PROVE sub'[u].status = sub[u].status
    BY <2>1, <2>3 DEF Reserve
  <2>4. ASSUME NEW k \in Uploads, NEW s, TranscodeEnds(k, s) PROVE sub'[u].status = sub[u].status
    BY <2>1, <2>4 DEF TranscodeEnds, SetStatus
  <2>5. ASSUME NEW k \in Uploads, NEW c, Attach(k, c) PROVE sub'[u].status = sub[u].status
    BY <2>1, <2>5 DEF Attach, Submission
  <2>6. ASSUME NEW x \in Callers, Finish(x) PROVE sub'[u].status = sub[u].status
    BY <2>1, <2>6 DEF Finish, finalizeUpload, Claimable, rows
  <2>7. ASSUME NEW x, Abandon(x) \/ RefuseBySweep(x) PROVE sub'[u].status = sub[u].status
    BY <2>1, <2>7 DEF Abandon, RefuseBySweep, GiveUp, SetStatus, rows
  <2>8. ASSUME NEW x, RefuseByCall(x) PROVE sub'[u].status = sub[u].status
    BY <2>1, <2>8 DEF RefuseByCall, SetStatus, rows, Submission
  <2>9. ASSUME Next PROVE \/ UNCHANGED sub
                          \/ \E k \in Uploads, c \in Contexts : Reserve(k, c)
                          \/ \E k \in Uploads, s \in {"ready", "failed"} : TranscodeEnds(k, s)
                          \/ \E k \in Uploads, c \in Cycles : Attach(k, c)
                          \/ \E x \in Callers : Finish(x)
                          \/ \E x \in Browsers : RefuseByCall(x)
                          \/ \E x \in Sweepers : Abandon(x) \/ RefuseBySweep(x)
    BY <2>9 DEF Next, Land, Wait, BeginComplete, BeginReconcile, SignOff, Stat, StatFails, Die,
                Leave, Remove, rows
  <2> QED
    BY <2>2, <2>3, <2>4, <2>5, <2>6, <2>7, <2>8, <2>9
<1>2. Spec => [][Stays]_vars
  BY <1>1, UploadInvariance, PTL DEF Spec
<1> QED
  BY <1>2 DEF DecidedStays

\* What the run checks of an upload, for any instance.
THEOREM UploadKeepsPromises == Spec => UploadPromises
<1>1. UploadInv => TypeOK /\ RowsAgree /\ EvidenceMatchesContext /\ ObjectKept
  <2> SUFFICES ASSUME UploadInv PROVE RowsAgree /\ EvidenceMatchesContext /\ ObjectKept
    BY DEF UploadInv
  <2> QED
    BY DEF UploadInv, UploadFits, RowsFit, Uncrossed, RowsAgree, EvidenceMatchesContext, ObjectKept
<1> QED
  BY <1>1, UploadInvariance, DecidedAlwaysStays, PTL DEF UploadPromises

-----------------------------------------------------------------------------
(***************************************************************************)
(* The upload screen of a phone (UploadClient).                            *)
(***************************************************************************)
ClientCall == [at : {"none", "begin", "send", "confirm"}, of : Files \cup {NoFile},
               tries : 0..MaxAttempts, mounted : BOOLEAN]

\* A chain under way has a file, and one that confirms it has stored it.
ChainFits(k) ==
  /\ k.at # "none" => k.of \in Files
  /\ k.at = "confirm" => k.of \in stored
  /\ k.tries < MaxAttempts

\* A chain the page listens to.
Heard(c) == chain[c].at # "none" /\ chain[c].mounted

\* The one the screen is about, unless a cancelled one ran on: its transfer can be
\* aborted.
ScreenInv ==
  ~ranOn =>
    \A c \in Chains :
      Heard(c) => /\ step = "uploading" /\ chain[c].of = chosen
                  /\ chain[c].at = "send" => handle = c
                  /\ \A d \in Chains : Heard(d) => c = d

ClientInv ==
  ClientPromises /\ (\A c \in Chains : ChainFits(chain[c])) /\ ScreenInv

\* One chain is written; the store only gains.
LEMMA ChainWritten ==
  ASSUME ClientInv, NEW c \in Chains, NEW new \in ClientCall, chain' = [chain EXCEPT ![c] = new],
         ChainFits(new)', stored \subseteq stored'
  PROVE  /\ chain' \in [Chains -> ClientCall] /\ (\A d \in Chains : ChainFits(chain[d])')
         /\ chain'[c] = new /\ \A d \in Chains : d # c => chain'[d] = chain[d]
<1>1. chain \in [Chains -> ClientCall] /\ \A d \in Chains : ChainFits(chain[d])
  BY DEF ClientInv, ClientPromises, ClientTypeOK, ClientCall
<1>2. /\ chain' \in [Chains -> ClientCall] /\ chain'[c] = new
      /\ \A d \in Chains : d # c => chain'[d] = chain[d]
  BY <1>1
<1> QED
  BY <1>1, <1>2 DEF ChainFits

\* A chain that has ended fits, and is not heard.
LEMMA EndedFits ==
  /\ Ended \in ClientCall /\ Ended.at = "none" /\ ~Ended.mounted
  /\ ChainFits(Ended)'
  BY ClientAssumption DEF Ended, ClientCall, ChainFits

\* The steps that begin no chain and write none.
LEMMA ScreenInvStep ==
  ASSUME ClientInv, GoBack \/ \E f \in Files : ChooseFile(f)
  PROVE  ClientInv'
<1>1. /\ UNCHANGED <<chain, handle, stored, finished, ranOn>> /\ step # "uploading"
      /\ step' \in {"choose", "preview"} /\ unconfirmed' = NoFile
      /\ chosen' \in Files \cup {NoFile} /\ (step' = "preview" => chosen' # NoFile)
  BY ClientAssumption DEF GoBack, ChooseFile, Forget, remote, ClientInv, ClientPromises, ClientTypeOK
<1>2. ClientTypeOK'
  BY <1>1 DEF ClientInv, ClientPromises, ClientTypeOK, Screens
<1>3. DoneIsThisFile' /\ UnconfirmedIsStored'
  BY <1>1 DEF DoneIsThisFile, UnconfirmedIsStored
<1>4. \A c \in Chains : ChainFits(chain[c])'
  BY <1>1 DEF ClientInv, ChainFits
<1>5. ScreenInv'
  BY <1>1 DEF ClientInv, ScreenInv, Heard
<1> QED
  BY <1>2, <1>3, <1>4, <1>5 DEF ClientInv, ClientPromises

\* A chain begins, when none is heard: from the preview, or from the failed screen.
LEMMA BeginInvStep ==
  ASSUME ClientInv, NEW c \in Chains, Start(c) \/ RetryConfirm(c)
  PROVE  ClientInv'
<1>1. /\ UNCHANGED <<chosen, handle, stored, finished, ranOn>> /\ step' = "uploading"
      /\ step \in {"preview", "failed"} /\ unconfirmed' \in {NoFile, unconfirmed}
  BY DEF Start, RetryConfirm, Forget, remote
<1>2. PICK at \in {"begin", "confirm"}, f \in Files :
        /\ chain' = [chain EXCEPT ![c] = [at |-> at, of |-> f, tries |-> 0, mounted |-> TRUE]]
        /\ at = "begin" => f = chosen
        /\ at = "confirm" => f = unconfirmed
  BY DEF Start, RetryConfirm, Starts, ClientInv, ClientPromises, ClientTypeOK
<1> DEFINE new == [at |-> at, of |-> f, tries |-> 0, mounted |-> TRUE]
<1>3. new \in ClientCall /\ ChainFits(new)' /\ new.of = f /\ new.at = at
  BY <1>1, <1>2, ClientAssumption
     DEF ClientCall, ChainFits, ClientInv, ClientPromises, UnconfirmedIsStored
<1> HIDE DEF new
<1>4. /\ chain' \in [Chains -> ClientCall] /\ (\A d \in Chains : ChainFits(chain[d])')
      /\ chain'[c] = new /\ \A d \in Chains : d # c => chain'[d] = chain[d]
  BY <1>1, <1>2, <1>3, ChainWritten DEF new
<1>5. ClientTypeOK'
  BY <1>1, <1>4 DEF ClientInv, ClientPromises, ClientTypeOK, ClientCall, Screens
<1>6. DoneIsThisFile' /\ UnconfirmedIsStored'
  BY <1>1 DEF DoneIsThisFile, UnconfirmedIsStored, ClientInv, ClientPromises
<1>7. ScreenInv'
  <2>1. ~ranOn => f = chosen
    BY <1>2, ClientAssumption DEF ClientInv, ClientPromises, DoneIsThisFile
  <2>2. ~ranOn => \A d \in Chains : ~Heard(d)
    BY <1>1 DEF ClientInv, ScreenInv
  <2>3. ~ranOn => \A d \in Chains : Heard(d)' => d = c
    BY <1>4, <2>2 DEF Heard
  <2> QED
    BY <1>1, <1>3, <1>4, <2>1, <2>3 DEF ScreenInv
<1> QED
  BY <1>4, <1>5, <1>6, <1>7 DEF ClientInv, ClientPromises


\* The transfers that are aborted end; the others are as they were.
LEMMA AbortedFits ==
  ASSUME ClientInv, NEW d \in Chains
  PROVE  /\ Aborted[d] \in {Ended, chain[d]} /\ Aborted[d] \in ClientCall
         /\ Aborted[d].mounted => Aborted[d] = chain[d]
         /\ chain[d].at = "send" /\ handle = d => Aborted[d] = Ended
<1>1. chain[d] \in ClientCall
  BY DEF ClientInv, ClientPromises, ClientTypeOK, ClientCall
<1> QED
  BY <1>1, EndedFits DEF Aborted

\* A cancelled upload that could not be stopped runs on; if none did, none is heard.
LEMMA CancelInvStep ==
  ASSUME ClientInv, Cancel
  PROVE  ClientInv'
<1>1. /\ UNCHANGED <<stored, finished>> /\ step' = "choose" /\ chosen' = NoFile
      /\ unconfirmed' = NoFile /\ handle' = NoChain /\ ranOn' \in BOOLEAN
      /\ chain' = [c \in Chains |-> Aborted[c]]
      /\ ~ranOn' => ~ranOn /\ ~Unstopped
  BY DEF Cancel, Forget, remote, ClientInv, ClientPromises, ClientTypeOK, Aborted
<1>2. chain' \in [Chains -> ClientCall] /\ \A c \in Chains : chain'[c] \in {Ended, chain[c]}
  BY <1>1, AbortedFits
<1>3. ClientTypeOK'
  BY <1>1, <1>2 DEF ClientInv, ClientPromises, ClientTypeOK, ClientCall, Screens
<1>4. DoneIsThisFile' /\ UnconfirmedIsStored'
  BY <1>1 DEF DoneIsThisFile, UnconfirmedIsStored
<1>5. \A c \in Chains : ChainFits(chain[c])'
  BY <1>1, <1>2, EndedFits DEF ClientInv, ChainFits
<1>6. ScreenInv'
  <2> SUFFICES ASSUME ~ranOn', NEW c \in Chains, Heard(c)'
               PROVE  FALSE
    BY DEF ScreenInv
  <2>1. chain'[c] = chain[c] /\ Heard(c)
    BY <1>1, <1>2, EndedFits DEF Heard
  <2>2. chain[c].at = "send"
    BY <1>1, <2>1 DEF Unstopped, Heard, ClientInv, ClientPromises, ClientTypeOK
  <2>3. handle = c
    BY <1>1, <2>1, <2>2 DEF ClientInv, ScreenInv
  <2> QED
    BY <1>1, <2>1, <2>2, <2>3, AbortedFits, EndedFits
<1> QED
  BY <1>3, <1>4, <1>5, <1>6 DEF ClientInv, ClientPromises

\* A page that is left listens to nothing.
LEMMA LeaveInvStep ==
  ASSUME ClientInv, LeavePage
  PROVE  ClientInv'
<1>1. /\ UNCHANGED <<stored, finished, ranOn>> /\ step' = "choose" /\ chosen' = NoFile
      /\ unconfirmed' = NoFile /\ handle' = NoChain
      /\ chain' = [c \in Chains |-> [Aborted[c] EXCEPT !.mounted = FALSE]]
  BY DEF LeavePage, remote
<1>3. ASSUME NEW c \in Chains
      PROVE  /\ chain'[c] \in ClientCall /\ ~chain'[c].mounted /\ chain'[c].at = Aborted[c].at
             /\ chain'[c].of = Aborted[c].of /\ chain'[c].tries = Aborted[c].tries
  <2> DEFINE r == Aborted[c]
  <2>1. r \in ClientCall
    BY AbortedFits
  <2> HIDE DEF r
  <2>2. \A x : x = [r EXCEPT !.mounted = FALSE]
                 => /\ x \in ClientCall /\ ~x.mounted /\ x.at = r.at
                    /\ x.of = r.of /\ x.tries = r.tries
    BY <2>1 DEF ClientCall
  <2>3. chain'[c] = [r EXCEPT !.mounted = FALSE]
    BY <1>1 DEF r
  <2> QED
    BY <2>2, <2>3 DEF r
<1>4. chain' \in [Chains -> ClientCall] /\ \A c \in Chains : ~chain'[c].mounted
  BY <1>1, <1>3
<1>5. ClientTypeOK'
  BY <1>1, <1>4 DEF ClientInv, ClientPromises, ClientTypeOK, ClientCall, Screens
<1>6. DoneIsThisFile' /\ UnconfirmedIsStored'
  BY <1>1 DEF DoneIsThisFile, UnconfirmedIsStored
<1>7. ASSUME NEW c \in Chains PROVE ChainFits(chain[c])'
  <2>1. Aborted[c] \in {Ended, chain[c]}
    BY AbortedFits
  <2>2. /\ chain'[c].at = Aborted[c].at /\ chain'[c].of = Aborted[c].of
        /\ chain'[c].tries = Aborted[c].tries
    BY <1>3
  <2>3. ChainFits(chain[c])
    BY DEF ClientInv
  <2> QED
    BY <1>1, <2>1, <2>2, <2>3, ClientAssumption DEF ChainFits, Ended
<1>8. ScreenInv'
  BY <1>4 DEF ScreenInv, Heard
<1> QED
  BY <1>5, <1>6, <1>7, <1>8 DEF ClientInv, ClientPromises

\* A chain goes on: it is heard only if it was, of the same file, and a transfer it
\* begins is the one that can be aborted.
LEMMA GoesOn ==
  ASSUME ClientInv, NEW c \in Chains, NEW new \in ClientCall, chain' = [chain EXCEPT ![c] = new],
         ChainFits(new)', stored \subseteq stored', finished' \subseteq stored', stored' \subseteq Files,
         UNCHANGED <<step, chosen, unconfirmed, ranOn>>, finished \subseteq finished',
         new.of = chain[c].of, new.mounted = chain[c].mounted, chain[c].at # "none",
         \/ handle' = handle /\ (new.at = "send" => chain[c].at = "send")
         \/ handle' = c /\ chain[c].mounted
         \/ handle' = handle /\ ~chain[c].mounted
  PROVE  ClientInv'
<1>1. /\ chain' \in [Chains -> ClientCall] /\ (\A d \in Chains : ChainFits(chain[d])')
      /\ chain'[c] = new /\ \A d \in Chains : d # c => chain'[d] = chain[d]
  BY ChainWritten
<1>2. ClientTypeOK'
  BY <1>1 DEF ClientInv, ClientPromises, ClientTypeOK, ClientCall
<1>3. DoneIsThisFile' /\ UnconfirmedIsStored'
  BY DEF DoneIsThisFile, UnconfirmedIsStored, ClientInv, ClientPromises
<1>4. ScreenInv'
  <2>1. \A d \in Chains : Heard(d)' => Heard(d)
    BY <1>1 DEF Heard
  <2>2. \A d \in Chains : chain'[d].of = chain[d].of
    BY <1>1
  <2>3. ASSUME ~ranOn, NEW d \in Chains, Heard(d)', chain'[d].at = "send"
        PROVE  handle' = d
    BY <1>1, <2>1, <2>3 DEF ClientInv, ScreenInv, Heard
  <2> QED
    BY <2>1, <2>2, <2>3 DEF ScreenInv, ClientInv
<1> QED
  BY <1>1, <1>2, <1>3, <1>4 DEF ClientInv, ClientPromises

\* A chain ends: the screen is told if it listens, and says no more than is so.
LEMMA GoesOff ==
  ASSUME ClientInv, NEW c \in Chains, chain[c].at # "none", ChainEnds(c),
         stored \subseteq stored', finished' \subseteq stored', stored' \subseteq Files,
         UNCHANGED <<chosen, handle, ranOn>>, finished \subseteq finished',
         unconfirmed' \in {NoFile, unconfirmed, chain[c].of},
         ~chain[c].mounted => step' = step /\ unconfirmed' = unconfirmed,
         chain[c].mounted => step' \in {"failed", "done"},
         chain[c].mounted /\ step' = "done" => chain[c].of \in finished',
         unconfirmed' = chain[c].of => chain[c].of \in stored' \/ unconfirmed' = unconfirmed
  PROVE  ClientInv'
<1>1. /\ chain' \in [Chains -> ClientCall] /\ (\A d \in Chains : ChainFits(chain[d])')
      /\ chain'[c] = Ended /\ \A d \in Chains : d # c => chain'[d] = chain[d]
  BY ChainWritten, EndedFits DEF ChainEnds
<1>2. chain[c].of \in Files
  BY DEF ClientInv, ChainFits
<1>3. ClientTypeOK'
  BY <1>1, <1>2 DEF ClientInv, ClientPromises, ClientTypeOK, ClientCall, Screens
<1>4. chain[c].mounted /\ ~ranOn => chain[c].of = chosen
  BY DEF ClientInv, ScreenInv, Heard
<1>5. DoneIsThisFile'
  BY <1>4 DEF DoneIsThisFile, ClientInv, ClientPromises
<1>6. UnconfirmedIsStored'
  BY DEF UnconfirmedIsStored, ClientInv, ClientPromises
<1>7. ScreenInv'
  <2>1. \A d \in Chains : Heard(d)' => d # c /\ Heard(d)
    BY <1>1, EndedFits DEF Heard
  <2>2. chain[c].mounted /\ ~ranOn => \A d \in Chains : ~Heard(d)'
    BY <2>1 DEF ClientInv, ScreenInv, Heard
  <2>3. CASE chain[c].mounted
    BY <2>2, <2>3 DEF ScreenInv
  <2>4. CASE ~chain[c].mounted
    BY <1>1, <2>1, <2>4 DEF ClientInv, ScreenInv
  <2> QED
    BY <2>3, <2>4 DEF ClientInv, ClientPromises, ClientTypeOK
<1> QED
  BY <1>1, <1>3, <1>5, <1>6, <1>7 DEF ClientInv, ClientPromises


\* The answers that let a chain go on.
LEMMA GoesOnCases ==
  ASSUME ClientInv, NEW c \in Chains,
         Reserved(c) \/ (TransferSent(c) /\ chain[c].mounted)
  PROVE  ClientInv'
<1>1. /\ chain[c] \in ClientCall /\ ChainFits(chain[c]) /\ chain[c].at # "none"
      /\ stored \subseteq Files /\ finished \subseteq stored
  BY DEF ClientInv, ClientPromises, ClientTypeOK, ClientCall, Reserved, TransferSent
<1> DEFINE to == IF chain[c].at = "begin" THEN "send" ELSE "confirm"
<1>2. \A r \in ClientCall : \A x : [r EXCEPT !.at = x] = [at |-> x, of |-> r.of, tries |-> r.tries,
                                                         mounted |-> r.mounted]
  BY DEF ClientCall
<1>3. chain' = [chain EXCEPT ![c] = [at |-> to, of |-> chain[c].of, tries |-> chain[c].tries,
                                    mounted |-> chain[c].mounted]]
  <2>1. chain' = [chain EXCEPT ![c] = [chain[c] EXCEPT !.at = to]]
    BY DEF Reserved, TransferSent
  <2> QED
    BY <1>1, <1>2, <2>1
<1>4. /\ UNCHANGED <<step, chosen, unconfirmed, finished, ranOn>>
      /\ stored \subseteq stored' /\ stored' \subseteq Files
      /\ to = "confirm" => chain[c].of \in stored'
  BY <1>1 DEF Reserved, TransferSent, remote, ChainFits
<1>5. /\ to \in {"send", "confirm"}
      /\ \/ handle' = handle /\ to # "send"
         \/ handle' = c /\ chain[c].mounted
         \/ handle' = handle /\ ~chain[c].mounted
  BY DEF Reserved, TransferSent
<1> HIDE DEF to
<1>6. PICK new \in ClientCall :
        /\ new = [at |-> to, of |-> chain[c].of, tries |-> chain[c].tries,
                  mounted |-> chain[c].mounted]
        /\ new.of = chain[c].of /\ new.mounted = chain[c].mounted /\ new.at = to
        /\ new.tries = chain[c].tries
  <2> DEFINE n == [at |-> to, of |-> chain[c].of, tries |-> chain[c].tries,
                   mounted |-> chain[c].mounted]
  <2>1. /\ n \in ClientCall /\ n.of = chain[c].of /\ n.mounted = chain[c].mounted
        /\ n.at = to /\ n.tries = chain[c].tries
    BY <1>1, <1>5 DEF ClientCall
  <2>2. n = [at |-> to, of |-> chain[c].of, tries |-> chain[c].tries,
             mounted |-> chain[c].mounted]
    OBVIOUS
  <2> HIDE DEF n
  <2> QED
    BY <2>1, <2>2
<1>7. ChainFits(new)'
  BY <1>1, <1>4, <1>6 DEF ChainFits
<1>8. chain' = [chain EXCEPT ![c] = new]
  BY <1>3, <1>6
<1> QED
  BY <1>1, <1>4, <1>5, <1>6, <1>7, <1>8, GoesOn

\* The answers that end a chain.
LEMMA GoesOffCases ==
  ASSUME ClientInv, NEW c \in Chains,
         \/ NotReserved(c) \/ TransferFailed(c) \/ Confirmed(c) \/ Refused(c)
         \/ TransferSent(c) /\ ~chain[c].mounted
  PROVE  ClientInv'
<1>1. /\ ChainFits(chain[c]) /\ chain[c].of \in Files
      /\ stored \subseteq Files /\ finished \subseteq stored
  BY DEF ClientInv, ClientPromises, ClientTypeOK, ChainFits, NotReserved, TransferFailed,
         Confirmed, Refused, TransferSent
<1>2. CASE NotReserved(c)
  BY <1>1, <1>2, GoesOff DEF NotReserved, Shows, remote
<1>3. CASE TransferFailed(c)
  BY <1>1, <1>3, GoesOff DEF TransferFailed, Shows, remote
<1>4. CASE Confirmed(c)
  <2>1. chain[c].of \in stored
    BY <1>1, <1>4 DEF Confirmed, ChainFits
  <2> QED
    BY <1>1, <1>4, <2>1, GoesOff, ClientAssumption DEF Confirmed, Shows
<1>5. CASE Refused(c)
  BY <1>1, <1>5, GoesOff, ClientAssumption DEF Refused, Shows, remote
<1>6. CASE TransferSent(c) /\ ~chain[c].mounted
  BY <1>1, <1>6, GoesOff DEF TransferSent
<1> QED
  BY <1>2, <1>3, <1>4, <1>5, <1>6

\* No answer to a confirmation: it is asked again, or Retry is offered.
LEMMA NoAnswerInv ==
  ASSUME ClientInv, NEW c \in Chains, NEW done \in BOOLEAN, NoAnswer(c, done)
  PROVE  ClientInv'
<1>1. /\ chain[c] \in ClientCall /\ ChainFits(chain[c]) /\ chain[c].at = "confirm"
      /\ chain[c].of \in stored /\ stored \subseteq Files /\ finished \subseteq stored
  BY DEF ClientInv, ClientPromises, ClientTypeOK, ClientCall, NoAnswer, ChainFits
<1>2. /\ finished \subseteq finished' /\ finished' \subseteq stored
      /\ UNCHANGED <<chosen, handle, stored, ranOn>>
  BY <1>1 DEF NoAnswer
<1>3. CASE chain[c].tries + 1 >= MaxAttempts
  <2>1. /\ ChainEnds(c) /\ step' = AfterLastAttempt(c)
        /\ unconfirmed' = IF chain[c].mounted THEN chain[c].of ELSE unconfirmed
    BY <1>3 DEF NoAnswer
  <2> QED
    BY <1>1, <1>2, <2>1, GoesOff DEF AfterLastAttempt
<1>4. CASE ~(chain[c].tries + 1 >= MaxAttempts)
  <2> DEFINE again == chain[c].tries + 1
  <2>1. \A r \in ClientCall : \A x : [r EXCEPT !.tries = x] = [at |-> r.at, of |-> r.of, tries |-> x,
                                                              mounted |-> r.mounted]
    BY DEF ClientCall
  <2>2. chain' = [chain EXCEPT ![c] = [chain[c] EXCEPT !.tries = again]]
        /\ UNCHANGED <<step, unconfirmed>>
    BY <1>4 DEF NoAnswer
  <2>3. again \in 0..MaxAttempts /\ again < MaxAttempts
    BY <1>1, <1>4, ClientAssumption DEF ClientCall
  <2> HIDE DEF again
  <2>4. PICK new \in ClientCall :
          /\ new = [at |-> chain[c].at, of |-> chain[c].of, tries |-> again,
                    mounted |-> chain[c].mounted]
          /\ new.of = chain[c].of /\ new.mounted = chain[c].mounted
          /\ new.at = "confirm" /\ new.tries = again
    <3> DEFINE n == [at |-> chain[c].at, of |-> chain[c].of, tries |-> again,
                     mounted |-> chain[c].mounted]
    <3>1. /\ n \in ClientCall /\ n.of = chain[c].of /\ n.mounted = chain[c].mounted
          /\ n.at = "confirm" /\ n.tries = again
      BY <1>1, <2>3 DEF ClientCall
    <3>2. n = [at |-> chain[c].at, of |-> chain[c].of, tries |-> again,
               mounted |-> chain[c].mounted]
      OBVIOUS
    <3> HIDE DEF n
    <3> QED
      BY <3>1, <3>2
  <2>5. ChainFits(new)'
    BY <1>1, <1>2, <2>3, <2>4 DEF ChainFits
  <2>6. chain' = [chain EXCEPT ![c] = new]
    BY <1>1, <2>1, <2>2, <2>4
  <2> QED
    BY <1>1, <1>2, <2>2, <2>4, <2>5, <2>6, GoesOn
<1> QED
  BY <1>3, <1>4

\* An upload screen that has just opened.
LEMMA ClientInitInv == ClientInit => ClientInv
<1> SUFFICES ASSUME ClientInit
             PROVE  ClientInv
  OBVIOUS
<1>1. Ended \in ClientCall /\ Ended.at = "none"
  BY EndedFits
<1>2. chain \in [Chains -> ClientCall] /\ \A c \in Chains : chain[c] = Ended
  BY <1>1 DEF ClientInit
<1>3. ClientTypeOK
  BY <1>2, ClientAssumption DEF ClientInit, ClientTypeOK, ClientCall, Screens
<1>4. \A c \in Chains : ChainFits(chain[c])
  BY <1>2, ClientAssumption DEF ChainFits, Ended
<1>5. DoneIsThisFile /\ UnconfirmedIsStored /\ ScreenInv
  BY <1>1, <1>2 DEF ClientInit, DoneIsThisFile, UnconfirmedIsStored, ScreenInv, Heard
<1> QED
  BY <1>3, <1>4, <1>5 DEF ClientInv, ClientPromises

\* Every step keeps it: one lemma for each way a step can be taken.
LEMMA ClientStepInv == ClientInv /\ [ClientNext]_clientVars => ClientInv'
<1> SUFFICES ASSUME ClientInv, [ClientNext]_clientVars
             PROVE  ClientInv'
  OBVIOUS
<1>1. CASE GoBack \/ \E f \in Files : ChooseFile(f)
  BY <1>1, ScreenInvStep
<1>2. CASE Cancel
  BY <1>2, CancelInvStep
<1>3. CASE LeavePage
  BY <1>3, LeaveInvStep
<1>4. ASSUME NEW c \in Chains, Start(c) \/ RetryConfirm(c)
      PROVE  ClientInv'
  BY <1>4, BeginInvStep
<1>5. ASSUME NEW c \in Chains, Continues(c)
      PROVE  ClientInv'
  BY <1>5, GoesOnCases, GoesOffCases, NoAnswerInv DEF Continues
<1>6. CASE UNCHANGED clientVars
  <2>1. UNCHANGED <<step, chosen, unconfirmed, handle, chain, stored, finished, ranOn>>
    BY <1>6 DEF clientVars
  <2>2. ClientPromises'
    BY <2>1 DEF ClientInv, ClientPromises, ClientTypeOK, DoneIsThisFile, UnconfirmedIsStored
  <2>3. (\A c \in Chains : ChainFits(chain[c])') /\ ScreenInv'
    BY <2>1 DEF ClientInv, ChainFits, ScreenInv, Heard
  <2> QED
    BY <2>2, <2>3 DEF ClientInv
<1> QED
  BY <1>1, <1>2, <1>3, <1>4, <1>5, <1>6 DEF ClientNext

\* What the upload screen says is true of the file it shows, and what Retry would
\* confirm is stored: for every number of files and of calls under way.
THEOREM ClientKeepsPromises == ClientSpec => []ClientPromises
<1>1. ClientInv => ClientPromises
  BY DEF ClientInv
<1> QED
  BY <1>1, ClientInitInv, ClientStepInv, PTL DEF ClientSpec
-----------------------------------------------------------------------------
(***************************************************************************)
(* A form's draft (FormDrafts).  Neither AnswersKept nor NoGhostDraft is   *)
(* inductive: the first needs what the next visit would restore            *)
(* (Restored) and what a save and a submission on the wire carry, the      *)
(* second what is queued, or may be, once a form has been sent.            *)
(***************************************************************************)
PageRec == [open : BOOLEAN, shows : Versions, step : {"idle", "flush", "post"},
            debounce : BOOLEAN, retry : BOOLEAN, queued : 0..MaxQueued,
            awaits : 0..MaxQueued, refused : BOOLEAN, cancelled : BOOLEAN]

SendRec == [v : Versions, at : {"none", "sent", "done"}, live : BOOLEAN]

\* Nothing is newer than the last keystroke.
NoneAhead ==
  /\ page.shows <= typed /\ put.v <= typed /\ post.v <= typed
  /\ device.v <= typed /\ draft <= typed /\ answers <= typed
  /\ \A v \in strays \cup lateSend : v <= typed

\* A request that is listened for has a page that listens.
PageListens ==
  /\ ~page.open => page = NoPage
  /\ put.at # "none" => page.open /\ page.queued > 0
  /\ post.at # "none" => page.open /\ page.step = "post"

Excused == typedOver \/ typedOn \/ late

\* What the next visit would show is what was last typed.
Restored ==
  \/ typed = (IF NewerCopy THEN device.v ELSE ServerHas)
  \/ Excused

\* The page shows what was last typed, when a copy says so, or nothing is amiss.
ShowsTyped ==
  page.open => /\ Excused \/ page.shows = typed
               /\ device = [v |-> typed, newer |-> TRUE] => page.shows = typed

\* A save on the wire carries what the page shows, or was typed over; one that was
\* done is what the server has.
PutFits ==
  /\ put.at # "none" => put.v = page.shows \/ (typedOver /\ put.v < typed)
  /\ put.at = "done" => \/ ~device.newer
                        \/ put.v < typed
  /\ put.at = "done" => ServerHas = put.v \/ put.v < typed \/ typedOn \/ late

\* A submission carries what the page shows, or was typed on.
PostFits == post.at # "none" => post.v = page.shows \/ typedOn

Haunted == queuedOn \/ late

\* What the page shows may be sent.
MaySave ==
  page.debounce \/ page.retry \/ page.queued > 0 \/ (page.open /\ device.v # 0)

\* Once a form was sent, nothing older than its answers is on its way.
NothingHaunts ==
  answers # 0 =>
    \/ Haunted
    \/ /\ draft # 0 => draft > answers
       /\ put.at # "none" => put.v > answers
       /\ device.newer => device.v > answers
       /\ MaySave => page.shows > answers \/ post.at = "done"

\* Nothing is saved while a form is being sent, unless it was queued meanwhile.
FlushedFirst ==
  \/ Haunted
  \/ /\ page.step = "flush" => page.awaits = page.queued
     /\ page.step = "post" => page.queued = 0 /\ ~page.retry

DraftInv ==
  /\ DraftTypeOK /\ NoneAhead /\ PageListens /\ Restored /\ ShowsTyped
  /\ PutFits /\ PostFits /\ NothingHaunts /\ FlushedFirst

\* What the proofs of the steps start from.
LEMMA DraftHas ==
  DraftInv =>
    /\ MaxTyped \in Nat /\ MaxQueued \in Nat /\ MaxQueued > 0
    /\ page \in PageRec /\ page.awaits <= page.queued
    /\ put \in SendRec /\ post \in SendRec
    /\ strays \subseteq Versions /\ lateSend \subseteq Versions
    /\ device \in [v : Versions, newer : BOOLEAN]
    /\ draft \in Versions /\ answers \in Versions /\ typed \in Versions
    /\ late \in BOOLEAN /\ typedOver \in BOOLEAN /\ typedOn \in BOOLEAN /\ queuedOn \in BOOLEAN
    /\ NoneAhead /\ PageListens /\ Restored /\ ShowsTyped
    /\ PutFits /\ PostFits /\ NothingHaunts /\ FlushedFirst
BY DraftAssumption DEF DraftInv, DraftTypeOK, PageRec, SendRec

\* The same said of the next state, to prove it.
LEMMA DraftSays ==
  ASSUME page' \in PageRec, page'.awaits <= page'.queued,
         put' \in SendRec, post' \in SendRec,
         strays' \subseteq Versions, lateSend' \subseteq Versions,
         device' \in [v : Versions, newer : BOOLEAN],
         draft' \in Versions, answers' \in Versions, typed' \in Versions,
         late' \in BOOLEAN, typedOver' \in BOOLEAN, typedOn' \in BOOLEAN,
         queuedOn' \in BOOLEAN,
         NoneAhead', PageListens', Restored', ShowsTyped',
         PutFits', PostFits', NothingHaunts', FlushedFirst'
  PROVE  DraftInv'
BY DEF DraftInv, DraftTypeOK, PageRec, SendRec

\* A keystroke.
LEMMA TypeInv ==
  ASSUME DraftInv, Type
  PROVE  DraftInv'
<1>1. /\ page.open /\ typed < MaxTyped /\ typed' = typed + 1
      /\ device' = [v |-> typed + 1, newer |-> TRUE]
      /\ typedOver' = (put.at # "none")
      /\ typedOn' = (typedOn \/ page.step # "idle")
      /\ UNCHANGED <<put, post, strays, lateSend, draft, answers, late, queuedOn>>
  BY DEF Type, CopyNow, network, serverRows
<1>2. /\ page' \in PageRec /\ page'.shows = typed + 1 /\ page'.debounce
      /\ page'.open /\ page'.step = page.step /\ page'.retry = page.retry
      /\ page'.queued = page.queued /\ page'.awaits = page.awaits
  <2> DEFINE n == [page EXCEPT !.shows = typed + 1, !.debounce = TRUE,
                               !.refused = FALSE, !.cancelled = FALSE]
  <2>1. typed + 1 \in Versions
    BY <1>1, DraftHas DEF Versions
  <2>2. n \in PageRec
    BY <2>1, DraftHas DEF PageRec
  <2>3. /\ n.shows = typed + 1 /\ n.debounce
        /\ n.open = page.open /\ n.step = page.step /\ n.retry = page.retry
        /\ n.queued = page.queued /\ n.awaits = page.awaits
    BY DraftHas DEF PageRec
  <2>4. page' = n
    BY DEF Type
  <2> HIDE DEF n
  <2> QED
    BY <1>1, <2>2, <2>3, <2>4
<1>3. /\ device' \in [v : Versions, newer : BOOLEAN] /\ device'.v = typed + 1 /\ device'.newer
  BY <1>1, DraftHas DEF Versions
<1>4. NoneAhead'
  BY <1>1, <1>2, <1>3, DraftHas DEF NoneAhead, Versions, SendRec
<1>5. PageListens'
  BY <1>1, <1>2, DraftHas DEF PageListens
<1>6. Restored'
  BY <1>1, <1>3, DraftHas DEF Restored, NewerCopy, ServerHas, Versions
<1>7. ShowsTyped'
  BY <1>1, <1>2 DEF ShowsTyped
<1>8. PutFits'
  <2>1. put.at # "none" => typedOver'
    BY <1>1, Zenon
  <2>2. put.v < typed'
    BY <1>1, DraftHas DEF NoneAhead, SendRec, Versions
  <2> QED
    BY <1>1, <2>1, <2>2 DEF PutFits
<1>9. PostFits'
  BY <1>1, <1>2, DraftHas DEF PostFits, PageListens
<1>10. NothingHaunts'
  BY <1>1, <1>2, <1>3, DraftHas DEF NothingHaunts, NoneAhead, Haunted, Versions
<1>11. FlushedFirst'
  BY <1>1, <1>2, DraftHas DEF FlushedFirst, Haunted
<1> QED
  BY <1>1, <1>2, <1>3, <1>4, <1>5, <1>6, <1>7, <1>8, <1>9, <1>10, <1>11, DraftHas, DraftSays
     DEF Versions

\* An empty page and an idle wire.
LEMMA DraftNothing ==
  ASSUME DraftInv
  PROVE  /\ NoPage \in PageRec /\ ~NoPage.open /\ NoPage.shows = 0 /\ NoPage.step = "idle"
         /\ ~NoPage.debounce /\ ~NoPage.retry /\ NoPage.queued = 0 /\ NoPage.awaits = 0
         /\ NoSend \in SendRec /\ NoSend.at = "none" /\ NoSend.v = 0
         /\ NoCopy \in [v : Versions, newer : BOOLEAN] /\ NoCopy.v = 0 /\ ~NoCopy.newer
<1>1. 0 \in Versions /\ 0 \in 0..MaxQueued
  BY DraftHas DEF Versions
<1> QED
  BY <1>1 DEF NoPage, NoSend, NoCopy, PageRec, SendRec

\* A copy that a write on the server outdates.
LEMMA OlderIs ==
  ASSUME DraftInv
  PROVE  /\ OlderCopy(device) \in [v : Versions, newer : BOOLEAN]
         /\ OlderCopy(device).v = device.v /\ ~OlderCopy(device).newer
BY DraftHas DEF OlderCopy

\* The form is opened.
LEMMA OpenInv ==
  ASSUME DraftInv, MountForm
  PROVE  DraftInv'
<1>1. ~page.open /\ page = NoPage /\ put.at = "none" /\ post.at = "none"
  BY DraftHas DEF MountForm, PageListens
<1>2. UNCHANGED <<put, post, strays, lateSend, draft, answers, typed,
                  late, typedOver, typedOn, queuedOn>>
  BY DEF MountForm, network, serverRows, marks
<1>3. \/ NewerCopy /\ device' = device
      \/ ~NewerCopy /\ device' = NoCopy
  BY DEF MountForm
<1>4. /\ page' \in PageRec /\ page'.open /\ page'.step = "idle"
      /\ ~page'.debounce /\ ~page'.retry /\ page'.awaits = 0
      /\ page'.shows = (IF NewerCopy THEN device.v ELSE ServerHas)
      /\ page'.queued = (IF NewerCopy THEN 1 ELSE 0)
  <2> DEFINE w == IF NewerCopy THEN device.v ELSE ServerHas
             q == IF NewerCopy THEN 1 ELSE 0
             n == [NoPage EXCEPT !.open = TRUE, !.shows = w, !.queued = q]
  <2>1. w \in Versions /\ q \in 0..MaxQueued
    BY DraftHas DEF ServerHas
  <2>2. page' = n
    BY DEF MountForm
  <2> HIDE DEF w, q
  <2>3. n \in PageRec
    BY <2>1, DraftNothing DEF PageRec
  <2>4. /\ n.open /\ n.step = "idle" /\ ~n.debounce /\ ~n.retry /\ n.awaits = 0
        /\ n.shows = w /\ n.queued = q
    BY DraftNothing DEF PageRec
  <2> HIDE DEF n
  <2> QED
    BY <2>2, <2>3, <2>4 DEF w, q
<1>5. device' \in [v : Versions, newer : BOOLEAN]
  BY <1>3, DraftHas, DraftNothing
<1>6. ServerHas' = ServerHas
  BY <1>2 DEF ServerHas
<1>7. NoneAhead'
  <2>1. device.v <= typed /\ ServerHas <= typed
    BY DraftHas DEF NoneAhead, ServerHas
  <2>2. device'.v <= typed /\ page'.shows <= typed
    BY <1>3, <1>4, <2>1, DraftHas, DraftNothing DEF Versions
  <2> QED
    BY <1>2, <2>2, DraftHas DEF NoneAhead
<1>8. PageListens'
  BY <1>1, <1>2, <1>4 DEF PageListens
<1>9. Restored'
  BY <1>2, <1>3, <1>6, DraftHas, DraftNothing DEF Restored, NewerCopy, Excused
<1>10. ShowsTyped'
  BY <1>2, <1>3, <1>4, <1>6, DraftHas, DraftNothing DEF ShowsTyped, Restored, NewerCopy, Excused
<1>11. PutFits' /\ PostFits'
  BY <1>1, <1>2 DEF PutFits, PostFits
<1>12. NothingHaunts'
  BY <1>1, <1>2, <1>3, <1>4, DraftHas, DraftNothing
     DEF NothingHaunts, MaySave, Haunted, NewerCopy, ServerHas
<1>13. FlushedFirst'
  BY <1>4 DEF FlushedFirst
<1> QED
  BY <1>2, <1>4, <1>5, <1>7, <1>8, <1>9, <1>10, <1>11, <1>12, <1>13, DraftHas, DraftSays

\* A timer fires, or the link is back, and a save is queued.
LEMMA QueueInv ==
  ASSUME DraftInv, DebounceFires \/ RetryFires \/ BackOnline
  PROVE  DraftInv'
<1>1. /\ UNCHANGED <<put, post, strays, lateSend, draft, answers, device, typed,
                     late, typedOver, typedOn>>
      /\ page.queued < MaxQueued
  BY DEF DebounceFires, RetryFires, BackOnline, Queues, network, serverRows
<1>2. /\ page' \in PageRec /\ page'.open = page.open /\ page'.step = page.step
      /\ page'.shows = page.shows /\ page'.awaits = page.awaits
      /\ page'.queued = page.queued + 1
      /\ page'.retry => page.retry
  <2> DEFINE n == [page EXCEPT !.queued = @ + 1]
  <2>1. page.queued + 1 \in 0..MaxQueued
    BY <1>1, DraftHas DEF PageRec
  <2>2. n \in PageRec
    BY <2>1, DraftHas DEF PageRec
  <2>3. /\ n.open = page.open /\ n.step = page.step /\ n.shows = page.shows
        /\ n.awaits = page.awaits /\ n.queued = page.queued + 1 /\ n.retry = page.retry
    BY DraftHas DEF PageRec
  <2>4. page' = n \/ page' = [n EXCEPT !.debounce = FALSE] \/ page' = [n EXCEPT !.retry = FALSE]
    BY DEF DebounceFires, RetryFires, BackOnline, Enqueue
  <2> HIDE DEF n
  <2> QED
    BY <2>2, <2>3, <2>4 DEF PageRec
<1>3. /\ page.open /\ MaySave
      /\ page.step = "flush" => queuedOn'
      /\ page.step = "post" => queuedOn' \/ page.retry
      /\ queuedOn => queuedOn'
      /\ queuedOn' \in BOOLEAN
  <2>1. page.debounce \/ page.retry \/ (page.open /\ device.v # 0)
    BY DEF DebounceFires, RetryFires, BackOnline
  <2>2. page.open
    BY <2>1, DraftHas, DraftNothing DEF PageListens
  <2>3. /\ page.step = "flush" => queuedOn'
        /\ page.step = "post" => queuedOn' \/ page.retry
        /\ queuedOn => queuedOn'
        /\ queuedOn' \in BOOLEAN
    BY DEF DebounceFires, RetryFires, BackOnline, Queues
  <2> QED
    BY <2>1, <2>2, <2>3 DEF MaySave
<1>4. NoneAhead'
  BY <1>1, <1>2, DraftHas DEF NoneAhead
<1>5. PageListens'
  BY <1>1, <1>2, <1>3, DraftHas DEF PageListens, PageRec
<1>6. Restored' /\ ShowsTyped'
  BY <1>1, <1>2, DraftHas DEF Restored, ShowsTyped, NewerCopy, ServerHas, Excused
<1>7. PutFits' /\ PostFits'
  BY <1>1, <1>2, DraftHas DEF PutFits, PostFits, ServerHas
<1>8. NothingHaunts'
  BY <1>1, <1>2, <1>3, DraftHas DEF NothingHaunts, MaySave, Haunted
<1>9. FlushedFirst'
  BY <1>1, <1>2, <1>3, DraftHas DEF FlushedFirst, Haunted
<1>10. page'.awaits <= page'.queued
  BY <1>2, DraftHas DEF PageRec
<1> QED
  BY <1>1, <1>2, <1>3, <1>4, <1>5, <1>6, <1>7, <1>8, <1>9, <1>10, DraftHas, DraftSays

\* A save is sent.
LEMMA SendInv ==
  ASSUME DraftInv, SendSave
  PROVE  DraftInv'
<1>1. /\ page.queued > 0 /\ put.at = "none"
      /\ UNCHANGED <<post, strays, lateSend, draft, answers, device, typed,
                     late, typedOver, typedOn, queuedOn>>
  BY DEF SendSave, serverRows, marks
<1>2. /\ put' \in SendRec /\ put'.v = page.shows /\ put'.at = "sent"
  BY DraftHas DEF SendSave, SendRec, PageRec
<1>3. /\ page' \in PageRec /\ page'.open = page.open /\ page'.step = page.step
      /\ page'.shows = page.shows /\ page'.awaits = page.awaits
      /\ page'.queued = page.queued /\ ~page'.retry /\ page'.debounce = page.debounce
  BY DraftHas DEF SendSave, PageRec
<1>4. page.open
  BY <1>1, DraftHas, DraftNothing DEF PageListens
<1>5. NoneAhead'
  BY <1>1, <1>2, <1>3, DraftHas DEF NoneAhead
<1>6. PageListens'
  BY <1>1, <1>2, <1>3, <1>4, DraftHas DEF PageListens
<1>7. Restored' /\ ShowsTyped'
  BY <1>1, <1>3, DraftHas DEF Restored, ShowsTyped, NewerCopy, ServerHas, Excused
<1>8. PutFits' /\ PostFits'
  BY <1>1, <1>2, <1>3, DraftHas DEF PutFits, PostFits, ServerHas
<1>9. NothingHaunts'
  <2>1. post.at = "done" => Haunted \/ page.queued = 0
    BY DraftHas DEF PageListens, FlushedFirst
  <2> QED
    BY <1>1, <1>2, <1>3, <2>1, DraftHas DEF NothingHaunts, MaySave, Haunted
<1>10. FlushedFirst'
  BY <1>1, <1>3, DraftHas DEF FlushedFirst, Haunted
<1> QED
  BY <1>1, <1>2, <1>3, <1>5, <1>6, <1>7, <1>8, <1>9, <1>10, DraftHas, DraftSays

\* The server has done a save.
LEMMA PutDraftInv ==
  ASSUME DraftInv, PutDraft
  PROVE  DraftInv'
<1>1. /\ put.at = "sent" /\ draft' = put.v /\ device' = OlderCopy(device)
      /\ UNCHANGED <<page, post, strays, lateSend, answers, typed,
                     late, typedOver, typedOn, queuedOn>>
  BY DEF PutDraft, marks
<1>2. put' \in SendRec /\ put'.v = put.v /\ put'.at = "done"
  BY DraftHas DEF PutDraft, SendRec
<1>3. page.open
  BY <1>1, DraftHas DEF PageListens
<1>4. /\ device' \in [v : Versions, newer : BOOLEAN] /\ device'.v = device.v /\ ~device'.newer
  BY <1>1, OlderIs
<1>5. draft' \in Versions /\ put.v \in 0..MaxTyped
  BY <1>1, DraftHas DEF SendRec, Versions
<1>6. NoneAhead'
  BY <1>1, <1>2, <1>4, DraftHas DEF NoneAhead
<1>7. PageListens'
  BY <1>1, <1>2, DraftHas DEF PageListens
<1>8. ServerHas' = put.v \/ put.v = 0
  BY <1>1 DEF ServerHas
<1>9. put.v < typed \/ ServerHas' = put.v
  BY <1>1, <1>5, <1>8, DraftHas DEF NoneAhead, ServerHas, Versions
<1>10. Restored'
  <2> SUFFICES ASSUME ~Excused PROVE typed = (IF NewerCopy THEN device.v ELSE ServerHas)'
    BY <1>1 DEF Restored, Excused
  <2>1. put.v = typed
    BY <1>1, <1>3, DraftHas DEF PutFits, ShowsTyped, Excused
  <2>2. ServerHas' = typed
    BY <1>5, <1>9, <2>1, DraftHas DEF Versions
  <2>3. typed = 0 => device.v = 0
    BY DraftHas DEF NoneAhead, Versions
  <2> QED
    BY <1>1, <1>4, <2>2, <2>3 DEF NewerCopy
<1>11. ShowsTyped'
  BY <1>1, <1>4, DraftHas DEF ShowsTyped, Excused
<1>12. PutFits'
  BY <1>1, <1>2, <1>4, <1>9, DraftHas DEF PutFits
<1>13. PostFits'
  BY <1>1, DraftHas DEF PostFits
<1>14. NothingHaunts'
  BY <1>1, <1>2, <1>4, DraftHas DEF NothingHaunts, MaySave, Haunted
<1>15. FlushedFirst'
  BY <1>1, DraftHas DEF FlushedFirst, Haunted
<1> QED
  BY <1>1, <1>2, <1>4, <1>5, <1>6, <1>7, <1>10, <1>11, <1>12, <1>13, <1>14, <1>15,
     DraftHas, DraftSays

\* A save that ends takes its place in the queue with it.
LEMMA SettledIs ==
  ASSUME DraftInv, put.at # "none"
  PROVE  /\ Settled(page) \in PageRec
         /\ Settled(page).open /\ Settled(page).shows = page.shows
         /\ Settled(page).step = page.step /\ Settled(page).debounce = page.debounce
         /\ Settled(page).retry = page.retry /\ Settled(page).queued = page.queued - 1
         /\ Settled(page).awaits = (IF page.awaits > 0 THEN page.awaits - 1 ELSE 0)
<1> DEFINE q == page.queued - 1
           w == IF page.awaits > 0 THEN page.awaits - 1 ELSE 0
           n == [page EXCEPT !.queued = q, !.awaits = w]
<1>1. q \in 0..MaxQueued /\ w \in 0..MaxQueued
  BY DraftHas DEF PageListens, PageRec
<1>2. Settled(page) = n
  BY DraftHas DEF Settled, PageRec
<1>3. page.open
  BY DraftHas DEF PageListens
<1> HIDE DEF q, w
<1>4. n \in PageRec
  BY <1>1, DraftHas DEF PageRec
<1>5. /\ n.open = page.open /\ n.shows = page.shows
      /\ n.step = page.step /\ n.debounce = page.debounce
      /\ n.retry = page.retry /\ n.queued = q /\ n.awaits = w
  BY DraftHas DEF PageRec
<1> HIDE DEF n
<1> QED
  BY <1>2, <1>3, <1>4, <1>5 DEF q, w

\* A save ends, answered or not; the copy goes, comes back, or is left alone.
LEMMA SaveEnds ==
  ASSUME DraftInv, put.at # "none", put' = NoSend, page' \in PageRec,
         page'.open, page'.shows = page.shows, page'.step = page.step,
         page'.debounce = page.debounce, page'.queued = page.queued - 1,
         page'.awaits = (IF page.awaits > 0 THEN page.awaits - 1 ELSE 0),
         device' \in [v : Versions, newer : BOOLEAN],
         \/ device' = device \/ device' = NoCopy
         \/ device' = [v |-> page.shows, newer |-> TRUE],
         device' = NoCopy => device = NoCopy \/ put.at = "done",
         strays' \subseteq strays \cup {put.v},
         typedOver' \in BOOLEAN,
         ~typedOver' => \/ ~typedOver
                        \/ put.v = typed /\ put.at = "done" /\ device' \in {device, NoCopy}
                        \/ device' = [v |-> typed, newer |-> TRUE],
         UNCHANGED <<post, lateSend, draft, answers, typed, late, typedOn, queuedOn>>
  PROVE  DraftInv'
<1>1. page.open /\ page.queued > 0
  BY DraftHas DEF PageListens
<1>2. put' \in SendRec /\ put'.at = "none" /\ put'.v = 0
  BY DraftNothing
<1>3. strays' \subseteq Versions
  BY DraftHas DEF SendRec
<1>4. device'.v \in {device.v, 0, page.shows} /\ device'.v \in Versions
  BY DraftNothing
<1>5. NoneAhead'
  <2>1. device'.v <= typed
    BY <1>4, DraftHas DEF NoneAhead, Versions
  <2> QED
    BY <1>2, <2>1, DraftHas DEF NoneAhead, Versions
<1>6. PageListens'
  BY <1>2, DraftHas DEF PageListens
<1>7. ServerHas' = ServerHas
  BY DEF ServerHas
<1>8. device' = [v |-> typed, newer |-> TRUE] => page.shows = typed
  <2> SUFFICES ASSUME device' = [v |-> typed, newer |-> TRUE] PROVE page.shows = typed
    OBVIOUS
  <2>1. device'.v = typed /\ device'.newer
    OBVIOUS
  <2>2. CASE device' = device
    BY <1>1, <2>2, DraftHas DEF ShowsTyped
  <2>3. CASE device' = NoCopy
    BY <2>1, <2>3, DraftNothing
  <2>4. CASE device' = [v |-> page.shows, newer |-> TRUE]
    BY <2>1, <2>4
  <2> QED
    BY <2>2, <2>3, <2>4
<1>9. ~Excused' => page.shows = typed
  <2> SUFFICES ASSUME ~Excused' PROVE page.shows = typed
    OBVIOUS
  <2>1. ~typedOver' /\ ~typedOn /\ ~late
    BY DEF Excused
  <2>2. CASE ~typedOver
    BY <1>1, <2>1, <2>2, DraftHas DEF ShowsTyped, Excused
  <2>3. CASE put.v = typed
    BY <2>3, DraftHas DEF PutFits, Versions
  <2>4. CASE device' = [v |-> typed, newer |-> TRUE]
    BY <1>8, <2>4
  <2> QED
    BY <2>1, <2>2, <2>3, <2>4
<1>10. ShowsTyped'
  BY <1>8, <1>9 DEF ShowsTyped
<1>11. ASSUME ~Excused'
       PROVE  typed = (IF NewerCopy THEN device.v ELSE ServerHas)'
  <2>1. ~typedOver' /\ ~typedOn /\ ~late
    BY <1>11 DEF Excused
  <2>2. ASSUME put.at = "done"
        PROVE  \/ put.v = typed /\ ServerHas = typed /\ ~device.newer
               \/ device' = [v |-> typed, newer |-> TRUE]
    <3>1. CASE ~typedOver
      <4>1. put.v = page.shows
        BY <2>2, <3>1, DraftHas DEF PutFits
      <4>2. put.v = typed
        BY <1>9, <1>11, <4>1
      <4> QED
        BY <2>1, <2>2, <3>1, <4>2, DraftHas DEF PutFits, Versions
    <3>2. CASE put.v = typed
      BY <2>1, <2>2, <3>2, DraftHas DEF PutFits, Versions
    <3> QED
      BY <2>1, <3>1, <3>2
  <2>3. typed = 0 => ServerHas = 0 /\ device.v = 0
    BY DraftHas DEF NoneAhead, ServerHas, Versions
  <2>4. CASE device' = [v |-> page.shows, newer |-> TRUE]
    <3>1. device'.v = typed /\ device'.newer
      BY <1>9, <1>11, <2>4
    <3>2. typed # 0 => NewerCopy'
      BY <3>1 DEF NewerCopy
    <3>3. typed = 0 => ~NewerCopy' /\ ServerHas' = 0
      BY <1>7, <2>3, <3>1 DEF NewerCopy
    <3> QED
      BY <3>1, <3>2, <3>3
  <2>5. CASE device' = NoCopy /\ put.at = "done"
    <3>1. device'.v = 0 /\ ~device'.newer
      BY <2>5, DraftNothing
    <3>2. ServerHas = typed
      BY <2>2, <2>5, <3>1
    <3> QED
      BY <1>7, <3>1, <3>2 DEF NewerCopy
  <2>6. CASE device' = device
    <3>1. NewerCopy' = NewerCopy
      BY <1>7, <2>6 DEF NewerCopy
    <3>2. CASE ~typedOver
      BY <1>7, <2>1, <2>6, <3>1, <3>2, DraftHas DEF Restored, Excused
    <3>3. CASE put.v = typed /\ put.at = "done" /\ typedOver
      <4>1. ServerHas = typed /\ ~device.newer
        BY <2>1, <3>3, DraftHas DEF PutFits, Versions
      <4> QED
        BY <1>7, <2>3, <2>6, <4>1 DEF NewerCopy
    <3>4. CASE device' = [v |-> typed, newer |-> TRUE]
      <4>1. device'.v = typed /\ device'.newer
        BY <3>4
      <4> QED
        BY <1>7, <2>3, <4>1 DEF NewerCopy
    <3> QED
      BY <2>1, <3>2, <3>3, <3>4
  <2> QED
    BY <2>4, <2>5, <2>6
<1>12. Restored'
  BY <1>11 DEF Restored
<1>13. PutFits' /\ PostFits'
  BY <1>2, DraftHas DEF PutFits, PostFits
<1>14. NothingHaunts'
  <2> SUFFICES ASSUME answers # 0, ~Haunted
               PROVE  /\ draft # 0 => draft > answers
                      /\ device'.newer => device'.v > answers
                      /\ MaySave' => page.shows > answers \/ post.at = "done"
    BY <1>2 DEF NothingHaunts, Haunted
  <2>1. post.at = "done" => page.queued = 0
    BY DraftHas DEF PageListens, FlushedFirst
  <2>2. page.shows > answers
    BY <1>1, <2>1, DraftHas DEF NothingHaunts, MaySave
  <2>3. device'.newer => device'.v > answers
    BY <2>2, DraftHas, DraftNothing DEF NothingHaunts
  <2> QED
    BY <2>2, <2>3, DraftHas DEF NothingHaunts
<1>15. FlushedFirst'
  BY <1>1, DraftHas DEF FlushedFirst, Haunted, PageRec
<1>16. page'.awaits <= page'.queued
  BY <1>1, DraftHas DEF PageRec
<1> QED
  BY <1>2, <1>3, <1>5, <1>6, <1>10, <1>12, <1>13, <1>14, <1>15, <1>16, DraftHas, DraftSays

\* A save is answered.
LEMMA AnsweredInv ==
  ASSUME DraftInv, SaveAnswered
  PROVE  DraftInv'
<1>1. /\ put.at = "done" /\ put' = NoSend
      /\ device' = (IF put.live THEN NoCopy ELSE device)
      /\ typedOver' = (typedOver /\ put.v # typed)
      /\ UNCHANGED <<post, strays, lateSend, draft, answers, typed, late, typedOn, queuedOn>>
  BY DEF SaveAnswered, serverRows
<1>2. /\ page' \in PageRec /\ page'.open /\ page'.shows = page.shows /\ page'.step = page.step
      /\ page'.debounce = page.debounce /\ page'.queued = page.queued - 1
      /\ page'.awaits = (IF page.awaits > 0 THEN page.awaits - 1 ELSE 0)
  <2> DEFINE m == Settled(page)
             n == [m EXCEPT !.refused = IF put.live THEN FALSE ELSE @]
  <2>1. /\ m \in PageRec /\ m.open /\ m.shows = page.shows /\ m.step = page.step
        /\ m.debounce = page.debounce /\ m.queued = page.queued - 1
        /\ m.awaits = (IF page.awaits > 0 THEN page.awaits - 1 ELSE 0)
    BY <1>1, SettledIs
  <2>2. page' = n
    BY DEF SaveAnswered
  <2> HIDE DEF m
  <2>3. /\ n \in PageRec /\ n.open = m.open /\ n.shows = m.shows /\ n.step = m.step
        /\ n.debounce = m.debounce /\ n.queued = m.queued /\ n.awaits = m.awaits
    BY <2>1 DEF PageRec
  <2> HIDE DEF n
  <2> QED
    BY <2>1, <2>2, <2>3
<1>3. device' \in {device, NoCopy} /\ device' \in [v : Versions, newer : BOOLEAN]
  BY <1>1, DraftHas, DraftNothing
<1>4. typedOver' \in BOOLEAN
  BY <1>1
<1>5. ~typedOver' => ~typedOver \/ put.v = typed
  BY <1>1, Zenon
<1> QED
  BY <1>1, <1>2, <1>3, <1>4, <1>5, SaveEnds

\* A save fails.
LEMMA SaveFailsInv ==
  ASSUME DraftInv, NEW refused \in BOOLEAN, SaveFails(refused)
  PROVE  DraftInv'
<1>1. /\ put.at # "none" /\ put' = NoSend
      /\ strays' \subseteq strays \cup {put.v}
      /\ device' = (IF put.live THEN [v |-> page.shows, newer |-> TRUE] ELSE device)
      /\ typedOver' = (typedOver /\ device' # [v |-> typed, newer |-> TRUE])
      /\ UNCHANGED <<post, lateSend, draft, answers, typed, late, typedOn, queuedOn>>
  BY DEF SaveFails, serverRows
<1>2. /\ page' \in PageRec /\ page'.open /\ page'.shows = page.shows /\ page'.step = page.step
      /\ page'.debounce = page.debounce /\ page'.queued = page.queued - 1
      /\ page'.awaits = (IF page.awaits > 0 THEN page.awaits - 1 ELSE 0)
  <2> DEFINE m == Settled(page)
             again == Again(refused)
             n == [m EXCEPT !.retry = again, !.refused = refused]
  <2>1. /\ m \in PageRec /\ m.open /\ m.shows = page.shows /\ m.step = page.step
        /\ m.debounce = page.debounce /\ m.queued = page.queued - 1
        /\ m.awaits = (IF page.awaits > 0 THEN page.awaits - 1 ELSE 0)
    BY <1>1, SettledIs
  <2>2. page' = n \/ page' = m
    BY DEF SaveFails
  <2>3. again \in BOOLEAN
    BY DEF Again
  <2> HIDE DEF m, again
  <2>4. /\ n \in PageRec /\ n.open = m.open /\ n.shows = m.shows /\ n.step = m.step
        /\ n.debounce = m.debounce /\ n.queued = m.queued /\ n.awaits = m.awaits
    BY <2>1, <2>3 DEF PageRec
  <2> HIDE DEF n
  <2> QED
    BY <2>1, <2>2, <2>4
<1>3. /\ device' = device \/ device' = [v |-> page.shows, newer |-> TRUE]
      /\ device' \in [v : Versions, newer : BOOLEAN]
  BY <1>1, DraftHas DEF PageRec
<1>4. device' = NoCopy => device = NoCopy
  BY <1>3 DEF NoCopy
<1>5. typedOver' \in BOOLEAN
  BY <1>1
<1>6. ~typedOver' => ~typedOver \/ device' = [v |-> typed, newer |-> TRUE]
  BY <1>1, Zenon
<1> QED
  BY <1>1, <1>2, <1>3, <1>4, <1>5, <1>6, SaveEnds

\* The form is sent: its saves are waited for.
LEMMA SubmitAnswersInv ==
  ASSUME DraftInv, SubmitAnswers
  PROVE  DraftInv'
<1>1. /\ page.open /\ page.step = "idle" /\ page.shows > 0 /\ page.queued < MaxQueued
      /\ queuedOn' = (queuedOn \/ page.shows <= answers)
      /\ UNCHANGED <<put, post, strays, lateSend, draft, answers, device, typed,
                     late, typedOver, typedOn>>
  BY DEF SubmitAnswers, network, serverRows
<1>2. /\ page' \in PageRec /\ page'.open /\ page'.step = "flush"
      /\ page'.shows = page.shows /\ page'.awaits = page.queued + 1
      /\ page'.queued = page.queued + 1
  <2> DEFINE q == page.queued + 1
             n == [page EXCEPT !.step = "flush", !.debounce = FALSE, !.queued = q, !.awaits = q]
  <2>1. q \in 0..MaxQueued
    BY <1>1, DraftHas DEF PageRec
  <2>2. page' = n
    BY DraftHas DEF SubmitAnswers, PageRec
  <2> HIDE DEF q
  <2>3. /\ n \in PageRec /\ n.open = page.open /\ n.step = "flush" /\ n.shows = page.shows
        /\ n.awaits = q /\ n.queued = q
    BY <2>1, DraftHas DEF PageRec
  <2> HIDE DEF n
  <2> QED
    BY <1>1, <2>2, <2>3 DEF q
<1>3. /\ queuedOn' \in BOOLEAN /\ (queuedOn => queuedOn')
      /\ page.shows <= answers => queuedOn'
  BY <1>1, Zenon
<1>4. NoneAhead'
  BY <1>1, <1>2, DraftHas DEF NoneAhead
<1>5. PageListens'
  BY <1>1, <1>2, DraftHas DEF PageListens, PageRec
<1>6. Restored' /\ ShowsTyped'
  BY <1>1, <1>2, DraftHas DEF Restored, ShowsTyped, NewerCopy, ServerHas, Excused
<1>7. PutFits' /\ PostFits'
  BY <1>1, <1>2, DraftHas DEF PutFits, PostFits, ServerHas
<1>8. NothingHaunts'
  <2>1. ~Haunted' => page.shows > answers
    BY <1>1, <1>3, DraftHas DEF Haunted, PageRec, Versions
  <2> QED
    BY <1>1, <1>2, <1>3, <2>1, DraftHas DEF NothingHaunts, Haunted
<1>9. FlushedFirst'
  BY <1>2 DEF FlushedFirst
<1>10. page'.awaits <= page'.queued
  BY <1>2, DraftHas DEF PageRec
<1> QED
  BY <1>1, <1>2, <1>3, <1>4, <1>5, <1>6, <1>7, <1>8, <1>9, <1>10, DraftHas, DraftSays

\* Its saves have settled, and it is posted.
LEMMA PostInv ==
  ASSUME DraftInv, Post
  PROVE  DraftInv'
<1>1. /\ page.step = "flush" /\ page.awaits = 0
      /\ UNCHANGED <<strays, lateSend, draft, answers, device, typed,
                     late, typedOver, typedOn, queuedOn>>
  BY DEF Post, serverRows, marks
<1>2. page.open
  BY <1>1, DraftHas, DraftNothing DEF PageListens
<1>3. /\ page' \in PageRec /\ page'.open /\ page'.step = "post"
      /\ page'.shows = page.shows /\ page'.awaits = 0 /\ ~page'.retry
      /\ page'.queued = (IF put.at = "none" THEN 0 ELSE 1)
      /\ page'.debounce = page.debounce
  <2> DEFINE q == IF put.at = "none" THEN 0 ELSE 1
             m == [page EXCEPT !.retry = FALSE, !.cancelled = TRUE, !.queued = q]
             n == [m EXCEPT !.step = "post"]
  <2>1. q \in 0..MaxQueued
    BY DraftHas
  <2>2. page' = n
    BY DEF Post, CancelRetry
  <2> HIDE DEF q
  <2>3. /\ m \in PageRec /\ m.open = page.open /\ m.shows = page.shows
        /\ m.awaits = page.awaits /\ m.queued = q /\ ~m.retry /\ m.debounce = page.debounce
    BY <2>1, DraftHas DEF PageRec
  <2> HIDE DEF m
  <2>4. /\ n \in PageRec /\ n.open = m.open /\ n.step = "post" /\ n.shows = m.shows
        /\ n.awaits = m.awaits /\ n.queued = m.queued /\ n.retry = m.retry
        /\ n.debounce = m.debounce
    BY <2>3 DEF PageRec
  <2> HIDE DEF n
  <2> QED
    BY <1>1, <1>2, <2>2, <2>3, <2>4 DEF q
<1>4. put' \in SendRec /\ put'.v = put.v /\ put'.at = put.at
  BY DraftHas DEF Post, SendRec
<1>5. post' \in SendRec /\ post'.v = page.shows /\ post'.at = "sent"
  BY DraftHas DEF Post, SendRec, PageRec
<1>6. NoneAhead'
  BY <1>1, <1>3, <1>4, <1>5, DraftHas DEF NoneAhead
<1>7. PageListens'
  BY <1>3, <1>4, DraftHas DEF PageListens
<1>8. Restored' /\ ShowsTyped'
  BY <1>1, <1>2, <1>3, DraftHas DEF Restored, ShowsTyped, NewerCopy, ServerHas, Excused
<1>9. PutFits' /\ PostFits'
  BY <1>1, <1>3, <1>4, <1>5, DraftHas DEF PutFits, PostFits, ServerHas
<1>10. post.at = "none"
  BY <1>1, DraftHas DEF PageListens, SendRec
<1>11. NothingHaunts'
  <2>1. page'.queued > 0 => page.queued > 0
    BY <1>3, DraftHas DEF PageListens
  <2>2. MaySave' => MaySave
    BY <1>1, <1>2, <1>3, <2>1 DEF MaySave
  <2> QED
    BY <1>1, <1>3, <1>4, <1>10, <2>2, DraftHas DEF NothingHaunts, Haunted
<1>12. FlushedFirst'
  <2>1. Haunted \/ page.queued = 0
    BY <1>1, DraftHas DEF FlushedFirst
  <2>2. page.queued = 0 => put.at = "none"
    BY DraftHas DEF PageListens
  <2> QED
    BY <1>1, <1>3, <2>1, <2>2 DEF FlushedFirst, Haunted
<1> QED
  BY <1>1, <1>3, <1>4, <1>5, <1>6, <1>7, <1>8, <1>9, <1>11, <1>12, DraftHas, DraftSays
     DEF PageRec

\* The server has taken the answers.
LEMMA TakeInv ==
  ASSUME DraftInv, TakeAnswers
  PROVE  DraftInv'
<1>1. /\ post.at = "sent" /\ answers' = post.v /\ draft' = 0 /\ device' = OlderCopy(device)
      /\ UNCHANGED <<page, put, strays, lateSend, typed, late, typedOver, typedOn, queuedOn>>
  BY DEF TakeAnswers, marks
<1>2. post' \in SendRec /\ post'.v = post.v /\ post'.at = "done"
  BY DraftHas DEF TakeAnswers, SendRec
<1>3. page.open /\ page.step = "post"
  BY <1>1, DraftHas DEF PageListens
<1>4. /\ device' \in [v : Versions, newer : BOOLEAN] /\ device'.v = device.v /\ ~device'.newer
  BY <1>1, OlderIs
<1>5. answers' \in Versions /\ draft' \in Versions /\ draft' <= typed /\ answers' <= typed
  BY <1>1, DraftHas DEF SendRec, Versions, NoneAhead
<1>6. NoneAhead'
  BY <1>1, <1>2, <1>4, <1>5, DraftHas DEF NoneAhead
<1>7. PageListens'
  BY <1>1, <1>2, DraftHas DEF PageListens
<1>8. ServerHas' = post.v /\ (post.v = page.shows \/ typedOn)
  BY <1>1, DraftHas DEF ServerHas, PostFits
<1>9. Restored'
  <2> SUFFICES ASSUME ~Excused PROVE typed = (IF NewerCopy THEN device.v ELSE ServerHas)'
    BY <1>1 DEF Restored, Excused
  <2>1. ServerHas' = typed
    BY <1>3, <1>8, DraftHas DEF ShowsTyped, Excused
  <2>2. typed = 0 => device.v = 0
    BY DraftHas DEF NoneAhead, Versions
  <2> QED
    BY <1>1, <1>4, <2>1, <2>2 DEF NewerCopy
<1>10. ShowsTyped'
  BY <1>1, <1>4, DraftHas DEF ShowsTyped, Excused
<1>11. PutFits'
  BY <1>1, <1>4, <1>8, DraftHas DEF PutFits
<1>12. PostFits'
  BY <1>1, <1>2, DraftHas DEF PostFits
<1>13. NothingHaunts'
  <2> SUFFICES ASSUME ~Haunted PROVE put.at = "none"
    BY <1>1, <1>2, <1>4 DEF NothingHaunts, Haunted
  <2>1. page.queued = 0
    BY <1>3, DraftHas DEF FlushedFirst
  <2> QED
    BY <2>1, DraftHas DEF PageListens
<1>14. FlushedFirst'
  BY <1>1, DraftHas DEF FlushedFirst, Haunted
<1> QED
  BY <1>1, <1>2, <1>4, <1>5, <1>6, <1>7, <1>9, <1>10, <1>11, <1>12, <1>13, <1>14,
     DraftHas, DraftSays

\* The runner is gone: the form was sent, or the tab was closed.
LEMMA GoneInv ==
  ASSUME DraftInv, Redirected \/ CloseForm
  PROVE  DraftInv'
<1>1. /\ page' = NoPage /\ put' = NoSend /\ post' = NoSend
      /\ strays' \subseteq strays \cup {put.v} /\ lateSend' \subseteq lateSend \cup {post.v}
      /\ UNCHANGED <<draft, answers, device, typed, late, typedOver, typedOn, queuedOn>>
  BY DEF Redirected, CloseForm, Unmount, serverRows, marks
<1>2. strays' \subseteq Versions /\ lateSend' \subseteq Versions
  BY <1>1, DraftHas DEF SendRec
<1>3. NoneAhead'
  <2>1. \A v \in strays' \cup lateSend' : v <= typed
    BY <1>1, DraftHas DEF NoneAhead
  <2>2. page'.shows <= typed /\ put'.v <= typed /\ post'.v <= typed
    BY <1>1, DraftHas, DraftNothing DEF Versions
  <2> QED
    BY <1>1, <2>1, <2>2, DraftHas DEF NoneAhead
<1>4. PageListens' /\ ShowsTyped' /\ PutFits' /\ PostFits' /\ FlushedFirst'
  BY <1>1, DraftNothing DEF PageListens, ShowsTyped, PutFits, PostFits, FlushedFirst
<1>5. Restored'
  BY <1>1, DraftHas DEF Restored, NewerCopy, ServerHas, Excused
<1>6. NothingHaunts'
  BY <1>1, DraftHas, DraftNothing DEF NothingHaunts, MaySave, Haunted
<1>7. page'.awaits <= page'.queued
  BY <1>1, DraftNothing
<1> QED
  BY <1>1, <1>2, <1>3, <1>4, <1>5, <1>6, <1>7, DraftHas, DraftNothing, DraftSays

\* The form comes back: not taken, or taken and not answered.
LEMMA SentBackInv ==
  ASSUME DraftInv, NEW answered \in BOOLEAN, SentBack(answered)
  PROVE  DraftInv'
<1>1. /\ post.at # "none" /\ post' = NoSend /\ lateSend' \subseteq lateSend \cup {post.v}
      /\ late' = (late \/ post.at = "done")
      /\ UNCHANGED <<put, strays, draft, answers, device, typed, typedOver, typedOn, queuedOn>>
  BY DEF SentBack, serverRows
<1>2. /\ page' \in PageRec /\ page'.open = page.open /\ page'.step = "idle"
      /\ page'.shows = page.shows /\ page'.awaits = page.awaits /\ page'.retry = page.retry
      /\ page'.queued = page.queued /\ page'.debounce = page.debounce
  BY DraftHas DEF SentBack, PageRec
<1>3. page.open
  BY <1>1, DraftHas DEF PageListens
<1>4. late' \in BOOLEAN /\ (late => late') /\ (post.at = "done" => late')
  BY <1>1, Zenon
<1>5. lateSend' \subseteq Versions
  BY <1>1, DraftHas DEF SendRec
<1>6. post' \in SendRec /\ post'.at = "none" /\ post'.v = 0
  BY <1>1, DraftNothing
<1>7. NoneAhead'
  <2>1. \A v \in strays' \cup lateSend' : v <= typed
    BY <1>1, DraftHas DEF NoneAhead
  <2> QED
    BY <1>1, <1>2, <1>6, <2>1, DraftHas DEF NoneAhead, Versions
<1>8. PageListens'
  BY <1>1, <1>2, <1>3, <1>6, DraftHas DEF PageListens
<1>9. Restored' /\ ShowsTyped'
  BY <1>1, <1>2, <1>3, <1>4, DraftHas DEF Restored, ShowsTyped, NewerCopy, ServerHas, Excused
<1>10. PutFits' /\ PostFits'
  BY <1>1, <1>2, <1>4, <1>6, DraftHas DEF PutFits, PostFits, ServerHas
<1>11. NothingHaunts'
  BY <1>1, <1>2, <1>4, DraftHas DEF NothingHaunts, MaySave, Haunted
<1>12. FlushedFirst'
  BY <1>2 DEF FlushedFirst
<1> QED
  BY <1>1, <1>2, <1>4, <1>5, <1>6, <1>7, <1>8, <1>9, <1>10, <1>11, <1>12, DraftHas, DraftSays

\* A request given up arrives, or is lost.
LEMMA StrayInv ==
  ASSUME DraftInv, NEW v \in Versions, StrayPut(v) \/ StrayPost(v)
  PROVE  DraftInv'
<1>1. /\ UNCHANGED <<page, put, post, typed, typedOver, typedOn, queuedOn>>
      /\ strays' \subseteq strays /\ lateSend' \subseteq lateSend
  BY DEF StrayPut, StrayPost
<1>2. v <= typed
  BY DraftHas DEF StrayPut, StrayPost, NoneAhead
<1>3. \/ UNCHANGED <<draft, answers, device, late>>
      \/ /\ late' /\ late' \in BOOLEAN /\ device' = OlderCopy(device)
         /\ draft' \in {draft, v, 0} /\ answers' \in {answers, v}
  BY DEF StrayPut, StrayPost, serverRows
<1>4. /\ device' \in [v : Versions, newer : BOOLEAN]
      /\ device'.v = device.v /\ (device'.newer => device.newer)
  BY <1>3, OlderIs, DraftHas
<1>5. draft' \in Versions /\ answers' \in Versions /\ draft' <= typed /\ answers' <= typed
  BY <1>2, <1>3, DraftHas DEF Versions, NoneAhead
<1>6. strays' \subseteq Versions /\ lateSend' \subseteq Versions
  BY <1>1, DraftHas
<1>7. NoneAhead'
  <2>1. \A w \in strays' \cup lateSend' : w <= typed
    BY <1>1, DraftHas DEF NoneAhead
  <2> QED
    BY <1>1, <1>4, <1>5, <2>1, DraftHas DEF NoneAhead
<1>8. PageListens' /\ PostFits'
  BY <1>1, DraftHas DEF PageListens, PostFits
<1>9. late' \in BOOLEAN
  BY <1>3, DraftHas
<1>10. CASE UNCHANGED <<draft, answers, device, late>>
  <2>1. Restored' /\ ShowsTyped' /\ PutFits' /\ NothingHaunts' /\ FlushedFirst'
    BY <1>1, <1>10, DraftHas
       DEF Restored, ShowsTyped, PutFits, NothingHaunts, FlushedFirst, MaySave, Haunted,
           Excused, NewerCopy, ServerHas
  <2> QED
    BY <1>1, <1>4, <1>5, <1>6, <1>7, <1>8, <1>9, <2>1, DraftHas, DraftSays
<1>11. CASE late' /\ device' = OlderCopy(device)
  <2>1. ~device'.newer
    BY <1>11, OlderIs
  <2>2. Restored' /\ NothingHaunts' /\ FlushedFirst'
    BY <1>11 DEF Restored, NothingHaunts, FlushedFirst, Haunted, Excused
  <2>3. ShowsTyped'
    BY <1>11, <2>1 DEF ShowsTyped, Excused
  <2>4. PutFits'
    BY <1>1, <1>11, <2>1, DraftHas DEF PutFits
  <2> QED
    BY <1>1, <1>4, <1>5, <1>6, <1>7, <1>8, <1>9, <2>2, <2>3, <2>4, DraftHas, DraftSays
<1> QED
  BY <1>3, <1>10, <1>11

\* Every step keeps the invariant.
LEMMA DraftStep ==
  ASSUME DraftInv, [DraftNext]_draftVars
  PROVE  DraftInv'
<1>1. CASE DraftNext
  BY <1>1, TypeInv, OpenInv, QueueInv, SendInv, PutDraftInv, AnsweredInv, SaveFailsInv,
     SubmitAnswersInv, PostInv, TakeInv, GoneInv, SentBackInv, StrayInv DEF DraftNext
<1>2. CASE UNCHANGED draftVars
  <2>1. UNCHANGED <<page, put, post, strays, lateSend, device, draft, answers, typed, late,
                    typedOver, typedOn, queuedOn>>
    BY <1>2 DEF draftVars
  <2>2. NoneAhead' /\ PageListens' /\ Restored' /\ ShowsTyped' /\ PutFits' /\ PostFits'
        /\ NothingHaunts' /\ FlushedFirst'
    BY <2>1, DraftHas
       DEF NoneAhead, PageListens, Restored, ShowsTyped, PutFits, PostFits, NothingHaunts,
           FlushedFirst, MaySave, Haunted, Excused, NewerCopy, ServerHas
  <2> QED
    BY <2>1, <2>2, DraftHas, DraftSays
<1> QED
  BY <1>1, <1>2

\* The invariant holds at first.
LEMMA DraftInitInv == DraftInit => DraftInv
<1> SUFFICES ASSUME DraftInit PROVE DraftInv
  OBVIOUS
<1>1. 0 \in Versions /\ 0 \in 0..MaxQueued
  BY DraftAssumption DEF Versions
<1>2. DraftTypeOK
  <2>1. /\ NoPage \in PageRec /\ NoPage.awaits <= NoPage.queued /\ NoSend \in SendRec
        /\ NoCopy \in [v : Versions, newer : BOOLEAN]
    BY <1>1 DEF NoPage, NoSend, NoCopy, PageRec, SendRec
  <2> QED
    BY <1>1, <2>1 DEF DraftInit, DraftTypeOK, PageRec, SendRec
<1>3. /\ page.shows = 0 /\ ~page.open /\ page.queued = 0 /\ page.step = "idle"
      /\ put.v = 0 /\ put.at = "none" /\ post.v = 0 /\ post.at = "none" /\ device.v = 0
      /\ page = NoPage /\ answers = 0 /\ draft = 0 /\ typed = 0 /\ strays = {} /\ lateSend = {}
  BY DEF DraftInit, NoPage, NoSend, NoCopy
<1>4. NoneAhead /\ PageListens /\ ShowsTyped /\ PutFits /\ PostFits /\ NothingHaunts
      /\ FlushedFirst
  BY <1>3 DEF NoneAhead, PageListens, ShowsTyped, PutFits, PostFits, NothingHaunts, FlushedFirst
<1>5. Restored
  BY <1>3 DEF Restored, NewerCopy, ServerHas
<1> QED
  BY <1>2, <1>4, <1>5 DEF DraftInv

\* For any number of keystrokes and of saves that wait, whatever is refused, lost,
\* late or closed: what was last typed is in the page, on the device, in the draft
\* or in the answers, and no draft comes back over answers already sent, but for
\* the cases AnswersKept and NoGhostDraft name.
THEOREM DraftKeepsPromises == DraftSpec => []DraftPromises
<1>1. DraftInv => DraftPromises
  <2> SUFFICES ASSUME DraftInv PROVE DraftPromises
    OBVIOUS
  <2>1. AnswersKept
    BY DraftHas DEF Restored, Excused, AnswersKept, ServerHas
  <2>2. NoGhostDraft
    BY DraftHas DEF NothingHaunts, Haunted, NoGhostDraft
  <2> QED
    BY <2>1, <2>2 DEF DraftPromises, DraftInv
<1> QED
  BY <1>1, DraftInitInv, DraftStep, PTL DEF DraftSpec
=============================================================================
