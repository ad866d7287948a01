----------------------------- MODULE FormDrafts -----------------------------
(***************************************************************************)
(* The draft of a form one person fills in on one device: the runner's     *)
(* autosave and its copy on the device (apps/web components/forms/         *)
(* draft-resilience.ts, FormRenderer.tsx, MobileFormRunner.tsx), the       *)
(* requests it sends, and the server's draft and submitted answers         *)
(* (api/form-drafts/[id]/route.ts, forms/[slug]/page.tsx).                 *)
(*                                                                         *)
(* Answers are known by the keystroke they end with: 1, 2, ..., and 0 for  *)
(* none.  A request may be given up by the browser and still arrive.  The  *)
(* device's clock and the server's are taken to agree.                     *)
(***************************************************************************)
EXTENDS FiniteSets, Naturals

CONSTANTS MaxTyped, \* how many keystrokes
          MaxQueued \* saves that wait for one another

ASSUME DraftAssumption == MaxTyped \in Nat /\ MaxQueued \in Nat \ {0}

VARIABLES page,      \* the mounted runner
          put,       \* its save on the wire
          post,      \* its submission on the wire
          strays,    \* saves the browser gave up that may still arrive
          lateSend,  \* submissions it gave up, likewise
          device,    \* the copy in localStorage
          draft,     \* form_drafts.responses
          answers,   \* feedback_responses.responses
          typed,     \* the last keystroke
          late,      \* a request arrived after it was given up, or a submission
                     \* was taken and its answer lost
          typedOver, \* the last keystroke fell while a save was on the wire
          typedOn,   \* a keystroke fell while a submission was under way
          queuedOn   \* a save was queued while one was, or it sent nothing new

draftVars == <<page, put, post, strays, lateSend, device, draft, answers,
               typed, late, typedOver, typedOn, queuedOn>>
-----------------------------------------------------------------------------
Versions == 0..MaxTyped

\* awaits: the saves the submission still waits for.  cancelled: saves queued
\* before a cancellation do nothing, the one on the wire included.
NoPage == [open |-> FALSE, shows |-> 0, step |-> "idle", debounce |-> FALSE,
           retry |-> FALSE, queued |-> 0, awaits |-> 0, refused |-> FALSE,
           cancelled |-> FALSE]

\* A request on the wire: its answers, and whether the server has done it.
NoSend == [v |-> 0, at |-> "none", live |-> FALSE]

NoCopy == [v |-> 0, newer |-> FALSE]

DraftInit ==
  /\ page = NoPage
  /\ put = NoSend /\ post = NoSend
  /\ strays = {} /\ lateSend = {}
  /\ device = NoCopy
  /\ draft = 0 /\ answers = 0
  /\ typed = 0
  /\ late = FALSE /\ typedOver = FALSE /\ typedOn = FALSE /\ queuedOn = FALSE

network == <<put, post, strays, lateSend>>
serverRows  == <<draft, answers>>
marks   == <<late, typedOver, typedOn, queuedOn>>

ServerHas == IF draft # 0 THEN draft ELSE answers

\* What a server write does to the copy's standing.
OlderCopy(copy) == [copy EXCEPT !.newer = FALSE]
-----------------------------------------------------------------------------
\* A bug for TLC to find: whatever copy the device has is restored.
AnyCopy == device.v # 0

\* takeNewerLocalCopy().
NewerCopy == device.v # 0 /\ (ServerHas = 0 \/ device.newer)

\* The page opens: a newer copy is restored and sent, an older one dropped.
MountForm ==
  /\ ~page.open
  /\ page' = [NoPage EXCEPT !.open = TRUE,
                            !.shows = IF NewerCopy THEN device.v ELSE ServerHas,
                            !.queued = IF NewerCopy THEN 1 ELSE 0]
  /\ device' = IF NewerCopy THEN device ELSE NoCopy
  /\ UNCHANGED <<network, serverRows, typed, marks>>

\* A bug for TLC to find: the copy left to the save.
CopyLater == device

\* keepLocalCopy() at the keystroke.
CopyNow == [v |-> typed + 1, newer |-> TRUE]

\* setField(): the copy, and the save a moment later.
Type ==
  /\ page.open /\ typed < MaxTyped
  /\ typed' = typed + 1
  /\ page' = [page EXCEPT !.shows = typed + 1, !.debounce = TRUE,
                          !.refused = FALSE, !.cancelled = FALSE]
  /\ device' = CopyNow
  /\ typedOver' = (put.at # "none")
  /\ typedOn' = (typedOn \/ page.step # "idle")
  /\ UNCHANGED <<network, serverRows, late, queuedOn>>

\* flushSave(): one more attempt in the queue.
Enqueue(p) == [p EXCEPT !.queued = @ + 1]

\* A place in the queue, and a mark when a submission is under way.
Queues(during) ==
  /\ page.queued < MaxQueued
  /\ queuedOn' = (queuedOn \/ page.step \in during)
  /\ UNCHANGED <<network, serverRows, device, typed, late, typedOver, typedOn>>

DebounceFires ==
  /\ page.debounce /\ Queues({"flush", "post"})
  /\ page' = [Enqueue(page) EXCEPT !.debounce = FALSE]

RetryFires ==
  /\ page.retry /\ Queues({"flush"})
  /\ page' = [Enqueue(page) EXCEPT !.retry = FALSE]

\* onOnline().
BackOnline ==
  /\ page.open /\ device.v # 0 /\ Queues({"flush", "post"})
  /\ page' = Enqueue(page)

\* attempt(): what the page shows now goes out.
SendSave ==
  /\ page.queued > 0 /\ put.at = "none"
  /\ put' = [v |-> page.shows, at |-> "sent", live |-> TRUE]
  /\ page' = [page EXCEPT !.retry = FALSE]
  /\ UNCHANGED <<post, strays, lateSend, serverRows, device, typed, marks>>

\* PUT: the draft row is made or replaced.
PutDraft ==
  /\ put.at = "sent"
  /\ put' = [put EXCEPT !.at = "done"]
  /\ draft' = put.v
  /\ device' = OlderCopy(device)
  /\ UNCHANGED <<page, post, strays, lateSend, answers, typed, marks>>

\* An attempt has ended, and those who wait for it go on.
Settled(p) == [p EXCEPT !.queued = @ - 1, !.awaits = IF @ > 0 THEN @ - 1 ELSE 0]

\* The answer: the copy is dropped, whatever it holds.
SaveAnswered ==
  /\ put.at = "done"
  /\ put' = NoSend
  /\ page' = [Settled(page) EXCEPT !.refused = IF put.live THEN FALSE ELSE @]
  /\ device' = IF put.live THEN NoCopy ELSE device
  /\ typedOver' = (typedOver /\ put.v # typed)
  /\ UNCHANGED <<post, strays, lateSend, serverRows, typed, late, typedOn, queuedOn>>

\* A bug for TLC to find: "retrying", and nothing that retries.
NeverAgain(refused) == FALSE

\* isRetryable().
Again(refused) == ~refused

\* The save fails: refused for good (401, 403, another 4xx), or not answered;
\* then the server may have done it, or may do it yet.
SaveFails(refused) ==
  /\ put.at # "none" /\ (refused => put.at = "sent")
  /\ put' = NoSend
  /\ strays' = IF put.at = "sent" /\ ~refused THEN strays \cup {put.v} ELSE strays
  /\ page' = IF put.live
               THEN [Settled(page) EXCEPT !.retry = Again(refused), !.refused = refused]
               ELSE Settled(page)
  /\ device' = IF put.live THEN [v |-> page.shows, newer |-> TRUE] ELSE device
  /\ typedOver' = (typedOver /\ device' # [v |-> typed, newer |-> TRUE])
  /\ UNCHANGED <<post, lateSend, serverRows, typed, late, typedOn, queuedOn>>
-----------------------------------------------------------------------------
\* Submit: the saves in the queue, and one more, are waited for.
SubmitAnswers ==
  /\ page.open /\ page.step = "idle" /\ page.shows > 0 /\ page.queued < MaxQueued
  /\ page' = [page EXCEPT !.step = "flush", !.debounce = FALSE,
                          !.queued = @ + 1, !.awaits = page.queued + 1]
  /\ queuedOn' = (queuedOn \/ page.shows <= answers)
  /\ UNCHANGED <<network, serverRows, device, typed, late, typedOver, typedOn>>

\* A bug for TLC to find: a retry that outlives the submission.
KeepRetrying(p) == p

\* cancelRetry().
CancelRetry(p) ==
  [p EXCEPT !.retry = FALSE, !.cancelled = TRUE,
            !.queued = IF put.at = "none" THEN 0 ELSE 1]

\* The saves have settled: no retry from here, and the form is posted.
Post ==
  /\ page.step = "flush" /\ page.awaits = 0
  /\ page' = [CancelRetry(page) EXCEPT !.step = "post"]
  /\ put' = [put EXCEPT !.live = FALSE]
  /\ post' = [v |-> page.shows, at |-> "sent", live |-> TRUE]
  /\ UNCHANGED <<strays, lateSend, serverRows, device, typed, marks>>

\* submitFormAction(): the answers replaced and the draft deleted, together.
TakeAnswers ==
  /\ post.at = "sent"
  /\ post' = [post EXCEPT !.at = "done"]
  /\ answers' = post.v
  /\ draft' = 0
  /\ device' = OlderCopy(device)
  /\ UNCHANGED <<page, put, strays, lateSend, typed, marks>>

\* The runner unmounts: timers cleared, saves cancelled, requests given up.
Unmount ==
  /\ page' = NoPage
  /\ put' = NoSend
  /\ strays' = IF put.at = "sent" THEN strays \cup {put.v} ELSE strays

\* The redirect to the sent form.
Redirected ==
  /\ post.at = "done"
  /\ Unmount
  /\ post' = NoSend
  /\ UNCHANGED <<lateSend, serverRows, device, typed, marks>>

\* Sent back with ?error= (not taken), or no answer: the runner stays mounted.
SentBack(answered) ==
  /\ post.at # "none" /\ (answered => post.at = "sent")
  /\ post' = NoSend
  /\ lateSend' = IF post.at = "sent" /\ ~answered THEN lateSend \cup {post.v} ELSE lateSend
  /\ page' = [page EXCEPT !.step = "idle"]
  /\ late' = (late \/ post.at = "done")
  /\ UNCHANGED <<put, strays, serverRows, device, typed, typedOver, typedOn, queuedOn>>

\* The tab is closed.
CloseForm ==
  /\ page.open
  /\ Unmount
  /\ post' = NoSend
  /\ lateSend' = IF post.at = "sent" THEN lateSend \cup {post.v} ELSE lateSend
  /\ UNCHANGED <<serverRows, device, typed, marks>>

\* A request given up arrives all the same, or is lost.
StrayPut(v) ==
  /\ v \in strays /\ strays' = strays \ {v}
  /\ \/ draft' = v /\ device' = OlderCopy(device) /\ late' = TRUE
     \/ UNCHANGED <<draft, device, late>>
  /\ UNCHANGED <<page, put, post, lateSend, answers, typed, typedOver, typedOn, queuedOn>>

StrayPost(v) ==
  /\ v \in lateSend /\ lateSend' = lateSend \ {v}
  /\ \/ answers' = v /\ draft' = 0 /\ device' = OlderCopy(device) /\ late' = TRUE
     \/ UNCHANGED <<serverRows, device, late>>
  /\ UNCHANGED <<page, put, post, strays, typed, typedOver, typedOn, queuedOn>>

DraftNext ==
  \/ MountForm \/ Type \/ DebounceFires \/ RetryFires \/ BackOnline
  \/ SendSave \/ PutDraft \/ SaveAnswered
  \/ \E refused \in BOOLEAN : SaveFails(refused)
  \/ SubmitAnswers \/ Post \/ TakeAnswers \/ Redirected
  \/ \E answered \in BOOLEAN : SentBack(answered)
  \/ CloseForm
  \/ \E v \in Versions : StrayPut(v) \/ StrayPost(v)

\* The timers fire and requests are sent and served; a save tried again and
\* again is answered in the end.
DraftFairness ==
  /\ WF_draftVars(DebounceFires) /\ WF_draftVars(RetryFires)
  /\ WF_draftVars(SendSave) /\ SF_draftVars(PutDraft) /\ SF_draftVars(SaveAnswered)

DraftSpec == DraftInit /\ [][DraftNext]_draftVars /\ DraftFairness
-----------------------------------------------------------------------------
\* The values of the page, the wire, the copy and the server's rows; a
\* submission waits for no more saves than are queued.
DraftTypeOK ==
  /\ page \in [open : BOOLEAN, shows : Versions, step : {"idle", "flush", "post"},
               debounce : BOOLEAN, retry : BOOLEAN, queued : 0..MaxQueued,
               awaits : 0..MaxQueued, refused : BOOLEAN, cancelled : BOOLEAN]
  /\ page.awaits <= page.queued
  /\ \A sent \in {put, post} :
       sent \in [v : Versions, at : {"none", "sent", "done"}, live : BOOLEAN]
  /\ strays \subseteq Versions /\ lateSend \subseteq Versions
  /\ device \in [v : Versions, newer : BOOLEAN]
  /\ {draft, answers, typed} \subseteq Versions
  /\ {late, typedOver, typedOn, queuedOn} \subseteq BOOLEAN

\* What was last typed is never only in a page that is gone: it is on the
\* device, in the draft or in the submitted answers, through failed saves,
\* refused submissions and closed tabs.  Not so when it was typed while a save
\* was on the wire (its answer drops the newer copy), while a submission was
\* under way, or when a request given up arrived late.
AnswersKept ==
  \/ page.open /\ page.shows = typed
  \/ typed \in {device.v, draft, answers}
  \/ typedOver \/ typedOn \/ late

\* No draft of answers already submitted comes back over them, by a retry, a
\* queued save or a copy restored on the next visit.  Only a request given up
\* that arrives late brings one back, a save after a submission whose answer was
\* lost, or one queued (by a keystroke, a retry or the link's return) while the
\* submission was under way, or by submitting the same answers again.
NoGhostDraft ==
  (draft # 0 /\ answers # 0 /\ ~queuedOn /\ ~late) => draft > answers

\* Answers the server does not have reach it while the page is open, unless a
\* save was refused for good or a submission put an end to the retries.
SavedInTheEnd ==
  (page.open /\ device.v # 0)
    ~> (~page.open \/ device.v = 0 \/ page.refused \/ page.cancelled)

\* What was typed is kept, and what was submitted is not overwritten.
DraftPromises == DraftTypeOK /\ AnswersKept /\ NoGhostDraft
=============================================================================
