---------------------------- MODULE UploadClient ----------------------------
(***************************************************************************)
(* The uploader on a phone (apps/web components/video/                     *)
(* MobileUploadRunner.tsx, lib/video/tus-upload.ts, confirm-upload.ts): a  *)
(* video is chosen, reserved with the server, sent to the object store and *)
(* confirmed with the server, and what went wrong can be tried again.      *)
(*                                                                         *)
(* A file stands for its reservation (a file picked again continues it).   *)
(* Calls are asynchronous: what one of them finds when it returns is the   *)
(* screen as it is then.                                                   *)
(***************************************************************************)
EXTENDS FiniteSets, Naturals

CONSTANTS Files,
          NoFile,
          Chains,     \* chains of asynchronous calls that may be under way
          NoChain,
          MaxAttempts \* CONFIRM_RETRY_DELAYS_MS.length + 1

ASSUME ClientAssumption ==
  NoFile \notin Files /\ NoChain \notin Chains /\ MaxAttempts \in Nat \ {0}

VARIABLES step,        \* the screen
          chosen,      \* the file it is about
          unconfirmed, \* unconfirmedRef
          handle,      \* uploadRef: the call whose transfer it can abort
          chain,       \* the calls under way
          stored,      \* files whose bytes the object store has
          finished,    \* files the server has completed
          ranOn        \* a cancelled upload could not be stopped and went on

clientVars == <<step, chosen, unconfirmed, handle, chain, stored, finished, ranOn>>
-----------------------------------------------------------------------------
Screens == {"choose", "preview", "uploading", "done", "failed"}
Ended == [at |-> "none", of |-> NoFile, tries |-> 0, mounted |-> FALSE]

ClientInit ==
  /\ step = "choose" /\ chosen = NoFile
  /\ unconfirmed = NoFile /\ handle = NoChain
  /\ chain = [c \in Chains |-> Ended]
  /\ stored = {} /\ finished = {}
  /\ ranOn = FALSE

remote == <<stored, finished>>

Starts(c, at, f) ==
  chain' = [chain EXCEPT ![c] = [at |-> at, of |-> f, tries |-> 0, mounted |-> TRUE]]
ChainEnds(c) == chain' = [chain EXCEPT ![c] = Ended]

Free(c)    == chain[c].at = "none"
Unstopped  == \E c \in Chains : chain[c].mounted /\ chain[c].at \in {"begin", "confirm"}

\* Nothing is shown once the page has gone.
Shows(c, s) == step' = IF chain[c].mounted THEN s ELSE step
-----------------------------------------------------------------------------
\* A bug for TLC to find: a stored upload that outlives its file on the screen.
Remember == unconfirmed

\* Going back, choosing, cancelling or starting clears it.
Forget == NoFile

\* onFileChosen().
ChooseFile(f) ==
  /\ step = "choose"
  /\ step' = "preview" /\ chosen' = f
  /\ unconfirmed' = Forget
  /\ UNCHANGED <<handle, chain, remote, ranOn>>

\* startUpload(), from the preview or from a Retry with nothing to confirm.
Start(c) ==
  /\ Free(c) /\ chosen # NoFile
  /\ step = "preview" \/ (step = "failed" /\ unconfirmed = NoFile)
  /\ step' = "uploading"
  /\ unconfirmed' = Forget
  /\ Starts(c, "begin", chosen)
  /\ UNCHANGED <<chosen, handle, remote, ranOn>>

\* retry(): the stored file is confirmed again, not sent again.
RetryConfirm(c) ==
  /\ Free(c) /\ step = "failed" /\ unconfirmed # NoFile
  /\ step' = "uploading"
  /\ Starts(c, "confirm", unconfirmed)
  /\ UNCHANGED <<chosen, unconfirmed, handle, remote, ranOn>>

\* The failed screen's way back.
GoBack ==
  /\ step = "failed"
  /\ step' = "choose"
  /\ unconfirmed' = Forget
  /\ UNCHANGED <<chosen, handle, chain, remote, ranOn>>

\* abort() reaches a transfer that has a handle; nothing else can be stopped.
Aborted == [c \in Chains |-> IF c = handle /\ chain[c].at = "send" THEN Ended ELSE chain[c]]

\* cancelUpload().
Cancel ==
  /\ step \in {"preview", "uploading"}
  /\ step' = "choose" /\ chosen' = NoFile
  /\ unconfirmed' = Forget /\ handle' = NoChain
  /\ chain' = Aborted
  /\ ranOn' = (ranOn \/ Unstopped)
  /\ UNCHANGED remote

\* The page is left, by the redirect after "done" or by hand, and opened anew:
\* the transfer is aborted and what else is under way says nothing more.
LeavePage ==
  /\ step' = "choose" /\ chosen' = NoFile
  /\ unconfirmed' = NoFile /\ handle' = NoChain
  /\ chain' = [c \in Chains |-> [Aborted[c] EXCEPT !.mounted = FALSE]]
  /\ UNCHANGED <<remote, ranOn>>
-----------------------------------------------------------------------------
\* beginUploadAction() answers: the transfer starts, or it is refused or lost.
Reserved(c) ==
  /\ chain[c].at = "begin"
  /\ chain' = [chain EXCEPT ![c].at = "send"]
  /\ handle' = IF chain[c].mounted THEN c ELSE handle
  /\ UNCHANGED <<step, chosen, unconfirmed, remote, ranOn>>

NotReserved(c) ==
  /\ chain[c].at = "begin"
  /\ Shows(c, "failed")
  /\ ChainEnds(c)
  /\ UNCHANGED <<chosen, unconfirmed, handle, remote, ranOn>>

\* tus reports: onSuccess goes on to confirm, if the page is there.
TransferSent(c) ==
  /\ chain[c].at = "send"
  /\ stored' = stored \cup {chain[c].of}
  /\ IF chain[c].mounted THEN chain' = [chain EXCEPT ![c].at = "confirm"] ELSE ChainEnds(c)
  /\ UNCHANGED <<step, chosen, unconfirmed, handle, finished, ranOn>>

\* A bug for TLC to find: confirmed all the same.
ConfirmAnyway(c) ==
  /\ chain[c].at = "send"
  /\ chain' = [chain EXCEPT ![c].at = "confirm"]
  /\ UNCHANGED <<step, chosen, unconfirmed, handle, remote, ranOn>>

\* onError(), once tus has given up.
TransferFailed(c) ==
  /\ chain[c].at = "send"
  /\ Shows(c, "failed")
  /\ ChainEnds(c)
  /\ UNCHANGED <<chosen, unconfirmed, handle, remote, ranOn>>

\* completeUploadAction() answers ok: the screen says "Uploaded".
Confirmed(c) ==
  /\ chain[c].at = "confirm"
  /\ finished' = finished \cup {chain[c].of}
  /\ Shows(c, "done")
  /\ unconfirmed' = IF chain[c].mounted THEN NoFile ELSE unconfirmed
  /\ ChainEnds(c)
  /\ UNCHANGED <<chosen, handle, stored, ranOn>>

\* The server's last word: the object is missing, short or too large.
Refused(c) ==
  /\ chain[c].at = "confirm"
  /\ Shows(c, "failed")
  /\ unconfirmed' = IF chain[c].mounted THEN NoFile ELSE unconfirmed
  /\ ChainEnds(c)
  /\ UNCHANGED <<chosen, handle, remote, ranOn>>

\* A bug for TLC to find: a rejected call nobody catches.
Uncaught(c) == step

\* After the last attempt: Retry is offered, and confirms again.
AfterLastAttempt(c) == IF chain[c].mounted THEN "failed" ELSE step

\* confirmUpload(): no answer, or one to ask again for.  The server may have
\* completed the upload all the same.
NoAnswer(c, done) ==
  LET f == chain[c].of
      last == chain[c].tries + 1 >= MaxAttempts
  IN /\ chain[c].at = "confirm"
     /\ finished' = IF done THEN finished \cup {f} ELSE finished
     /\ IF last
          THEN /\ step' = AfterLastAttempt(c)
               /\ unconfirmed' = IF chain[c].mounted THEN f ELSE unconfirmed
               /\ ChainEnds(c)
          ELSE /\ chain' = [chain EXCEPT ![c].tries = @ + 1]
               /\ UNCHANGED <<step, unconfirmed>>
     /\ UNCHANGED <<chosen, handle, stored, ranOn>>

Continues(c) ==
  \/ Reserved(c) \/ NotReserved(c) \/ TransferSent(c) \/ TransferFailed(c)
  \/ Confirmed(c) \/ Refused(c)
  \/ \E done \in BOOLEAN : NoAnswer(c, done)

ClientNext ==
  \/ \E f \in Files : ChooseFile(f)
  \/ GoBack \/ Cancel \/ LeavePage
  \/ \E c \in Chains : Start(c) \/ RetryConfirm(c) \/ Continues(c)

\* Every call ends: fetch and tus answer or fail.
ClientFairness == \A c \in Chains : WF_clientVars(Continues(c))

ClientSpec == ClientInit /\ [][ClientNext]_clientVars /\ ClientFairness
-----------------------------------------------------------------------------
\* The values of the screen, the calls and what the servers have; a preview and
\* a transfer have a file.
ClientTypeOK ==
  /\ step \in Screens /\ chosen \in Files \cup {NoFile}
  /\ step = "preview" => chosen # NoFile
  /\ unconfirmed \in Files \cup {NoFile} /\ handle \in Chains \cup {NoChain}
  /\ chain \in [Chains -> [at : {"none", "begin", "send", "confirm"},
                         of : Files \cup {NoFile}, tries : 0..MaxAttempts,
                         mounted : BOOLEAN]]
  /\ finished \subseteq stored /\ stored \subseteq Files
  /\ ranOn \in BOOLEAN

\* "Uploaded" is said of a file the server has completed, the one on the
\* screen, and Retry confirms no other: unless an upload that was cancelled
\* while it reserved or confirmed, where it cannot be stopped, reports itself.
DoneIsThisFile ==
  ranOn \/ (/\ step = "done" => chosen \in finished
            /\ unconfirmed # NoFile => unconfirmed = chosen)

\* A file kept to be confirmed again is one whose bytes are stored: Retry never
\* spares a transfer that has not happened.
UnconfirmedIsStored == unconfirmed # NoFile => unconfirmed \in stored

\* The screen does not stay at "uploading": the upload ends, and says how.
UploadingEnds == (step = "uploading") ~> (step # "uploading")

\* What the upload screen says is true of the file it shows.
ClientPromises == ClientTypeOK /\ DoneIsThisFile /\ UnconfirmedIsStored
=============================================================================
