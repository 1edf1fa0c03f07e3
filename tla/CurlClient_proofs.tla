------------------------- MODULE CurlClient_proofs -------------------------
(***************************************************************************)
(* What the client of a request hears, for any number of requests.         *)
(*                                                                         *)
(* The functions posted for a client lie ahead of what it was told: the    *)
(* invariant says that whatever prefix of them will have run, the client   *)
(* has heard an orderly story, unless cancel() has come between, after     *)
(* which it hears nothing more.  That no second end is posted needs that a *)
(* transfer finishes once, and that a completion follows a response needs  *)
(* what the flags say of the headers libcurl has delivered.                *)
(***************************************************************************)
EXTENDS CurlRequest_proofs

(***************************************************************************)
(* What a step does to the flags of a request.                             *)
(***************************************************************************)

\* The flags that cancel() sets, those about responses, and those about the
\* way of a request are as before.
SameCancel(q, p) == p.m_client = q.m_client /\ p.m_cancelled = q.m_cancelled
SameNotify(q, p) ==
    /\ p.m_didReceiveResponse = q.m_didReceiveResponse
    /\ p.m_didNotifyResponse = q.m_didNotifyResponse
    /\ p.m_actionAfterInvoke = q.m_actionAfterInvoke
SameProgress(q, p) ==
    /\ p.local = q.local /\ p.started = q.started
    /\ p.m_completed = q.m_completed
Steady(q, p) == SameCancel(q, p) /\ SameNotify(q, p) /\ SameProgress(q, p)

\* The other flags leave these alone.
LEMMA SteadyUpdates ==
    ASSUME NEW q \in Request, NEW b \in BOOLEAN, NEW c \in BOOLEAN
    PROVE  /\ Steady(q, q)
           /\ Steady(q, [q EXCEPT !.m_didReturnFromNotify = b])
           /\ Steady(q, [q EXCEPT !.m_multipartHandle = b])
           /\ Steady(q, [q EXCEPT !.m_isPausedOfRequest = b])
           /\ Steady(q, [q EXCEPT !.m_isPausedOfCallback = b])
           /\ Steady(q, [q EXCEPT !.m_isHandlePaused = b])
           /\ Steady(q, [q EXCEPT !.m_shouldSuspend = b,
                                  !.m_isPausedOfRequest = c])
           /\ Steady(q, [q EXCEPT !.m_shouldSuspend = b, !.m_isPausedOfRequest = b,
                                  !.m_isHandlePaused = c])
           /\ Steady(q, [q EXCEPT !.m_didReturnFromNotify = b,
                                  !.m_isPausedOfCallback = c])
  BY DEF Steady, SameCancel, SameNotify, SameProgress, Request

\* One request is updated.
LEMMA OneUpdated ==
    ASSUME RequestTypes, NEW r \in Requests, NEW q, req' = [req EXCEPT ![r] = q]
    PROVE  /\ req'[r] = q
           /\ \A s \in Requests \ {r} : req'[s] = req[s] /\ Steady(req[s], req'[s])
  BY DEF RequestTypes, Steady, SameCancel, SameNotify, SameProgress

\* setupTransfer,
LEMMA SetupSteady ==
    ASSUME NEW q \in Request, NEW accepted \in BOOLEAN
    PROVE  Steady(q, SuspendAtSetup(q, accepted))
  <1>1. CASE worker.at # "suspending"
    BY <1>1, SteadyUpdates DEF SuspendAtSetup
  <1>2. CASE worker.at = "suspending"
    <2> DEFINE c == \/ q.m_isHandlePaused
                    \/ accepted /\ ~ShouldBePaused(q) /\ ~IsCompletedOrCancelled(q)
    <2>1. SuspendAtSetup(q, accepted) =
            [q EXCEPT !.m_shouldSuspend = TRUE, !.m_isPausedOfRequest = TRUE,
                      !.m_isHandlePaused = c]
      BY <1>2 DEF SuspendAtSetup
    <2>2. c \in BOOLEAN
      BY FlagsAreBoolean
    <2> HIDE DEF c
    <2> QED
      BY <2>1, <2>2, SteadyUpdates
  <1> QED
    BY <1>1, <1>2

\* the answer to a response,
LEMMA AnswerSteady ==
    ASSUME RequestTypes, NEW r \in Requests, CompleteDidReceiveResponse(r)
    PROVE  \/ UNCHANGED req
           \/ \E q : Steady(req[r], q) /\ req' = [req EXCEPT ![r] = q]
  <1>1. CASE IsCompletedOrCancelled(req[r])
    BY <1>1 DEF CompleteDidReceiveResponse
  <1>2. CASE ~IsCompletedOrCancelled(req[r])
    <2> DEFINE q == [req[r] EXCEPT !.m_didReturnFromNotify = TRUE]
    <2>1. req[r] \in Request
      BY DEF RequestTypes
    <2>2. AfterInvoke(r, q)
      BY <1>2 DEF CompleteDidReceiveResponse
    <2>3. Steady(req[r], q) /\ Steady(req[r], [q EXCEPT !.m_isPausedOfCallback = FALSE])
      BY <2>1, SteadyUpdates
    <2>4. q.m_actionAfterInvoke \in Action
      BY <2>1 DEF Request
    <2> HIDE DEF q
    <2>5. \/ req' = [req EXCEPT ![r] = q]
          \/ req' = [req EXCEPT ![r] = [q EXCEPT !.m_isPausedOfCallback = FALSE]]
      BY <2>2, <2>4 DEF AfterInvoke, Action
    <2> QED
      BY <2>3, <2>5
  <1> QED
    BY <1>1, <1>2

\* and the steps that leave the flags of every request alone.
Unflagged ==
    \/ RunRelease \/ RunClient \/ TakeTasks \/ TestShouldSuspend
    \/ StartTransfer \/ StartTransferFails \/ PauseChange \/ Finalize \/ RunDidCancel
    \/ RunDidComplete \/ FinishNow \/ PauseInCallback
    \/ \E r \in Requests :
         \/ \E paused \in BOOLEAN : SetRequestPaused(r, paused)
         \/ CompleteDidReceiveResponse(r)
         \/ \E how \in Result : TransferDone(r, how)

\* None of these sets a flag that is looked at here.
LEMMA UnflaggedSteady ==
    ASSUME Types, Unflagged PROVE \A s \in Requests : Steady(req[s], req'[s])
  <1>0. RequestTypes /\ QueueTypes /\ \A s \in Requests : req[s] \in Request
    BY DEF Types, RequestTypes
  <1>1. ASSUME UNCHANGED req PROVE \A s \in Requests : Steady(req[s], req'[s])
    BY <1>0, <1>1, SteadyUpdates
  <1>2. ASSUME NEW r \in Requests, NEW q, Steady(req[r], q),
               req' = [req EXCEPT ![r] = q]
        PROVE  \A s \in Requests : Steady(req[s], req'[s])
    BY <1>0, <1>2, OneUpdated
  <1>3. CASE \/ RunRelease \/ RunClient \/ TakeTasks \/ TestShouldSuspend
             \/ \E r \in Requests, how \in Result : TransferDone(r, how)
    BY <1>1, <1>3
       DEF RunRelease, RunClient, TakeTasks, TestShouldSuspend, TransferDone
  <1>4. CASE StartTransfer
    <2> PICK r \in Requests : r = Head(batch).r
      BY <1>0, <1>4, SetupFacts DEF StartTransfer
    <2>2. PICK accepted \in BOOLEAN :
            req' = [req EXCEPT ![r] = SuspendAtSetup(req[r], accepted)]
      BY <1>4 DEF StartTransfer
    <2>3. Steady(req[r], SuspendAtSetup(req[r], accepted))
      BY <1>0, SetupSteady
    <2> QED
      BY <1>2, <2>2, <2>3
  <1>5. CASE StartTransferFails
    <2> PICK r \in Requests : r = Head(batch).r
      BY <1>0, <1>5, SetupFacts DEF StartTransferFails
    <2>1. req' = [req EXCEPT ![r] = SuspendAtSetup(req[r], FALSE)]
      BY <1>5 DEF StartTransferFails
    <2>2. Steady(req[r], SuspendAtSetup(req[r], FALSE))
      BY <1>0, SetupSteady
    <2> QED
      BY <1>2, <2>1, <2>2
  <1>6. CASE PauseChange
    <2> PICK r \in Requests : r = Head(batch).r
      BY <1>0, <1>6, RunsFacts DEF PauseChange
    <2> DEFINE b == ShouldBePaused(req[r])
    <2>1. \/ UNCHANGED req
          \/ req' = [req EXCEPT ![r] = [req[r] EXCEPT !.m_isHandlePaused = b]]
      BY <1>6 DEF PauseChange
    <2>2. b \in BOOLEAN
      BY <1>0, FlagsAreBoolean
    <2> HIDE DEF b
    <2>3. Steady(req[r], [req[r] EXCEPT !.m_isHandlePaused = b])
      BY <1>0, <2>2, SteadyUpdates
    <2> QED
      BY <1>1, <1>2, <2>1, <2>3
  <1>7. ASSUME NEW r \in Requests,
               \/ UNCHANGED req
               \/ req' = [req EXCEPT ![r] = [req[r] EXCEPT !.m_multipartHandle = FALSE]]
        PROVE  \A s \in Requests : Steady(req[s], req'[s])
    <2>1. Steady(req[r], [req[r] EXCEPT !.m_multipartHandle = FALSE])
      BY <1>0, SteadyUpdates
    <2> QED
      BY <1>1, <1>2, <1>7, <2>1
  <1>8. CASE Finalize \/ RunDidCancel \/ RunDidComplete
    <2> PICK r \in Requests : r = Head(batch).r
      BY <1>0, <1>8, RunsFacts DEF Finalize, RunDidCancel, RunDidComplete
    <2>1. \/ UNCHANGED req
          \/ req' = [req EXCEPT ![r] = [req[r] EXCEPT !.m_multipartHandle = FALSE]]
      BY <1>8 DEF Finalize, RunDidCancel, RunDidComplete, DidCancelTransfer,
                  DidCompleteTransfer
    <2> QED
      BY <1>7, <2>1
  <1>9. CASE FinishNow
    <2> PICK r \in Requests : r = worker.r
      BY <1>0, <1>9, WorkerFacts DEF FinishNow
    <2>1. req' = [req EXCEPT ![r] = [req[r] EXCEPT !.m_multipartHandle = FALSE]]
      BY <1>9 DEF FinishNow
    <2> QED
      BY <1>7, <2>1
  <1>10. CASE PauseInCallback
    <2> PICK r \in Requests : r = worker.r
      BY <1>0, <1>10, WorkerFacts DEF PauseInCallback
    <2>1. req' = [req EXCEPT ![r] = [req[r] EXCEPT !.m_isHandlePaused = TRUE]]
      BY <1>10 DEF PauseInCallback
    <2>2. Steady(req[r], [req[r] EXCEPT !.m_isHandlePaused = TRUE])
      BY <1>0, SteadyUpdates
    <2> QED
      BY <1>2, <2>1, <2>2
  <1>11. ASSUME NEW r \in Requests, NEW paused \in BOOLEAN,
                SetRequestPaused(r, paused)
         PROVE  \A s \in Requests : Steady(req[s], req'[s])
    <2> DEFINE q == [req[r] EXCEPT !.m_shouldSuspend = paused,
                                   !.m_isPausedOfRequest = paused]
    <2>1. req' = [req EXCEPT ![r] = q]
      BY <1>11 DEF SetRequestPaused
    <2>2. Steady(req[r], q)
      BY <1>0, SteadyUpdates
    <2> QED
      BY <1>2, <2>1, <2>2
  <1>12. ASSUME NEW r \in Requests, CompleteDidReceiveResponse(r)
         PROVE  \A s \in Requests : Steady(req[s], req'[s])
    BY <1>0, <1>1, <1>2, <1>12, AnswerSteady
  <1> QED
    BY <1>3, <1>4, <1>5, <1>6, <1>8, <1>9, <1>10, <1>11, <1>12 DEF Unflagged

\* What each of the others does to the flags of the request it is about.
Cancelled(s) ==
    /\ CancelBegin(s)
    /\ SameNotify(req[s], req'[s]) /\ SameProgress(req[s], req'[s])
    /\ req'[s].m_cancelled /\ req'[s].m_client = req[s].m_client
Forgotten(s) ==
    /\ CancelEnd(s)
    /\ SameNotify(req[s], req'[s]) /\ SameProgress(req[s], req'[s])
    /\ ~req'[s].m_client /\ req'[s].m_cancelled = req[s].m_cancelled
Started(s) ==
    /\ Start(s)
    /\ SameCancel(req[s], req'[s]) /\ SameNotify(req[s], req'[s])
    /\ req'[s].started
    /\ req'[s].local = req[s].local /\ req'[s].m_completed = req[s].m_completed
Completed(s) ==
    /\ SetCompleted /\ worker.r = s
    /\ SameCancel(req[s], req'[s]) /\ SameNotify(req[s], req'[s])
    /\ req'[s].m_completed
    /\ req'[s].local = req[s].local /\ req'[s].started = req[s].started
Headed(s) ==
    /\ \E last, multipart \in BOOLEAN :
         /\ DidReceiveHeader(s, last, multipart)
         /\ ~IsCompletedOrCancelled(req[s])
         /\ req'[s].m_didReceiveResponse = last
    /\ SameCancel(req[s], req'[s]) /\ SameProgress(req[s], req'[s])
    /\ req'[s].m_didNotifyResponse = req[s].m_didNotifyResponse
    /\ req'[s].m_actionAfterInvoke = req[s].m_actionAfterInvoke
NotifiedOf(s, action) ==
    /\ SameCancel(req[s], req'[s]) /\ SameProgress(req[s], req'[s])
    /\ req'[s].m_didReceiveResponse = req[s].m_didReceiveResponse
    /\ req'[s].m_didNotifyResponse
    /\ req'[s].m_actionAfterInvoke = action
NotifyingStep(s) ==
    \/ RespondForFile /\ Head(batch).r = s /\ NotifiedOf(s, "StartTransfer")
    \/ FinishLater /\ worker.r = s /\ NotifiedOf(s, "FinishTransfer")
    \/ \E part \in BOOLEAN :
         /\ DidReceiveData(s, part) /\ ~IsCompletedOrCancelled(req[s])
         /\ NotifiedOf(s, "ReceiveData") \/ NotifiedOf(s, "None")

FlagEvent(s) ==
    \/ Steady(req[s], req'[s])
    \/ Cancelled(s) \/ Forgotten(s) \/ Started(s) \/ Completed(s)
    \/ Headed(s) \/ NotifyingStep(s)

\* The flags after a response was notified.
LEMMA NotifiedUpdates ==
    ASSUME NEW q \in Request, NEW action, NEW p,
           \/ p = Notified(q, action)
           \/ p = [Notified(q, action) EXCEPT !.m_isPausedOfCallback = TRUE]
           \/ \E x : p = [Notified(q, action) EXCEPT !.m_finishedResultCode = x]
    PROVE  /\ SameCancel(q, p) /\ SameProgress(q, p)
           /\ p.m_didReceiveResponse = q.m_didReceiveResponse
           /\ p.m_didNotifyResponse
           /\ p.m_actionAfterInvoke = action
  BY DEF SameCancel, SameProgress, Notified, Request

\* Two of the steps that do so.
LEMMA NotifyingSteps ==
    ASSUME Types
    PROVE  /\ RespondForFile => NotifiedOf(Head(batch).r, "StartTransfer")
           /\ FinishLater => NotifiedOf(worker.r, "FinishTransfer")
  <1>0. RequestTypes /\ QueueTypes /\ \A s \in Requests : req[s] \in Request
    BY DEF Types, RequestTypes
  <1>1. ASSUME RespondForFile PROVE NotifiedOf(Head(batch).r, "StartTransfer")
    <2> PICK r \in Requests : r = Head(batch).r
      BY <1>0, <1>1, RunsFacts DEF RespondForFile
    <2>1. req' = [req EXCEPT ![r] = Notified(req[r], "StartTransfer")]
      BY <1>1 DEF RespondForFile
    <2>2. req'[r] = Notified(req[r], "StartTransfer")
      BY <1>0, <2>1, OneUpdated
    <2> QED
      BY <1>0, <2>2, NotifiedUpdates DEF NotifiedOf
  <1>2. ASSUME FinishLater PROVE NotifiedOf(worker.r, "FinishTransfer")
    <2> PICK r \in Requests : r = worker.r
      BY <1>0, <1>2, WorkerFacts DEF FinishLater
    <2> DEFINE q == [Notified(req[r], "FinishTransfer") EXCEPT
                       !.m_finishedResultCode = worker.how]
    <2>1. req' = [req EXCEPT ![r] = q]
      BY <1>2 DEF FinishLater
    <2>2. req'[r] = q
      BY <1>0, <2>1, OneUpdated
    <2> QED
      BY <1>0, <2>2, NotifiedUpdates DEF NotifiedOf
  <1> QED
    BY <1>1, <1>2

\* Every step is one of these for every request.
LEMMA FlagEvents ==
    ASSUME Types, [Next]_vars PROVE \A s \in Requests : FlagEvent(s)
  <1>0. RequestTypes /\ QueueTypes /\ \A s \in Requests : req[s] \in Request
    BY DEF Types, RequestTypes
  <1>1. ASSUME UNCHANGED req PROVE \A s \in Requests : FlagEvent(s)
    BY <1>0, <1>1, SteadyUpdates DEF FlagEvent
  <1>2. ASSUME NEW r \in Requests, NEW q, req' = [req EXCEPT ![r] = q], FlagEvent(r)
        PROVE  \A s \in Requests : FlagEvent(s)
    BY <1>0, <1>2, OneUpdated DEF FlagEvent
  <1>3. CASE Unflagged
    BY <1>3, UnflaggedSteady DEF FlagEvent
  <1>4. CASE UNCHANGED vars
    BY <1>1, <1>4 DEF vars
  <1>5. ASSUME NEW r \in Requests, CancelBegin(r)
        PROVE  \A s \in Requests : FlagEvent(s)
    <2>1. req' = [req EXCEPT ![r] = [req[r] EXCEPT !.m_cancelled = TRUE]]
      BY <1>5 DEF CancelBegin
    <2>2. req'[r] = [req[r] EXCEPT !.m_cancelled = TRUE]
      BY <1>0, <2>1, OneUpdated
    <2>3. Cancelled(r)
      BY <1>0, <1>5, <2>2
         DEF Cancelled, SameNotify, SameProgress, Request
    <2> QED
      BY <1>2, <2>1, <2>3 DEF FlagEvent
  <1>6. CASE RunCancel
    <2>1. Head(mainQueue).r \in Requests
      BY <1>0, <1>6, TakesFacts DEF RunCancel
    <2> QED
      BY <1>1, <1>5, <1>6, <2>1 DEF RunCancel
  <1>7. ASSUME NEW r \in Requests, CancelEnd(r)
        PROVE  \A s \in Requests : FlagEvent(s)
    <2>1. req' = [req EXCEPT ![r] = [req[r] EXCEPT !.m_client = FALSE]]
      BY <1>7 DEF CancelEnd
    <2>2. req'[r] = [req[r] EXCEPT !.m_client = FALSE]
      BY <1>0, <2>1, OneUpdated
    <2>3. Forgotten(r)
      BY <1>0, <1>7, <2>2
         DEF Forgotten, SameNotify, SameProgress, Request
    <2> QED
      BY <1>2, <2>1, <2>3 DEF FlagEvent
  <1>8. ASSUME NEW r \in Requests, Start(r) PROVE \A s \in Requests : FlagEvent(s)
    <2>1. req' = [req EXCEPT ![r] = [req[r] EXCEPT !.started = TRUE]]
      BY <1>8 DEF Start
    <2>2. req'[r] = [req[r] EXCEPT !.started = TRUE]
      BY <1>0, <2>1, OneUpdated
    <2>3. Started(r)
      BY <1>0, <1>8, <2>2
         DEF Started, SameCancel, SameNotify, Request
    <2> QED
      BY <1>2, <2>1, <2>3 DEF FlagEvent
  <1>9. CASE SetCompleted
    <2> PICK r \in Requests : r = worker.r
      BY <1>0, <1>9, WorkerFacts DEF SetCompleted
    <2>1. req' = [req EXCEPT ![r] = [req[r] EXCEPT !.m_completed = TRUE]]
      BY <1>9 DEF SetCompleted
    <2>2. req'[r] = [req[r] EXCEPT !.m_completed = TRUE]
      BY <1>0, <2>1, OneUpdated
    <2>3. Completed(r)
      BY <1>0, <1>9, <2>2
         DEF Completed, SameCancel, SameNotify, Request
    <2> QED
      BY <1>2, <2>1, <2>3 DEF FlagEvent
  <1>10. ASSUME NEW r \in Requests, NEW last \in BOOLEAN, NEW multipart \in BOOLEAN,
                DidReceiveHeader(r, last, multipart)
         PROVE  \A s \in Requests : FlagEvent(s)
    <2>1. CASE IsCompletedOrCancelled(req[r])
      BY <1>1, <1>10, <2>1 DEF DidReceiveHeader, Abort
    <2>2. CASE ~IsCompletedOrCancelled(req[r])
      <3> DEFINE c == IF last \/ req[r].m_didReceiveResponse
                      THEN multipart ELSE req[r].m_multipartHandle
                 q == [req[r] EXCEPT !.m_didReceiveResponse = last,
                                     !.m_multipartHandle = c]
      <3>1. req' = [req EXCEPT ![r] = q]
        BY <1>10, <2>2 DEF DidReceiveHeader
      <3>2. c \in BOOLEAN
        BY <1>0, FlagsAreBoolean
      <3> HIDE DEF c
      <3>3. req'[r] = q
        BY <1>0, <3>1, OneUpdated
      <3>4. /\ SameCancel(req[r], q) /\ SameProgress(req[r], q)
            /\ q.m_didReceiveResponse = last
            /\ q.m_didNotifyResponse = req[r].m_didNotifyResponse
            /\ q.m_actionAfterInvoke = req[r].m_actionAfterInvoke
        BY <1>0, <3>2 DEF SameCancel, SameProgress, Request
      <3> HIDE DEF q
      <3>5. Headed(r)
        BY <1>10, <2>2, <3>3, <3>4 DEF Headed
      <3> QED
        BY <1>2, <3>1, <3>5 DEF FlagEvent
    <2> QED
      BY <2>1, <2>2
  <1>11. CASE RespondForFile
    <2> PICK r \in Requests : r = Head(batch).r
      BY <1>0, <1>11, RunsFacts DEF RespondForFile
    <2>1. req' = [req EXCEPT ![r] = Notified(req[r], "StartTransfer")]
      BY <1>11 DEF RespondForFile
    <2>3. NotifiedOf(r, "StartTransfer")
      BY <1>11, NotifyingSteps
    <2> QED
      BY <1>2, <1>11, <2>1, <2>3 DEF FlagEvent, NotifyingStep
  <1>12. CASE FinishLater
    <2> PICK r \in Requests : r = worker.r
      BY <1>0, <1>12, WorkerFacts DEF FinishLater
    <2> DEFINE q == [Notified(req[r], "FinishTransfer") EXCEPT
                       !.m_finishedResultCode = worker.how]
    <2>1. req' = [req EXCEPT ![r] = q]
      BY <1>12 DEF FinishLater
    <2>3. NotifiedOf(r, "FinishTransfer")
      BY <1>12, NotifyingSteps
    <2> QED
      BY <1>2, <1>12, <2>1, <2>3 DEF FlagEvent, NotifyingStep
  <1>13. ASSUME NEW r \in Requests, NEW part \in BOOLEAN, DidReceiveData(r, part)
         PROVE  \A s \in Requests : FlagEvent(s)
    <2> DEFINE q == [Notified(req[r], "ReceiveData") EXCEPT
                       !.m_isPausedOfCallback = TRUE]
    <2>1. \/ UNCHANGED req
          \/ /\ ~IsCompletedOrCancelled(req[r])
             /\ \/ req' = [req EXCEPT ![r] = q]
                \/ req' = [req EXCEPT ![r] = Notified(req[r], "None")]
          \/ req' = [req EXCEPT ![r] = req[r]]
      BY <1>13 DEF DidReceiveData, Abort
    <2>2. CASE req' = [req EXCEPT ![r] = q] /\ ~IsCompletedOrCancelled(req[r])
      <3>1. req'[r] = q
        BY <1>0, <2>2, OneUpdated
      <3>2. NotifiedOf(r, "ReceiveData")
        BY <1>0, <3>1, NotifiedUpdates DEF NotifiedOf
      <3> QED
        BY <1>2, <1>13, <2>2, <3>2 DEF FlagEvent, NotifyingStep
    <2>3. CASE /\ req' = [req EXCEPT ![r] = Notified(req[r], "None")]
               /\ ~IsCompletedOrCancelled(req[r])
      <3>1. req'[r] = Notified(req[r], "None")
        BY <1>0, <2>3, OneUpdated
      <3>2. NotifiedOf(r, "None")
        BY <1>0, <3>1, NotifiedUpdates DEF NotifiedOf
      <3> QED
        BY <1>2, <1>13, <2>3, <3>2 DEF FlagEvent, NotifyingStep
    <2>4. CASE req' = [req EXCEPT ![r] = req[r]]
      <3>1. UNCHANGED req
        BY <1>0, <2>4 DEF RequestTypes
      <3> QED
        BY <1>1, <3>1
    <2> QED
      BY <1>1, <2>1, <2>2, <2>3, <2>4
  <1>14. ASSUME NEW r \in Requests, Cancel(r) PROVE \A s \in Requests : FlagEvent(s)
    BY <1>5, <1>14 DEF Cancel
  <1> QED
    BY <1>3, <1>4, <1>6, <1>7, <1>8, <1>9, <1>10, <1>11, <1>12, <1>13, <1>14
       DEF Next, MainThread, RunTask, Owner, Perform, Unflagged

(***************************************************************************)
(* What a step does to the queue of tasks.                                 *)
(***************************************************************************)

\* The one queue after a task was queued, run, or both.
LEMMA QueueForms ==
    ASSUME QueueTypes
    PROVE  /\ UNCHANGED <<batch, m_taskQueue>> => Queue' = Queue
           /\ TakeTasks => Queue' = Queue
           /\ \A t \in Task :
                m_taskQueue' = Append(m_taskQueue, t) /\ UNCHANGED batch
                  => Queue' = Append(Queue, t)
           /\ \A do : Dequeues(do) =>
                /\ Queue # <<>> /\ Head(Queue) = Head(batch)
                /\ UNCHANGED m_taskQueue => Queue' = Tail(Queue)
                /\ \A t \in Task : m_taskQueue' = Append(m_taskQueue, t)
                     => Queue' = Append(Tail(Queue), t)
  <1>0. batch \in Seq(Task) /\ m_taskQueue \in Seq(Task)
    BY DEF QueueTypes
  <1>1. UNCHANGED <<batch, m_taskQueue>> => Queue' = Queue
    BY DEF Queue
  <1>2. TakeTasks => Queue' = Queue
    BY <1>0, ConcatEmptySeq DEF Queue, TakeTasks
  <1>3. ASSUME NEW t \in Task, m_taskQueue' = Append(m_taskQueue, t), UNCHANGED batch
        PROVE  Queue' = Append(Queue, t)
    BY <1>0, <1>3, ConcatAppend DEF Queue
  <1>4. ASSUME NEW do, Dequeues(do)
        PROVE  /\ Queue # <<>> /\ Head(Queue) = Head(batch)
               /\ UNCHANGED m_taskQueue => Queue' = Tail(Queue)
               /\ \A t \in Task : m_taskQueue' = Append(m_taskQueue, t)
                    => Queue' = Append(Tail(Queue), t)
    <2>1. /\ Tail(batch) \o m_taskQueue = Tail(Queue)
          /\ Head(Queue) = Head(batch) /\ Queue # <<>>
      BY <1>0, <1>4, ConcatTail DEF Queue, Dequeues
    <2>2. batch' = Tail(batch) /\ Tail(batch) \in Seq(Task)
      BY <1>4, DequeuesFacts
    <2>3. ASSUME NEW t \in Task, m_taskQueue' = Append(m_taskQueue, t)
          PROVE  Queue' = Append(Tail(Queue), t)
      <3>1. Tail(batch) \o Append(m_taskQueue, t)
              = Append(Tail(batch) \o m_taskQueue, t)
        BY <1>0, <2>2, ConcatAppend
      <3> QED
        BY <2>1, <2>2, <2>3, <3>1 DEF Queue
    <2>4. ASSUME UNCHANGED m_taskQueue PROVE Queue' = Tail(Queue)
      BY <2>1, <2>2, <2>4 DEF Queue
    <2> QED
      BY <2>1, <2>3, <2>4
  <1> QED
    BY <1>1, <1>2, <1>3, <1>4

\* Who queues which task.
NewTask(t) ==
    \/ t.do = "pauseChange"
    \/ Start(t.r) /\ t.do \in {"respondForFile", "startTransfer"}
         /\ (t.do = "startTransfer" => ~req[t.r].local)
    \/ /\ CompleteDidReceiveResponse(t.r) /\ ~IsCompletedOrCancelled(req[t.r])
       /\ \/ /\ t.do = "startTransfer"
             /\ req[t.r].m_actionAfterInvoke = "StartTransfer"
          \/ /\ t.do = "didComplete"
             /\ req[t.r].m_actionAfterInvoke = "FinishTransfer"
    \/ /\ CancelEnd(t.r)
       /\ \/ t.do = "didCancel" /\ NeedToInvokeDidCancelTransfer(req[t.r])
          \/ t.do = "finalize" /\ t.how = "cancel" /\ t.r \in m_activeJobs
    \/ \E how \in Result : /\ TransferDone(t.r, how) /\ t.do = "finalize"
                           /\ t.how = how
Refused(t) ==
    StartTransferFails /\ t.do = "finalize" /\ t.how = "error" /\ t.r = Head(batch).r

\* Every step leaves the queue as it is, queues a task, runs one, or finalizes
\* a transfer that could not be started.
TaskEvent ==
    \/ Queue' = Queue
    \/ \E t \in Task : NewTask(t) /\ Queue' = Append(Queue, t)
    \/ \E do : Dequeues(do) /\ Queue' = Tail(Queue)
    \/ \E t \in Task : Refused(t) /\ Queue' = Append(Tail(Queue), t)

\* The answer to a response in detail.
LEMMA AnswerTask ==
    ASSUME Types, NEW r \in Requests, CompleteDidReceiveResponse(r)
    PROVE  TaskEvent
  <1>0. RequestTypes /\ QueueTypes
    BY DEF Types
  <1>1. CASE IsCompletedOrCancelled(req[r])
    BY <1>0, <1>1, QueueForms DEF CompleteDidReceiveResponse, schedVars, TaskEvent
  <1>2. CASE ~IsCompletedOrCancelled(req[r])
    <2> DEFINE q == [req[r] EXCEPT !.m_didReturnFromNotify = TRUE]
    <2>1. req[r] \in Request
      BY <1>0 DEF RequestTypes
    <2>2. AfterInvoke(r, q)
      BY <1>2 DEF CompleteDidReceiveResponse
    <2>3. /\ q.m_actionAfterInvoke = req[r].m_actionAfterInvoke
          /\ q.m_finishedResultCode \in Result
          /\ q.m_actionAfterInvoke \in Action
      BY <2>1 DEF Request
    <2> HIDE DEF q
    <2>4. ASSUME NEW t \in Task, NewTask(t), CallOnWorkerThread(t) PROVE TaskEvent
      BY <1>0, <2>4, QueueForms DEF CallOnWorkerThread, TaskEvent
    <2>5. ASSUME UNCHANGED schedVars PROVE TaskEvent
      BY <1>0, <2>5, QueueForms DEF schedVars, TaskEvent
    <2>6. CASE q.m_actionAfterInvoke = "ReceiveData"
      <3>1. \/ UNCHANGED schedVars
            \/ CallOnWorkerThread([do |-> "pauseChange", r |-> r])
        BY <2>2, <2>6 DEF AfterInvoke, PausedStatusChanged
      <3>2. NewTask([do |-> "pauseChange", r |-> r])
        BY DEF NewTask
      <3> QED
        BY <2>4, <2>5, <3>1, <3>2, NewTasks
    <2>7. CASE q.m_actionAfterInvoke = "StartTransfer"
      <3> DEFINE t == [do |-> "startTransfer", r |-> r]
      <3>1. m_taskQueue' = Append(m_taskQueue, t) /\ UNCHANGED batch
        BY <2>2, <2>7 DEF AfterInvoke, Add
      <3>2. t \in Task /\ NewTask(t)
        BY <1>2, <2>3, <2>7, NewTasks DEF NewTask
      <3> QED
        BY <1>0, <3>1, <3>2, QueueForms DEF TaskEvent
    <2>8. CASE q.m_actionAfterInvoke = "FinishTransfer"
      <3> DEFINE t == [do |-> "didComplete", r |-> r, how |-> q.m_finishedResultCode]
      <3>1. CallOnWorkerThread(t)
        BY <2>2, <2>8 DEF AfterInvoke
      <3>2. t \in Task /\ NewTask(t)
        BY <1>2, <2>3, <2>8, NewTasks DEF NewTask
      <3> QED
        BY <2>4, <3>1, <3>2
    <2>9. CASE q.m_actionAfterInvoke = "None"
      BY <2>2, <2>5, <2>9 DEF AfterInvoke
    <2> QED
      BY <2>3, <2>6, <2>7, <2>8, <2>9 DEF Action
  <1> QED
    BY <1>1, <1>2

\* Every step is one of these.
LEMMA TaskEvents ==
    ASSUME Types, LifeInv, [Next]_vars PROVE TaskEvent
  <1>0. QueueTypes /\ RequestTypes
    BY DEF Types
  <1>1. ASSUME UNCHANGED <<batch, m_taskQueue>> PROVE TaskEvent
    BY <1>0, <1>1, QueueForms DEF TaskEvent
  <1>2. ASSUME NEW do, Dequeues(do), UNCHANGED m_taskQueue PROVE TaskEvent
    BY <1>0, <1>2, QueueForms DEF TaskEvent
  <1>3. ASSUME NEW t \in Task, NewTask(t), m_taskQueue' = Append(m_taskQueue, t),
               UNCHANGED batch
        PROVE  TaskEvent
    BY <1>0, <1>3, QueueForms DEF TaskEvent
  <1> USE DEF schedVars
  <1>4. CASE UNCHANGED vars
    BY <1>1, <1>4 DEF vars
  <1>5. CASE \/ RunRelease \/ RunClient \/ RunCancel \/ FinishLater \/ FinishNow
             \/ SetCompleted \/ PauseInCallback \/ TestShouldSuspend
    BY <1>1, <1>5 DEF RunRelease, RunClient, RunCancel, FinishLater, FinishNow,
                      SetCompleted, PauseInCallback, TestShouldSuspend
  <1>6. CASE TakeTasks
    BY <1>0, <1>6, QueueForms DEF TaskEvent
  <1>7. CASE \/ RespondForFile \/ StartTransfer \/ PauseChange
             \/ Finalize \/ RunDidCancel \/ RunDidComplete
    BY <1>2, <1>7 DEF RespondForFile, StartTransfer, SetupTransfer, PauseChange,
                      Finalize, RunDidCancel, RunDidComplete, Runs
  <1>8. CASE StartTransferFails
    <2> PICK r \in Requests : r = Head(batch).r
      BY <1>0, <1>8, SetupFacts DEF StartTransferFails
    <2> DEFINE t == [do |-> "finalize", r |-> r, how |-> "error"]
    <2>1. Dequeues("startTransfer") /\ FinalizeTransfer(r, "error")
      BY <1>8 DEF StartTransferFails, SetupTransfer
    <2>2. t \in Task /\ Refused(t)
      BY <1>8, NewTasks DEF Refused, Result
    <2>3. m_taskQueue' \in {Append(m_taskQueue, t), m_taskQueue}
      BY <2>1 DEF FinalizeTransfer
    <2> HIDE DEF t
    <2> QED
      BY <1>0, <1>2, <2>1, <2>2, <2>3, QueueForms DEF TaskEvent
  <1>9. ASSUME NEW r \in Requests, Start(r) PROVE TaskEvent
    <2>1. CASE req[r].local
      <3> DEFINE t == [do |-> "respondForFile", r |-> r]
      <3>1. m_taskQueue' = Append(m_taskQueue, t) /\ UNCHANGED batch
        BY <1>9, <2>1 DEF Start, CallOnWorkerThread
      <3>2. t \in Task /\ NewTask(t)
        BY <1>9, NewTasks DEF NewTask
      <3> QED
        BY <1>3, <3>1, <3>2
    <2>2. CASE ~req[r].local
      <3> DEFINE t == [do |-> "startTransfer", r |-> r]
      <3>1. m_taskQueue' = Append(m_taskQueue, t) /\ UNCHANGED batch
        BY <1>9, <2>2 DEF Start, Add
      <3>2. t \in Task /\ NewTask(t)
        BY <1>9, <2>2, NewTasks DEF NewTask
      <3> QED
        BY <1>3, <3>1, <3>2
    <2> QED
      BY <2>1, <2>2
  <1>10. ASSUME NEW r \in Requests, NEW paused \in BOOLEAN, SetRequestPaused(r, paused)
         PROVE  TaskEvent
    <2> DEFINE t == [do |-> "pauseChange", r |-> r]
    <2>1. UNCHANGED schedVars \/ CallOnWorkerThread(t)
      BY <1>10 DEF SetRequestPaused, PausedStatusChanged
    <2>2. t \in Task /\ NewTask(t)
      BY NewTasks DEF NewTask
    <2> HIDE DEF t
    <2> QED
      BY <1>1, <1>3, <2>1, <2>2 DEF CallOnWorkerThread
  <1>11. ASSUME NEW r \in Requests, CancelEnd(r) PROVE TaskEvent
    <2>1. CASE NeedToInvokeDidCancelTransfer(req[r])
      <3> DEFINE t == [do |-> "didCancel", r |-> r]
      <3>1. CallOnWorkerThread(t)
        BY <1>11, <2>1 DEF CancelEnd
      <3>2. t \in Task /\ NewTask(t)
        BY <1>11, <2>1, NewTasks DEF NewTask
      <3> HIDE DEF t
      <3> QED
        BY <1>3, <3>1, <3>2 DEF CallOnWorkerThread
    <2>2. CASE ~NeedToInvokeDidCancelTransfer(req[r])
      <3> DEFINE t == [do |-> "finalize", r |-> r, how |-> "cancel"]
      <3>1. /\ UNCHANGED batch
            /\ m_taskQueue' = IF r \in m_activeJobs THEN Append(m_taskQueue, t)
                              ELSE m_taskQueue
        BY <1>11, <2>2 DEF CancelEnd, FinalizeTransfer
      <3>2. t \in Task /\ (r \in m_activeJobs => NewTask(t))
        BY <1>11, NewTasks DEF NewTask
      <3> HIDE DEF t
      <3> QED
        BY <1>1, <1>3, <3>1, <3>2
    <2> QED
      BY <2>1, <2>2
  <1>12. ASSUME NEW r \in Requests, NEW how \in Result, TransferDone(r, how)
         PROVE  TaskEvent
    <2> DEFINE t == [do |-> "finalize", r |-> r, how |-> how]
    <2>1. FinalizeTransfer(r, how) /\ UNCHANGED batch
      BY <1>12 DEF TransferDone, Performs, LifeInv, Life, InCurl
    <2>2. t \in Task /\ NewTask(t)
      BY <1>12, NewTasks DEF NewTask
    <2>3. m_taskQueue' \in {Append(m_taskQueue, t), m_taskQueue}
      BY <2>1 DEF FinalizeTransfer
    <2> HIDE DEF t
    <2> QED
      BY <1>1, <1>3, <2>1, <2>2, <2>3
  <1>13. ASSUME NEW r \in Requests,
                \/ Cancel(r)
                \/ \E last, multipart \in BOOLEAN : DidReceiveHeader(r, last, multipart)
                \/ \E part \in BOOLEAN : DidReceiveData(r, part)
         PROVE  TaskEvent
    BY <1>1, <1>13 DEF Cancel, DidReceiveHeader, DidReceiveData
  <1> QED
    BY <1>4, <1>5, <1>6, <1>7, <1>8, <1>9, <1>10, <1>11, <1>12, <1>13, AnswerTask
       DEF Next, MainThread, RunTask, Owner, Perform

\* What is queued after a step was queued before or is the new task.
LEMMA TasksAfter ==
    ASSUME Types, Types', TaskEvent
    PROVE  \A t \in Tasks' : t \in Tasks \/ NewTask(t) \/ Refused(t)
  <1>0. /\ QueueTypes /\ QueueTypes' /\ Queue \in Seq(Task)
        /\ Tasks = Range(Queue) /\ Tasks' = Range(Queue')
    BY QueueIsTasks, QueueIsTasksAfter DEF Types
  <1>1. \A q \in Seq(Task) : \A t \in Task : Range(Append(q, t)) = Range(q) \cup {t}
    BY RangeAppend
  <1>2. Queue # <<>> => Range(Queue) = Range(Tail(Queue)) \cup {Head(Queue)}
    BY <1>0, RangeTail
  <1>3. Queue # <<>> => Tail(Queue) \in Seq(Task)
    BY <1>0, HeadTailProperties
  <1>4. CASE Queue' = Queue
    BY <1>0, <1>4
  <1>5. ASSUME NEW t \in Task, NewTask(t), Queue' = Append(Queue, t)
        PROVE  \A u \in Tasks' : u \in Tasks \/ NewTask(u)
    <2>1. Tasks' = Tasks \cup {t}
      BY <1>0, <1>1, <1>5
    <2> QED
      BY <1>5, <2>1
  <1>6. ASSUME NEW do, Dequeues(do), Queue' = Tail(Queue)
        PROVE  Tasks' \subseteq Tasks
    BY <1>0, <1>2, <1>6, QueueForms
  <1>7. ASSUME NEW t \in Task, Refused(t), Queue' = Append(Tail(Queue), t)
        PROVE  \A u \in Tasks' : u \in Tasks \/ Refused(u)
    <2>1. Queue # <<>>
      BY <1>0, <1>7, QueueForms DEF Refused, StartTransferFails, SetupTransfer
    <2>2. Tasks' = Range(Tail(Queue)) \cup {t}
      BY <1>0, <1>1, <1>3, <1>7, <2>1
    <2> QED
      BY <1>0, <1>2, <1>7, <2>1, <2>2
  <1> QED
    BY <1>4, <1>5, <1>6, <1>7 DEF TaskEvent

\* didComplete tasks of a request.
CompletesOf(r) == {t \in Task : t.do = "didComplete" /\ t.r = r}
Completes(r) == Hits(Queue, CompletesOf(r))

\* Their number says whether there is one.
LEMMA CompletesType ==
    /\ Types => \A r \in Requests :
         Completes(r) \in Nat /\ (Queued("didComplete", r) <=> Completes(r) # 0)
    /\ Types' => \A r \in Requests :
         Completes(r)' \in Nat /\ (Queued("didComplete", r)' <=> Completes(r)' # 0)
  <1>1. ASSUME NEW q \in Seq(Task), NEW r \in Requests
        PROVE  /\ Hits(q, CompletesOf(r)) \in Nat
               /\ Hits(q, CompletesOf(r)) # 0 <=>
                    \E t \in Range(q) : t.do = "didComplete" /\ t.r = r
    <2>1. /\ Hits(q, CompletesOf(r)) \in Nat
          /\ Hits(q, CompletesOf(r)) = 0 <=>
               \A i \in DOMAIN q : q[i] \notin CompletesOf(r)
      BY HitsType
    <2>2. \A i \in DOMAIN q : q[i] \in Task
      BY LenProperties, ElementOfSeq
    <2>3. \A i \in DOMAIN q :
            q[i] \in CompletesOf(r) <=> q[i].do = "didComplete" /\ q[i].r = r
      BY <2>2 DEF CompletesOf
    <2> QED
      BY <2>1, <2>3 DEF Range
  <1>2. ASSUME Types, NEW r \in Requests
        PROVE  Completes(r) \in Nat /\ (Queued("didComplete", r) <=> Completes(r) # 0)
    <2>1. Queue \in Seq(Task) /\ Tasks = Range(Queue)
      BY <1>2, QueueIsTasks DEF Types
    <2> QED
      BY <1>1, <2>1 DEF Queued, Completes
  <1>3. ASSUME Types', NEW r \in Requests
        PROVE  /\ Completes(r)' \in Nat
               /\ Queued("didComplete", r)' <=> Completes(r)' # 0
    <2>1. Queue' \in Seq(Task) /\ Tasks' = Range(Queue')
      BY <1>3, QueueIsTasksAfter DEF Types
    <2>2. Completes(r)' = Hits(Queue', CompletesOf(r))
      BY DEF Completes, CompletesOf
    <2>3. Queued("didComplete", r)'
            <=> \E t \in Range(Queue') : t.do = "didComplete" /\ t.r = r
      BY <2>1 DEF Queued
    <2> QED
      BY <1>1, <2>1, <2>2, <2>3
  <1> QED
    BY <1>2, <1>3

\* How a step changes that number.
LEMMA CompletesAfter ==
    ASSUME Types, TaskEvent, NEW s \in Requests
    PROVE  \/ Completes(s)' = Completes(s)
           \/ /\ Completes(s)' = Completes(s) + 1
              /\ CompleteDidReceiveResponse(s)
              /\ ~IsCompletedOrCancelled(req[s])
              /\ req[s].m_actionAfterInvoke = "FinishTransfer"
           \/ /\ Completes(s)' = Completes(s) - 1
              /\ Dequeues("didComplete") /\ Head(batch).r = s
  <1> DEFINE S == CompletesOf(s)
  <1>0. QueueTypes /\ Queue \in Seq(Task) /\ Completes(s) \in Nat
    BY QueueIsTasks, CompletesType DEF Types
  <1>1. Completes(s)' = Hits(Queue', S) /\ Completes(s) = Hits(Queue, S)
    BY DEF Completes, CompletesOf
  <1>2. \A t \in Task : t \in S <=> t.do = "didComplete" /\ t.r = s
    BY DEF CompletesOf
  <1> HIDE DEF S
  <1>3. \A q \in Seq(Task) : \A t \in Task :
          Hits(Append(q, t), S) = Hits(q, S) + IF t \in S THEN 1 ELSE 0
    BY HitsAppend
  <1>4. Queue # <<>> =>
          Hits(Tail(Queue), S) = Hits(Queue, S) - IF Head(Queue) \in S THEN 1 ELSE 0
    BY <1>0, HitsTail
  <1>5. CASE Queue' = Queue
    BY <1>1, <1>5
  <1>6. ASSUME NEW t \in Task, NewTask(t), Queue' = Append(Queue, t)
        PROVE  \/ Completes(s)' = Completes(s)
               \/ /\ Completes(s)' = Completes(s) + 1
                  /\ CompleteDidReceiveResponse(s)
                  /\ ~IsCompletedOrCancelled(req[s])
                  /\ req[s].m_actionAfterInvoke = "FinishTransfer"
    <2>1. Completes(s)' = Completes(s) + IF t \in S THEN 1 ELSE 0
      BY <1>0, <1>1, <1>3, <1>6
    <2>2. CASE t \in S
      <3>1. t.do = "didComplete" /\ t.r = s
        BY <1>2, <2>2
      <3>2. /\ CompleteDidReceiveResponse(s) /\ ~IsCompletedOrCancelled(req[s])
            /\ req[s].m_actionAfterInvoke = "FinishTransfer"
        BY <1>6, <3>1 DEF NewTask
      <3> QED
        BY <2>1, <2>2, <3>2
    <2>3. CASE t \notin S
      BY <1>0, <2>1, <2>3
    <2> QED
      BY <2>2, <2>3
  <1>7. ASSUME NEW do, Dequeues(do), Queue' = Tail(Queue)
        PROVE  \/ Completes(s)' = Completes(s)
               \/ /\ Completes(s)' = Completes(s) - 1
                  /\ Dequeues("didComplete") /\ Head(batch).r = s
    <2>1. Queue # <<>> /\ Head(Queue) = Head(batch)
      BY <1>0, <1>7, QueueForms
    <2>2. Head(batch) \in Task /\ Head(batch).do = do
      BY <1>0, <1>7, DequeuesFacts
    <2>3. Completes(s)' = Completes(s) - IF Head(batch) \in S THEN 1 ELSE 0
      BY <1>1, <1>4, <1>7, <2>1
    <2> QED
      BY <1>0, <1>2, <1>7, <2>2, <2>3
  <1>8. ASSUME NEW t \in Task, Refused(t), Queue' = Append(Tail(Queue), t)
        PROVE  Completes(s)' = Completes(s)
    <2>1. Dequeues("startTransfer") /\ t.do = "finalize"
      BY <1>8 DEF Refused, StartTransferFails, SetupTransfer
    <2>2. /\ Queue # <<>> /\ Head(Queue) \in Task /\ Tail(Queue) \in Seq(Task)
          /\ Head(Queue).do = "startTransfer"
      BY <1>0, <2>1, QueueForms, DequeuesFacts, HeadTailProperties
    <2>3. t \notin S /\ Head(Queue) \notin S
      BY <1>2, <2>1, <2>2
    <2>4. Hits(Tail(Queue), S) = Completes(s)
      BY <1>0, <1>1, <1>4, <2>2, <2>3
    <2>5. Hits(Queue', S) = Hits(Tail(Queue), S) + IF t \in S THEN 1 ELSE 0
      BY <1>3, <1>8, <2>2
    <2> QED
      BY <1>0, <1>1, <2>3, <2>4, <2>5
  <1> QED
    BY <1>5, <1>6, <1>7, <1>8 DEF TaskEvent

\* Running one takes it away.
LEMMA CompletesRun ==
    ASSUME Types, RunDidComplete, NEW s \in Requests
    PROVE  Completes(s)' = Completes(s) - IF Head(batch).r = s THEN 1 ELSE 0
  <1>0. /\ QueueTypes /\ Queue \in Seq(Task) /\ Completes(s) \in Nat
        /\ Dequeues("didComplete") /\ UNCHANGED m_taskQueue
    BY QueueIsTasks, CompletesType DEF Types, RunDidComplete, Runs
  <1>1. /\ Queue' = Tail(Queue) /\ Queue # <<>> /\ Head(Queue) = Head(batch)
        /\ Head(batch) \in Task /\ Head(batch).do = "didComplete"
    BY <1>0, QueueForms, DequeuesFacts
  <1>2. Completes(s)' = Hits(Queue', CompletesOf(s))
    BY DEF Completes, CompletesOf
  <1>3. Head(batch) \in CompletesOf(s) <=> Head(batch).r = s
    BY <1>1 DEF CompletesOf
  <1> QED
    BY <1>0, <1>1, <1>2, <1>3, HitsTail DEF Completes

(***************************************************************************)
(* cancel().                                                               *)
(***************************************************************************)

\* A request is cancelled from the moment the main thread is in cancel(), and
\* has no client after it; nothing is cancelled otherwise.
Cancels(r) ==
    /\ r \in main => req[r].m_cancelled
    /\ ~req[r].m_client => req[r].m_cancelled
    /\ req[r].m_cancelled => r \in main \/ ~req[r].m_client
    /\ \A t \in Tasks :
         t.r = r /\ (t.do = "didCancel" \/ (t.do = "finalize" /\ t.how = "cancel"))
           => req[r].m_cancelled

CancelInv == \A r \in Requests : Cancels(r)

\* The main thread is in one cancel() at a time.
LEMMA MainEvents ==
    ASSUME [Next]_vars, NEW s \in Requests
    PROVE  \/ CancelBegin(s) \/ CancelEnd(s)
           \/ s \in main' <=> s \in main
  <1>1. ASSUME NEW r, CancelBegin(r) \/ CancelEnd(r)
        PROVE  \/ CancelBegin(s) \/ CancelEnd(s)
               \/ s \in main' <=> s \in main
    <2>1. CASE r = s
      BY <1>1, <2>1
    <2>2. CASE r # s
      BY <1>1, <2>2 DEF CancelBegin, CancelEnd
    <2> QED
      BY <2>1, <2>2
  <1>2. CASE UNCHANGED main
    BY <1>2
  <1>3. CASE RunCancel
    BY <1>1, <1>2, <1>3 DEF RunCancel
  <1>4. \/ UNCHANGED main \/ RunCancel
        \/ \E r \in Requests : Cancel(r) \/ CancelEnd(r)
    BY DEF Next, MainThread, RunTask, Owner, Perform, vars, RunRelease, RunClient,
           TakeTasks, RespondForFile, TestShouldSuspend, StartTransfer,
           StartTransferFails, PauseChange, Finalize, RunDidCancel, RunDidComplete,
           FinishLater, FinishNow,
           SetCompleted, PauseInCallback, Start, SetRequestPaused,
           CompleteDidReceiveResponse, DidReceiveHeader, DidReceiveData, TransferDone
  <1> QED
    BY <1>1, <1>2, <1>3, <1>4 DEF Cancel

\* That is inductive.
LEMMA CancelStep ==
    ASSUME Types, Types', LifeInv, CancelInv, [Next]_vars PROVE CancelInv'
  <1> SUFFICES ASSUME NEW s \in Requests PROVE Cancels(s)'
    BY DEF CancelInv
  <1>0. /\ Cancels(s) /\ FlagEvent(s) /\ TaskEvent
        /\ req[s] \in Request /\ req'[s] \in Request
    BY FlagEvents, TaskEvents DEF CancelInv, Types, RequestTypes
  <1>1. \A t \in Tasks' : t \in Tasks \/ NewTask(t) \/ Refused(t)
    BY <1>0, TasksAfter
  <1>2. /\ req[s].m_client \in BOOLEAN /\ req[s].m_cancelled \in BOOLEAN
        /\ req'[s].m_client \in BOOLEAN /\ req'[s].m_cancelled \in BOOLEAN
    BY <1>0 DEF Request
  <1>3. CASE Cancelled(s)
    <2>1. req'[s].m_cancelled /\ s \in main'
      BY <1>3 DEF Cancelled, CancelBegin
    <2> QED
      BY <2>1 DEF Cancels
  <1>4. CASE Forgotten(s)
    <2>1. /\ req'[s].m_cancelled = req[s].m_cancelled /\ ~req'[s].m_client
          /\ s \in main /\ s \notin main'
      BY <1>4 DEF Forgotten, CancelEnd
    <2>2. req'[s].m_cancelled
      BY <1>0, <2>1 DEF Cancels
    <2> QED
      BY <2>1, <2>2 DEF Cancels
  <1>5. CASE SameCancel(req[s], req'[s])
    <2>1. ~CancelBegin(s)
      <3>1. CancelBegin(s) => ~req[s].m_cancelled
        BY DEF CancelBegin
      <3>2. CancelBegin(s) => req'[s].m_cancelled
        BY <1>0 DEF CancelBegin, Types, RequestTypes, Request
      <3> QED
        BY <1>5, <3>1, <3>2 DEF SameCancel
    <2>2. CASE CancelEnd(s)
      <3>1. s \in main /\ s \notin main' /\ ~req'[s].m_client
        BY <1>0, <2>2 DEF CancelEnd, Types, RequestTypes, Request
      <3>2. req'[s].m_cancelled
        BY <1>0, <1>5, <3>1 DEF Cancels, SameCancel
      <3> QED
        BY <3>1, <3>2 DEF Cancels
    <2>3. CASE ~CancelEnd(s)
      <3>1. s \in main' <=> s \in main
        BY <2>1, <2>3, MainEvents
      <3>2. ASSUME NEW t \in Tasks', t.r = s,
                   t.do = "didCancel" \/ (t.do = "finalize" /\ t.how = "cancel")
            PROVE  req'[s].m_cancelled
        <4>1. t \in Tasks
          BY <1>1, <2>3, <3>2 DEF NewTask, Refused, Result
        <4> QED
          BY <1>0, <1>5, <3>2, <4>1 DEF Cancels, SameCancel
      <3> QED
        BY <1>0, <1>2, <1>5, <3>1, <3>2 DEF Cancels, SameCancel
    <2> QED
      BY <2>2, <2>3
  <1>6. \/ Cancelled(s) \/ Forgotten(s) \/ SameCancel(req[s], req'[s])
    BY <1>0 DEF FlagEvent, Steady, Started, Completed, Headed, NotifyingStep, NotifiedOf
  <1> QED
    BY <1>3, <1>4, <1>5, <1>6

(***************************************************************************)
(* What a step posts for the client of a request.                          *)
(***************************************************************************)

\* A function that is not for the client of s.
Foreign(s, t) == t \in MainTask /\ ~(t.do = "client" /\ t.r = s)

\* Nothing for it is posted or run,
Silent(s) ==
    \/ UNCHANGED mainQueue
    \/ \E do : Takes(do) /\ Foreign(s, Head(mainQueue))
    \/ \E t : Foreign(s, t) /\ mainQueue' = Append(mainQueue, t)
    \/ \E t, u : /\ Foreign(s, t) /\ Foreign(s, u)
                 /\ mainQueue' = Append(Append(mainQueue, t), u)
\* one event is posted,
Says(s, e) ==
    \/ mainQueue' = Append(mainQueue, Client(s, e))
    \/ \E t : /\ Foreign(s, t)
              /\ mainQueue' = Append(Append(mainQueue, Client(s, e)), t)
\* or a response and a piece of the body.
Piece(n) == [is |-> "data", n |-> n]
SaysPart(s, n) ==
    mainQueue' = Append(Append(mainQueue, Response(s)), Client(s, Piece(n)))

\* Who posts what.
ResponseOf(s) ==
    /\ \/ RespondForFile /\ Head(batch).r = s /\ NotifiedOf(s, "StartTransfer")
       \/ FinishLater /\ worker.r = s /\ NotifiedOf(s, "FinishTransfer")
       \/ \E part \in BOOLEAN :
            /\ DidReceiveData(s, part) /\ ~IsCompletedOrCancelled(req[s])
            /\ UNCHANGED curl /\ NotifiedOf(s, "ReceiveData")
    /\ Says(s, [is |-> "response"])
EndOf(s) ==
    /\ FinishNow /\ worker.r = s
    /\ Says(s, [is |-> IF worker.how = "ok" THEN "complete" ELSE "fail"])
DataOf(s) ==
    \E part \in BOOLEAN :
      /\ DidReceiveData(s, part) /\ ~IsCompletedOrCancelled(req[s])
      /\ ~NeedToInvokeDidReceiveResponse(req[s])
      /\ curl'[s].sent = curl[s].sent + 1
      /\ \/ Says(s, Piece(curl[s].sent + 1)) /\ UNCHANGED req
         \/ SaysPart(s, curl[s].sent + 1) /\ NotifiedOf(s, "None")
PostEvent(s) ==
    \/ Silent(s)
    \/ RunClient /\ Head(mainQueue).r = s
    \/ Says(s, [is |-> "cancel"]) /\ req[s].m_cancelled
    \/ ResponseOf(s) \/ EndOf(s) \/ DataOf(s)

\* Functions of another request or another kind.
LEMMA ForeignTasks ==
    ASSUME NEW s \in Requests, NEW r \in Requests
    PROVE  /\ Foreign(s, Release(r)) /\ Foreign(s, [do |-> "cancel", r |-> r])
           /\ r # s => \A e \in Event : Foreign(s, Client(r, e))
           /\ r # s => Foreign(s, Response(r))
  <1>1. /\ Release(r) \in MainTask /\ [do |-> "cancel", r |-> r] \in MainTask
        /\ \A e \in Event : Client(r, e) \in MainTask
        /\ [is |-> "response"] \in Event
    BY NewMainTasks, NewEvents
  <1>2. /\ Release(r).do # "client" /\ [do |-> "cancel", r |-> r].do # "client"
        /\ \A e : Client(r, e).r = r
    BY DEF Release, Client
  <1> QED
    BY <1>1, <1>2 DEF Foreign, Response

\* The end of a transfer that was cancelled.
LEMMA CancelPosts ==
    ASSUME Types, NEW r \in Requests, req[r].m_cancelled, NEW s \in Requests,
           DidCancelTransfer(r, TRUE) \/ DidCancelTransfer(r, FALSE)
    PROVE  PostEvent(s)
  <1> DEFINE c == Client(r, [is |-> "cancel"])
  <1>0. mainQueue \in Seq(MainTask)
    BY DEF Types, QueueTypes
  <1>1. Append(mainQueue, c) \in Seq(MainTask)
    BY <1>0, NewMainTasks, NewEvents, AppendProperties
  <1>2. \/ mainQueue' = Append(mainQueue, c) \o ReleaseIf(TRUE, r)
        \/ mainQueue' = Append(mainQueue, c) \o ReleaseIf(FALSE, r)
    BY DEF DidCancelTransfer
  <1>3. \/ mainQueue' = Append(Append(mainQueue, c), Release(r))
        \/ mainQueue' = Append(mainQueue, c)
    BY <1>1, <1>2, ReleasePosted
  <1>4. CASE r = s
    <2>1. Says(s, [is |-> "cancel"])
      BY <1>3, <1>4, ForeignTasks DEF Says
    <2> QED
      BY <1>4, <2>1 DEF PostEvent
  <1>5. CASE r # s
    <2>1. Foreign(s, c) /\ Foreign(s, Release(r))
      BY <1>5, ForeignTasks, NewEvents
    <2> HIDE DEF c
    <2> QED
      BY <1>3, <2>1 DEF PostEvent, Silent
  <1> QED
    BY <1>4, <1>5

\* A piece of the body, and the response before it.
LEMMA DataPosts ==
    ASSUME Types, NEW r \in Requests, NEW part \in BOOLEAN, NEW s \in Requests,
           DidReceiveData(r, part)
    PROVE  /\ PostEvent(s)
           /\ r = s /\ curl'[s].sent # curl[s].sent => DataOf(s)
           /\ r = s /\ ~IsCompletedOrCancelled(req[s]) => ResponseOf(s) \/ DataOf(s)
  <1> DEFINE e == Piece(curl[r].sent + 1)
             c == Client(r, e)
             q == [Notified(req[r], "ReceiveData") EXCEPT !.m_isPausedOfCallback = TRUE]
  <1>0. /\ mainQueue \in Seq(MainTask) /\ RequestTypes /\ req[r] \in Request
        /\ curl \in [Requests -> Transfer] /\ curl[r] \in Transfer
    BY DEF Types, QueueTypes, RequestTypes, TransferTypes
  <1>1. e \in Event
    <2>1. curl[r].sent + 1 \in 1 .. MaxChunks
      BY <1>0, BoundsAssumption DEF DidReceiveData, Transfer
    <2> QED
      BY <2>1, NewEvents DEF Piece
  <1>2. \/ /\ UNCHANGED mainQueue /\ curl'[r].sent = curl[r].sent
           /\ IsCompletedOrCancelled(req[r])
        \/ /\ mainQueue' = Append(mainQueue, Response(r))
           /\ ~IsCompletedOrCancelled(req[r]) /\ UNCHANGED curl
           /\ req' = [req EXCEPT ![r] = q]
        \/ /\ ~IsCompletedOrCancelled(req[r])
           /\ ~NeedToInvokeDidReceiveResponse(req[r])
           /\ curl' = [curl EXCEPT ![r].sent = @ + 1]
           /\ \/ /\ mainQueue' = Append(mainQueue, c)
                 /\ req' = [req EXCEPT ![r] = req[r]]
              \/ /\ mainQueue' = Append(Append(mainQueue, Response(r)), c)
                 /\ req' = [req EXCEPT ![r] = Notified(req[r], "None")]
    <2>1. CASE IsCompletedOrCancelled(req[r])
      <3>1. UNCHANGED mainQueue /\ curl' = [curl EXCEPT ![r].aborted = TRUE]
        BY <2>1 DEF DidReceiveData, Abort
      <3> QED
        BY <1>0, <2>1, <3>1 DEF Transfer
    <2>2. CASE /\ ~IsCompletedOrCancelled(req[r])
               /\ NeedToInvokeDidReceiveResponse(req[r])
      BY <2>2 DEF DidReceiveData, PostResponse, Response
    <2>3. CASE /\ ~IsCompletedOrCancelled(req[r])
               /\ ~NeedToInvokeDidReceiveResponse(req[r]) /\ part
      BY <2>3 DEF DidReceiveData, PostResponse, Response, Piece
    <2>4. CASE /\ ~IsCompletedOrCancelled(req[r])
               /\ ~NeedToInvokeDidReceiveResponse(req[r]) /\ ~part
      BY <2>4 DEF DidReceiveData, PostResponse, Response, Piece
    <2> QED
      BY <2>1, <2>2, <2>3, <2>4
  <1>3. curl' = [curl EXCEPT ![r].sent = @ + 1] => curl'[r].sent = curl[r].sent + 1
    BY <1>0 DEF Transfer
  <1>4. CASE r # s
    <2>1. Foreign(s, c) /\ Foreign(s, Response(r))
      BY <1>1, <1>4, ForeignTasks
    <2> HIDE DEF c
    <2>2. PostEvent(s)
      BY <1>2, <2>1 DEF PostEvent, Silent
    <2> QED
      BY <1>4, <2>2
  <1>5. CASE r = s
    <2>1. CASE /\ UNCHANGED mainQueue /\ curl'[r].sent = curl[r].sent
               /\ IsCompletedOrCancelled(req[r])
      BY <1>5, <2>1 DEF PostEvent, Silent
    <2>2. CASE /\ mainQueue' = Append(mainQueue, Response(r))
               /\ ~IsCompletedOrCancelled(req[r]) /\ UNCHANGED curl
               /\ req' = [req EXCEPT ![r] = q]
      <3>1. Says(s, [is |-> "response"])
        BY <1>5, <2>2 DEF Says, Response
      <3>2. req'[r] = q
        BY <1>0, <2>2, OneUpdated
      <3>3. NotifiedOf(s, "ReceiveData")
        BY <1>0, <1>5, <3>2, NotifiedUpdates DEF NotifiedOf
      <3> QED
        BY <1>5, <2>2, <3>1, <3>3 DEF PostEvent, ResponseOf
    <2>3. CASE /\ ~IsCompletedOrCancelled(req[r])
               /\ ~NeedToInvokeDidReceiveResponse(req[r])
               /\ curl' = [curl EXCEPT ![r].sent = @ + 1]
               /\ mainQueue' = Append(mainQueue, c)
               /\ req' = [req EXCEPT ![r] = req[r]]
      <3>1. UNCHANGED req /\ Says(s, e)
        BY <1>0, <1>5, <2>3 DEF Says, RequestTypes
      <3> QED
        BY <1>3, <1>5, <2>3, <3>1 DEF PostEvent, DataOf
    <2>4. CASE /\ ~IsCompletedOrCancelled(req[r])
               /\ ~NeedToInvokeDidReceiveResponse(req[r])
               /\ curl' = [curl EXCEPT ![r].sent = @ + 1]
               /\ mainQueue' = Append(Append(mainQueue, Response(r)), c)
               /\ req' = [req EXCEPT ![r] = Notified(req[r], "None")]
      <3>1. req'[r] = Notified(req[r], "None")
        BY <1>0, <2>4, OneUpdated
      <3>2. NotifiedOf(s, "None")
        BY <1>0, <1>5, <3>1, NotifiedUpdates DEF NotifiedOf
      <3>3. SaysPart(s, curl[s].sent + 1)
        BY <1>5, <2>4 DEF SaysPart
      <3> QED
        BY <1>3, <1>5, <2>4, <3>2, <3>3 DEF PostEvent, DataOf
    <2> QED
      BY <1>2, <2>1, <2>2, <2>3, <2>4
  <1> QED
    BY <1>4, <1>5

\* Every step is one of these for every request.
LEMMA PostEvents ==
    ASSUME Types, CancelInv, [Next]_vars, NEW s \in Requests PROVE PostEvent(s)
  <1>0. QueueTypes /\ mainQueue \in Seq(MainTask)
    BY DEF Types, QueueTypes
  <1>1. ASSUME UNCHANGED mainQueue PROVE PostEvent(s)
    BY <1>1 DEF PostEvent, Silent
  <1>2. CASE UNCHANGED vars
    BY <1>1, <1>2 DEF vars
  <1>3. CASE RunRelease \/ RunCancel
    <2>1. \E do : Takes(do) /\ do # "client"
      BY <1>3 DEF RunRelease, RunCancel
    <2>2. \E do : Takes(do) /\ Foreign(s, Head(mainQueue))
      BY <1>0, <2>1, TakesFacts DEF Foreign
    <2> QED
      BY <2>2 DEF PostEvent, Silent
  <1>4. CASE RunClient
    <2>1. Takes("client") /\ Head(mainQueue) \in MainTask
      BY <1>0, <1>4, TakesFacts DEF RunClient
    <2>2. Head(mainQueue).r # s => Foreign(s, Head(mainQueue))
      BY <2>1 DEF Foreign
    <2> QED
      BY <1>4, <2>1, <2>2 DEF PostEvent, Silent
  <1>5. CASE \/ TakeTasks \/ TestShouldSuspend \/ StartTransfer
             \/ StartTransferFails \/ PauseInCallback
             \/ \E r \in Requests :
                  \/ CancelEnd(r) \/ Start(r) \/ Cancel(r)
                  \/ \E paused \in BOOLEAN : SetRequestPaused(r, paused)
                  \/ CompleteDidReceiveResponse(r)
                  \/ \E last, multipart \in BOOLEAN : DidReceiveHeader(r, last, multipart)
                  \/ \E how \in Result : TransferDone(r, how)
    <2>1. UNCHANGED mainQueue
      BY <1>5 DEF TakeTasks, TestShouldSuspend, StartTransfer, StartTransferFails,
                  PauseInCallback,
                  CancelEnd, Start, Cancel, SetRequestPaused,
                  CompleteDidReceiveResponse, DidReceiveHeader, Abort, TransferDone
    <2> QED
      BY <1>1, <2>1
  <1>6. CASE RespondForFile
    <2> PICK r \in Requests : r = Head(batch).r
      BY <1>0, <1>6, RunsFacts DEF RespondForFile
    <2>1. mainQueue' = Append(mainQueue, Response(r))
      BY <1>6, FunctionsDiffer DEF RespondForFile
    <2>2. CASE r = s
      <3>1. Says(s, [is |-> "response"])
        BY <2>1, <2>2 DEF Says, Response
      <3> QED
        BY <1>6, <2>2, <3>1, NotifyingSteps DEF PostEvent, ResponseOf
    <2>3. CASE r # s
      BY <2>1, <2>3, ForeignTasks DEF PostEvent, Silent
    <2> QED
      BY <2>2, <2>3
  <1>7. CASE FinishLater
    <2> PICK r \in Requests : r = worker.r
      BY <1>0, <1>7, WorkerFacts DEF FinishLater
    <2>1. Append(mainQueue, Response(r)) \in Seq(MainTask)
      BY <1>0, ResponsePosted
    <2>2. mainQueue' = Append(mainQueue, Response(r)) \o ReleaseIf(worker.release, r)
      BY <1>7, FunctionsDiffer DEF FinishLater
    <2>3. mainQueue' \in {Append(mainQueue, Response(r)),
                          Append(Append(mainQueue, Response(r)), Release(r))}
      BY <2>1, <2>2, ReleasePosted
    <2>4. Foreign(s, Release(r)) /\ (r # s => Foreign(s, Response(r)))
      BY ForeignTasks
    <2>5. CASE r = s
      <3>1. Says(s, [is |-> "response"])
        BY <2>3, <2>4, <2>5 DEF Says, Response
      <3> QED
        BY <1>7, <2>5, <3>1, NotifyingSteps DEF PostEvent, ResponseOf
    <2>6. CASE r # s
      BY <2>3, <2>4, <2>6 DEF PostEvent, Silent
    <2> QED
      BY <2>5, <2>6
  <1>8. CASE FinishNow
    <2> PICK r \in Requests : r = worker.r
      BY <1>0, <1>8, WorkerFacts DEF FinishNow
    <2> DEFINE e == [is |-> IF worker.how = "ok" THEN "complete" ELSE "fail"]
    <2>1. mainQueue' = Append(mainQueue, Client(r, e)) /\ e \in Event
      BY <1>8, NewEvents DEF FinishNow
    <2>2. CASE r = s
      BY <1>8, <2>1, <2>2 DEF PostEvent, EndOf, Says
    <2>3. CASE r # s
      <3> HIDE DEF e
      <3> QED
        BY <2>1, <2>3, ForeignTasks DEF PostEvent, Silent
    <2> QED
      BY <2>2, <2>3
  <1>9. CASE SetCompleted
    <2> PICK r \in Requests : r = worker.r
      BY <1>0, <1>9, WorkerFacts DEF SetCompleted
    <2>1. mainQueue' \in {mainQueue, Append(mainQueue, Release(r))}
      BY <1>0, <1>9, ReleasePosted DEF SetCompleted
    <2> QED
      BY <2>1, ForeignTasks DEF PostEvent, Silent
  <1>10. CASE PauseChange
    <2> PICK r \in Requests : r = Head(batch).r
      BY <1>0, <1>10, RunsFacts DEF PauseChange
    <2>1. mainQueue' \in {mainQueue, Append(mainQueue, [do |-> "cancel", r |-> r])}
      BY <1>10 DEF PauseChange
    <2> QED
      BY <2>1, ForeignTasks DEF PostEvent, Silent
  <1>11. CASE Finalize \/ RunDidCancel \/ RunDidComplete
    <2> PICK r \in Requests : r = Head(batch).r
      BY <1>0, <1>11, RunsFacts DEF Finalize, RunDidCancel, RunDidComplete
    <2>1. /\ Head(batch) \in Tasks
          /\ \/ Finalize /\ Head(batch).do = "finalize"
             \/ RunDidCancel /\ Head(batch).do = "didCancel"
             \/ RunDidComplete
      <3>1. batch \in Seq(Task) /\ batch # <<>>
        BY <1>0, <1>11, RunsFacts
           DEF Finalize, RunDidCancel, RunDidComplete, QueueTypes
      <3>2. 1 \in DOMAIN batch /\ Head(batch) = batch[1]
        BY <3>1, HeadTailProperties, LenProperties, EmptySeq
      <3> QED
        BY <1>0, <1>11, <3>2, RunsFacts
           DEF Tasks, Finalize, RunDidCancel, RunDidComplete
    <2>2. Cancels(r)
      BY DEF CancelInv
    <2>3. \/ UNCHANGED mainQueue
          \/ /\ req[r].m_cancelled
             /\ DidCancelTransfer(r, TRUE) \/ DidCancelTransfer(r, FALSE)
      <3>1. CASE Finalize
        <4>1. CASE Head(batch).how = "cancel"
          <5>1. DidCancelTransfer(r, TRUE) /\ Head(batch).do = "finalize"
            BY <3>1, <4>1 DEF Finalize, Runs, Dequeues
          <5> QED
            BY <2>1, <2>2, <4>1, <5>1 DEF Cancels
        <4>2. CASE Head(batch).how # "cancel"
          <5>1. DidCompleteTransfer(r, Head(batch).how, TRUE)
            BY <3>1, <4>2 DEF Finalize
          <5> QED
            BY <5>1 DEF DidCompleteTransfer
        <4> QED
          BY <4>1, <4>2
      <3>2. CASE RunDidCancel
        <4>1. Head(batch).do = "didCancel" /\ DidCancelTransfer(r, FALSE)
          BY <3>2 DEF RunDidCancel, Runs, Dequeues
        <4> QED
          BY <2>1, <2>2, <4>1 DEF Cancels
      <3>3. CASE RunDidComplete
        BY <3>3 DEF RunDidComplete, DidCompleteTransfer
      <3> QED
        BY <1>11, <3>1, <3>2, <3>3
    <2> QED
      BY <1>1, <2>3, CancelPosts
  <1> QED
    BY <1>2, <1>3, <1>4, <1>5, <1>6, <1>7, <1>8, <1>9, <1>10, <1>11, DataPosts
       DEF Next, MainThread, RunTask, Owner, Perform

(***************************************************************************)
(* What a step does to libcurl's side, the curl thread and the jobs.       *)
(***************************************************************************)

\* libcurl's side of a request but for pauses.
SameTransfer(s) ==
    /\ curl'[s].state = curl[s].state /\ curl'[s].headers = curl[s].headers
    /\ curl'[s].sent = curl[s].sent
Moved(s, state) ==
    /\ curl'[s].state = state /\ curl'[s].headers = curl[s].headers
    /\ curl'[s].sent = curl[s].sent
CurlEvent(s) ==
    \/ SameTransfer(s)
    \/ StartTransfer /\ Head(batch).r = s /\ Moved(s, "running")
    \/ Finalize /\ Head(batch).r = s /\ Moved(s, "removed")
    \/ \E how \in Result : TransferDone(s, how) /\ Moved(s, "over")
    \/ \E last, multipart \in BOOLEAN :
         /\ DidReceiveHeader(s, last, multipart)
         /\ req'[s].m_didReceiveResponse = last
         /\ curl'[s].headers = IF last THEN "all" ELSE "part"
         /\ curl'[s].state = curl[s].state /\ curl'[s].sent = curl[s].sent
    \/ /\ DataOf(s)
       /\ curl'[s].state = curl[s].state /\ curl'[s].headers = curl[s].headers

\* Every step is one of these for every request.
LEMMA CurlEvents ==
    ASSUME Types, CancelInv, [Next]_vars, NEW s \in Requests PROVE CurlEvent(s)
  <1>0. /\ QueueTypes /\ RequestTypes /\ curl \in [Requests -> Transfer]
        /\ curl[s] \in Transfer
    BY DEF Types, TransferTypes
  <1>1. ASSUME UNCHANGED curl PROVE CurlEvent(s)
    BY <1>1 DEF CurlEvent, SameTransfer
  <1>2. ASSUME NEW r \in Requests, r # s, NEW c, curl' = [curl EXCEPT ![r] = c]
        PROVE  CurlEvent(s)
    BY <1>0, <1>2 DEF CurlEvent, SameTransfer
  <1>3. CASE StartTransfer
    <2> PICK r \in Requests : r = Head(batch).r
      BY <1>0, <1>3, SetupFacts DEF StartTransfer
    <2>1. PICK b : curl' = [curl EXCEPT ![r] = [curl[r] EXCEPT !.state = "running",
                                                               !.paused = b]]
      <3>1. PICK accepted \in BOOLEAN :
              curl' = [curl EXCEPT ![r].state = "running",
                         ![r].paused = SuspendAtSetup(req[r], accepted).m_isHandlePaused]
        BY <1>3 DEF StartTransfer
      <3> DEFINE b == SuspendAtSetup(req[r], accepted).m_isHandlePaused
      <3>2. curl' = [curl EXCEPT ![r].state = "running", ![r].paused = b]
        BY <3>1
      <3> HIDE DEF b
      <3>3. curl' = [curl EXCEPT ![r] = [curl[r] EXCEPT !.state = "running",
                                                        !.paused = b]]
        BY <1>0, <3>2 DEF Transfer
      <3> QED
        BY <3>3
    <2>2. CASE r = s
      <3>1. curl'[s] = [curl[s] EXCEPT !.state = "running", !.paused = b]
        BY <1>0, <2>1, <2>2
      <3> QED
        BY <1>0, <1>3, <2>2, <3>1 DEF CurlEvent, Moved, Transfer
    <2> QED
      BY <1>2, <2>1, <2>2
  <1>4. CASE Finalize
    <2> PICK r \in Requests : r = Head(batch).r
      BY <1>0, <1>4, RunsFacts DEF Finalize
    <2>1. \/ UNCHANGED curl
          \/ curl' = [curl EXCEPT ![r] = [curl[r] EXCEPT !.state = "removed"]]
      BY <1>4 DEF Finalize
    <2>2. ASSUME r = s, curl' = [curl EXCEPT ![r] = [curl[r] EXCEPT !.state = "removed"]]
          PROVE  CurlEvent(s)
      <3>1. curl'[s] = [curl[s] EXCEPT !.state = "removed"]
        BY <1>0, <2>2
      <3> QED
        BY <1>0, <1>4, <2>2, <3>1 DEF CurlEvent, Moved, Transfer
    <2> QED
      BY <1>1, <1>2, <2>1, <2>2
  <1>5. ASSUME NEW r \in Requests, NEW b,
               \/ curl' = [curl EXCEPT ![r] = [curl[r] EXCEPT !.paused = b]]
               \/ curl' = [curl EXCEPT ![r] = [curl[r] EXCEPT !.aborted = b]]
        PROVE  CurlEvent(s)
    <2>1. CASE r = s
      <3>1. \/ curl'[s] = [curl[s] EXCEPT !.paused = b]
            \/ curl'[s] = [curl[s] EXCEPT !.aborted = b]
        BY <1>0, <1>5, <2>1
      <3> QED
        BY <1>0, <3>1 DEF CurlEvent, SameTransfer, Transfer
    <2> QED
      BY <1>2, <1>5, <2>1
  <1>6. CASE PauseChange
    <2> PICK r \in Requests : r = Head(batch).r
      BY <1>0, <1>6, RunsFacts DEF PauseChange
    <2>1. \/ UNCHANGED curl
          \/ \E b : curl' = [curl EXCEPT ![r] = [curl[r] EXCEPT !.paused = b]]
      BY <1>6 DEF PauseChange
    <2> QED
      BY <1>1, <1>5, <2>1
  <1>7. CASE PauseInCallback
    <2> PICK r \in Requests : r = worker.r
      BY <1>0, <1>7, WorkerFacts DEF PauseInCallback
    <2>1. curl' = [curl EXCEPT ![r] = [curl[r] EXCEPT !.paused = TRUE]]
      BY <1>7 DEF PauseInCallback
    <2> QED
      BY <1>5, <2>1
  <1>8. ASSUME NEW r \in Requests, NEW how \in Result, TransferDone(r, how)
        PROVE  CurlEvent(s)
    <2>1. curl' = [curl EXCEPT ![r] = [curl[r] EXCEPT !.state = "over"]]
      BY <1>8 DEF TransferDone
    <2>2. CASE r = s
      <3>1. curl'[s] = [curl[s] EXCEPT !.state = "over"]
        BY <1>0, <2>1, <2>2
      <3> QED
        BY <1>0, <1>8, <2>2, <3>1 DEF CurlEvent, Moved, Transfer
    <2> QED
      BY <1>2, <2>1, <2>2
  <1>9. ASSUME NEW r \in Requests, NEW last \in BOOLEAN, NEW multipart \in BOOLEAN,
               DidReceiveHeader(r, last, multipart)
        PROVE  CurlEvent(s)
    <2> DEFINE h == IF last THEN "all" ELSE "part"
               q == [req[r] EXCEPT !.m_didReceiveResponse = last,
                       !.m_multipartHandle = IF last \/ req[r].m_didReceiveResponse
                         THEN multipart ELSE req[r].m_multipartHandle]
    <2>1. CASE IsCompletedOrCancelled(req[r])
      <3>1. curl' = [curl EXCEPT ![r] = [curl[r] EXCEPT !.aborted = TRUE]]
        BY <1>9, <2>1 DEF DidReceiveHeader, Abort
      <3> QED
        BY <1>5, <3>1
    <2>2. CASE ~IsCompletedOrCancelled(req[r])
      <3>1. curl' = [curl EXCEPT ![r] = [curl[r] EXCEPT !.blocks = curl[r].blocks + 1,
                                                        !.headers = h]]
        BY <1>9, <2>2 DEF DidReceiveHeader
      <3>2. req' = [req EXCEPT ![r] = q]
        BY <1>9, <2>2 DEF DidReceiveHeader
      <3>3. CASE r = s
        <4>1. curl'[s] = [curl[s] EXCEPT !.blocks = curl[s].blocks + 1, !.headers = h]
          BY <1>0, <3>1, <3>3
        <4>2. req'[s].m_didReceiveResponse = last
          BY <1>0, <3>2, <3>3 DEF RequestTypes, Request
        <4>3. /\ curl'[s].headers = h /\ curl'[s].state = curl[s].state
              /\ curl'[s].sent = curl[s].sent
          BY <1>0, <4>1 DEF Transfer
        <4> QED
          BY <1>9, <3>3, <4>2, <4>3 DEF CurlEvent
      <3> HIDE DEF h
      <3> QED
        BY <1>2, <3>1, <3>3
    <2> QED
      BY <2>1, <2>2
  <1>10. ASSUME NEW r \in Requests, NEW part \in BOOLEAN, DidReceiveData(r, part)
         PROVE  CurlEvent(s)
    <2>1. \/ UNCHANGED curl
          \/ curl' = [curl EXCEPT ![r] = [curl[r] EXCEPT !.aborted = TRUE]]
          \/ curl' = [curl EXCEPT ![r] = [curl[r] EXCEPT !.sent = curl[r].sent + 1]]
      BY <1>10 DEF DidReceiveData, Abort
    <2>2. ASSUME r = s,
                 curl' = [curl EXCEPT ![r] = [curl[r] EXCEPT !.sent = curl[r].sent + 1]]
          PROVE  CurlEvent(s)
      <3>1. curl'[s] = [curl[s] EXCEPT !.sent = curl[s].sent + 1]
        BY <1>0, <2>2
      <3>2. /\ curl'[s].sent = curl[s].sent + 1 /\ curl'[s].state = curl[s].state
            /\ curl'[s].headers = curl[s].headers /\ curl[s].sent \in Nat
        BY <1>0, <3>1, BoundsAssumption DEF Transfer
      <3>3. curl' # curl
        BY <3>2
      <3>4. DataOf(s)
        <4>1. curl'[s].sent # curl[s].sent
          BY <3>2
        <4> QED
          BY <1>10, <2>2, <4>1, DataPosts
      <3> QED
        BY <3>2, <3>4 DEF CurlEvent
    <2> QED
      BY <1>1, <1>2, <1>5, <2>1, <2>2
  <1>11. CASE \/ UNCHANGED vars \/ MainThread \/ TakeTasks \/ RespondForFile
              \/ TestShouldSuspend \/ StartTransferFails \/ RunDidCancel
              \/ RunDidComplete \/ FinishLater \/ FinishNow \/ SetCompleted \/ \E r \in Requests : Owner(r)
    <2>1. UNCHANGED curl
      BY <1>11 DEF vars, MainThread, RunRelease, RunClient, RunCancel, CancelEnd,
             TakeTasks, RespondForFile, TestShouldSuspend, StartTransferFails,
             RunDidCancel,
             RunDidComplete, FinishLater, FinishNow, SetCompleted, Owner, Start,
             SetRequestPaused, Cancel, CompleteDidReceiveResponse
    <2> QED
      BY <1>1, <2>1
  <1> QED
    BY <1>3, <1>4, <1>6, <1>7, <1>8, <1>9, <1>10, <1>11 DEF Next, RunTask, Perform

\* Where the curl thread gets to inside didCompleteTransfer().
EndBegins(s) ==
    /\ Head(batch).r = s
    /\ \/ Finalize /\ Head(batch).how # "cancel"
       \/ RunDidComplete
    /\ worker'.at = "complete" /\ worker'.r = s /\ worker'.how = Head(batch).how
WorkerEvent(s) ==
    \/ UNCHANGED worker
    \/ ~Finishing(s)'
    \/ EndBegins(s)
    \/ FinishNow /\ worker.r = s /\ worker'.at = "completed" /\ worker'.r = s

\* Every step is one of these for every request.
LEMMA WorkerEvents ==
    ASSUME Types, [Next]_vars, NEW s \in Requests PROVE WorkerEvent(s)
  <1>0. QueueTypes
    BY DEF Types
  <1>1. ASSUME NEW r \in Requests, r # s, NEW b, NEW how,
               \/ worker' = [at |-> "complete", r |-> r, how |-> how, release |-> b]
               \/ worker' = [at |-> "completed", r |-> r, release |-> b]
        PROVE  ~Finishing(s)'
    BY <1>1 DEF Finishing
  <1>2. CASE Finalize \/ RunDidComplete
    <2> PICK r \in Requests : r = Head(batch).r
      BY <1>0, <1>2, RunsFacts DEF Finalize, RunDidComplete
    <2>1. \/ UNCHANGED worker
          \/ /\ RunDidComplete \/ (Finalize /\ Head(batch).how # "cancel")
             /\ \E b : worker' = [at |-> "complete", r |-> r, how |-> Head(batch).how,
                                  release |-> b]
      BY <1>2 DEF Finalize, RunDidComplete, DidCompleteTransfer, DidCancelTransfer
    <2>2. CASE r = s
      BY <2>1, <2>2 DEF WorkerEvent, EndBegins
    <2> QED
      BY <1>1, <2>1, <2>2 DEF WorkerEvent
  <1>3. CASE FinishNow
    <2> PICK r \in Requests : r = worker.r
      BY <1>0, <1>3, WorkerFacts DEF FinishNow
    <2>1. worker' = [at |-> "completed", r |-> r, release |-> worker.release]
      BY <1>3 DEF FinishNow
    <2>2. CASE r = s
      BY <1>3, <2>1, <2>2 DEF WorkerEvent
    <2> QED
      BY <1>1, <2>1, <2>2 DEF WorkerEvent
  <1>4. CASE \/ FinishLater \/ SetCompleted \/ PauseInCallback \/ StartTransfer
             \/ StartTransferFails \/ TestShouldSuspend
    <2>1. worker' = [at |-> "idle"] \/ worker' = [at |-> "suspending"]
      BY <1>4 DEF FinishLater, SetCompleted, PauseInCallback, StartTransfer,
                  StartTransferFails, SetupTransfer, TestShouldSuspend
    <2> QED
      BY <2>1 DEF WorkerEvent, Finishing
  <1>5. ASSUME NEW r \in Requests, NEW part \in BOOLEAN, DidReceiveData(r, part)
        PROVE  WorkerEvent(s)
    <2>1. UNCHANGED worker \/ worker' = [at |-> "pausing", r |-> r]
      BY <1>5 DEF DidReceiveData, Abort
    <2> QED
      BY <2>1 DEF WorkerEvent, Finishing
  <1>6. CASE \/ UNCHANGED vars \/ MainThread \/ TakeTasks \/ RespondForFile
             \/ PauseChange \/ RunDidCancel
             \/ \E r \in Requests :
                  \/ Owner(r)
                  \/ \E last, multipart \in BOOLEAN : DidReceiveHeader(r, last, multipart)
                  \/ \E how \in Result : TransferDone(r, how)
    <2>1. UNCHANGED worker
      BY <1>6 DEF vars, MainThread, RunRelease, RunClient, RunCancel, CancelEnd,
             TakeTasks, RespondForFile, PauseChange, RunDidCancel,
             DidCancelTransfer, Owner, Start, SetRequestPaused, Cancel,
             CompleteDidReceiveResponse, DidReceiveHeader, Abort, TransferDone
    <2> QED
      BY <2>1 DEF WorkerEvent
  <1> QED
    BY <1>2, <1>3, <1>4, <1>5, <1>6 DEF Next, RunTask, Perform

\* Who makes a request active.
LEMMA ActiveAfter ==
    ASSUME Types, [Next]_vars, NEW s \in Requests, s \in m_activeJobs'
    PROVE  \/ s \in m_activeJobs
           \/ Start(s) /\ ~req[s].local
           \/ /\ CompleteDidReceiveResponse(s) /\ ~IsCompletedOrCancelled(req[s])
              /\ req[s].m_actionAfterInvoke = "StartTransfer"
  <1>0. RequestTypes /\ QueueTypes
    BY DEF Types
  <1>1. CASE m_activeJobs' \subseteq m_activeJobs
    BY <1>1
  <1>2. ASSUME NEW r \in Requests, Start(r)
        PROVE  \/ m_activeJobs' \subseteq m_activeJobs
               \/ m_activeJobs' = m_activeJobs \cup {r} /\ ~req[r].local
    BY <1>2 DEF Start, Add, CallOnWorkerThread
  <1>3. ASSUME NEW r \in Requests, CompleteDidReceiveResponse(r)
        PROVE  \/ m_activeJobs' \subseteq m_activeJobs
               \/ /\ m_activeJobs' = m_activeJobs \cup {r}
                  /\ ~IsCompletedOrCancelled(req[r])
                  /\ req[r].m_actionAfterInvoke = "StartTransfer"
    <2>1. CASE IsCompletedOrCancelled(req[r])
      BY <1>3, <2>1 DEF CompleteDidReceiveResponse, schedVars
    <2>2. CASE ~IsCompletedOrCancelled(req[r])
      <3> DEFINE q == [req[r] EXCEPT !.m_didReturnFromNotify = TRUE]
      <3>1. q.m_actionAfterInvoke = req[r].m_actionAfterInvoke
            /\ q.m_actionAfterInvoke \in Action
        BY <1>0 DEF RequestTypes, Request
      <3>2. AfterInvoke(r, q)
        BY <1>3, <2>2 DEF CompleteDidReceiveResponse
      <3> HIDE DEF q
      <3> QED
        BY <2>2, <3>1, <3>2 DEF AfterInvoke, Action, Add, PausedStatusChanged,
                                CallOnWorkerThread, schedVars
    <2> QED
      BY <2>1, <2>2
  <1>4. ASSUME NEW r \in Requests, NEW paused \in BOOLEAN, SetRequestPaused(r, paused)
        PROVE  m_activeJobs' \subseteq m_activeJobs
    BY <1>4 DEF SetRequestPaused, PausedStatusChanged, CallOnWorkerThread, schedVars
  <1>5. CASE \/ UNCHANGED vars \/ MainThread \/ TakeTasks \/ RunTask
             \/ \E r \in Requests : Cancel(r) \/ Perform(r)
    <2>1. m_activeJobs' \subseteq m_activeJobs
      BY <1>5 DEF vars, MainThread, RunRelease, RunClient, RunCancel, CancelEnd,
             CallOnWorkerThread, FinalizeTransfer, TakeTasks, RunTask, RespondForFile,
             TestShouldSuspend, StartTransfer, StartTransferFails, PauseChange,
             Finalize, RunDidCancel, RunDidComplete, FinishLater, FinishNow,
             SetCompleted, PauseInCallback,
             Cancel, Perform, DidReceiveHeader, DidReceiveData, TransferDone, schedVars
    <2> QED
      BY <1>1, <2>1
  <1>6. \/ UNCHANGED vars \/ MainThread \/ TakeTasks \/ RunTask
        \/ \E r \in Requests :
             \/ Cancel(r) \/ Perform(r) \/ Start(r) \/ CompleteDidReceiveResponse(r)
             \/ \E paused \in BOOLEAN : SetRequestPaused(r, paused)
    BY DEF Next, Owner
  <1> QED
    BY <1>1, <1>2, <1>3, <1>4, <1>5, <1>6

(***************************************************************************)
(* Responses on their way.                                                 *)
(***************************************************************************)

\* What a post for the client of s does to the number of its responses.
LEMMA SaysCount ==
    ASSUME Types, NEW s \in Requests, NEW e \in Event, Says(s, e)
    PROVE  Hits(mainQueue', {Response(s)}) = Hits(mainQueue, {Response(s)})
             + IF e = [is |-> "response"] THEN 1 ELSE 0
  <1> DEFINE x == Response(s)
             c == Client(s, e)
  <1>0. mainQueue \in Seq(MainTask) /\ c \in MainTask /\ Hits(mainQueue, {x}) \in Nat
    BY NewMainTasks, HitsType DEF Types, QueueTypes
  <1>1. c = x <=> e = [is |-> "response"]
    BY DEF Response, Client
  <1>2. \A t : Foreign(s, t) => t # x /\ t \in MainTask
    BY DEF Foreign, Response, Client
  <1>3. \/ mainQueue' = Append(mainQueue, c)
        \/ \E t : Foreign(s, t) /\ mainQueue' = Append(Append(mainQueue, c), t)
    BY DEF Says
  <1> HIDE DEF x, c
  <1>4. /\ Hits(Append(mainQueue, c), {x})
             = Hits(mainQueue, {x}) + IF c = x THEN 1 ELSE 0
        /\ Append(mainQueue, c) \in Seq(MainTask)
    BY <1>0, PostedCount, AppendProperties
  <1>5. Hits(mainQueue', {x}) = Hits(Append(mainQueue, c), {x})
    <2>1. CASE mainQueue' = Append(mainQueue, c)
      BY <2>1
    <2>2. ASSUME NEW t, Foreign(s, t), mainQueue' = Append(Append(mainQueue, c), t)
          PROVE  Hits(mainQueue', {x}) = Hits(Append(mainQueue, c), {x})
      <3>1. t \in MainTask /\ t # x
        BY <1>2, <2>2
      <3>2. Hits(Append(Append(mainQueue, c), t), {x}) = Hits(Append(mainQueue, c), {x})
        BY <1>4, <3>1, OtherPosted
      <3> QED
        BY <2>2, <3>2
    <2> QED
      BY <1>3, <2>1, <2>2
  <1>6. Hits(mainQueue', {x})
          = Hits(mainQueue, {x}) + IF e = [is |-> "response"] THEN 1 ELSE 0
    BY <1>1, <1>4, <1>5
  <1> QED
    BY <1>6 DEF x

\* What the others do.
LEMMA SilentCount ==
    ASSUME Types, NEW s \in Requests, Silent(s)
    PROVE  Hits(mainQueue', {Response(s)}) = Hits(mainQueue, {Response(s)})
  <1> DEFINE x == Response(s)
  <1>0. QueueTypes /\ mainQueue \in Seq(MainTask) /\ Hits(mainQueue, {x}) \in Nat
    BY HitsType DEF Types, QueueTypes
  <1>1. \A t : Foreign(s, t) => t # x /\ t \in MainTask
    BY DEF Foreign, Response, Client
  <1> HIDE DEF x
  <1>2. ASSUME NEW do, Takes(do), Foreign(s, Head(mainQueue))
        PROVE  Hits(mainQueue', {x}) = Hits(mainQueue, {x})
    <2>1. Head(mainQueue) # x
      BY <1>1, <1>2
    <2>2. Hits(mainQueue', {x})
            = Hits(mainQueue, {x}) - IF Head(mainQueue) = x THEN 1 ELSE 0
      BY <1>0, <1>2, TakenCount
    <2> QED
      BY <1>0, <2>1, <2>2
  <1>3. ASSUME NEW t, Foreign(s, t), NEW q \in Seq(MainTask)
        PROVE  /\ Append(q, t) \in Seq(MainTask)
               /\ Hits(Append(q, t), {x}) = Hits(q, {x})
    BY <1>1, <1>3, OtherPosted, AppendProperties
  <1>4. Hits(mainQueue', {x}) = Hits(mainQueue, {x})
    <2>1. ASSUME NEW t, NEW u, Foreign(s, t), Foreign(s, u),
                 mainQueue' = Append(Append(mainQueue, t), u)
          PROVE  Hits(mainQueue', {x}) = Hits(mainQueue, {x})
      <3>1. /\ Append(mainQueue, t) \in Seq(MainTask)
            /\ Hits(Append(mainQueue, t), {x}) = Hits(mainQueue, {x})
        BY <1>0, <1>3, <2>1
      <3>2. Hits(Append(Append(mainQueue, t), u), {x}) = Hits(Append(mainQueue, t), {x})
        BY <1>3, <2>1, <3>1
      <3> QED
        BY <2>1, <3>1, <3>2
    <2>2. ASSUME NEW t, Foreign(s, t), mainQueue' = Append(mainQueue, t)
          PROVE  Hits(mainQueue', {x}) = Hits(mainQueue, {x})
      BY <1>0, <1>3, <2>2
    <2>3. UNCHANGED mainQueue => Hits(mainQueue', {x}) = Hits(mainQueue, {x})
      OBVIOUS
    <2> QED
      BY <1>2, <2>1, <2>2, <2>3 DEF Silent
  <1> QED
    BY <1>4 DEF x

\* Who is owed an answer more, or less.
LEMMA OwedAfter ==
    ASSUME Types, [Next]_vars, NEW s \in Requests
    PROVE  \/ owed'[s] = owed[s]
           \/ RunClient /\ Head(mainQueue) = Response(s) /\ owed'[s] = owed[s] + 1
           \/ /\ CompleteDidReceiveResponse(s) /\ owed[s] > 0
              /\ owed'[s] = owed[s] - 1 /\ UNCHANGED mainQueue
  <1>0. QueueTypes /\ owed \in [Requests -> Nat]
    BY DEF Types, ClientTypes
  <1>1. CASE RunClient
    <2> PICK r \in Requests : r = Head(mainQueue).r
      BY <1>0, <1>1, TakesFacts DEF RunClient
    <2> DEFINE e == Head(mainQueue).what
    <2>1. \/ UNCHANGED owed
          \/ owed' = [owed EXCEPT ![r] = IF e.is = "response" THEN owed[r] + 1
                                         ELSE owed[r]]
      BY <1>1 DEF RunClient
    <2>2. /\ Head(mainQueue) \in MainTask /\ Head(mainQueue).do = "client"
          /\ e \in Event
      BY <1>0, <1>1, TakesFacts DEF RunClient
    <2>3. e.is = "response" => Head(mainQueue) = Response(r)
      <3>1. e.is = "response" => e = [is |-> "response"]
        BY <2>2 DEF Event
      <3>2. Head(mainQueue) = Client(r, e)
        BY <2>2 DEF MainTask, Client
      <3> QED
        BY <3>1, <3>2 DEF Response
    <2> HIDE DEF e
    <2>4. owed'[s] = owed[s] \/ (r = s /\ e.is = "response" /\ owed'[s] = owed[s] + 1)
      BY <1>0, <2>1
    <2> QED
      BY <1>1, <2>3, <2>4
  <1>2. ASSUME NEW r \in Requests, CompleteDidReceiveResponse(r)
        PROVE  \/ owed'[s] = owed[s]
               \/ /\ CompleteDidReceiveResponse(s) /\ owed[s] > 0
                  /\ owed'[s] = owed[s] - 1 /\ UNCHANGED mainQueue
    <2>1. /\ owed[r] > 0 /\ owed' = [owed EXCEPT ![r] = owed[r] - 1]
          /\ UNCHANGED mainQueue
      BY <1>2 DEF CompleteDidReceiveResponse
    <2> QED
      BY <1>0, <1>2, <2>1
  <1>3. \/ UNCHANGED owed \/ RunClient
        \/ \E r \in Requests : CompleteDidReceiveResponse(r)
    BY DEF Next, vars, clientVars, MainThread, RunTask, Owner, Perform, RunRelease,
       RunCancel, TakeTasks, RespondForFile, TestShouldSuspend, StartTransfer,
       StartTransferFails, PauseChange, Finalize, RunDidCancel, RunDidComplete, FinishLater,
       FinishNow, SetCompleted, PauseInCallback, Start, Cancel, CancelEnd,
       SetRequestPaused, DidReceiveHeader, DidReceiveData, TransferDone
  <1> QED
    BY <1>1, <1>2, <1>3

\* How a step changes the number of responses that are not answered.
ResponsesEvent(s) ==
    \/ Responses(s)' <= Responses(s)
    \/ /\ Responses(s)' = Responses(s) + 1
       /\ ResponseOf(s) \/ (DataOf(s) /\ NotifiedOf(s, "None"))

\* It is one of these.
LEMMA ResponsesAfter ==
    ASSUME Types, CancelInv, [Next]_vars, NEW s \in Requests
    PROVE  /\ ResponsesEvent(s)
           /\ CompleteDidReceiveResponse(s) =>
                Responses(s) > 0 /\ Responses(s)' = Responses(s) - 1
  <1> DEFINE n == Hits(mainQueue, {Response(s)})
             m == Hits(mainQueue', {Response(s)})
  <1>0. /\ QueueTypes /\ n \in Nat /\ owed[s] \in Nat /\ owed \in [Requests -> Nat]
        /\ mainQueue \in Seq(MainTask)
    BY HitsType DEF Types, QueueTypes, ClientTypes
  <1>1. Responses(s) = owed[s] + n /\ Responses(s)' = owed'[s] + m
    BY DEF Responses, Response, Client
  <1>2. ASSUME NEW e \in Event, e # [is |-> "response"], Says(s, e) PROVE m = n
    BY <1>0, <1>2, SaysCount
  <1>3. Says(s, [is |-> "response"]) => m = n + 1
    BY <1>0, SaysCount, NewEvents
  <1>4. Silent(s) => m = n
    BY SilentCount
  <1>5. SaysPart(s, curl[s].sent + 1) /\ DataOf(s) => m = n + 1
    <2> SUFFICES ASSUME SaysPart(s, curl[s].sent + 1), DataOf(s) PROVE m = n + 1
      OBVIOUS
    <2> DEFINE c == Client(s, Piece(curl[s].sent + 1))
               q == Append(mainQueue, Response(s))
    <2>1. curl[s].sent + 1 \in 1 .. MaxChunks
      BY BoundsAssumption DEF DataOf, DidReceiveData, Types, TransferTypes, Transfer
    <2>2. c \in MainTask /\ c # Response(s)
      BY <2>1, NewEvents, NewMainTasks, FunctionsDiffer DEF Piece
    <2>3. mainQueue' = Append(q, c)
      BY DEF SaysPart
    <2>4. q \in Seq(MainTask) /\ Hits(q, {Response(s)}) = n + 1
      BY <1>0, ResponsePosted
    <2> HIDE DEF c, q
    <2> QED
      BY <2>2, <2>3, <2>4, OtherPosted
  <1>6. ASSUME DataOf(s), Says(s, Piece(curl[s].sent + 1)) PROVE m = n
    <2>1. curl[s].sent + 1 \in 1 .. MaxChunks
      BY <1>6, BoundsAssumption DEF DataOf, DidReceiveData, Types, TransferTypes, Transfer
    <2>2. Piece(curl[s].sent + 1) \in Event /\ Piece(curl[s].sent + 1) # [is |-> "response"]
      BY <2>1, NewEvents DEF Piece
    <2> QED
      BY <1>2, <1>6, <2>2
  <1>7. CASE RunClient /\ Head(mainQueue) = Response(s) /\ owed'[s] = owed[s] + 1
    <2>1. m = n - 1
      BY <1>0, <1>7, TakenCount DEF RunClient
    <2>2. ~CompleteDidReceiveResponse(s)
      BY <1>0, <1>7 DEF CompleteDidReceiveResponse
    <2> HIDE DEF n, m
    <2>3. Responses(s)' <= Responses(s)
      BY <1>0, <1>1, <1>7, <2>1
    <2> QED
      BY <2>2, <2>3 DEF ResponsesEvent
  <1>8. CASE /\ CompleteDidReceiveResponse(s) /\ owed[s] > 0
             /\ owed'[s] = owed[s] - 1 /\ UNCHANGED mainQueue
    <2>1. m = n
      BY <1>8
    <2> HIDE DEF n, m
    <2>2. Responses(s)' <= Responses(s) /\ Responses(s) > 0
          /\ Responses(s)' = Responses(s) - 1
      BY <1>0, <1>1, <1>8, <2>1
    <2> QED
      BY <2>2 DEF ResponsesEvent
  <1>9. CASE owed'[s] = owed[s]
    <2>1. ~CompleteDidReceiveResponse(s)
      BY <1>0, <1>9 DEF CompleteDidReceiveResponse
    <2>2. \/ m <= n
          \/ m = n + 1 /\ (ResponseOf(s) \/ (DataOf(s) /\ NotifiedOf(s, "None")))
      <3>1. CASE Silent(s)
        BY <1>0, <1>4, <3>1
      <3>2. CASE RunClient /\ Head(mainQueue).r = s
        <4>1. m = n - IF Head(mainQueue) = Response(s) THEN 1 ELSE 0
          BY <1>0, <3>2, TakenCount DEF RunClient
        <4> HIDE DEF m, n
        <4> QED
          BY <1>0, <4>1
      <3>3. CASE Says(s, [is |-> "cancel"])
        <4>1. [is |-> "cancel"] \in Event /\ [is |-> "cancel"] # [is |-> "response"]
          BY NewEvents
        <4>2. m = n
          BY <1>2, <3>3, <4>1
        <4> HIDE DEF m, n
        <4> QED
          BY <1>0, <4>2
      <3>4. CASE ResponseOf(s)
        BY <1>3, <3>4 DEF ResponseOf
      <3>5. CASE EndOf(s)
        <4> DEFINE e == [is |-> IF worker.how = "ok" THEN "complete" ELSE "fail"]
        <4>1. e \in Event /\ e # [is |-> "response"] /\ Says(s, e)
          BY <3>5, NewEvents DEF EndOf
        <4> HIDE DEF e
        <4>2. m = n
          BY <1>2, <4>1
        <4> HIDE DEF m, n
        <4> QED
          BY <1>0, <4>2
      <3>6. CASE DataOf(s)
        BY <1>0, <1>5, <1>6, <3>6 DEF DataOf
      <3> QED
        BY <3>1, <3>2, <3>3, <3>4, <3>5, <3>6, PostEvents DEF PostEvent
    <2>3. m \in Nat
      BY <1>0, HitsType, TypesStep DEF Types, QueueTypes
    <2> HIDE DEF n, m
    <2>4. \/ Responses(s)' <= Responses(s)
          \/ /\ Responses(s)' = Responses(s) + 1
             /\ ResponseOf(s) \/ (DataOf(s) /\ NotifiedOf(s, "None"))
      BY <1>0, <1>1, <1>9, <2>2, <2>3
    <2> QED
      BY <2>1, <2>4 DEF ResponsesEvent
  <1> QED
    BY <1>7, <1>8, <1>9, OwedAfter

(***************************************************************************)
(* A transfer ends once.                                                   *)
(***************************************************************************)

\* Nothing waits for the answer to a response before the client is notified
\* of one.
Unheard(r) ==
    ~req[r].m_didNotifyResponse =>
      req[r].m_actionAfterInvoke = "None" /\ Responses(r) = 0

\* A transfer that waits for the answer to its response is finished by one
\* answer: either that is still to come, or it has queued didComplete, or the
\* curl thread is in didCompleteTransfer().
Ending(r) == IF Finishing(r) THEN 1 ELSE 0
OneEnd(r) ==
    /\ Completes(r) # 0 => req[r].m_actionAfterInvoke = "FinishTransfer"
    /\ req[r].m_actionAfterInvoke = "FinishTransfer"
         => Responses(r) + Completes(r) + Ending(r) <= 1

\* Nothing more happens to a transfer that was completed.
Idle(r) ==
    /\ req[r].started /\ r \notin m_activeJobs /\ ~InCurl(r) /\ ~Finishing(r)
    /\ Completes(r) = 0
    /\ ~Queued("respondForFile", r) /\ ~Queued("startTransfer", r)
    /\ ~Queued("finalize", r)
AllDone(r) == req[r].m_completed => Idle(r)

OnceInv == \A r \in Requests : Unheard(r) /\ OneEnd(r) /\ AllDone(r)

\* The task that runs was queued.
LEMMA RunsQueued ==
    ASSUME Types, NEW do, Dequeues(do)
    PROVE  Head(batch) \in Tasks /\ Queued(do, Head(batch).r)
  <1>1. batch \in Seq(Task) /\ batch # <<>> /\ Head(batch).do = do
    BY DEF Types, QueueTypes, Dequeues
  <1>2. 1 \in DOMAIN batch /\ Head(batch) = batch[1]
    BY <1>1, HeadTailProperties, LenProperties, EmptySeq
  <1>3. Head(batch) \in Tasks
    BY <1>2 DEF Tasks
  <1> QED
    BY <1>1, <1>3 DEF Queued

\* The client is notified of a response only by the steps that post one.
LEMMA UnheardStep ==
    ASSUME Types, Types', CancelInv, [Next]_vars, NEW s \in Requests, Unheard(s)
    PROVE  Unheard(s)'
  <1>0. /\ FlagEvent(s) /\ ResponsesEvent(s)
        /\ Responses(s) \in Nat /\ Responses(s)' \in Nat
    BY FlagEvents, ResponsesAfter, ResponsesType
  <1> SUFFICES ASSUME ~req'[s].m_didNotifyResponse
               PROVE  req'[s].m_actionAfterInvoke = "None" /\ Responses(s)' = 0
    BY DEF Unheard
  <1>1. /\ req'[s].m_didNotifyResponse = req[s].m_didNotifyResponse
        /\ req'[s].m_actionAfterInvoke = req[s].m_actionAfterInvoke
    BY <1>0 DEF FlagEvent, Steady, SameNotify, Cancelled, Forgotten, Started,
                Completed, Headed, NotifyingStep, NotifiedOf
  <1>2. req'[s].m_actionAfterInvoke = "None" /\ Responses(s) = 0
    BY <1>1 DEF Unheard
  <1>3. ~ResponseOf(s) /\ ~NotifiedOf(s, "None")
    BY DEF ResponseOf, NotifiedOf
  <1>4. Responses(s)' <= Responses(s)
    BY <1>0, <1>3 DEF ResponsesEvent
  <1> QED
    BY <1>0, <1>2, <1>4

\* Who makes a transfer wait for the answer to finish it.
LEMMA FinishAfter ==
    ASSUME Types, [Next]_vars, NEW s \in Requests,
           req'[s].m_actionAfterInvoke = "FinishTransfer"
    PROVE  \/ req[s].m_actionAfterInvoke = "FinishTransfer"
           \/ FinishLater /\ worker.r = s /\ ~req[s].m_didNotifyResponse
  <1>1. FlagEvent(s)
    BY FlagEvents
  <1>2. FinishLater /\ worker.r = s => ~req[s].m_didNotifyResponse
    BY DEF FinishLater, NeedToInvokeDidReceiveResponse
  <1> QED
    BY <1>1, <1>2 DEF FlagEvent, Steady, SameNotify, Cancelled, Forgotten, Started,
                      Completed, Headed, NotifyingStep, NotifiedOf

\* The curl thread gets into didCompleteTransfer() with a task.
LEMMA FinishingAfter ==
    ASSUME Types, [Next]_vars, NEW s \in Requests, Finishing(s)'
    PROVE  \/ Finishing(s)
           \/ /\ EndBegins(s) /\ ~Finishing(s)
              /\ Queued("finalize", s) \/ (RunDidComplete /\ Queued("didComplete", s))
  <1>1. WorkerEvent(s)
    BY WorkerEvents
  <1>2. UNCHANGED worker => Finishing(s)
    BY DEF Finishing
  <1>3. FinishNow /\ worker.r = s => Finishing(s)
    BY DEF Finishing, FinishNow
  <1>4. ASSUME EndBegins(s)
        PROVE  /\ ~Finishing(s)
               /\ Queued("finalize", s) \/ (RunDidComplete /\ Queued("didComplete", s))
    <2>1. \/ Runs("finalize")
          \/ Runs("didComplete") /\ RunDidComplete
      BY <1>4 DEF EndBegins, Finalize, RunDidComplete
    <2>2. worker.at = "idle" /\ Head(batch).r = s
      BY <1>4, <2>1 DEF EndBegins, Runs
    <2> QED
      BY <2>1, <2>2, RunsQueued DEF Finishing, Runs
  <1> QED
    BY <1>1, <1>2, <1>3, <1>4 DEF WorkerEvent

\* One end remains one.
LEMMA OneEndStep ==
    ASSUME Types, Types', LifeInv, CancelInv, [Next]_vars, NEW s \in Requests,
           Unheard(s), OneEnd(s)
    PROVE  OneEnd(s)'
  <1>0. /\ Life(s) /\ FlagEvent(s) /\ TaskEvent /\ ResponsesEvent(s)
        /\ Responses(s) \in Nat /\ Responses(s)' \in Nat
        /\ Completes(s) \in Nat /\ Completes(s)' \in Nat
        /\ Queued("didComplete", s) <=> Completes(s) # 0
        /\ Ending(s) \in {0, 1} /\ Ending(s)' \in {0, 1}
    BY FlagEvents, TaskEvents, ResponsesAfter, ResponsesType, CompletesType
       DEF LifeInv, Ending
  <1>1. CASE FinishLater /\ worker.r = s /\ ~req[s].m_didNotifyResponse
    <2>1. Responses(s) = 0 /\ Completes(s) = 0
      BY <1>0, <1>1 DEF Unheard, OneEnd
    <2>2. Queue' = Queue /\ worker' = [at |-> "idle"]
      BY <1>1 DEF FinishLater, schedVars, Queue
    <2>3. Completes(s)' = 0 /\ Ending(s)' = 0
      BY <2>1, <2>2 DEF Completes, CompletesOf, Ending, Finishing
    <2>4. Responses(s)' <= 1
      BY <1>0, <2>1 DEF ResponsesEvent
    <2> QED
      BY <1>0, <2>3, <2>4 DEF OneEnd
  <1>2. CASE ~(FinishLater /\ worker.r = s /\ ~req[s].m_didNotifyResponse)
    <2>1. req'[s].m_actionAfterInvoke = "FinishTransfer"
            => req[s].m_actionAfterInvoke = "FinishTransfer"
      BY <1>2, FinishAfter
    <2>2. ASSUME req[s].m_actionAfterInvoke = "FinishTransfer"
          PROVE  /\ Responses(s)' + Completes(s)' + Ending(s)' <= 1
                 /\ req'[s].m_actionAfterInvoke = "FinishTransfer"
      <3>1. Over(s) /\ Responses(s) + Completes(s) + Ending(s) <= 1
        BY <2>2 DEF OneEnd, Over
      <3>2. /\ ~Queued("finalize", s) /\ ~InCurl(s) /\ ~Queued("respondForFile", s)
            /\ req[s].m_didNotifyResponse
        BY <1>0, <2>2, <3>1 DEF Life, Begun, Unheard
      <3>3. \A part : ~DidReceiveData(s, part)
        BY <3>2 DEF DidReceiveData, Receives, Performs, InCurl
      <3>4. ~(RespondForFile /\ Head(batch).r = s)
        BY <3>2, RunsQueued DEF RespondForFile, Runs
      <3>5. ~(FinishLater /\ worker.r = s)
        BY <3>2 DEF FinishLater, NeedToInvokeDidReceiveResponse
      <3>6. ~ResponseOf(s) /\ ~DataOf(s) /\ ~NotifyingStep(s)
        BY <3>3, <3>4, <3>5 DEF ResponseOf, DataOf, NotifyingStep
      <3>7. req'[s].m_actionAfterInvoke = "FinishTransfer"
        BY <1>0, <2>2, <3>6 DEF FlagEvent, Steady, SameNotify, Cancelled, Forgotten,
                                Started, Completed, Headed
      <3>8. Responses(s)' <= Responses(s)
        BY <1>0, <3>6 DEF ResponsesEvent
      <3>9. CASE Finishing(s)' /\ ~Finishing(s)
        <4>1. RunDidComplete /\ Head(batch).r = s
          BY <3>2, <3>9, FinishingAfter DEF EndBegins
        <4>2. Completes(s)' = Completes(s) - 1
          BY <4>1, CompletesRun
        <4>3. Ending(s) = 0 /\ Ending(s)' = 1
          BY <3>9 DEF Ending
        <4> QED
          BY <1>0, <3>1, <3>7, <3>8, <4>2, <4>3
      <3>10. CASE ~(Finishing(s)' /\ ~Finishing(s))
        <4>1. Ending(s)' <= Ending(s)
          BY <1>0, <3>10 DEF Ending
        <4>2. \/ Completes(s)' = Completes(s)
              \/ Completes(s)' = Completes(s) + 1 /\ CompleteDidReceiveResponse(s)
              \/ Completes(s)' = Completes(s) - 1
          BY <1>0, CompletesAfter
        <4>3. CASE Completes(s)' = Completes(s) + 1 /\ CompleteDidReceiveResponse(s)
          <5>1. Responses(s)' = Responses(s) - 1
            BY <4>3, ResponsesAfter
          <5> QED
            BY <1>0, <3>1, <3>7, <4>1, <4>3, <5>1
        <4> QED
          BY <1>0, <3>1, <3>7, <3>8, <4>1, <4>2, <4>3
      <3> QED
        BY <3>9, <3>10
    <2>3. ASSUME Completes(s)' # 0 PROVE req[s].m_actionAfterInvoke = "FinishTransfer"
      <3>1. \/ Completes(s) # 0
            \/ req[s].m_actionAfterInvoke = "FinishTransfer"
        BY <1>0, <2>3, CompletesAfter
      <3> QED
        BY <3>1 DEF OneEnd
    <2> QED
      BY <2>1, <2>2, <2>3 DEF OneEnd
  <1> QED
    BY <1>1, <1>2

\* A task of s that is queued after a step was queued before or is new.
LEMMA QueuedAfter ==
    ASSUME Types, Types', TaskEvent, NEW do, NEW s, Queued(do, s)'
    PROVE  \/ Queued(do, s)
           \/ \E t : t.do = do /\ t.r = s /\ (NewTask(t) \/ Refused(t))
  BY TasksAfter DEF Queued

\* Who queues a task for s that starts it or finalizes it.
LEMMA StartAfter ==
    ASSUME Types, Types', TaskEvent, NEW s \in Requests,
           NEW do \in {"respondForFile", "startTransfer", "finalize"}, Queued(do, s)'
    PROVE  \/ Queued(do, s)
           \/ ~req[s].started /\ do = "respondForFile"
           \/ ~req[s].started /\ do = "startTransfer" /\ ~req[s].local
           \/ /\ do = "startTransfer" /\ ~req[s].m_completed
              /\ req[s].m_actionAfterInvoke = "StartTransfer"
           \/ /\ do = "finalize"
              /\ s \in m_activeJobs \/ InCurl(s) \/ Queued("startTransfer", s)
  <1> SUFFICES ASSUME NEW t, t.do = do, t.r = s, NewTask(t) \/ Refused(t)
               PROVE  \/ ~req[s].started /\ do = "respondForFile"
                      \/ ~req[s].started /\ do = "startTransfer" /\ ~req[s].local
                      \/ /\ do = "startTransfer" /\ ~req[s].m_completed
                         /\ req[s].m_actionAfterInvoke = "StartTransfer"
                      \/ /\ do = "finalize"
                         /\ \/ s \in m_activeJobs \/ InCurl(s)
                            \/ Queued("startTransfer", s)
    BY QueuedAfter
  <1>1. Start(s) => ~req[s].started
    BY DEF Start
  <1>2. ~IsCompletedOrCancelled(req[s]) => ~req[s].m_completed
    BY DEF IsCompletedOrCancelled
  <1>3. \A how \in Result : TransferDone(s, how) => InCurl(s)
    BY DEF TransferDone, Performs, InCurl
  <1>4. ASSUME Refused(t) PROVE do = "finalize" /\ Queued("startTransfer", s)
    BY <1>4, RunsQueued DEF Refused, StartTransferFails, SetupTransfer
  <1> QED
    BY <1>1, <1>2, <1>3, <1>4 DEF NewTask

\* What was completed stays so, and is completed by the end of
\* didCompleteTransfer() alone.
LEMMA AllDoneStep ==
    ASSUME Types, Types', LifeInv, CancelInv, [Next]_vars, NEW s \in Requests,
           OneEnd(s), AllDone(s)
    PROVE  AllDone(s)'
  <1>0. /\ Life(s) /\ FlagEvent(s) /\ TaskEvent /\ CurlEvent(s)
        /\ Responses(s) \in Nat /\ Completes(s) \in Nat /\ Completes(s)' \in Nat
        /\ Queued("didComplete", s) <=> Completes(s) # 0
    BY FlagEvents, TaskEvents, CurlEvents, ResponsesType, CompletesType DEF LifeInv
  <1>1. CASE Completed(s)
    <2>1. SetCompleted /\ worker.r = s /\ Finishing(s) /\ Over(s) /\ Begun(s)
      BY <1>1 DEF Completed, SetCompleted, Finishing, Over, Begun
    <2>2. /\ req[s].started /\ s \notin m_activeJobs /\ ~InCurl(s)
          /\ ~Queued("respondForFile", s) /\ ~Queued("startTransfer", s)
          /\ ~Queued("finalize", s)
      BY <1>0, <2>1 DEF Life
    <2>3. Completes(s) = 0
      BY <1>0, <2>1 DEF OneEnd, Ending
    <2>4. /\ UNCHANGED <<batch, m_taskQueue, m_activeJobs, curl>>
          /\ worker' = [at |-> "idle"]
      BY <2>1 DEF SetCompleted, schedVars
    <2>5. /\ Completes(s)' = Completes(s) /\ ~Finishing(s)'
          /\ InCurl(s)' <=> InCurl(s)
          /\ \A do : Queued(do, s)' <=> Queued(do, s)
      BY <2>4 DEF Completes, CompletesOf, Queue, Finishing, InCurl, Queued, Tasks
    <2>6. req'[s].started
      BY <1>1, <2>2 DEF Completed
    <2> QED
      BY <2>2, <2>3, <2>4, <2>5, <2>6 DEF AllDone, Idle
  <1>2. CASE ~Completed(s)
    <2> SUFFICES ASSUME req'[s].m_completed PROVE Idle(s)'
      BY DEF AllDone
    <2>1. req[s].m_completed /\ (req[s].started => req'[s].started)
      BY <1>0, <1>2 DEF FlagEvent, Steady, SameProgress, Cancelled, Forgotten, Started,
                        Headed, NotifyingStep, NotifiedOf
    <2>2. Idle(s)
      BY <2>1 DEF AllDone
    <2>3. s \notin m_activeJobs'
      BY <2>1, <2>2, ActiveAfter DEF Idle, Start, IsCompletedOrCancelled
    <2>4. ~InCurl(s)'
      <3>1. ~(StartTransfer /\ Head(batch).r = s)
        BY <2>2, RunsQueued DEF StartTransfer, SetupTransfer, Idle
      <3>2. \A how : ~TransferDone(s, how)
        BY <2>2 DEF TransferDone, Performs, InCurl, Idle
      <3> QED
        BY <1>0, <2>2, <3>1, <3>2
           DEF CurlEvent, SameTransfer, Moved, InCurl, Idle, DataOf
    <2>5. ~Finishing(s)'
      BY <1>0, <2>2, FinishingAfter DEF Idle
    <2>6. Completes(s)' = 0
      BY <1>0, <2>1, <2>2, CompletesAfter DEF Idle, IsCompletedOrCancelled
    <2>7. /\ ~Queued("respondForFile", s)' /\ ~Queued("startTransfer", s)'
          /\ ~Queued("finalize", s)'
      BY <1>0, <2>1, <2>2, StartAfter DEF Idle
    <2> QED
      BY <2>1, <2>2, <2>3, <2>4, <2>5, <2>6, <2>7 DEF Idle
  <1> QED
    BY <1>1, <1>2

\* So that is inductive.
LEMMA OnceStep ==
    ASSUME Types, Types', LifeInv, CancelInv, OnceInv, [Next]_vars PROVE OnceInv'
  BY UnheardStep, OneEndStep, AllDoneStep DEF OnceInv

(***************************************************************************)
(* A transfer that is complete has a response.                             *)
(***************************************************************************)

\* The headers of a response that libcurl has delivered are received; the
\* client of a local file is notified before the scheduler has the request;
\* and a transfer without error was ended by libcurl after one of these.
Answers(r) == req[r].m_didNotifyResponse \/ req[r].m_didReceiveResponse
Answered(r) ==
    /\ curl[r].headers = "all" => req[r].m_didReceiveResponse
    /\ req[r].local /\ Begun(r) => req[r].m_didNotifyResponse
    /\ \A t \in Tasks : t.do = "finalize" /\ t.r = r /\ t.how = "ok" =>
         curl[r].state = "over" /\ Answers(r)
    /\ worker.at = "complete" =>
         (worker.r = r /\ worker.how = "ok" => Answers(r))

AnsweredInv == \A r \in Requests : Answered(r)

\* The scheduler gets a local file after its client was notified.
LEMMA BegunAfter ==
    ASSUME Types, Types', LifeInv, CancelInv, [Next]_vars, NEW s \in Requests,
           Unheard(s), OneEnd(s), Begun(s)'
    PROVE  Begun(s) \/ ~req[s].local \/ req'[s].m_didNotifyResponse
  <1>0. /\ Life(s) /\ FlagEvent(s) /\ TaskEvent /\ CurlEvent(s)
    BY FlagEvents, TaskEvents, CurlEvents DEF LifeInv
  <1> SUFFICES ASSUME ~Begun(s), req[s].local, ~req'[s].m_didNotifyResponse
               PROVE  FALSE
    OBVIOUS
  <1>1. /\ ~req[s].m_didNotifyResponse /\ ~Over(s)
        /\ req[s].m_actionAfterInvoke = "None"
        /\ req'[s].m_actionAfterInvoke = "None"
    <2>1. /\ req'[s].m_didNotifyResponse = req[s].m_didNotifyResponse
          /\ req'[s].m_actionAfterInvoke = req[s].m_actionAfterInvoke
      BY <1>0 DEF FlagEvent, Steady, SameNotify, Cancelled, Forgotten, Started,
                  Completed, Headed, NotifyingStep, NotifiedOf
    <2> QED
      BY <2>1 DEF Unheard, Begun
  <1>2. s \notin m_activeJobs'
    BY <1>1, ActiveAfter DEF Begun
  <1>3. ~Queued("startTransfer", s)' /\ ~Queued("finalize", s)'
    BY <1>0, <1>1, StartAfter DEF Begun, InCurl
  <1>4. ~Queued("didCancel", s)'
    <2>1. ASSUME NEW t, t.do = "didCancel", t.r = s PROVE ~NewTask(t) /\ ~Refused(t)
      BY <1>1, <2>1 DEF NewTask, Refused, NeedToInvokeDidCancelTransfer
    <2> QED
      BY <1>0, <1>1, <2>1, QueuedAfter DEF Over
  <1>5. ~Queued("didComplete", s)'
    <2>1. ASSUME NEW t, t.do = "didComplete", t.r = s PROVE ~NewTask(t) /\ ~Refused(t)
      BY <1>1, <2>1 DEF NewTask, Refused
    <2> QED
      BY <1>0, <1>1, <2>1, QueuedAfter DEF Over
  <1>6. ~Finishing(s)'
    BY <1>1, FinishingAfter DEF Begun, Over
  <1>7. curl'[s].state = "none"
    <2>1. curl[s].state = "none"
      BY DEF Begun
    <2>2. ~(StartTransfer /\ Head(batch).r = s)
      BY RunsQueued DEF StartTransfer, SetupTransfer, Begun
    <2>3. ~(Finalize /\ Head(batch).r = s)
      BY RunsQueued DEF Finalize, Runs, Begun
    <2>4. \A how : ~TransferDone(s, how)
      BY <2>1 DEF TransferDone, Performs
    <2> QED
      BY <1>0, <2>1, <2>2, <2>3, <2>4 DEF CurlEvent, SameTransfer
  <1> QED
    BY <1>1, <1>2, <1>3, <1>4, <1>5, <1>6, <1>7 DEF Begun, Over

\* A notified client stays so, and only a header makes a response incomplete.
LEMMA AnswersStay ==
    ASSUME Types, [Next]_vars, NEW s \in Requests
    PROVE  /\ req[s].m_didNotifyResponse => req'[s].m_didNotifyResponse
           /\ req[s].m_didReceiveResponse => req'[s].m_didReceiveResponse \/ Headed(s)
           /\ Answers(s) => Answers(s)' \/ Performs(s)
           /\ req'[s].local = req[s].local
  <1>1. FlagEvent(s)
    BY FlagEvents
  <1>2. Headed(s) => Performs(s)
    BY DEF Headed, DidReceiveHeader, Receives
  <1>3. req[s].m_didNotifyResponse => req'[s].m_didNotifyResponse
    BY <1>1 DEF FlagEvent, Steady, SameNotify, Cancelled, Forgotten, Started,
                Completed, Headed, NotifyingStep, NotifiedOf
  <1>4. req[s].m_didReceiveResponse => req'[s].m_didReceiveResponse \/ Headed(s)
    BY <1>1 DEF FlagEvent, Steady, SameNotify, Cancelled, Forgotten, Started,
                Completed, NotifyingStep, NotifiedOf
  <1>5. req'[s].local = req[s].local
    BY <1>1 DEF FlagEvent, Steady, SameProgress, Cancelled, Forgotten, Started,
                Completed, Headed, NotifyingStep, NotifiedOf
  <1> QED
    BY <1>2, <1>3, <1>4, <1>5 DEF Answers

\* Headers that are complete are received.
LEMMA HeadersStep ==
    ASSUME Types, CancelInv, [Next]_vars, NEW s \in Requests, Answered(s),
           curl'[s].headers = "all"
    PROVE  req'[s].m_didReceiveResponse
  <1>1. CASE Headed(s)
    <2>1. PICK last \in BOOLEAN, multipart \in BOOLEAN :
            /\ DidReceiveHeader(s, last, multipart)
            /\ ~IsCompletedOrCancelled(req[s])
            /\ req'[s].m_didReceiveResponse = last
      BY <1>1 DEF Headed
    <2>2. curl' = [curl EXCEPT ![s].blocks = @ + 1,
                     ![s].headers = IF last THEN "all" ELSE "part"]
      BY <2>1 DEF DidReceiveHeader
    <2>3. curl'[s].headers = IF last THEN "all" ELSE "part"
      BY <2>2 DEF Types, TransferTypes, Transfer
    <2> QED
      BY <2>1, <2>3
  <1>2. CASE ~Headed(s)
    <2>1. curl[s].headers = "all" => req'[s].m_didReceiveResponse
      BY <1>2, AnswersStay DEF Answered
    <2> QED
      BY <2>1, CurlEvents DEF CurlEvent, SameTransfer, Moved
  <1> QED
    BY <1>1, <1>2

\* A transfer that ended well has a response, until its end is posted.
LEMMA OkStep ==
    ASSUME Types, Types', LifeInv, CancelInv, [Next]_vars, NEW s \in Requests,
           Answered(s), NEW t \in Tasks', t.do = "finalize", t.r = s, t.how = "ok"
    PROVE  curl'[s].state = "over" /\ Answers(s)'
  <1>0. /\ Life(s) /\ TaskEvent /\ CurlEvent(s) /\ QueueTypes /\ QueueTypes'
        /\ Ordered(Queue)
    BY TaskEvents, CurlEvents DEF LifeInv, Types
  <1>1. CASE t \in Tasks
    <2>1. curl[s].state = "over" /\ Answers(s)
      BY <1>1 DEF Answered
    <2>2. ~Performs(s)
      BY <2>1 DEF Performs
    <2>3. ~(StartTransfer /\ Head(batch).r = s)
      BY <1>0, <2>1, RunsQueued DEF StartTransfer, SetupTransfer, Life
    <2>4. ~(Finalize /\ Head(batch).r = s)
      <3> SUFFICES ASSUME Finalize, Head(batch).r = s PROVE FALSE
        OBVIOUS
      <3>1. Runs("finalize") /\ UNCHANGED m_taskQueue
        BY DEF Finalize
      <3>2. Follows(Head(batch), t) /\ Head(batch).do = "finalize"
        BY <1>0, <3>1, TaskRun DEF Runs, Dequeues
      <3> QED
        BY <3>2 DEF Follows
    <2>5. curl'[s].state = "over"
      BY <1>0, <2>1, <2>3, <2>4 DEF CurlEvent, SameTransfer, Moved
    <2> QED
      BY <2>1, <2>2, <2>5, AnswersStay
  <1>2. CASE NewTask(t)
    <2>1. TransferDone(s, "ok")
      BY <1>2 DEF NewTask
    <2>2. /\ Performs(s) /\ UNCHANGED req
          /\ curl' = [curl EXCEPT ![s].state = "over"]
          /\ curl[s].headers = "all" \/ req[s].local
      BY <2>1 DEF TransferDone
    <2>3. curl'[s].state = "over"
      BY <2>2 DEF Types, TransferTypes, Transfer
    <2>4. Begun(s)
      BY <2>2 DEF Begun, Performs
    <2>5. Answers(s)
      BY <2>2, <2>4 DEF Answered, Answers
    <2> QED
      BY <2>2, <2>3, <2>5 DEF Answers
  <1>3. ~Refused(t)
    BY DEF Refused
  <1> QED
    BY <1>0, <1>1, <1>2, <1>3, TasksAfter

\* So does one whose end the curl thread is about to post.
LEMMA EndStep ==
    ASSUME Types, CancelInv, [Next]_vars, NEW s \in Requests,
           Unheard(s), OneEnd(s), Answered(s),
           worker'.at = "complete", worker'.r = s, worker'.how = "ok"
    PROVE  Answers(s)'
  <1>0. WorkerEvent(s) /\ Finishing(s)'
    BY WorkerEvents DEF Finishing
  <1>1. CASE UNCHANGED worker
    <2>1. Answers(s) /\ ~Performs(s)
      BY <1>1 DEF Answered, Performs
    <2> QED
      BY <2>1, AnswersStay
  <1>2. CASE EndBegins(s)
    <2>1. Head(batch).how = "ok" /\ Head(batch).r = s /\ batch # <<>>
      BY <1>2 DEF EndBegins, Finalize, RunDidComplete, Runs, Dequeues
    <2>2. CASE Finalize
      <3>1. Head(batch) \in Tasks /\ Head(batch).do = "finalize"
        BY <2>2, RunsQueued DEF Finalize, Runs, Dequeues
      <3>2. Answers(s)
        BY <2>1, <3>1 DEF Answered
      <3> QED
        BY <2>1, <3>2, AnswersStay DEF Performs
    <2>3. CASE RunDidComplete
      <3>1. Queued("didComplete", s)
        BY <2>1, <2>3, RunsQueued DEF RunDidComplete, Runs
      <3>2. Completes(s) # 0
        BY <3>1, CompletesType
      <3>3. req[s].m_didNotifyResponse
        BY <3>2 DEF OneEnd, Unheard
      <3> QED
        BY <3>3, AnswersStay DEF Answers
    <2> QED
      BY <1>2, <2>2, <2>3 DEF EndBegins
  <1> QED
    BY <1>0, <1>1, <1>2 DEF WorkerEvent

\* So that is inductive too.
LEMMA AnsweredStep ==
    ASSUME Types, Types', LifeInv, CancelInv, OnceInv, AnsweredInv, [Next]_vars
    PROVE  AnsweredInv'
  <1> SUFFICES ASSUME NEW s \in Requests PROVE Answered(s)'
    BY DEF AnsweredInv
  <1>0. Unheard(s) /\ OneEnd(s) /\ Answered(s)
    BY DEF OnceInv, AnsweredInv
  <1>1. curl'[s].headers = "all" => req'[s].m_didReceiveResponse
    BY <1>0, HeadersStep
  <1>2. ASSUME req'[s].local, Begun(s)' PROVE req'[s].m_didNotifyResponse
    <2>1. req[s].local
      BY <1>2, AnswersStay
    <2>2. Begun(s) => req'[s].m_didNotifyResponse
      BY <1>0, <2>1, AnswersStay DEF Answered
    <2> QED
      BY <1>0, <1>2, <2>1, <2>2, BegunAfter
  <1>3. \A t \in Tasks' : t.do = "finalize" /\ t.r = s /\ t.how = "ok" =>
          curl'[s].state = "over" /\ Answers(s)'
    BY <1>0, OkStep
  <1>4. worker'.at = "complete" =>
          (worker'.r = s /\ worker'.how = "ok" => Answers(s)')
    BY <1>0, EndStep
  <1> QED
    BY <1>1, <1>2, <1>3, <1>4 DEF Answered

(***************************************************************************)
(* Stories: what a client was told, and will have been told when the       *)
(* functions ahead of it have run.                                         *)
(***************************************************************************)

HasEnd(t) == \E i \in DOMAIN t : t[i].is \in Ends
HasResponse(t) == \E i \in DOMAIN t : t[i].is = "response"

\* What ClientHearsInOrder asks of the story t of a request of which libcurl
\* has delivered n pieces.
Orderly(t, n) ==
    /\ \A i \in DOMAIN t : t[i].is \in Ends => i = Len(t)
    /\ \A i \in Pieces(t) :
         /\ \E j \in 1 .. i - 1 : t[j].is = "response"
         /\ t[i].n = Count({j \in Pieces(t) : j <= i})
    /\ \A i \in DOMAIN t : t[i].is = "complete" =>
         /\ \E j \in 1 .. i - 1 : t[j].is = "response"
         /\ Count(Pieces(t)) = n

\* What an event adds to a story.
LEMMA StoryAppend ==
    ASSUME NEW t \in Seq(Event), NEW e \in Event
    PROVE  /\ Append(t, e) \in Seq(Event)
           /\ HasEnd(Append(t, e)) <=> HasEnd(t) \/ e.is \in Ends
           /\ HasResponse(Append(t, e)) <=> HasResponse(t) \/ e.is = "response"
           /\ Count(Pieces(t)) \in Nat
           /\ Count(Pieces(Append(t, e)))
                = Count(Pieces(t)) + IF e.is = "data" THEN 1 ELSE 0
  <1> DEFINE p == Append(t, e)
             S == {x \in Event : x.is = "data"}
  <1>1. /\ p \in Seq(Event) /\ Len(p) = Len(t) + 1 /\ p[Len(t) + 1] = e
        /\ DOMAIN t = 1 .. Len(t) /\ DOMAIN p = 1 .. Len(t) + 1 /\ Len(t) \in Nat
        /\ \A i \in 1 .. Len(t) : p[i] = t[i]
    BY AppendProperties, LenProperties
  <1>2. ASSUME NEW q \in Seq(Event) PROVE Count(Pieces(q)) = Hits(q, S)
    <2>1. \A i \in DOMAIN q : q[i] \in Event
      BY LenProperties, ElementOfSeq
    <2>2. Pieces(q) = HitsAt(q, S)
      BY <2>1 DEF Pieces, HitsAt
    <2> QED
      BY <2>2 DEF Count, Hits
  <1>3. e \in S <=> e.is = "data"
    OBVIOUS
  <1> HIDE DEF S
  <1>4. Hits(p, S) = Hits(t, S) + IF e.is = "data" THEN 1 ELSE 0
    BY <1>3, HitsAppend
  <1>5. Hits(t, S) \in Nat
    BY HitsType
  <1>6. Count(Pieces(p)) = Count(Pieces(t)) + IF e.is = "data" THEN 1 ELSE 0
    BY <1>1, <1>2, <1>4
  <1>7. Count(Pieces(t)) \in Nat
    BY <1>2, <1>5
  <1> HIDE DEF p
  <1>8. HasEnd(p) <=> HasEnd(t) \/ e.is \in Ends
    BY <1>1 DEF HasEnd
  <1>9. HasResponse(p) <=> HasResponse(t) \/ e.is = "response"
    BY <1>1 DEF HasResponse
  <1> QED
    BY <1>1, <1>6, <1>7, <1>8, <1>9 DEF p

\* A story goes on in order.
LEMMA OrderlyAppend ==
    ASSUME NEW t \in Seq(Event), NEW e \in Event, NEW n, NEW m,
           Orderly(t, n), ~HasEnd(t),
           e.is = "data" => HasResponse(t) /\ e.n = Count(Pieces(t)) + 1,
           e.is = "complete" => HasResponse(t) /\ Count(Pieces(t)) = m
    PROVE  Orderly(Append(t, e), m)
  <1> DEFINE p == Append(t, e)
             k == Len(t) + 1
  <1>1. /\ p \in Seq(Event) /\ Len(p) = k /\ p[k] = e /\ k \in Nat
        /\ DOMAIN t = 1 .. Len(t) /\ DOMAIN p = 1 .. k /\ Len(t) \in Nat
        /\ \A i \in 1 .. Len(t) : p[i] = t[i]
    BY AppendProperties, LenProperties
  <1>2. Count(Pieces(p)) = Count(Pieces(t)) + IF e.is = "data" THEN 1 ELSE 0
    BY StoryAppend
  <1>3. Count(Pieces(t)) \in Nat
    BY StoryAppend
  <1> HIDE DEF p
  <1>4. \A i \in DOMAIN p : p[i].is \in Ends => i = Len(p)
    BY <1>1 DEF HasEnd
  <1>5. ASSUME NEW i \in Pieces(p)
        PROVE  /\ \E j \in 1 .. i - 1 : p[j].is = "response"
               /\ p[i].n = Count({j \in Pieces(p) : j <= i})
    <2>1. CASE i \in 1 .. Len(t)
      <3>1. i \in Pieces(t) /\ p[i] = t[i]
        BY <1>1, <1>5, <2>1 DEF Pieces
      <3>2. PICK j \in 1 .. i - 1 : t[j].is = "response"
        BY <3>1 DEF Orderly
      <3>3. p[j] = t[j]
        BY <1>1, <2>1
      <3>4. {x \in Pieces(p) : x <= i} = {x \in Pieces(t) : x <= i}
        BY <1>1, <2>1 DEF Pieces
      <3>5. t[i].n = Count({x \in Pieces(t) : x <= i})
        BY <3>1 DEF Orderly
      <3> QED
        BY <3>1, <3>2, <3>3, <3>4, <3>5
    <2>2. CASE i = k
      <3>1. e.is = "data"
        BY <1>1, <1>5, <2>2 DEF Pieces
      <3>2. PICK j \in DOMAIN t : t[j].is = "response"
        BY <3>1 DEF HasResponse
      <3>3. j \in 1 .. i - 1 /\ p[j].is = "response"
        BY <1>1, <2>2, <3>2
      <3>4. {x \in Pieces(p) : x <= i} = Pieces(p)
        BY <1>1, <2>2 DEF Pieces
      <3>5. p[i].n = Count(Pieces(p))
        BY <1>1, <1>2, <2>2, <3>1
      <3> QED
        BY <3>3, <3>4, <3>5
    <2>3. i \in 1 .. k
      BY <1>1, <1>5 DEF Pieces
    <2> QED
      BY <1>1, <2>1, <2>2, <2>3
  <1>6. ASSUME NEW i \in DOMAIN p, p[i].is = "complete"
        PROVE  /\ \E j \in 1 .. i - 1 : p[j].is = "response"
               /\ Count(Pieces(p)) = m
    <2>1. i = k /\ e.is = "complete"
      BY <1>1, <1>4, <1>6 DEF Ends
    <2>2. PICK j \in DOMAIN t : t[j].is = "response"
      BY <2>1 DEF HasResponse
    <2>3. j \in 1 .. i - 1 /\ p[j].is = "response"
      BY <1>1, <2>1, <2>2
    <2>4. Count(Pieces(p)) = m
      BY <1>2, <1>3, <2>1
    <2> QED
      BY <2>3, <2>4
  <1>7. Orderly(p, m)
    BY <1>4, <1>5, <1>6 DEF Orderly
  <1> QED
    BY <1>7 DEF p

\* A story without an end does not depend on how much is still to come.
LEMMA OrderlyOpen ==
    ASSUME NEW t, NEW n, NEW m, Orderly(t, n), ~HasEnd(t)
    PROVE  Orderly(t, m)
  BY DEF Orderly, HasEnd, Ends

\* The story after a function of the main thread.
Mine(r, u) == u.do = "client" /\ u.r = r
Heard(t, u, r) == IF Mine(r, u) THEN Append(t, u.what) ELSE t

\* From t, the functions q lead over the stories H to z.
Hearing(q, r, t, H, z) ==
    \E h \in [0 .. Len(q) -> Seq(Event)] :
      /\ h[0] = t /\ h[Len(q)] = z
      /\ H = {h[i] : i \in 0 .. Len(q)}
      /\ \A i \in 1 .. Len(q) : h[i] = Heard(h[i - 1], q[i], r)

\* Functions that lead nowhere.
LEMMA HearingEmpty ==
    ASSUME NEW r, NEW t \in Seq(Event) PROVE Hearing(<<>>, r, t, {t}, t)
  <1> DEFINE h == [i \in {0} |-> t]
  <1>1. Len(<<>>) = 0 /\ 0 .. 0 = {0} /\ 1 .. 0 = {}
    OBVIOUS
  <1>2. h \in [0 .. Len(<<>>) -> Seq(Event)]
    BY <1>1
  <1>3. h[0] = t /\ {h[i] : i \in {0}} = {t}
    OBVIOUS
  <1> QED
    BY <1>1, <1>2, <1>3 DEF Hearing

\* The stories are among those on the way.
LEMMA HearingFacts ==
    ASSUME NEW q \in Seq(MainTask), NEW r, NEW t, NEW H, NEW z, Hearing(q, r, t, H, z)
    PROVE  t \in H /\ z \in H /\ H \subseteq Seq(Event)
  <1>1. Len(q) \in Nat
    BY LenProperties
  <1> QED
    BY <1>1 DEF Hearing

\* A story of the client of r after a function is one.
LEMMA HeardType ==
    ASSUME NEW t \in Seq(Event), NEW u \in MainTask, NEW r
    PROVE  Heard(t, u, r) \in Seq(Event)
  <1>1. u.do = "client" => u.what \in Event
    BY DEF MainTask
  <1> QED
    BY <1>1, AppendProperties DEF Heard, Mine

\* A function is posted.
LEMMA HearingAppend ==
    ASSUME NEW q \in Seq(MainTask), NEW u \in MainTask, NEW r, NEW t, NEW H, NEW z,
           Hearing(q, r, t, H, z)
    PROVE  Hearing(Append(q, u), r, t, H \cup {Heard(z, u, r)}, Heard(z, u, r))
  <1> DEFINE p == Append(q, u)
             k == Len(q) + 1
             y == Heard(z, u, r)
  <1>1. /\ p \in Seq(MainTask) /\ Len(p) = k /\ p[k] = u /\ k \in Nat
        /\ Len(q) \in Nat /\ \A i \in 1 .. Len(q) : p[i] = q[i]
    BY AppendProperties, LenProperties
  <1>2. PICK h \in [0 .. Len(q) -> Seq(Event)] :
          /\ h[0] = t /\ h[Len(q)] = z
          /\ H = {h[i] : i \in 0 .. Len(q)}
          /\ \A i \in 1 .. Len(q) : h[i] = Heard(h[i - 1], q[i], r)
    BY DEF Hearing
  <1>3. y \in Seq(Event)
    BY <1>1, <1>2, HeardType
  <1> HIDE DEF p, y
  <1> DEFINE g == [i \in 0 .. k |-> IF i = k THEN y ELSE h[i]]
  <1>4. g \in [0 .. k -> Seq(Event)]
    BY <1>1, <1>2, <1>3
  <1>5. g[0] = t /\ g[k] = y /\ \A i \in 0 .. Len(q) : g[i] = h[i]
    BY <1>1, <1>2
  <1> HIDE DEF g
  <1>6. \A i \in 1 .. k : g[i] = Heard(g[i - 1], p[i], r)
    <2> SUFFICES ASSUME NEW i \in 1 .. k PROVE g[i] = Heard(g[i - 1], p[i], r)
      OBVIOUS
    <2>1. CASE i = k
      <3>1. g[i - 1] = z /\ p[i] = u /\ g[i] = y
        BY <1>1, <1>2, <1>5, <2>1
      <3> QED
        BY <3>1 DEF y
    <2>2. CASE i # k
      <3>1. i \in 1 .. Len(q) /\ i - 1 \in 0 .. Len(q) /\ i \in 0 .. Len(q)
        BY <1>1, <2>2
      <3> QED
        BY <1>1, <1>2, <1>5, <3>1
    <2> QED
      BY <2>1, <2>2
  <1>7. H \cup {y} = {g[i] : i \in 0 .. k}
    <2>1. \A i \in 0 .. k : i = k \/ i \in 0 .. Len(q)
      BY <1>1
    <2>2. 0 .. Len(q) \subseteq 0 .. k /\ k \in 0 .. k
      BY <1>1
    <2> QED
      BY <1>2, <1>5, <2>1, <2>2
  <1>8. Hearing(p, r, t, H \cup {y}, y)
    BY <1>1, <1>4, <1>5, <1>6, <1>7 DEF Hearing
  <1> QED
    BY <1>8 DEF p, y

\* A function is run.
LEMMA HearingTail ==
    ASSUME NEW q \in Seq(MainTask), q # <<>>, NEW r, NEW t, NEW H, NEW z,
           Hearing(q, r, t, H, z)
    PROVE  \E G \in SUBSET H : Hearing(Tail(q), r, Heard(t, Head(q), r), G, z)
  <1> DEFINE p == Tail(q)
             k == Len(q) - 1
             y == Heard(t, Head(q), r)
  <1>1. /\ p \in Seq(MainTask) /\ Len(p) = k /\ k \in Nat /\ Len(q) \in Nat
        /\ Len(q) = k + 1 /\ Head(q) = q[1]
        /\ \A i \in 1 .. k : p[i] = q[i + 1]
    BY HeadTailProperties, LenProperties, EmptySeq
  <1>2. PICK h \in [0 .. Len(q) -> Seq(Event)] :
          /\ h[0] = t /\ h[Len(q)] = z
          /\ H = {h[i] : i \in 0 .. Len(q)}
          /\ \A i \in 1 .. Len(q) : h[i] = Heard(h[i - 1], q[i], r)
    BY DEF Hearing
  <1>3. h[1] = y
    <2>1. 1 \in 1 .. Len(q) /\ 1 - 1 = 0
      BY <1>1
    <2> QED
      BY <1>1, <1>2, <2>1
  <1> HIDE DEF p, y, k
  <1> DEFINE g == [i \in 0 .. k |-> h[i + 1]]
  <1>4. \A i \in 0 .. k : i + 1 \in 0 .. Len(q) /\ i + 1 \in Int
    BY <1>1
  <1>5. g \in [0 .. k -> Seq(Event)]
    BY <1>2, <1>4
  <1>6. \A i \in 0 .. k : g[i] = h[i + 1]
    OBVIOUS
  <1>7. g[0] = y /\ g[k] = z
    BY <1>1, <1>2, <1>3, <1>6
  <1> HIDE DEF g
  <1>8. \A i \in 1 .. k : g[i] = Heard(g[i - 1], p[i], r)
    <2> SUFFICES ASSUME NEW i \in 1 .. k PROVE g[i] = Heard(g[i - 1], p[i], r)
      OBVIOUS
    <2>1. /\ i - 1 \in 0 .. k /\ i \in 0 .. k /\ i + 1 \in 1 .. Len(q)
          /\ (i - 1) + 1 = i /\ (i + 1) - 1 = i
      BY <1>1
    <2>2. g[i - 1] = h[i] /\ g[i] = h[i + 1] /\ p[i] = q[i + 1]
      BY <1>1, <1>6, <2>1
    <2>3. h[i + 1] = Heard(h[(i + 1) - 1], q[i + 1], r)
      BY <1>2, <2>1
    <2> QED
      BY <2>1, <2>2, <2>3
  <1> DEFINE G == {g[i] : i \in 0 .. k}
  <1>9. G \subseteq H
    BY <1>2, <1>4, <1>6
  <1>10. Hearing(p, r, y, G, z)
    BY <1>1, <1>5, <1>7, <1>8 DEF Hearing
  <1> HIDE DEF G
  <1>11. \E F \in SUBSET H : Hearing(p, r, y, F, z)
    BY <1>9, <1>10
  <1> QED
    BY <1>11 DEF p, y

(***************************************************************************)
(* What a client will hear.                                                *)
(***************************************************************************)

\* The end of r is posted, or m_completed is set after that.
Closed(r) == req[r].m_completed \/ (worker.at = "completed" /\ worker.r = r)

\* The stories H on the way to z are in order, none has an end unless that
\* was posted, and z has the pieces libcurl has delivered, and a response once
\* the client was notified.
Tells(r, H, z) ==
    /\ \A h \in H : Orderly(h, curl[r].sent) /\ (HasEnd(h) => Closed(r))
    /\ Count(Pieces(z)) = curl[r].sent
    /\ req[r].m_didNotifyResponse => HasResponse(z)

\* What the client was told is in order, and unless cancel() has come between
\* so is what it will be told.
Listens(r) ==
    /\ Orderly(told[r], curl[r].sent)
    /\ ~req[r].m_cancelled =>
         \E H, z : Hearing(mainQueue, r, told[r], H, z) /\ Tells(r, H, z)

ListensInv == \A r \in Requests : Listens(r)

\* An end that was posted stays so.
LEMMA ClosedStays ==
    ASSUME Types, [Next]_vars, NEW s \in Requests, Closed(s) PROVE Closed(s)'
  <1>0. FlagEvent(s)
    BY FlagEvents
  <1>1. ASSUME req[s].m_completed PROVE req'[s].m_completed
    BY <1>0, <1>1 DEF FlagEvent, Steady, SameProgress, Cancelled, Forgotten, Started,
                      Completed, Headed, NotifyingStep, NotifiedOf
  <1>2. CASE worker.at = "completed" /\ worker.r = s
    <2>1. UNCHANGED worker \/ SetCompleted
      BY <1>2 DEF Next, vars, MainThread, RunTask, Owner, Perform, RunRelease, RunClient,
         RunCancel, TakeTasks, RespondForFile, TestShouldSuspend, StartTransfer,
         StartTransferFails, SetupTransfer, PauseChange, Finalize, RunDidCancel,
         RunDidComplete, Runs, FinishLater,
         FinishNow, PauseInCallback, Start, Cancel, CancelEnd, SetRequestPaused,
         CompleteDidReceiveResponse, DidReceiveHeader, DidReceiveData, Receives,
         Performs, TransferDone
    <2>2. SetCompleted => req'[s].m_completed
      BY <1>2 DEF SetCompleted, Types, RequestTypes, Request
    <2> QED
      BY <1>2, <2>1, <2>2 DEF Closed
  <1> QED
    BY <1>1, <1>2 DEF Closed

\* Who tells a client something.
LEMMA ToldAfter ==
    ASSUME Types, [Next]_vars, NEW s \in Requests
    PROVE  \/ told'[s] = told[s]
           \/ /\ RunClient /\ Head(mainQueue).r = s /\ req[s].m_client
              /\ told'[s] = Append(told[s], Head(mainQueue).what)
  <1>0. QueueTypes /\ told \in [Requests -> Seq(Event)]
    BY DEF Types, ClientTypes
  <1>1. CASE RunClient
    <2> PICK r \in Requests : r = Head(mainQueue).r
      BY <1>0, <1>1, TakesFacts DEF RunClient
    <2>1. \/ UNCHANGED told
          \/ /\ told' = [told EXCEPT ![r] = Append(told[r], Head(mainQueue).what)]
             /\ req[r].m_client
      BY <1>1 DEF RunClient
    <2> QED
      BY <1>0, <1>1, <2>1
  <1>2. UNCHANGED told \/ RunClient
    BY DEF Next, vars, clientVars, MainThread, RunTask, Owner, Perform, RunRelease,
       RunCancel, TakeTasks, RespondForFile, TestShouldSuspend, StartTransfer,
       StartTransferFails, PauseChange, Finalize, RunDidCancel, RunDidComplete, FinishLater,
       FinishNow, SetCompleted, PauseInCallback, Start, Cancel, CancelEnd,
       SetRequestPaused, CompleteDidReceiveResponse, DidReceiveHeader, DidReceiveData,
       TransferDone
  <1> QED
    BY <1>1, <1>2

\* A client is notified by posting a response.
LEMMA NotifyPosts ==
    ASSUME Types, [Next]_vars, NEW s \in Requests, req'[s].m_didNotifyResponse
    PROVE  req[s].m_didNotifyResponse \/ ResponseOf(s) \/ DataOf(s)
  <1>0. FlagEvent(s) /\ QueueTypes /\ mainQueue \in Seq(MainTask)
    BY FlagEvents DEF Types, QueueTypes
  <1>1. CASE RespondForFile /\ Head(batch).r = s
    <2>1. mainQueue' = Append(mainQueue, Response(s))
      BY <1>1, FunctionsDiffer DEF RespondForFile
    <2>2. Says(s, [is |-> "response"])
      BY <2>1 DEF Says, Response
    <2> QED
      BY <1>1, <2>2, NotifyingSteps DEF ResponseOf
  <1>2. CASE FinishLater /\ worker.r = s
    <2>1. Append(mainQueue, Response(s)) \in Seq(MainTask)
      BY <1>0, ResponsePosted
    <2>2. mainQueue' = Append(mainQueue, Response(s)) \o ReleaseIf(worker.release, s)
      BY <1>2, FunctionsDiffer DEF FinishLater
    <2>3. mainQueue' \in {Append(mainQueue, Response(s)),
                          Append(Append(mainQueue, Response(s)), Release(s))}
      BY <2>1, <2>2, ReleasePosted
    <2>4. Says(s, [is |-> "response"])
      BY <2>3, ForeignTasks DEF Says, Response
    <2> QED
      BY <1>2, <2>4, NotifyingSteps DEF ResponseOf
  <1>3. ASSUME NEW part \in BOOLEAN, DidReceiveData(s, part),
               ~IsCompletedOrCancelled(req[s])
        PROVE  ResponseOf(s) \/ DataOf(s)
    BY <1>3, DataPosts
  <1> QED
    BY <1>0, <1>1, <1>2, <1>3
       DEF FlagEvent, Steady, SameNotify, Cancelled, Forgotten, Started, Completed,
           Headed, NotifyingStep

\* Functions that are not for the client of s change none of its stories.
LEMMA SilentHearing ==
    ASSUME Types, NEW s \in Requests, Silent(s), NEW t, NEW H, NEW z,
           Hearing(mainQueue, s, t, H, z)
    PROVE  \E G \in SUBSET H : Hearing(mainQueue', s, t, G, z)
  <1>0. mainQueue \in Seq(MainTask)
    BY DEF Types, QueueTypes
  <1>1. \A u, x : Foreign(s, u) => u \in MainTask /\ Heard(x, u, s) = x
    BY DEF Foreign, Heard, Mine
  <1>2. z \in H
    BY <1>0, HearingFacts
  <1>3. ASSUME NEW q \in Seq(MainTask), NEW u, Foreign(s, u), Hearing(q, s, t, H, z)
        PROVE  Append(q, u) \in Seq(MainTask) /\ Hearing(Append(q, u), s, t, H, z)
    <2>1. H \cup {z} = H /\ Heard(z, u, s) = z /\ u \in MainTask
      BY <1>1, <1>2, <1>3
    <2>2. Hearing(Append(q, u), s, t, H \cup {Heard(z, u, s)}, Heard(z, u, s))
      BY <1>3, <2>1, HearingAppend
    <2> QED
      BY <2>1, <2>2, AppendProperties
  <1>4. CASE UNCHANGED mainQueue
    BY <1>4
  <1>5. ASSUME NEW do, Takes(do), Foreign(s, Head(mainQueue))
        PROVE  \E G \in SUBSET H : Hearing(mainQueue', s, t, G, z)
    <2>1. mainQueue # <<>> /\ mainQueue' = Tail(mainQueue)
      BY <1>5 DEF Takes
    <2>2. \E G \in SUBSET H :
            Hearing(Tail(mainQueue), s, Heard(t, Head(mainQueue), s), G, z)
      BY <1>0, <2>1, HearingTail
    <2> QED
      BY <1>1, <1>5, <2>1, <2>2
  <1>6. ASSUME NEW u, Foreign(s, u), mainQueue' = Append(mainQueue, u)
        PROVE  Hearing(mainQueue', s, t, H, z)
    BY <1>0, <1>3, <1>6
  <1>7. ASSUME NEW u, NEW v, Foreign(s, u), Foreign(s, v),
               mainQueue' = Append(Append(mainQueue, u), v)
        PROVE  Hearing(mainQueue', s, t, H, z)
    <2>1. /\ Append(mainQueue, u) \in Seq(MainTask)
          /\ Hearing(Append(mainQueue, u), s, t, H, z)
      BY <1>0, <1>3, <1>7
    <2> QED
      BY <1>3, <1>7, <2>1
  <1> QED
    BY <1>4, <1>5, <1>6, <1>7 DEF Silent

\* An event for it goes on with the last,
LEMMA SaysHearing ==
    ASSUME Types, NEW s \in Requests, NEW e \in Event, Says(s, e),
           NEW t, NEW H, NEW z, Hearing(mainQueue, s, t, H, z)
    PROVE  Hearing(mainQueue', s, t, H \cup {Append(z, e)}, Append(z, e))
  <1> DEFINE c == Client(s, e)
             y == Append(z, e)
             q == Append(mainQueue, c)
  <1>0. mainQueue \in Seq(MainTask) /\ c \in MainTask
    BY NewMainTasks DEF Types, QueueTypes
  <1>1. Heard(z, c, s) = y
    BY DEF Heard, Mine, Client
  <1>2. q \in Seq(MainTask) /\ Hearing(q, s, t, H \cup {y}, y)
    <2>1. Hearing(q, s, t, H \cup {Heard(z, c, s)}, Heard(z, c, s))
      BY <1>0, HearingAppend
    <2> QED
      BY <1>0, <1>1, <2>1, AppendProperties
  <1>3. \/ mainQueue' = q
        \/ \E u : Foreign(s, u) /\ mainQueue' = Append(q, u)
    BY DEF Says
  <1> HIDE DEF q, y, c
  <1>4. ASSUME NEW u, Foreign(s, u), mainQueue' = Append(q, u)
        PROVE  Hearing(mainQueue', s, t, H \cup {y}, y)
    <2>1. u \in MainTask /\ Heard(y, u, s) = y /\ (H \cup {y}) \cup {y} = H \cup {y}
      BY <1>4 DEF Foreign, Heard, Mine
    <2>2. Hearing(Append(q, u), s, t, (H \cup {y}) \cup {Heard(y, u, s)}, Heard(y, u, s))
      BY <1>2, <2>1, HearingAppend
    <2> QED
      BY <1>4, <2>1, <2>2
  <1>5. Hearing(mainQueue', s, t, H \cup {y}, y)
    BY <1>2, <1>3, <1>4
  <1> QED
    BY <1>5 DEF y

\* and so do two.
LEMMA PartHearing ==
    ASSUME Types, NEW s \in Requests, NEW n \in 1 .. MaxChunks, SaysPart(s, n),
           NEW t, NEW H, NEW z, Hearing(mainQueue, s, t, H, z)
    PROVE  LET y == Append(z, [is |-> "response"])
               x == Append(y, Piece(n))
           IN  Hearing(mainQueue', s, t, (H \cup {y}) \cup {x}, x)
  <1> DEFINE c == Client(s, Piece(n))
             y == Append(z, [is |-> "response"])
             x == Append(y, Piece(n))
             q == Append(mainQueue, Response(s))
  <1>0. mainQueue \in Seq(MainTask) /\ c \in MainTask /\ Response(s) \in MainTask
    BY NewMainTasks, NewEvents DEF Types, QueueTypes, Piece, Response
  <1>1. Heard(z, Response(s), s) = y /\ Heard(y, c, s) = x
    BY DEF Heard, Mine, Client, Response
  <1>2. mainQueue' = Append(q, c)
    BY DEF SaysPart
  <1>3. q \in Seq(MainTask) /\ Hearing(q, s, t, H \cup {y}, y)
    <2>1. Hearing(q, s, t, H \cup {Heard(z, Response(s), s)}, Heard(z, Response(s), s))
      BY <1>0, HearingAppend
    <2> QED
      BY <1>0, <1>1, <2>1, AppendProperties
  <1> HIDE DEF q, y, x, c
  <1>4. Hearing(Append(q, c), s, t, (H \cup {y}) \cup {Heard(y, c, s)}, Heard(y, c, s))
    BY <1>0, <1>3, HearingAppend
  <1>5. Hearing(mainQueue', s, t, (H \cup {y}) \cup {x}, x)
    BY <1>1, <1>2, <1>4
  <1> QED
    BY <1>5 DEF y, x

\* Nothing is posted for a client after the end.
LEMMA OpenPosts ==
    ASSUME Types, NEW s \in Requests, AllDone(s),
           ResponseOf(s) \/ EndOf(s) \/ DataOf(s)
    PROVE  ~Closed(s)
  <1>1. ASSUME NEW part, DidReceiveData(s, part), ~IsCompletedOrCancelled(req[s])
        PROVE  ~Closed(s)
    BY <1>1 DEF DidReceiveData, Receives, Performs, IsCompletedOrCancelled, Closed
  <1>2. CASE RespondForFile /\ Head(batch).r = s
    <2>1. Queued("respondForFile", s) /\ worker.at = "idle"
      BY <1>2, RunsQueued DEF RespondForFile, Runs
    <2> QED
      BY <2>1 DEF AllDone, Idle, Closed
  <1>3. CASE (FinishLater \/ FinishNow) /\ worker.r = s
    <2>1. worker.at = "complete" /\ Finishing(s)
      BY <1>3 DEF FinishLater, FinishNow, Finishing
    <2> QED
      BY <2>1 DEF AllDone, Idle, Closed
  <1> QED
    BY <1>1, <1>2, <1>3 DEF ResponseOf, EndOf, DataOf

\* How much libcurl has delivered changes with a piece that is posted.
LEMMA SentAfter ==
    ASSUME Types, CancelInv, [Next]_vars, NEW s \in Requests
    PROVE  curl'[s].sent = curl[s].sent \/ DataOf(s)
  BY CurlEvents DEF CurlEvent, SameTransfer, Moved

\* After cancel() the client is told nothing.
LEMMA CancelledListens ==
    ASSUME Types, CancelInv, [Next]_vars, NEW s \in Requests, req[s].m_cancelled,
           Listens(s)
    PROVE  Listens(s)'
  <1>0. Cancels(s) /\ FlagEvent(s)
    BY FlagEvents DEF CancelInv
  <1>1. told'[s] = told[s]
    <2>1. ~(RunClient /\ req[s].m_client)
      BY <1>0 DEF Cancels, RunClient, Takes
    <2> QED
      BY <2>1, ToldAfter
  <1>2. curl'[s].sent = curl[s].sent
    BY SentAfter DEF DataOf, IsCompletedOrCancelled
  <1>3. req'[s].m_cancelled
    BY <1>0 DEF FlagEvent, Steady, SameCancel, Cancelled, Forgotten, Started,
                Completed, Headed, NotifyingStep, NotifiedOf
  <1>4. Orderly(told'[s], curl'[s].sent)
    BY <1>1, <1>2 DEF Listens
  <1> QED
    BY <1>3, <1>4 DEF Listens

\* Stories in order are enough.
LEMMA ListensBy ==
    ASSUME Types', NEW s \in Requests, NEW H, NEW z,
           Hearing(mainQueue', s, told'[s], H, z),
           \A h \in H : Orderly(h, curl'[s].sent) /\ (HasEnd(h) => Closed(s)'),
           Count(Pieces(z)) = curl'[s].sent,
           req'[s].m_didNotifyResponse => HasResponse(z)
    PROVE  Listens(s)'
  <1>1. mainQueue' \in Seq(MainTask)
    BY DEF Types, QueueTypes
  <1>2. told'[s] \in H
    BY <1>1, HearingFacts
  <1>3. Orderly(told'[s], curl'[s].sent)
    BY <1>2
  <1>4. Tells(s, H, z)'
    BY DEF Tells
  <1> QED
    BY <1>3, <1>4 DEF Listens

\* The client is told what comes next.
LEMMA RunListens ==
    ASSUME Types, Types', CancelInv, [Next]_vars, NEW s \in Requests,
           ~req[s].m_cancelled, RunClient, Head(mainQueue).r = s, Listens(s)
    PROVE  Listens(s)'
  <1>0. /\ QueueTypes /\ mainQueue \in Seq(MainTask) /\ Cancels(s)
        /\ told \in [Requests -> Seq(Event)] /\ req[s].m_client \in BOOLEAN
    BY DEF Types, QueueTypes, CancelInv, ClientTypes, RequestTypes, Request
  <1>1. PICK H, z : Hearing(mainQueue, s, told[s], H, z) /\ Tells(s, H, z)
    BY DEF Listens
  <1>2. /\ mainQueue # <<>> /\ mainQueue' = Tail(mainQueue) /\ Takes("client")
        /\ Head(mainQueue).do = "client" /\ UNCHANGED <<req, worker, curl>>
    BY DEF RunClient, Takes
  <1>3. told'[s] = Heard(told[s], Head(mainQueue), s)
    <2>1. req[s].m_client
      BY <1>0 DEF Cancels
    <2>2. told' = [told EXCEPT ![s] = Append(told[s], Head(mainQueue).what)]
      BY <2>1 DEF RunClient
    <2> QED
      BY <1>0, <1>2, <2>2 DEF Heard, Mine
  <1>4. PICK G \in SUBSET H : Hearing(mainQueue', s, told'[s], G, z)
    BY <1>0, <1>1, <1>2, <1>3, HearingTail
  <1>5. Closed(s)' <=> Closed(s)
    BY <1>2 DEF Closed
  <1>6. /\ \A h \in G : Orderly(h, curl'[s].sent) /\ (HasEnd(h) => Closed(s)')
        /\ Count(Pieces(z)) = curl'[s].sent
        /\ req'[s].m_didNotifyResponse => HasResponse(z)
    BY <1>1, <1>2, <1>5 DEF Tells
  <1> QED
    BY <1>4, <1>6, ListensBy

\* Nothing is posted for it, or a response, or the end.
LEMMA PostListens ==
    ASSUME Types, Types', CancelInv, [Next]_vars, NEW s \in Requests,
           AllDone(s), Answered(s), ~req[s].m_cancelled,
           ~(RunClient /\ Head(mainQueue).r = s), ~DataOf(s), Listens(s)
    PROVE  Listens(s)'
  <1>0. /\ mainQueue \in Seq(MainTask) /\ told'[s] = told[s]
        /\ curl'[s].sent = curl[s].sent /\ (Closed(s) => Closed(s)')
    BY ToldAfter, SentAfter, ClosedStays DEF Types, QueueTypes
  <1>1. PICK H, z : Hearing(mainQueue, s, told[s], H, z) /\ Tells(s, H, z)
    BY DEF Listens
  <1>2. z \in H /\ z \in Seq(Event)
    BY <1>0, <1>1, HearingFacts
  <1>3. \A h \in H : Orderly(h, curl'[s].sent) /\ (HasEnd(h) => Closed(s)')
    BY <1>0, <1>1 DEF Tells
  <1>4. Count(Pieces(z)) = curl[s].sent /\ Orderly(z, curl[s].sent)
        /\ (HasEnd(z) => Closed(s))
        /\ (req[s].m_didNotifyResponse => HasResponse(z))
    BY <1>1, <1>2 DEF Tells
  <1>5. CASE Silent(s) /\ ~ResponseOf(s)
    <2>1. PICK G \in SUBSET H : Hearing(mainQueue', s, told[s], G, z)
      BY <1>1, <1>5, SilentHearing
    <2>2. req'[s].m_didNotifyResponse => HasResponse(z)
      BY <1>4, <1>5, NotifyPosts
    <2>3. \A h \in G : Orderly(h, curl'[s].sent) /\ (HasEnd(h) => Closed(s)')
      BY <1>3, <2>1
    <2> QED
      BY <1>0, <1>4, <2>1, <2>2, <2>3, ListensBy
  <1>6. CASE ResponseOf(s)
    <2> DEFINE e == [is |-> "response"]
               y == Append(z, e)
    <2>1. e \in Event /\ Says(s, e) /\ e.is \notin Ends /\ e.is # "data"
          /\ e.is # "complete" /\ e.is = "response"
      BY <1>6, NewEvents DEF ResponseOf, Ends
    <2> HIDE DEF e
    <2>2. Hearing(mainQueue', s, told[s], H \cup {y}, y)
      BY <1>1, <2>1, SaysHearing
    <2>3. ~HasEnd(z)
      BY <1>4, <1>6, OpenPosts
    <2>4. Orderly(y, curl'[s].sent)
      BY <1>2, <1>4, <2>1, <2>3, OrderlyAppend
    <2>5. /\ ~HasEnd(y) /\ HasResponse(y) /\ Count(Pieces(y)) = Count(Pieces(z))
      BY <1>2, <2>1, <2>3, StoryAppend
    <2> HIDE DEF y
    <2>6. \A h \in H \cup {y} : Orderly(h, curl'[s].sent) /\ (HasEnd(h) => Closed(s)')
      BY <1>3, <2>4, <2>5
    <2>7. Count(Pieces(y)) = curl'[s].sent
      BY <1>0, <1>4, <2>5
    <2> QED
      BY <1>0, <2>2, <2>5, <2>6, <2>7, ListensBy
  <1>7. CASE EndOf(s)
    <2> DEFINE e == [is |-> IF worker.how = "ok" THEN "complete" ELSE "fail"]
               y == Append(z, e)
    <2>1. /\ e \in Event /\ Says(s, e) /\ e.is # "data"
          /\ e.is = "complete" => worker.how = "ok"
      BY <1>7, NewEvents DEF EndOf
    <2>2. ~NeedToInvokeDidReceiveResponse(req[s]) /\ worker.at = "complete"
          /\ worker.r = s
      BY <1>7 DEF EndOf, FinishNow
    <2> HIDE DEF e
    <2>3. e.is = "complete" => HasResponse(z)
      BY <1>4, <2>1, <2>2 DEF Answered, Answers, NeedToInvokeDidReceiveResponse
    <2>4. Hearing(mainQueue', s, told[s], H \cup {y}, y)
      BY <1>1, <2>1, SaysHearing
    <2>5. ~HasEnd(z)
      BY <1>4, <1>7, OpenPosts
    <2>6. Orderly(y, curl'[s].sent)
      BY <1>0, <1>2, <1>4, <2>1, <2>3, <2>5, OrderlyAppend
    <2>7. /\ HasResponse(z) => HasResponse(y)
          /\ Count(Pieces(y)) = Count(Pieces(z))
      BY <1>2, <2>1, StoryAppend
    <2> HIDE DEF y
    <2>8. Closed(s)'
      BY <1>7 DEF EndOf, FinishNow, Closed
    <2>9. \A h \in H \cup {y} : Orderly(h, curl'[s].sent) /\ (HasEnd(h) => Closed(s)')
      BY <1>3, <2>6, <2>8
    <2>10. Count(Pieces(y)) = curl'[s].sent
      BY <1>0, <1>4, <2>7
    <2>11. req'[s].m_didNotifyResponse => HasResponse(y)
      <3>1. ~ResponseOf(s)
        BY <1>7 DEF EndOf, ResponseOf, FinishNow, FinishLater, RespondForFile, Runs,
                    DidReceiveData, Receives, Performs
      <3> QED
        BY <1>4, <2>7, <3>1, NotifyPosts
    <2> QED
      BY <1>0, <2>4, <2>9, <2>10, <2>11, ListensBy
  <1> QED
    BY <1>5, <1>6, <1>7, PostEvents DEF PostEvent

\* A piece is posted.
LEMMA DataListens ==
    ASSUME Types, Types', CancelInv, [Next]_vars, NEW s \in Requests,
           AllDone(s), Answered(s), ~req[s].m_cancelled, DataOf(s), Listens(s)
    PROVE  Listens(s)'
  <1> DEFINE n == curl[s].sent
             e == Piece(n + 1)
             a == [is |-> "response"]
  <1>0. mainQueue \in Seq(MainTask) /\ n \in Nat /\ QueueTypes
    BY BoundsAssumption DEF Types, QueueTypes, TransferTypes, Transfer
  <1>1. PICK H, z : Hearing(mainQueue, s, told[s], H, z) /\ Tells(s, H, z)
    BY DEF Listens
  <1>2. z \in H /\ z \in Seq(Event)
    BY <1>0, <1>1, HearingFacts
  <1>3. PICK part \in BOOLEAN :
          /\ DidReceiveData(s, part) /\ ~IsCompletedOrCancelled(req[s])
          /\ ~NeedToInvokeDidReceiveResponse(req[s])
          /\ curl'[s].sent = n + 1
          /\ \/ Says(s, e) /\ UNCHANGED req
             \/ SaysPart(s, n + 1) /\ NotifiedOf(s, "None")
    BY DEF DataOf
  <1>4. n + 1 \in 1 .. MaxChunks
    BY <1>0, <1>3, BoundsAssumption DEF DidReceiveData
  <1>5. ~Closed(s)
    BY OpenPosts
  <1>6. told'[s] = told[s]
    <2>1. ~RunClient
      BY <1>3, <1>0 DEF RunClient
    <2> QED
      BY <2>1, ToldAfter
  <1>7. \A h \in H : Orderly(h, n) /\ ~HasEnd(h)
    BY <1>1, <1>5 DEF Tells
  <1>8. \A h \in H : Orderly(h, n + 1) /\ ~HasEnd(h)
    BY <1>7, OrderlyOpen
  <1>9. Count(Pieces(z)) = n /\ (req[s].m_didNotifyResponse => HasResponse(z))
    BY <1>1 DEF Tells
  <1>10. e \in Event /\ e.is = "data" /\ e.n = n + 1 /\ a \in Event
         /\ a.is = "response" /\ e.is \notin Ends /\ a.is \notin Ends
         /\ e.is # "complete" /\ a.is # "data" /\ a.is # "complete"
    BY <1>4, NewEvents DEF Piece, Ends
  <1> HIDE DEF e, a
  <1>11. CASE Says(s, e) /\ UNCHANGED req
    <2> DEFINE y == Append(z, e)
    <2>1. HasResponse(z)
      <3>1. curl[s].headers = "all" \/ req[s].local
        BY <1>3 DEF DidReceiveData
      <3>2. Begun(s)
        BY <1>3 DEF DidReceiveData, Receives, Performs, Begun
      <3>3. req[s].m_didNotifyResponse
        BY <1>3, <3>1, <3>2 DEF Answered, NeedToInvokeDidReceiveResponse
      <3> QED
        BY <1>9, <3>3
    <2>2. Hearing(mainQueue', s, told[s], H \cup {y}, y)
      BY <1>1, <1>10, <1>11, SaysHearing
    <2>3. Orderly(y, n + 1)
      BY <1>2, <1>8, <1>9, <1>10, <2>1, OrderlyAppend
    <2>4. /\ ~HasEnd(y) /\ HasResponse(y) /\ Count(Pieces(y)) = n + 1
      BY <1>2, <1>8, <1>9, <1>10, <2>1, StoryAppend
    <2> HIDE DEF y
    <2>5. \A h \in H \cup {y} : Orderly(h, curl'[s].sent) /\ (HasEnd(h) => Closed(s)')
      BY <1>3, <1>8, <2>3, <2>4
    <2> QED
      BY <1>3, <1>6, <2>2, <2>4, <2>5, ListensBy
  <1>12. CASE SaysPart(s, n + 1)
    <2> DEFINE y == Append(z, a)
               x == Append(y, e)
    <2>1. Hearing(mainQueue', s, told[s], (H \cup {y}) \cup {x}, x)
      BY <1>1, <1>4, <1>12, PartHearing DEF e, a
    <2>2. y \in Seq(Event) /\ Orderly(y, n + 1)
      BY <1>2, <1>8, <1>9, <1>10, OrderlyAppend, AppendProperties
    <2>3. /\ ~HasEnd(y) /\ HasResponse(y) /\ Count(Pieces(y)) = n
      BY <1>0, <1>2, <1>8, <1>9, <1>10, StoryAppend
    <2> HIDE DEF y
    <2>4. Orderly(x, n + 1)
      BY <1>10, <2>2, <2>3, OrderlyAppend
    <2>5. /\ ~HasEnd(x) /\ HasResponse(x) /\ Count(Pieces(x)) = n + 1
      BY <1>10, <2>2, <2>3, StoryAppend
    <2> HIDE DEF x
    <2>6. \A h \in (H \cup {y}) \cup {x} :
            Orderly(h, curl'[s].sent) /\ (HasEnd(h) => Closed(s)')
      BY <1>3, <1>8, <2>2, <2>3, <2>4, <2>5
    <2> QED
      BY <1>3, <1>6, <2>1, <2>5, <2>6, ListensBy
  <1> QED
    BY <1>3, <1>11, <1>12

\* So every step keeps the stories in order.
LEMMA ListensStep ==
    ASSUME Types, Types', CancelInv, OnceInv, AnsweredInv, ListensInv, [Next]_vars
    PROVE  ListensInv'
  <1> SUFFICES ASSUME NEW s \in Requests PROVE Listens(s)'
    BY DEF ListensInv
  <1>1. AllDone(s) /\ Answered(s) /\ Listens(s)
    BY DEF OnceInv, AnsweredInv, ListensInv
  <1> QED
    BY <1>1, CancelledListens, RunListens, PostListens, DataListens

\* The client of every request hears the response before the body, every
\* piece once and in order, at most one end with nothing after it, and a
\* completion only after a response and all the pieces that libcurl delivered,
\* whatever the main thread, the curl thread and libcurl do in which order.
THEOREM ClientHearsItInOrder == Spec => []ClientHearsInOrder
  <1> DEFINE Inv == Types /\ LifeInv /\ CancelInv /\ OnceInv /\ AnsweredInv /\ ListensInv
  <1>1. Init => Inv
    <2> SUFFICES ASSUME Init PROVE Inv
      OBVIOUS
    <2>1. Types /\ LifeInv
      BY InitTypes, InitLife
    <2> SUFFICES ASSUME NEW r \in Requests
                 PROVE  /\ Cancels(r) /\ Unheard(r) /\ OneEnd(r) /\ AllDone(r)
                        /\ Answered(r) /\ Listens(r)
      BY <2>1 DEF CancelInv, OnceInv, AnsweredInv, ListensInv
    <2>2. /\ ~req[r].m_cancelled /\ ~req[r].m_completed /\ req[r].m_client
          /\ ~req[r].m_didNotifyResponse /\ ~req[r].started
          /\ req[r].m_actionAfterInvoke = "None"
      BY DEF Init
    <2>3. /\ m_taskQueue = <<>> /\ batch = <<>> /\ mainQueue = <<>> /\ main = {}
          /\ worker = [at |-> "idle"] /\ told[r] = <<>> /\ owed[r] = 0
          /\ curl[r].headers = "none" /\ curl[r].sent = 0
      BY DEF Init
    <2>4. Tasks = {} /\ Queue = <<>>
      BY <2>3 DEF Tasks, Queue
    <2>5. Cancels(r) /\ AllDone(r)
      BY <2>2, <2>3, <2>4 DEF Cancels, AllDone
    <2>6. Responses(r) = 0 /\ Completes(r) = 0
      BY <2>3, <2>4, HitsEmpty DEF Responses, Completes
    <2>7. Unheard(r) /\ OneEnd(r)
      BY <2>2, <2>6 DEF Unheard, OneEnd
    <2>8. Answered(r)
      <3>1. ~Begun(r)
        BY <2>1, <2>2 DEF LifeInv, Life
      <3> QED
        BY <2>3, <2>4, <3>1 DEF Answered
    <2>9. Orderly(<<>>, 0) /\ ~HasEnd(<<>>) /\ Count(Pieces(<<>>)) = 0
      <3>1. DOMAIN << >> = {} /\ Pieces(<<>>) = {}
        BY DEF Pieces
      <3>2. Cardinality({}) = 0
        BY FS_EmptySet
      <3> QED
        BY <3>1, <3>2 DEF Orderly, HasEnd, Count
    <2>10. Hearing(<<>>, r, <<>>, {<<>>}, <<>>)
      <3>1. <<>> \in Seq(Event)
        BY EmptySeq
      <3> QED
        BY <3>1, HearingEmpty
    <2>11. Listens(r)
      BY <2>2, <2>3, <2>9, <2>10 DEF Listens, Tells
    <2> QED
      BY <2>5, <2>7, <2>8, <2>11
  <1>2. Inv /\ [Next]_vars => Inv'
    <2> SUFFICES ASSUME Inv, [Next]_vars PROVE Inv'
      OBVIOUS
    <2>1. Types'
      BY TypesStep
    <2> QED
      BY <2>1, LifeStep, CancelStep, OnceStep, AnsweredStep, ListensStep
  <1>3. Inv => ClientHearsInOrder
    BY DEF ListensInv, Listens, Orderly, ClientHearsInOrder
  <1> QED
    BY <1>1, <1>2, <1>3, PTL DEF Spec

=============================================================================
