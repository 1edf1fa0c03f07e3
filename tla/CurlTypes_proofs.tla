-------------------------- MODULE CurlTypes_proofs --------------------------
(***************************************************************************)
(* The types of CurlRequest, in parts, and the steps that keep them.  The  *)
(* type of retains is not among them: that a release() never finds a count *)
(* of zero needs the balance of CurlRequest_proofs.                        *)
(***************************************************************************)
EXTENDS CurlRequest, Queues_proofs

Worker ==
    [at : {"idle", "suspending"}]
      \cup [at : {"pausing"}, r : Requests]
      \cup [at : {"complete"}, r : Requests, how : Result, release : BOOLEAN]
      \cup [at : {"completed"}, r : Requests, release : BOOLEAN]

\* TypeOK in parts: the flags of requests, ...
RequestTypes == req \in [Requests -> Request]
\* the tasks, functions and operations under way,
QueueTypes ==
    /\ m_taskQueue \in Seq(Task)
    /\ batch \in Seq(Task)
    /\ mainQueue \in Seq(MainTask)
    /\ worker \in Worker
\* libcurl's side,
TransferTypes == curl \in [Requests -> Transfer]
\* what clients know,
ClientTypes ==
    /\ told \in [Requests -> Seq(Event)]
    /\ owed \in [Requests -> Nat]
    /\ suspends \in [Requests -> 0 .. MaxSuspends]
    /\ suspended \in [Requests -> BOOLEAN]
\* and handles, files and jobs.
JobTypes ==
    /\ m_curlHandle \in [Requests -> Handles \cup {NoHandle}]
    /\ file \in [Requests -> {"none", "open", "closed"}]
    /\ m_activeJobs \subseteq Requests
    /\ m_clientMaps \in [Handles -> SUBSET Requests]
    /\ main \in SUBSET Requests

Types == RequestTypes /\ QueueTypes /\ TransferTypes /\ ClientTypes /\ JobTypes

\* The task executeTasks runs next.
LEMMA DequeuesFacts ==
    ASSUME QueueTypes, NEW do, Dequeues(do)
    PROVE  /\ Head(batch) \in Task /\ Head(batch).do = do
           /\ Head(batch).r \in Requests
           /\ do = "didComplete" => Head(batch).how \in Result
           /\ do = "finalize" => Head(batch).how \in Result \cup {"cancel"}
           /\ batch # <<>> /\ batch' = Tail(batch) /\ batch' \in Seq(Task)
  <1>1. /\ Head(batch) \in Task /\ Tail(batch) \in Seq(Task)
        /\ Head(batch).do = do
    BY HeadTailProperties DEF QueueTypes, Dequeues
  <1> QED
    BY <1>1 DEF Dequeues, Task

\* With the curl thread at no other operation,
LEMMA RunsFacts ==
    ASSUME QueueTypes, NEW do, Runs(do)
    PROVE  /\ Head(batch) \in Task /\ Head(batch).do = do
           /\ Head(batch).r \in Requests
           /\ do = "didComplete" => Head(batch).how \in Result
           /\ do = "finalize" => Head(batch).how \in Result \cup {"cancel"}
           /\ batch # <<>> /\ batch' = Tail(batch) /\ batch' \in Seq(Task)
           /\ worker = [at |-> "idle"] /\ Dequeues(do)
  <1>1. worker = [at |-> "idle"]
    BY DEF QueueTypes, Runs, Worker
  <1> QED
    BY <1>1, DequeuesFacts DEF Runs

\* and at the end of setupTransfer().
LEMMA SetupFacts ==
    ASSUME QueueTypes, SetupTransfer
    PROVE  /\ Dequeues("startTransfer")
           /\ Head(batch) \in Task /\ Head(batch).do = "startTransfer"
           /\ Head(batch).r \in Requests
           /\ batch # <<>> /\ batch' = Tail(batch) /\ batch' \in Seq(Task)
           /\ worker.at \in {"idle", "suspending"} /\ worker' = [at |-> "idle"]
           /\ worker' \in Worker
  <1>1. worker' \in Worker
    BY DEF SetupTransfer, Worker
  <1> QED
    BY <1>1, DequeuesFacts DEF SetupTransfer

\* The function the main thread runs next.
LEMMA TakesFacts ==
    ASSUME QueueTypes, NEW do, Takes(do)
    PROVE  /\ Head(mainQueue) \in MainTask /\ Head(mainQueue).do = do
           /\ Head(mainQueue).r \in Requests
           /\ do = "client" => Head(mainQueue).what \in Event
           /\ mainQueue # <<>> /\ mainQueue' = Tail(mainQueue)
           /\ mainQueue' \in Seq(MainTask)
  <1>1. /\ Head(mainQueue) \in MainTask /\ Tail(mainQueue) \in Seq(MainTask)
        /\ Head(mainQueue).do = do
    BY HeadTailProperties DEF QueueTypes, Takes
  <1> QED
    BY <1>1 DEF Takes, MainTask

\* The request an operation of the curl thread is about.
LEMMA WorkerFacts ==
    ASSUME QueueTypes
    PROVE  /\ worker.at = "idle" => worker = [at |-> "idle"]
           /\ worker.at = "pausing" => worker.r \in Requests
           /\ worker.at = "complete" =>
                /\ worker.r \in Requests /\ worker.how \in Result
                /\ worker.release \in BOOLEAN
           /\ worker.at = "completed" =>
                worker.r \in Requests /\ worker.release \in BOOLEAN
  BY DEF QueueTypes, Worker

-----------------------------------------------------------------------------

\* The two things about a request's flags that its way through the scheduler
\* depends on stay as they were.
Keeps(q, p) ==
    /\ p \in Request
    /\ p.started = q.started
    /\ p.m_actionAfterInvoke = q.m_actionAfterInvoke
SameLife == \A s \in Requests : Keeps(req[s], req'[s])

\* Setting any other flag keeps the two.
LEMMA UpdatesKeep ==
    ASSUME NEW q \in Request, NEW b \in BOOLEAN
    PROVE  /\ Keeps(q, q)
           /\ Keeps(q, [q EXCEPT !.m_client = b])
           /\ Keeps(q, [q EXCEPT !.m_cancelled = b])
           /\ Keeps(q, [q EXCEPT !.m_completed = b])
           /\ Keeps(q, [q EXCEPT !.m_didReceiveResponse = b])
           /\ Keeps(q, [q EXCEPT !.m_didReturnFromNotify = b])
           /\ Keeps(q, [q EXCEPT !.m_multipartHandle = b])
           /\ Keeps(q, [q EXCEPT !.m_shouldSuspend = b])
           /\ Keeps(q, [q EXCEPT !.m_isPausedOfRequest = b])
           /\ Keeps(q, [q EXCEPT !.m_isPausedOfCallback = b])
           /\ Keeps(q, [q EXCEPT !.m_isHandlePaused = b])
  BY DEF Keeps, Request

\* invokeDidReceiveResponse sets the action that waits.
LEMMA NotifiedFacts ==
    ASSUME NEW q \in Request, NEW action \in Action
    PROVE  /\ Notified(q, action) \in Request
           /\ Notified(q, action).started = q.started
           /\ Notified(q, action).m_actionAfterInvoke = action
  BY DEF Notified, Request

\* A step that updates one request so.
LEMMA OneKeeps ==
    ASSUME RequestTypes, NEW r \in Requests, NEW q, Keeps(req[r], q),
           req' = [req EXCEPT ![r] = q]
    PROVE  RequestTypes' /\ SameLife
  BY DEF RequestTypes, SameLife, Keeps

\* A step that updates none.
LEMMA KeptFlags == ASSUME RequestTypes, UNCHANGED req PROVE RequestTypes' /\ SameLife
  BY DEF RequestTypes, SameLife, Keeps

\* The flags that are set two at a time.
LEMMA PairsKeep ==
    ASSUME NEW q \in Request, NEW b \in BOOLEAN, NEW c \in BOOLEAN
    PROVE  /\ Keeps(q, [q EXCEPT !.m_didReceiveResponse = b,
                                 !.m_multipartHandle = c])
           /\ Keeps(q, [q EXCEPT !.m_shouldSuspend = b,
                                 !.m_isPausedOfRequest = c])
           /\ Keeps(q, [q EXCEPT !.m_shouldSuspend = b, !.m_isPausedOfRequest = b,
                                 !.m_isHandlePaused = c])
  BY DEF Keeps, Request

\* The types of the flags that are read.
LEMMA FlagsAreBoolean ==
    ASSUME NEW q \in Request
    PROVE  /\ ShouldBePaused(q) \in BOOLEAN
           /\ q.m_didReceiveResponse \in BOOLEAN
           /\ q.m_multipartHandle \in BOOLEAN
           /\ q.m_shouldSuspend \in BOOLEAN
           /\ q.m_isPausedOfRequest \in BOOLEAN
           /\ q.m_isHandlePaused \in BOOLEAN
           /\ q.m_finishedResultCode \in Result
           /\ q.m_actionAfterInvoke \in Action
  BY DEF Request, ShouldBePaused

\* setupTransfer of a request that is suspended, or is not.
LEMMA SuspendKeeps ==
    ASSUME NEW q \in Request, NEW accepted \in BOOLEAN
    PROVE  Keeps(q, SuspendAtSetup(q, accepted))
  <1>1. CASE worker.at # "suspending"
    BY <1>1, UpdatesKeep DEF SuspendAtSetup
  <1>2. CASE worker.at = "suspending"
    <2> DEFINE c == \/ q.m_isHandlePaused
                    \/ accepted /\ ~ShouldBePaused(q) /\ ~IsCompletedOrCancelled(q)
    <2>1. SuspendAtSetup(q, accepted) =
            [q EXCEPT !.m_shouldSuspend = TRUE, !.m_isPausedOfRequest = TRUE,
                      !.m_isHandlePaused = c]
      BY <1>2 DEF SuspendAtSetup
    <2>2. c \in BOOLEAN
      BY FlagsAreBoolean
    <2> HIDE DEF c
    <2> QED
      BY <2>1, <2>2, PairsKeep
  <1> QED
    BY <1>1, <1>2

\* What an answered response does, by the action that was waiting for it.
LEMMA AnswerCases ==
    ASSUME RequestTypes, NEW r \in Requests,
           CompleteDidReceiveResponse(r)
    PROVE  \/ UNCHANGED <<req, schedVars>>
           \/ /\ \E q : Keeps(req[r], q) /\ req' = [req EXCEPT ![r] = q]
              /\ \/ UNCHANGED schedVars
                 \/ CallOnWorkerThread([do |-> "pauseChange", r |-> r])
                 \/ /\ req[r].m_actionAfterInvoke = "StartTransfer"
                    /\ Add(r)
                 \/ /\ req[r].m_actionAfterInvoke = "FinishTransfer"
                    /\ \E how \in Result :
                         CallOnWorkerThread([do |-> "didComplete", r |-> r,
                                             how |-> how])
  <1>1. CASE IsCompletedOrCancelled(req[r])
    BY <1>1 DEF CompleteDidReceiveResponse
  <1>2. CASE ~IsCompletedOrCancelled(req[r])
    <2> DEFINE q == [req[r] EXCEPT !.m_didReturnFromNotify = TRUE]
    <2>1. req[r] \in Request
      BY DEF RequestTypes
    <2>2. AfterInvoke(r, q)
      BY <1>2 DEF CompleteDidReceiveResponse
    <2>3. Keeps(req[r], q)
      BY <2>1, UpdatesKeep
    <2>4. /\ q \in Request
          /\ q.m_actionAfterInvoke = req[r].m_actionAfterInvoke
          /\ q.m_finishedResultCode \in Result
          /\ q.m_actionAfterInvoke \in Action
      BY <2>3, FlagsAreBoolean DEF Keeps
    <2> HIDE DEF q
    <2>5. CASE q.m_actionAfterInvoke = "ReceiveData"
      <3> DEFINE p == [q EXCEPT !.m_isPausedOfCallback = FALSE]
      <3>1. Keeps(q, p)
        BY <2>4, UpdatesKeep
      <3>2. Keeps(req[r], p)
        BY <2>3, <3>1 DEF Keeps
      <3>3. req' = [req EXCEPT ![r] = p] /\ PausedStatusChanged(r, p)
        BY <2>2, <2>5 DEF AfterInvoke
      <3> HIDE DEF p
      <3>4. \/ UNCHANGED schedVars
            \/ CallOnWorkerThread([do |-> "pauseChange", r |-> r])
        BY <3>3 DEF PausedStatusChanged
      <3> QED
        BY <3>2, <3>3, <3>4
    <2>6. CASE q.m_actionAfterInvoke = "StartTransfer"
      BY <2>2, <2>3, <2>4, <2>6 DEF AfterInvoke
    <2>7. CASE q.m_actionAfterInvoke = "FinishTransfer"
      BY <2>2, <2>3, <2>4, <2>7 DEF AfterInvoke
    <2>8. CASE q.m_actionAfterInvoke = "None"
      BY <2>2, <2>3, <2>8 DEF AfterInvoke
    <2> QED
      BY <2>4, <2>5, <2>6, <2>7, <2>8 DEF Action
  <1> QED
    BY <1>1, <1>2

\* The steps after which every request has started, and has an action waiting,
\* as before.
Quiet ==
    \/ RunRelease \/ RunClient \/ RunCancel \/ TakeTasks \/ TestShouldSuspend
    \/ StartTransfer \/ StartTransferFails \/ PauseChange \/ Finalize \/ RunDidCancel
    \/ RunDidComplete \/ FinishNow \/ SetCompleted \/ PauseInCallback
    \/ \E r \in Requests :
         \/ \E paused \in BOOLEAN : SetRequestPaused(r, paused)
         \/ Cancel(r) \/ CancelEnd(r) \/ CompleteDidReceiveResponse(r)
         \/ \E last, multipart \in BOOLEAN : DidReceiveHeader(r, last, multipart)
         \/ \E how \in Result : TransferDone(r, how)

\* The flags after didCancelTransfer(),
LEMMA DidCancelFlags ==
    ASSUME RequestTypes, NEW r \in Requests, NEW release,
           DidCancelTransfer(r, release)
    PROVE  RequestTypes' /\ SameLife
  <1>1. req' = [req EXCEPT ![r] = [req[r] EXCEPT !.m_multipartHandle = FALSE]]
    BY DEF DidCancelTransfer
  <1>2. Keeps(req[r], [req[r] EXCEPT !.m_multipartHandle = FALSE])
    BY UpdatesKeep DEF RequestTypes
  <1> QED
    BY <1>1, <1>2, OneKeeps

\* after the first test of didCompleteTransfer(),
LEMMA DidCompleteFlags ==
    ASSUME RequestTypes, NEW r \in Requests, NEW how, NEW release,
           DidCompleteTransfer(r, how, release)
    PROVE  RequestTypes' /\ SameLife
  <1>1. CASE req[r].m_cancelled
    BY <1>1, DidCancelFlags DEF DidCompleteTransfer
  <1>2. CASE ~req[r].m_cancelled
    BY <1>2, KeptFlags DEF DidCompleteTransfer
  <1> QED
    BY <1>1, <1>2

\* after cancel() up to the release of m_statusMutex,
LEMMA CancelFlags ==
    ASSUME RequestTypes, NEW r \in Requests, CancelBegin(r)
    PROVE  RequestTypes' /\ SameLife
  <1>1. req' = [req EXCEPT ![r] = [req[r] EXCEPT !.m_cancelled = TRUE]]
    BY DEF CancelBegin
  <1>2. Keeps(req[r], [req[r] EXCEPT !.m_cancelled = TRUE])
    BY UpdatesKeep DEF RequestTypes
  <1> QED
    BY <1>1, <1>2, OneKeeps

\* and after all of those steps.
LEMMA QuietFlags == Types /\ Quiet => RequestTypes' /\ SameLife
  <1> SUFFICES ASSUME Types, Quiet PROVE RequestTypes' /\ SameLife
    OBVIOUS
  <1> USE DEF Types
  <1>1. CASE UNCHANGED req
    BY <1>1, KeptFlags
  <1>2. CASE RunCancel
    BY <1>2, TakesFacts, CancelFlags, KeptFlags DEF RunCancel
  <1>3. CASE StartTransfer
    <2> DEFINE r == Head(batch).r
    <2>1. r \in Requests
      BY <1>3, SetupFacts DEF StartTransfer
    <2>2. PICK accepted \in BOOLEAN :
            req' = [req EXCEPT ![r] = SuspendAtSetup(req[r], accepted)]
      BY <1>3 DEF StartTransfer
    <2> HIDE DEF r
    <2>3. Keeps(req[r], SuspendAtSetup(req[r], accepted))
      BY <2>1, SuspendKeeps DEF RequestTypes
    <2> QED
      BY <2>1, <2>2, <2>3, OneKeeps
  <1>4. CASE StartTransferFails
    <2> DEFINE r == Head(batch).r
    <2>1. r \in Requests
      BY <1>4, SetupFacts DEF StartTransferFails
    <2>2. req' = [req EXCEPT ![r] = SuspendAtSetup(req[r], FALSE)]
      BY <1>4 DEF StartTransferFails
    <2> HIDE DEF r
    <2>3. Keeps(req[r], SuspendAtSetup(req[r], FALSE))
      BY <2>1, SuspendKeeps DEF RequestTypes
    <2> QED
      BY <2>1, <2>2, <2>3, OneKeeps
  <1>5. CASE PauseChange
    <2> DEFINE r == Head(batch).r
               b == ShouldBePaused(req[r])
    <2>1. r \in Requests
      BY <1>5, RunsFacts DEF PauseChange
    <2>2. \/ UNCHANGED req
          \/ req' = [req EXCEPT ![r] = [req[r] EXCEPT !.m_isHandlePaused = b]]
      BY <1>5 DEF PauseChange
    <2> HIDE DEF r
    <2>3. b \in BOOLEAN
      BY <2>1, FlagsAreBoolean DEF RequestTypes
    <2> HIDE DEF b
    <2>4. Keeps(req[r], [req[r] EXCEPT !.m_isHandlePaused = b])
      BY <2>1, <2>3, UpdatesKeep DEF RequestTypes
    <2> QED
      BY <2>1, <2>2, <2>4, OneKeeps, KeptFlags
  <1>6. CASE Finalize
    <2>1. Head(batch).r \in Requests
      BY <1>6, RunsFacts DEF Finalize
    <2>2. \/ DidCancelTransfer(Head(batch).r, TRUE)
          \/ DidCompleteTransfer(Head(batch).r, Head(batch).how, TRUE)
      BY <1>6 DEF Finalize
    <2> QED
      BY <2>1, <2>2, DidCancelFlags, DidCompleteFlags
  <1>7. CASE RunDidCancel
    BY <1>7, RunsFacts, DidCancelFlags DEF RunDidCancel
  <1>8. CASE RunDidComplete
    BY <1>8, RunsFacts, DidCompleteFlags DEF RunDidComplete
  <1>9. CASE FinishNow
    <2> DEFINE r == worker.r
    <2>1. r \in Requests
      BY <1>9, WorkerFacts DEF FinishNow
    <2>2. req' = [req EXCEPT ![r] = [req[r] EXCEPT !.m_multipartHandle = FALSE]]
      BY <1>9 DEF FinishNow
    <2> HIDE DEF r
    <2>3. Keeps(req[r], [req[r] EXCEPT !.m_multipartHandle = FALSE])
      BY <2>1, UpdatesKeep DEF RequestTypes
    <2> QED
      BY <2>1, <2>2, <2>3, OneKeeps
  <1>10. CASE SetCompleted
    <2> DEFINE r == worker.r
    <2>1. r \in Requests
      BY <1>10, WorkerFacts DEF SetCompleted
    <2>2. req' = [req EXCEPT ![r] = [req[r] EXCEPT !.m_completed = TRUE]]
      BY <1>10 DEF SetCompleted
    <2> HIDE DEF r
    <2>3. Keeps(req[r], [req[r] EXCEPT !.m_completed = TRUE])
      BY <2>1, UpdatesKeep DEF RequestTypes
    <2> QED
      BY <2>1, <2>2, <2>3, OneKeeps
  <1>11. CASE PauseInCallback
    <2> DEFINE r == worker.r
    <2>1. r \in Requests
      BY <1>11, WorkerFacts DEF PauseInCallback
    <2>2. req' = [req EXCEPT ![r] = [req[r] EXCEPT !.m_isHandlePaused = TRUE]]
      BY <1>11 DEF PauseInCallback
    <2> HIDE DEF r
    <2>3. Keeps(req[r], [req[r] EXCEPT !.m_isHandlePaused = TRUE])
      BY <2>1, UpdatesKeep DEF RequestTypes
    <2> QED
      BY <2>1, <2>2, <2>3, OneKeeps
  <1>12. ASSUME NEW r \in Requests, NEW paused \in BOOLEAN,
                SetRequestPaused(r, paused)
         PROVE  RequestTypes' /\ SameLife
    <2> DEFINE q == [req[r] EXCEPT !.m_shouldSuspend = paused,
                                   !.m_isPausedOfRequest = paused]
    <2>1. req' = [req EXCEPT ![r] = q]
      BY <1>12 DEF SetRequestPaused
    <2>2. Keeps(req[r], q)
      BY PairsKeep DEF RequestTypes
    <2> QED
      BY <2>1, <2>2, OneKeeps
  <1>13. ASSUME NEW r \in Requests, Cancel(r) PROVE RequestTypes' /\ SameLife
    BY <1>13, CancelFlags DEF Cancel
  <1>14. ASSUME NEW r \in Requests, CancelEnd(r) PROVE RequestTypes' /\ SameLife
    <2>1. req' = [req EXCEPT ![r] = [req[r] EXCEPT !.m_client = FALSE]]
      BY <1>14 DEF CancelEnd
    <2>2. Keeps(req[r], [req[r] EXCEPT !.m_client = FALSE])
      BY UpdatesKeep DEF RequestTypes
    <2> QED
      BY <2>1, <2>2, OneKeeps
  <1>15. ASSUME NEW r \in Requests, CompleteDidReceiveResponse(r)
         PROVE  RequestTypes' /\ SameLife
    <2>1. \/ UNCHANGED req
          \/ \E q : Keeps(req[r], q) /\ req' = [req EXCEPT ![r] = q]
      BY <1>15, AnswerCases
    <2> QED
      BY <2>1, OneKeeps, KeptFlags
  <1>16. ASSUME NEW r \in Requests, NEW last \in BOOLEAN,
                NEW multipart \in BOOLEAN, DidReceiveHeader(r, last, multipart)
         PROVE  RequestTypes' /\ SameLife
    <2> DEFINE c == IF last \/ req[r].m_didReceiveResponse
                    THEN multipart ELSE req[r].m_multipartHandle
               q == [req[r] EXCEPT !.m_didReceiveResponse = last,
                                   !.m_multipartHandle = c]
    <2>1. UNCHANGED req \/ req' = [req EXCEPT ![r] = q]
      BY <1>16 DEF DidReceiveHeader, Abort
    <2>2. c \in BOOLEAN
      BY FlagsAreBoolean DEF RequestTypes
    <2> HIDE DEF c
    <2>3. Keeps(req[r], q)
      BY <2>2, PairsKeep DEF RequestTypes
    <2> QED
      BY <2>1, <2>3, OneKeeps, KeptFlags
  <1>17. CASE \/ RunRelease \/ RunClient \/ TakeTasks \/ TestShouldSuspend
              \/ \E r \in Requests, how \in Result : TransferDone(r, how)
    BY <1>1, <1>17
       DEF RunRelease, RunClient, TakeTasks, TestShouldSuspend, TransferDone
  <1> QED
    BY <1>2, <1>3, <1>4, <1>5, <1>6, <1>7, <1>8, <1>9, <1>10, <1>11, <1>12,
       <1>13, <1>14, <1>15, <1>16, <1>17 DEF Quiet

\* The other steps: start(), and the three that notify a response.
LEMMA StartFlags ==
    ASSUME Types, NEW r \in Requests, Start(r)
    PROVE  /\ RequestTypes'
           /\ \A s \in Requests :
                /\ req'[s].m_actionAfterInvoke = req[s].m_actionAfterInvoke
                /\ req'[s].started = (s = r \/ req[s].started)
  <1> DEFINE q == [req[r] EXCEPT !.started = TRUE]
  <1>1. req' = [req EXCEPT ![r] = q]
    BY DEF Start
  <1>2. /\ q \in Request /\ q.started = TRUE
        /\ q.m_actionAfterInvoke = req[r].m_actionAfterInvoke
    BY DEF Types, RequestTypes, Request
  <1>3. \A s \in Requests : req[s].started \in BOOLEAN
    BY DEF Types, RequestTypes, Request
  <1> HIDE DEF q
  <1>4. RequestTypes' /\ req'[r] = q /\ \A s \in Requests \ {r} : req'[s] = req[s]
    BY <1>1, <1>2 DEF Types, RequestTypes
  <1> QED
    BY <1>2, <1>3, <1>4

\* The flags of r after a step that may notify a response of it.
Notifies(r, action) ==
    /\ RequestTypes'
    /\ \A s \in Requests :
         /\ req'[s].started = req[s].started
         /\ s # r => req'[s].m_actionAfterInvoke = req[s].m_actionAfterInvoke
    /\ req'[r].m_actionAfterInvoke = action

\* A step that updates one request so.
LEMMA NotifyFlags ==
    ASSUME RequestTypes, NEW r \in Requests, NEW action, NEW q \in Request,
           q.started = req[r].started, q.m_actionAfterInvoke = action,
           req' = [req EXCEPT ![r] = q]
    PROVE  Notifies(r, action)
  BY DEF RequestTypes, Notifies

\* respondForFile() leaves the start of the transfer waiting,
LEMMA RespondFlags ==
    ASSUME Types, RespondForFile
    PROVE  Notifies(Head(batch).r, "StartTransfer")
  <1> DEFINE r == Head(batch).r
  <1>1. r \in Requests
    BY RunsFacts DEF RespondForFile, Types
  <1>2. req' = [req EXCEPT ![r] = Notified(req[r], "StartTransfer")]
    BY DEF RespondForFile
  <1> HIDE DEF r
  <1>3. req[r] \in Request /\ "StartTransfer" \in Action
    BY <1>1 DEF Types, RequestTypes, Action
  <1>4. Notifies(r, "StartTransfer")
    BY <1>1, <1>2, <1>3, NotifiedFacts, NotifyFlags DEF Types
  <1> QED
    BY <1>4 DEF r

\* didCompleteTransfer() its end,
LEMMA FinishLaterFlags ==
    ASSUME Types, FinishLater
    PROVE  Notifies(worker.r, "FinishTransfer")
  <1> DEFINE r == worker.r
             q == [Notified(req[r], "FinishTransfer") EXCEPT
                     !.m_finishedResultCode = worker.how]
  <1>1. r \in Requests /\ worker.how \in Result
    BY WorkerFacts DEF FinishLater, Types
  <1>2. req' = [req EXCEPT ![r] = q]
    BY DEF FinishLater
  <1> HIDE DEF r
  <1>3. req[r] \in Request /\ "FinishTransfer" \in Action
    BY <1>1 DEF Types, RequestTypes, Action
  <1>4. /\ q \in Request /\ q.started = req[r].started
        /\ q.m_actionAfterInvoke = "FinishTransfer"
    BY <1>1, <1>3, NotifiedFacts DEF Request
  <1>5. Notifies(r, "FinishTransfer")
    BY <1>1, <1>2, <1>4, NotifyFlags DEF Types
  <1> QED
    BY <1>5 DEF r

\* and didReceiveData() the body, or nothing.
LEMMA DataFlags ==
    ASSUME Types, NEW r \in Requests, NEW part \in BOOLEAN,
           DidReceiveData(r, part)
    PROVE  \/ UNCHANGED req
           \/ Notifies(r, "ReceiveData")
           \/ Notifies(r, "None")
  <1>1. /\ req[r] \in Request /\ "ReceiveData" \in Action /\ "None" \in Action
    BY DEF Types, RequestTypes, Action
  <1> DEFINE q == [Notified(req[r], "ReceiveData") EXCEPT
                     !.m_isPausedOfCallback = TRUE]
  <1>2. /\ q \in Request /\ q.started = req[r].started
        /\ q.m_actionAfterInvoke = "ReceiveData"
    BY <1>1, NotifiedFacts DEF Request
  <1>3. \/ UNCHANGED req
        \/ req' = [req EXCEPT ![r] = q]
        \/ req' = [req EXCEPT ![r] = Notified(req[r], "None")]
        \/ req' = [req EXCEPT ![r] = req[r]]
    BY DEF DidReceiveData, Abort
  <1> HIDE DEF q
  <1>4. CASE req' = [req EXCEPT ![r] = q]
    BY <1>2, <1>4, NotifyFlags DEF Types
  <1>5. CASE req' = [req EXCEPT ![r] = Notified(req[r], "None")]
    BY <1>1, <1>5, NotifiedFacts, NotifyFlags DEF Types
  <1>6. CASE req' = [req EXCEPT ![r] = req[r]]
    BY <1>6 DEF Types, RequestTypes
  <1> QED
    BY <1>3, <1>4, <1>5, <1>6

\* Every step keeps the flags in their types,
LEMMA RequestTypesStep == Types /\ [Next]_vars => RequestTypes'
  <1> SUFFICES ASSUME Types, [Next]_vars PROVE RequestTypes'
    OBVIOUS
  <1>1. CASE Quiet
    BY <1>1, QuietFlags
  <1>2. ASSUME NEW r \in Requests, Start(r) PROVE RequestTypes'
    BY <1>2, StartFlags
  <1>3. CASE RespondForFile
    BY <1>3, RespondFlags DEF Notifies
  <1>4. CASE FinishLater
    BY <1>4, FinishLaterFlags DEF Notifies
  <1>5. ASSUME NEW r \in Requests, NEW part \in BOOLEAN, DidReceiveData(r, part)
        PROVE  RequestTypes'
    BY <1>5, DataFlags, KeptFlags DEF Notifies, Types
  <1>6. CASE UNCHANGED vars
    BY <1>6, KeptFlags DEF Types, vars
  <1> QED
    BY <1>1, <1>2, <1>3, <1>4, <1>5, <1>6
       DEF Next, MainThread, RunTask, Owner, Perform, Quiet

-----------------------------------------------------------------------------


\* Tasks, functions for the main thread and places of the curl thread that the
\* operations create.
LEMMA NewTasks ==
    ASSUME NEW r \in Requests
    PROVE  /\ [do |-> "startTransfer", r |-> r] \in Task
           /\ [do |-> "respondForFile", r |-> r] \in Task
           /\ [do |-> "pauseChange", r |-> r] \in Task
           /\ [do |-> "didCancel", r |-> r] \in Task
           /\ \A how \in Result :
                [do |-> "didComplete", r |-> r, how |-> how] \in Task
           /\ \A how \in Result \cup {"cancel"} :
                [do |-> "finalize", r |-> r, how |-> how] \in Task
  BY DEF Task

\* What clients are told is an event.
LEMMA NewEvents ==
    /\ [is |-> "response"] \in Event /\ [is |-> "complete"] \in Event
    /\ [is |-> "fail"] \in Event /\ [is |-> "cancel"] \in Event
    /\ \A n \in 1 .. MaxChunks : [is |-> "data", n |-> n] \in Event
  BY DEF Event

\* What is posted to the main thread is a function it can run.
LEMMA NewMainTasks ==
    ASSUME NEW r \in Requests
    PROVE  /\ \A e \in Event : Client(r, e) \in MainTask
           /\ Release(r) \in MainTask
           /\ [do |-> "cancel", r |-> r] \in MainTask
           /\ \A b \in BOOLEAN : ReleaseIf(b, r) \in Seq(MainTask)
  <1>1. /\ \A e \in Event : Client(r, e) \in MainTask
        /\ Release(r) \in MainTask
        /\ [do |-> "cancel", r |-> r] \in MainTask
    BY DEF MainTask, Client, Release
  <1> QED
    BY <1>1 DEF ReleaseIf

\* The places the curl thread gets to.
LEMMA NewWorkers ==
    ASSUME NEW r \in Requests
    PROVE  /\ [at |-> "idle"] \in Worker
           /\ [at |-> "suspending"] \in Worker
           /\ [at |-> "pausing", r |-> r] \in Worker
           /\ \A how \in Result, b \in BOOLEAN :
                /\ [at |-> "complete", r |-> r, how |-> how, release |-> b] \in Worker
                /\ [at |-> "completed", r |-> r, release |-> b] \in Worker
  BY DEF Worker

\* The queue of the main thread after a post.
LEMMA Posts ==
    ASSUME mainQueue \in Seq(MainTask), NEW t \in MainTask, NEW r \in Requests,
           NEW b \in BOOLEAN
    PROVE  /\ Append(mainQueue, t) \in Seq(MainTask)
           /\ Append(mainQueue, t) \o ReleaseIf(b, r) \in Seq(MainTask)
           /\ mainQueue \o ReleaseIf(b, r) \in Seq(MainTask)
           /\ PostResponse(r) \in Seq(MainTask)
           /\ PostResponse(r) \o ReleaseIf(b, r) \in Seq(MainTask)
           /\ Append(PostResponse(r), t) \in Seq(MainTask)
  <1>1. ReleaseIf(b, r) \in Seq(MainTask)
    BY NewMainTasks
  <1>2. PostResponse(r) \in Seq(MainTask)
    BY NewMainTasks, NewEvents, AppendProperties DEF PostResponse
  <1>3. /\ Append(mainQueue, t) \in Seq(MainTask)
        /\ Append(PostResponse(r), t) \in Seq(MainTask)
    BY <1>2, AppendProperties
  <1> QED
    BY <1>1, <1>2, <1>3, ConcatProperties

\* What the scheduler's operations do to the queue of tasks.
LEMMA SchedulerQueue ==
    ASSUME QueueTypes, NEW r \in Requests
    PROVE  /\ Add(r) => m_taskQueue' \in Seq(Task)
           /\ \A t \in Task : CallOnWorkerThread(t) => m_taskQueue' \in Seq(Task)
           /\ \A how \in Result \cup {"cancel"} :
                FinalizeTransfer(r, how) => m_taskQueue' \in Seq(Task)
  <1>1. \A t \in Task : Append(m_taskQueue, t) \in Seq(Task)
    BY AppendProperties DEF QueueTypes
  <1>2. Add(r) => m_taskQueue' \in Seq(Task)
    BY <1>1, NewTasks DEF Add
  <1>3. \A t \in Task : CallOnWorkerThread(t) => m_taskQueue' \in Seq(Task)
    BY <1>1 DEF CallOnWorkerThread
  <1>4. ASSUME NEW how \in Result \cup {"cancel"}, FinalizeTransfer(r, how)
        PROVE  m_taskQueue' \in Seq(Task)
    <2>1. [do |-> "finalize", r |-> r, how |-> how] \in Task
      BY NewTasks
    <2> QED
      BY <1>1, <1>4, <2>1 DEF FinalizeTransfer, QueueTypes
  <1> QED
    BY <1>2, <1>3, <1>4

\* What they do to the function queue and the curl thread's place.
LEMMA DidCancelQueue ==
    ASSUME QueueTypes, NEW r \in Requests, NEW release \in BOOLEAN,
           DidCancelTransfer(r, release)
    PROVE  mainQueue' \in Seq(MainTask) /\ worker' \in Worker
  <1>1. Client(r, [is |-> "cancel"]) \in MainTask
    BY NewMainTasks, NewEvents
  <1> QED
    BY <1>1, Posts DEF QueueTypes, DidCancelTransfer

\* and of the first test of didCompleteTransfer().
LEMMA DidCompleteQueue ==
    ASSUME QueueTypes, NEW r \in Requests, NEW how \in Result,
           NEW release \in BOOLEAN, DidCompleteTransfer(r, how, release)
    PROVE  mainQueue' \in Seq(MainTask) /\ worker' \in Worker
  <1>1. CASE req[r].m_cancelled
    BY <1>1, DidCancelQueue DEF DidCompleteTransfer
  <1>2. CASE ~req[r].m_cancelled
    BY <1>2, NewWorkers DEF DidCompleteTransfer, QueueTypes
  <1> QED
    BY <1>1, <1>2

\* Every step keeps the queues in their types,
LEMMA QueueTypesStep == Types /\ [Next]_vars => QueueTypes'
  <1> SUFFICES ASSUME Types, [Next]_vars PROVE QueueTypes'
    OBVIOUS
  <1>0. QueueTypes /\ RequestTypes /\ TransferTypes
    BY DEF Types
  <1> USE DEF schedVars, clientVars
  <1>1. CASE RunRelease
    BY <1>1, <1>0, TakesFacts DEF RunRelease, QueueTypes
  <1>2. CASE RunClient
    BY <1>2, <1>0, TakesFacts DEF RunClient, QueueTypes
  <1>3. CASE RunCancel
    BY <1>3, <1>0, TakesFacts DEF RunCancel, CancelBegin, QueueTypes
  <1>4. CASE TakeTasks
    BY <1>4, <1>0, EmptySeq DEF TakeTasks, QueueTypes
  <1>5. CASE RespondForFile
    <2>1. Head(batch).r \in Requests /\ batch' \in Seq(Task)
      BY <1>5, <1>0, RunsFacts DEF RespondForFile
    <2>2. mainQueue' \in Seq(MainTask)
      BY <1>5, <1>0, <2>1, NewMainTasks, Posts DEF RespondForFile, QueueTypes
    <2> QED
      BY <1>5, <1>0, <2>1, <2>2 DEF RespondForFile, QueueTypes
  <1>6. CASE StartTransfer
    BY <1>6, <1>0, SetupFacts DEF StartTransfer, QueueTypes
  <1>7. CASE StartTransferFails
    <2>1. /\ Head(batch).r \in Requests /\ batch' \in Seq(Task)
          /\ worker' \in Worker
      BY <1>7, <1>0, SetupFacts DEF StartTransferFails
    <2>2. m_taskQueue' \in Seq(Task)
      BY <1>7, <1>0, <2>1, SchedulerQueue DEF StartTransferFails, Result
    <2> QED
      BY <1>7, <1>0, <2>1, <2>2 DEF StartTransferFails, QueueTypes
  <1>8. CASE PauseChange
    <2>1. Head(batch).r \in Requests /\ batch' \in Seq(Task)
      BY <1>8, <1>0, RunsFacts DEF PauseChange
    <2>2. \/ UNCHANGED mainQueue
          \/ mainQueue' = Append(mainQueue, [do |-> "cancel", r |-> Head(batch).r])
      BY <1>8 DEF PauseChange
    <2>3. mainQueue' \in Seq(MainTask)
      BY <1>0, <2>1, <2>2, NewMainTasks, Posts DEF QueueTypes
    <2> QED
      BY <1>8, <1>0, <2>1, <2>3 DEF PauseChange, QueueTypes
  <1>9. CASE Finalize
    <2> DEFINE r == Head(batch).r
               how == Head(batch).how
    <2>1. /\ r \in Requests /\ batch' \in Seq(Task)
          /\ how \in Result \cup {"cancel"}
      BY <1>9, <1>0, RunsFacts DEF Finalize
    <2>2. \/ DidCancelTransfer(r, TRUE)
          \/ how # "cancel" /\ DidCompleteTransfer(r, how, TRUE)
      BY <1>9 DEF Finalize
    <2>3. UNCHANGED m_taskQueue
      BY <1>9 DEF Finalize
    <2> HIDE DEF r, how
    <2>4. mainQueue' \in Seq(MainTask) /\ worker' \in Worker
      BY <1>0, <2>1, <2>2, DidCancelQueue, DidCompleteQueue
    <2> QED
      BY <1>0, <2>1, <2>3, <2>4 DEF QueueTypes
  <1>10. CASE RunDidCancel
    <2>1. Head(batch).r \in Requests /\ batch' \in Seq(Task)
      BY <1>10, <1>0, RunsFacts DEF RunDidCancel
    <2>2. mainQueue' \in Seq(MainTask) /\ worker' \in Worker
      BY <1>10, <1>0, <2>1, DidCancelQueue DEF RunDidCancel
    <2> QED
      BY <1>10, <1>0, <2>1, <2>2 DEF RunDidCancel, QueueTypes
  <1>11. CASE RunDidComplete
    <2>1. /\ Head(batch).r \in Requests /\ Head(batch).how \in Result
          /\ batch' \in Seq(Task)
      BY <1>11, <1>0, RunsFacts DEF RunDidComplete
    <2>2. mainQueue' \in Seq(MainTask) /\ worker' \in Worker
      BY <1>11, <1>0, <2>1, DidCompleteQueue DEF RunDidComplete
    <2> QED
      BY <1>11, <1>0, <2>1, <2>2 DEF RunDidComplete, QueueTypes
  <1>12. CASE FinishLater
    <2>1. worker.r \in Requests /\ worker.release \in BOOLEAN
      BY <1>12, <1>0, WorkerFacts DEF FinishLater
    <2>2. mainQueue' \in Seq(MainTask) /\ worker' \in Worker
      BY <1>12, <1>0, <2>1, NewMainTasks, Posts, NewWorkers
         DEF FinishLater, QueueTypes
    <2> QED
      BY <1>12, <1>0, <2>2 DEF FinishLater, QueueTypes
  <1>13. CASE FinishNow
    <2>1. worker.r \in Requests /\ worker.release \in BOOLEAN
      BY <1>13, <1>0, WorkerFacts DEF FinishNow
    <2>2. PICK e \in Event : mainQueue' = Append(mainQueue, Client(worker.r, e))
      BY <1>13, NewEvents DEF FinishNow
    <2>3. worker' \in Worker
      <3>1. worker' = [at |-> "completed", r |-> worker.r,
                       release |-> worker.release]
        BY <1>13 DEF FinishNow
      <3> QED
        BY <2>1, <3>1 DEF Worker
    <2>4. mainQueue' \in Seq(MainTask)
      BY <1>0, <2>1, <2>2, NewMainTasks, Posts DEF QueueTypes
    <2> QED
      BY <1>13, <1>0, <2>3, <2>4 DEF FinishNow, QueueTypes
  <1>14. CASE SetCompleted
    <2>1. worker.r \in Requests /\ worker.release \in BOOLEAN
      BY <1>14, <1>0, WorkerFacts DEF SetCompleted
    <2>2. mainQueue' \in Seq(MainTask) /\ worker' \in Worker
      BY <1>14, <1>0, <2>1, NewMainTasks, Posts, NewWorkers
         DEF SetCompleted, QueueTypes
    <2> QED
      BY <1>14, <1>0, <2>2 DEF SetCompleted, QueueTypes
  <1>15. CASE PauseInCallback
    BY <1>15, <1>0, WorkerFacts, NewWorkers DEF PauseInCallback, QueueTypes
  <1>16. ASSUME NEW r \in Requests,
                Start(r)
         PROVE  QueueTypes'
    <2>1. m_taskQueue' \in Seq(Task) /\ UNCHANGED batch
      BY <1>16, <1>0, SchedulerQueue, NewTasks
         DEF Start, Add, CallOnWorkerThread
    <2> QED
      BY <1>16, <1>0, <2>1 DEF Start, QueueTypes
  <1>17. ASSUME NEW r \in Requests, NEW paused \in BOOLEAN,
                SetRequestPaused(r, paused)
         PROVE  QueueTypes'
    <2>1. \/ UNCHANGED schedVars
          \/ CallOnWorkerThread([do |-> "pauseChange", r |-> r])
      BY <1>17 DEF SetRequestPaused, PausedStatusChanged
    <2>2. m_taskQueue' \in Seq(Task) /\ UNCHANGED batch
      BY <1>0, <2>1, SchedulerQueue, NewTasks DEF CallOnWorkerThread, QueueTypes
    <2> QED
      BY <1>17, <1>0, <2>2 DEF SetRequestPaused, QueueTypes
  <1>18. ASSUME NEW r \in Requests,
                Cancel(r)
         PROVE  QueueTypes'
    BY <1>18, <1>0 DEF Cancel, CancelBegin, QueueTypes
  <1>19. ASSUME NEW r \in Requests,
                CancelEnd(r)
         PROVE  QueueTypes'
    <2>1. m_taskQueue' \in Seq(Task) /\ UNCHANGED batch
      BY <1>19, <1>0, SchedulerQueue, NewTasks DEF CancelEnd, CallOnWorkerThread
    <2> QED
      BY <1>19, <1>0, <2>1 DEF CancelEnd, QueueTypes
  <1>20. ASSUME NEW r \in Requests,
                CompleteDidReceiveResponse(r)
         PROVE  QueueTypes'
    <2>1. \/ UNCHANGED schedVars
          \/ CallOnWorkerThread([do |-> "pauseChange", r |-> r])
          \/ Add(r)
          \/ \E how \in Result :
               CallOnWorkerThread([do |-> "didComplete", r |-> r, how |-> how])
      BY <1>20, <1>0, AnswerCases
    <2>2. m_taskQueue' \in Seq(Task) /\ UNCHANGED batch
      BY <1>0, <2>1, SchedulerQueue, NewTasks
         DEF CallOnWorkerThread, Add, QueueTypes
    <2> QED
      BY <1>20, <1>0, <2>2 DEF CompleteDidReceiveResponse, QueueTypes
  <1>21. ASSUME NEW r \in Requests, NEW last \in BOOLEAN,
                NEW multipart \in BOOLEAN,
                DidReceiveHeader(r, last, multipart)
         PROVE  QueueTypes'
    BY <1>21, <1>0 DEF DidReceiveHeader, Abort, QueueTypes
  <1>22. ASSUME NEW r \in Requests, NEW part \in BOOLEAN,
                DidReceiveData(r, part)
         PROVE  QueueTypes'
    <2> DEFINE e == [is |-> "data", n |-> curl[r].sent + 1]
    <2>1. e \in Event
      <3>1. curl[r].sent + 1 \in 1 .. MaxChunks
        BY <1>22, <1>0, BoundsAssumption
           DEF DidReceiveData, TransferTypes, Transfer
      <3> QED
        BY <3>1, NewEvents
    <2>2. \/ UNCHANGED <<mainQueue, worker>>
          \/ mainQueue' = PostResponse(r) /\ worker' = [at |-> "pausing", r |-> r]
          \/ mainQueue' = Append(mainQueue, Client(r, e)) /\ UNCHANGED worker
          \/ mainQueue' = Append(PostResponse(r), Client(r, e)) /\ UNCHANGED worker
      BY <1>22 DEF DidReceiveData, Abort
    <2> HIDE DEF e
    <2>3. Client(r, e) \in MainTask
      BY <2>1, NewMainTasks
    <2>4. mainQueue' \in Seq(MainTask) /\ worker' \in Worker
      BY <1>0, <2>2, <2>3, Posts, NewWorkers DEF QueueTypes
    <2> QED
      BY <1>22, <1>0, <2>4 DEF DidReceiveData, QueueTypes
  <1>23. ASSUME NEW r \in Requests, NEW how \in Result,
                TransferDone(r, how)
         PROVE  QueueTypes'
    <2>1. PICK s \in m_clientMaps[m_curlHandle[r]] : FinalizeTransfer(s, how)
      BY <1>23 DEF TransferDone
    <2>2. m_taskQueue' = m_taskQueue
            \/ m_taskQueue' = Append(m_taskQueue,
                                     [do |-> "finalize", r |-> s, how |-> how])
      BY <2>1 DEF FinalizeTransfer
    <2>3. s \in m_activeJobs => s \in Requests
      BY DEF Types, JobTypes
    <2>4. m_taskQueue' \in Seq(Task)
      BY <1>0, <2>1, <2>3, SchedulerQueue DEF FinalizeTransfer, QueueTypes
    <2> QED
      BY <1>23, <1>0, <2>4 DEF TransferDone, QueueTypes
  <1>24. CASE UNCHANGED vars
    BY <1>24, <1>0 DEF vars, schedVars, clientVars, QueueTypes
  <1>25. CASE TestShouldSuspend
    BY <1>25, <1>0 DEF TestShouldSuspend, QueueTypes, Worker
  <1> QED
    BY <1>1, <1>2, <1>3, <1>4, <1>5, <1>6, <1>7, <1>8, <1>9, <1>10, <1>11,
       <1>12, <1>13, <1>14, <1>15, <1>16, <1>17, <1>18, <1>19, <1>20, <1>21,
       <1>22, <1>23, <1>24, <1>25 DEF Next, MainThread, RunTask, Owner, Perform

\* The updates of libcurl's side of a transfer.
LEMMA TransferUpdates ==
    ASSUME NEW t \in Transfer, NEW b \in BOOLEAN
    PROVE  /\ \A x \in {"none", "running", "over", "removed"} :
                /\ [t EXCEPT !.state = x] \in Transfer
                /\ [t EXCEPT !.state = x, !.paused = b] \in Transfer
           /\ [t EXCEPT !.paused = b] \in Transfer
           /\ [t EXCEPT !.aborted = b] \in Transfer
           /\ t.blocks < MaxBlocks => \A x \in {"part", "all"} :
                [t EXCEPT !.blocks = @ + 1, !.headers = x] \in Transfer
           /\ t.sent < MaxChunks => [t EXCEPT !.sent = @ + 1] \in Transfer
  <1>1. \A x \in {"none", "running", "over", "removed"} :
          /\ [t EXCEPT !.state = x] \in Transfer
          /\ [t EXCEPT !.state = x, !.paused = b] \in Transfer
    BY DEF Transfer
  <1>2. /\ [t EXCEPT !.paused = b] \in Transfer
        /\ [t EXCEPT !.aborted = b] \in Transfer
    BY DEF Transfer
  <1>3. /\ t.blocks < MaxBlocks => t.blocks + 1 \in 0 .. MaxBlocks
        /\ t.sent < MaxChunks => t.sent + 1 \in 0 .. MaxChunks
    BY BoundsAssumption DEF Transfer
  <1>4. \A n \in 0 .. MaxBlocks, x \in {"part", "all"} :
          [t EXCEPT !.blocks = n, !.headers = x] \in Transfer
    BY DEF Transfer
  <1>5. \A n \in 0 .. MaxChunks : [t EXCEPT !.sent = n] \in Transfer
    BY DEF Transfer
  <1> QED
    BY <1>1, <1>2, <1>3, <1>4, <1>5

\* A step that updates one transfer so.
LEMMA OneTransfer ==
    ASSUME TransferTypes, NEW r \in Requests, NEW t \in Transfer,
           curl' = [curl EXCEPT ![r] = t]
    PROVE  TransferTypes'
  BY DEF TransferTypes

\* Every step keeps libcurl's transfers in their types,
LEMMA TransferTypesStep == Types /\ [Next]_vars => TransferTypes'
  <1> SUFFICES ASSUME Types, [Next]_vars PROVE TransferTypes'
    OBVIOUS
  <1>0. /\ QueueTypes /\ RequestTypes /\ TransferTypes
        /\ \A r \in Requests : curl[r] \in Transfer /\ req[r] \in Request
    BY DEF Types, TransferTypes, RequestTypes
  <1>1. CASE UNCHANGED curl
    BY <1>0, <1>1 DEF TransferTypes
  <1>2. CASE StartTransfer
    <2> DEFINE r == Head(batch).r
    <2>1. r \in Requests
      BY <1>0, <1>2, SetupFacts DEF StartTransfer
    <2>2. PICK accepted \in BOOLEAN :
            curl' = [curl EXCEPT ![r] =
                       [curl[r] EXCEPT !.state = "running",
                          !.paused = SuspendAtSetup(req[r], accepted).m_isHandlePaused]]
      BY <1>2 DEF StartTransfer
    <2> HIDE DEF r
    <2>3. SuspendAtSetup(req[r], accepted).m_isHandlePaused \in BOOLEAN
      BY <1>0, <2>1, SuspendKeeps, FlagsAreBoolean DEF Keeps
    <2> QED
      BY <1>0, <2>1, <2>2, <2>3, TransferUpdates, OneTransfer
  <1>3. CASE PauseChange
    <2> DEFINE r == Head(batch).r
               b == ShouldBePaused(req[r])
    <2>1. r \in Requests
      BY <1>0, <1>3, RunsFacts DEF PauseChange
    <2>2. \/ UNCHANGED curl
          \/ curl' = [curl EXCEPT ![r] = [curl[r] EXCEPT !.paused = b]]
      BY <1>3 DEF PauseChange
    <2> HIDE DEF r
    <2>3. b \in BOOLEAN
      BY <1>0, <2>1, FlagsAreBoolean
    <2> HIDE DEF b
    <2> QED
      BY <1>0, <1>1, <2>1, <2>2, <2>3, TransferUpdates, OneTransfer
  <1>4. CASE Finalize
    <2> DEFINE r == Head(batch).r
    <2>1. r \in Requests
      BY <1>0, <1>4, RunsFacts DEF Finalize
    <2>2. \/ UNCHANGED curl
          \/ curl' = [curl EXCEPT ![r] = [curl[r] EXCEPT !.state = "removed"]]
      BY <1>4 DEF Finalize
    <2> HIDE DEF r
    <2> QED
      BY <1>0, <1>1, <2>1, <2>2, TransferUpdates, OneTransfer
  <1>5. CASE PauseInCallback
    <2>1. worker.r \in Requests
      BY <1>0, <1>5, WorkerFacts DEF PauseInCallback
    <2>2. curl' = [curl EXCEPT ![worker.r] = [curl[worker.r] EXCEPT !.paused = TRUE]]
      BY <1>5 DEF PauseInCallback
    <2> QED
      BY <1>0, <2>1, <2>2, TransferUpdates, OneTransfer
  <1>6. ASSUME NEW r \in Requests,
               curl' = [curl EXCEPT ![r] = [curl[r] EXCEPT !.aborted = TRUE]]
        PROVE  TransferTypes'
    BY <1>0, <1>6, TransferUpdates, OneTransfer
  <1>7. ASSUME NEW r \in Requests, NEW last \in BOOLEAN,
               NEW multipart \in BOOLEAN, DidReceiveHeader(r, last, multipart)
        PROVE  TransferTypes'
    <2> DEFINE x == IF last THEN "all" ELSE "part"
    <2>1. CASE IsCompletedOrCancelled(req[r])
      BY <1>6, <1>7, <2>1 DEF DidReceiveHeader, Abort
    <2>2. CASE ~IsCompletedOrCancelled(req[r])
      <3>1. /\ curl' = [curl EXCEPT ![r] = [curl[r] EXCEPT !.blocks = @ + 1,
                                                           !.headers = x]]
            /\ curl[r].blocks < MaxBlocks
        BY <1>7, <2>2 DEF DidReceiveHeader
      <3> QED
        BY <1>0, <3>1, TransferUpdates, OneTransfer
    <2> QED
      BY <2>1, <2>2
  <1>8. ASSUME NEW r \in Requests, NEW part \in BOOLEAN, DidReceiveData(r, part)
        PROVE  TransferTypes'
    <2>1. /\ curl[r].sent < MaxChunks
          /\ \/ UNCHANGED curl
             \/ curl' = [curl EXCEPT ![r] = [curl[r] EXCEPT !.aborted = TRUE]]
             \/ curl' = [curl EXCEPT ![r] = [curl[r] EXCEPT !.sent = @ + 1]]
      BY <1>8 DEF DidReceiveData, Abort
    <2> QED
      BY <1>0, <1>1, <1>6, <2>1, TransferUpdates, OneTransfer
  <1>9. ASSUME NEW r \in Requests, NEW how \in Result, TransferDone(r, how)
        PROVE  TransferTypes'
    <2>1. curl' = [curl EXCEPT ![r] = [curl[r] EXCEPT !.state = "over"]]
      BY <1>9 DEF TransferDone
    <2> QED
      BY <1>0, <2>1, TransferUpdates, OneTransfer
  <1>10. \/ UNCHANGED curl
         \/ StartTransfer \/ PauseChange \/ Finalize \/ PauseInCallback
         \/ \E r \in Requests :
              \/ \E last, multipart \in BOOLEAN : DidReceiveHeader(r, last, multipart)
              \/ \E part \in BOOLEAN : DidReceiveData(r, part)
              \/ \E how \in Result : TransferDone(r, how)
    BY Zenon DEF Next, vars, MainThread, RunTask, Owner, Perform, RunRelease,
       RunClient, RunCancel, TakeTasks, RespondForFile, TestShouldSuspend,
       StartTransferFails, RunDidCancel, RunDidComplete, FinishLater, FinishNow, SetCompleted,
       Start, SetRequestPaused, Cancel, CancelEnd, CompleteDidReceiveResponse
  <1> QED
    BY <1>1, <1>2, <1>3, <1>4, <1>5, <1>7, <1>8, <1>9, <1>10

\* what clients were told and owe,
LEMMA ClientTypesStep == Types /\ [Next]_vars => ClientTypes'
  <1> SUFFICES ASSUME Types, [Next]_vars PROVE ClientTypes'
    OBVIOUS
  <1>0. QueueTypes /\ ClientTypes
    BY DEF Types
  <1>1. CASE UNCHANGED clientVars
    BY <1>0, <1>1 DEF ClientTypes, clientVars
  <1>2. CASE RunClient
    <2> DEFINE r == Head(mainQueue).r
               e == Head(mainQueue).what
    <2>1. r \in Requests /\ e \in Event
      BY <1>0, <1>2, TakesFacts DEF RunClient
    <2>2. /\ UNCHANGED <<suspends, suspended>>
          /\ \/ UNCHANGED <<told, owed>>
             \/ /\ told' = [told EXCEPT ![r] = Append(told[r], e)]
                /\ owed' = [owed EXCEPT ![r] =
                              IF e.is = "response" THEN owed[r] + 1 ELSE owed[r]]
      BY <1>2 DEF RunClient
    <2> HIDE DEF r, e
    <2>3. Append(told[r], e) \in Seq(Event)
      BY <1>0, <2>1, AppendProperties DEF ClientTypes
    <2>4. told' \in [Requests -> Seq(Event)]
      BY <1>0, <2>1, <2>2, <2>3 DEF ClientTypes
    <2>5. owed' \in [Requests -> Nat]
      <3>1. owed \in [Requests -> Nat] /\ owed[r] \in Nat
        BY <1>0, <2>1 DEF ClientTypes
      <3>2. UNCHANGED owed \/ \E n \in Nat : owed' = [owed EXCEPT ![r] = n]
        BY <2>2, <3>1
      <3> QED
        BY <3>1, <3>2
    <2> QED
      BY <1>0, <2>2, <2>4, <2>5 DEF ClientTypes
  <1>3. ASSUME NEW r \in Requests, NEW paused \in BOOLEAN,
               SetRequestPaused(r, paused)
        PROVE  ClientTypes'
    <2>1. /\ UNCHANGED <<told, owed>>
          /\ suspends' = [suspends EXCEPT ![r] = IF paused THEN @ + 1 ELSE @]
          /\ paused => suspends[r] < MaxSuspends
          /\ suspended' = [suspended EXCEPT ![r] = paused]
      BY <1>3 DEF SetRequestPaused
    <2>2. suspends' \in [Requests -> 0 .. MaxSuspends]
      BY <1>0, <2>1, BoundsAssumption DEF ClientTypes
    <2>3. suspended' \in [Requests -> BOOLEAN]
      BY <1>0, <2>1 DEF ClientTypes
    <2> QED
      BY <1>0, <2>1, <2>2, <2>3 DEF ClientTypes
  <1>4. ASSUME NEW r \in Requests, CompleteDidReceiveResponse(r)
        PROVE  ClientTypes'
    <2>1. /\ UNCHANGED <<told, suspends, suspended>> /\ owed[r] > 0
          /\ owed' = [owed EXCEPT ![r] = @ - 1]
      BY <1>4 DEF CompleteDidReceiveResponse
    <2> QED
      BY <1>0, <2>1 DEF ClientTypes
  <1>5. \/ UNCHANGED clientVars
        \/ RunClient
        \/ \E r \in Requests :
             \/ \E paused \in BOOLEAN : SetRequestPaused(r, paused)
             \/ CompleteDidReceiveResponse(r)
    BY Zenon DEF Next, vars, MainThread, RunTask, Owner, Perform, RunRelease,
       RunCancel, TakeTasks, RespondForFile, TestShouldSuspend, StartTransfer,
       StartTransferFails, PauseChange, Finalize, RunDidCancel, RunDidComplete, FinishLater,
       FinishNow, SetCompleted, PauseInCallback, Start, Cancel, CancelEnd,
       DidReceiveHeader, DidReceiveData, TransferDone
  <1> QED
    BY <1>1, <1>2, <1>3, <1>4, <1>5

\* Handle and file after didCancelTransfer(),
LEMMA DidCancelJobs ==
    ASSUME JobTypes, NEW r \in Requests, NEW release,
           DidCancelTransfer(r, release)
    PROVE  /\ m_curlHandle' \in [Requests -> Handles \cup {NoHandle}]
           /\ file' \in [Requests -> {"none", "open", "closed"}]
  BY DEF JobTypes, DidCancelTransfer

\* and after the first test of didCompleteTransfer().
LEMMA DidCompleteJobs ==
    ASSUME JobTypes, NEW r \in Requests, NEW how, NEW release,
           DidCompleteTransfer(r, how, release)
    PROVE  /\ m_curlHandle' \in [Requests -> Handles \cup {NoHandle}]
           /\ file' \in [Requests -> {"none", "open", "closed"}]
  <1>1. CASE req[r].m_cancelled
    BY <1>1, DidCancelJobs DEF DidCompleteTransfer
  <1>2. CASE ~req[r].m_cancelled
    BY <1>2 DEF DidCompleteTransfer, JobTypes
  <1> QED
    BY <1>1, <1>2

\* and handles, files and jobs.
LEMMA JobTypesStep == Types /\ [Next]_vars => JobTypes'
  <1> SUFFICES ASSUME Types, [Next]_vars PROVE JobTypes'
    OBVIOUS
  <1>0. QueueTypes /\ JobTypes /\ RequestTypes
    BY DEF Types
  <1> USE DEF schedVars
  <1>1. CASE RunRelease
    BY <1>1, <1>0 DEF RunRelease, JobTypes
  <1>2. CASE RunClient
    BY <1>2, <1>0 DEF RunClient, JobTypes
  <1>3. CASE RunCancel
    <2>1. Head(mainQueue).r \in Requests
      BY <1>3, <1>0, TakesFacts DEF RunCancel
    <2> QED
      BY <1>3, <1>0, <2>1 DEF RunCancel, CancelBegin, JobTypes
  <1>4. CASE TakeTasks
    BY <1>4, <1>0 DEF TakeTasks, JobTypes
  <1>5. CASE RespondForFile
    BY <1>5, <1>0 DEF RespondForFile, JobTypes
  <1>6. CASE StartTransfer
    <2>1. Head(batch).r \in Requests
      BY <1>6, <1>0, SetupFacts DEF StartTransfer
    <2>2. PICK h \in Handles :
            /\ m_curlHandle' = [m_curlHandle EXCEPT ![Head(batch).r] = h]
            /\ m_clientMaps' = [m_clientMaps EXCEPT ![h] = {Head(batch).r}]
      BY <1>6 DEF StartTransfer
    <2> QED
      BY <1>6, <1>0, <2>1, <2>2 DEF StartTransfer, JobTypes
  <1>7. CASE StartTransferFails
    BY <1>7, <1>0 DEF StartTransferFails, FinalizeTransfer, JobTypes
  <1>8. CASE PauseChange
    BY <1>8, <1>0 DEF PauseChange, JobTypes
  <1>9. CASE Finalize
    <2> DEFINE r == Head(batch).r
    <2>1. r \in Requests
      BY <1>9, <1>0, RunsFacts DEF Finalize
    <2>2. /\ UNCHANGED <<m_activeJobs, main>>
          /\ \/ UNCHANGED m_clientMaps
             \/ m_clientMaps' = [m_clientMaps EXCEPT ![m_curlHandle[r]] = {}]
          /\ \/ DidCancelTransfer(r, TRUE)
             \/ DidCompleteTransfer(r, Head(batch).how, TRUE)
      BY <1>9 DEF Finalize
    <2> HIDE DEF r
    <2>3. m_clientMaps' \in [Handles -> SUBSET Requests]
      BY <1>0, <2>2 DEF JobTypes
    <2> QED
      BY <1>0, <2>1, <2>2, <2>3, DidCancelJobs, DidCompleteJobs DEF JobTypes
  <1>10. CASE RunDidCancel
    <2>1. Head(batch).r \in Requests
      BY <1>10, <1>0, RunsFacts DEF RunDidCancel
    <2> QED
      BY <1>10, <1>0, <2>1, DidCancelJobs DEF RunDidCancel, JobTypes
  <1>11. CASE RunDidComplete
    <2>1. Head(batch).r \in Requests
      BY <1>11, <1>0, RunsFacts DEF RunDidComplete
    <2> QED
      BY <1>11, <1>0, <2>1, DidCompleteJobs DEF RunDidComplete, JobTypes
  <1>12. CASE FinishLater
    BY <1>12, <1>0 DEF FinishLater, JobTypes
  <1>13. CASE FinishNow
    <2>1. worker.r \in Requests
      BY <1>13, <1>0, WorkerFacts DEF FinishNow
    <2>2. /\ m_curlHandle' = [m_curlHandle EXCEPT ![worker.r] = NoHandle]
          /\ file' = [file EXCEPT ![worker.r] = IF @ = "open" THEN "closed" ELSE @]
          /\ UNCHANGED <<m_activeJobs, m_clientMaps, main>>
      BY <1>13 DEF FinishNow
    <2> QED
      BY <1>0, <2>1, <2>2 DEF JobTypes
  <1>14. CASE SetCompleted
    BY <1>14, <1>0 DEF SetCompleted, JobTypes
  <1>15. CASE PauseInCallback
    BY <1>15, <1>0 DEF PauseInCallback, JobTypes
  <1>16. ASSUME NEW r \in Requests,
                Start(r)
         PROVE  JobTypes'
    BY <1>16, <1>0 DEF Start, Add, CallOnWorkerThread, JobTypes
  <1>17. ASSUME NEW r \in Requests, NEW paused \in BOOLEAN,
                SetRequestPaused(r, paused)
         PROVE  JobTypes'
    <2>1. UNCHANGED <<m_activeJobs, m_clientMaps>>
      BY <1>17 DEF SetRequestPaused, PausedStatusChanged, CallOnWorkerThread
    <2> QED
      BY <1>17, <1>0, <2>1 DEF SetRequestPaused, JobTypes
  <1>18. ASSUME NEW r \in Requests,
                Cancel(r)
         PROVE  JobTypes'
    BY <1>18, <1>0 DEF Cancel, CancelBegin, JobTypes
  <1>19. ASSUME NEW r \in Requests,
                CancelEnd(r)
         PROVE  JobTypes'
    BY <1>19, <1>0 DEF CancelEnd, CallOnWorkerThread, FinalizeTransfer,
       JobTypes
  <1>20. ASSUME NEW r \in Requests,
                CompleteDidReceiveResponse(r)
         PROVE  JobTypes'
    <2>1. m_activeJobs' \subseteq Requests /\ UNCHANGED m_clientMaps
      BY <1>20, <1>0, AnswerCases DEF CallOnWorkerThread, Add, JobTypes
    <2> QED
      BY <1>20, <1>0, <2>1 DEF CompleteDidReceiveResponse, JobTypes
  <1>21. ASSUME NEW r \in Requests, NEW last \in BOOLEAN,
                NEW multipart \in BOOLEAN,
                DidReceiveHeader(r, last, multipart)
         PROVE  JobTypes'
    BY <1>21, <1>0 DEF DidReceiveHeader, Abort, JobTypes
  <1>22. ASSUME NEW r \in Requests, NEW part \in BOOLEAN,
                DidReceiveData(r, part)
         PROVE  JobTypes'
    BY <1>22, <1>0 DEF DidReceiveData, Abort, JobTypes
  <1>23. ASSUME NEW r \in Requests, NEW how \in Result,
                TransferDone(r, how)
         PROVE  JobTypes'
    <2>1. m_activeJobs' \subseteq m_activeJobs
      BY <1>23 DEF TransferDone, FinalizeTransfer
    <2> QED
      BY <1>23, <1>0, <2>1 DEF TransferDone, JobTypes
  <1>24. CASE UNCHANGED vars
    BY <1>24, <1>0 DEF vars, schedVars, clientVars, JobTypes
  <1>25. CASE TestShouldSuspend
    BY <1>25, <1>0 DEF TestShouldSuspend, JobTypes
  <1> QED
    BY <1>1, <1>2, <1>3, <1>4, <1>5, <1>6, <1>7, <1>8, <1>9, <1>10, <1>11,
       <1>12, <1>13, <1>14, <1>15, <1>16, <1>17, <1>18, <1>19, <1>20, <1>21,
       <1>22, <1>23, <1>24, <1>25 DEF Next, MainThread, RunTask, Owner, Perform

\* The parts are the type invariant, but for the retain counts.
LEMMA TypeParts == TypeOK <=> Types /\ retains \in [Requests -> Nat]
  BY Zenon DEF TypeOK, Types, RequestTypes, QueueTypes, TransferTypes,
     ClientTypes, JobTypes, Worker

\* The types hold before anything has started.
LEMMA InitTypes == Init => Types
  <1> SUFFICES ASSUME Init PROVE Types
    OBVIOUS
  <1>1. RequestTypes
    <2>1. PICK local \in SUBSET LocalFiles : req = [r \in Requests |->
         [local |-> r \in local, started |-> FALSE, m_client |-> TRUE,
          m_cancelled |-> FALSE, m_completed |-> FALSE,
          m_didReceiveResponse |-> FALSE, m_didNotifyResponse |-> FALSE,
          m_didReturnFromNotify |-> FALSE, m_actionAfterInvoke |-> "None",
          m_finishedResultCode |-> "ok", m_multipartHandle |-> FALSE,
          m_shouldSuspend |-> r \in Deferred, m_isPausedOfRequest |-> FALSE,
          m_isPausedOfCallback |-> FALSE, m_isHandlePaused |-> FALSE]]
      BY DEF Init
    <2> QED
      BY <2>1 DEF RequestTypes, Request, Action, Result
  <1>2. QueueTypes
    BY EmptySeq DEF Init, QueueTypes, Worker
  <1>3. TransferTypes
    BY BoundsAssumption DEF Init, TransferTypes, Transfer
  <1>4. ClientTypes
    BY BoundsAssumption, EmptySeq DEF Init, ClientTypes
  <1>5. JobTypes
    BY DEF Init, JobTypes
  <1> QED
    BY <1>1, <1>2, <1>3, <1>4, <1>5 DEF Types

\* All types but that of the retain counts are inductive by themselves.
LEMMA TypesStep == Types /\ [Next]_vars => Types'
  BY RequestTypesStep, QueueTypesStep, TransferTypesStep, ClientTypesStep,
     JobTypesStep DEF Types

=============================================================================
