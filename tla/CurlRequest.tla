----------------------------- MODULE CurlRequest -----------------------------
(***************************************************************************)
(* CurlRequest and CurlRequestScheduler: transfers that the main thread    *)
(* starts, suspends, answers and cancels, and that one curl thread runs.   *)
(*                                                                         *)
(* The main thread gives the curl thread tasks (m_taskQueue, taken a batch *)
(* at a time); the curl thread gives the main thread functions to run.     *)
(* Between two batches libcurl (external) calls back with headers and data *)
(* and reports transfers that are over.  Where a test on one thread is     *)
(* acted upon after the other thread could run, the operation is split in  *)
(* steps (setupTransfer, cancel, didReceiveData, didCompleteTransfer).     *)
(***************************************************************************)
EXTENDS Integers, Sequences, FiniteSets

CONSTANTS
    Requests,    \* CurlRequest objects
    Handles,     \* addresses of curl easy handles
    NoHandle,
    LocalFiles,  \* requests that may be for file: URLs
    Downloads,   \* requests after enableDownloadToFile()
    Deferred,    \* requests created with ShouldSuspend::Yes
    Multiparts,  \* requests that a server may answer with multipart
    MaxBlocks,   \* bound: header callbacks of a transfer
    MaxChunks,   \* bound: pieces of a body
    MaxSuspends  \* bound: suspend() calls on a request

ASSUME RequestsAssumption ==
    /\ LocalFiles \subseteq Requests
    /\ Downloads \subseteq Requests
    /\ Deferred \subseteq Requests
    /\ Multiparts \subseteq Requests
    /\ NoHandle \notin Handles
ASSUME BoundsAssumption ==
    /\ MaxBlocks \in Nat
    /\ MaxChunks \in Nat
    /\ MaxSuspends \in Nat

VARIABLES
    req,           \* the flags of each CurlRequest
    m_curlHandle,  \* its easy handle
    file,          \* its download file
    m_taskQueue, m_activeJobs, m_clientMaps,
    batch,         \* tasks executeTasks has taken
    retains,       \* retain() less release() of each request
    worker,        \* where the curl thread is inside an operation
    main,          \* the request whose cancel() the main thread is in
    mainQueue,     \* functions for the main thread
    curl,          \* libcurl's side of each transfer
    told,          \* what the client of each request was told
    owed,          \* responses the client has not answered yet
    suspends,
    suspended      \* history: the owner's last word is to suspend the request

schedVars  == <<m_taskQueue, m_activeJobs, m_clientMaps, batch, retains>>
clientVars == <<told, owed, suspends, suspended>>
vars == <<req, m_curlHandle, file, schedVars, worker, main, mainQueue, curl,
          clientVars>>

Result == {"ok", "error"}
Action == {"None", "ReceiveData", "StartTransfer", "FinishTransfer"}
Event ==
    [is : {"response", "complete", "fail", "cancel"}]
      \cup [is : {"data"}, n : 1 .. MaxChunks]
Task ==
    [do : {"respondForFile", "startTransfer", "pauseChange", "didCancel"},
     r : Requests]
      \cup [do : {"didComplete"}, r : Requests, how : Result]
      \cup [do : {"finalize"}, r : Requests, how : Result \cup {"cancel"}]
MainTask ==
    [do : {"client"}, r : Requests, what : Event]
      \cup [do : {"release", "cancel"}, r : Requests]

Request ==
    [local : BOOLEAN, started : BOOLEAN, m_client : BOOLEAN,
     m_cancelled : BOOLEAN, m_completed : BOOLEAN,
     m_didReceiveResponse : BOOLEAN, m_didNotifyResponse : BOOLEAN,
     m_didReturnFromNotify : BOOLEAN, m_actionAfterInvoke : Action,
     m_finishedResultCode : Result, m_multipartHandle : BOOLEAN,
     m_shouldSuspend : BOOLEAN, m_isPausedOfRequest : BOOLEAN,
     m_isPausedOfCallback : BOOLEAN, m_isHandlePaused : BOOLEAN]
Transfer ==
    [state : {"none", "running", "over", "removed"}, headers : {"none", "part", "all"},
     blocks : 0 .. MaxBlocks, sent : 0 .. MaxChunks,
     paused : BOOLEAN, aborted : BOOLEAN]

TypeOK ==
    /\ req \in [Requests -> Request]
    /\ m_curlHandle \in [Requests -> Handles \cup {NoHandle}]
    /\ file \in [Requests -> {"none", "open", "closed"}]
    /\ m_taskQueue \in Seq(Task)
    /\ batch \in Seq(Task)
    /\ m_activeJobs \subseteq Requests
    /\ m_clientMaps \in [Handles -> SUBSET Requests]
    /\ retains \in [Requests -> Nat]
    /\ worker \in [at : {"idle", "suspending"}]
         \cup [at : {"pausing"}, r : Requests]
         \cup [at : {"complete"}, r : Requests, how : Result, release : BOOLEAN]
         \cup [at : {"completed"}, r : Requests, release : BOOLEAN]
    /\ main \in SUBSET Requests
    /\ mainQueue \in Seq(MainTask)
    /\ curl \in [Requests -> Transfer]
    /\ told \in [Requests -> Seq(Event)]
    /\ owed \in [Requests -> Nat]
    /\ suspends \in [Requests -> 0 .. MaxSuspends]
    /\ suspended \in [Requests -> BOOLEAN]

Init ==
    /\ \E local \in SUBSET LocalFiles : req = [r \in Requests |->
         [local |-> r \in local, started |-> FALSE, m_client |-> TRUE,
          m_cancelled |-> FALSE, m_completed |-> FALSE,
          m_didReceiveResponse |-> FALSE, m_didNotifyResponse |-> FALSE,
          m_didReturnFromNotify |-> FALSE, m_actionAfterInvoke |-> "None",
          m_finishedResultCode |-> "ok", m_multipartHandle |-> FALSE,
          m_shouldSuspend |-> r \in Deferred, m_isPausedOfRequest |-> FALSE,
          m_isPausedOfCallback |-> FALSE, m_isHandlePaused |-> FALSE]]
    /\ m_curlHandle = [r \in Requests |-> NoHandle]
    /\ file = [r \in Requests |-> "none"]
    /\ m_taskQueue = <<>>
    /\ batch = <<>>
    /\ m_activeJobs = {}
    /\ m_clientMaps = [h \in Handles |-> {}]
    /\ retains = [r \in Requests |-> 0]
    /\ worker = [at |-> "idle"]
    /\ main = {}
    /\ mainQueue = <<>>
    /\ curl = [r \in Requests |->
         [state |-> "none", headers |-> "none", blocks |-> 0, sent |-> 0,
          paused |-> FALSE, aborted |-> FALSE]]
    /\ told = [r \in Requests |-> <<>>]
    /\ owed = [r \in Requests |-> 0]
    /\ suspends = [r \in Requests |-> 0]
    /\ suspended = [r \in Requests |-> r \in Deferred]

IsCompletedOrCancelled(q) == q.m_completed \/ q.m_cancelled
ShouldBePaused(q) == q.m_isPausedOfRequest \/ q.m_isPausedOfCallback
NeedToInvokeDidReceiveResponse(q) ==
    q.m_didReceiveResponse /\ ~q.m_didNotifyResponse
\* Mutant: cancel() does not look at what is waiting for the answer.
NeedToInvokeDidCancelTransfer_AnyAction(q) ==
    q.m_didNotifyResponse /\ ~q.m_didReturnFromNotify

NeedToInvokeDidCancelTransfer(q) ==
    /\ q.m_didNotifyResponse
    /\ ~q.m_didReturnFromNotify
    /\ q.m_actionAfterInvoke = "FinishTransfer"

Client(r, what) == [do |-> "client", r |-> r, what |-> what]
Release(r) == [do |-> "release", r |-> r]
ReleaseIf(b, r) == IF b THEN <<Release(r)>> ELSE <<>>

(***************************************************************************)
(* The scheduler, under m_mutex.                                           *)
(***************************************************************************)

\* add(): the raw pointer in the task is kept alive by the retain.
Add(r) ==
    /\ retains' = [retains EXCEPT ![r] = @ + 1]
    /\ m_activeJobs' = m_activeJobs \cup {r}
    /\ m_taskQueue' = Append(m_taskQueue, [do |-> "startTransfer", r |-> r])
    /\ UNCHANGED <<m_clientMaps, batch>>

\* Mutants: the job stays active; a job that is not active is not skipped.
FinalizeTransfer_StaysActive(r, how) ==
    /\ m_activeJobs' = m_activeJobs
    /\ m_taskQueue' =
         IF r \in m_activeJobs
           THEN Append(m_taskQueue, [do |-> "finalize", r |-> r, how |-> how])
           ELSE m_taskQueue
FinalizeTransfer_Always(r, how) ==
    /\ m_activeJobs' = m_activeJobs \ {r}
    /\ m_taskQueue' =
         Append(m_taskQueue, [do |-> "finalize", r |-> r, how |-> how])

\* What finalizeTransfer does to the jobs and the queue.
FinalizeTransfer(r, how) ==
    /\ m_activeJobs' = m_activeJobs \ {r}
    /\ m_taskQueue' =
         IF r \in m_activeJobs
           THEN Append(m_taskQueue, [do |-> "finalize", r |-> r, how |-> how])
           ELSE m_taskQueue

CallOnWorkerThread(task) ==
    /\ m_taskQueue' = Append(m_taskQueue, task)
    /\ UNCHANGED <<m_activeJobs, m_clientMaps, batch, retains>>

\* pausedStatusChanged() on the main thread, given the flags before and after.
PausedStatusChanged(r, q) ==
    IF ShouldBePaused(q) # ShouldBePaused(req[r]) /\ ~IsCompletedOrCancelled(q)
      THEN CallOnWorkerThread([do |-> "pauseChange", r |-> r])
      ELSE UNCHANGED schedVars

(***************************************************************************)
(* Main thread.  The owner of a request calls it between two functions of  *)
(* mainQueue; nothing else runs on the main thread inside a cancel().      *)
(***************************************************************************)

Start(r) ==
    /\ main = {}
    /\ ~req[r].started /\ ~req[r].m_cancelled
    /\ req' = [req EXCEPT ![r].started = TRUE]
    /\ IF req[r].local
         THEN CallOnWorkerThread([do |-> "respondForFile", r |-> r])
         ELSE Add(r)
    /\ UNCHANGED <<m_curlHandle, file, worker, main, mainQueue, curl, clientVars>>

\* setRequestPaused() for suspend() and resume(), which owners call in turn.
SetRequestPaused(r, paused) ==
    LET q == [req[r] EXCEPT !.m_shouldSuspend = paused,
                            !.m_isPausedOfRequest = paused]
    IN  /\ main = {}
        /\ req[r].started /\ req[r].m_client
        /\ suspended[r] # paused
        /\ suspended' = [suspended EXCEPT ![r] = paused]
        /\ paused => suspends[r] < MaxSuspends
        /\ suspends' = [suspends EXCEPT ![r] = IF paused THEN @ + 1 ELSE @]
        /\ req' = [req EXCEPT ![r] = q]
        /\ PausedStatusChanged(r, q)
        /\ UNCHANGED <<m_curlHandle, file, worker, main, mainQueue, curl,
                       told, owed>>

\* cancel() up to the release of m_statusMutex.
CancelBegin(r) ==
    /\ main = {}
    /\ req[r].started /\ ~req[r].m_cancelled
    /\ req' = [req EXCEPT ![r].m_cancelled = TRUE]
    /\ main' = {r}

Cancel(r) ==
    /\ CancelBegin(r)
    /\ UNCHANGED <<m_curlHandle, file, schedVars, worker, mainQueue, curl,
                   clientVars>>

\* The rest of it: the flags the curl thread sets are read without a lock.
CancelEnd(r) ==
    /\ main = {r}
    /\ main' = {}
    /\ IF NeedToInvokeDidCancelTransfer(req[r])
         THEN CallOnWorkerThread([do |-> "didCancel", r |-> r])
         ELSE /\ FinalizeTransfer(r, "cancel")
              /\ UNCHANGED <<m_clientMaps, batch, retains>>
    /\ req' = [req EXCEPT ![r].m_client = FALSE]
    /\ UNCHANGED <<m_curlHandle, file, worker, mainQueue, curl, clientVars>>

\* Mutant: nothing finishes a transfer that waited for the answer.
AfterInvoke_NoFinish(r, q) ==
    CASE q.m_actionAfterInvoke = "ReceiveData" ->
           LET unpaused == [q EXCEPT !.m_isPausedOfCallback = FALSE]
           IN  /\ req' = [req EXCEPT ![r] = unpaused]
               /\ PausedStatusChanged(r, unpaused)
      [] q.m_actionAfterInvoke = "StartTransfer" ->
           req' = [req EXCEPT ![r] = q] /\ Add(r)
      [] OTHER ->
           req' = [req EXCEPT ![r] = q] /\ UNCHANGED schedVars

\* What answering the response leads to, by the action that was waiting.
AfterInvoke(r, q) ==
    CASE q.m_actionAfterInvoke = "ReceiveData" ->
           LET unpaused == [q EXCEPT !.m_isPausedOfCallback = FALSE]
           IN  /\ req' = [req EXCEPT ![r] = unpaused]
               /\ PausedStatusChanged(r, unpaused)
      [] q.m_actionAfterInvoke = "StartTransfer" ->
           req' = [req EXCEPT ![r] = q] /\ Add(r)
      [] q.m_actionAfterInvoke = "FinishTransfer" ->
           /\ req' = [req EXCEPT ![r] = q]
           /\ CallOnWorkerThread([do |-> "didComplete", r |-> r,
                                  how |-> q.m_finishedResultCode])
      [] q.m_actionAfterInvoke = "None" ->
           req' = [req EXCEPT ![r] = q] /\ UNCHANGED schedVars

CompleteDidReceiveResponse(r) ==
    /\ main = {}
    /\ owed[r] > 0
    /\ owed' = [owed EXCEPT ![r] = @ - 1]
    /\ IF IsCompletedOrCancelled(req[r])
         THEN UNCHANGED <<req, schedVars>>
         ELSE AfterInvoke(r, [req[r] EXCEPT !.m_didReturnFromNotify = TRUE])
    /\ UNCHANGED <<m_curlHandle, file, worker, main, mainQueue, curl,
                   told, suspends, suspended>>

Takes(do) ==
    /\ main = {}
    /\ mainQueue # <<>>
    /\ Head(mainQueue).do = do
    /\ mainQueue' = Tail(mainQueue)

RunRelease ==
    /\ Takes("release")
    /\ retains' = [retains EXCEPT ![Head(mainQueue).r] = @ - 1]
    /\ UNCHANGED <<req, m_curlHandle, file, m_taskQueue, m_activeJobs,
                   m_clientMaps, batch, worker, main, curl, clientVars>>

\* The function callClient posted: the client may be gone by now.
RunClient ==
    /\ Takes("client")
    /\ LET r == Head(mainQueue).r
           e == Head(mainQueue).what
       IN  IF req[r].m_client
             THEN /\ told' = [told EXCEPT ![r] = Append(@, e)]
                  /\ owed' = [owed EXCEPT ![r] =
                                IF e.is = "response" THEN @ + 1 ELSE @]
             ELSE UNCHANGED <<told, owed>>
    /\ UNCHANGED <<req, m_curlHandle, file, schedVars, worker, main, curl,
                   suspends, suspended>>

RunCancel ==
    /\ Takes("cancel")
    /\ \/ CancelBegin(Head(mainQueue).r)
       \/ req[Head(mainQueue).r].m_cancelled /\ UNCHANGED <<req, main>>
    /\ UNCHANGED <<m_curlHandle, file, schedVars, worker, curl, clientVars>>

(***************************************************************************)
(* Curl thread: executeTasks.                                              *)
(***************************************************************************)

TakeTasks ==
    /\ worker.at = "idle"
    /\ batch = <<>> /\ m_taskQueue # <<>>
    /\ batch' = m_taskQueue
    /\ m_taskQueue' = <<>>
    /\ UNCHANGED <<req, m_curlHandle, file, m_activeJobs, m_clientMaps, retains,
                   worker, main, mainQueue, curl, clientVars>>

Dequeues(do) ==
    /\ batch # <<>>
    /\ Head(batch).do = do
    /\ batch' = Tail(batch)
Runs(do) == worker.at = "idle" /\ Dequeues(do)

\* The flags after invokeDidReceiveResponse; the response is posted with it.
Notified(q, action) ==
    [q EXCEPT !.m_didNotifyResponse = TRUE, !.m_actionAfterInvoke = action]
PostResponse(r) == Append(mainQueue, Client(r, [is |-> "response"]))

RespondForFile ==
    /\ Runs("respondForFile")
    /\ LET r == Head(batch).r
       IN  /\ req' = [req EXCEPT ![r] = Notified(@, "StartTransfer")]
           /\ mainQueue' = PostResponse(r)
    /\ UNCHANGED <<m_curlHandle, file, m_taskQueue, m_activeJobs, m_clientMaps,
                   retains, worker, main, curl, clientVars>>

\* setupTransfer() tests m_shouldSuspend without a lock ...
TestShouldSuspend ==
    /\ worker.at = "idle"
    /\ batch # <<>>
    /\ Head(batch).do = "startTransfer"
    /\ req[Head(batch).r].m_shouldSuspend
    /\ worker' = [at |-> "suspending"]
    /\ UNCHANGED <<req, m_curlHandle, file, schedVars, main, mainQueue, curl,
                   clientVars>>

\* ... and goes on with what the test gave, whatever resume() did meanwhile.
SetupTransfer ==
    /\ Dequeues("startTransfer")
    /\ \/ worker.at = "idle" /\ ~req[Head(batch).r].m_shouldSuspend
       \/ worker.at = "suspending"
    /\ worker' = [at |-> "idle"]

\* The flags after it: with setRequestPaused(true) if the test said so, which
\* reaches libcurl if shouldBePaused() changes, and which libcurl may refuse for
\* a handle that has no connection yet.
SuspendAtSetup(q, accepted) ==
    IF worker.at = "suspending"
      THEN [q EXCEPT !.m_shouldSuspend = TRUE, !.m_isPausedOfRequest = TRUE,
                     !.m_isHandlePaused =
                        \/ @
                        \/ /\ accepted
                           /\ ~ShouldBePaused(q) /\ ~IsCompletedOrCancelled(q)]
      ELSE q

\* The task of startTransfer when libcurl has a handle for it.
StartTransfer ==
    /\ SetupTransfer
    /\ \E h \in Handles, accepted \in BOOLEAN :
         LET r == Head(batch).r
             q == SuspendAtSetup(req[r], accepted)
         IN  /\ \A s \in Requests : m_curlHandle[s] # h
             /\ m_curlHandle' = [m_curlHandle EXCEPT ![r] = h]
             /\ m_clientMaps' = [m_clientMaps EXCEPT ![h] = {r}]
             /\ req' = [req EXCEPT ![r] = q]
             /\ curl' = [curl EXCEPT ![r].state = "running",
                                     ![r].paused = q.m_isHandlePaused]
    /\ UNCHANGED <<file, m_taskQueue, m_activeJobs, retains, main, mainQueue,
                   clientVars>>

\* The same when curl_easy_init failed.
StartTransferFails ==
    /\ SetupTransfer
    /\ LET r == Head(batch).r
       IN  /\ FinalizeTransfer(r, "error")
           /\ req' = [req EXCEPT ![r] = SuspendAtSetup(@, FALSE)]
    /\ UNCHANGED <<m_curlHandle, file, m_clientMaps, retains, main, mainQueue,
                   curl, clientVars>>

\* The task of pausedStatusChanged; a refused unpause cancels the request.
PauseChange ==
    /\ Runs("pauseChange")
    /\ LET r == Head(batch).r
           paused == ShouldBePaused(req[r])
       IN  \/ /\ \/ IsCompletedOrCancelled(req[r]) \/ m_curlHandle[r] = NoHandle
                 \/ req[r].m_isHandlePaused = paused
              /\ UNCHANGED <<req, curl, mainQueue>>
           \/ /\ ~IsCompletedOrCancelled(req[r]) /\ m_curlHandle[r] # NoHandle
              /\ req[r].m_isHandlePaused # paused
              /\ \/ /\ req' = [req EXCEPT ![r].m_isHandlePaused = paused]
                    /\ curl' = [curl EXCEPT ![r].paused = paused]
                    /\ UNCHANGED mainQueue
                 \/ /\ mainQueue' = IF paused THEN mainQueue
                           ELSE Append(mainQueue, [do |-> "cancel", r |-> r])
                    /\ UNCHANGED <<req, curl>>
    /\ UNCHANGED <<m_curlHandle, file, m_taskQueue, m_activeJobs, m_clientMaps,
                   retains, worker, main, clientVars>>

\* Mutants: the download file is only closed; the request is not released.
DidCancelTransfer_KeepsFile(r, release) ==
    /\ m_curlHandle' = [m_curlHandle EXCEPT ![r] = NoHandle]
    /\ file' = [file EXCEPT ![r] = IF @ = "open" THEN "closed" ELSE @]
    /\ req' = [req EXCEPT ![r].m_multipartHandle = FALSE]
    /\ mainQueue' = Append(mainQueue, Client(r, [is |-> "cancel"]))
                      \o ReleaseIf(release, r)
    /\ UNCHANGED worker
DidCancelTransfer_NoRelease(r, release) ==
    /\ m_curlHandle' = [m_curlHandle EXCEPT ![r] = NoHandle]
    /\ file' = [file EXCEPT ![r] = "none"]
    /\ req' = [req EXCEPT ![r].m_multipartHandle = FALSE]
    /\ mainQueue' = Append(mainQueue, Client(r, [is |-> "cancel"]))
    /\ UNCHANGED worker

\* didCancelTransfer(); the client is told, if cancel() has left it there.
DidCancelTransfer(r, release) ==
    /\ m_curlHandle' = [m_curlHandle EXCEPT ![r] = NoHandle]
    /\ file' = [file EXCEPT ![r] = "none"]
    /\ req' = [req EXCEPT ![r].m_multipartHandle = FALSE]
    /\ mainQueue' = Append(mainQueue, Client(r, [is |-> "cancel"]))
                      \o ReleaseIf(release, r)
    /\ UNCHANGED worker

\* didCompleteTransfer() as far as its first test.
DidCompleteTransfer(r, how, release) ==
    IF req[r].m_cancelled
      THEN DidCancelTransfer(r, release)
      ELSE /\ worker' = [at |-> "complete", r |-> r, how |-> how,
                         release |-> release]
           /\ UNCHANGED <<req, m_curlHandle, file, mainQueue>>

\* The task of finalizeTransfer: the handle leaves the map and libcurl first.
Finalize ==
    /\ Runs("finalize")
    /\ LET r == Head(batch).r
           how == Head(batch).how
           h == m_curlHandle[r]
       IN  /\ IF h = NoHandle
                THEN UNCHANGED <<m_clientMaps, curl>>
                ELSE /\ m_clientMaps' = [m_clientMaps EXCEPT ![h] = {}]
                     /\ curl' = [curl EXCEPT ![r].state = "removed"]
           /\ IF how = "cancel" THEN DidCancelTransfer(r, TRUE)
              ELSE DidCompleteTransfer(r, how, TRUE)
    /\ UNCHANGED <<m_taskQueue, m_activeJobs, retains, main, clientVars>>

\* The tasks of cancel() and of completeDidReceiveResponse().
RunDidCancel ==
    /\ Runs("didCancel")
    /\ DidCancelTransfer(Head(batch).r, FALSE)
    /\ UNCHANGED <<m_taskQueue, m_activeJobs, m_clientMaps, retains, main, curl,
                   clientVars>>

RunDidComplete ==
    /\ Runs("didComplete")
    /\ DidCompleteTransfer(Head(batch).r, Head(batch).how, FALSE)
    /\ UNCHANGED <<m_taskQueue, m_activeJobs, m_clientMaps, retains, main, curl,
                   clientVars>>

\* The rest of didCompleteTransfer(): a response nobody was told of yet comes
\* first, and the transfer ends when it has been answered ...
FinishLater ==
    /\ worker.at = "complete"
    /\ LET r == worker.r
       IN  /\ NeedToInvokeDidReceiveResponse(req[r])
           /\ req' = [req EXCEPT ![r] =
                        [Notified(@, "FinishTransfer") EXCEPT
                           !.m_finishedResultCode = worker.how]]
           /\ mainQueue' = PostResponse(r) \o ReleaseIf(worker.release, r)
    /\ worker' = [at |-> "idle"]
    /\ UNCHANGED <<m_curlHandle, file, schedVars, main, curl, clientVars>>

\* Mutant: the end is posted although the response was not.
FinishNow_Early ==
    /\ worker.at = "complete"
    /\ LET r == worker.r
       IN  /\ req' = [req EXCEPT ![r].m_multipartHandle = FALSE]
           /\ m_curlHandle' = [m_curlHandle EXCEPT ![r] = NoHandle]
           /\ file' = [file EXCEPT ![r] = IF @ = "open" THEN "closed" ELSE @]
           /\ mainQueue' = Append(mainQueue,
                Client(r, [is |-> IF worker.how = "ok" THEN "complete" ELSE "fail"]))
           /\ worker' = [at |-> "completed", r |-> r, release |-> worker.release]
    /\ UNCHANGED <<schedVars, main, curl, clientVars>>

\* ... or the transfer is finalized and its end posted,
FinishNow ==
    /\ worker.at = "complete"
    /\ LET r == worker.r
       IN  /\ ~NeedToInvokeDidReceiveResponse(req[r])
           /\ req' = [req EXCEPT ![r].m_multipartHandle = FALSE]
           /\ m_curlHandle' = [m_curlHandle EXCEPT ![r] = NoHandle]
           /\ file' = [file EXCEPT ![r] = IF @ = "open" THEN "closed" ELSE @]
           /\ mainQueue' = Append(mainQueue,
                Client(r, [is |-> IF worker.how = "ok" THEN "complete" ELSE "fail"]))
           /\ worker' = [at |-> "completed", r |-> r, release |-> worker.release]
    /\ UNCHANGED <<schedVars, main, curl, clientVars>>

\* and then m_completed is set.
SetCompleted ==
    /\ worker.at = "completed"
    /\ req' = [req EXCEPT ![worker.r].m_completed = TRUE]
    /\ mainQueue' = mainQueue \o ReleaseIf(worker.release, worker.r)
    /\ worker' = [at |-> "idle"]
    /\ UNCHANGED <<m_curlHandle, file, schedVars, main, curl, clientVars>>

(***************************************************************************)
(* Curl thread: the callbacks libcurl makes, and the transfers it ends,    *)
(* after a batch of tasks.                                                 *)
(***************************************************************************)

Performs(r) ==
    /\ worker.at = "idle" /\ batch = <<>>
    /\ curl[r].state = "running"

\* A callback that returns 0 makes libcurl give the transfer up.
Abort(r) ==
    /\ curl' = [curl EXCEPT ![r].aborted = TRUE]
    /\ UNCHANGED <<req, file, worker, mainQueue>>

Receives(r) == Performs(r) /\ ~curl[r].paused /\ ~curl[r].aborted

\* didReceiveHeader: a line of a block, or (last) the empty line after it.
DidReceiveHeader(r, last, multipart) ==
    /\ Receives(r) /\ curl[r].blocks < MaxBlocks
    /\ multipart => last /\ r \in Multiparts
    /\ IF IsCompletedOrCancelled(req[r]) THEN Abort(r)
       ELSE /\ req' = [req EXCEPT ![r].m_didReceiveResponse = last,
                                  ![r].m_multipartHandle =
                                     IF last \/ req[r].m_didReceiveResponse
                                       THEN multipart ELSE @]
            /\ curl' = [curl EXCEPT ![r].blocks = @ + 1,
                          ![r].headers = IF last THEN "all" ELSE "part"]
            /\ UNCHANGED <<file, worker, mainQueue>>
    /\ UNCHANGED <<m_curlHandle, schedVars, main, clientVars>>

\* didReceiveData: the first piece waits until the response was answered, the
\* others are written to the file and posted; with multipart a piece may begin
\* with the headers of a part, which are a response of their own.
DidReceiveData(r, part) ==
    /\ Receives(r) /\ curl[r].sent < MaxChunks
    /\ curl[r].headers = "all" \/ (req[r].local /\ curl[r].headers = "none")
    /\ part => req[r].m_multipartHandle
    /\ IF IsCompletedOrCancelled(req[r]) THEN Abort(r)
       ELSE IF NeedToInvokeDidReceiveResponse(req[r])
         THEN /\ req' = [req EXCEPT ![r] =
                           [Notified(@, "ReceiveData") EXCEPT
                              !.m_isPausedOfCallback = TRUE]]
              /\ mainQueue' = PostResponse(r)
              /\ worker' = [at |-> "pausing", r |-> r]
              /\ UNCHANGED <<curl, file>>
         ELSE /\ req' = [req EXCEPT ![r] = IF part THEN Notified(@, "None") ELSE @]
              /\ curl' = [curl EXCEPT ![r].sent = @ + 1]
              /\ file' = [file EXCEPT ![r] = IF r \in Downloads THEN "open" ELSE @]
              /\ mainQueue' = Append(IF part THEN PostResponse(r) ELSE mainQueue,
                    Client(r, [is |-> "data", n |-> curl[r].sent + 1]))
              /\ UNCHANGED worker
    /\ UNCHANGED <<m_curlHandle, schedVars, main, clientVars>>

\* Mutant: the pause by the return value is not recorded.
PauseInCallback_NotRecorded ==
    /\ worker.at = "pausing"
    /\ curl' = [curl EXCEPT ![worker.r].paused = TRUE]
    /\ worker' = [at |-> "idle"]
    /\ UNCHANGED <<req, m_curlHandle, file, schedVars, main, mainQueue, clientVars>>

\* The end of that first call: libcurl pauses and will send the piece again.
PauseInCallback ==
    /\ worker.at = "pausing"
    /\ req' = [req EXCEPT ![worker.r].m_isHandlePaused = TRUE]
    /\ curl' = [curl EXCEPT ![worker.r].paused = TRUE]
    /\ worker' = [at |-> "idle"]
    /\ UNCHANGED <<m_curlHandle, file, schedVars, main, mainQueue, clientVars>>

\* CURLMSG_DONE: completeTransfer for the client the map gives.
TransferDone(r, how) ==
    /\ Performs(r)
    /\ how = "ok" =>
         /\ ~curl[r].paused /\ ~curl[r].aborted
         /\ curl[r].headers = "all" \/ (req[r].local /\ curl[r].headers = "none")
    /\ curl' = [curl EXCEPT ![r].state = "over"]
    /\ \E s \in m_clientMaps[m_curlHandle[r]] : FinalizeTransfer(s, how)
    /\ UNCHANGED <<req, m_curlHandle, file, m_clientMaps, batch, retains, worker,
                   main, mainQueue, clientVars>>

-----------------------------------------------------------------------------

Owner(r) ==
    \/ Start(r)
    \/ \E paused \in BOOLEAN : SetRequestPaused(r, paused)
    \/ Cancel(r)
    \/ CompleteDidReceiveResponse(r)
MainThread ==
    \/ RunRelease \/ RunClient \/ RunCancel
    \/ \E r \in Requests : CancelEnd(r)
RunTask ==
    \/ RespondForFile \/ TestShouldSuspend \/ StartTransfer \/ StartTransferFails
    \/ PauseChange \/ Finalize \/ RunDidCancel \/ RunDidComplete
    \/ FinishLater \/ FinishNow \/ SetCompleted \/ PauseInCallback
Perform(r) ==
    \/ \E last, multipart \in BOOLEAN : DidReceiveHeader(r, last, multipart)
    \/ \E part \in BOOLEAN : DidReceiveData(r, part)
    \/ \E how \in Result : TransferDone(r, how)

Next ==
    \/ MainThread \/ TakeTasks \/ RunTask
    \/ \E r \in Requests : Owner(r) \/ Perform(r)

Spec == Init /\ [][Next]_vars

\* Both threads go on; a transfer that is not paused ends or fails; a client
\* answers the responses it is told of and resumes what it has suspended.
Fairness ==
    /\ WF_vars(MainThread)
    /\ WF_vars(TakeTasks)
    /\ WF_vars(RunTask)
    /\ \A r \in Requests :
         /\ WF_vars(~curl[r].paused /\ Perform(r))
         /\ WF_vars(CompleteDidReceiveResponse(r))
         /\ WF_vars(SetRequestPaused(r, FALSE))

FairSpec == Spec /\ Fairness

(***************************************************************************)
(* Properties.                                                             *)
(***************************************************************************)

Tasks == {m_taskQueue[i] : i \in DOMAIN m_taskQueue}
           \cup {batch[i] : i \in DOMAIN batch}
Count(S) == Cardinality(S)

\* Who has to release a request: the scheduler that counts it as active, a
\* finalizeTransfer task (queued or running), or a posted release().
ReleasesDue(r) ==
    Count({r} \cap m_activeJobs)
      + Count({i \in DOMAIN m_taskQueue :
                 m_taskQueue[i].do = "finalize" /\ m_taskQueue[i].r = r})
      + Count({i \in DOMAIN batch : batch[i].do = "finalize" /\ batch[i].r = r})
      + (IF worker.at \in {"complete", "completed"}
           THEN IF worker.r = r /\ worker.release THEN 1 ELSE 0
           ELSE 0)
      + Count({i \in DOMAIN mainQueue : mainQueue[i] = Release(r)})

\* A request is released exactly as often as it was retained however cancel(),
\* a failed start and the end of the transfer race, and it is retained as long
\* as a startTransfer task or m_clientMaps has its raw pointer.
RetainedWhileReferenced ==
    \A r \in Requests :
      /\ retains[r] = ReleasesDue(r)
      /\ \/ [do |-> "startTransfer", r |-> r] \in Tasks
         \/ \E h \in Handles : r \in m_clientMaps[h]
         => retains[r] > 0

\* The assertions on m_clientMaps: a handle in libcurl is the handle of the
\* client the map has for it (so a reused address meets no old entry, and no
\* handle is cleaned up while libcurl has it), and a finalizeTransfer task that
\* finds a handle finds it in the map.
HandlesAreMapped ==
    /\ \A h \in Handles : \A r \in m_clientMaps[h] : m_curlHandle[r] = h
    /\ \A r \in Requests :
         \/ curl[r].state \in {"running", "over"}
         \/ /\ m_curlHandle[r] # NoHandle
            /\ \E t \in Tasks : t.do = "finalize" /\ t.r = r
         => /\ m_curlHandle[r] # NoHandle
            /\ m_clientMaps[m_curlHandle[r]] = {r}

Ends == {"complete", "fail", "cancel"}
Pieces(t) == {i \in DOMAIN t : t[i].is = "data"}

\* What callClient delivers to a client: a response before the first piece of
\* the body, every piece once and in order, one end with nothing after it, and
\* a completion only after a response and all the pieces libcurl delivered.
ClientHearsInOrder ==
    \A r \in Requests :
      LET t == told[r] IN
      /\ \A i \in DOMAIN t : t[i].is \in Ends => i = Len(t)
      /\ \A i \in Pieces(t) :
           /\ \E j \in 1 .. i - 1 : t[j].is = "response"
           /\ t[i].n = Count({j \in Pieces(t) : j <= i})
      /\ \A i \in DOMAIN t : t[i].is = "complete" =>
           /\ \E j \in 1 .. i - 1 : t[j].is = "response"
           /\ Count(Pieces(t)) = curl[r].sent

Ended(r) == \E i \in DOMAIN told[r] : told[r][i].is \in Ends

\* The owner wants the transfer to go on and no response waits for its answer,
\* but the handle is paused.
HeldUp(r) ==
    /\ curl[r].state = "running" /\ curl[r].paused
    /\ ~suspended[r] /\ ~req[r].m_isPausedOfCallback

\* setupTransfer() has acted upon m_shouldSuspend after a resume().
Overwritten(r) == ~suspended[r] /\ req[r].m_isPausedOfRequest

\* A transfer that its owner has resumed does not stay paused in libcurl, however
\* suspend(), resume(), the answer to the response and the return of
\* CURL_WRITEFUNC_PAUSE interleave; but for a resume() during setupTransfer().
ResumeReachesHandle ==
    \A r \in Requests : HeldUp(r) /\ ~Overwritten(r) ~> ~HeldUp(r)

\* A request that was created suspended goes on once its owner calls resume().
\* (Not if that falls between the test and the act of setupTransfer().)
ResumeIsNotLost == \A r \in Requests : HeldUp(r) ~> ~HeldUp(r)

\* A started request ends for its client, by completion, failure or cancel(),
\* if no resume() is overwritten.
LoadEnds ==
    \A r \in Requests :
      req[r].started ~> Ended(r) \/ req[r].m_cancelled \/ Overwritten(r)

\* The retain() of the scheduler is given back, with the same exception.
IsReleased ==
    \A r \in Requests : retains[r] > 0 ~> retains[r] = 0 \/ Overwritten(r)

\* cancel() removes the download file unless the transfer was complete.
CancelLeavesNoFile ==
    \A r \in Requests :
      req[r].m_cancelled ~> (file[r] = "none" \/ req[r].m_completed)

=============================================================================
