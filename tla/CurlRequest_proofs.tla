------------------------- MODULE CurlRequest_proofs -------------------------
(***************************************************************************)
(* Proofs about CurlRequest, for any number of requests and handles.       *)
(*                                                                         *)
(* The batch and m_taskQueue are read as one queue, whose order says which *)
(* task of a request may follow which.  LifeInv is the way of a request    *)
(* through start(), the scheduler, libcurl and the end: add() is called    *)
(* once, and what is active, queued, mapped or over goes together.  It     *)
(* gives HandlesAreMapped.  Balanced equates the retain count with what    *)
(* is owed, part by part; with LifeInv it gives TypeOK and                 *)
(* RetainedWhileReferenced.                                                *)
(***************************************************************************)
EXTENDS CurlTypes_proofs

(***************************************************************************)
(* The tasks as one queue.                                                 *)
(***************************************************************************)

\* Of two tasks in the queue, t before u: a transfer is started once and not
\* after it was finalized, finalized once, and a file is answered for once.
Follows(t, u) ==
    t.r = u.r =>
      /\ u.do = "startTransfer" => t.do \notin {"startTransfer", "finalize"}
      /\ u.do = "finalize" => t.do # "finalize"
      /\ u.do = "respondForFile" => t.do # "respondForFile"

Ordered(q) == \A i, j \in 1 .. Len(q) : i < j => Follows(q[i], q[j])

\* A task that may follow all the others is appended.
LEMMA OrderedAppend ==
    ASSUME NEW q \in Seq(Task), Ordered(q), NEW t \in Task,
           \A u \in Range(q) : Follows(u, t)
    PROVE  Ordered(Append(q, t))
  <1> DEFINE p == Append(q, t)
  <1>1. /\ Len(q) \in Nat /\ DOMAIN q = 1 .. Len(q) /\ Len(p) = Len(q) + 1
        /\ \A i \in 1 .. Len(q) : p[i] = q[i]
        /\ p[Len(q) + 1] = t
    BY AppendProperties, LenProperties
  <1> HIDE DEF p
  <1>2. ASSUME NEW i \in 1 .. Len(p), NEW j \in 1 .. Len(p), i < j
        PROVE  Follows(p[i], p[j])
    <2>1. i \in 1 .. Len(q) /\ p[i] = q[i]
      BY <1>1, <1>2
    <2>2. CASE j \in 1 .. Len(q)
      BY <1>1, <1>2, <2>1, <2>2 DEF Ordered
    <2>3. CASE j = Len(q) + 1
      <3>1. q[i] \in Range(q)
        BY <1>1, <2>1 DEF Range
      <3> QED
        BY <1>1, <2>1, <2>3, <3>1
    <2> QED
      BY <1>1, <2>2, <2>3
  <1>3. Ordered(p)
    BY <1>2 DEF Ordered
  <1> QED
    BY <1>3 DEF p

\* The first task is taken.
LEMMA OrderedTail ==
    ASSUME NEW q \in Seq(Task), Ordered(q), q # <<>>
    PROVE  /\ Ordered(Tail(q))
           /\ \A u \in Range(Tail(q)) : Follows(Head(q), u)
  <1>1. /\ Len(q) \in Nat \ {0} /\ Head(q) = q[1]
        /\ Len(Tail(q)) = Len(q) - 1 /\ DOMAIN Tail(q) = 1 .. Len(q) - 1
        /\ \A i \in 1 .. Len(q) - 1 : Tail(q)[i] = q[i + 1]
    BY HeadTailProperties, LenProperties, EmptySeq
  <1>2. ASSUME NEW i \in 1 .. Len(Tail(q)), NEW j \in 1 .. Len(Tail(q)), i < j
        PROVE  Follows(Tail(q)[i], Tail(q)[j])
    <2>1. i + 1 \in 1 .. Len(q) /\ j + 1 \in 1 .. Len(q) /\ i + 1 < j + 1
      BY <1>1, <1>2
    <2>2. Follows(q[i + 1], q[j + 1])
      BY <2>1 DEF Ordered
    <2> QED
      BY <1>1, <2>2
  <1>3. ASSUME NEW i \in DOMAIN Tail(q) PROVE Follows(Head(q), Tail(q)[i])
    <2>1. 1 \in 1 .. Len(q) /\ i + 1 \in 1 .. Len(q) /\ 1 < i + 1
      BY <1>1
    <2>2. Follows(q[1], q[i + 1])
      BY <2>1 DEF Ordered
    <2> QED
      BY <1>1, <2>2
  <1> QED
    BY <1>2, <1>3 DEF Ordered, Range

\* Everything executeTasks has still to run, in its order.
Queue == batch \o m_taskQueue

\* What is in the batch and in the queue.
LEMMA TasksOf ==
    ASSUME NEW b \in Seq(Task), NEW q \in Seq(Task)
    PROVE  /\ b \o q \in Seq(Task)
           /\ Range(b \o q) = Range(q) \cup Range(b)
           /\ Range(b \o q) \subseteq Task
  <1>1. b \o q \in Seq(Task)
    BY ConcatProperties
  <1>2. \A i \in DOMAIN (b \o q) : (b \o q)[i] \in Task
    BY <1>1, LenProperties, ElementOfSeq
  <1>3. Range(b \o q) \subseteq Task
    BY <1>2 DEF Range
  <1>4. Range(b \o q) = Range(b) \cup Range(q)
    BY RangeConcat
  <1> QED
    BY <1>1, <1>3, <1>4

\* The tasks are what is in the one queue, before a step
LEMMA QueueIsTasks ==
    ASSUME QueueTypes
    PROVE  /\ Queue \in Seq(Task) /\ Tasks = Range(Queue)
           /\ Tasks \subseteq Task
  BY TasksOf DEF QueueTypes, Queue, Tasks, Range

\* and after it.
LEMMA QueueIsTasksAfter ==
    ASSUME QueueTypes'
    PROVE  /\ Queue' \in Seq(Task) /\ Tasks' = Range(Queue')
           /\ Tasks' \subseteq Task
  <1>1. batch' \in Seq(Task) /\ m_taskQueue' \in Seq(Task)
    BY DEF QueueTypes
  <1> QED
    BY <1>1, TasksOf DEF Queue, Tasks, Range

\* A task is queued.
LEMMA TaskQueued ==
    ASSUME QueueTypes, QueueTypes', Ordered(Queue), NEW t \in Task,
           m_taskQueue' = Append(m_taskQueue, t), UNCHANGED batch,
           \A u \in Tasks : Follows(u, t)
    PROVE  Tasks' = Tasks \cup {t} /\ Ordered(Queue')
  <1>1. Queue' = Append(Queue, t)
    BY ConcatAppend DEF Queue, QueueTypes
  <1>2. Tasks' = Range(Queue') /\ Tasks = Range(Queue) /\ Queue \in Seq(Task)
    BY QueueIsTasks, QueueIsTasksAfter
  <1> QED
    BY <1>1, <1>2, RangeAppend, OrderedAppend

\* The next task is run.
LEMMA TaskRun ==
    ASSUME QueueTypes, QueueTypes', Ordered(Queue), NEW do, Dequeues(do),
           UNCHANGED m_taskQueue
    PROVE  /\ Tasks = Tasks' \cup {Head(batch)} /\ Ordered(Queue')
           /\ \A u \in Tasks' : Follows(Head(batch), u)
  <1>1. /\ Queue' = Tail(Queue) /\ Head(Queue) = Head(batch)
        /\ Queue # <<>>
    BY ConcatTail DEF Queue, QueueTypes, Dequeues
  <1>2. Tasks' = Range(Queue') /\ Tasks = Range(Queue) /\ Queue \in Seq(Task)
    BY QueueIsTasks, QueueIsTasksAfter
  <1> QED
    BY <1>1, <1>2, RangeTail, OrderedTail

\* The next task is run and queues another.
LEMMA TaskRunQueues ==
    ASSUME QueueTypes, QueueTypes', Ordered(Queue), NEW do, Dequeues(do),
           NEW t \in Task, m_taskQueue' = Append(m_taskQueue, t),
           \A u \in Tasks : Follows(u, t)
    PROVE  /\ Tasks \cup {t} = Tasks' \cup {Head(batch)}
           /\ t \in Tasks' /\ Ordered(Queue')
           /\ \A u \in Tasks' : Follows(Head(batch), u)
  <1>1. Tail(batch) \o m_taskQueue = Tail(Queue)
    BY ConcatTail DEF Queue, QueueTypes, Dequeues
  <1>2. /\ Head(Queue) = Head(batch) /\ Queue # <<>>
    BY ConcatTail DEF Queue, QueueTypes, Dequeues
  <1>3. Queue' = Append(Tail(Queue), t)
    <2>1. Tail(batch) \in Seq(Task) /\ m_taskQueue \in Seq(Task)
      BY DequeuesFacts DEF QueueTypes
    <2>2. Tail(batch) \o Append(m_taskQueue, t)
            = Append(Tail(batch) \o m_taskQueue, t)
      BY <2>1, ConcatAppend
    <2> QED
      BY <1>1, <2>2 DEF Queue, Dequeues
  <1>4. Tasks' = Range(Queue') /\ Tasks = Range(Queue) /\ Queue \in Seq(Task)
    BY QueueIsTasks, QueueIsTasksAfter
  <1>5. /\ Tail(Queue) \in Seq(Task) /\ Ordered(Tail(Queue))
        /\ \A u \in Range(Tail(Queue)) : Follows(Head(Queue), u)
        /\ Range(Queue) = Range(Tail(Queue)) \cup {Head(Queue)}
    BY <1>2, <1>4, HeadTailProperties, OrderedTail, RangeTail
  <1>6. Range(Queue') = Range(Tail(Queue)) \cup {t}
    <2>1. \A q \in Seq(Task) : Range(Append(q, t)) = Range(q) \cup {t}
      BY RangeAppend
    <2> QED
      BY <1>3, <1>5, <2>1
  <1>7. Ordered(Queue')
    BY <1>3, <1>4, <1>5, OrderedAppend
  <1>8. Follows(Head(batch), t)
    BY <1>2, <1>4, <1>5
  <1> QED
    BY <1>2, <1>4, <1>5, <1>6, <1>7, <1>8

\* executeTasks takes the queued tasks.
LEMMA TasksTaken ==
    ASSUME QueueTypes, QueueTypes', Ordered(Queue), TakeTasks
    PROVE  Tasks' = Tasks /\ Ordered(Queue')
  <1>1. Queue' = Queue
    BY ConcatEmptySeq DEF Queue, QueueTypes, TakeTasks
  <1> QED
    BY <1>1, QueueIsTasks, QueueIsTasksAfter

\* Neither.
LEMMA TasksKept ==
    ASSUME Ordered(Queue), UNCHANGED <<batch, m_taskQueue>>
    PROVE  Tasks' = Tasks /\ Ordered(Queue')
  BY DEF Queue, Tasks

(***************************************************************************)
(* The way of a request through the scheduler.                             *)
(***************************************************************************)

\* A task for r is queued or taken.
Queued(do, r) == \E t \in Tasks : t.do = do /\ t.r = r

\* Responses of r that were posted or told and not answered.
Response(r) == Client(r, [is |-> "response"])
Responses(r) == owed[r] + Hits(mainQueue, {Response(r)})

\* libcurl has the handle of r.
InCurl(r) == curl[r].state \in {"running", "over"}

\* The curl thread is in didCompleteTransfer().
Finishing(r) == worker.at \in {"complete", "completed"} /\ worker.r = r

\* finalizeTransfer has run for r, or something only it leads to happened.
Over(r) ==
    \/ curl[r].state = "removed"
    \/ req[r].m_actionAfterInvoke = "FinishTransfer"
    \/ Queued("didCancel", r) \/ Queued("didComplete", r)
    \/ Finishing(r)

\* The scheduler has had r.
Begun(r) ==
    \/ r \in m_activeJobs
    \/ Queued("startTransfer", r) \/ Queued("finalize", r)
    \/ Over(r)
    \/ curl[r].state # "none"

\* add() is called once, and what is queued, active, in libcurl or over for a
\* request goes together.
Life(r) ==
    /\ ~req[r].started =>
         /\ ~Begun(r) /\ ~Queued("respondForFile", r) /\ Responses(r) = 0
         /\ req[r].m_actionAfterInvoke = "None"
    /\ Queued("respondForFile", r) =>
         /\ ~Begun(r) /\ Responses(r) = 0
         /\ req[r].m_actionAfterInvoke = "None"
    /\ req[r].m_actionAfterInvoke = "StartTransfer" =>
         Responses(r) = 0 \/ (Responses(r) = 1 /\ ~Begun(r))
    /\ Queued("startTransfer", r) =>
         /\ curl[r].state = "none" /\ ~Over(r)
         /\ r \in m_activeJobs \/ Queued("finalize", r)
    /\ Queued("finalize", r) => r \notin m_activeJobs /\ ~Over(r)
    /\ r \in m_activeJobs => ~Over(r)
    /\ InCurl(r) =>
         /\ ~Over(r) /\ (r \in m_activeJobs \/ Queued("finalize", r))
         /\ m_curlHandle[r] # NoHandle
         /\ m_clientMaps[m_curlHandle[r]] = {r}
    /\ curl[r].state = "none" => m_curlHandle[r] = NoHandle

\* An entry of m_clientMaps is a request in libcurl with that handle.
Mapped ==
    \A h \in Handles : m_clientMaps[h] # {} =>
      \E r \in Requests :
        m_clientMaps[h] = {r} /\ m_curlHandle[r] = h /\ InCurl(r)

LifeInv == Ordered(Queue) /\ Mapped /\ \A r \in Requests : Life(r)

\* The flags, the place and the tasks of s are as before a step, or what left
\* is not missed.
SameFlags(s) ==
    /\ req'[s].started = req[s].started
    /\ req'[s].m_actionAfterInvoke = req[s].m_actionAfterInvoke
SamePlace(s) ==
    /\ curl'[s].state = curl[s].state
    /\ \/ m_curlHandle'[s] = m_curlHandle[s]
       \/ ~InCurl(s) /\ m_curlHandle'[s] = NoHandle
    /\ s \in m_activeJobs' <=> s \in m_activeJobs
    /\ InCurl(s) => m_clientMaps'[m_curlHandle[s]] = m_clientMaps[m_curlHandle[s]]
SameTasks(s) ==
    /\ Queued("startTransfer", s)' <=> Queued("startTransfer", s)
    /\ Queued("finalize", s)' <=> Queued("finalize", s)
    /\ Queued("respondForFile", s)' => Queued("respondForFile", s)
    /\ Queued("didCancel", s)' => Over(s)
    /\ Queued("didComplete", s)' => Over(s)
Calm(s) ==
    /\ SameFlags(s) /\ SamePlace(s) /\ SameTasks(s)
    /\ Finishing(s)' => Over(s)
    /\ Responses(s)' <= Responses(s)

\* Responses told and posted are counted by numbers.
LEMMA CountOfResponses ==
    ASSUME NEW n \in Nat, NEW q \in Seq(MainTask), NEW r
    PROVE  n + Hits(q, {Response(r)}) \in Nat
  BY HitsType

\* So is their sum, before and after a step.
LEMMA ResponsesType ==
    /\ Types => \A r \in Requests : Responses(r) \in Nat
    /\ Types' => \A r \in Requests : Responses(r)' \in Nat
  <1>1. ASSUME Types, NEW r \in Requests PROVE Responses(r) \in Nat
    BY <1>1, CountOfResponses DEF Responses, Types, QueueTypes, ClientTypes
  <1>2. ASSUME Types', NEW r \in Requests PROVE Responses(r)' \in Nat
    <2>1. owed'[r] \in Nat /\ mainQueue' \in Seq(MainTask)
      BY <1>2 DEF Types, QueueTypes, ClientTypes
    <2>2. owed'[r] + Hits(mainQueue', {Response(r)}) \in Nat
      BY <2>1, CountOfResponses
    <2> QED
      BY <2>2 DEF Responses, Response, Client
  <1> QED
    BY <1>1, <1>2

\* Nothing happened to s.
LEMMA CalmLife ==
    ASSUME Types, Types', NEW s \in Requests, Life(s), Calm(s)
    PROVE  Life(s)'
  <1>1. Responses(s) \in Nat /\ Responses(s)' \in Nat
    BY ResponsesType
  <1>2. Over(s)' => Over(s)
    BY DEF Calm, SameFlags, SamePlace, SameTasks, Over
  <1>3. Begun(s)' => Begun(s)
    BY <1>2 DEF Calm, SamePlace, SameTasks, Begun
  <1>4. Responses(s) = 0 => Responses(s)' = 0
    BY <1>1 DEF Calm
  <1>5. Responses(s) = 1 => Responses(s)' \in {0, 1}
    BY <1>1 DEF Calm
  <1>6. InCurl(s)' <=> InCurl(s)
    BY DEF Calm, SamePlace, InCurl
  <1> QED
    BY <1>2, <1>3, <1>4, <1>5, <1>6
       DEF Calm, SameFlags, SamePlace, SameTasks, Life

\* The map holds as long as it and what libcurl has stay.
LEMMA MappedKept ==
    ASSUME Mapped, UNCHANGED m_clientMaps,
           \A s \in Requests :
             InCurl(s) => InCurl(s)' /\ m_curlHandle'[s] = m_curlHandle[s]
    PROVE  Mapped'
  BY DEF Mapped

\* A step in which nothing happened to anyone.
LEMMA CalmInv ==
    ASSUME Types, Types', LifeInv, Ordered(Queue'), UNCHANGED m_clientMaps,
           \A s \in Requests : Calm(s)
    PROVE  LifeInv'
  <1>1. \A s \in Requests : Life(s)'
    BY CalmLife DEF LifeInv
  <1>2. \A s \in Requests :
          InCurl(s) => InCurl(s)' /\ m_curlHandle'[s] = m_curlHandle[s]
    BY DEF Calm, SamePlace, InCurl
  <1> QED
    BY <1>1, <1>2, MappedKept DEF LifeInv

\* What queueing and running tasks do to the tasks of a request.
LEMMA KeptTasks ==
    ASSUME Tasks' = Tasks
    PROVE  /\ \A s \in Requests : SameTasks(s)
           /\ \A do, s : Queued(do, s)' <=> Queued(do, s)
  BY DEF SameTasks, Queued, Over

\* A task is queued,
LEMMA QueuedTask ==
    ASSUME NEW t, Tasks' = Tasks \cup {t}
    PROVE  /\ \A do, s : Queued(do, s)' <=>
                           Queued(do, s) \/ (t.do = do /\ t.r = s)
           /\ \A s \in Requests :
                t.r # s \/ t.do = "pauseChange" => SameTasks(s)
  <1>1. \A do, s : Queued(do, s)' <=> Queued(do, s) \/ (t.do = do /\ t.r = s)
    BY DEF Queued
  <1> QED
    BY <1>1 DEF SameTasks, Over

\* or run: one that starts, finalizes or answers was the only one.
LEMMA RunTaskOf ==
    ASSUME NEW t, Tasks = Tasks' \cup {t}, \A u \in Tasks' : Follows(t, u)
    PROVE  /\ \A do, s : Queued(do, s)' => Queued(do, s)
           /\ \A do, s : Queued(do, s) => Queued(do, s)' \/ (t.do = do /\ t.r = s)
           /\ Queued(t.do, t.r)
           /\ t.do \in {"startTransfer", "finalize", "respondForFile"}
                => ~Queued(t.do, t.r)'
           /\ t.do = "finalize" => ~Queued("startTransfer", t.r)'
           /\ \A s \in Requests :
                t.r # s \/ t.do \notin {"startTransfer", "finalize"} => SameTasks(s)
  <1>1. \A do, s : Queued(do, s)' => Queued(do, s)
    BY DEF Queued
  <1>2. \A do, s : Queued(do, s) => Queued(do, s)' \/ (t.do = do /\ t.r = s)
    BY DEF Queued
  <1>3. Queued(t.do, t.r)
    BY DEF Queued
  <1>4. t.do \in {"startTransfer", "finalize", "respondForFile"}
          => ~Queued(t.do, t.r)'
    BY DEF Queued, Follows
  <1>5. t.do = "finalize" => ~Queued("startTransfer", t.r)'
    BY DEF Queued, Follows
  <1>6. \A s \in Requests :
          t.r # s \/ t.do \notin {"startTransfer", "finalize"} => SameTasks(s)
    BY <1>1, <1>2 DEF SameTasks, Over
  <1> QED
    BY <1>1, <1>2, <1>3, <1>4, <1>5, <1>6

\* What posting functions does to the number of each.
LEMMA PostedCount ==
    ASSUME NEW q \in Seq(MainTask), NEW t \in MainTask, NEW x
    PROVE  Hits(Append(q, t), {x}) = Hits(q, {x}) + IF t = x THEN 1 ELSE 0
  BY HitsAppend

\* Posting a release(), or not.
LEMMA ReleasePosted ==
    ASSUME NEW q \in Seq(MainTask), NEW r \in Requests, NEW w
    PROVE  /\ q \o ReleaseIf(TRUE, r) = Append(q, Release(r))
           /\ q \o ReleaseIf(FALSE, r) = q
           /\ q \o ReleaseIf(w.release, r)
                = IF w.release THEN Append(q, Release(r)) ELSE q
  <1>1. Append(q, Release(r)) = q \o <<Release(r)>>
    BY AppendIsConcat, NewMainTasks
  <1>2. q = q \o <<>>
    BY ConcatEmptySeq
  <1>3. q \o ReleaseIf(TRUE, r) = Append(q, Release(r))
    BY <1>1 DEF ReleaseIf
  <1>4. q \o ReleaseIf(FALSE, r) = q
    BY <1>2 DEF ReleaseIf
  <1>5. CASE w.release
    BY <1>1, <1>3, <1>4, <1>5 DEF ReleaseIf
  <1>6. CASE ~w.release
    BY <1>2, <1>3, <1>4, <1>6 DEF ReleaseIf
  <1> QED
    BY <1>5, <1>6

\* Posting a response counts for its request.
LEMMA ResponsePosted ==
    ASSUME NEW q \in Seq(MainTask), NEW r \in Requests, NEW s \in Requests
    PROVE  /\ Append(q, Response(r)) \in Seq(MainTask)
           /\ Hits(Append(q, Response(r)), {Response(s)})
                = Hits(q, {Response(s)}) + IF s = r THEN 1 ELSE 0
  <1>1. Response(r) \in MainTask
    BY NewMainTasks, NewEvents DEF Response
  <1>2. Response(r) = Response(s) <=> s = r
    BY DEF Response, Client
  <1>3. Hits(Append(q, Response(r)), {Response(s)})
          = Hits(q, {Response(s)}) + IF Response(r) = Response(s) THEN 1 ELSE 0
    BY <1>1, PostedCount
  <1> QED
    BY <1>1, <1>2, <1>3, AppendProperties

\* Posting anything else changes no count.
LEMMA OtherPosted ==
    ASSUME NEW q \in Seq(MainTask), NEW t \in MainTask, NEW x, t # x
    PROVE  Hits(Append(q, t), {x}) = Hits(q, {x})
  <1>1. Hits(Append(q, t), {x}) = Hits(q, {x}) + IF t = x THEN 1 ELSE 0
    BY PostedCount
  <1>2. Hits(q, {x}) \in Nat
    BY HitsType
  <1> QED
    BY <1>1, <1>2

\* The function that is run is posted no longer.
LEMMA TakenCount ==
    ASSUME QueueTypes, NEW do, Takes(do), NEW x
    PROVE  Hits(mainQueue', {x})
             = Hits(mainQueue, {x}) - IF Head(mainQueue) = x THEN 1 ELSE 0
  BY HitsTail DEF QueueTypes, Takes

\* Functions of different kinds or requests are not confused.
LEMMA FunctionsDiffer ==
    ASSUME NEW r, NEW s
    PROVE  /\ Response(r) # Release(s)
           /\ Response(r) = Response(s) => r = s
           /\ Release(r) = Release(s) => r = s
           /\ \A x \in {"complete", "fail", "cancel"} :
                Client(r, [is |-> x]) # Response(s)
           /\ \A n : Client(r, [is |-> "data", n |-> n]) # Response(s)
           /\ \A e : Client(r, e) # Release(s)
           /\ [do |-> "cancel", r |-> r] # Response(s)
           /\ [do |-> "cancel", r |-> r] # Release(s)
           /\ PostResponse(r) = Append(mainQueue, Response(r))
  BY DEF Response, Client, Release, PostResponse

\* What the end of a transfer does to handles, functions and the worker.
LEMMA EndEffect ==
    ASSUME Types, NEW r \in Requests, NEW how,
           \/ DidCancelTransfer(r, TRUE) \/ DidCancelTransfer(r, FALSE)
           \/ DidCompleteTransfer(r, how, TRUE)
           \/ DidCompleteTransfer(r, how, FALSE)
    PROVE  /\ \A s \in Requests \ {r} : m_curlHandle'[s] = m_curlHandle[s]
           /\ m_curlHandle'[r] \in {m_curlHandle[r], NoHandle}
           /\ \A s \in Requests :
                Hits(mainQueue', {Response(s)}) = Hits(mainQueue, {Response(s)})
           /\ \A s \in Requests : Finishing(s)' => s = r \/ Finishing(s)
  <1> DEFINE c == Client(r, [is |-> "cancel"])
  <1>0. /\ m_curlHandle \in [Requests -> Handles \cup {NoHandle}]
        /\ mainQueue \in Seq(MainTask)
    BY DEF Types, JobTypes, QueueTypes
  <1>1. \/ UNCHANGED m_curlHandle
        \/ m_curlHandle' = [m_curlHandle EXCEPT ![r] = NoHandle]
    BY DEF DidCancelTransfer, DidCompleteTransfer
  <1>2. \/ UNCHANGED worker
        \/ \E b : worker' = [at |-> "complete", r |-> r, how |-> how, release |-> b]
    BY DEF DidCancelTransfer, DidCompleteTransfer
  <1>3. \/ UNCHANGED mainQueue
        \/ mainQueue' = Append(mainQueue, c) \o ReleaseIf(TRUE, r)
        \/ mainQueue' = Append(mainQueue, c) \o ReleaseIf(FALSE, r)
    BY DEF DidCancelTransfer, DidCompleteTransfer
  <1>4. c \in MainTask /\ Append(mainQueue, c) \in Seq(MainTask)
    BY <1>0, NewMainTasks, NewEvents, AppendProperties
  <1>5. \A s \in Requests : c # Response(s) /\ Release(r) # Response(s)
    BY FunctionsDiffer
  <1> HIDE DEF c
  <1>6. \/ UNCHANGED mainQueue
        \/ mainQueue' = Append(Append(mainQueue, c), Release(r))
        \/ mainQueue' = Append(mainQueue, c)
    BY <1>3, <1>4, ReleasePosted
  <1>7. \A s \in Requests :
          /\ Hits(Append(mainQueue, c), {Response(s)})
               = Hits(mainQueue, {Response(s)})
          /\ Hits(Append(Append(mainQueue, c), Release(r)), {Response(s)})
               = Hits(Append(mainQueue, c), {Response(s)})
    BY <1>0, <1>4, <1>5, NewMainTasks, OtherPosted
  <1>8. \A s \in Requests :
          Hits(mainQueue', {Response(s)}) = Hits(mainQueue, {Response(s)})
    BY <1>6, <1>7
  <1>9. \A s \in Requests : Finishing(s)' => s = r \/ Finishing(s)
    BY <1>2 DEF Finishing
  <1> QED
    BY <1>0, <1>1, <1>8, <1>9

\* The steps that nobody's way depends on.
LEMMA CalmSteps ==
    ASSUME Types, Types', LifeInv,
           \/ RunRelease \/ RunClient \/ RunCancel \/ TakeTasks \/ PauseChange
           \/ RunDidCancel \/ RunDidComplete \/ FinishNow \/ SetCompleted
           \/ PauseInCallback \/ TestShouldSuspend
           \/ \E r \in Requests :
                \/ \E paused \in BOOLEAN : SetRequestPaused(r, paused)
                \/ Cancel(r)
                \/ \E last, multipart \in BOOLEAN :
                     DidReceiveHeader(r, last, multipart)
    PROVE  LifeInv'
  <1>0. /\ QueueTypes /\ QueueTypes' /\ Ordered(Queue)
        /\ \A s \in Requests : curl[s] \in Transfer /\ owed[s] \in Nat
        /\ owed \in [Requests -> Nat] /\ mainQueue \in Seq(MainTask)
        /\ TransferTypes
    BY DEF Types, LifeInv, TransferTypes, ClientTypes, QueueTypes
  <1>1. SameLife
    BY QuietFlags DEF Quiet
  <1>2. \A s \in Requests : SameFlags(s)
    BY <1>1 DEF SameLife, Keeps, SameFlags
  <1> USE DEF schedVars, clientVars
  <1>3. ASSUME UNCHANGED <<m_curlHandle, m_activeJobs, m_clientMaps>>,
               \A s \in Requests : curl'[s].state = curl[s].state
        PROVE  \A s \in Requests : SamePlace(s)
    BY <1>3 DEF SamePlace
  <1>4. ASSUME UNCHANGED worker
        PROVE  \A s \in Requests : Finishing(s)' => Over(s)
    BY <1>4 DEF Finishing, Over
  <1>5. ASSUME worker' = [at |-> "idle"]
        PROVE  \A s \in Requests : Finishing(s)' => Over(s)
    BY <1>5 DEF Finishing
  <1>6. ASSUME UNCHANGED owed,
               \A s \in Requests :
                 Hits(mainQueue', {Response(s)}) = Hits(mainQueue, {Response(s)})
        PROVE  \A s \in Requests : Responses(s)' <= Responses(s)
    <2>1. \A s \in Requests : Responses(s)' = Responses(s)
      BY <1>6 DEF Responses, Response, Client
    <2> QED
      BY <2>1, ResponsesType
  <1>7. ASSUME UNCHANGED <<batch, m_taskQueue>>
        PROVE  Ordered(Queue') /\ \A s \in Requests : SameTasks(s)
    BY <1>0, <1>7, TasksKept, KeptTasks
  <1>8. CASE RunRelease
    <2>1. \A s \in Requests :
            Hits(mainQueue', {Response(s)}) = Hits(mainQueue, {Response(s)})
      <3> SUFFICES ASSUME NEW s \in Requests
                   PROVE Hits(mainQueue', {Response(s)}) = Hits(mainQueue, {Response(s)})
        OBVIOUS
      <3>1. Head(mainQueue) # Response(s)
        BY <1>8 DEF RunRelease, Takes, Response, Client
      <3>2. Hits(mainQueue, {Response(s)}) \in Nat
        BY <1>0, HitsType
      <3>3. Hits(mainQueue', {Response(s)}) = Hits(mainQueue, {Response(s)})
              - IF Head(mainQueue) = Response(s) THEN 1 ELSE 0
        BY <1>0, <1>8, TakenCount DEF RunRelease
      <3> QED
        BY <3>1, <3>2, <3>3
    <2>2. \A s \in Requests : Responses(s)' <= Responses(s)
      BY <1>6, <1>8, <2>1 DEF RunRelease
    <2> QED
      BY <1>2, <1>3, <1>4, <1>7, <1>8, <2>2, CalmInv DEF RunRelease, Calm
  <1>9. CASE RunClient
    <2> DEFINE r == Head(mainQueue).r
               e == Head(mainQueue).what
    <2>1. ASSUME NEW s \in Requests PROVE Responses(s)' <= Responses(s)
      <3>1. Hits(mainQueue, {Response(s)}) \in Nat /\ owed[s] \in Nat
        BY <1>0, HitsType
      <3>2. Hits(mainQueue', {Response(s)}) = Hits(mainQueue, {Response(s)})
              - IF Head(mainQueue) = Response(s) THEN 1 ELSE 0
        BY <1>0, <1>9, TakenCount DEF RunClient
      <3>3. owed'[s] = owed[s] \/ (s = r /\ e.is = "response" /\ owed'[s] = owed[s] + 1)
        BY <1>0, <1>9 DEF RunClient
      <3>4. s = r /\ e.is = "response" => Head(mainQueue) = Response(s)
        <4>1. Head(mainQueue) \in MainTask /\ Head(mainQueue).do = "client"
          BY <1>0, <1>9, TakesFacts DEF RunClient
        <4>2. e \in Event
          BY <1>0, <1>9, TakesFacts DEF RunClient
        <4>3. e.is = "response" => e = [is |-> "response"]
          BY <4>2 DEF Event
        <4>4. Head(mainQueue) = Client(r, e)
          BY <4>1 DEF MainTask, Client
        <4> QED
          BY <4>3, <4>4 DEF Response
      <3>5. owed'[s] + Hits(mainQueue', {Response(s)})
              <= owed[s] + Hits(mainQueue, {Response(s)})
        BY <3>1, <3>2, <3>3, <3>4
      <3> QED
        BY <3>5 DEF Responses, Response, Client
    <2> QED
      BY <1>2, <1>3, <1>4, <1>7, <1>9, <2>1, CalmInv DEF RunClient, Calm
  <1>10. CASE RunCancel
    <2>1. \A s \in Requests :
            Hits(mainQueue', {Response(s)}) = Hits(mainQueue, {Response(s)})
      <3> SUFFICES ASSUME NEW s \in Requests
                   PROVE Hits(mainQueue', {Response(s)}) = Hits(mainQueue, {Response(s)})
        OBVIOUS
      <3>1. Head(mainQueue) # Response(s)
        BY <1>10 DEF RunCancel, Takes, Response, Client
      <3>2. Hits(mainQueue, {Response(s)}) \in Nat
        BY <1>0, HitsType
      <3>3. Hits(mainQueue', {Response(s)}) = Hits(mainQueue, {Response(s)})
              - IF Head(mainQueue) = Response(s) THEN 1 ELSE 0
        BY <1>0, <1>10, TakenCount DEF RunCancel
      <3> QED
        BY <3>1, <3>2, <3>3
    <2>2. \A s \in Requests : Responses(s)' <= Responses(s)
      BY <1>6, <1>10, <2>1 DEF RunCancel
    <2> QED
      BY <1>2, <1>3, <1>4, <1>7, <1>10, <2>2, CalmInv DEF RunCancel, Calm
  <1>11. CASE TakeTasks
    <2>1. Ordered(Queue') /\ \A s \in Requests : SameTasks(s)
      BY <1>0, <1>11, TasksTaken, KeptTasks
    <2>2. \A s \in Requests : Responses(s)' <= Responses(s)
      BY <1>6, <1>11 DEF TakeTasks
    <2> QED
      BY <1>2, <1>3, <1>4, <1>11, <2>1, <2>2, CalmInv DEF TakeTasks, Calm
  <1>12. CASE PauseChange
    <2> DEFINE r == Head(batch).r
    <2>1. Ordered(Queue') /\ \A s \in Requests : SameTasks(s)
      <3>1. /\ Tasks = Tasks' \cup {Head(batch)} /\ Ordered(Queue')
            /\ \A u \in Tasks' : Follows(Head(batch), u)
        BY <1>0, <1>12, TaskRun DEF PauseChange, Runs
      <3>2. Head(batch).do = "pauseChange"
        BY <1>0, <1>12, RunsFacts DEF PauseChange
      <3> QED
        BY <3>1, <3>2, RunTaskOf
    <2>2. r \in Requests
      BY <1>0, <1>12, RunsFacts DEF PauseChange
    <2>3. /\ \/ UNCHANGED curl
             \/ \E b : curl' = [curl EXCEPT ![r].paused = b]
          /\ \/ UNCHANGED mainQueue
             \/ mainQueue' = Append(mainQueue, [do |-> "cancel", r |-> r])
      BY <1>12 DEF PauseChange
    <2> HIDE DEF r
    <2>4. \A s \in Requests : curl'[s].state = curl[s].state
      BY <1>0, <2>2, <2>3 DEF TransferTypes, Transfer
    <2>5. \A s \in Requests :
            Hits(mainQueue', {Response(s)}) = Hits(mainQueue, {Response(s)})
      <3>1. [do |-> "cancel", r |-> r] \in MainTask
        BY <2>2, NewMainTasks
      <3>2. \A s \in Requests : /\ [do |-> "cancel", r |-> r] # Response(s)
                                /\ Hits(mainQueue, {Response(s)}) \in Nat
        BY <1>0, FunctionsDiffer, HitsType
      <3>3. \A s \in Requests :
              Hits(Append(mainQueue, [do |-> "cancel", r |-> r]), {Response(s)})
                = Hits(mainQueue, {Response(s)})
        BY <1>0, <3>1, <3>2, OtherPosted
      <3> QED
        BY <2>3, <3>3
    <2>6. \A s \in Requests : Responses(s)' <= Responses(s)
      BY <1>6, <1>12, <2>5 DEF PauseChange
    <2> QED
      BY <1>2, <1>3, <1>4, <1>12, <2>1, <2>4, <2>6, CalmInv
         DEF PauseChange, Calm
  <1>13. CASE SetCompleted
    <2>1. worker.r \in Requests /\ worker.release \in BOOLEAN
      BY <1>0, <1>13, WorkerFacts DEF SetCompleted
    <2>2. \A s \in Requests :
            Hits(mainQueue', {Response(s)}) = Hits(mainQueue, {Response(s)})
      <3>1. \A s \in Requests : /\ Response(s) # Release(worker.r)
                                /\ Hits(mainQueue, {Response(s)}) \in Nat
        BY <1>0, FunctionsDiffer, HitsType
      <3>2. mainQueue' \in {mainQueue, Append(mainQueue, Release(worker.r))}
        BY <1>0, <1>13, <2>1, ReleasePosted DEF SetCompleted
      <3>3. \A s \in Requests :
              Hits(Append(mainQueue, Release(worker.r)), {Response(s)})
                = Hits(mainQueue, {Response(s)})
        BY <1>0, <2>1, <3>1, NewMainTasks, OtherPosted
      <3> QED
        BY <3>2, <3>3
    <2>3. \A s \in Requests : Responses(s)' <= Responses(s)
      BY <1>6, <1>13, <2>2 DEF SetCompleted
    <2> QED
      BY <1>2, <1>3, <1>5, <1>7, <1>13, <2>3, CalmInv DEF SetCompleted, Calm
  <1>14. CASE PauseInCallback
    <2>1. worker.r \in Requests
      BY <1>0, <1>14, WorkerFacts DEF PauseInCallback
    <2>2. \A s \in Requests : curl'[s].state = curl[s].state
      BY <1>0, <1>14, <2>1 DEF PauseInCallback, TransferTypes, Transfer
    <2>3. \A s \in Requests : Responses(s)' <= Responses(s)
      BY <1>6, <1>14 DEF PauseInCallback
    <2> QED
      BY <1>2, <1>3, <1>5, <1>7, <1>14, <2>2, <2>3, CalmInv
         DEF PauseInCallback, Calm
  <1>15. ASSUME NEW r \in Requests, NEW paused \in BOOLEAN,
                SetRequestPaused(r, paused)
         PROVE  LifeInv'
    <2> DEFINE t == [do |-> "pauseChange", r |-> r]
    <2>1. \/ UNCHANGED schedVars
          \/ CallOnWorkerThread(t)
      BY <1>15 DEF SetRequestPaused, PausedStatusChanged
    <2>2. Ordered(Queue') /\ \A s \in Requests : SameTasks(s)
      <3>1. CASE CallOnWorkerThread(t)
        <4>1. t \in Task /\ \A u : Follows(u, t)
          BY NewTasks DEF Follows
        <4>2. Tasks' = Tasks \cup {t} /\ Ordered(Queue')
          BY <1>0, <3>1, <4>1, TaskQueued DEF CallOnWorkerThread
        <4>3. t.do = "pauseChange"
          OBVIOUS
        <4> HIDE DEF t
        <4> QED
          BY <4>2, <4>3, QueuedTask
      <3> QED
        BY <1>7, <2>1, <3>1
    <2>3. UNCHANGED <<m_activeJobs, m_clientMaps>>
      BY <2>1 DEF CallOnWorkerThread
    <2>4. \A s \in Requests : Responses(s)' <= Responses(s)
      BY <1>6, <1>15 DEF SetRequestPaused
    <2> QED
      BY <1>2, <1>3, <1>4, <1>15, <2>2, <2>3, <2>4, CalmInv
         DEF SetRequestPaused, Calm
  <1>16. ASSUME NEW r \in Requests, Cancel(r) PROVE LifeInv'
    <2>1. \A s \in Requests : Responses(s)' <= Responses(s)
      BY <1>6, <1>16 DEF Cancel
    <2> QED
      BY <1>2, <1>3, <1>4, <1>7, <1>16, <2>1, CalmInv DEF Cancel, Calm
  <1>17. ASSUME NEW r \in Requests, NEW last \in BOOLEAN,
                NEW multipart \in BOOLEAN, DidReceiveHeader(r, last, multipart)
         PROVE  LifeInv'
    <2>1. \/ \E t \in Transfer :
               t.state = curl[r].state /\ curl' = [curl EXCEPT ![r] = t]
      <3>1. curl' \in [Requests -> Transfer]
        BY DEF Types, TransferTypes
      <3>2. \/ curl' = [curl EXCEPT ![r].aborted = TRUE]
            \/ \E x : curl' = [curl EXCEPT ![r].blocks = @ + 1, ![r].headers = x]
        BY <1>17 DEF DidReceiveHeader, Abort
      <3>3. curl'[r].state = curl[r].state /\ curl' = [curl EXCEPT ![r] = curl'[r]]
        BY <1>0, <3>1, <3>2 DEF TransferTypes, Transfer
      <3> QED
        BY <3>1, <3>3
    <2>2. \A s \in Requests : curl'[s].state = curl[s].state
      BY <1>0, <2>1 DEF TransferTypes
    <2>3. \A s \in Requests : Responses(s)' <= Responses(s)
      BY <1>6, <1>17 DEF DidReceiveHeader, Abort
    <2>4. UNCHANGED worker
      BY <1>17 DEF DidReceiveHeader, Abort
    <2> QED
      BY <1>2, <1>3, <1>4, <1>7, <1>17, <2>2, <2>3, <2>4, CalmInv
         DEF DidReceiveHeader, Calm
  <1>18. CASE RunDidCancel
    <2> DEFINE r == Head(batch).r
    <2>1. /\ Tasks = Tasks' \cup {Head(batch)} /\ Ordered(Queue')
          /\ \A u \in Tasks' : Follows(Head(batch), u)
      BY <1>0, <1>18, TaskRun DEF RunDidCancel, Runs
    <2>2. r \in Requests /\ Head(batch).do = "didCancel"
      BY <1>0, <1>18, RunsFacts DEF RunDidCancel
    <2>3. Queued("didCancel", r) /\ \A s \in Requests : SameTasks(s)
      BY <2>1, <2>2, RunTaskOf
    <2>4. Over(r) /\ ~InCurl(r)
      BY <2>2, <2>3 DEF Over, LifeInv, Life
    <2>5. /\ \A s \in Requests \ {r} : m_curlHandle'[s] = m_curlHandle[s]
          /\ m_curlHandle'[r] \in {m_curlHandle[r], NoHandle}
          /\ \A s \in Requests :
               Hits(mainQueue', {Response(s)}) = Hits(mainQueue, {Response(s)})
          /\ \A s \in Requests : Finishing(s)' => s = r \/ Finishing(s)
      BY <1>18, <2>2, EndEffect DEF RunDidCancel
    <2> HIDE DEF r
    <2>6. \A s \in Requests : SamePlace(s)
      BY <1>18, <2>4, <2>5 DEF RunDidCancel, SamePlace
    <2>7. \A s \in Requests : Finishing(s)' => Over(s)
      BY <2>4, <2>5 DEF Over
    <2>8. \A s \in Requests : Responses(s)' <= Responses(s)
      BY <1>6, <1>18, <2>5 DEF RunDidCancel
    <2> QED
      BY <1>2, <1>18, <2>1, <2>3, <2>6, <2>7, <2>8, CalmInv DEF RunDidCancel, Calm
  <1>19. CASE RunDidComplete
    <2> DEFINE r == Head(batch).r
    <2>1. /\ Tasks = Tasks' \cup {Head(batch)} /\ Ordered(Queue')
          /\ \A u \in Tasks' : Follows(Head(batch), u)
      BY <1>0, <1>19, TaskRun DEF RunDidComplete, Runs
    <2>2. r \in Requests /\ Head(batch).do = "didComplete"
      BY <1>0, <1>19, RunsFacts DEF RunDidComplete
    <2>3. Queued("didComplete", r) /\ \A s \in Requests : SameTasks(s)
      BY <2>1, <2>2, RunTaskOf
    <2>4. Over(r) /\ ~InCurl(r)
      BY <2>2, <2>3 DEF Over, LifeInv, Life
    <2>5. /\ \A s \in Requests \ {r} : m_curlHandle'[s] = m_curlHandle[s]
          /\ m_curlHandle'[r] \in {m_curlHandle[r], NoHandle}
          /\ \A s \in Requests :
               Hits(mainQueue', {Response(s)}) = Hits(mainQueue, {Response(s)})
          /\ \A s \in Requests : Finishing(s)' => s = r \/ Finishing(s)
      BY <1>19, <2>2, EndEffect DEF RunDidComplete
    <2> HIDE DEF r
    <2>6. \A s \in Requests : SamePlace(s)
      BY <1>19, <2>4, <2>5 DEF RunDidComplete, SamePlace
    <2>7. \A s \in Requests : Finishing(s)' => Over(s)
      BY <2>4, <2>5 DEF Over
    <2>8. \A s \in Requests : Responses(s)' <= Responses(s)
      BY <1>6, <1>19, <2>5 DEF RunDidComplete
    <2> QED
      BY <1>2, <1>19, <2>1, <2>3, <2>6, <2>7, <2>8, CalmInv DEF RunDidComplete, Calm
  <1>20. CASE FinishNow
    <2> DEFINE r == worker.r
               e == [is |-> IF worker.how = "ok" THEN "complete" ELSE "fail"]
    <2>1. r \in Requests
      BY <1>0, <1>20, WorkerFacts DEF FinishNow
    <2>2. Finishing(r) /\ \A s \in Requests : Finishing(s)' => s = r
      BY <1>20 DEF Finishing, FinishNow
    <2>3. Over(r) /\ ~InCurl(r)
      BY <2>1, <2>2 DEF Over, LifeInv, Life
    <2>4. /\ m_curlHandle' = [m_curlHandle EXCEPT ![r] = NoHandle]
          /\ mainQueue' = Append(mainQueue, Client(r, e))
      BY <1>20 DEF FinishNow
    <2>5. /\ Client(r, e) \in MainTask
          /\ \A s \in Requests : Client(r, e) # Response(s)
      BY <2>1, NewMainTasks, NewEvents, FunctionsDiffer
    <2> HIDE DEF r, e
    <2>6. \A s \in Requests :
            Hits(mainQueue', {Response(s)}) = Hits(mainQueue, {Response(s)})
      BY <1>0, <2>4, <2>5, OtherPosted
    <2>7. \A s \in Requests : SamePlace(s)
      BY <1>20, <2>1, <2>3, <2>4 DEF FinishNow, SamePlace, Types, JobTypes
    <2>8. \A s \in Requests : Responses(s)' <= Responses(s)
      BY <1>6, <1>20, <2>6 DEF FinishNow
    <2> QED
      BY <1>2, <1>7, <1>20, <2>2, <2>3, <2>7, <2>8, CalmInv DEF FinishNow, Calm
  <1>21. CASE TestShouldSuspend
    <2>1. \A s \in Requests : Responses(s)' <= Responses(s)
      BY <1>6, <1>21 DEF TestShouldSuspend
    <2>2. \A s \in Requests : Finishing(s)' => Over(s)
      BY <1>21 DEF TestShouldSuspend, Finishing
    <2> QED
      BY <1>2, <1>3, <1>7, <1>21, <2>1, <2>2, CalmInv DEF TestShouldSuspend, Calm
  <1> QED
    BY <1>8, <1>9, <1>10, <1>11, <1>12, <1>13, <1>14, <1>15, <1>16, <1>17,
       <1>18, <1>19, <1>20, <1>21

\* What a step does to the request it is about, when the others are calm.
LEMMA OneMoves ==
    ASSUME Types, Types', LifeInv, Ordered(Queue'), Mapped', NEW r \in Requests,
           \A s \in Requests \ {r} : Calm(s), Life(r)'
    PROVE  LifeInv'
  <1>1. \A s \in Requests : Life(s)'
    BY CalmLife DEF LifeInv
  <1> QED
    BY <1>1 DEF LifeInv

\* A response of r is posted, with or without functions of another kind.
LEMMA ResponseCount ==
    ASSUME Types, NEW r \in Requests, UNCHANGED owed,
           \A s \in Requests :
             Hits(mainQueue', {Response(s)})
               = Hits(Append(mainQueue, Response(r)), {Response(s)})
    PROVE  \A s \in Requests :
             Responses(s)' = Responses(s) + IF s = r THEN 1 ELSE 0
  <1>0. mainQueue \in Seq(MainTask) /\ \A s \in Requests : owed[s] \in Nat
    BY DEF Types, QueueTypes, ClientTypes
  <1> SUFFICES ASSUME NEW s \in Requests
               PROVE  Responses(s)' = Responses(s) + IF s = r THEN 1 ELSE 0
    OBVIOUS
  <1>1. Hits(mainQueue', {Response(s)})
          = Hits(mainQueue, {Response(s)}) + IF s = r THEN 1 ELSE 0
    BY <1>0, ResponsePosted
  <1>2. Hits(mainQueue, {Response(s)}) \in Nat /\ owed[s] \in Nat
    BY <1>0, HitsType
  <1>3. owed'[s] + Hits(mainQueue', {Response(s)})
          = owed[s] + Hits(mainQueue, {Response(s)}) + IF s = r THEN 1 ELSE 0
    BY <1>1, <1>2
  <1> QED
    BY <1>3 DEF Responses, Response, Client

\* As many responses as before.
LEMMA SameResponses ==
    ASSUME Types, UNCHANGED owed,
           \A s \in Requests :
             Hits(mainQueue', {Response(s)}) = Hits(mainQueue, {Response(s)})
    PROVE  \A s \in Requests : /\ Responses(s)' = Responses(s)
                               /\ Responses(s)' <= Responses(s)
  <1>1. \A s \in Requests : Responses(s)' = Responses(s)
    BY DEF Responses, Response, Client
  <1> QED
    BY <1>1, ResponsesType

\* A request that is not over does not get over by itself.
LEMMA StaysBefore ==
    ASSUME NEW r \in Requests, SamePlace(r), SameTasks(r),
           Finishing(r)' => Over(r),
           req'[r].m_actionAfterInvoke # "FinishTransfer"
    PROVE  /\ ~Over(r) => ~Over(r)'
           /\ ~Begun(r) => ~Begun(r)'
  <1>1. ~Over(r) => ~Over(r)'
    BY DEF Over, SamePlace, SameTasks
  <1>2. ~Begun(r) => ~Over(r)
    BY DEF Begun
  <1> QED
    BY <1>1, <1>2 DEF Begun, SamePlace, SameTasks

\* respondForFile posts the only response before the transfer.
LEMMA RespondLife ==
    ASSUME Types, Types', LifeInv, RespondForFile PROVE LifeInv'
  <1>0. /\ QueueTypes /\ QueueTypes' /\ Ordered(Queue) /\ Mapped
        /\ mainQueue \in Seq(MainTask)
    BY DEF Types, QueueTypes, LifeInv
  <1> PICK r \in Requests : r = Head(batch).r
    BY <1>0, RunsFacts DEF RespondForFile
  <1>1. /\ Tasks = Tasks' \cup {Head(batch)} /\ Ordered(Queue')
        /\ \A u \in Tasks' : Follows(Head(batch), u)
    BY <1>0, TaskRun DEF RespondForFile, Runs
  <1>2. r \in Requests /\ Head(batch).do = "respondForFile"
    BY <1>0, RunsFacts DEF RespondForFile
  <1>3. /\ Queued("respondForFile", r) /\ ~Queued("respondForFile", r)'
        /\ \A s \in Requests : SameTasks(s)
    BY <1>1, <1>2, RunTaskOf
  <1>4. Notifies(r, "StartTransfer")
    BY RespondFlags
  <1>5. /\ UNCHANGED <<m_curlHandle, m_activeJobs, m_clientMaps, curl, worker, owed>>
        /\ mainQueue' = Append(mainQueue, Response(r))
    BY FunctionsDiffer DEF RespondForFile, clientVars
  <1>6. \A s \in Requests : Responses(s)' = Responses(s) + IF s = r THEN 1 ELSE 0
    BY <1>2, <1>5, ResponseCount
  <1>7. \A s \in Requests : SamePlace(s) /\ (Finishing(s)' => Over(s))
    BY <1>5 DEF SamePlace, Finishing, Over
  <1>8. ASSUME NEW s \in Requests \ {r} PROVE Calm(s)
    <2>1. SameFlags(s)
      BY <1>4 DEF Notifies, SameFlags
    <2>2. Responses(s)' <= Responses(s)
      BY <1>6, ResponsesType
    <2> QED
      BY <1>3, <1>7, <2>1, <2>2 DEF Calm
  <1>9. Mapped'
    BY <1>0, <1>5, MappedKept DEF InCurl
  <1>10. Life(r)
    BY <1>2 DEF LifeInv
  <1>11. ~Begun(r) /\ Responses(r) = 0 /\ req[r].started
    BY <1>3, <1>10 DEF Life
  <1>12. /\ req'[r].started /\ req'[r].m_actionAfterInvoke = "StartTransfer"
         /\ Responses(r)' = 1
    BY <1>2, <1>4, <1>6, <1>11 DEF Notifies
  <1>13. ~Begun(r)'
    BY <1>2, <1>3, <1>7, <1>11, <1>12, StaysBefore
  <1>14. curl'[r].state = "none" /\ m_curlHandle'[r] = NoHandle
    BY <1>5, <1>10, <1>11 DEF Life, Begun
  <1>15. Life(r)'
    BY <1>3, <1>12, <1>13, <1>14 DEF Life, Begun, InCurl
  <1> QED
    BY <1>1, <1>2, <1>8, <1>9, <1>15, OneMoves

\* A transfer that is over waits for the answer to its response.
LEMMA FinishLaterLife ==
    ASSUME Types, Types', LifeInv, FinishLater PROVE LifeInv'
  <1>0. /\ QueueTypes /\ Ordered(Queue) /\ Mapped
        /\ mainQueue \in Seq(MainTask)
    BY DEF Types, QueueTypes, LifeInv
  <1> PICK r \in Requests : r = worker.r
    BY <1>0, WorkerFacts DEF FinishLater
  <1>1. r \in Requests /\ Finishing(r) /\ worker' = [at |-> "idle"]
    BY DEF FinishLater, Finishing
  <1>2. Notifies(r, "FinishTransfer")
    BY FinishLaterFlags
  <1>3. /\ UNCHANGED <<m_curlHandle, m_activeJobs, m_clientMaps, curl, owed,
                       batch, m_taskQueue>>
        /\ mainQueue' = Append(mainQueue, Response(r)) \o ReleaseIf(worker.release, r)
    BY FunctionsDiffer DEF FinishLater, clientVars, schedVars
  <1>4. mainQueue' \in {Append(mainQueue, Response(r)),
                        Append(Append(mainQueue, Response(r)), Release(r))}
    <2>1. Append(mainQueue, Response(r)) \in Seq(MainTask)
      BY <1>0, <1>1, ResponsePosted
    <2> QED
      BY <1>1, <1>3, <2>1, ReleasePosted
  <1>5. Tasks' = Tasks /\ Ordered(Queue') /\ \A s \in Requests : SameTasks(s)
    BY <1>0, <1>3, TasksKept, KeptTasks
  <1>6. \A s \in Requests : Responses(s)' = Responses(s) + IF s = r THEN 1 ELSE 0
    <2>1. Append(mainQueue, Response(r)) \in Seq(MainTask) /\ Release(r) \in MainTask
      BY <1>0, <1>1, ResponsePosted, NewMainTasks
    <2>2. \A s \in Requests : Release(r) # Response(s)
      BY FunctionsDiffer
    <2>3. \A s \in Requests :
            Hits(Append(Append(mainQueue, Response(r)), Release(r)), {Response(s)})
              = Hits(Append(mainQueue, Response(r)), {Response(s)})
      BY <2>1, <2>2, OtherPosted
    <2>4. \A s \in Requests :
            Hits(mainQueue', {Response(s)})
              = Hits(Append(mainQueue, Response(r)), {Response(s)})
      BY <1>4, <2>3
    <2> QED
      BY <1>1, <1>3, <2>4, ResponseCount
  <1>7. \A s \in Requests : SamePlace(s) /\ ~Finishing(s)'
    BY <1>1, <1>3 DEF SamePlace, Finishing
  <1>8. ASSUME NEW s \in Requests \ {r} PROVE Calm(s)
    <2>1. SameFlags(s)
      BY <1>2 DEF Notifies, SameFlags
    <2>2. Responses(s)' <= Responses(s)
      BY <1>6, ResponsesType
    <2> QED
      BY <1>5, <1>7, <2>1, <2>2 DEF Calm
  <1>9. Mapped'
    BY <1>0, <1>3, MappedKept DEF InCurl
  <1>10. Life(r) /\ Over(r) /\ Begun(r)
    BY <1>1 DEF LifeInv, Over, Begun
  <1>11. /\ ~Queued("startTransfer", r)' /\ ~Queued("finalize", r)'
         /\ ~Queued("respondForFile", r)'
    BY <1>1, <1>5, <1>10 DEF Life, SameTasks
  <1>12. /\ r \notin m_activeJobs' /\ ~InCurl(r)'
         /\ curl'[r].state = "none" => m_curlHandle'[r] = NoHandle
    BY <1>1, <1>3, <1>10 DEF Life, InCurl
  <1>13. /\ req'[r].started /\ req'[r].m_actionAfterInvoke = "FinishTransfer"
    BY <1>1, <1>2, <1>10 DEF Notifies, Life
  <1>14. Life(r)'
    BY <1>11, <1>12, <1>13 DEF Life
  <1> QED
    BY <1>1, <1>5, <1>8, <1>9, <1>14, OneMoves

\* What didReceiveData posts and notes.
LEMMA DataEffect ==
    ASSUME Types, NEW r \in Requests, NEW part \in BOOLEAN, DidReceiveData(r, part)
    PROVE  /\ \/ /\ UNCHANGED req
                 /\ \A s \in Requests :
                      Hits(mainQueue', {Response(s)}) = Hits(mainQueue, {Response(s)})
              \/ /\ Notifies(r, "ReceiveData") \/ Notifies(r, "None")
                 /\ \A s \in Requests :
                      Hits(mainQueue', {Response(s)})
                        = Hits(Append(mainQueue, Response(r)), {Response(s)})
           /\ worker' = worker \/ worker'.at = "pausing"
           /\ \A s \in Requests : curl'[s].state = curl[s].state
           /\ curl[r].state = "running"
           /\ UNCHANGED <<m_curlHandle, schedVars, owed>>
  <1> DEFINE c == Client(r, [is |-> "data", n |-> curl[r].sent + 1])
             q == [Notified(req[r], "ReceiveData") EXCEPT !.m_isPausedOfCallback = TRUE]
  <1>0. /\ mainQueue \in Seq(MainTask) /\ RequestTypes /\ TransferTypes
        /\ req[r] \in Request /\ curl[r] \in Transfer
        /\ {"ReceiveData", "None"} \subseteq Action
    BY DEF Types, QueueTypes, RequestTypes, TransferTypes, Action
  <1>1. c \in MainTask /\ \A s \in Requests : c # Response(s)
    <2>1. curl[r].sent + 1 \in 1 .. MaxChunks
      BY <1>0, BoundsAssumption DEF DidReceiveData, Transfer
    <2> QED
      BY <2>1, NewEvents, NewMainTasks, FunctionsDiffer
  <1>2. /\ q \in Request /\ q.started = req[r].started
        /\ q.m_actionAfterInvoke = "ReceiveData"
    BY <1>0, NotifiedFacts DEF Request
  <1>3. /\ \/ UNCHANGED <<req, mainQueue>>
           \/ req' = [req EXCEPT ![r] = q] /\ mainQueue' = PostResponse(r)
           \/ /\ req' = [req EXCEPT ![r] = req[r]]
              /\ mainQueue' = Append(mainQueue, c)
           \/ /\ req' = [req EXCEPT ![r] = Notified(req[r], "None")]
              /\ mainQueue' = Append(PostResponse(r), c)
        /\ worker' = worker \/ worker' = [at |-> "pausing", r |-> r]
        /\ \/ UNCHANGED curl
           \/ curl' = [curl EXCEPT ![r].aborted = TRUE]
           \/ curl' = [curl EXCEPT ![r].sent = @ + 1]
        /\ curl[r].state = "running"
        /\ UNCHANGED <<m_curlHandle, schedVars, owed>>
    BY DEF DidReceiveData, Abort, Receives, Performs, clientVars
  <1> HIDE DEF c, q
  <1>4. \A s \in Requests : curl'[s].state = curl[s].state
    BY <1>0, <1>3 DEF TransferTypes, Transfer
  <1>5. /\ PostResponse(r) = Append(mainQueue, Response(r))
        /\ Append(mainQueue, Response(r)) \in Seq(MainTask)
    BY <1>0, ResponsePosted, FunctionsDiffer
  <1>6. \A s \in Requests :
          /\ Hits(Append(mainQueue, c), {Response(s)}) = Hits(mainQueue, {Response(s)})
          /\ Hits(Append(PostResponse(r), c), {Response(s)})
               = Hits(Append(mainQueue, Response(r)), {Response(s)})
    <2>1. \A p \in Seq(MainTask) : \A s \in Requests :
            Hits(Append(p, c), {Response(s)}) = Hits(p, {Response(s)})
      BY <1>1, OtherPosted
    <2> QED
      BY <1>0, <1>5, <2>1
  <1>7. CASE UNCHANGED <<req, mainQueue>>
    BY <1>3, <1>4, <1>7
  <1>8. CASE req' = [req EXCEPT ![r] = q] /\ mainQueue' = PostResponse(r)
    <2>1. Notifies(r, "ReceiveData")
      BY <1>0, <1>2, <1>8, NotifyFlags
    <2> QED
      BY <1>3, <1>4, <1>5, <1>8, <2>1
  <1>9. CASE req' = [req EXCEPT ![r] = req[r]] /\ mainQueue' = Append(mainQueue, c)
    <2>1. UNCHANGED req
      BY <1>0, <1>9 DEF RequestTypes
    <2> QED
      BY <1>3, <1>4, <1>6, <1>9, <2>1
  <1>10. CASE /\ req' = [req EXCEPT ![r] = Notified(req[r], "None")]
              /\ mainQueue' = Append(PostResponse(r), c)
    <2>1. Notifies(r, "None")
      BY <1>0, <1>10, NotifiedFacts, NotifyFlags
    <2> QED
      BY <1>3, <1>4, <1>6, <1>10, <2>1
  <1> QED
    BY <1>3, <1>7, <1>8, <1>9, <1>10

\* A response of a running transfer changes nothing of its way.
LEMMA DataLife ==
    ASSUME Types, Types', LifeInv, NEW r \in Requests, NEW part \in BOOLEAN,
           DidReceiveData(r, part)
    PROVE  LifeInv'
  <1>0. Ordered(Queue) /\ Mapped
    BY DEF LifeInv
  <1>1. /\ worker' = worker \/ worker'.at = "pausing"
        /\ \A s \in Requests : curl'[s].state = curl[s].state
        /\ curl[r].state = "running"
        /\ UNCHANGED <<m_curlHandle, m_activeJobs, m_clientMaps, batch,
                       m_taskQueue, owed>>
    BY DataEffect DEF schedVars
  <1>2. Ordered(Queue') /\ \A s \in Requests : SameTasks(s)
    BY <1>0, <1>1, TasksKept, KeptTasks
  <1>3. \A s \in Requests : SamePlace(s) /\ (Finishing(s)' => Over(s))
    BY <1>1 DEF SamePlace, Finishing, Over
  <1>4. CASE /\ UNCHANGED req
             /\ \A s \in Requests :
                  Hits(mainQueue', {Response(s)}) = Hits(mainQueue, {Response(s)})
    <2>1. \A s \in Requests : Responses(s)' <= Responses(s)
      BY <1>1, <1>4, SameResponses
    <2>2. \A s \in Requests : Calm(s)
      BY <1>2, <1>3, <1>4, <2>1 DEF Calm, SameFlags
    <2> QED
      BY <1>1, <1>2, <2>2, CalmInv
  <1>5. CASE /\ Notifies(r, "ReceiveData") \/ Notifies(r, "None")
             /\ \A s \in Requests :
                  Hits(mainQueue', {Response(s)})
                    = Hits(Append(mainQueue, Response(r)), {Response(s)})
    <2>1. \A s \in Requests : Responses(s)' = Responses(s) + IF s = r THEN 1 ELSE 0
      BY <1>1, <1>5, ResponseCount
    <2>2. ASSUME NEW s \in Requests \ {r} PROVE Calm(s)
      <3>1. SameFlags(s)
        BY <1>5 DEF Notifies, SameFlags
      <3>2. Responses(s)' <= Responses(s)
        BY <2>1, ResponsesType
      <3> QED
        BY <1>2, <1>3, <3>1, <3>2 DEF Calm
    <2>3. Mapped'
      BY <1>0, <1>1, MappedKept DEF InCurl
    <2>4. Life(r) /\ InCurl(r) /\ Begun(r) /\ ~Over(r)
      BY <1>1 DEF LifeInv, Life, InCurl, Begun
    <2>5. /\ req'[r].started
          /\ req'[r].m_actionAfterInvoke \in {"ReceiveData", "None"}
      BY <1>5, <2>4 DEF Notifies, Life
    <2>6. ~Over(r)'
      BY <1>2, <1>3, <2>4, <2>5, StaysBefore
    <2>7. InCurl(r)' /\ ~Queued("respondForFile", r)' /\ ~Queued("startTransfer", r)'
      BY <1>1, <1>2, <2>4 DEF InCurl, Life, SameTasks
    <2>8. Life(r)'
      BY <1>1, <1>2, <2>4, <2>5, <2>6, <2>7 DEF Life, SameTasks, InCurl
    <2> QED
      BY <1>2, <2>2, <2>3, <2>8, OneMoves
  <1> QED
    BY <1>4, <1>5, DataEffect

\* finalizeTransfer moves an active request to the finalize task.
LEMMA FinalizeQueued ==
    ASSUME Types, Types', LifeInv, NEW r \in Requests,
           NEW how \in Result \cup {"cancel"}, FinalizeTransfer(r, how),
           UNCHANGED batch
    PROVE  /\ Ordered(Queue')
           /\ Queued("finalize", r)' <=> Queued("finalize", r) \/ r \in m_activeJobs
           /\ \A do, s : do # "finalize" \/ s # r =>
                (Queued(do, s)' <=> Queued(do, s))
           /\ m_activeJobs' = m_activeJobs \ {r}
  <1> DEFINE t == [do |-> "finalize", r |-> r, how |-> how]
  <1>0. QueueTypes /\ QueueTypes' /\ Ordered(Queue) /\ Life(r) /\ Tasks \subseteq Task
    BY QueueIsTasks DEF Types, LifeInv
  <1>1. m_activeJobs' = m_activeJobs \ {r}
    BY DEF FinalizeTransfer
  <1>2. CASE r \in m_activeJobs
    <2>1. t \in Task /\ m_taskQueue' = Append(m_taskQueue, t)
      BY <1>2, NewTasks DEF FinalizeTransfer
    <2>2. \A u \in Tasks : Follows(u, t)
      BY <1>0, <1>2 DEF Follows, Queued, Life
    <2>3. t.do = "finalize" /\ t.r = r
      OBVIOUS
    <2> HIDE DEF t
    <2>4. Tasks' = Tasks \cup {t} /\ Ordered(Queue')
      BY <1>0, <2>1, <2>2, TaskQueued
    <2>5. \A do, s : Queued(do, s)' <=> Queued(do, s) \/ (t.do = do /\ t.r = s)
      BY <2>4, QueuedTask
    <2> QED
      BY <1>1, <1>2, <2>3, <2>4, <2>5
  <1>3. CASE r \notin m_activeJobs
    <2>1. UNCHANGED m_taskQueue
      BY <1>3 DEF FinalizeTransfer
    <2>2. Tasks' = Tasks /\ Ordered(Queue')
      BY <1>0, <2>1, TasksKept
    <2> QED
      BY <1>1, <1>3, <2>2, KeptTasks
  <1> QED
    BY <1>2, <1>3

\* What is left of a request's way when it has moved there.
LEMMA FinalizedLife ==
    ASSUME Types, Types', NEW r \in Requests, Life(r), SameFlags(r),
           UNCHANGED <<m_curlHandle, m_clientMaps>>,
           \/ curl'[r].state = curl[r].state
           \/ curl[r].state = "running" /\ curl'[r].state = "over",
           r \notin m_activeJobs', Responses(r)' <= Responses(r),
           Queued("finalize", r)' <=> Queued("finalize", r) \/ r \in m_activeJobs,
           \A do : do # "finalize" /\ Queued(do, r)' => Queued(do, r),
           Finishing(r)' => Finishing(r)
    PROVE  Life(r)'
  <1>1. Responses(r) \in Nat /\ Responses(r)' \in Nat
    BY ResponsesType
  <1>2. InCurl(r)' <=> InCurl(r)
    BY DEF InCurl
  <1>3. Over(r)' => Over(r)
    BY DEF Over, SameFlags
  <1>4. Begun(r)' => Begun(r)
    BY <1>3 DEF Begun
  <1>5. Responses(r) = 0 => Responses(r)' = 0
    BY <1>1
  <1>6. Responses(r) = 1 => Responses(r)' \in {0, 1}
    BY <1>1
  <1> QED
    BY <1>2, <1>3, <1>4, <1>5, <1>6 DEF Life, SameFlags

\* libcurl reports the end of a transfer.
LEMMA DoneLife ==
    ASSUME Types, Types', LifeInv, NEW r \in Requests, NEW how \in Result,
           TransferDone(r, how)
    PROVE  LifeInv'
  <1>0. Mapped /\ Life(r) /\ curl \in [Requests -> Transfer]
    BY DEF LifeInv, Types, TransferTypes
  <1>1. curl[r].state = "running" /\ curl' = [curl EXCEPT ![r].state = "over"]
    BY DEF TransferDone, Performs
  <1>2. FinalizeTransfer(r, how)
    BY <1>0, <1>1 DEF TransferDone, Life, InCurl
  <1>3. UNCHANGED <<req, m_curlHandle, m_clientMaps, batch, worker, mainQueue, owed>>
    BY DEF TransferDone, clientVars
  <1>4. /\ Ordered(Queue')
        /\ Queued("finalize", r)' <=> Queued("finalize", r) \/ r \in m_activeJobs
        /\ \A do, s : do # "finalize" \/ s # r => (Queued(do, s)' <=> Queued(do, s))
        /\ m_activeJobs' = m_activeJobs \ {r}
    BY <1>2, <1>3, FinalizeQueued
  <1>5. /\ curl'[r].state = "over"
        /\ \A s \in Requests \ {r} : curl'[s].state = curl[s].state
    BY <1>0, <1>1 DEF Transfer
  <1>6. \A s \in Requests : /\ Responses(s)' <= Responses(s)
                            /\ SameFlags(s) /\ (Finishing(s)' => Finishing(s))
    BY <1>3, SameResponses DEF SameFlags, Finishing
  <1>7. ASSUME NEW s \in Requests \ {r} PROVE Calm(s)
    <2>1. SameTasks(s)
      BY <1>4 DEF SameTasks, Over
    <2>2. SamePlace(s)
      BY <1>3, <1>4, <1>5 DEF SamePlace
    <2> QED
      BY <1>6, <2>1, <2>2 DEF Calm, Over
  <1>8. Life(r)'
    BY <1>0, <1>1, <1>3, <1>4, <1>5, <1>6, FinalizedLife
  <1>9. Mapped'
    BY <1>0, <1>1, <1>3, <1>5, MappedKept DEF InCurl
  <1> QED
    BY <1>4, <1>7, <1>8, <1>9, OneMoves

\* cancel() finalizes an active transfer, or one that waits to finish.
LEMMA CancelLife ==
    ASSUME Types, Types', LifeInv, NEW r \in Requests, CancelEnd(r)
    PROVE  LifeInv'
  <1>0. /\ Mapped /\ Life(r) /\ QueueTypes /\ QueueTypes' /\ Ordered(Queue)
    BY DEF LifeInv, Types
  <1>1. UNCHANGED <<m_curlHandle, m_clientMaps, batch, worker, curl, mainQueue, owed>>
    BY DEF CancelEnd, CallOnWorkerThread, clientVars
  <1>2. \A s \in Requests : SameFlags(s)
    BY QuietFlags DEF Quiet, SameLife, Keeps, SameFlags
  <1>3. \A s \in Requests : /\ Responses(s)' <= Responses(s)
                            /\ Finishing(s)' => Finishing(s)
    BY <1>1, SameResponses DEF Finishing
  <1>4. CASE NeedToInvokeDidCancelTransfer(req[r])
    <2> DEFINE t == [do |-> "didCancel", r |-> r]
    <2>1. /\ m_taskQueue' = Append(m_taskQueue, t) /\ UNCHANGED m_activeJobs
          /\ req[r].m_actionAfterInvoke = "FinishTransfer"
      BY <1>4 DEF CancelEnd, CallOnWorkerThread, NeedToInvokeDidCancelTransfer
    <2>2. t \in Task /\ t.do = "didCancel" /\ t.r = r /\ \A u : Follows(u, t)
      BY NewTasks DEF Follows
    <2> HIDE DEF t
    <2>3. Tasks' = Tasks \cup {t} /\ Ordered(Queue')
      BY <1>0, <1>1, <2>1, <2>2, TaskQueued
    <2>4. \A do, s : Queued(do, s)' <=> Queued(do, s) \/ (do = "didCancel" /\ s = r)
      BY <2>2, <2>3, QueuedTask
    <2>5. \A s \in Requests : SameTasks(s)
      BY <2>1, <2>4 DEF SameTasks, Over
    <2>6. \A s \in Requests : Calm(s)
      BY <1>1, <1>2, <1>3, <2>1, <2>5 DEF Calm, SamePlace, Over
    <2> QED
      BY <1>1, <2>3, <2>6, CalmInv
  <1>5. CASE ~NeedToInvokeDidCancelTransfer(req[r])
    <2>1. FinalizeTransfer(r, "cancel")
      BY <1>5 DEF CancelEnd
    <2>2. /\ Ordered(Queue')
          /\ Queued("finalize", r)' <=> Queued("finalize", r) \/ r \in m_activeJobs
          /\ \A do, s : do # "finalize" \/ s # r => (Queued(do, s)' <=> Queued(do, s))
          /\ m_activeJobs' = m_activeJobs \ {r}
      BY <1>1, <2>1, FinalizeQueued
    <2>3. ASSUME NEW s \in Requests \ {r} PROVE Calm(s)
      <3>1. SameTasks(s)
        BY <2>2 DEF SameTasks, Over
      <3>2. SamePlace(s)
        BY <1>1, <2>2 DEF SamePlace
      <3> QED
        BY <1>2, <1>3, <3>1, <3>2 DEF Calm, Over
    <2>4. Life(r)'
      BY <1>0, <1>1, <1>2, <1>3, <2>2, FinalizedLife
    <2>5. Mapped'
      BY <1>0, <1>1, MappedKept DEF InCurl
    <2> QED
      BY <2>2, <2>3, <2>4, <2>5, OneMoves
  <1> QED
    BY <1>4, <1>5

\* A transfer that could not be set up is finalized, unless cancel() has
\* done so.
LEMMA StartFailsLife ==
    ASSUME Types, Types', LifeInv, StartTransferFails PROVE LifeInv'
  <1>0. /\ QueueTypes /\ QueueTypes' /\ Ordered(Queue) /\ Mapped
        /\ Tasks \subseteq Task
    BY QueueIsTasks DEF Types, QueueTypes, LifeInv
  <1> PICK r \in Requests : r = Head(batch).r
    BY <1>0, SetupFacts DEF StartTransferFails
  <1> DEFINE t == [do |-> "finalize", r |-> r, how |-> "error"]
             u == Head(batch)
  <1>1. /\ Dequeues("startTransfer") /\ FinalizeTransfer(r, "error")
        /\ m_activeJobs' = m_activeJobs \ {r} /\ worker' = [at |-> "idle"]
        /\ UNCHANGED <<m_curlHandle, m_clientMaps, curl, mainQueue, owed>>
    BY DEF StartTransferFails, SetupTransfer, FinalizeTransfer, clientVars
  <1>2. \A s \in Requests : SameFlags(s)
    BY QuietFlags DEF Quiet, SameLife, Keeps, SameFlags
  <1>3. \A s \in Requests : /\ Responses(s)' <= Responses(s)
                            /\ Finishing(s)' => Finishing(s)
    BY <1>1, SameResponses DEF Finishing
  <1>4. Life(r) /\ u \in Tasks /\ u.do = "startTransfer" /\ u.r = r
    <2>1. batch # <<>> /\ batch \in Seq(Task) /\ u.do = "startTransfer"
      BY <1>0, <1>1 DEF Dequeues, QueueTypes
    <2>2. 1 \in DOMAIN batch /\ u = batch[1]
      BY <2>1, HeadTailProperties, LenProperties, EmptySeq
    <2> QED
      BY <2>1, <2>2 DEF LifeInv, Tasks
  <1>5. /\ Ordered(Queue')
        /\ Queued("finalize", r)' <=> Queued("finalize", r) \/ r \in m_activeJobs
        /\ \A do, s : do # "finalize" /\ Queued(do, s)' => Queued(do, s)
        /\ \A do, s : s # r => (Queued(do, s)' <=> Queued(do, s))
    <2>1. CASE r \in m_activeJobs
      <3>1. t \in Task /\ m_taskQueue' = Append(m_taskQueue, t)
        BY <1>1, <2>1, NewTasks DEF FinalizeTransfer, Result
      <3>2. \A v \in Tasks : Follows(v, t)
        BY <1>4, <2>1 DEF Follows, Queued, Life
      <3>3. t.do = "finalize" /\ t.r = r
        OBVIOUS
      <3> HIDE DEF t
      <3>4. /\ Tasks \cup {t} = Tasks' \cup {u} /\ t \in Tasks' /\ Ordered(Queue')
        BY <1>0, <1>1, <3>1, <3>2, TaskRunQueues
      <3> HIDE DEF u
      <3>5. Queued("finalize", r)'
        BY <3>3, <3>4 DEF Queued
      <3>6. ASSUME NEW do, NEW s, Queued(do, s)'
            PROVE  Queued(do, s) \/ (do = "finalize" /\ s = r)
        <4>1. PICK v \in Tasks' : v.do = do /\ v.r = s
          BY <3>6 DEF Queued
        <4>2. v \in Tasks \/ v = t
          BY <3>4
        <4> QED
          BY <3>3, <4>1, <4>2 DEF Queued
      <3>7. ASSUME NEW do, NEW s, s # r, Queued(do, s) PROVE Queued(do, s)'
        <4>1. PICK v \in Tasks : v.do = do /\ v.r = s
          BY <3>7 DEF Queued
        <4>2. v \in Tasks'
          BY <1>4, <3>4, <3>7, <4>1
        <4> QED
          BY <4>1, <4>2 DEF Queued
      <3> QED
        BY <2>1, <3>4, <3>5, <3>6, <3>7
    <2>2. CASE r \notin m_activeJobs
      <3>1. UNCHANGED m_taskQueue
        BY <1>1, <2>2 DEF FinalizeTransfer
      <3>2. /\ Tasks = Tasks' \cup {u} /\ Ordered(Queue')
            /\ \A v \in Tasks' : Follows(u, v)
        BY <1>0, <1>1, <3>1, TaskRun
      <3>3. /\ \A do, s : Queued(do, s)' => Queued(do, s)
            /\ \A do, s : Queued(do, s) => Queued(do, s)' \/ (u.do = do /\ u.r = s)
        BY <3>2, RunTaskOf
      <3> QED
        BY <1>4, <2>2, <3>2, <3>3
    <2> QED
      BY <2>1, <2>2
  <1> HIDE DEF t, u
  <1>6. ASSUME NEW s \in Requests \ {r} PROVE Calm(s)
    <2>1. SameTasks(s)
      BY <1>5 DEF SameTasks, Over
    <2>2. SamePlace(s)
      BY <1>1 DEF SamePlace
    <2> QED
      BY <1>2, <1>3, <2>1, <2>2 DEF Calm, Over
  <1>7. Life(r)'
    BY <1>1, <1>2, <1>3, <1>4, <1>5, FinalizedLife
  <1>8. Mapped'
    BY <1>0, <1>1, MappedKept DEF InCurl
  <1> QED
    BY <1>5, <1>6, <1>7, <1>8, OneMoves

\* add() for a request the scheduler has not had.
LEMMA AddLife ==
    ASSUME Types, Types', LifeInv, NEW r \in Requests, Add(r), ~Begun(r),
           ~Queued("respondForFile", r), curl[r].state = "none",
           req'[r].started,
           req'[r].m_actionAfterInvoke # "FinishTransfer",
           req'[r].m_actionAfterInvoke = "StartTransfer" => Responses(r)' = 0,
           \A s \in Requests \ {r} : SameFlags(s),
           \A s \in Requests : Responses(s)' <= Responses(s),
           UNCHANGED <<m_curlHandle, worker, curl>>
    PROVE  LifeInv'
  <1> DEFINE t == [do |-> "startTransfer", r |-> r]
  <1>0. /\ QueueTypes /\ QueueTypes' /\ Ordered(Queue) /\ Mapped /\ Life(r)
        /\ Tasks \subseteq Task
    BY QueueIsTasks DEF Types, LifeInv
  <1>1. /\ m_taskQueue' = Append(m_taskQueue, t) /\ UNCHANGED <<m_clientMaps, batch>>
        /\ m_activeJobs' = m_activeJobs \cup {r}
    BY DEF Add
  <1>2. t \in Task /\ t.do = "startTransfer" /\ t.r = r
    BY NewTasks
  <1>3. \A u \in Tasks : Follows(u, t)
    BY DEF Follows, Queued, Begun
  <1> HIDE DEF t
  <1>4. Tasks' = Tasks \cup {t} /\ Ordered(Queue')
    BY <1>0, <1>1, <1>2, <1>3, TaskQueued
  <1>5. /\ \A do, s : Queued(do, s)' <=> Queued(do, s) \/ (do = "startTransfer" /\ s = r)
        /\ \A s \in Requests \ {r} : SameTasks(s)
    BY <1>2, <1>4, QueuedTask
  <1>6. \A s \in Requests : Finishing(s)' <=> Finishing(s)
    BY DEF Finishing
  <1>7. ASSUME NEW s \in Requests \ {r} PROVE Calm(s)
    BY <1>1, <1>5, <1>6 DEF Calm, SamePlace, Over
  <1>8. ~Over(r)' /\ ~InCurl(r)' /\ ~Queued("finalize", r)'
    BY <1>5, <1>6 DEF Over, Begun, InCurl
  <1>9. Life(r)'
    BY <1>0, <1>1, <1>5, <1>8 DEF Life
  <1>10. Mapped'
    BY <1>0, <1>1, MappedKept DEF InCurl
  <1> QED
    BY <1>4, <1>7, <1>9, <1>10, OneMoves

\* start() gives a request to the scheduler, or a file to the curl thread.
LEMMA StartLife ==
    ASSUME Types, Types', LifeInv, NEW r \in Requests, Start(r)
    PROVE  LifeInv'
  <1>0. /\ QueueTypes /\ QueueTypes' /\ Ordered(Queue) /\ Mapped /\ Life(r)
        /\ Tasks \subseteq Task
    BY QueueIsTasks DEF Types, LifeInv
  <1>1. /\ ~Begun(r) /\ ~Queued("respondForFile", r) /\ Responses(r) = 0
        /\ req[r].m_actionAfterInvoke = "None" /\ curl[r].state = "none"
    BY <1>0 DEF Start, Life, Begun
  <1>2. UNCHANGED <<m_curlHandle, worker, curl, mainQueue, owed>>
    BY DEF Start, clientVars
  <1>3. /\ req'[r].started /\ req'[r].m_actionAfterInvoke = "None"
        /\ \A s \in Requests \ {r} : SameFlags(s)
    <2>1. \A s \in Requests :
            /\ req'[s].m_actionAfterInvoke = req[s].m_actionAfterInvoke
            /\ req'[s].started = (s = r \/ req[s].started)
      BY StartFlags
    <2>2. \A s \in Requests : req[s].started \in BOOLEAN
      BY DEF Types, RequestTypes, Request
    <2>3. req'[r].started
      BY <2>1
    <2>4. \A s \in Requests \ {r} : req'[s].started = req[s].started
      BY <2>1, <2>2
    <2> QED
      BY <1>1, <2>1, <2>3, <2>4 DEF SameFlags
  <1>4. \A s \in Requests : /\ Responses(s)' = Responses(s)
                            /\ Responses(s)' <= Responses(s)
    BY <1>2, SameResponses
  <1>5. CASE Add(r)
    BY <1>1, <1>2, <1>3, <1>4, <1>5, AddLife
  <1>6. CASE CallOnWorkerThread([do |-> "respondForFile", r |-> r])
    <2> DEFINE t == [do |-> "respondForFile", r |-> r]
    <2>1. /\ m_taskQueue' = Append(m_taskQueue, t)
          /\ UNCHANGED <<m_clientMaps, batch, m_activeJobs>>
      BY <1>6 DEF CallOnWorkerThread
    <2>2. t \in Task /\ t.do = "respondForFile" /\ t.r = r
      BY NewTasks
    <2>3. \A u \in Tasks : Follows(u, t)
      BY <1>1 DEF Follows, Queued
    <2> HIDE DEF t
    <2>4. Tasks' = Tasks \cup {t} /\ Ordered(Queue')
      BY <1>0, <2>1, <2>2, <2>3, TaskQueued
    <2>5. /\ \A do, s : Queued(do, s)' <=>
                          Queued(do, s) \/ (do = "respondForFile" /\ s = r)
          /\ \A s \in Requests \ {r} : SameTasks(s)
      BY <2>2, <2>4, QueuedTask
    <2>6. \A s \in Requests : Finishing(s)' <=> Finishing(s)
      BY <1>2 DEF Finishing
    <2>7. ASSUME NEW s \in Requests \ {r} PROVE Calm(s)
      BY <1>2, <1>3, <1>4, <2>1, <2>5, <2>6 DEF Calm, SamePlace, Over
    <2>8. ~Over(r)'
      BY <1>1, <1>2, <1>3, <2>5, <2>6 DEF Over, Begun
    <2>9. ~Begun(r)' /\ ~InCurl(r)'
      BY <1>1, <1>2, <2>1, <2>5, <2>8 DEF Begun, InCurl
    <2>10. Life(r)'
      BY <1>0, <1>1, <1>2, <1>3, <1>4, <2>9 DEF Life, Begun
    <2>11. Mapped'
      BY <1>0, <1>2, <2>1, MappedKept DEF InCurl
    <2> QED
      BY <2>4, <2>7, <2>10, <2>11, OneMoves
  <1> QED
    BY <1>5, <1>6 DEF Start

\* The answer to a response starts, unpauses or finishes the transfer.
LEMMA AnswerLife ==
    ASSUME Types, Types', LifeInv, NEW r \in Requests,
           CompleteDidReceiveResponse(r)
    PROVE  LifeInv'
  <1>0. /\ QueueTypes /\ QueueTypes' /\ Ordered(Queue) /\ Mapped /\ Life(r)
        /\ Tasks \subseteq Task /\ RequestTypes
        /\ owed \in [Requests -> Nat] /\ mainQueue \in Seq(MainTask)
    BY QueueIsTasks DEF Types, LifeInv, ClientTypes, QueueTypes
  <1>1. /\ UNCHANGED <<m_curlHandle, worker, curl, mainQueue>>
        /\ owed[r] > 0 /\ owed' = [owed EXCEPT ![r] = @ - 1]
    BY DEF CompleteDidReceiveResponse
  <1>2. \A s \in Requests : SameFlags(s)
    BY QuietFlags DEF Quiet, SameLife, Keeps, SameFlags
  <1>3. ASSUME NEW s \in Requests
        PROVE  /\ Responses(s)' <= Responses(s)
               /\ s = r => Responses(s) > 0 /\ Responses(s)' = Responses(s) - 1
    <2>1. Hits(mainQueue, {Response(s)}) \in Nat
      BY <1>0, HitsType
    <2>2. /\ owed'[s] + Hits(mainQueue', {Response(s)})
               <= owed[s] + Hits(mainQueue, {Response(s)})
          /\ s = r =>
               /\ owed[s] + Hits(mainQueue, {Response(s)}) > 0
               /\ owed'[s] + Hits(mainQueue', {Response(s)})
                    = (owed[s] + Hits(mainQueue, {Response(s)})) - 1
      BY <1>0, <1>1, <2>1
    <2>3. Responses(s)' <= Responses(s)
      BY <2>2 DEF Responses, Response, Client
    <2>4. ASSUME s = r PROVE Responses(s) > 0 /\ Responses(s)' = Responses(s) - 1
      <3>1. owed[s] + Hits(mainQueue, {Response(s)}) > 0
        BY <2>2, <2>4
      <3>2. owed'[s] + Hits(mainQueue', {Response(s)})
              = (owed[s] + Hits(mainQueue, {Response(s)})) - 1
        BY <2>2, <2>4
      <3>3. Responses(s) > 0
        BY <3>1 DEF Responses
      <3>4. Responses(s)' = Responses(s) - 1
        BY <3>2 DEF Responses, Response, Client
      <3> QED
        BY <3>3, <3>4
    <2> QED
      BY <2>3, <2>4
  <1>4. \A s \in Requests : Finishing(s)' <=> Finishing(s)
    BY <1>1 DEF Finishing
  <1>5. ASSUME Ordered(Queue'), \A s \in Requests : SameTasks(s),
               UNCHANGED <<m_activeJobs, m_clientMaps>>
        PROVE  LifeInv'
    <2>1. \A s \in Requests : Calm(s)
      BY <1>1, <1>2, <1>3, <1>4, <1>5 DEF Calm, SamePlace, Over
    <2> QED
      BY <1>5, <2>1, CalmInv
  <1>6. CASE UNCHANGED schedVars
    BY <1>0, <1>5, <1>6, TasksKept, KeptTasks DEF schedVars
  <1>7. CASE CallOnWorkerThread([do |-> "pauseChange", r |-> r])
    <2> DEFINE t == [do |-> "pauseChange", r |-> r]
    <2>1. /\ m_taskQueue' = Append(m_taskQueue, t)
          /\ UNCHANGED <<m_clientMaps, batch, m_activeJobs>>
      BY <1>7 DEF CallOnWorkerThread
    <2>2. t \in Task /\ t.do = "pauseChange" /\ \A u : Follows(u, t)
      BY NewTasks DEF Follows
    <2> HIDE DEF t
    <2>3. Tasks' = Tasks \cup {t} /\ Ordered(Queue')
      BY <1>0, <2>1, <2>2, TaskQueued
    <2>4. \A s \in Requests : SameTasks(s)
      BY <2>2, <2>3, QueuedTask
    <2> QED
      BY <1>5, <2>1, <2>3, <2>4
  <1>8. CASE req[r].m_actionAfterInvoke = "StartTransfer" /\ Add(r)
    <2>1. Responses(r) = 1 /\ ~Begun(r) /\ curl[r].state = "none"
      BY <1>0, <1>3, <1>8 DEF Life, Begun
    <2>2. /\ req'[r].started /\ ~Queued("respondForFile", r)
          /\ req'[r].m_actionAfterInvoke = "StartTransfer"
      BY <1>0, <1>2, <1>8, <2>1 DEF Life, SameFlags
    <2>3. Responses(r)' = 0
      BY <1>3, <2>1
    <2> QED
      BY <1>1, <1>2, <1>3, <1>8, <2>1, <2>2, <2>3, AddLife
  <1>9. ASSUME NEW how \in Result, req[r].m_actionAfterInvoke = "FinishTransfer",
               CallOnWorkerThread([do |-> "didComplete", r |-> r, how |-> how])
        PROVE  LifeInv'
    <2> DEFINE t == [do |-> "didComplete", r |-> r, how |-> how]
    <2>1. /\ m_taskQueue' = Append(m_taskQueue, t)
          /\ UNCHANGED <<m_clientMaps, batch, m_activeJobs>>
      BY <1>9 DEF CallOnWorkerThread
    <2>2. t \in Task /\ t.do = "didComplete" /\ t.r = r /\ \A u : Follows(u, t)
      BY <1>9, NewTasks DEF Follows
    <2> HIDE DEF t
    <2>3. Tasks' = Tasks \cup {t} /\ Ordered(Queue')
      BY <1>0, <2>1, <2>2, TaskQueued
    <2>4. \A do, s : Queued(do, s)' <=> Queued(do, s) \/ (do = "didComplete" /\ s = r)
      BY <2>2, <2>3, QueuedTask
    <2>5. \A s \in Requests : SameTasks(s)
      BY <1>9, <2>4 DEF SameTasks, Over
    <2> QED
      BY <1>5, <2>1, <2>3, <2>5
  <1> QED
    BY <1>0, <1>6, <1>7, <1>8, <1>9, AnswerCases

\* libcurl gets a handle that no request has.
LEMMA StartTransferLife ==
    ASSUME Types, Types', LifeInv, StartTransfer PROVE LifeInv'
  <1>0. /\ QueueTypes /\ QueueTypes' /\ Ordered(Queue) /\ Mapped
        /\ TransferTypes /\ curl \in [Requests -> Transfer]
        /\ m_curlHandle \in [Requests -> Handles \cup {NoHandle}]
        /\ m_clientMaps \in [Handles -> SUBSET Requests]
    BY DEF Types, LifeInv, TransferTypes, JobTypes
  <1> PICK r \in Requests : r = Head(batch).r
    BY <1>0, SetupFacts DEF StartTransfer
  <1>1. PICK h \in Handles, accepted \in BOOLEAN :
          LET q == SuspendAtSetup(req[r], accepted)
          IN  /\ \A s \in Requests : m_curlHandle[s] # h
              /\ m_curlHandle' = [m_curlHandle EXCEPT ![r] = h]
              /\ m_clientMaps' = [m_clientMaps EXCEPT ![h] = {r}]
              /\ curl' = [curl EXCEPT ![r].state = "running",
                                      ![r].paused = q.m_isHandlePaused]
    BY DEF StartTransfer
  <1>2. /\ curl'[r].state = "running"
        /\ \A s \in Requests \ {r} : curl'[s].state = curl[s].state
    BY <1>0, <1>1 DEF Transfer
  <1>3. /\ m_curlHandle'[r] = h /\ h # NoHandle /\ m_clientMaps'[h] = {r}
        /\ \A s \in Requests : m_curlHandle[s] # h
        /\ \A s \in Requests \ {r} : m_curlHandle'[s] = m_curlHandle[s]
        /\ \A g \in Handles \ {h} : m_clientMaps'[g] = m_clientMaps[g]
    BY <1>0, <1>1, RequestsAssumption
  <1>4. /\ UNCHANGED <<m_activeJobs, mainQueue, owed, m_taskQueue>>
        /\ worker.at \in {"idle", "suspending"} /\ worker' = [at |-> "idle"]
    BY <1>0, SetupFacts DEF StartTransfer, clientVars
  <1>5. /\ Tasks = Tasks' \cup {Head(batch)} /\ Ordered(Queue')
        /\ \A u \in Tasks' : Follows(Head(batch), u)
    BY <1>0, <1>4, TaskRun DEF StartTransfer, SetupTransfer
  <1>6. Head(batch).r = r /\ Head(batch).do = "startTransfer"
    BY <1>0, SetupFacts DEF StartTransfer
  <1>7. /\ Queued("startTransfer", r) /\ ~Queued("startTransfer", r)'
        /\ \A do : do # "startTransfer" => (Queued(do, r)' <=> Queued(do, r))
        /\ \A s \in Requests \ {r} : SameTasks(s)
    BY <1>5, <1>6, RunTaskOf
  <1>8. \A s \in Requests : SameFlags(s)
    BY QuietFlags DEF Quiet, SameLife, Keeps, SameFlags
  <1>9. \A s \in Requests : /\ Responses(s)' = Responses(s)
                            /\ Responses(s)' <= Responses(s)
                            /\ Finishing(s)' <=> Finishing(s)
    BY <1>4, SameResponses DEF Finishing
  <1>10. \A s \in Requests : InCurl(s) => m_curlHandle[s] \in Handles \ {h}
    BY <1>0, <1>3 DEF LifeInv, Life
  <1>11. ASSUME NEW s \in Requests \ {r} PROVE Calm(s)
    <2>1. SamePlace(s)
      BY <1>2, <1>3, <1>4, <1>10 DEF SamePlace
    <2> QED
      BY <1>7, <1>8, <1>9, <2>1 DEF Calm, Over
  <1>12. /\ Life(r) /\ Begun(r) /\ ~Over(r) /\ curl[r].state = "none"
         /\ r \in m_activeJobs \/ Queued("finalize", r)
         /\ req[r].started /\ ~Queued("respondForFile", r)
         /\ Queued("finalize", r) => r \notin m_activeJobs
    BY <1>7 DEF LifeInv, Life, Begun
  <1>13. ~Over(r)'
    BY <1>2, <1>7, <1>8, <1>9, <1>12 DEF Over, SameFlags
  <1>14. req'[r].m_actionAfterInvoke = "StartTransfer" => Responses(r)' = 0
    BY <1>8, <1>9, <1>12 DEF Life, SameFlags
  <1>15. Life(r)'
    BY <1>2, <1>3, <1>4, <1>7, <1>8, <1>12, <1>13, <1>14 DEF Life, SameFlags
  <1>16. Mapped'
    <2> SUFFICES ASSUME NEW g \in Handles, m_clientMaps'[g] # {}
                 PROVE  \E s \in Requests : /\ m_clientMaps'[g] = {s}
                                            /\ m_curlHandle'[s] = g /\ InCurl(s)'
      BY DEF Mapped
    <2>1. CASE g = h
      BY <1>2, <1>3, <2>1 DEF InCurl
    <2>2. CASE g # h
      <3>1. PICK s \in Requests :
              m_clientMaps[g] = {s} /\ m_curlHandle[s] = g /\ InCurl(s)
        BY <1>0, <1>3, <2>2 DEF Mapped
      <3>2. s # r
        BY <1>12, <3>1 DEF InCurl
      <3> QED
        BY <1>2, <1>3, <2>2, <3>1, <3>2 DEF InCurl
    <2> QED
      BY <2>1, <2>2
  <1> QED
    BY <1>5, <1>11, <1>15, <1>16, OneMoves

\* The finalize task takes the handle from the map and from libcurl.
LEMMA FinalizeLife ==
    ASSUME Types, Types', LifeInv, Finalize PROVE LifeInv'
  <1>0. /\ QueueTypes /\ QueueTypes' /\ Ordered(Queue) /\ Mapped
        /\ curl \in [Requests -> Transfer]
        /\ m_curlHandle \in [Requests -> Handles \cup {NoHandle}]
        /\ m_clientMaps \in [Handles -> SUBSET Requests]
    BY DEF Types, LifeInv, TransferTypes, JobTypes
  <1> PICK r \in Requests : r = Head(batch).r
    BY <1>0, RunsFacts DEF Finalize
  <1> PICK h \in Handles \cup {NoHandle} : h = m_curlHandle[r]
    BY <1>0
  <1>1. /\ IF h = NoHandle
             THEN UNCHANGED <<m_clientMaps, curl>>
             ELSE /\ m_clientMaps' = [m_clientMaps EXCEPT ![h] = {}]
                  /\ curl' = [curl EXCEPT ![r].state = "removed"]
        /\ UNCHANGED <<m_activeJobs, m_taskQueue, owed>>
    BY DEF Finalize, clientVars
  <1>2. /\ \A s \in Requests \ {r} : m_curlHandle'[s] = m_curlHandle[s]
        /\ m_curlHandle'[r] \in {h, NoHandle}
        /\ \A s \in Requests :
             Hits(mainQueue', {Response(s)}) = Hits(mainQueue, {Response(s)})
        /\ \A s \in Requests : Finishing(s)' => s = r \/ Finishing(s)
    <2>1. \E how : \/ DidCancelTransfer(r, TRUE)
                   \/ DidCompleteTransfer(r, how, TRUE)
      BY DEF Finalize
    <2> QED
      BY <2>1, EndEffect
  <1>3. /\ Tasks = Tasks' \cup {Head(batch)} /\ Ordered(Queue')
        /\ \A u \in Tasks' : Follows(Head(batch), u)
    BY <1>0, <1>1, TaskRun DEF Finalize, Runs
  <1>4. Head(batch).r = r /\ Head(batch).do = "finalize"
    BY <1>0, RunsFacts DEF Finalize
  <1>5. /\ Queued("finalize", r) /\ ~Queued("finalize", r)'
        /\ ~Queued("startTransfer", r)'
        /\ \A do : Queued(do, r)' => Queued(do, r)
        /\ \A s \in Requests \ {r} : SameTasks(s)
    BY <1>3, <1>4, RunTaskOf
  <1>6. \A s \in Requests : SameFlags(s)
    BY QuietFlags DEF Quiet, SameLife, Keeps, SameFlags
  <1>7. \A s \in Requests : /\ Responses(s)' = Responses(s)
                            /\ Responses(s)' <= Responses(s)
    BY <1>1, <1>2, SameResponses
  <1>8. /\ Life(r) /\ Begun(r) /\ ~Over(r) /\ r \notin m_activeJobs
        /\ req[r].started /\ ~Queued("respondForFile", r)
        /\ curl[r].state # "removed"
        /\ req[r].m_actionAfterInvoke = "StartTransfer" => Responses(r) = 0
    BY <1>5 DEF LifeInv, Life, Begun, Over
  <1>9. /\ curl[r].state \in {"none", "running", "over"}
        /\ h = NoHandle => curl[r].state = "none"
        /\ h # NoHandle => InCurl(r) /\ m_clientMaps[h] = {r} /\ h \in Handles
    <2>1. curl[r].state \in {"none", "running", "over"}
      BY <1>0, <1>8 DEF Transfer
    <2> QED
      BY <1>8, <2>1 DEF Life, InCurl
  <1>10. ASSUME NEW s \in Requests \ {r} PROVE Calm(s)
    <2>1. Life(s)
      BY DEF LifeInv
    <2>2. curl'[s].state = curl[s].state
      BY <1>0, <1>1
    <2>3. InCurl(s) => m_clientMaps'[m_curlHandle[s]] = m_clientMaps[m_curlHandle[s]]
      <3>1. CASE h = NoHandle
        BY <1>1, <3>1
      <3>2. CASE h # NoHandle /\ InCurl(s)
        <4>1. m_clientMaps[m_curlHandle[s]] = {s} /\ m_curlHandle[s] \in Handles
          BY <1>0, <2>1, <3>2 DEF Life
        <4>2. m_curlHandle[s] # h
          BY <1>9, <3>2, <4>1
        <4> QED
          BY <1>0, <1>1, <3>2, <4>1, <4>2
      <3> QED
        BY <3>1, <3>2
    <2>4. SamePlace(s)
      BY <1>1, <1>2, <2>2, <2>3 DEF SamePlace
    <2> QED
      BY <1>2, <1>5, <1>6, <1>7, <2>4 DEF Calm, Over
  <1>11. /\ ~InCurl(r)' /\ (curl'[r].state = "none" => m_curlHandle'[r] = NoHandle)
    <2>1. CASE h = NoHandle
      BY <1>1, <1>2, <1>9, <2>1 DEF InCurl
    <2>2. CASE h # NoHandle
      <3>1. curl'[r].state = "removed"
        BY <1>0, <1>1, <2>2 DEF Transfer
      <3> QED
        BY <3>1 DEF InCurl
    <2> QED
      BY <2>1, <2>2
  <1>12. /\ req'[r].started /\ r \notin m_activeJobs'
         /\ ~Queued("respondForFile", r)'
         /\ req'[r].m_actionAfterInvoke = "StartTransfer" => Responses(r)' = 0
    BY <1>1, <1>5, <1>6, <1>7, <1>8 DEF SameFlags
  <1>13. Life(r)'
    BY <1>5, <1>11, <1>12 DEF Life
  <1>14. Mapped'
    <2> SUFFICES ASSUME NEW g \in Handles, m_clientMaps'[g] # {}
                 PROVE  \E s \in Requests : /\ m_clientMaps'[g] = {s}
                                            /\ m_curlHandle'[s] = g /\ InCurl(s)'
      BY DEF Mapped
    <2>1. m_clientMaps'[g] = m_clientMaps[g] /\ g # h
      BY <1>0, <1>1, RequestsAssumption
    <2>2. PICK s \in Requests :
            m_clientMaps[g] = {s} /\ m_curlHandle[s] = g /\ InCurl(s)
      BY <1>0, <2>1 DEF Mapped
    <2>3. s # r
      BY <2>1, <2>2
    <2>4. curl'[s].state = curl[s].state /\ m_curlHandle'[s] = g
      BY <1>0, <1>1, <1>2, <2>2, <2>3
    <2> QED
      BY <2>1, <2>2, <2>4 DEF InCurl
  <1> QED
    BY <1>3, <1>10, <1>13, <1>14, OneMoves

\* LifeInv is inductive.
LEMMA LifeStep == Types /\ Types' /\ LifeInv /\ [Next]_vars => LifeInv'
  <1> SUFFICES ASSUME Types, Types', LifeInv, [Next]_vars PROVE LifeInv'
    OBVIOUS
  <1>1. CASE UNCHANGED vars
    <2>1. UNCHANGED <<batch, m_taskQueue, m_clientMaps, m_activeJobs, m_curlHandle,
                      curl, req, worker, mainQueue, owed>>
      BY <1>1 DEF vars, schedVars, clientVars
    <2>2. Ordered(Queue') /\ \A s \in Requests : SameTasks(s)
      BY <2>1, TasksKept, KeptTasks DEF LifeInv
    <2>3. \A s \in Requests : Responses(s)' <= Responses(s)
      BY <2>1, SameResponses
    <2>4. \A s \in Requests : Calm(s)
      BY <2>1, <2>2, <2>3 DEF Calm, SameFlags, SamePlace, Finishing, Over
    <2> QED
      BY <2>1, <2>2, <2>4, CalmInv
  <1>2. CASE MainThread
    <2>1. CASE RunRelease \/ RunClient \/ RunCancel
      BY <2>1, CalmSteps
    <2>2. ASSUME NEW r \in Requests, CancelEnd(r) PROVE LifeInv'
      BY <2>2, CancelLife
    <2> QED
      BY <1>2, <2>1, <2>2 DEF MainThread
  <1>3. CASE TakeTasks
    BY <1>3, CalmSteps
  <1>4. CASE RunTask
    <2>1. CASE \/ PauseChange \/ RunDidCancel \/ RunDidComplete \/ FinishNow
               \/ SetCompleted \/ PauseInCallback \/ TestShouldSuspend
      BY <2>1, CalmSteps
    <2>2. CASE RespondForFile
      BY <2>2, RespondLife
    <2>3. CASE StartTransfer
      BY <2>3, StartTransferLife
    <2>4. CASE StartTransferFails
      BY <2>4, StartFailsLife
    <2>5. CASE Finalize
      BY <2>5, FinalizeLife
    <2>6. CASE FinishLater
      BY <2>6, FinishLaterLife
    <2> QED
      BY <1>4, <2>1, <2>2, <2>3, <2>4, <2>5, <2>6 DEF RunTask
  <1>5. ASSUME NEW r \in Requests, Owner(r) PROVE LifeInv'
    <2>1. CASE Start(r)
      BY <2>1, StartLife
    <2>2. CASE (\E paused \in BOOLEAN : SetRequestPaused(r, paused)) \/ Cancel(r)
      BY <2>2, CalmSteps
    <2>3. CASE CompleteDidReceiveResponse(r)
      BY <2>3, AnswerLife
    <2> QED
      BY <1>5, <2>1, <2>2, <2>3 DEF Owner
  <1>6. ASSUME NEW r \in Requests, Perform(r) PROVE LifeInv'
    <2>1. CASE \E last, multipart \in BOOLEAN : DidReceiveHeader(r, last, multipart)
      BY <2>1, CalmSteps
    <2>2. ASSUME NEW part \in BOOLEAN, DidReceiveData(r, part) PROVE LifeInv'
      BY <2>2, DataLife
    <2>3. ASSUME NEW how \in Result, TransferDone(r, how) PROVE LifeInv'
      BY <2>3, DoneLife
    <2> QED
      BY <1>6, <2>1, <2>2, <2>3 DEF Perform
  <1> QED
    BY <1>1, <1>2, <1>3, <1>4, <1>5, <1>6 DEF Next

\* It holds before anything has started.
LEMMA InitLife == Init => LifeInv
  <1> SUFFICES ASSUME Init PROVE LifeInv
    OBVIOUS
  <1>1. /\ batch = <<>> /\ m_taskQueue = <<>> /\ mainQueue = <<>>
        /\ m_activeJobs = {} /\ worker = [at |-> "idle"]
        /\ m_clientMaps = [h \in Handles |-> {}]
        /\ m_curlHandle = [r \in Requests |-> NoHandle]
        /\ owed = [r \in Requests |-> 0]
    BY DEF Init
  <1>2. \A r \in Requests : curl[r].state = "none"
    BY DEF Init
  <1>3. \A r \in Requests : req[r].m_actionAfterInvoke = "None"
    BY DEF Init
  <1>4. Tasks = {} /\ Ordered(Queue)
    <2>1. QueueTypes
      BY InitTypes DEF Types
    <2>2. Queue = <<>>
      BY <1>1, ConcatEmptySeq, EmptySeq DEF Queue
    <2>3. Tasks = Range(<<>>)
      BY <2>1, <2>2, QueueIsTasks
    <2> QED
      BY <2>2, <2>3 DEF Range, Ordered
  <1>5. \A do, r : ~Queued(do, r)
    BY <1>4 DEF Queued
  <1>6. \A r \in Requests : Responses(r) = 0
    BY <1>1, HitsEmpty DEF Responses
  <1>7. \A r \in Requests : ~Over(r) /\ ~Begun(r) /\ ~InCurl(r)
    BY <1>1, <1>2, <1>3, <1>5 DEF Over, Begun, Finishing, InCurl
  <1>8. \A r \in Requests : Life(r)
    BY <1>1, <1>2, <1>3, <1>5, <1>6, <1>7 DEF Life
  <1>9. Mapped
    BY <1>1 DEF Mapped
  <1> QED
    BY <1>4, <1>8, <1>9 DEF LifeInv

\* The way of every request holds for any number of requests and handles, and
\* with it the assertions on m_clientMaps: a handle that libcurl has is the one
\* of the only client the map gives for it, and finalizeTransfer finds it there.
THEOREM HandlesAreTheirs == Spec => []HandlesAreMapped
  <1>1. Types /\ LifeInv => HandlesAreMapped
    <2> SUFFICES ASSUME Types, LifeInv PROVE HandlesAreMapped
      OBVIOUS
    <2>1. ASSUME NEW h \in Handles, NEW r \in m_clientMaps[h]
          PROVE  m_curlHandle[r] = h
      BY <2>1 DEF LifeInv, Mapped
    <2>2. ASSUME NEW r \in Requests,
                 \/ InCurl(r)
                 \/ m_curlHandle[r] # NoHandle /\ Queued("finalize", r)
          PROVE  m_curlHandle[r] # NoHandle /\ m_clientMaps[m_curlHandle[r]] = {r}
      <3>1. Life(r) /\ curl[r].state \in {"none", "running", "over", "removed"}
        BY DEF LifeInv, Types, TransferTypes, Transfer
      <3>2. InCurl(r)
        BY <2>2, <3>1 DEF Life, Over, InCurl
      <3> QED
        BY <3>1, <3>2 DEF Life
    <2> QED
      BY <2>1, <2>2 DEF HandlesAreMapped, InCurl, Queued
  <1> QED
    BY <1>1, InitTypes, TypesStep, InitLife, LifeStep, PTL DEF Spec

(***************************************************************************)
(* The balance of retain() and release().                                  *)
(***************************************************************************)

\* ReleasesDue(r) in parts: r is active, is to be finalized, is being
\* completed by the curl thread, or its release() is posted.
Active(r) == IF r \in m_activeJobs THEN 1 ELSE 0
FinalizeOf(r) == {t \in Task : t.do = "finalize" /\ t.r = r}
Fins(r) == Hits(m_taskQueue, FinalizeOf(r)) + Hits(batch, FinalizeOf(r))
EndingIn(w, r) ==
    IF w.at \in {"complete", "completed"}
      THEN IF w.r = r /\ w.release THEN 1 ELSE 0
      ELSE 0
Posted(r) == Hits(mainQueue, {Release(r)})
Due(r) == Active(r) + Fins(r) + EndingIn(worker, r) + Posted(r)

Balanced == retains = [r \in Requests |-> Due(r)]

\* Each part is a number.
LEMMA CountsAreNumbers ==
    ASSUME NEW q \in Seq(Task), NEW p \in Seq(Task), NEW m \in Seq(MainTask),
           NEW w, NEW r
    PROVE  /\ Hits(q, FinalizeOf(r)) \in Nat
           /\ Hits(q, FinalizeOf(r)) + Hits(p, FinalizeOf(r)) \in Nat
           /\ EndingIn(w, r) \in Nat
           /\ Hits(m, {Release(r)}) \in Nat
  <1>1. Hits(q, FinalizeOf(r)) \in Nat /\ Hits(p, FinalizeOf(r)) \in Nat
    BY HitsType
  <1>2. Hits(m, {Release(r)}) \in Nat
    BY HitsType
  <1>3. EndingIn(w, r) \in Nat
    BY DEF EndingIn
  <1> QED
    BY <1>1, <1>2, <1>3

\* The parts are numbers, before a step ...
LEMMA DueTypes ==
    ASSUME Types, NEW r \in Requests
    PROVE  /\ Active(r) \in Nat /\ Fins(r) \in Nat
           /\ EndingIn(worker, r) \in Nat /\ Posted(r) \in Nat
           /\ Due(r) \in Nat
  <1>1. Active(r) \in Nat /\ Fins(r) \in Nat
    BY CountsAreNumbers DEF Types, QueueTypes, Active, Fins
  <1>2. EndingIn(worker, r) \in Nat /\ Posted(r) \in Nat
    BY CountsAreNumbers DEF Types, QueueTypes, Posted
  <1> QED
    BY <1>1, <1>2 DEF Due

\* and after it.
LEMMA DueTypesAfter ==
    ASSUME Types', NEW r \in Requests
    PROVE  /\ Active(r)' \in Nat /\ Fins(r)' \in Nat
           /\ EndingIn(worker', r) \in Nat /\ Posted(r)' \in Nat
  <1>0. /\ m_taskQueue' \in Seq(Task) /\ batch' \in Seq(Task)
        /\ mainQueue' \in Seq(MainTask)
    BY DEF Types, QueueTypes
  <1>1. Hits(m_taskQueue', FinalizeOf(r)) + Hits(batch', FinalizeOf(r)) \in Nat
    BY <1>0, CountsAreNumbers
  <1>2. EndingIn(worker', r) \in Nat /\ Hits(mainQueue', {Release(r)}) \in Nat
    BY <1>0, CountsAreNumbers
  <1> QED
    BY <1>1, <1>2 DEF Active, Fins, FinalizeOf, Posted, Release

\* A step that moves the duty from one to the other keeps the balance ...
LEMMA BalanceKept ==
    ASSUME Balanced, UNCHANGED retains,
           \A s \in Requests : Due(s)' = Due(s)
    PROVE  Balanced'
  BY DEF Balanced

\* (nobody's duty changes);
LEMMA DueKept ==
    ASSUME Balanced, UNCHANGED retains,
           \A s \in Requests :
             /\ Active(s)' = Active(s) /\ Fins(s)' = Fins(s)
             /\ EndingIn(worker', s) = EndingIn(worker, s) /\ Posted(s)' = Posted(s)
    PROVE  Balanced'
  <1>1. \A s \in Requests : Due(s)' = Due(s)
    BY DEF Due, EndingIn
  <1> QED
    BY <1>1, BalanceKept

\* a retain() or a release() changes both sides.
LEMMA BalanceMoves ==
    ASSUME Types, Balanced, NEW r \in Requests, NEW n \in {1, -1},
           retains' = [retains EXCEPT ![r] = @ + n],
           \A s \in Requests : Due(s)' = Due(s) + IF s = r THEN n ELSE 0
    PROVE  Balanced'
  <1>1. \A s \in Requests : Due(s) \in Nat
    BY DueTypes
  <1>2. \A s \in Requests : retains'[s] = Due(s)'
    BY <1>1 DEF Balanced
  <1>3. DOMAIN retains' = Requests /\ retains' = [s \in DOMAIN retains' |-> retains'[s]]
    BY DEF Balanced
  <1>4. retains' = [s \in Requests |-> Due(s)']
    BY <1>2, <1>3
  <1> QED
    BY <1>4 DEF Balanced

\* Tasks that are queued, ...
LEMMA TaskCount ==
    ASSUME NEW q \in Seq(Task), NEW t \in Task, NEW s
    PROVE  Hits(Append(q, t), FinalizeOf(s))
             = Hits(q, FinalizeOf(s)) + IF t.do = "finalize" /\ t.r = s THEN 1 ELSE 0
  <1>1. Hits(Append(q, t), FinalizeOf(s))
          = Hits(q, FinalizeOf(s)) + IF t \in FinalizeOf(s) THEN 1 ELSE 0
    BY HitsAppend
  <1>2. t \in FinalizeOf(s) <=> t.do = "finalize" /\ t.r = s
    BY DEF FinalizeOf
  <1> QED
    BY <1>1, <1>2

\* seen from the request that is to be finalized,
LEMMA FinsQueued ==
    ASSUME Types, NEW t \in Task, m_taskQueue' = Append(m_taskQueue, t),
           UNCHANGED batch, NEW s \in Requests
    PROVE  Fins(s)' = Fins(s) + IF t.do = "finalize" /\ t.r = s THEN 1 ELSE 0
  <1>1. /\ Hits(m_taskQueue, FinalizeOf(s)) \in Nat
        /\ Hits(batch, FinalizeOf(s)) \in Nat
    BY CountsAreNumbers DEF Types, QueueTypes
  <1>2. Hits(m_taskQueue', FinalizeOf(s)) = Hits(m_taskQueue, FinalizeOf(s))
          + IF t.do = "finalize" /\ t.r = s THEN 1 ELSE 0
    BY TaskCount DEF Types, QueueTypes
  <1>3. Hits(m_taskQueue', FinalizeOf(s)) + Hits(batch', FinalizeOf(s))
          = (Hits(m_taskQueue, FinalizeOf(s)) + Hits(batch, FinalizeOf(s)))
              + IF t.do = "finalize" /\ t.r = s THEN 1 ELSE 0
    BY <1>1, <1>2
  <1> QED
    BY <1>3 DEF Fins, FinalizeOf

\* run,
LEMMA BatchCount ==
    ASSUME Types, NEW do, Dequeues(do), NEW s \in Requests
    PROVE  Hits(batch', FinalizeOf(s)) = Hits(batch, FinalizeOf(s))
             - IF do = "finalize" /\ Head(batch).r = s THEN 1 ELSE 0
  <1>0. /\ batch \in Seq(Task) /\ batch # <<>> /\ batch' = Tail(batch)
        /\ Head(batch) \in Task /\ Head(batch).do = do
    BY DequeuesFacts DEF Types, QueueTypes
  <1>1. Hits(Tail(batch), FinalizeOf(s)) = Hits(batch, FinalizeOf(s))
          - IF Head(batch) \in FinalizeOf(s) THEN 1 ELSE 0
    BY <1>0, HitsTail
  <1>2. Head(batch) \in FinalizeOf(s) <=> do = "finalize" /\ Head(batch).r = s
    BY <1>0 DEF FinalizeOf
  <1> QED
    BY <1>0, <1>1, <1>2

\* seen from that request,
LEMMA FinsRun ==
    ASSUME Types, NEW do, Dequeues(do), UNCHANGED m_taskQueue, NEW s \in Requests
    PROVE  Fins(s)' = Fins(s)
             - IF do = "finalize" /\ Head(batch).r = s THEN 1 ELSE 0
  <1>1. /\ Hits(m_taskQueue, FinalizeOf(s)) \in Nat
        /\ Hits(batch, FinalizeOf(s)) \in Nat
    BY CountsAreNumbers DEF Types, QueueTypes
  <1>2. Hits(m_taskQueue', FinalizeOf(s)) + Hits(batch', FinalizeOf(s))
          = (Hits(m_taskQueue, FinalizeOf(s)) + Hits(batch, FinalizeOf(s)))
              - IF do = "finalize" /\ Head(batch).r = s THEN 1 ELSE 0
    BY <1>1, BatchCount
  <1> QED
    BY <1>2 DEF Fins, FinalizeOf

\* taken,
LEMMA FinsTaken ==
    ASSUME Types, TakeTasks, NEW s \in Requests
    PROVE  Fins(s)' = Fins(s)
  <1>1. /\ Hits(m_taskQueue, FinalizeOf(s)) \in Nat
        /\ Hits(batch, FinalizeOf(s)) \in Nat
    BY CountsAreNumbers DEF Types, QueueTypes
  <1>2. /\ batch = <<>> /\ batch' = m_taskQueue /\ m_taskQueue' = <<>>
    BY DEF TakeTasks
  <1>3. Hits(<<>>, FinalizeOf(s)) = 0
    BY HitsEmpty
  <1>4. Hits(m_taskQueue', FinalizeOf(s)) + Hits(batch', FinalizeOf(s))
          = Hits(m_taskQueue, FinalizeOf(s)) + Hits(batch, FinalizeOf(s))
    BY <1>1, <1>2, <1>3
  <1> QED
    BY <1>4 DEF Fins, FinalizeOf

\* kept,
LEMMA FinsKept ==
    ASSUME UNCHANGED <<m_taskQueue, batch>>, NEW s \in Requests
    PROVE  Fins(s)' = Fins(s)
  BY DEF Fins

\* or moved by finalizeTransfer from the active ones.
LEMMA FinsMoved ==
    ASSUME Types, Types', NEW r \in Requests, NEW how \in Result \cup {"cancel"},
           FinalizeTransfer(r, how),
           UNCHANGED batch \/ Dequeues("startTransfer"), NEW s \in Requests
    PROVE  Active(s)' + Fins(s)' = Active(s) + Fins(s)
  <1> DEFINE t == [do |-> "finalize", r |-> r, how |-> how]
             q == Hits(m_taskQueue, FinalizeOf(s))
             b == Hits(batch, FinalizeOf(s))
  <1>1. q \in Nat /\ b \in Nat /\ m_taskQueue \in Seq(Task)
    BY CountsAreNumbers DEF Types, QueueTypes
  <1>2. Hits(batch', FinalizeOf(s)) = b
    <2>1. CASE Dequeues("startTransfer")
      BY <1>1, <2>1, BatchCount
    <2> QED
      BY <2>1
  <1>3. CASE r \in m_activeJobs
    <2>1. m_taskQueue' = Append(m_taskQueue, t) /\ m_activeJobs' = m_activeJobs \ {r}
      BY <1>3 DEF FinalizeTransfer
    <2>2. t \in Task /\ t.do = "finalize" /\ t.r = r
      BY NewTasks
    <2> HIDE DEF t
    <2>3. Hits(m_taskQueue', FinalizeOf(s)) = q + IF r = s THEN 1 ELSE 0
      BY <1>1, <2>1, <2>2, TaskCount
    <2> HIDE DEF q, b
    <2>4. Active(s)' + (Hits(m_taskQueue', FinalizeOf(s)) + Hits(batch', FinalizeOf(s)))
            = Active(s) + (q + b)
      BY <1>1, <1>2, <1>3, <2>1, <2>3 DEF Active
    <2> QED
      BY <2>4 DEF Fins, FinalizeOf, q, b
  <1>4. CASE r \notin m_activeJobs
    <2>1. m_taskQueue' = m_taskQueue /\ m_activeJobs' = m_activeJobs
      BY <1>4 DEF FinalizeTransfer
    <2>2. Active(s)' + (Hits(m_taskQueue', FinalizeOf(s)) + Hits(batch', FinalizeOf(s)))
            = Active(s) + (q + b)
      BY <1>2, <2>1 DEF Active
    <2> QED
      BY <2>2 DEF Fins, FinalizeOf
  <1> QED
    BY <1>3, <1>4

\* Functions that are posted.
LEMMA PostedOther ==
    ASSUME NEW q \in Seq(MainTask), NEW t \in MainTask, t.do # "release", NEW s
    PROVE  /\ Hits(Append(q, t), {Release(s)}) = Hits(q, {Release(s)})
           /\ Append(q, t) \in Seq(MainTask)
  <1>1. t # Release(s)
    BY DEF Release
  <1> QED
    BY <1>1, OtherPosted, AppendProperties

\* A release() counts for its request.
LEMMA PostedRelease ==
    ASSUME NEW q \in Seq(MainTask), NEW r \in Requests, NEW s
    PROVE  /\ Hits(Append(q, Release(r)), {Release(s)})
                = Hits(q, {Release(s)}) + IF s = r THEN 1 ELSE 0
           /\ Append(q, Release(r)) \in Seq(MainTask)
  <1>1. Release(r) = Release(s) <=> s = r
    BY DEF Release
  <1>2. Release(r) \in MainTask
    BY NewMainTasks
  <1>3. Hits(Append(q, Release(r)), {Release(s)})
          = Hits(q, {Release(s)}) + IF Release(r) = Release(s) THEN 1 ELSE 0
    BY <1>2, PostedCount
  <1> QED
    BY <1>1, <1>2, <1>3, AppendProperties

\* What the end of a transfer does about the release().
LEMMA EndReleases ==
    ASSUME Types, NEW r \in Requests, NEW how \in Result, worker.at = "idle"
    PROVE  /\ DidCancelTransfer(r, FALSE) \/ DidCompleteTransfer(r, how, FALSE) =>
                \A s \in Requests :
                  /\ EndingIn(worker', s) = EndingIn(worker, s)
                  /\ Posted(s)' = Posted(s)
           /\ DidCancelTransfer(r, TRUE) \/ DidCompleteTransfer(r, how, TRUE) =>
                \A s \in Requests :
                  EndingIn(worker', s) + Posted(s)'
                    = EndingIn(worker, s) + Posted(s) + IF s = r THEN 1 ELSE 0
  <1> DEFINE c == Client(r, [is |-> "cancel"])
             m == Append(mainQueue, c)
  <1>0. mainQueue \in Seq(MainTask)
    BY DEF Types, QueueTypes
  <1>1. c \in MainTask /\ c.do # "release"
    BY NewMainTasks, NewEvents DEF Client
  <1> HIDE DEF c
  <1>2. m \in Seq(MainTask) /\ \A s : Hits(m, {Release(s)}) = Hits(mainQueue, {Release(s)})
    BY <1>0, <1>1, PostedOther
  <1>3. \A s : Hits(Append(m, Release(r)), {Release(s)})
                 = Hits(m, {Release(s)}) + IF s = r THEN 1 ELSE 0
    BY <1>2, PostedRelease
  <1>4. /\ m \o ReleaseIf(TRUE, r) = Append(m, Release(r))
        /\ m \o ReleaseIf(FALSE, r) = m
    BY <1>2, ReleasePosted
  <1> HIDE DEF m
  <1>5. \A s \in Requests : EndingIn(worker, s) = 0 /\ Hits(mainQueue, {Release(s)}) \in Nat
    BY <1>0, HitsType DEF EndingIn
  <1>6. ASSUME DidCancelTransfer(r, FALSE), NEW s \in Requests
        PROVE  /\ EndingIn(worker', s) = EndingIn(worker, s)
               /\ Posted(s)' = Posted(s)
    <2>1. mainQueue' = m /\ worker' = worker
      BY <1>4, <1>6 DEF DidCancelTransfer, c, m
    <2> QED
      BY <1>2, <2>1 DEF Posted, Release
  <1>7. ASSUME DidCancelTransfer(r, TRUE), NEW s \in Requests
        PROVE  EndingIn(worker', s) + Posted(s)'
                 = EndingIn(worker, s) + Posted(s) + IF s = r THEN 1 ELSE 0
    <2>1. mainQueue' = Append(m, Release(r)) /\ worker' = worker
      BY <1>4, <1>7 DEF DidCancelTransfer, c, m
    <2>2. Hits(mainQueue', {Release(s)})
            = Hits(mainQueue, {Release(s)}) + IF s = r THEN 1 ELSE 0
      BY <1>2, <1>3, <2>1
    <2>3. EndingIn(worker', s) + Hits(mainQueue', {Release(s)})
            = EndingIn(worker, s) + Hits(mainQueue, {Release(s)})
                + IF s = r THEN 1 ELSE 0
      BY <1>5, <2>1, <2>2
    <2> QED
      BY <2>3 DEF Posted, Release
  <1>8. ASSUME ~req[r].m_cancelled, DidCompleteTransfer(r, how, FALSE),
               NEW s \in Requests
        PROVE  /\ EndingIn(worker', s) = EndingIn(worker, s)
               /\ Posted(s)' = Posted(s)
    <2>1. /\ mainQueue' = mainQueue
          /\ worker' = [at |-> "complete", r |-> r, how |-> how, release |-> FALSE]
      BY <1>8 DEF DidCompleteTransfer
    <2>2. EndingIn(worker', s) = 0
      BY <2>1 DEF EndingIn
    <2> QED
      BY <1>5, <2>1, <2>2 DEF Posted
  <1>9. ASSUME ~req[r].m_cancelled, DidCompleteTransfer(r, how, TRUE),
               NEW s \in Requests
        PROVE  EndingIn(worker', s) + Posted(s)'
                 = EndingIn(worker, s) + Posted(s) + IF s = r THEN 1 ELSE 0
    <2>1. /\ mainQueue' = mainQueue
          /\ worker' = [at |-> "complete", r |-> r, how |-> how, release |-> TRUE]
      BY <1>9 DEF DidCompleteTransfer
    <2>2. EndingIn(worker', s) = IF s = r THEN 1 ELSE 0
      BY <2>1 DEF EndingIn
    <2>3. EndingIn(worker', s) + Hits(mainQueue', {Release(s)})
            = EndingIn(worker, s) + Hits(mainQueue, {Release(s)})
                + IF s = r THEN 1 ELSE 0
      BY <1>5, <2>1, <2>2
    <2> QED
      BY <2>3 DEF Posted, Release
  <1>10. req[r].m_cancelled =>
           /\ DidCompleteTransfer(r, how, FALSE) => DidCancelTransfer(r, FALSE)
           /\ DidCompleteTransfer(r, how, TRUE) => DidCancelTransfer(r, TRUE)
    BY DEF DidCompleteTransfer
  <1> QED
    BY <1>6, <1>7, <1>8, <1>9, <1>10

\* add() is called for a request that is not active.
LEMMA AddBalance ==
    ASSUME Types, Types', Balanced, NEW r \in Requests, Add(r), r \notin m_activeJobs,
           UNCHANGED <<worker, mainQueue>>
    PROVE  Balanced'
  <1> DEFINE t == [do |-> "startTransfer", r |-> r]
  <1>1. t \in Task /\ t.do = "startTransfer"
    BY NewTasks
  <1>2. /\ m_taskQueue' = Append(m_taskQueue, t) /\ UNCHANGED batch
        /\ m_activeJobs' = m_activeJobs \cup {r}
        /\ retains' = [retains EXCEPT ![r] = @ + 1]
    BY DEF Add
  <1> HIDE DEF t
  <1>3. ASSUME NEW s \in Requests
        PROVE  Due(s)' = Due(s) + IF s = r THEN 1 ELSE 0
    <2>1. Fins(s)' = Fins(s)
      <3>1. Fins(s)' = Fins(s) + IF t.do = "finalize" /\ t.r = s THEN 1 ELSE 0
        BY <1>1, <1>2, FinsQueued
      <3> QED
        BY <1>1, <3>1, DueTypes
    <2>2. Posted(s)' = Posted(s) /\ EndingIn(worker, s)' = EndingIn(worker, s)
      BY DEF Posted
    <2>3. Active(s)' = Active(s) + IF s = r THEN 1 ELSE 0
      BY <1>2 DEF Active
    <2>4. /\ Active(s) \in Nat /\ Fins(s) \in Nat
          /\ EndingIn(worker, s) \in Nat /\ Posted(s) \in Nat
      BY DueTypes
    <2>5. Active(s)' + Fins(s)' + EndingIn(worker, s)' + Posted(s)'
            = (Active(s) + Fins(s) + EndingIn(worker, s) + Posted(s))
                + IF s = r THEN 1 ELSE 0
      BY <2>1, <2>2, <2>3, <2>4
    <2> QED
      BY <2>5 DEF Due
  <1> QED
    BY <1>2, <1>3, BalanceMoves

\* finalizeTransfer, called by either thread or after a failed start.
LEMMA FinalizeBalance ==
    ASSUME Types, Types', Balanced, NEW r \in Requests,
           NEW how \in Result \cup {"cancel"}, FinalizeTransfer(r, how),
           UNCHANGED batch \/ Dequeues("startTransfer"),
           \A s \in Requests : EndingIn(worker', s) = EndingIn(worker, s),
           UNCHANGED <<mainQueue, retains>>
    PROVE  Balanced'
  <1>1. ASSUME NEW s \in Requests PROVE Due(s)' = Due(s)
    <2>1. Active(s)' + Fins(s)' = Active(s) + Fins(s)
      BY FinsMoved
    <2>2. Posted(s)' = Posted(s) /\ EndingIn(worker', s) = EndingIn(worker, s)
      BY DEF Posted
    <2>3. Active(s)' + Fins(s)' + EndingIn(worker, s)' + Posted(s)'
            = Active(s) + Fins(s) + EndingIn(worker, s) + Posted(s)
      BY <2>1, <2>2
    <2> QED
      BY <2>3 DEF Due
  <1> QED
    BY <1>1, BalanceKept

\* A task that is not the finalize task is queued.
LEMMA CallBalance ==
    ASSUME Types, Types', Balanced, NEW t \in Task, t.do # "finalize",
           CallOnWorkerThread(t), UNCHANGED <<worker, mainQueue>>
    PROVE  Balanced'
  <1>1. \A s \in Requests : Fins(s)' = Fins(s)
    <2>1. ASSUME NEW s \in Requests PROVE Fins(s)' = Fins(s)
      <3>1. Fins(s)' = Fins(s) + IF t.do = "finalize" /\ t.r = s THEN 1 ELSE 0
        BY FinsQueued DEF CallOnWorkerThread
      <3> QED
        BY <3>1, DueTypes
    <2> QED
      BY <2>1
  <1>2. \A s \in Requests :
          /\ Active(s)' = Active(s) /\ EndingIn(worker', s) = EndingIn(worker, s)
          /\ Posted(s)' = Posted(s)
    BY DEF Active, Posted, CallOnWorkerThread
  <1> QED
    BY <1>1, <1>2, DueKept DEF CallOnWorkerThread

\* A task that is not the finalize task is run, and posts no release().
LEMMA RunBalance ==
    ASSUME Types, Types', Balanced, NEW do, do # "finalize", Dequeues(do),
           UNCHANGED <<m_taskQueue, m_activeJobs, retains>>,
           \A s \in Requests :
             /\ EndingIn(worker', s) = EndingIn(worker, s)
             /\ Posted(s)' = Posted(s)
    PROVE  Balanced'
  <1>1. ASSUME NEW s \in Requests PROVE Fins(s)' = Fins(s)
    <2>1. Fins(s)' = Fins(s) - IF do = "finalize" /\ Head(batch).r = s THEN 1 ELSE 0
      BY FinsRun
    <2> QED
      BY <2>1, DueTypes
  <1>2. \A s \in Requests : Active(s)' = Active(s)
    BY DEF Active
  <1> QED
    BY <1>1, <1>2, DueKept

\* Nothing is run or queued.
LEMMA IdleBalance ==
    ASSUME Types, Types', Balanced,
           UNCHANGED <<m_taskQueue, batch, m_activeJobs, retains>>,
           \A s \in Requests :
             /\ EndingIn(worker', s) = EndingIn(worker, s)
             /\ Posted(s)' = Posted(s)
    PROVE  Balanced'
  <1>1. \A s \in Requests : Active(s)' = Active(s) /\ Fins(s)' = Fins(s)
    BY DEF Active, Fins
  <1> QED
    BY <1>1, DueKept

\* The duty to release is passed on by the curl thread.
LEMMA EndMoved ==
    ASSUME Types, Types', NEW s \in Requests,
           Active(s)' = Active(s), Fins(s)' = Fins(s),
           EndingIn(worker', s) + Posted(s)' = EndingIn(worker, s) + Posted(s)
    PROVE  Due(s)' = Due(s)
  <1>1. /\ Active(s) \in Nat /\ Fins(s) \in Nat
        /\ EndingIn(worker, s) \in Nat /\ Posted(s) \in Nat
        /\ EndingIn(worker', s) \in Nat /\ Posted(s)' \in Nat
    BY DueTypes, DueTypesAfter
  <1>2. Active(s)' + Fins(s)' + EndingIn(worker', s) + Posted(s)'
          = Active(s) + Fins(s) + EndingIn(worker, s) + Posted(s)
    BY <1>1
  <1> QED
    BY <1>2 DEF Due, EndingIn

\* The release() that a completed transfer owes is posted.
LEMMA ReleaseBalance ==
    ASSUME Types, Types', Balanced, NEW m \in Seq(MainTask),
           worker.at \in {"complete", "completed"}, worker' = [at |-> "idle"],
           mainQueue' = m \o ReleaseIf(worker.release, worker.r),
           \A s \in Requests : Hits(m, {Release(s)}) = Hits(mainQueue, {Release(s)}),
           UNCHANGED <<m_taskQueue, batch, m_activeJobs, retains>>
    PROVE  Balanced'
  <1>0. worker.r \in Requests /\ mainQueue \in Seq(MainTask)
    BY WorkerFacts DEF Types, QueueTypes
  <1>1. mainQueue' = IF worker.release THEN Append(m, Release(worker.r)) ELSE m
    BY <1>0, ReleasePosted
  <1>2. ASSUME NEW s \in Requests PROVE Due(s)' = Due(s)
    <2>1. Active(s)' = Active(s) /\ Fins(s)' = Fins(s)
      BY DEF Active, Fins
    <2>2. Hits(mainQueue, {Release(s)}) \in Nat
      BY <1>0, HitsType
    <2>3. Hits(Append(m, Release(worker.r)), {Release(s)})
            = Hits(m, {Release(s)}) + IF s = worker.r THEN 1 ELSE 0
      BY <1>0, PostedRelease
    <2>4. EndingIn(worker', s) = 0
      BY DEF EndingIn
    <2>5. EndingIn(worker', s) + Hits(mainQueue', {Release(s)})
            = EndingIn(worker, s) + Hits(mainQueue, {Release(s)})
      <3>1. CASE worker.release
        <4>1. EndingIn(worker, s) = IF s = worker.r THEN 1 ELSE 0
          BY <3>1 DEF EndingIn
        <4> QED
          BY <1>1, <2>2, <2>3, <2>4, <3>1, <4>1
      <3>2. CASE ~worker.release
        <4>1. EndingIn(worker, s) = 0
          BY <3>2 DEF EndingIn
        <4> QED
          BY <1>1, <2>2, <2>4, <3>2, <4>1
      <3> QED
        BY <3>1, <3>2
    <2>6. EndingIn(worker', s) + Posted(s)' = EndingIn(worker, s) + Posted(s)
      BY <2>5 DEF Posted, Release
    <2> QED
      BY <2>1, <2>6, EndMoved
  <1> QED
    BY <1>2, BalanceKept

\* The main thread runs a posted function: a release() is owed no longer.
LEMMA TakenRelease ==
    ASSUME Types, NEW do, Takes(do), NEW s \in Requests
    PROVE  Posted(s)' = Posted(s)
             - IF do = "release" /\ Head(mainQueue).r = s THEN 1 ELSE 0
  <1>0. QueueTypes /\ Head(mainQueue) \in MainTask /\ Head(mainQueue).do = do
    BY TakesFacts DEF Types
  <1>1. Head(mainQueue) = Release(s) <=> do = "release" /\ Head(mainQueue).r = s
    BY <1>0 DEF MainTask, Release
  <1>2. Hits(mainQueue', {Release(s)}) = Hits(mainQueue, {Release(s)})
          - IF Head(mainQueue) = Release(s) THEN 1 ELSE 0
    BY <1>0, TakenCount
  <1>3. Hits(mainQueue', {Release(s)}) = Hits(mainQueue, {Release(s)})
          - IF do = "release" /\ Head(mainQueue).r = s THEN 1 ELSE 0
    BY <1>1, <1>2
  <1> QED
    BY <1>3 DEF Posted, Release

\* The release() that is run has its retain().
LEMMA ReleaseRuns ==
    ASSUME Types, Types', Balanced, RunRelease PROVE Balanced'
  <1>0. PICK r \in Requests : r = Head(mainQueue).r
    BY TakesFacts DEF Types, RunRelease
  <1>1. /\ Takes("release") /\ retains' = [retains EXCEPT ![r] = @ - 1]
        /\ UNCHANGED <<m_taskQueue, batch, m_activeJobs, worker>>
    BY <1>0 DEF RunRelease
  <1>2. ASSUME NEW s \in Requests
        PROVE  Due(s)' = Due(s) + IF s = r THEN -1 ELSE 0
    <2>1. Posted(s)' = Posted(s) - IF s = r THEN 1 ELSE 0
      BY <1>0, <1>1, TakenRelease
    <2>2. /\ Active(s)' = Active(s) /\ Fins(s)' = Fins(s)
          /\ EndingIn(worker, s)' = EndingIn(worker, s)
      BY <1>1 DEF Active, Fins
    <2>3. /\ Active(s) \in Nat /\ Fins(s) \in Nat
          /\ EndingIn(worker, s) \in Nat /\ Posted(s) \in Nat
      BY DueTypes
    <2>4. Active(s)' + Fins(s)' + EndingIn(worker, s)' + Posted(s)'
            = (Active(s) + Fins(s) + EndingIn(worker, s) + Posted(s))
                + IF s = r THEN -1 ELSE 0
      BY <2>1, <2>2, <2>3
    <2> QED
      BY <2>4 DEF Due
  <1>3. retains' = [retains EXCEPT ![r] = @ + (-1)]
    <2>1. retains[r] \in Nat
      BY DueTypes DEF Balanced
    <2>2. retains[r] - 1 = retains[r] + (-1)
      BY <2>1
    <2> QED
      BY <1>1, <2>2
  <1> QED
    BY <1>2, <1>3, BalanceMoves

\* The finalize task passes the duty on to the curl thread or posts it.
LEMMA FinalizeRuns ==
    ASSUME Types, Types', Balanced, Finalize PROVE Balanced'
  <1>0. PICK r \in Requests : r = Head(batch).r
    BY RunsFacts DEF Types, Finalize
  <1>1. /\ Runs("finalize") /\ Dequeues("finalize") /\ worker.at = "idle"
        /\ UNCHANGED <<m_taskQueue, m_activeJobs, retains>>
    BY DEF Finalize, Runs
  <1>2. \E how \in Result : \/ DidCancelTransfer(r, TRUE)
                            \/ DidCompleteTransfer(r, how, TRUE)
    <2>1. Head(batch).how \in Result \cup {"cancel"} /\ "ok" \in Result
      BY <1>1, RunsFacts DEF Types, Result
    <2> QED
      BY <1>0, <2>1 DEF Finalize
  <1>3. ASSUME NEW s \in Requests PROVE Due(s)' = Due(s)
    <2>1. EndingIn(worker', s) + Posted(s)'
            = EndingIn(worker, s) + Posted(s) + IF s = r THEN 1 ELSE 0
      BY <1>1, <1>2, EndReleases
    <2>2. Fins(s)' = Fins(s) - IF s = r THEN 1 ELSE 0
      BY <1>0, <1>1, FinsRun
    <2>3. Active(s)' = Active(s)
      BY <1>1 DEF Active
    <2>4. /\ Active(s) \in Nat /\ Fins(s) \in Nat
          /\ EndingIn(worker, s) \in Nat /\ Posted(s) \in Nat
          /\ EndingIn(worker', s) \in Nat /\ Posted(s)' \in Nat
      BY DueTypes, DueTypesAfter
    <2>5. Active(s)' + Fins(s)' + EndingIn(worker', s) + Posted(s)'
            = Active(s) + Fins(s) + EndingIn(worker, s) + Posted(s)
      BY <2>1, <2>2, <2>3, <2>4
    <2> QED
      BY <2>5 DEF Due, EndingIn
  <1> QED
    BY <1>1, <1>3, BalanceKept

\* The operations of the curl thread after didCompleteTransfer's first test.
LEMMA CompleteBalance ==
    ASSUME Types, Types', Balanced, FinishLater \/ FinishNow \/ SetCompleted
    PROVE  Balanced'
  <1>0. /\ mainQueue \in Seq(MainTask) /\ QueueTypes
        /\ worker.r \in Requests
    BY WorkerFacts DEF Types, QueueTypes, FinishLater, FinishNow, SetCompleted
  <1> USE DEF schedVars
  <1>1. CASE FinishLater
    <2> DEFINE m == PostResponse(worker.r)
    <2>1. /\ m \in Seq(MainTask)
          /\ \A s \in Requests : Hits(m, {Release(s)}) = Hits(mainQueue, {Release(s)})
      <3>1. Response(worker.r) \in MainTask /\ Response(worker.r).do # "release"
        BY <1>0, NewMainTasks, NewEvents DEF Response, Client
      <3>2. m = Append(mainQueue, Response(worker.r))
        BY FunctionsDiffer
      <3> HIDE DEF m
      <3> QED
        BY <1>0, <3>1, <3>2, PostedOther
    <2>2. mainQueue' = m \o ReleaseIf(worker.release, worker.r)
      BY <1>1 DEF FinishLater
    <2> HIDE DEF m
    <2>3. /\ worker.at = "complete" /\ worker' = [at |-> "idle"]
          /\ UNCHANGED <<m_taskQueue, batch, m_activeJobs, retains>>
      BY <1>1 DEF FinishLater
    <2> QED
      BY <2>1, <2>2, <2>3, ReleaseBalance
  <1>2. CASE SetCompleted
    <2>1. /\ mainQueue' = mainQueue \o ReleaseIf(worker.release, worker.r)
          /\ worker.at = "completed" /\ worker' = [at |-> "idle"]
          /\ UNCHANGED <<m_taskQueue, batch, m_activeJobs, retains>>
      BY <1>2 DEF SetCompleted
    <2> QED
      BY <1>0, <2>1, ReleaseBalance
  <1>3. CASE FinishNow
    <2> DEFINE e == [is |-> IF worker.how = "ok" THEN "complete" ELSE "fail"]
               c == Client(worker.r, e)
    <2>1. c \in MainTask /\ c.do # "release"
      BY <1>0, NewMainTasks, NewEvents DEF Client
    <2>2. /\ mainQueue' = Append(mainQueue, c)
          /\ worker' = [at |-> "completed", r |-> worker.r, release |-> worker.release]
          /\ worker.at = "complete"
          /\ UNCHANGED <<m_taskQueue, batch, m_activeJobs, retains>>
      BY <1>3 DEF FinishNow
    <2> HIDE DEF c
    <2>3. \A s \in Requests : EndingIn(worker', s) = EndingIn(worker, s)
      BY <2>2 DEF EndingIn
    <2>4. \A s \in Requests : Posted(s)' = Posted(s)
      <3>1. \A s \in Requests :
              Hits(mainQueue', {Release(s)}) = Hits(mainQueue, {Release(s)})
        BY <1>0, <2>1, <2>2, PostedOther
      <3> QED
        BY <3>1 DEF Posted, Release
    <2> QED
      BY <2>2, <2>3, <2>4, IdleBalance
  <1> QED
    BY <1>1, <1>2, <1>3

\* libcurl's callbacks post no release().
LEMMA PerformBalance ==
    ASSUME Types, Types', LifeInv, Balanced, NEW r \in Requests, Perform(r)
    PROVE  Balanced'
  <1>0. /\ mainQueue \in Seq(MainTask) /\ curl[r] \in Transfer
    BY DEF Types, QueueTypes, TransferTypes
  <1> USE DEF schedVars, clientVars
  <1>1. ASSUME NEW last \in BOOLEAN, NEW multipart \in BOOLEAN,
               DidReceiveHeader(r, last, multipart)
        PROVE  Balanced'
    <2>1. UNCHANGED <<m_taskQueue, batch, m_activeJobs, retains, worker, mainQueue>>
      BY <1>1 DEF DidReceiveHeader, Abort
    <2> QED
      BY <2>1, IdleBalance DEF Posted
  <1>2. ASSUME NEW part \in BOOLEAN, DidReceiveData(r, part) PROVE Balanced'
    <2> DEFINE c == Client(r, [is |-> "data", n |-> curl[r].sent + 1])
    <2>1. /\ UNCHANGED <<m_taskQueue, batch, m_activeJobs, retains>>
          /\ worker.at = "idle"
          /\ worker' = worker \/ worker' = [at |-> "pausing", r |-> r]
          /\ \/ UNCHANGED mainQueue
             \/ mainQueue' = Append(mainQueue, Response(r))
             \/ mainQueue' = Append(mainQueue, c)
             \/ mainQueue' = Append(Append(mainQueue, Response(r)), c)
      BY <1>2, FunctionsDiffer DEF DidReceiveData, Abort, Receives, Performs
    <2>2. c \in MainTask /\ c.do # "release"
      <3>1. curl[r].sent + 1 \in 1 .. MaxChunks
        BY <1>0, <1>2, BoundsAssumption DEF DidReceiveData, Transfer
      <3> QED
        BY <3>1, NewEvents, NewMainTasks DEF Client
    <2>3. Response(r) \in MainTask /\ Response(r).do # "release"
      BY NewMainTasks, NewEvents DEF Response, Client
    <2> HIDE DEF c
    <2>4. \A p \in Seq(MainTask) : \A s \in Requests :
            /\ Append(p, c) \in Seq(MainTask)
            /\ Append(p, Response(r)) \in Seq(MainTask)
            /\ Hits(Append(p, c), {Release(s)}) = Hits(p, {Release(s)})
            /\ Hits(Append(p, Response(r)), {Release(s)}) = Hits(p, {Release(s)})
      BY <2>2, <2>3, PostedOther
    <2>5. \A s \in Requests :
            Hits(mainQueue', {Release(s)}) = Hits(mainQueue, {Release(s)})
      BY <1>0, <2>1, <2>4
    <2>6. \A s \in Requests : Posted(s)' = Posted(s)
      BY <2>5 DEF Posted, Release
    <2>7. \A s \in Requests : EndingIn(worker', s) = EndingIn(worker, s)
      BY <2>1 DEF EndingIn
    <2> QED
      BY <2>1, <2>6, <2>7, IdleBalance
  <1>3. ASSUME NEW how \in Result, TransferDone(r, how) PROVE Balanced'
    <2>1. Life(r) /\ curl[r].state = "running"
      BY <1>3 DEF LifeInv, TransferDone, Performs
    <2>2. FinalizeTransfer(r, how)
      BY <1>3, <2>1 DEF TransferDone, Life, InCurl
    <2>3. UNCHANGED <<batch, worker, mainQueue, retains>>
      BY <1>3 DEF TransferDone
    <2> QED
      BY <2>2, <2>3, FinalizeBalance
  <1> QED
    BY <1>1, <1>2, <1>3 DEF Perform

\* The owner's calls: add() is the only retain().
LEMMA OwnerBalance ==
    ASSUME Types, Types', LifeInv, Balanced, NEW r \in Requests, Owner(r)
    PROVE  Balanced'
  <1>0. Life(r) /\ RequestTypes
    BY DEF LifeInv, Types
  <1> USE DEF schedVars, clientVars
  <1>1. CASE Start(r)
    <2>1. UNCHANGED <<worker, mainQueue>> /\ r \notin m_activeJobs
      BY <1>0, <1>1 DEF Start, Life, Begun
    <2>2. CASE Add(r)
      BY <2>1, <2>2, AddBalance
    <2>3. CASE CallOnWorkerThread([do |-> "respondForFile", r |-> r])
      BY <2>1, <2>3, NewTasks, CallBalance
    <2> QED
      BY <1>1, <2>2, <2>3 DEF Start
  <1>2. ASSUME NEW paused \in BOOLEAN, SetRequestPaused(r, paused) PROVE Balanced'
    <2>1. /\ UNCHANGED <<worker, mainQueue>>
          /\ \/ UNCHANGED schedVars
             \/ CallOnWorkerThread([do |-> "pauseChange", r |-> r])
      BY <1>2 DEF SetRequestPaused, PausedStatusChanged
    <2>2. CASE UNCHANGED schedVars
      BY <2>1, <2>2, IdleBalance DEF Posted
    <2>3. CASE CallOnWorkerThread([do |-> "pauseChange", r |-> r])
      BY <2>1, <2>3, NewTasks, CallBalance
    <2> QED
      BY <2>1, <2>2, <2>3
  <1>3. CASE Cancel(r)
    <2>1. UNCHANGED <<schedVars, worker, mainQueue>>
      BY <1>3 DEF Cancel
    <2> QED
      BY <2>1, IdleBalance DEF Posted
  <1>4. CASE CompleteDidReceiveResponse(r)
    <2>1. UNCHANGED <<worker, mainQueue>> /\ owed[r] > 0
      BY <1>4 DEF CompleteDidReceiveResponse
    <2>2. CASE UNCHANGED schedVars
      BY <2>1, <2>2, IdleBalance DEF Posted
    <2>3. CASE CallOnWorkerThread([do |-> "pauseChange", r |-> r])
      BY <2>1, <2>3, NewTasks, CallBalance
    <2>4. CASE req[r].m_actionAfterInvoke = "StartTransfer" /\ Add(r)
      <3>1. Responses(r) # 0
        <4>1. owed[r] \in Nat /\ Hits(mainQueue, {Response(r)}) \in Nat
          BY HitsType DEF Types, ClientTypes, QueueTypes
        <4>2. owed[r] + Hits(mainQueue, {Response(r)}) # 0
          BY <2>1, <4>1
        <4> QED
          BY <4>2 DEF Responses
      <3>2. r \notin m_activeJobs
        BY <1>0, <2>4, <3>1 DEF Life, Begun
      <3> QED
        BY <2>1, <2>4, <3>2, AddBalance
    <2>5. ASSUME NEW how \in Result,
                 CallOnWorkerThread([do |-> "didComplete", r |-> r, how |-> how])
          PROVE  Balanced'
      BY <2>1, <2>5, NewTasks, CallBalance
    <2> QED
      BY <1>0, <1>4, <2>2, <2>3, <2>4, <2>5, AnswerCases
  <1> QED
    BY <1>1, <1>2, <1>3, <1>4 DEF Owner

\* The main thread's own steps.
LEMMA MainBalance ==
    ASSUME Types, Types', Balanced, MainThread PROVE Balanced'
  <1> USE DEF schedVars, clientVars
  <1>1. CASE RunRelease
    BY <1>1, ReleaseRuns
  <1>2. ASSUME NEW do, do # "release", Takes(do), UNCHANGED <<schedVars, worker>>
        PROVE  Balanced'
    <2>1. ASSUME NEW s \in Requests PROVE Posted(s)' = Posted(s)
      <3>1. Posted(s)' = Posted(s)
              - IF do = "release" /\ Head(mainQueue).r = s THEN 1 ELSE 0
        BY <1>2, TakenRelease
      <3> QED
        BY <1>2, <3>1, DueTypes
    <2> QED
      BY <1>2, <2>1, IdleBalance
  <1>3. CASE RunClient
    BY <1>2, <1>3 DEF RunClient
  <1>4. CASE RunCancel
    BY <1>2, <1>4 DEF RunCancel
  <1>5. ASSUME NEW r \in Requests, CancelEnd(r) PROVE Balanced'
    <2>1. UNCHANGED <<worker, mainQueue>>
      BY <1>5 DEF CancelEnd
    <2>2. CASE CallOnWorkerThread([do |-> "didCancel", r |-> r])
      BY <2>1, <2>2, NewTasks, CallBalance
    <2>3. CASE FinalizeTransfer(r, "cancel") /\ UNCHANGED <<batch, retains>>
      BY <2>1, <2>3, FinalizeBalance
    <2> QED
      BY <1>5, <2>2, <2>3 DEF CancelEnd
  <1> QED
    BY <1>1, <1>3, <1>4, <1>5 DEF MainThread

\* The curl thread's tasks.
LEMMA TaskBalance ==
    ASSUME Types, Types', Balanced, RunTask PROVE Balanced'
  <1>0. mainQueue \in Seq(MainTask)
    BY DEF Types, QueueTypes
  <1> USE DEF schedVars, clientVars
  <1>1. CASE RespondForFile
    <2>1. PICK r \in Requests : r = Head(batch).r
      BY <1>1, RunsFacts DEF Types, RespondForFile
    <2>2. /\ Dequeues("respondForFile") /\ mainQueue' = Append(mainQueue, Response(r))
          /\ UNCHANGED <<m_taskQueue, m_activeJobs, retains, worker>>
      BY <1>1, <2>1, FunctionsDiffer DEF RespondForFile, Runs
    <2>3. Response(r) \in MainTask /\ Response(r).do # "release"
      BY NewMainTasks, NewEvents DEF Response, Client
    <2>4. \A s \in Requests :
            Hits(mainQueue', {Release(s)}) = Hits(mainQueue, {Release(s)})
      BY <1>0, <2>2, <2>3, PostedOther
    <2>5. \A s \in Requests : Posted(s)' = Posted(s)
      BY <2>4 DEF Posted, Release
    <2> QED
      BY <2>2, <2>5, RunBalance
  <1>2. CASE StartTransfer
    <2>1. /\ Dequeues("startTransfer")
          /\ worker.at \in {"idle", "suspending"} /\ worker' = [at |-> "idle"]
          /\ UNCHANGED <<m_taskQueue, m_activeJobs, retains, mainQueue>>
      BY <1>2, SetupFacts DEF Types, StartTransfer
    <2>2. \A s \in Requests : EndingIn(worker', s) = EndingIn(worker, s)
      BY <2>1 DEF EndingIn
    <2> QED
      BY <2>1, <2>2, RunBalance DEF Posted
  <1>3. CASE StartTransferFails
    <2>1. PICK r \in Requests : r = Head(batch).r
      BY <1>3, SetupFacts DEF Types, StartTransferFails
    <2>2. /\ Dequeues("startTransfer") /\ FinalizeTransfer(r, "error")
          /\ worker.at \in {"idle", "suspending"} /\ worker' = [at |-> "idle"]
          /\ UNCHANGED <<retains, mainQueue>>
      BY <1>3, <2>1, SetupFacts DEF Types, StartTransferFails
    <2>3. \A s \in Requests : EndingIn(worker', s) = EndingIn(worker, s)
      BY <2>2 DEF EndingIn
    <2> QED
      BY <2>2, <2>3, FinalizeBalance DEF Result
  <1>4. CASE PauseChange
    <2>1. PICK r \in Requests : r = Head(batch).r
      BY <1>4, RunsFacts DEF Types, PauseChange
    <2> DEFINE c == [do |-> "cancel", r |-> r]
    <2>2. /\ Dequeues("pauseChange")
          /\ mainQueue' = mainQueue \/ mainQueue' = Append(mainQueue, c)
          /\ UNCHANGED <<m_taskQueue, m_activeJobs, retains, worker>>
      BY <1>4, <2>1 DEF PauseChange, Runs
    <2>3. c \in MainTask /\ c.do # "release"
      BY NewMainTasks
    <2> HIDE DEF c
    <2>4. \A s \in Requests :
            Hits(mainQueue', {Release(s)}) = Hits(mainQueue, {Release(s)})
      BY <1>0, <2>2, <2>3, PostedOther
    <2>5. \A s \in Requests : Posted(s)' = Posted(s)
      BY <2>4 DEF Posted, Release
    <2> QED
      BY <2>2, <2>5, RunBalance
  <1>5. CASE Finalize
    BY <1>5, FinalizeRuns
  <1>6. CASE RunDidCancel
    <2>1. PICK r \in Requests : r = Head(batch).r
      BY <1>6, RunsFacts DEF Types, RunDidCancel
    <2>2. /\ Dequeues("didCancel") /\ worker.at = "idle" /\ DidCancelTransfer(r, FALSE)
          /\ UNCHANGED <<m_taskQueue, m_activeJobs, retains>> /\ "ok" \in Result
      BY <1>6, <2>1 DEF RunDidCancel, Runs, Result
    <2>3. \A s \in Requests : /\ EndingIn(worker', s) = EndingIn(worker, s)
                              /\ Posted(s)' = Posted(s)
      BY <2>2, EndReleases
    <2> QED
      BY <2>2, <2>3, RunBalance
  <1>7. CASE RunDidComplete
    <2>1. PICK r \in Requests, how \in Result : r = Head(batch).r /\ how = Head(batch).how
      BY <1>7, RunsFacts DEF Types, RunDidComplete
    <2>2. /\ Dequeues("didComplete") /\ worker.at = "idle"
          /\ DidCompleteTransfer(r, how, FALSE)
          /\ UNCHANGED <<m_taskQueue, m_activeJobs, retains>>
      BY <1>7, <2>1 DEF RunDidComplete, Runs
    <2>3. \A s \in Requests : /\ EndingIn(worker', s) = EndingIn(worker, s)
                              /\ Posted(s)' = Posted(s)
      BY <2>2, EndReleases
    <2> QED
      BY <2>2, <2>3, RunBalance
  <1>8. CASE FinishLater \/ FinishNow \/ SetCompleted
    BY <1>8, CompleteBalance
  <1>9. CASE PauseInCallback
    <2>1. /\ UNCHANGED <<m_taskQueue, batch, m_activeJobs, retains, mainQueue>>
          /\ worker.at = "pausing" /\ worker' = [at |-> "idle"]
      BY <1>9 DEF PauseInCallback
    <2>2. \A s \in Requests : EndingIn(worker', s) = EndingIn(worker, s)
      BY <2>1 DEF EndingIn
    <2> QED
      BY <2>1, <2>2, IdleBalance DEF Posted
  <1>10. CASE TestShouldSuspend
    <2>1. /\ UNCHANGED <<m_taskQueue, batch, m_activeJobs, retains, mainQueue>>
          /\ worker.at = "idle" /\ worker' = [at |-> "suspending"]
      BY <1>10 DEF TestShouldSuspend
    <2>2. \A s \in Requests : EndingIn(worker', s) = EndingIn(worker, s)
      BY <2>1 DEF EndingIn
    <2> QED
      BY <2>1, <2>2, IdleBalance DEF Posted
  <1> QED
    BY <1>1, <1>2, <1>3, <1>4, <1>5, <1>6, <1>7, <1>8, <1>9, <1>10 DEF RunTask

\* Every step keeps the balance.
LEMMA BalanceStep ==
    Types /\ Types' /\ LifeInv /\ Balanced /\ [Next]_vars => Balanced'
  <1> SUFFICES ASSUME Types, Types', LifeInv, Balanced, [Next]_vars PROVE Balanced'
    OBVIOUS
  <1>1. CASE UNCHANGED vars
    <2>1. UNCHANGED <<m_taskQueue, batch, m_activeJobs, retains, mainQueue, worker>>
      BY <1>1 DEF vars, schedVars
    <2> QED
      BY <2>1, IdleBalance DEF Posted
  <1>2. CASE TakeTasks
    <2>1. UNCHANGED <<m_activeJobs, retains, mainQueue, worker>>
      BY <1>2 DEF TakeTasks
    <2>2. \A s \in Requests : Fins(s)' = Fins(s)
      BY <1>2, FinsTaken
    <2> QED
      BY <2>1, <2>2, DueKept DEF Active, Posted
  <1> QED
    BY <1>1, <1>2, MainBalance, TaskBalance, OwnerBalance, PerformBalance DEF Next

\* Nothing is retained before anything has started.
LEMMA InitBalance == Init => Balanced
  <1> SUFFICES ASSUME Init PROVE Balanced
    OBVIOUS
  <1>1. /\ batch = <<>> /\ m_taskQueue = <<>> /\ mainQueue = <<>>
        /\ m_activeJobs = {} /\ worker = [at |-> "idle"]
        /\ retains = [r \in Requests |-> 0]
    BY DEF Init
  <1>2. \A r \in Requests : /\ Active(r) = 0 /\ Fins(r) = 0
                            /\ EndingIn(worker, r) = 0 /\ Posted(r) = 0
    BY <1>1, HitsEmpty DEF Active, Fins, EndingIn, Posted
  <1>3. \A r \in Requests : Due(r) = 0
    BY <1>2 DEF Due
  <1> QED
    BY <1>1, <1>3 DEF Balanced

\* What the parts say of ReleasesDue, and of the raw pointers.
LEMMA DueIsReleasesDue ==
    ASSUME Types, NEW r \in Requests
    PROVE  /\ ReleasesDue(r) = Due(r)
           /\ r \in m_activeJobs \/ Queued("finalize", r) => Due(r) > 0
  <1>0. m_taskQueue \in Seq(Task) /\ batch \in Seq(Task) /\ mainQueue \in Seq(MainTask)
    BY DEF Types, QueueTypes
  <1>1. \A q \in Seq(Task) :
          {i \in DOMAIN q : q[i].do = "finalize" /\ q[i].r = r}
            = HitsAt(q, FinalizeOf(r))
    <2>1. ASSUME NEW q \in Seq(Task), NEW i \in DOMAIN q
          PROVE  q[i] \in FinalizeOf(r) <=> q[i].do = "finalize" /\ q[i].r = r
      BY <2>1, LenProperties, ElementOfSeq DEF FinalizeOf
    <2> QED
      BY <2>1 DEF HitsAt
  <1>2. /\ Count({i \in DOMAIN m_taskQueue :
                    m_taskQueue[i].do = "finalize" /\ m_taskQueue[i].r = r})
             = Hits(m_taskQueue, FinalizeOf(r))
        /\ Count({i \in DOMAIN batch : batch[i].do = "finalize" /\ batch[i].r = r})
             = Hits(batch, FinalizeOf(r))
    BY <1>0, <1>1 DEF Count, Hits
  <1>3. Count({i \in DOMAIN mainQueue : mainQueue[i] = Release(r)}) = Posted(r)
    <2>1. {i \in DOMAIN mainQueue : mainQueue[i] = Release(r)}
            = HitsAt(mainQueue, {Release(r)})
      BY DEF HitsAt
    <2> QED
      BY <2>1 DEF Count, Hits, Posted
  <1>4. Count({r} \cap m_activeJobs) = Active(r)
    <2>1. CASE r \in m_activeJobs
      <3>1. {r} \cap m_activeJobs = {r}
        BY <2>1
      <3> QED
        BY <2>1, <3>1, FS_Singleton DEF Count, Active
    <2>2. CASE r \notin m_activeJobs
      <3>1. {r} \cap m_activeJobs = {}
        BY <2>2
      <3> QED
        BY <2>2, <3>1, FS_EmptySet DEF Count, Active
    <2> QED
      BY <2>1, <2>2
  <1>5. /\ Hits(m_taskQueue, FinalizeOf(r)) \in Nat
        /\ Hits(batch, FinalizeOf(r)) \in Nat
        /\ Active(r) \in Nat /\ EndingIn(worker, r) \in Nat /\ Posted(r) \in Nat
    BY <1>0, CountsAreNumbers, DueTypes
  <1>6. ReleasesDue(r)
          = Active(r) + Hits(m_taskQueue, FinalizeOf(r)) + Hits(batch, FinalizeOf(r))
              + EndingIn(worker, r) + Posted(r)
    BY <1>2, <1>3, <1>4 DEF ReleasesDue, EndingIn
  <1>7. ReleasesDue(r) = Due(r)
    BY <1>5, <1>6 DEF Due, Fins
  <1>8. ASSUME Queued("finalize", r) PROVE Fins(r) > 0
    <2>1. PICK t \in Tasks : t.do = "finalize" /\ t.r = r
      BY <1>8 DEF Queued
    <2>2. t \in FinalizeOf(r)
      BY <2>1, QueueIsTasks DEF Types, FinalizeOf
    <2>3. \/ \E i \in DOMAIN m_taskQueue : m_taskQueue[i] \in FinalizeOf(r)
          \/ \E i \in DOMAIN batch : batch[i] \in FinalizeOf(r)
      BY <2>2 DEF Tasks
    <2>4. Hits(m_taskQueue, FinalizeOf(r)) # 0 \/ Hits(batch, FinalizeOf(r)) # 0
      BY <1>0, <2>3, HitsType
    <2> QED
      BY <1>5, <2>4 DEF Fins
  <1>9. r \in m_activeJobs => Active(r) > 0
    BY DEF Active
  <1>10. Fins(r) \in Nat
    BY DueTypes
  <1> QED
    BY <1>5, <1>7, <1>8, <1>9, <1>10 DEF Due

\* The retain count of every request stays a number, with all the other types:
\* no release() is run that was not preceded by its retain().
THEOREM TypeCorrect == Spec => []TypeOK
  <1>1. Types /\ Balanced => TypeOK
    <2> SUFFICES ASSUME Types, Balanced PROVE TypeOK
      OBVIOUS
    <2>1. retains \in [Requests -> Nat]
      BY DueTypes DEF Balanced
    <2> QED
      BY <2>1, TypeParts
  <1> QED
    BY <1>1, InitTypes, TypesStep, InitLife, LifeStep, InitBalance, BalanceStep,
       PTL DEF Spec

\* A request is released as often as it was retained, however cancel(), a failed
\* start and the end of the transfer race, and is retained while a startTransfer
\* task or m_clientMaps has its raw pointer.
THEOREM RetainedAndReleased == Spec => []RetainedWhileReferenced
  <1>1. Types /\ LifeInv /\ Balanced => RetainedWhileReferenced
    <2> SUFFICES ASSUME Types, LifeInv, Balanced, NEW r \in Requests
                 PROVE  /\ retains[r] = ReleasesDue(r)
                        /\ \/ [do |-> "startTransfer", r |-> r] \in Tasks
                           \/ \E h \in Handles : r \in m_clientMaps[h]
                           => retains[r] > 0
      BY DEF RetainedWhileReferenced
    <2>1. retains[r] = Due(r) /\ ReleasesDue(r) = Due(r) /\ Life(r)
      BY DueIsReleasesDue DEF Balanced, LifeInv
    <2>2. ASSUME [do |-> "startTransfer", r |-> r] \in Tasks
          PROVE  r \in m_activeJobs \/ Queued("finalize", r)
      <3>1. Queued("startTransfer", r)
        BY <2>2 DEF Queued
      <3> QED
        BY <2>1, <3>1 DEF Life
    <2>3. ASSUME NEW h \in Handles, r \in m_clientMaps[h]
          PROVE  r \in m_activeJobs \/ Queued("finalize", r)
      <3>1. InCurl(r)
        BY <2>3 DEF LifeInv, Mapped
      <3> QED
        BY <2>1, <3>1 DEF Life
    <2> QED
      BY <2>1, <2>2, <2>3, DueIsReleasesDue
  <1> QED
    BY <1>1, InitTypes, TypesStep, InitLife, LifeStep, InitBalance, BalanceStep,
       PTL DEF Spec

=============================================================================
