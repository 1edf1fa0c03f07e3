------------------------------- MODULE Demuxer -------------------------------
(***************************************************************************)
(* The Acinerella container's own thread, which demuxes packages into the  *)
(* muxed buffer on request of the decoder threads, seeks, reopens after an *)
(* HLS discontinuity and winds everything down; the decoder threads, as    *)
(* callers of AcinerellaMuxedBuffer::nextPackage; and the main thread, as  *)
(* the source of seek and terminate.                                       *)
(*                                                                         *)
(* libav (ac_read_package, ac_seek, ac_open) is external: a run of         *)
(* packages per file position or HLS chunk, ended by a null package.       *)
(***************************************************************************)
EXTENDS MuxedBuffer

CONSTANTS
    IsLive,         \* m_isLive: an HLS stream; it cannot seek
    DemuxBatch,     \* packages read per demux request (128 in the code)
    MaxRunPackages, \* bound: packages in one run
    MaxEpochs       \* bound: seeks, or discontinuities

ASSUME IsLiveAssumption == IsLive \in BOOLEAN
ASSUME BatchAssumption == DemuxBatch \in Nat \ {0}
ASSUME BoundsAssumption == MaxRunPackages \in Nat /\ MaxEpochs \in Nat

VARIABLES
    m_queue,            \* the container thread's message queue
    m_killed,           \* m_queue.killed()
    m_waitingForDemux,  \* a demux request is outstanding
    m_terminating,
    m_isSeeking,
    m_ioDiscontinuity,  \* further reads fail until the chunk is reopened
    m_liveEnded,
    opc, resumeAt,      \* the container thread's place, and after signalling
    untilEOS,           \* the argument of demuxMorePackages
    packages,           \* its local counter
    pendingSignals,     \* events the container thread has yet to signal
    epoch, pushed,      \* current run, and its packages so far per stream
    srcEnd,             \* libav has reported the end of the run
    chunks,             \* HLS chunks begun after the first
    dpc,                \* place of each decoder thread
    m_decoderTerminating,
    seen                \* the last package each decoder took

containerVars ==
    <<m_queue, m_killed, m_waitingForDemux, m_terminating, m_isSeeking,
      m_ioDiscontinuity, m_liveEnded>>
ownerVars   == <<opc, resumeAt, untilEOS, packages, pendingSignals>>
sourceVars  == <<epoch, pushed, srcEnd, chunks>>
decoderVars == <<dpc, m_decoderTerminating, seen>>
vars == <<muxerVars, containerVars, ownerVars, sourceVars, decoderVars>>

Task == {"demux", "seek", "discontinuity", "terminate"}
OwnerPC == {"idle", "demux", "read", "demuxDone", "signal", "open",
            "seekPush", "muxTerminate", "join", "done"}
DecoderPC == {"off", "work", "next", "wait", "exit"}

TypeOK ==
    /\ MuxerTypeOK
    /\ m_queue \in Seq(Task)
    /\ m_killed \in BOOLEAN
    /\ m_waitingForDemux \in BOOLEAN
    /\ m_terminating \in BOOLEAN
    /\ m_isSeeking \in BOOLEAN
    /\ m_ioDiscontinuity \in BOOLEAN
    /\ m_liveEnded \in BOOLEAN
    /\ opc \in OwnerPC
    /\ resumeAt \in OwnerPC
    /\ untilEOS \in BOOLEAN
    /\ packages \in Nat
    /\ pendingSignals \in SUBSET Decoders
    /\ epoch \in Nat
    /\ pushed \in [Streams -> 0 .. MaxRunPackages]
    /\ srcEnd \in BOOLEAN
    /\ chunks \in 0 .. MaxEpochs
    /\ dpc \in [Decoders -> DecoderPC]
    /\ m_decoderTerminating \in [Decoders -> BOOLEAN]
    /\ seen \in [Decoders -> Package]

\* initialize() has opened the file and installed mask and sink function.
Init ==
    /\ MuxerInit
    /\ m_queue = <<>>
    /\ m_killed = FALSE
    /\ m_waitingForDemux = FALSE
    /\ m_terminating = FALSE
    /\ m_isSeeking = FALSE
    /\ m_ioDiscontinuity = FALSE
    /\ m_liveEnded = FALSE
    /\ opc = "idle"
    /\ resumeAt = "idle"
    /\ untilEOS = FALSE
    /\ packages = 0
    /\ pendingSignals = {}
    /\ epoch = 0
    /\ pushed = [i \in Streams |-> 0]
    /\ srcEnd = FALSE
    /\ chunks = 0
    /\ dpc = [d \in Decoders |-> "off"]
    /\ m_decoderTerminating = [d \in Decoders |-> FALSE]
    /\ seen = [d \in Decoders |-> FlushPackage(0)]

canSeek == ~IsLive
RunIsFull == \E i \in Streams : pushed[i] = MaxRunPackages

(***************************************************************************)
(* Main thread.                                                            *)
(***************************************************************************)

\* seek(time): dispatches startSeeking.  Bounds: one seek in the queue at a
\* time, MaxEpochs in all.
SeekRequest ==
    /\ ~m_terminating
    /\ epoch < MaxEpochs
    /\ \A k \in 1 .. Len(m_queue) : m_queue[k] # "seek"
    /\ m_queue' = Append(m_queue, "seek")
    /\ UNCHANGED <<muxerVars, m_killed, m_waitingForDemux, m_terminating,
                   m_isSeeking, m_ioDiscontinuity, m_liveEnded, ownerVars,
                   sourceVars, decoderVars>>

\* terminate(): m_terminating, the network buffer dies, performTerminate is
\* queued; the main thread then waits for the container thread.
Terminate ==
    /\ ~m_terminating
    /\ m_terminating' = TRUE
    /\ m_queue' = Append(m_queue, "terminate")
    /\ UNCHANGED <<muxerVars, m_killed, m_waitingForDemux, m_isSeeking,
                   m_ioDiscontinuity, m_liveEnded, ownerVars, sourceVars,
                   decoderVars>>

(***************************************************************************)
(* Container thread: the message loop of threadEntryPoint.                 *)
(***************************************************************************)

Takes(task) ==
    /\ opc = "idle"
    /\ ~m_killed
    /\ m_queue # <<>>
    /\ Head(m_queue) = task
    /\ m_queue' = Tail(m_queue)

StartDemux ==
    /\ Takes("demux")
    /\ opc' = "demux"
    /\ untilEOS' = FALSE
    /\ packages' = 0
    /\ UNCHANGED <<muxerVars, m_killed, m_waitingForDemux, m_terminating,
                   m_isSeeking, m_ioDiscontinuity, m_liveEnded, resumeAt,
                   pendingSignals, sourceVars, decoderVars>>

\* initializeAfterDiscontinuity begins with demuxMorePackages(true).
StartDiscontinuity ==
    /\ Takes("discontinuity")
    /\ opc' = "demux"
    /\ untilEOS' = TRUE
    /\ packages' = 0
    /\ UNCHANGED <<muxerVars, m_killed, m_waitingForDemux, m_terminating,
                   m_isSeeking, m_ioDiscontinuity, m_liveEnded, resumeAt,
                   pendingSignals, sourceVars, decoderVars>>

\* startSeeking, when it does nothing.
IgnoreSeek ==
    /\ Takes("seek")
    /\ m_isSeeking \/ ~canSeek
    /\ UNCHANGED <<muxerVars, m_killed, m_waitingForDemux, m_terminating,
                   m_isSeeking, m_ioDiscontinuity, m_liveEnded, ownerVars,
                   sourceVars, decoderVars>>

\* startSeeking up to and including muxer->flush(): ac_seek starts a new run.
StartSeeking ==
    /\ Takes("seek")
    /\ ~m_isSeeking /\ canSeek
    /\ epoch < MaxEpochs
    /\ m_isSeeking' = TRUE
    /\ Flush
    /\ epoch' = epoch + 1
    /\ pushed' = [i \in Streams |-> 0]
    /\ srcEnd' = FALSE
    /\ opc' = "seekPush"
    /\ UNCHANGED <<m_killed, m_waitingForDemux, m_terminating,
                   m_ioDiscontinuity, m_liveEnded, resumeAt, untilEOS,
                   packages, pendingSignals, chunks, decoderVars>>

\* The rest of startSeeking: the flush package goes to every decoder.
PushSeekFlush ==
    /\ opc = "seekPush"
    /\ PushLocked(FlushPackage(epoch))
    /\ pendingSignals' = SignalsOfPush(FlushPackage(epoch))
    /\ opc' = "signal" /\ resumeAt' = "idle"
    /\ UNCHANGED <<containerVars, untilEOS, packages, sourceVars,
                   decoderVars>>

\* Mutant: the decoders are joined without terminating the muxer first.
PerformTerminateSkipsMuxer ==
    /\ Takes("terminate")
    /\ m_killed' = TRUE
    /\ opc' = "join"
    /\ UNCHANGED <<muxerVars, m_waitingForDemux, m_terminating, m_isSeeking,
                   m_ioDiscontinuity, m_liveEnded, resumeAt, untilEOS,
                   packages, pendingSignals, sourceVars, decoderVars>>

\* performTerminate kills the queue and the message loop ends.
PerformTerminate ==
    /\ Takes("terminate")
    /\ m_killed' = TRUE
    /\ opc' = "muxTerminate"
    /\ UNCHANGED <<muxerVars, m_waitingForDemux, m_terminating, m_isSeeking,
                   m_ioDiscontinuity, m_liveEnded, resumeAt, untilEOS,
                   packages, pendingSignals, sourceVars, decoderVars>>

(***************************************************************************)
(* Container thread: demuxMorePackages.                                    *)
(***************************************************************************)

KeepsDemuxing == ~m_terminating /\ (untilEOS \/ packages < DemuxBatch)

\* The head of the loop; the read that follows may take long.
DemuxLoop ==
    /\ opc = "demux"
    /\ opc' = IF KeepsDemuxing THEN "read" ELSE "demuxDone"
    /\ UNCHANGED <<muxerVars, containerVars, resumeAt, untilEOS, packages,
                   pendingSignals, sourceVars, decoderVars>>

\* The read callback, from within ac_read_package or ac_open, reaches the
\* end of an HLS chunk: another chunk follows (eRead_Discontinuity) ...
ReadDiscontinuity ==
    /\ opc \in {"read", "open"}
    /\ IsLive /\ ~m_ioDiscontinuity
    /\ chunks < MaxEpochs
    /\ chunks' = chunks + 1
    /\ m_ioDiscontinuity' = TRUE
    /\ m_queue' = Append(m_queue, "discontinuity")
    /\ UNCHANGED <<muxerVars, m_killed, m_waitingForDemux, m_terminating,
                   m_isSeeking, m_liveEnded, ownerVars, epoch, pushed,
                   srcEnd, decoderVars>>

\* ... or none does (eRead_EOF with hasStreamSelection).
ReadLiveEOF ==
    /\ opc \in {"read", "open"}
    /\ IsLive /\ ~m_ioDiscontinuity
    /\ m_ioDiscontinuity' = TRUE
    /\ m_liveEnded' = FALSE
    /\ UNCHANGED <<muxerVars, m_queue, m_killed, m_waitingForDemux,
                   m_terminating, m_isSeeking, ownerVars, sourceVars,
                   decoderVars>>

\* ac_read_package returns a package of stream i; it is pushed.
DemuxPackage(i) ==
    /\ opc = "read"
    /\ ~srcEnd /\ ~RunIsFull
    /\ LET p == DataPackage(i, epoch, pushed[i] + 1)
       IN  /\ PushLocked(p)
           /\ pendingSignals' = SignalsOfPush(p)
    /\ pushed' = [pushed EXCEPT ![i] = @ + 1]
    /\ packages' = packages + 1
    /\ opc' = "signal" /\ resumeAt' = "demux"
    /\ UNCHANGED <<containerVars, untilEOS, epoch, srcEnd, chunks,
                   decoderVars>>

\* ac_read_package returns null: pushed as the end of the stream, except for
\* a live stream, and the loop breaks.
DemuxEnd ==
    /\ opc = "read"
    /\ srcEnd \/ ~IsLive \/ m_ioDiscontinuity \/ m_terminating
    /\ srcEnd' = TRUE
    /\ IF ~IsLive \/ m_liveEnded
       THEN /\ PushEOS
            /\ pendingSignals' = SignalsOfEOS
            /\ opc' = "signal" /\ resumeAt' = "demuxDone"
       ELSE /\ opc' = "demuxDone"
            /\ UNCHANGED <<muxerVars, pendingSignals, resumeAt>>
    /\ UNCHANGED <<containerVars, untilEOS, packages, epoch, pushed, chunks,
                   decoderVars>>

\* Mutant: the request flag is not cleared.
FinishDemuxKeepsFlag ==
    /\ opc = "demuxDone"
    /\ m_ioDiscontinuity' = (m_ioDiscontinuity /\ ~untilEOS)
    /\ opc' = IF untilEOS THEN "open" ELSE "idle"
    /\ UNCHANGED <<muxerVars, m_queue, m_killed, m_waitingForDemux,
                   m_terminating, m_isSeeking, m_liveEnded, resumeAt,
                   untilEOS, packages, pendingSignals, sourceVars,
                   decoderVars>>

\* The end of demuxMorePackages; after a discontinuity the caller goes on to
\* let reads through again and to ac_open.
FinishDemux ==
    /\ opc = "demuxDone"
    /\ m_waitingForDemux' = FALSE
    /\ m_ioDiscontinuity' = (m_ioDiscontinuity /\ ~untilEOS)
    /\ opc' = IF untilEOS THEN "open" ELSE "idle"
    /\ UNCHANGED <<muxerVars, m_queue, m_killed, m_terminating, m_isSeeking,
                   m_liveEnded, resumeAt, untilEOS, packages, pendingSignals,
                   sourceVars, decoderVars>>

\* ac_open fails: nothing is reported and the old context stays.
ReopenFails ==
    /\ opc = "open"
    /\ opc' = "idle"
    /\ UNCHANGED <<muxerVars, containerVars, resumeAt, untilEOS, packages,
                   pendingSignals, sourceVars, decoderVars>>

\* ac_open succeeds: a flush package announces the new run and warmUp starts
\* decoder threads that are not running yet.
ReopenSucceeds ==
    /\ opc = "open"
    /\ epoch' = epoch + 1
    /\ pushed' = [i \in Streams |-> 0]
    /\ srcEnd' = FALSE
    /\ PushLocked(FlushPackage(epoch + 1))
    /\ pendingSignals' = SignalsOfPush(FlushPackage(epoch + 1))
    /\ opc' = "signal" /\ resumeAt' = "idle"
    /\ dpc' = [d \in Decoders |-> IF dpc[d] = "off" THEN "work" ELSE dpc[d]]
    /\ UNCHANGED <<containerVars, untilEOS, packages, chunks,
                   m_decoderTerminating, seen>>

\* The signals that follow a lock section of push or terminate.
SignalNext ==
    /\ opc = "signal"
    /\ \E i \in pendingSignals :
           /\ \A j \in pendingSignals : i <= j
           /\ Signal(i)
           /\ pendingSignals' = pendingSignals \ {i}
    /\ UNCHANGED <<containerVars, opc, resumeAt, untilEOS, packages,
                   sourceVars, decoderVars>>

SignalsDone ==
    /\ opc = "signal"
    /\ pendingSignals = {}
    /\ opc' = resumeAt
    /\ UNCHANGED <<muxerVars, containerVars, resumeAt, untilEOS, packages,
                   pendingSignals, sourceVars, decoderVars>>

(***************************************************************************)
(* Container thread: warm-up, and the end of threadEntryPoint.             *)
(***************************************************************************)

\* warmUp() run on the container thread starts the decoder's thread.
WarmUp(d) ==
    /\ opc = "idle" /\ ~m_killed
    /\ dpc[d] = "off"
    /\ dpc' = [dpc EXCEPT ![d] = "work"]
    /\ UNCHANGED <<muxerVars, containerVars, ownerVars, sourceVars,
                   m_decoderTerminating, seen>>

\* The muxer goes first: decoder threads may be waiting for data.
TerminateMuxer ==
    /\ opc = "muxTerminate"
    /\ TerminateLocked
    /\ pendingSignals' = SignalsOfEOS
    /\ opc' = "signal" /\ resumeAt' = "join"
    /\ UNCHANGED <<containerVars, untilEOS, packages, sourceVars,
                   decoderVars>>

Stopped(d) == dpc[d] \in {"off", "exit"}

\* Then each decoder in turn: terminate() returns once its thread is over.
TerminateDecoder(d) ==
    /\ opc = "join"
    /\ ~m_decoderTerminating[d]
    /\ \A e \in Decoders : m_decoderTerminating[e] => Stopped(e)
    /\ m_decoderTerminating' = [m_decoderTerminating EXCEPT ![d] = TRUE]
    /\ UNCHANGED <<muxerVars, containerVars, ownerVars, sourceVars, dpc,
                   seen>>

ThreadEnds ==
    /\ opc = "join"
    /\ \A d \in Decoders : m_decoderTerminating[d] /\ Stopped(d)
    /\ opc' = "done"
    /\ UNCHANGED <<muxerVars, containerVars, resumeAt, untilEOS, packages,
                   pendingSignals, sourceVars, decoderVars>>

(***************************************************************************)
(* Decoder threads.                                                        *)
(***************************************************************************)

\* Mutant: a request for every call.
SinkFunctionAlwaysDispatches(calls) ==
    /\ m_waitingForDemux' = (m_waitingForDemux \/ calls)
    /\ m_queue' = IF calls THEN Append(m_queue, "demux") ELSE m_queue
    /\ UNCHANGED <<m_killed, m_terminating, m_isSeeking, m_ioDiscontinuity,
                   m_liveEnded>>

\* The sink function the container installs: one request at a time.
SinkFunction(calls) ==
    /\ m_waitingForDemux' = (m_waitingForDemux \/ calls)
    /\ m_queue' = IF calls /\ ~m_waitingForDemux
                  THEN Append(m_queue, "demux") ELSE m_queue
    /\ UNCHANGED <<m_killed, m_terminating, m_isSeeking, m_ioDiscontinuity,
                   m_liveEnded>>

\* decodeNextFrame enters nextPackage.
CallNext(d) ==
    /\ dpc[d] = "work" /\ ~m_decoderTerminating[d]
    /\ dpc' = [dpc EXCEPT ![d] = "next"]
    /\ UNCHANGED <<muxerVars, containerVars, ownerVars, sourceVars,
                   m_decoderTerminating, seen>>

NextPops(d) ==
    /\ dpc[d] = "next"
    /\ PopPackage(d)
    /\ seen' = [seen EXCEPT ![d] = Head(m_packages[d])]
    /\ SinkFunction(CallsSink(d))
    /\ dpc' = [dpc EXCEPT ![d] = "work"]
    /\ UNCHANGED <<ownerVars, sourceVars, m_decoderTerminating>>

NextIsNull(d) ==
    /\ dpc[d] = "next"
    /\ NoMorePackages(d)
    /\ dpc' = [dpc EXCEPT ![d] = "work"]
    /\ UNCHANGED <<muxerVars, containerVars, ownerVars, sourceVars,
                   m_decoderTerminating, seen>>

NextWaits(d) ==
    /\ dpc[d] = "next"
    /\ ~HasPackage(d) /\ ~m_queueCompleteOrError
    /\ SinkFunction(CallsSink(d))
    /\ dpc' = [dpc EXCEPT ![d] = "wait"]
    /\ UNCHANGED <<muxerVars, ownerVars, sourceVars, m_decoderTerminating,
                   seen>>

Woken(d) ==
    /\ dpc[d] = "wait"
    /\ WakeBySignal(d)
    /\ dpc' = [dpc EXCEPT ![d] = "next"]
    /\ UNCHANGED <<containerVars, ownerVars, sourceVars,
                   m_decoderTerminating, seen>>

\* Mutant: an unlimited wait.
WaitNeverTimesOut(d) == FALSE

\* The one-second limit of the wait.
WaitTimesOut(d) ==
    /\ dpc[d] = "wait"
    /\ dpc' = [dpc EXCEPT ![d] = "next"]
    /\ UNCHANGED <<muxerVars, containerVars, ownerVars, sourceVars,
                   m_decoderTerminating, seen>>

\* performTerminate on the decoder's thread.
DecoderExits(d) ==
    /\ dpc[d] = "work" /\ m_decoderTerminating[d]
    /\ dpc' = [dpc EXCEPT ![d] = "exit"]
    /\ UNCHANGED <<muxerVars, containerVars, ownerVars, sourceVars,
                   m_decoderTerminating, seen>>

\* onDecoderUpdatedPosition: a position close to the target ends the seek.
EndSeeking ==
    /\ m_isSeeking
    /\ \E d \in Decoders : dpc[d] = "work"
    /\ m_isSeeking' = FALSE
    /\ UNCHANGED <<muxerVars, m_queue, m_killed, m_waitingForDemux,
                   m_terminating, m_ioDiscontinuity, m_liveEnded, ownerVars,
                   sourceVars, decoderVars>>

(***************************************************************************)
(* The specification.                                                      *)
(***************************************************************************)

OwnerStep ==
    \/ StartDemux \/ StartDiscontinuity \/ IgnoreSeek \/ StartSeeking
    \/ PushSeekFlush \/ PerformTerminate
    \/ ReadDiscontinuity \/ ReadLiveEOF
    \/ \E i \in Streams : DemuxPackage(i)
    \/ DemuxLoop \/ DemuxEnd \/ FinishDemux
    \/ ReopenFails \/ ReopenSucceeds
    \/ SignalNext \/ SignalsDone
    \/ TerminateMuxer \/ ThreadEnds
    \/ \E d \in Decoders : TerminateDecoder(d)

\* The steps of a decoder thread that is inside nextPackage or ending.
InNextPackage(d) ==
    \/ NextPops(d) \/ NextIsNull(d) \/ NextWaits(d)
    \/ Woken(d) \/ WaitTimesOut(d) \/ DecoderExits(d)

\* Everything is over: the only state in which nothing may happen any more.
Finished ==
    /\ opc = "done"
    /\ UNCHANGED vars

Next ==
    \/ SeekRequest \/ Terminate
    \/ OwnerStep
    \/ \E d \in Decoders : WarmUp(d) \/ CallNext(d) \/ InNextPackage(d)
    \/ EndSeeking
    \/ Finished

Spec == Init /\ [][Next]_vars

\* The container thread and the decoder threads keep running; the read
\* callback comes back (the network buffer returns or dies).
Fairness ==
    /\ WF_vars(OwnerStep)
    /\ \A d \in Decoders : WF_vars(InNextPackage(d))

FairSpec == Spec /\ Fairness

(***************************************************************************)
(* Properties.                                                             *)
(***************************************************************************)

\* y may come right after x: the next package of x's run, or the flush
\* package that opens a later run.
Follows(x, y) ==
    \/ y.epoch = x.epoch /\ y.place = x.place + 1
    \/ y.epoch > x.epoch /\ isFlushPackage(y)

\* A feed is the package s a decoder took last and the queue q that follows.
UnbrokenFeed(s, q) ==
    /\ q # <<>> => Follows(s, q[1])
    /\ \A k \in 1 .. Len(q) - 1 : Follows(q[k], q[k + 1])

FeedEnd(s, q) == IF q = <<>> THEN s ELSE q[Len(q)]

\* No package is lost, repeated or reordered between push() and nextPackage():
\* what a decoder took last and what waits for it in m_packages is one unbroken
\* feed that ends with the last package demuxed for it, and a new run never
\* begins without its flush package (startSeeking and
\* initializeAfterDiscontinuity push it before anything else is demuxed).
FeedUnbroken ==
    \A d \in Decoders :
        /\ UnbrokenFeed(seen[d], m_packages[d])
        /\ IF opc = "seekPush"
           THEN /\ m_packages[d] = <<>>
                /\ seen[d].epoch < epoch
                /\ pushed[d] = 0
           ELSE /\ FeedEnd(seen[d], m_packages[d]).epoch = epoch
                /\ FeedEnd(seen[d], m_packages[d]).place = pushed[d]

\* nextPackage() gives nullptr for the end of the stream only to a decoder
\* that has taken every package demuxed for it, unless the player is being
\* terminated: the unlocked m_queueCompleteOrError never overtakes a package.
EndOfStreamMeansDrained ==
    [][\A d \in Decoders :
         (dpc[d] = "next" /\ dpc'[d] = "work" /\ seen'[d] = seen[d]
            /\ m_packages'[d] = m_packages[d] /\ ~m_terminating)
         => srcEnd /\ seen[d].epoch = epoch /\ seen[d].place = pushed[d]]_vars

\* For the mapping to DecoderFeed: the oldest run still handed out is the
\* current one for a file, where only seeks start runs, and the first one for
\* a live stream, where only discontinuities do.
oldestRun == IF IsLive THEN 0 ELSE epoch

Feed == INSTANCE DecoderFeed WITH oldest <- oldestRun

\* The threads, queues, events and retries together hand packages to the
\* decoders only as DecoderFeed allows: in order, a later run only through its
\* flush package, and nothing of an earlier run after a seek.
ImplementsFeed == Feed!Spec

DemuxTasks == {k \in 1 .. Len(m_queue) : m_queue[k] = "demux"}

\* m_waitingForDemux never sticks: while it is set, a request is queued or
\* being served, so that the sink function will be able to ask again.
RequestIsOutstanding ==
    m_waitingForDemux =>
        \/ DemuxTasks # {}
        \/ opc \in {"demux", "read", "demuxDone"}
        \/ opc = "signal" /\ resumeAt \in {"demux", "demuxDone"}

\* Two decoders calling the sink function never have more than one request
\* between them, queued or being served (a file; after a discontinuity
\* demuxMorePackages clears the flag of a request that is still queued).
OneRequestAtATime ==
    /\ Cardinality(DemuxTasks) <= 1
    /\ DemuxTasks # {} => m_waitingForDemux
    /\ DemuxTasks # {} =>
           /\ opc \notin {"demux", "read", "demuxDone"}
           /\ opc = "signal" => resumeAt \notin {"demux", "demuxDone"}

\* Once HLS has reported its end (ReadLiveEOF: no further chunk will be
\* opened), the null package demuxMorePackages then reads is passed on to the
\* decoders: AcinerellaContainer.cpp says "let demuxer signal EOF to decoders".
LiveEndIsSignalled ==
    [][(opc = "read" /\ opc' = "demuxDone" /\ m_ioDiscontinuity
          /\ ~untilEOS /\ \A k \in 1 .. Len(m_queue) :
                               m_queue[k] # "discontinuity")
       => m_queueCompleteOrError']_vars

\* A decoder never sleeps forever in nextPackage() of a seekable file: it is
\* given a package or told that the stream is over.
NextPackageReturns ==
    \A d \in Decoders :
        (dpc[d] \in {"next", "wait"}) ~> (dpc[d] \in {"work", "exit"})

\* terminate() comes back: no decoder thread and no read keeps the container
\* thread, and with it the main thread, waiting.
TerminateReturns == m_terminating ~> (opc = "done")

=============================================================================
