----------------------------- MODULE MuxedBuffer -----------------------------
(***************************************************************************)
(* AcinerellaMuxedBuffer: the package queues between the Acinerella thread *)
(* (which demuxes) and the decoder threads (which call nextPackage).       *)
(*                                                                         *)
(* One action operator per lock section or signal of the class.  A package *)
(* is its stream index, the number of the decoding run it belongs to (a    *)
(* seek or an HLS discontinuity starts a new run) and its place in the     *)
(* run; place 0 is the flush package.  The decoder mask is set once,       *)
(* before any thread uses the buffer, and is the constant Decoders.        *)
(***************************************************************************)
EXTENDS Integers, Sequences, FiniteSets

CONSTANTS
    Streams,            \* stream indexes of the container
    Decoders,           \* the indexes that have a decoder: m_decoderMask
    queueReadAheadSize  \* a queue shorter than this asks for more

maxDecoders == 32
FlushIndex == 0  \* index() of the flush package: acinerella.c zeroes flush_pkt

ASSUME StreamsAssumption == Streams \subseteq 0 .. maxDecoders - 1
ASSUME DecodersAssumption == Decoders \subseteq Streams /\ Decoders # {}
ASSUME ReadAheadAssumption == queueReadAheadSize \in Nat \ {0}

VARIABLES
    m_packages,             \* queue of packages per stream index
    m_events,               \* BinarySemaphore per stream index
    m_queueCompleteOrError, \* end of stream, error or terminated
    m_sinkFunction          \* TRUE while a sink function is installed

muxerVars == <<m_packages, m_events, m_queueCompleteOrError, m_sinkFunction>>

Package == [index : Streams \cup {FlushIndex}, epoch : Nat, place : Nat]

DataPackage(i, e, n) == [index |-> i, epoch |-> e, place |-> n]
FlushPackage(e)      == [index |-> FlushIndex, epoch |-> e, place |-> 0]
isFlushPackage(p)    == p.place = 0

isDecoderValid(i) == i \in Decoders

MuxerTypeOK ==
    /\ m_packages \in [Streams -> Seq(Package)]
    /\ m_events \in [Streams -> BOOLEAN]
    /\ m_queueCompleteOrError \in BOOLEAN
    /\ m_sinkFunction \in BOOLEAN

MuxerInit ==
    /\ m_packages = [i \in Streams |-> <<>>]
    /\ m_events = [i \in Streams |-> FALSE]
    /\ m_queueCompleteOrError = FALSE
    /\ m_sinkFunction = TRUE

(***************************************************************************)
(* The Acinerella thread's side.                                           *)
(***************************************************************************)

\* Mutant: a flush package treated like any other package.
ReceiversOwnQueueOnly(p) == {p.index} \cap Decoders

\* The queues a valid package goes into: a flush package goes into all valid
\* queues, any other into its own, or nowhere if its stream has no decoder.
Receivers(p) ==
    IF isFlushPackage(p) THEN Decoders ELSE {p.index} \cap Decoders

\* push(package) under m_lock.
PushLocked(p) ==
    /\ m_packages' = [i \in Streams |->
           IF i \in Receivers(p) THEN Append(m_packages[i], p)
                                 ELSE m_packages[i]]
    /\ UNCHANGED <<m_events, m_queueCompleteOrError, m_sinkFunction>>

\* Mutant: signalling without asking isDecoderValid.
SignalsOfPushUnchecked(p) == {p.index}

\* After the unlock only the event of the package's own index is signalled,
\* for a flush package too.
SignalsOfPush(p) == {p.index} \cap Decoders

\* push(nullptr): the end of the stream; every valid event is then signalled.
PushEOS ==
    /\ m_queueCompleteOrError' = TRUE
    /\ UNCHANGED <<m_packages, m_events, m_sinkFunction>>

SignalsOfEOS == Decoders

Signal(i) ==
    /\ m_events' = [m_events EXCEPT ![i] = TRUE]
    /\ UNCHANGED <<m_packages, m_queueCompleteOrError, m_sinkFunction>>

\* Mutant: flush() that only clears the end-of-stream flag.
FlushKeepsQueues ==
    /\ m_queueCompleteOrError' = FALSE
    /\ UNCHANGED <<m_packages, m_events, m_sinkFunction>>

\* flush(): one lock section.
Flush ==
    /\ m_queueCompleteOrError' = FALSE
    /\ m_packages' = [i \in Streams |->
           IF isDecoderValid(i) THEN <<>> ELSE m_packages[i]]
    /\ UNCHANGED <<m_events, m_sinkFunction>>

\* Mutant: terminate() that only drops the sink function.
TerminateKeepsWaiting ==
    /\ m_sinkFunction' = FALSE
    /\ UNCHANGED <<m_packages, m_events, m_queueCompleteOrError>>

\* terminate() under m_lock; every valid event is then signalled.
TerminateLocked ==
    /\ m_sinkFunction' = FALSE
    /\ m_queueCompleteOrError' = TRUE
    /\ UNCHANGED <<m_packages, m_events>>

(***************************************************************************)
(* The decoder threads' side: the lock section of nextPackage and its wait.*)
(***************************************************************************)

HasPackage(d) == m_packages[d] # <<>>

\* The section calls the sink function, still holding m_lock, when the queue
\* is empty or falls below the read-ahead size, unless the stream is complete.
CallsSink(d) ==
    /\ m_sinkFunction
    /\ ~m_queueCompleteOrError
    /\ Len(m_packages[d]) - 1 < queueReadAheadSize

PopPackage(d) ==
    /\ HasPackage(d)
    /\ m_packages' = [m_packages EXCEPT ![d] = Tail(@)]
    /\ UNCHANGED <<m_events, m_queueCompleteOrError, m_sinkFunction>>

\* Mutant: the end-of-stream flag tested before the queue.
NoMorePackagesIgnoresQueue(d) == m_queueCompleteOrError

\* nextPackage gives up with nullptr: nothing queued and nothing will come.
NoMorePackages(d) == ~HasPackage(d) /\ m_queueCompleteOrError

\* m_events[index].waitFor(1_s), woken by a signal, which it consumes.
WakeBySignal(d) ==
    /\ m_events[d]
    /\ m_events' = [m_events EXCEPT ![d] = FALSE]
    /\ UNCHANGED <<m_packages, m_queueCompleteOrError, m_sinkFunction>>

=============================================================================
