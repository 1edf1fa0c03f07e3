--------------------------- MODULE Demuxer_proofs ---------------------------
(***************************************************************************)
(* Proofs about the container and decoder threads of Demuxer, for every    *)
(* set of streams and decoders, every batch and read-ahead size and every  *)
(* bound.                                                                  *)
(*                                                                         *)
(* The inductive invariant IndInv strengthens the properties with          *)
(*   - EpochsBounded: nothing queued belongs to a run not yet begun,       *)
(*   - ResumesOutsideSeek: signalling never resumes between the flush() of *)
(*     startSeeking and the push of its flush package,                     *)
(*   - FileRunsBySeek: a seekable file never reopens, so that whatever is  *)
(*     queued belongs to the run of the last seek.                         *)
(* Each part has a lemma of its own with one step per action; typing is    *)
(* split into Flags (Booleans, done by Zenon) and Data (done by SMT).      *)
(* Two results that need invariants of their own follow: SingleRequest for *)
(* OneRequestAtATime and EndIsKnown for EndOfStreamMeansDrained.           *)
(***************************************************************************)
EXTENDS Demuxer, SequenceTheorems, FiniteSetTheorems, TLAPS

\* The Boolean part of TypeOK.
Flags ==
    /\ m_events \in [Streams -> BOOLEAN]
    /\ m_queueCompleteOrError \in BOOLEAN
    /\ m_sinkFunction \in BOOLEAN
    /\ m_killed \in BOOLEAN
    /\ m_waitingForDemux \in BOOLEAN
    /\ m_terminating \in BOOLEAN
    /\ m_isSeeking \in BOOLEAN
    /\ m_ioDiscontinuity \in BOOLEAN
    /\ m_liveEnded \in BOOLEAN
    /\ untilEOS \in BOOLEAN
    /\ srcEnd \in BOOLEAN
    /\ m_decoderTerminating \in [Decoders -> BOOLEAN]

\* The rest of TypeOK.
Data ==
    /\ m_packages \in [Streams -> Seq(Package)]
    /\ m_queue \in Seq(Task)
    /\ opc \in OwnerPC
    /\ resumeAt \in OwnerPC
    /\ packages \in Nat
    /\ pendingSignals \in SUBSET Decoders
    /\ epoch \in Nat
    /\ pushed \in [Streams -> 0 .. MaxRunPackages]
    /\ chunks \in 0 .. MaxEpochs
    /\ dpc \in [Decoders -> DecoderPC]
    /\ seen \in [Decoders -> Package]

\* The two parts are the type invariant of Demuxer.
LEMMA TypeParts == TypeOK <=> Flags /\ Data
  BY Zenon DEF TypeOK, MuxerTypeOK, Flags, Data

\* What the proofs use of the assumptions on the constants.
LEMMA ConstantsFacts ==
    /\ Decoders \subseteq Streams
    /\ Streams \subseteq Nat
    /\ MaxRunPackages \in Nat
    /\ MaxEpochs \in Nat
  BY StreamsAssumption, DecodersAssumption, BoundsAssumption DEF maxDecoders

\* The messages dispatch() puts into the container's queue.
LEMMA TaskFacts ==
    "demux" \in Task /\ "seek" \in Task /\ "discontinuity" \in Task
      /\ "terminate" \in Task
  BY DEF Task

\* The packages the demuxer makes are packages, with natural run and place.
LEMMA PackageFacts ==
    /\ \A e \in Nat : FlushPackage(e) \in Package
    /\ \A i \in Streams, e \in Nat, n \in Nat :
           DataPackage(i, e, n) \in Package
    /\ \A p \in Package : p.epoch \in Nat /\ p.place \in Nat
  BY DEF FlushPackage, DataPackage, Package, FlushIndex

\* Every step keeps the flags of container, muxer and decoders Boolean.
LEMMA FlagsStep == Flags /\ [Next]_vars => Flags'
  <1> SUFFICES ASSUME Flags, [Next]_vars PROVE Flags'
    OBVIOUS
  <1> USE DEF Flags, muxerVars, containerVars, ownerVars, sourceVars,
              decoderVars
  <1>1. CASE SeekRequest
    BY <1>1, Zenon DEF SeekRequest
  <1>2. CASE Terminate
    BY <1>2, Zenon DEF Terminate
  <1>3. CASE StartDemux
    BY <1>3, Zenon DEF StartDemux, Takes
  <1>4. CASE StartDiscontinuity
    BY <1>4, Zenon DEF StartDiscontinuity, Takes
  <1>5. CASE IgnoreSeek
    BY <1>5, Zenon DEF IgnoreSeek, Takes
  <1>6. CASE StartSeeking
    BY <1>6, Zenon DEF StartSeeking, Takes, Flush
  <1>7. CASE PushSeekFlush
    BY <1>7, Zenon DEF PushSeekFlush, PushLocked
  <1>8. CASE PerformTerminate
    BY <1>8, Zenon DEF PerformTerminate, Takes
  <1>9. CASE ReadDiscontinuity
    BY <1>9, Zenon DEF ReadDiscontinuity
  <1>10. CASE ReadLiveEOF
    BY <1>10, Zenon DEF ReadLiveEOF
  <1>11. CASE DemuxLoop
    BY <1>11, Zenon DEF DemuxLoop
  <1>12. CASE DemuxEnd
    BY <1>12, Zenon DEF DemuxEnd, PushEOS
  <1>13. CASE FinishDemux
    BY <1>13, Zenon DEF FinishDemux
  <1>14. CASE ReopenFails
    BY <1>14, Zenon DEF ReopenFails
  <1>15. CASE ReopenSucceeds
    BY <1>15, Zenon DEF ReopenSucceeds, PushLocked
  <1>16. CASE SignalNext
    BY <1>16, Zenon DEF SignalNext, Signal
  <1>17. CASE SignalsDone
    BY <1>17, Zenon DEF SignalsDone
  <1>18. CASE TerminateMuxer
    BY <1>18, Zenon DEF TerminateMuxer, TerminateLocked
  <1>19. CASE ThreadEnds
    BY <1>19, Zenon DEF ThreadEnds
  <1>20. CASE EndSeeking
    BY <1>20, Zenon DEF EndSeeking
  <1>21. CASE Finished
    BY <1>21, Zenon DEF Finished, vars
  <1>22. ASSUME NEW i \in Streams, DemuxPackage(i) PROVE Flags'
    BY <1>22, Zenon DEF DemuxPackage, PushLocked
  <1>23. ASSUME NEW d \in Decoders, TerminateDecoder(d) PROVE Flags'
    BY <1>23, Zenon DEF TerminateDecoder
  <1>24. ASSUME NEW d \in Decoders, WarmUp(d) PROVE Flags'
    BY <1>24, Zenon DEF WarmUp
  <1>25. ASSUME NEW d \in Decoders, CallNext(d) PROVE Flags'
    BY <1>25, Zenon DEF CallNext
  <1>26. ASSUME NEW d \in Decoders, NextPops(d) PROVE Flags'
    BY <1>26, Zenon DEF NextPops, PopPackage, SinkFunction
  <1>27. ASSUME NEW d \in Decoders, NextIsNull(d) PROVE Flags'
    BY <1>27, Zenon DEF NextIsNull
  <1>28. ASSUME NEW d \in Decoders, NextWaits(d) PROVE Flags'
    BY <1>28, Zenon DEF NextWaits, SinkFunction
  <1>29. ASSUME NEW d \in Decoders, Woken(d) PROVE Flags'
    BY <1>29, Zenon DEF Woken, WakeBySignal
  <1>30. ASSUME NEW d \in Decoders, WaitTimesOut(d) PROVE Flags'
    BY <1>30, Zenon DEF WaitTimesOut
  <1>31. ASSUME NEW d \in Decoders, DecoderExits(d) PROVE Flags'
    BY <1>31, Zenon DEF DecoderExits
  <1>32. CASE UNCHANGED vars
    BY <1>32, Zenon DEF vars
  <1> QED
    BY <1>1, <1>2, <1>3, <1>4, <1>5, <1>6, <1>7, <1>8, <1>9, <1>10, <1>11,
       <1>12, <1>13, <1>14, <1>15, <1>16, <1>17, <1>18, <1>19, <1>20, <1>21,
       <1>22, <1>23, <1>24, <1>25, <1>26, <1>27, <1>28, <1>29, <1>30, <1>31,
       <1>32 DEF Next, OwnerStep, InNextPackage

\* Every step keeps queues, positions and counters in their types.
LEMMA DataStep == Data /\ [Next]_vars => Data'
  <1> SUFFICES ASSUME Data, [Next]_vars PROVE Data'
    OBVIOUS
  <1> USE DEF Data, OwnerPC, DecoderPC, muxerVars,
              containerVars, ownerVars, sourceVars, decoderVars
  <1>1. CASE SeekRequest
    BY <1>1, ConstantsFacts, TaskFacts, PackageFacts DEF SeekRequest
  <1>2. CASE Terminate
    BY <1>2, ConstantsFacts, TaskFacts, PackageFacts DEF Terminate
  <1>3. CASE StartDemux
    BY <1>3, ConstantsFacts, TaskFacts, PackageFacts DEF StartDemux, Takes
  <1>4. CASE StartDiscontinuity
    BY <1>4, ConstantsFacts, TaskFacts, PackageFacts DEF StartDiscontinuity,
       Takes
  <1>5. CASE IgnoreSeek
    BY <1>5, ConstantsFacts, TaskFacts, PackageFacts DEF IgnoreSeek, Takes
  <1>6. CASE StartSeeking
    BY <1>6, ConstantsFacts, TaskFacts, PackageFacts DEF StartSeeking, Takes,
       Flush, isDecoderValid
  <1>7. CASE PushSeekFlush
    BY <1>7, ConstantsFacts, TaskFacts, PackageFacts DEF PushSeekFlush,
       PushLocked, SignalsOfPush
  <1>8. CASE PerformTerminate
    BY <1>8, ConstantsFacts, TaskFacts, PackageFacts DEF PerformTerminate,
       Takes
  <1>9. CASE ReadDiscontinuity
    BY <1>9, ConstantsFacts, TaskFacts, PackageFacts DEF ReadDiscontinuity
  <1>10. CASE ReadLiveEOF
    BY <1>10, ConstantsFacts, TaskFacts, PackageFacts DEF ReadLiveEOF
  <1>11. CASE DemuxLoop
    BY <1>11, ConstantsFacts, TaskFacts, PackageFacts DEF DemuxLoop
  <1>12. CASE DemuxEnd
    BY <1>12, ConstantsFacts, TaskFacts, PackageFacts DEF DemuxEnd, PushEOS,
       SignalsOfEOS
  <1>13. CASE FinishDemux
    BY <1>13, ConstantsFacts, TaskFacts, PackageFacts DEF FinishDemux
  <1>14. CASE ReopenFails
    BY <1>14, ConstantsFacts, TaskFacts, PackageFacts DEF ReopenFails
  <1>15. CASE ReopenSucceeds
    BY <1>15, ConstantsFacts, TaskFacts, PackageFacts DEF ReopenSucceeds,
       PushLocked, SignalsOfPush
  <1>16. CASE SignalNext
    BY <1>16, ConstantsFacts, TaskFacts, PackageFacts DEF SignalNext, Signal
  <1>17. CASE SignalsDone
    BY <1>17, ConstantsFacts, TaskFacts, PackageFacts DEF SignalsDone
  <1>18. CASE TerminateMuxer
    BY <1>18, ConstantsFacts, TaskFacts, PackageFacts DEF TerminateMuxer,
       TerminateLocked, SignalsOfEOS
  <1>19. CASE ThreadEnds
    BY <1>19, ConstantsFacts, TaskFacts, PackageFacts DEF ThreadEnds
  <1>20. CASE EndSeeking
    BY <1>20, ConstantsFacts, TaskFacts, PackageFacts DEF EndSeeking
  <1>21. CASE Finished
    BY <1>21, ConstantsFacts, TaskFacts, PackageFacts DEF Finished, vars
  <1>22. ASSUME NEW i \in Streams, DemuxPackage(i) PROVE Data'
    BY <1>22, ConstantsFacts, TaskFacts, PackageFacts DEF DemuxPackage,
       PushLocked, SignalsOfPush, RunIsFull
  <1>23. ASSUME NEW d \in Decoders, TerminateDecoder(d) PROVE Data'
    BY <1>23, ConstantsFacts, TaskFacts, PackageFacts DEF TerminateDecoder
  <1>24. ASSUME NEW d \in Decoders, WarmUp(d) PROVE Data'
    BY <1>24, ConstantsFacts, TaskFacts, PackageFacts DEF WarmUp
  <1>25. ASSUME NEW d \in Decoders, CallNext(d) PROVE Data'
    BY <1>25, ConstantsFacts, TaskFacts, PackageFacts DEF CallNext
  <1>26. ASSUME NEW d \in Decoders, NextPops(d) PROVE Data'
    BY <1>26, ConstantsFacts, TaskFacts, PackageFacts DEF NextPops,
       PopPackage, HasPackage, SinkFunction
  <1>27. ASSUME NEW d \in Decoders, NextIsNull(d) PROVE Data'
    BY <1>27, ConstantsFacts, TaskFacts, PackageFacts DEF NextIsNull
  <1>28. ASSUME NEW d \in Decoders, NextWaits(d) PROVE Data'
    BY <1>28, ConstantsFacts, TaskFacts, PackageFacts DEF NextWaits,
       SinkFunction
  <1>29. ASSUME NEW d \in Decoders, Woken(d) PROVE Data'
    BY <1>29, ConstantsFacts, TaskFacts, PackageFacts DEF Woken, WakeBySignal
  <1>30. ASSUME NEW d \in Decoders, WaitTimesOut(d) PROVE Data'
    BY <1>30, ConstantsFacts, TaskFacts, PackageFacts DEF WaitTimesOut
  <1>31. ASSUME NEW d \in Decoders, DecoderExits(d) PROVE Data'
    BY <1>31, ConstantsFacts, TaskFacts, PackageFacts DEF DecoderExits
  <1>32. CASE UNCHANGED vars
    BY <1>32, ConstantsFacts, TaskFacts, PackageFacts DEF vars
  <1> QED
    BY <1>1, <1>2, <1>3, <1>4, <1>5, <1>6, <1>7, <1>8, <1>9, <1>10, <1>11,
       <1>12, <1>13, <1>14, <1>15, <1>16, <1>17, <1>18, <1>19, <1>20, <1>21,
       <1>22, <1>23, <1>24, <1>25, <1>26, <1>27, <1>28, <1>29, <1>30, <1>31,
       <1>32 DEF Next, OwnerStep, InNextPackage

\* No package taken or queued belongs to a run that has not begun.
EpochsBounded ==
    \A d \in Decoders :
        /\ seen[d].epoch <= epoch
        /\ \A k \in 1 .. Len(m_packages[d]) : m_packages[d][k].epoch <= epoch

\* Where the container thread goes on after the signals of a push.
ResumesOutsideSeek == resumeAt \in {"idle", "demux", "demuxDone", "join"}

\* FeedUnbroken with what makes it inductive.
FeedInv == FeedUnbroken /\ EpochsBounded /\ ResumesOutsideSeek

\* push() at the end of an unbroken feed keeps it unbroken.
LEMMA AppendToFeed ==
    ASSUME NEW s \in Package, NEW q \in Seq(Package), NEW p \in Package,
           UnbrokenFeed(s, q), Follows(FeedEnd(s, q), p)
    PROVE  /\ UnbrokenFeed(s, Append(q, p))
           /\ FeedEnd(s, Append(q, p)) = p
  BY DEF UnbrokenFeed, FeedEnd

\* Appending a package keeps a bound on the runs of a queue.
LEMMA AppendBound ==
    ASSUME NEW q \in Seq(Package), NEW p \in Package, NEW e \in Nat,
           \A k \in 1 .. Len(q) : q[k].epoch <= e, p.epoch <= e
    PROVE  \A k \in 1 .. Len(Append(q, p)) : Append(q, p)[k].epoch <= e
  OBVIOUS

\* nextPackage() taking the head leaves an unbroken feed with the same end.
LEMMA TakeFromFeed ==
    ASSUME NEW s \in Package, NEW q \in Seq(Package), q # <<>>,
           UnbrokenFeed(s, q)
    PROVE  /\ Follows(s, Head(q))
           /\ UnbrokenFeed(Head(q), Tail(q))
           /\ FeedEnd(Head(q), Tail(q)) = FeedEnd(s, q)
  <1>1. Follows(s, Head(q))
    BY DEF UnbrokenFeed
  <1>2. Tail(q) # <<>> => Follows(Head(q), Tail(q)[1])
    BY DEF UnbrokenFeed
  <1>3. ASSUME NEW k \in 1 .. Len(Tail(q)) - 1
        PROVE  Follows(Tail(q)[k], Tail(q)[k + 1])
    <2>1. k + 1 \in 1 .. Len(q) - 1 /\ Tail(q)[k] = q[k + 1]
            /\ Tail(q)[k + 1] = q[(k + 1) + 1]
      OBVIOUS
    <2> QED
      BY <2>1 DEF UnbrokenFeed
  <1>4. FeedEnd(Head(q), Tail(q)) = FeedEnd(s, q)
    <2>1. CASE Tail(q) = <<>>
      <3>1. Len(q) = 1
        <4>1. Len(Tail(q)) = Len(q) - 1 /\ Len(q) \in Nat
          OBVIOUS
        <4> QED
          BY <2>1, <4>1
      <3> QED
        BY <2>1, <3>1 DEF FeedEnd
    <2>2. CASE Tail(q) # <<>>
      <3>1. Len(Tail(q)) \in Nat \ {0} /\ Len(q) = Len(Tail(q)) + 1
              /\ Tail(q)[Len(Tail(q))] = q[Len(q)]
        <4> Tail(q) \in Seq(Package)
          OBVIOUS
        <4>0. Len(Tail(q)) # 0
          BY <2>2, EmptySeq
        <4>1. Len(Tail(q)) = Len(q) - 1 /\ Len(q) \in Nat /\ Len(q) # 1
          BY <4>0
        <4>2. Len(q) # 0
          OBVIOUS
        <4> QED
          BY <4>1, <4>2
      <3> QED
        BY <2>2, <3>1 DEF FeedEnd
    <2> QED
      BY <2>1, <2>2
  <1> QED
    BY <1>1, <1>2, <1>3, <1>4 DEF UnbrokenFeed

\* Every step of every thread keeps the feeds unbroken.
LEMMA FeedStep == Data /\ Data' /\ FeedInv /\ [Next]_vars => FeedInv'
  <1> SUFFICES ASSUME Data, Data', FeedInv, [Next]_vars PROVE FeedInv'
    OBVIOUS
  <1> USE DEF Data, FeedInv, FeedUnbroken, EpochsBounded,
              ResumesOutsideSeek, isFlushPackage, muxerVars, containerVars,
              ownerVars, sourceVars, decoderVars
  <1>1. CASE SeekRequest
    BY <1>1, ConstantsFacts, PackageFacts DEF SeekRequest
  <1>2. CASE Terminate
    BY <1>2, ConstantsFacts, PackageFacts DEF Terminate
  <1>3. CASE StartDemux
    BY <1>3, ConstantsFacts, PackageFacts DEF StartDemux, Takes
  <1>4. CASE StartDiscontinuity
    BY <1>4, ConstantsFacts, PackageFacts DEF StartDiscontinuity, Takes
  <1>5. CASE IgnoreSeek
    BY <1>5, ConstantsFacts, PackageFacts DEF IgnoreSeek, Takes
  <1>6. CASE StartSeeking
    BY <1>6, ConstantsFacts, PackageFacts DEF StartSeeking, Takes, Flush,
       isDecoderValid, UnbrokenFeed
  <1>7. CASE PushSeekFlush
    <2> DEFINE p == FlushPackage(epoch)
    <2>1. /\ p \in Package
          /\ epoch' \in Nat /\ epoch' >= epoch /\ p.epoch = epoch'
          /\ seen' = seen
          /\ opc' = "signal" /\ resumeAt' \in {"idle", "demux"}
      BY <1>7, PackageFacts, ConstantsFacts
         DEF PushSeekFlush, FlushPackage, DataPackage
    <2>2. ASSUME NEW d \in Decoders
          PROVE  /\ UnbrokenFeed(seen'[d], m_packages'[d])
                 /\ FeedEnd(seen'[d], m_packages'[d]).epoch = epoch'
                 /\ FeedEnd(seen'[d], m_packages'[d]).place = pushed'[d]
                 /\ \A k \in 1 .. Len(m_packages'[d]) :
                        m_packages'[d][k].epoch <= epoch'
      <3> DEFINE s == seen[d]
                 q == m_packages[d]
      <3>1. s \in Package /\ q \in Seq(Package) /\ UnbrokenFeed(s, q)
        BY ConstantsFacts
      <3>b. \A k \in 1 .. Len(q) : q[k].epoch <= epoch'
        <4>1. ASSUME NEW k \in 1 .. Len(q) PROVE q[k].epoch <= epoch'
          <5>1. q[k] \in Package /\ q[k].epoch <= epoch
            BY <3>1
          <5>2. q[k].epoch \in Nat
            BY <5>1, PackageFacts
          <5> HIDE DEF p, q
          <5> QED
            BY <2>1, <5>1, <5>2
        <4> QED
          BY <4>1
      <3>c. p.epoch <= epoch'
        <4> HIDE DEF p
        <4> QED
          BY <2>1
      <3>2. m_packages'[d] = Append(q, p) /\ pushed'[d] = p.place
        BY <1>7, ConstantsFacts
           DEF PushSeekFlush, PushLocked, Receivers, FlushPackage
      <3>3. Follows(FeedEnd(s, q), p)
        BY <1>7, <3>1, PackageFacts, ConstantsFacts
           DEF PushSeekFlush, Follows, FeedEnd, FlushPackage
      <3>4. UnbrokenFeed(s, Append(q, p)) /\ FeedEnd(s, Append(q, p)) = p
        BY <2>1, <3>1, <3>3, AppendToFeed
      <3>5. \A k \in 1 .. Len(Append(q, p)) : Append(q, p)[k].epoch <= epoch'
        BY <2>1, <3>1, <3>b, <3>c, AppendBound
      <3> QED
        BY <2>1, <3>1, <3>2, <3>4, <3>5
    <2>3. FeedUnbroken'
      BY <2>1, <2>2
    <2>4. EpochsBounded'
      BY <2>1, <2>2, PackageFacts
    <2> QED
      BY <2>1, <2>3, <2>4
  <1>8. CASE PerformTerminate
    BY <1>8, ConstantsFacts, PackageFacts DEF PerformTerminate, Takes
  <1>9. CASE ReadDiscontinuity
    BY <1>9, ConstantsFacts, PackageFacts DEF ReadDiscontinuity
  <1>10. CASE ReadLiveEOF
    BY <1>10, ConstantsFacts, PackageFacts DEF ReadLiveEOF
  <1>11. CASE DemuxLoop
    BY <1>11, ConstantsFacts, PackageFacts DEF DemuxLoop
  <1>12. CASE DemuxEnd
    <2>1. /\ UNCHANGED <<m_packages, seen, epoch, pushed>>
          /\ opc' # "seekPush" /\ opc # "seekPush"
          /\ resumeAt' \in {resumeAt, "demuxDone"}
      BY <1>12, Zenon DEF DemuxEnd, PushEOS
    <2> QED
      BY <2>1
  <1>13. CASE FinishDemux
    BY <1>13, ConstantsFacts, PackageFacts DEF FinishDemux
  <1>14. CASE ReopenFails
    BY <1>14, ConstantsFacts, PackageFacts DEF ReopenFails
  <1>15. CASE ReopenSucceeds
    <2> DEFINE p == FlushPackage(epoch + 1)
    <2>1. /\ p \in Package
          /\ epoch' \in Nat /\ epoch' >= epoch /\ p.epoch = epoch'
          /\ seen' = seen
          /\ opc' = "signal" /\ resumeAt' \in {"idle", "demux"}
      BY <1>15, PackageFacts, ConstantsFacts
         DEF ReopenSucceeds, FlushPackage, DataPackage
    <2>2. ASSUME NEW d \in Decoders
          PROVE  /\ UnbrokenFeed(seen'[d], m_packages'[d])
                 /\ FeedEnd(seen'[d], m_packages'[d]).epoch = epoch'
                 /\ FeedEnd(seen'[d], m_packages'[d]).place = pushed'[d]
                 /\ \A k \in 1 .. Len(m_packages'[d]) :
                        m_packages'[d][k].epoch <= epoch'
      <3> DEFINE s == seen[d]
                 q == m_packages[d]
      <3>1. s \in Package /\ q \in Seq(Package) /\ UnbrokenFeed(s, q)
        BY ConstantsFacts
      <3>b. \A k \in 1 .. Len(q) : q[k].epoch <= epoch'
        <4>1. ASSUME NEW k \in 1 .. Len(q) PROVE q[k].epoch <= epoch'
          <5>1. q[k] \in Package /\ q[k].epoch <= epoch
            BY <3>1
          <5>2. q[k].epoch \in Nat
            BY <5>1, PackageFacts
          <5> HIDE DEF p, q
          <5> QED
            BY <2>1, <5>1, <5>2
        <4> QED
          BY <4>1
      <3>c. p.epoch <= epoch'
        <4> HIDE DEF p
        <4> QED
          BY <2>1
      <3>2. m_packages'[d] = Append(q, p) /\ pushed'[d] = p.place
        BY <1>15, ConstantsFacts
           DEF ReopenSucceeds, PushLocked, Receivers, FlushPackage
      <3>3. Follows(FeedEnd(s, q), p)
        BY <1>15, <3>1, PackageFacts, ConstantsFacts
           DEF ReopenSucceeds, Follows, FeedEnd, FlushPackage
      <3>4. UnbrokenFeed(s, Append(q, p)) /\ FeedEnd(s, Append(q, p)) = p
        BY <2>1, <3>1, <3>3, AppendToFeed
      <3>5. \A k \in 1 .. Len(Append(q, p)) : Append(q, p)[k].epoch <= epoch'
        BY <2>1, <3>1, <3>b, <3>c, AppendBound
      <3> QED
        BY <2>1, <3>1, <3>2, <3>4, <3>5
    <2>3. FeedUnbroken'
      BY <2>1, <2>2
    <2>4. EpochsBounded'
      BY <2>1, <2>2, PackageFacts
    <2> QED
      BY <2>1, <2>3, <2>4
  <1>16. CASE SignalNext
    BY <1>16, ConstantsFacts, PackageFacts DEF SignalNext, Signal
  <1>17. CASE SignalsDone
    BY <1>17, ConstantsFacts, PackageFacts DEF SignalsDone
  <1>18. CASE TerminateMuxer
    BY <1>18, ConstantsFacts, PackageFacts DEF TerminateMuxer, TerminateLocked
  <1>19. CASE ThreadEnds
    BY <1>19, ConstantsFacts, PackageFacts DEF ThreadEnds
  <1>20. CASE EndSeeking
    BY <1>20, ConstantsFacts, PackageFacts DEF EndSeeking
  <1>21. CASE Finished
    BY <1>21, ConstantsFacts, PackageFacts DEF Finished, vars
  <1>22. ASSUME NEW i \in Streams, DemuxPackage(i) PROVE FeedInv'
    <2> DEFINE p == DataPackage(i, epoch, pushed[i] + 1)
    <2>1. /\ p \in Package
          /\ epoch' \in Nat /\ epoch' >= epoch /\ p.epoch = epoch'
          /\ seen' = seen
          /\ opc' = "signal" /\ resumeAt' \in {"idle", "demux"}
      BY <1>22, PackageFacts, ConstantsFacts
         DEF DemuxPackage, FlushPackage, DataPackage
    <2>2. ASSUME NEW d \in Decoders
          PROVE  /\ UnbrokenFeed(seen'[d], m_packages'[d])
                 /\ FeedEnd(seen'[d], m_packages'[d]).epoch = epoch'
                 /\ FeedEnd(seen'[d], m_packages'[d]).place = pushed'[d]
                 /\ \A k \in 1 .. Len(m_packages'[d]) :
                        m_packages'[d][k].epoch <= epoch'
      <3> DEFINE s == seen[d]
                 q == m_packages[d]
      <3>1. s \in Package /\ q \in Seq(Package) /\ UnbrokenFeed(s, q)
        BY ConstantsFacts
      <3>b. \A k \in 1 .. Len(q) : q[k].epoch <= epoch'
        <4>1. ASSUME NEW k \in 1 .. Len(q) PROVE q[k].epoch <= epoch'
          <5>1. q[k] \in Package /\ q[k].epoch <= epoch
            BY <3>1
          <5>2. q[k].epoch \in Nat
            BY <5>1, PackageFacts
          <5> HIDE DEF p, q
          <5> QED
            BY <2>1, <5>1, <5>2
        <4> QED
          BY <4>1
      <3>c. p.epoch <= epoch'
        <4> HIDE DEF p
        <4> QED
          BY <2>1
      <3>2. CASE d = i
        <4>1. m_packages'[d] = Append(q, p) /\ pushed'[d] = p.place
          BY <1>22, <3>2, ConstantsFacts
             DEF DemuxPackage, PushLocked, Receivers, DataPackage
        <4>2. Follows(FeedEnd(s, q), p)
          BY <1>22, <3>1, <3>2, PackageFacts, ConstantsFacts
             DEF DemuxPackage, Follows, FeedEnd, DataPackage
        <4>3. UnbrokenFeed(s, Append(q, p)) /\ FeedEnd(s, Append(q, p)) = p
          BY <2>1, <3>1, <4>2, AppendToFeed
        <4>4. \A k \in 1 .. Len(Append(q, p)) :
                  Append(q, p)[k].epoch <= epoch'
          BY <2>1, <3>1, <3>b, <3>c, AppendBound
        <4> QED
          BY <2>1, <3>1, <4>1, <4>3, <4>4
      <3>3. CASE d # i
        BY <1>22, <2>1, <3>1, <3>3, ConstantsFacts
           DEF DemuxPackage, PushLocked, Receivers, DataPackage
      <3> QED
        BY <3>2, <3>3
    <2>3. FeedUnbroken'
      BY <2>1, <2>2
    <2>4. EpochsBounded'
      BY <2>1, <2>2, PackageFacts
    <2> QED
      BY <2>1, <2>3, <2>4
  <1>23. ASSUME NEW d \in Decoders, TerminateDecoder(d) PROVE FeedInv'
    BY <1>23, ConstantsFacts, PackageFacts DEF TerminateDecoder
  <1>24. ASSUME NEW d \in Decoders, WarmUp(d) PROVE FeedInv'
    BY <1>24, ConstantsFacts, PackageFacts DEF WarmUp
  <1>25. ASSUME NEW d \in Decoders, CallNext(d) PROVE FeedInv'
    BY <1>25, ConstantsFacts, PackageFacts DEF CallNext
  <1>26. ASSUME NEW d \in Decoders, NextPops(d) PROVE FeedInv'
    <2>1. /\ m_packages[d] # <<>>
          /\ m_packages' = [m_packages EXCEPT ![d] = Tail(m_packages[d])]
          /\ seen' = [seen EXCEPT ![d] = Head(m_packages[d])]
          /\ UNCHANGED <<epoch, pushed, opc, resumeAt>>
      BY <1>26 DEF NextPops, PopPackage, HasPackage
    <2>2. /\ Follows(seen[d], Head(m_packages[d]))
          /\ UnbrokenFeed(Head(m_packages[d]), Tail(m_packages[d]))
          /\ FeedEnd(Head(m_packages[d]), Tail(m_packages[d]))
                = FeedEnd(seen[d], m_packages[d])
      BY <2>1, TakeFromFeed, ConstantsFacts
    <2>3. FeedUnbroken'
      BY <2>1, <2>2, ConstantsFacts
    <2>4. EpochsBounded'
      BY <2>1, ConstantsFacts
    <2> QED
      BY <2>1, <2>3, <2>4
  <1>27. ASSUME NEW d \in Decoders, NextIsNull(d) PROVE FeedInv'
    BY <1>27, ConstantsFacts, PackageFacts DEF NextIsNull
  <1>28. ASSUME NEW d \in Decoders, NextWaits(d) PROVE FeedInv'
    BY <1>28, ConstantsFacts, PackageFacts DEF NextWaits, SinkFunction
  <1>29. ASSUME NEW d \in Decoders, Woken(d) PROVE FeedInv'
    BY <1>29, ConstantsFacts, PackageFacts DEF Woken, WakeBySignal
  <1>30. ASSUME NEW d \in Decoders, WaitTimesOut(d) PROVE FeedInv'
    BY <1>30, ConstantsFacts, PackageFacts DEF WaitTimesOut
  <1>31. ASSUME NEW d \in Decoders, DecoderExits(d) PROVE FeedInv'
    BY <1>31, ConstantsFacts, PackageFacts DEF DecoderExits
  <1>32. CASE UNCHANGED vars
    BY <1>32, ConstantsFacts, PackageFacts DEF vars
  <1> QED
    BY <1>1, <1>2, <1>3, <1>4, <1>5, <1>6, <1>7, <1>8, <1>9, <1>10, <1>11,
       <1>12, <1>13, <1>14, <1>15, <1>16, <1>17, <1>18, <1>19, <1>20, <1>21,
       <1>22, <1>23, <1>24, <1>25, <1>26, <1>27, <1>28, <1>29, <1>30, <1>31,
       <1>32 DEF Next, OwnerStep, InNextPackage

\* How the places of a queue move when its head is taken.
LEMMA TailOfQueue ==
    ASSUME NEW q \in Seq(Task), q # <<>>
    PROVE  /\ \A k \in 1 .. Len(Tail(q)) :
                  k + 1 \in 1 .. Len(q) /\ Tail(q)[k] = q[k + 1]
           /\ \A k \in 2 .. Len(q) :
                  k - 1 \in 1 .. Len(Tail(q)) /\ Tail(q)[k - 1] = q[k]
  OBVIOUS

\* Taking another message leaves a queued demux request in the queue.
LEMMA TailKeepsRequest ==
    ASSUME NEW q \in Seq(Task), q # <<>>, Head(q) # "demux",
           NEW k \in 1 .. Len(q), q[k] = "demux"
    PROVE  \E j \in 1 .. Len(Tail(q)) : Tail(q)[j] = "demux"
  <1>1. k # 1
    OBVIOUS
  <1>2. k \in 2 .. Len(q)
    BY <1>1
  <1>3. k - 1 \in 1 .. Len(Tail(q)) /\ Tail(q)[k - 1] = "demux"
    BY <1>2, TailOfQueue
  <1> QED
    BY <1>3

\* Appending to the queue keeps what is in it.
LEMMA AppendKeepsRequest ==
    ASSUME NEW q \in Seq(Task), NEW t \in Task
    PROVE  /\ \A k \in 1 .. Len(q) :
                  k \in 1 .. Len(Append(q, t)) /\ Append(q, t)[k] = q[k]
           /\ Len(q) + 1 \in 1 .. Len(Append(q, t))
           /\ Append(q, t)[Len(q) + 1] = t
  OBVIOUS

\* Appending one message adds no other one.
LEMMA AppendAddsNoOther ==
    ASSUME NEW q \in Seq(Task), NEW t \in Task, NEW u, t # u,
           \A k \in 1 .. Len(q) : q[k] # u
    PROVE  \A k \in 1 .. Len(Append(q, t)) : Append(q, t)[k] # u
  OBVIOUS


\* Every step keeps RequestIsOutstanding: m_waitingForDemux never sticks.
LEMMA RequestStep ==
    Data /\ RequestIsOutstanding /\ [Next]_vars => RequestIsOutstanding'
  <1> SUFFICES ASSUME Data, RequestIsOutstanding, [Next]_vars
               PROVE  RequestIsOutstanding'
    OBVIOUS
  <1> USE DEF Data, RequestIsOutstanding, DemuxTasks, muxerVars,
              containerVars, ownerVars, sourceVars, decoderVars
  <1>1. CASE SeekRequest
    BY <1>1 DEF SeekRequest
  <1>2. CASE Terminate
    BY <1>2 DEF Terminate
  <1>3. CASE StartDemux
    BY <1>3 DEF StartDemux, Takes
  <1>4. CASE StartDiscontinuity
    BY <1>4 DEF StartDiscontinuity, Takes
  <1>5. CASE IgnoreSeek
    <2>1. /\ opc = "idle"
          /\ m_queue # <<>> /\ Head(m_queue) # "demux"
          /\ m_queue' = Tail(m_queue)
          /\ m_waitingForDemux' = m_waitingForDemux
      BY <1>5 DEF IgnoreSeek, Takes
    <2>2. ASSUME m_waitingForDemux' PROVE DemuxTasks' # {}
      <3>1. PICK k \in 1 .. Len(m_queue) : m_queue[k] = "demux"
        BY <2>1, <2>2
      <3> QED
        BY <2>1, <3>1, TailKeepsRequest
    <2> QED
      BY <2>2
  <1>6. CASE StartSeeking
    <2>1. /\ opc = "idle"
          /\ m_queue # <<>> /\ Head(m_queue) # "demux"
          /\ m_queue' = Tail(m_queue)
          /\ m_waitingForDemux' = m_waitingForDemux
      BY <1>6 DEF StartSeeking, Takes
    <2>2. ASSUME m_waitingForDemux' PROVE DemuxTasks' # {}
      <3>1. PICK k \in 1 .. Len(m_queue) : m_queue[k] = "demux"
        BY <2>1, <2>2
      <3> QED
        BY <2>1, <3>1, TailKeepsRequest
    <2> QED
      BY <2>2
  <1>7. CASE PushSeekFlush
    BY <1>7 DEF PushSeekFlush, PushLocked
  <1>8. CASE PerformTerminate
    <2>1. /\ opc = "idle"
          /\ m_queue # <<>> /\ Head(m_queue) # "demux"
          /\ m_queue' = Tail(m_queue)
          /\ m_waitingForDemux' = m_waitingForDemux
      BY <1>8 DEF PerformTerminate, Takes
    <2>2. ASSUME m_waitingForDemux' PROVE DemuxTasks' # {}
      <3>1. PICK k \in 1 .. Len(m_queue) : m_queue[k] = "demux"
        BY <2>1, <2>2
      <3> QED
        BY <2>1, <3>1, TailKeepsRequest
    <2> QED
      BY <2>2
  <1>9. CASE ReadDiscontinuity
    BY <1>9 DEF ReadDiscontinuity
  <1>10. CASE ReadLiveEOF
    BY <1>10 DEF ReadLiveEOF
  <1>11. CASE DemuxLoop
    BY <1>11 DEF DemuxLoop
  <1>12. CASE DemuxEnd
    BY <1>12 DEF DemuxEnd, PushEOS
  <1>13. CASE FinishDemux
    BY <1>13 DEF FinishDemux
  <1>14. CASE ReopenFails
    BY <1>14 DEF ReopenFails
  <1>15. CASE ReopenSucceeds
    BY <1>15 DEF ReopenSucceeds, PushLocked
  <1>16. CASE SignalNext
    BY <1>16 DEF SignalNext
  <1>17. CASE SignalsDone
    BY <1>17 DEF SignalsDone
  <1>18. CASE TerminateMuxer
    BY <1>18 DEF TerminateMuxer, TerminateLocked
  <1>19. CASE ThreadEnds
    BY <1>19 DEF ThreadEnds
  <1>20. CASE EndSeeking
    BY <1>20 DEF EndSeeking
  <1>21. CASE Finished
    BY <1>21 DEF Finished, vars
  <1>22. ASSUME NEW i \in Streams, DemuxPackage(i) PROVE RequestIsOutstanding'
    BY <1>22 DEF DemuxPackage
  <1>23. ASSUME NEW d \in Decoders, TerminateDecoder(d)
         PROVE  RequestIsOutstanding'
    BY <1>23 DEF TerminateDecoder
  <1>24. ASSUME NEW d \in Decoders, WarmUp(d) PROVE RequestIsOutstanding'
    BY <1>24 DEF WarmUp
  <1>25. ASSUME NEW d \in Decoders, CallNext(d) PROVE RequestIsOutstanding'
    BY <1>25 DEF CallNext
  <1>26. ASSUME NEW d \in Decoders, NextPops(d) PROVE RequestIsOutstanding'
    <2>1. UNCHANGED <<opc, resumeAt>>
      BY <1>26 DEF NextPops
    <2>2. PICK calls \in BOOLEAN : SinkFunction(calls)
      BY <1>26, Zenon DEF NextPops, CallsSink
    <2>3. CASE calls /\ ~m_waitingForDemux
      <3>1. m_queue' = Append(m_queue, "demux")
        BY <2>2, <2>3 DEF SinkFunction
      <3>2. Len(m_queue) + 1 \in DemuxTasks'
        BY <3>1, AppendKeepsRequest, TaskFacts
      <3> QED
        BY <3>2
    <2>4. CASE ~(calls /\ ~m_waitingForDemux)
      <3>1. m_queue' = m_queue
        BY <2>2, <2>4 DEF SinkFunction
      <3>2. m_waitingForDemux' => m_waitingForDemux
        BY <2>2, <2>4, Zenon DEF SinkFunction
      <3> QED
        BY <2>1, <3>1, <3>2
    <2> QED
      BY <2>3, <2>4
  <1>27. ASSUME NEW d \in Decoders, NextIsNull(d) PROVE RequestIsOutstanding'
    BY <1>27 DEF NextIsNull
  <1>28. ASSUME NEW d \in Decoders, NextWaits(d) PROVE RequestIsOutstanding'
    <2>1. UNCHANGED <<opc, resumeAt>>
      BY <1>28 DEF NextWaits
    <2>2. PICK calls \in BOOLEAN : SinkFunction(calls)
      BY <1>28, Zenon DEF NextWaits, CallsSink
    <2>3. CASE calls /\ ~m_waitingForDemux
      <3>1. m_queue' = Append(m_queue, "demux")
        BY <2>2, <2>3 DEF SinkFunction
      <3>2. Len(m_queue) + 1 \in DemuxTasks'
        BY <3>1, AppendKeepsRequest, TaskFacts
      <3> QED
        BY <3>2
    <2>4. CASE ~(calls /\ ~m_waitingForDemux)
      <3>1. m_queue' = m_queue
        BY <2>2, <2>4 DEF SinkFunction
      <3>2. m_waitingForDemux' => m_waitingForDemux
        BY <2>2, <2>4, Zenon DEF SinkFunction
      <3> QED
        BY <2>1, <3>1, <3>2
    <2> QED
      BY <2>3, <2>4
  <1>29. ASSUME NEW d \in Decoders, Woken(d) PROVE RequestIsOutstanding'
    BY <1>29 DEF Woken
  <1>30. ASSUME NEW d \in Decoders, WaitTimesOut(d) PROVE RequestIsOutstanding'
    BY <1>30 DEF WaitTimesOut
  <1>31. ASSUME NEW d \in Decoders, DecoderExits(d) PROVE RequestIsOutstanding'
    BY <1>31 DEF DecoderExits
  <1>32. CASE UNCHANGED vars
    BY <1>32 DEF vars
  <1> QED
    BY <1>1, <1>2, <1>3, <1>4, <1>5, <1>6, <1>7, <1>8, <1>9, <1>10, <1>11,
       <1>12, <1>13, <1>14, <1>15, <1>16, <1>17, <1>18, <1>19, <1>20, <1>21,
       <1>22, <1>23, <1>24, <1>25, <1>26, <1>27, <1>28, <1>29, <1>30, <1>31,
       <1>32 DEF Next, OwnerStep, InNextPackage

\* A seekable file (not live) never sees a discontinuity, so that the queues
\* hold only packages of the current run: flush() empties them on a seek.
FileRunsBySeek ==
    ~IsLive =>
        /\ ~untilEOS
        /\ opc # "open"
        /\ \A k \in 1 .. Len(m_queue) : m_queue[k] # "discontinuity"
        /\ \A d \in Decoders : \A k \in 1 .. Len(m_packages[d]) :
               m_packages[d][k].epoch = epoch

\* Every step keeps FileRunsBySeek.
LEMMA FileStep ==
    Data /\ ResumesOutsideSeek /\ FileRunsBySeek /\ [Next]_vars
      => FileRunsBySeek'
  <1> SUFFICES ASSUME Data, ResumesOutsideSeek, FileRunsBySeek, [Next]_vars
               PROVE  FileRunsBySeek'
    OBVIOUS
  <1> USE DEF Data, ResumesOutsideSeek, FileRunsBySeek, muxerVars,
              containerVars, ownerVars, sourceVars, decoderVars
  <1>1. CASE SeekRequest
    BY <1>1, ConstantsFacts, PackageFacts DEF SeekRequest
  <1>2. CASE Terminate
    BY <1>2, ConstantsFacts, PackageFacts DEF Terminate
  <1>3. CASE StartDemux
    BY <1>3, ConstantsFacts, PackageFacts DEF StartDemux, Takes
  <1>4. CASE StartDiscontinuity
    BY <1>4, ConstantsFacts, PackageFacts DEF StartDiscontinuity, Takes
  <1>5. CASE IgnoreSeek
    BY <1>5, ConstantsFacts, PackageFacts DEF IgnoreSeek, Takes
  <1>6. CASE StartSeeking
    BY <1>6, ConstantsFacts, PackageFacts DEF StartSeeking, Takes, Flush,
       isDecoderValid
  <1>7. CASE PushSeekFlush
    BY <1>7, ConstantsFacts, PackageFacts DEF PushSeekFlush, PushLocked,
       FlushPackage, Receivers
  <1>8. CASE PerformTerminate
    <2>1. /\ m_queue # <<>> /\ m_queue' = Tail(m_queue)
          /\ opc' # "open"
          /\ UNCHANGED <<untilEOS, m_packages, epoch>>
      BY <1>8 DEF PerformTerminate, Takes
    <2> QED
      BY <2>1, TailOfQueue
  <1>9. CASE ReadDiscontinuity
    BY <1>9, ConstantsFacts, PackageFacts DEF ReadDiscontinuity
  <1>10. CASE ReadLiveEOF
    BY <1>10, ConstantsFacts, PackageFacts DEF ReadLiveEOF
  <1>11. CASE DemuxLoop
    BY <1>11, ConstantsFacts, PackageFacts DEF DemuxLoop
  <1>12. CASE DemuxEnd
    BY <1>12, ConstantsFacts, PackageFacts DEF DemuxEnd, PushEOS
  <1>13. CASE FinishDemux
    BY <1>13, ConstantsFacts, PackageFacts DEF FinishDemux
  <1>14. CASE ReopenFails
    BY <1>14, ConstantsFacts, PackageFacts DEF ReopenFails
  <1>15. CASE ReopenSucceeds
    BY <1>15, ConstantsFacts, PackageFacts DEF ReopenSucceeds, PushLocked,
       FlushPackage, Receivers
  <1>16. CASE SignalNext
    BY <1>16, ConstantsFacts, PackageFacts DEF SignalNext, Signal
  <1>17. CASE SignalsDone
    BY <1>17, ConstantsFacts, PackageFacts DEF SignalsDone
  <1>18. CASE TerminateMuxer
    BY <1>18, ConstantsFacts, PackageFacts DEF TerminateMuxer, TerminateLocked
  <1>19. CASE ThreadEnds
    BY <1>19, ConstantsFacts, PackageFacts DEF ThreadEnds
  <1>20. CASE EndSeeking
    BY <1>20, ConstantsFacts, PackageFacts DEF EndSeeking
  <1>21. CASE Finished
    BY <1>21, ConstantsFacts, PackageFacts DEF Finished, vars
  <1>22. ASSUME NEW i \in Streams, DemuxPackage(i) PROVE FileRunsBySeek'
    BY <1>22, ConstantsFacts, PackageFacts DEF DemuxPackage, PushLocked,
       DataPackage, Receivers
  <1>23. ASSUME NEW d \in Decoders, TerminateDecoder(d) PROVE FileRunsBySeek'
    BY <1>23, ConstantsFacts, PackageFacts DEF TerminateDecoder
  <1>24. ASSUME NEW d \in Decoders, WarmUp(d) PROVE FileRunsBySeek'
    BY <1>24, ConstantsFacts, PackageFacts DEF WarmUp
  <1>25. ASSUME NEW d \in Decoders, CallNext(d) PROVE FileRunsBySeek'
    BY <1>25, ConstantsFacts, PackageFacts DEF CallNext
  <1>26. ASSUME NEW d \in Decoders, NextPops(d) PROVE FileRunsBySeek'
    <2>1. /\ m_packages[d] # <<>>
          /\ m_packages' = [m_packages EXCEPT ![d] = Tail(m_packages[d])]
          /\ UNCHANGED <<untilEOS, opc, epoch>>
          /\ m_queue' = Append(m_queue, "demux") \/ m_queue' = m_queue
      BY <1>26 DEF NextPops, PopPackage, HasPackage, SinkFunction
    <2>2. ASSUME ~IsLive, NEW e \in Decoders,
                 NEW k \in 1 .. Len(m_packages'[e])
          PROVE  m_packages'[e][k].epoch = epoch
      <3>1. CASE e = d
        <4>1. k + 1 \in 1 .. Len(m_packages[d])
                /\ m_packages'[e][k] = m_packages[d][k + 1]
          BY <2>1, <2>2, <3>1, ConstantsFacts
        <4> QED
          BY <2>2, <4>1
      <3>2. CASE e # d
        BY <2>1, <2>2, <3>2, ConstantsFacts
      <3> QED
        BY <3>1, <3>2
    <2>3. ASSUME ~IsLive, NEW k \in 1 .. Len(m_queue')
          PROVE  m_queue'[k] # "discontinuity"
      <3>1. \A j \in 1 .. Len(Append(m_queue, "demux")) :
                Append(m_queue, "demux")[j] # "discontinuity"
        BY <2>3, TaskFacts, AppendAddsNoOther
      <3> QED
        BY <2>1, <2>3, <3>1
    <2> QED
      BY <2>1, <2>2, <2>3
  <1>27. ASSUME NEW d \in Decoders, NextIsNull(d) PROVE FileRunsBySeek'
    BY <1>27, ConstantsFacts, PackageFacts DEF NextIsNull
  <1>28. ASSUME NEW d \in Decoders, NextWaits(d) PROVE FileRunsBySeek'
    <2>1. /\ UNCHANGED <<untilEOS, opc, m_packages, epoch>>
          /\ \/ m_queue' = Append(m_queue, "demux")
             \/ m_queue' = m_queue
      BY <1>28 DEF NextWaits, SinkFunction
    <2>2. ASSUME ~IsLive, NEW k \in 1 .. Len(m_queue')
          PROVE  m_queue'[k] # "discontinuity"
      <3>1. \A j \in 1 .. Len(Append(m_queue, "demux")) :
                Append(m_queue, "demux")[j] # "discontinuity"
        BY <2>2, TaskFacts, AppendAddsNoOther
      <3> QED
        BY <2>1, <2>2, <3>1
    <2> QED
      BY <2>1, <2>2, Zenon
  <1>29. ASSUME NEW d \in Decoders, Woken(d) PROVE FileRunsBySeek'
    BY <1>29, ConstantsFacts, PackageFacts DEF Woken, WakeBySignal
  <1>30. ASSUME NEW d \in Decoders, WaitTimesOut(d) PROVE FileRunsBySeek'
    BY <1>30, ConstantsFacts, PackageFacts DEF WaitTimesOut
  <1>31. ASSUME NEW d \in Decoders, DecoderExits(d) PROVE FileRunsBySeek'
    BY <1>31, ConstantsFacts, PackageFacts DEF DecoderExits
  <1>32. CASE UNCHANGED vars
    BY <1>32, ConstantsFacts, PackageFacts DEF vars
  <1> QED
    BY <1>1, <1>2, <1>3, <1>4, <1>5, <1>6, <1>7, <1>8, <1>9, <1>10, <1>11,
       <1>12, <1>13, <1>14, <1>15, <1>16, <1>17, <1>18, <1>19, <1>20, <1>21,
       <1>22, <1>23, <1>24, <1>25, <1>26, <1>27, <1>28, <1>29, <1>30, <1>31,
       <1>32 DEF Next, OwnerStep, InNextPackage

\* A step of the threads is a step of DecoderFeed or leaves its state alone:
\* StartSeeking is Seek, ReopenSucceeds is Discontinuity, NextPops is Hand.
LEMMA FeedImplStep ==
    Data /\ FeedInv /\ FileRunsBySeek /\ [Next]_vars
      => [Feed!Next]_(Feed!vars)
  <1> DEFINE Keeps == epoch' = epoch /\ seen' = seen
  <1> SUFFICES ASSUME Data, FeedInv, FileRunsBySeek, [Next]_vars
               PROVE  Keeps \/ Feed!Next
    BY DEF Feed!vars, oldestRun
  <1> USE DEF muxerVars, containerVars, ownerVars, sourceVars, decoderVars
  <1>1. CASE SeekRequest
    BY <1>1 DEF SeekRequest
  <1>2. CASE Terminate
    BY <1>2 DEF Terminate
  <1>3. CASE StartDemux
    BY <1>3 DEF StartDemux
  <1>4. CASE StartDiscontinuity
    BY <1>4 DEF StartDiscontinuity
  <1>5. CASE IgnoreSeek
    BY <1>5 DEF IgnoreSeek
  <1>6. CASE StartSeeking
    <2>1. Feed!Seek
      BY <1>6 DEF StartSeeking, canSeek, Feed!Seek, oldestRun
    <2> QED
      BY <2>1 DEF Feed!Next
  <1>7. CASE PushSeekFlush
    BY <1>7 DEF PushSeekFlush
  <1>8. CASE PerformTerminate
    BY <1>8 DEF PerformTerminate
  <1>9. CASE ReadDiscontinuity
    BY <1>9 DEF ReadDiscontinuity
  <1>10. CASE ReadLiveEOF
    BY <1>10 DEF ReadLiveEOF
  <1>11. CASE DemuxLoop
    BY <1>11 DEF DemuxLoop
  <1>12. CASE DemuxEnd
    BY <1>12 DEF DemuxEnd
  <1>13. CASE FinishDemux
    BY <1>13 DEF FinishDemux
  <1>14. CASE ReopenFails
    BY <1>14 DEF ReopenFails
  <1>15. CASE ReopenSucceeds
    <2>1. IsLive
      BY <1>15 DEF ReopenSucceeds, FileRunsBySeek
    <2>2. Feed!Discontinuity
      BY <1>15, <2>1 DEF ReopenSucceeds, Feed!Discontinuity, oldestRun
    <2> QED
      BY <2>2 DEF Feed!Next
  <1>16. CASE SignalNext
    BY <1>16 DEF SignalNext
  <1>17. CASE SignalsDone
    BY <1>17 DEF SignalsDone
  <1>18. CASE TerminateMuxer
    BY <1>18 DEF TerminateMuxer
  <1>19. CASE ThreadEnds
    BY <1>19 DEF ThreadEnds
  <1>20. CASE EndSeeking
    BY <1>20 DEF EndSeeking
  <1>21. CASE Finished
    BY <1>21 DEF Finished, vars
  <1>22. ASSUME NEW i \in Streams, DemuxPackage(i) PROVE Keeps \/ Feed!Next
    BY <1>22 DEF DemuxPackage
  <1>23. ASSUME NEW d \in Decoders, TerminateDecoder(d)
         PROVE  Keeps \/ Feed!Next
    BY <1>23 DEF TerminateDecoder
  <1>24. ASSUME NEW d \in Decoders, WarmUp(d) PROVE Keeps \/ Feed!Next
    BY <1>24 DEF WarmUp
  <1>25. ASSUME NEW d \in Decoders, CallNext(d) PROVE Keeps \/ Feed!Next
    BY <1>25 DEF CallNext
  <1>26. ASSUME NEW d \in Decoders, NextPops(d) PROVE Keeps \/ Feed!Next
    <2> DEFINE q == m_packages[d]
               p == Head(q)
    <2>1. /\ q # <<>> /\ epoch' = epoch
          /\ seen' = [seen EXCEPT ![d] = p]
      BY <1>26 DEF NextPops, PopPackage, HasPackage
    <2>2. /\ seen[d] \in Package /\ q \in Seq(Package) /\ p \in Package
          /\ UnbrokenFeed(seen[d], q)
      BY <2>1, ConstantsFacts DEF Data, FeedInv, FeedUnbroken
    <2>3. Follows(seen[d], p)
      BY <2>1, <2>2, TakeFromFeed
    <2>4. 1 \in 1 .. Len(q) /\ p = q[1]
      BY <2>1, <2>2
    <2>5. p.epoch <= epoch
      BY <2>4 DEF FeedInv, EpochsBounded
    <2>6. p.epoch >= oldestRun
      <3>1. p.epoch \in Nat
        BY <2>2, PackageFacts
      <3>2. CASE IsLive
        BY <3>1, <3>2 DEF oldestRun
      <3>3. CASE ~IsLive
        <4>1. p.epoch = epoch
          BY <2>4, <3>3 DEF FileRunsBySeek
        <4> QED
          BY <3>1, <3>3, <4>1 DEF oldestRun
      <3> QED
        BY <3>2, <3>3
    <2>7. seen'[d] = p
      BY <2>1 DEF Data
    <2>8. Feed!Hand(d, p)
      <3> HIDE DEF p
      <3> QED
        BY <2>1, <2>3, <2>5, <2>6
           DEF Feed!Hand, Follows, isFlushPackage, oldestRun
    <2> QED
      BY <2>7, <2>8 DEF Feed!Next
  <1>27. ASSUME NEW d \in Decoders, NextIsNull(d) PROVE Keeps \/ Feed!Next
    BY <1>27 DEF NextIsNull
  <1>28. ASSUME NEW d \in Decoders, NextWaits(d) PROVE Keeps \/ Feed!Next
    BY <1>28 DEF NextWaits
  <1>29. ASSUME NEW d \in Decoders, Woken(d) PROVE Keeps \/ Feed!Next
    BY <1>29 DEF Woken
  <1>30. ASSUME NEW d \in Decoders, WaitTimesOut(d) PROVE Keeps \/ Feed!Next
    BY <1>30 DEF WaitTimesOut
  <1>31. ASSUME NEW d \in Decoders, DecoderExits(d) PROVE Keeps \/ Feed!Next
    BY <1>31 DEF DecoderExits
  <1>32. CASE UNCHANGED vars
    BY <1>32 DEF vars
  <1> QED
    BY <1>1, <1>2, <1>3, <1>4, <1>5, <1>6, <1>7, <1>8, <1>9, <1>10, <1>11,
       <1>12, <1>13, <1>14, <1>15, <1>16, <1>17, <1>18, <1>19, <1>20, <1>21,
       <1>22, <1>23, <1>24, <1>25, <1>26, <1>27, <1>28, <1>29, <1>30, <1>31,
       <1>32 DEF Next, OwnerStep, InNextPackage

\* The inductive invariant.
IndInv ==
    /\ TypeOK
    /\ FeedInv
    /\ RequestIsOutstanding
    /\ FileRunsBySeek

\* The container after initialize() satisfies the invariant.
LEMMA InitIndInv == Init => IndInv
  <1> SUFFICES ASSUME Init PROVE IndInv
    OBVIOUS
  <1> USE DEF Init, MuxerInit
  <1>1. Flags
    BY Zenon DEF Flags
  <1>2. Data
    BY ConstantsFacts, PackageFacts DEF Data, OwnerPC, DecoderPC
  <1>3. FeedInv
    BY ConstantsFacts
       DEF FeedInv, FeedUnbroken, UnbrokenFeed, FeedEnd, EpochsBounded,
           ResumesOutsideSeek, FlushPackage
  <1>4. RequestIsOutstanding
    BY DEF RequestIsOutstanding
  <1>5. FileRunsBySeek
    BY ConstantsFacts DEF FileRunsBySeek
  <1> QED
    BY <1>1, <1>2, <1>3, <1>4, <1>5, TypeParts DEF IndInv

\* Every step of every thread keeps the invariant.
LEMMA NextIndInv == IndInv /\ [Next]_vars => IndInv'
  <1> SUFFICES ASSUME IndInv, [Next]_vars PROVE IndInv'
    OBVIOUS
  <1>1. Flags /\ Data
    BY TypeParts DEF IndInv
  <1>2. Flags'
    BY <1>1, FlagsStep
  <1>3. Data'
    BY <1>1, DataStep
  <1>4. TypeOK'
    BY <1>2, <1>3, Zenon DEF TypeOK, MuxerTypeOK, Flags, Data
  <1>5. FeedInv'
    BY <1>1, <1>3, FeedStep DEF IndInv
  <1>6. RequestIsOutstanding'
    BY <1>1, RequestStep DEF IndInv
  <1>7. FileRunsBySeek'
    BY <1>1, FileStep DEF IndInv, FeedInv
  <1> QED
    BY <1>4, <1>5, <1>6, <1>7 DEF IndInv

\* The inductive invariant holds in every reachable state.
THEOREM Inductive == Spec => []IndInv
  BY InitIndInv, NextIndInv, PTL DEF Spec

\* Queues, events, flags and counters of container, muxer and decoders keep
\* their types; in particular only events of valid decoders are signalled.
THEOREM TypeCorrect == Spec => []TypeOK
  <1>1. IndInv => TypeOK
    BY DEF IndInv
  <1> QED
    BY <1>1, Inductive, PTL

\* Whatever the interleaving of demuxing, seeking, reopening and decoding, no
\* package is lost, repeated or reordered between push() and nextPackage(), and
\* a new run always starts with its flush package.
THEOREM FeedIsUnbroken == Spec => []FeedUnbroken
  <1>1. IndInv => FeedUnbroken
    BY DEF IndInv, FeedInv
  <1> QED
    BY <1>1, Inductive, PTL

\* Whenever m_waitingForDemux suppresses further requests of the sink function,
\* a demux request is queued or being served.
THEOREM RequestsNeverStick == Spec => []RequestIsOutstanding
  <1>1. IndInv => RequestIsOutstanding
    BY DEF IndInv
  <1> QED
    BY <1>1, Inductive, PTL

\* The threads implement DecoderFeed: in particular nothing read before a seek
\* is handed to a decoder after startSeeking has flushed the muxer.
THEOREM DemuxerImplementsFeed == Spec => ImplementsFeed
  <1>1. Init => Feed!Init
    BY DEF Init, Feed!Init, oldestRun, FlushPackage, FlushIndex
  <1>2. IndInv /\ [Next]_vars => [Feed!Next]_(Feed!vars)
    <2> SUFFICES ASSUME IndInv, [Next]_vars
                 PROVE  [Feed!Next]_(Feed!vars)
      OBVIOUS
    <2>1. Data
      BY TypeParts DEF IndInv
    <2> QED
      BY <2>1, FeedImplStep DEF IndInv
  <1> QED
    BY <1>1, <1>2, Inductive, PTL DEF Spec, ImplementsFeed, Feed!Spec

(***************************************************************************)
(* Demux requests and the end of the stream, on top of IndInv: a seekable  *)
(* file has at most one demux request between all its decoders, and a      *)
(* decoder is told that the stream is over only when it has taken all of   *)
(* it.                                                                     *)
(***************************************************************************)


\* A demux request is being served.
Serving ==
    \/ opc \in {"demux", "read", "demuxDone"}
    \/ opc = "signal" /\ resumeAt \in {"demux", "demuxDone"}

\* On a file the flag is set exactly while there is a request, and there is
\* one: queued or being served.
SingleRequest ==
    ~IsLive =>
        /\ \A j, k \in DemuxTasks : j = k
        /\ DemuxTasks # {} => m_waitingForDemux /\ ~Serving
        /\ Serving => m_waitingForDemux

\* Taking the head of the queue moves every other request one place down.
LEMMA RequestsOfTail ==
    ASSUME NEW q \in Seq(Task), q # <<>>
    PROVE  /\ \A k \in 1 .. Len(Tail(q)) :
                  k + 1 \in 1 .. Len(q) /\ Tail(q)[k] = q[k + 1]
           /\ q[1] = Head(q) /\ 1 \in 1 .. Len(q)
  <1>1. Len(q) \in Nat /\ Len(q) # 0
    BY EmptySeq
  <1>2. Head(q) = q[1]
    BY HeadTailProperties
  <1> QED
    BY <1>1, <1>2, TailOfQueue

\* When a message is appended, the other places keep their messages.
LEMMA RequestsOfAppend ==
    ASSUME NEW q \in Seq(Task), NEW t \in Task,
           NEW k \in 1 .. Len(Append(q, t))
    PROVE  \/ k \in 1 .. Len(q) /\ Append(q, t)[k] = q[k]
           \/ k = Len(q) + 1 /\ Append(q, t)[k] = t
  OBVIOUS

\* Taking a message other than a request leaves the requests as they are.
LEMMA TailKeepsSingle ==
    ASSUME Data, SingleRequest, m_queue # <<>>, m_queue' = Tail(m_queue),
           Head(m_queue) # "demux",
           m_waitingForDemux' = m_waitingForDemux, ~Serving'
    PROVE  SingleRequest'
  <1> USE DEF SingleRequest, DemuxTasks, Data
  <1>1. \A k \in DemuxTasks' : k + 1 \in DemuxTasks
    BY RequestsOfTail
  <1>2. \A j, k \in DemuxTasks' : j \in Int /\ k \in Int
    OBVIOUS
  <1>3. ~IsLive => \A j, k \in DemuxTasks' : j = k
    BY <1>1, <1>2
  <1>4. ~IsLive /\ DemuxTasks' # {} => m_waitingForDemux'
    BY <1>1, Zenon
  <1> QED
    BY <1>3, <1>4, Zenon

\* Appending a message other than a request leaves the requests as they are.
LEMMA AppendKeepsSingle ==
    ASSUME Data, SingleRequest, NEW t \in Task, t # "demux",
           m_queue' = Append(m_queue, t),
           m_waitingForDemux' = m_waitingForDemux, Serving' => Serving
    PROVE  SingleRequest'
  <1> USE DEF SingleRequest, DemuxTasks, Data
  <1>1. \A k \in DemuxTasks' : k \in DemuxTasks
    BY RequestsOfAppend
  <1> QED
    BY <1>1, Zenon

\* The sink function asks only if no request is queued or served.
LEMMA SinkKeepsSingle ==
    ASSUME Flags, Data, SingleRequest, NEW calls \in BOOLEAN, SinkFunction(calls),
           UNCHANGED <<opc, resumeAt>>
    PROVE  SingleRequest'
  <1> USE DEF SingleRequest, DemuxTasks, Data
  <1>1. Serving' <=> Serving
    BY DEF Serving
  <1>2. CASE calls /\ ~m_waitingForDemux
    <2>1. m_queue' = Append(m_queue, "demux") /\ m_waitingForDemux'
      BY <1>2 DEF SinkFunction
    <2>2. ~IsLive => DemuxTasks = {} /\ ~Serving
      BY <1>2
    <2>3. ~IsLive => \A k \in DemuxTasks' : k = Len(m_queue) + 1
      BY <2>1, <2>2, RequestsOfAppend, TaskFacts
    <2> QED
      BY <1>1, <2>1, <2>2, <2>3
  <1>3. CASE ~(calls /\ ~m_waitingForDemux)
    <2>1. m_queue' = m_queue /\ (m_waitingForDemux' <=> m_waitingForDemux)
      BY <1>3, Zenon DEF SinkFunction
    <2> QED
      BY <1>1, <2>1
  <1> QED
    BY <1>2, <1>3

\* Every step keeps a file's requests single.
LEMMA SingleStep ==
    Flags /\ Data /\ ResumesOutsideSeek /\ FileRunsBySeek /\ SingleRequest
      /\ [Next]_vars
      => SingleRequest'
  <1> SUFFICES ASSUME Flags, Data, ResumesOutsideSeek, FileRunsBySeek,
                      SingleRequest, [Next]_vars
               PROVE  SingleRequest'
    OBVIOUS
  <1> USE DEF muxerVars, containerVars, ownerVars, sourceVars, decoderVars
  <1>1. CASE SeekRequest
    <2>1. /\ m_queue' = Append(m_queue, "seek")
          /\ m_waitingForDemux' = m_waitingForDemux /\ (Serving' => Serving)
      BY <1>1 DEF SeekRequest, Serving
    <2> QED
      BY <2>1, AppendKeepsSingle, TaskFacts
  <1>2. CASE Terminate
    <2>1. /\ m_queue' = Append(m_queue, "terminate")
          /\ m_waitingForDemux' = m_waitingForDemux /\ (Serving' => Serving)
      BY <1>2 DEF Terminate, Serving
    <2> QED
      BY <2>1, AppendKeepsSingle, TaskFacts
  <1>3. CASE StartDemux
    <2> USE DEF SingleRequest, DemuxTasks, Data
    <2>1. /\ m_queue # <<>> /\ m_queue' = Tail(m_queue)
          /\ Head(m_queue) = "demux"
          /\ m_waitingForDemux' = m_waitingForDemux
      BY <1>3 DEF StartDemux, Takes
    <2>2. 1 \in DemuxTasks
      BY <2>1, RequestsOfTail
    <2>3. \A k \in DemuxTasks' : k + 1 \in DemuxTasks /\ k + 1 # 1
      BY <2>1, RequestsOfTail
    <2>4. ~IsLive => DemuxTasks' = {} /\ m_waitingForDemux'
      BY <2>1, <2>2, <2>3, Zenon
    <2> QED
      BY <2>4, Zenon
  <1>4. CASE StartDiscontinuity
    <2>1. m_queue # <<>> /\ m_queue[1] = "discontinuity" /\ 1 \in 1 .. Len(m_queue)
      BY <1>4, RequestsOfTail DEF StartDiscontinuity, Takes, Data
    <2>2. IsLive
      BY <2>1 DEF FileRunsBySeek
    <2> QED
      BY <2>2 DEF SingleRequest
  <1>5. CASE IgnoreSeek
    <2>1. /\ m_queue # <<>> /\ m_queue' = Tail(m_queue)
          /\ Head(m_queue) # "demux"
          /\ m_waitingForDemux' = m_waitingForDemux /\ ~Serving'
      BY <1>5 DEF IgnoreSeek, Takes, Serving
    <2> QED
      BY <2>1, TailKeepsSingle
  <1>6. CASE StartSeeking
    <2>1. /\ m_queue # <<>> /\ m_queue' = Tail(m_queue)
          /\ Head(m_queue) # "demux"
          /\ m_waitingForDemux' = m_waitingForDemux /\ ~Serving'
      BY <1>6 DEF StartSeeking, Takes, Serving
    <2> QED
      BY <2>1, TailKeepsSingle
  <1>7. CASE PushSeekFlush
    BY <1>7 DEF PushSeekFlush, SingleRequest, DemuxTasks, Serving
  <1>8. CASE PerformTerminate
    <2>1. /\ m_queue # <<>> /\ m_queue' = Tail(m_queue)
          /\ Head(m_queue) # "demux"
          /\ m_waitingForDemux' = m_waitingForDemux /\ ~Serving'
      BY <1>8 DEF PerformTerminate, Takes, Serving
    <2> QED
      BY <2>1, TailKeepsSingle
  <1>9. CASE ReadDiscontinuity
    <2>1. /\ m_queue' = Append(m_queue, "discontinuity")
          /\ m_waitingForDemux' = m_waitingForDemux /\ (Serving' => Serving)
      BY <1>9 DEF ReadDiscontinuity, Serving
    <2> QED
      BY <2>1, AppendKeepsSingle, TaskFacts
  <1>10. CASE ReadLiveEOF
    BY <1>10 DEF ReadLiveEOF, SingleRequest, DemuxTasks, Serving
  <1>11. CASE DemuxLoop
    BY <1>11 DEF DemuxLoop, SingleRequest, DemuxTasks, Serving
  <1>12. CASE DemuxEnd
    BY <1>12 DEF DemuxEnd, SingleRequest, DemuxTasks, Serving
  <1>13. CASE FinishDemux
    BY <1>13 DEF FinishDemux, SingleRequest, DemuxTasks, Serving,
       FileRunsBySeek
  <1>14. CASE ReopenFails
    BY <1>14 DEF ReopenFails, SingleRequest, DemuxTasks, Serving,
       FileRunsBySeek
  <1>15. CASE ReopenSucceeds
    BY <1>15 DEF ReopenSucceeds, SingleRequest, DemuxTasks, Serving,
       FileRunsBySeek
  <1>16. CASE SignalNext
    BY <1>16 DEF SignalNext, SingleRequest, DemuxTasks, Serving
  <1>17. CASE SignalsDone
    BY <1>17 DEF SignalsDone, SingleRequest, DemuxTasks, Serving,
       ResumesOutsideSeek
  <1>18. CASE TerminateMuxer
    BY <1>18 DEF TerminateMuxer, SingleRequest, DemuxTasks, Serving
  <1>19. CASE ThreadEnds
    BY <1>19 DEF ThreadEnds, SingleRequest, DemuxTasks, Serving
  <1>20. CASE EndSeeking
    BY <1>20 DEF EndSeeking, SingleRequest, DemuxTasks, Serving
  <1>21. CASE Finished
    BY <1>21 DEF Finished, SingleRequest, DemuxTasks, Serving, vars
  <1>22. ASSUME NEW i \in Streams, DemuxPackage(i) PROVE SingleRequest'
    BY <1>22 DEF DemuxPackage, SingleRequest, DemuxTasks, Serving
  <1>23. ASSUME NEW d \in Decoders, TerminateDecoder(d) PROVE SingleRequest'
    BY <1>23 DEF TerminateDecoder, SingleRequest, DemuxTasks, Serving
  <1>24. ASSUME NEW d \in Decoders, WarmUp(d) PROVE SingleRequest'
    BY <1>24 DEF WarmUp, SingleRequest, DemuxTasks, Serving
  <1>25. ASSUME NEW d \in Decoders, CallNext(d) PROVE SingleRequest'
    BY <1>25 DEF CallNext, SingleRequest, DemuxTasks, Serving
  <1>26. ASSUME NEW d \in Decoders, NextPops(d) PROVE SingleRequest'
    <2>1. UNCHANGED <<opc, resumeAt>>
      BY <1>26 DEF NextPops
    <2>2. PICK calls \in BOOLEAN : SinkFunction(calls)
      BY <1>26, Zenon DEF NextPops, CallsSink
    <2> QED
      BY <2>1, <2>2, SinkKeepsSingle
  <1>27. ASSUME NEW d \in Decoders, NextIsNull(d) PROVE SingleRequest'
    BY <1>27 DEF NextIsNull, SingleRequest, DemuxTasks, Serving
  <1>28. ASSUME NEW d \in Decoders, NextWaits(d) PROVE SingleRequest'
    <2>1. UNCHANGED <<opc, resumeAt>>
      BY <1>28 DEF NextWaits
    <2>2. PICK calls \in BOOLEAN : SinkFunction(calls)
      BY <1>28, Zenon DEF NextWaits, CallsSink
    <2> QED
      BY <2>1, <2>2, SinkKeepsSingle
  <1>29. ASSUME NEW d \in Decoders, Woken(d) PROVE SingleRequest'
    BY <1>29 DEF Woken, SingleRequest, DemuxTasks, Serving
  <1>30. ASSUME NEW d \in Decoders, WaitTimesOut(d) PROVE SingleRequest'
    BY <1>30 DEF WaitTimesOut, SingleRequest, DemuxTasks, Serving
  <1>31. ASSUME NEW d \in Decoders, DecoderExits(d) PROVE SingleRequest'
    BY <1>31 DEF DecoderExits, SingleRequest, DemuxTasks, Serving
  <1>32. CASE UNCHANGED vars
    BY <1>32 DEF vars, SingleRequest, DemuxTasks, Serving
  <1> QED
    BY <1>1, <1>2, <1>3, <1>4, <1>5, <1>6, <1>7, <1>8, <1>9, <1>10, <1>11,
       <1>12, <1>13, <1>14, <1>15, <1>16, <1>17, <1>18, <1>19, <1>20, <1>21,
       <1>22, <1>23, <1>24, <1>25, <1>26, <1>27, <1>28, <1>29, <1>30, <1>31,
       <1>32 DEF Next, OwnerStep, InNextPackage

\* What is known of the flag m_queueCompleteOrError: it means the end of a
\* file that libav has reported, or that the player is being terminated; only
\* a terminated player gets to the end of the container thread; flush() clears
\* it for a seek; and the end of a live stream never sets it (m_liveEnded).
EndIsKnown ==
    /\ ~m_liveEnded
    /\ \/ opc \in {"muxTerminate", "join", "done"}
       \/ opc = "signal" /\ resumeAt = "join"
       \/ \E k \in 1 .. Len(m_queue) : m_queue[k] = "terminate"
       => m_terminating
    /\ opc = "seekPush" => ~m_queueCompleteOrError
    /\ m_queueCompleteOrError => m_terminating \/ (srcEnd /\ ~IsLive)

\* A message is in the queue after a step only if it was, or was appended.
LEMMA NoNewTerminate ==
    ASSUME Data,
           \/ m_queue' = m_queue
           \/ m_queue # <<>> /\ m_queue' = Tail(m_queue)
           \/ \E t \in Task \ {"terminate"} : m_queue' = Append(m_queue, t),
           NEW k \in 1 .. Len(m_queue'), m_queue'[k] = "terminate"
    PROVE  \E j \in 1 .. Len(m_queue) : m_queue[j] = "terminate"
  <1>1. m_queue \in Seq(Task)
    BY DEF Data
  <1>2. CASE m_queue' = m_queue
    BY <1>2
  <1>3. CASE m_queue # <<>> /\ m_queue' = Tail(m_queue)
    BY <1>1, <1>3, RequestsOfTail
  <1>4. ASSUME NEW t \in Task \ {"terminate"}, m_queue' = Append(m_queue, t)
        PROVE  \E j \in 1 .. Len(m_queue) : m_queue[j] = "terminate"
    BY <1>1, <1>4, RequestsOfAppend
  <1> QED
    BY <1>2, <1>3, <1>4, Zenon

\* Every step keeps EndIsKnown.
LEMMA EndStep ==
    Flags /\ Data /\ ResumesOutsideSeek /\ FileRunsBySeek /\ EndIsKnown
      /\ [Next]_vars
      => EndIsKnown'
  <1> SUFFICES ASSUME Flags, Data, ResumesOutsideSeek, FileRunsBySeek,
                      EndIsKnown, [Next]_vars
               PROVE  EndIsKnown'
    OBVIOUS
  <1> USE DEF muxerVars, containerVars, ownerVars, sourceVars, decoderVars
  <1>1. CASE SeekRequest
    <2>1. "seek" \in Task \ {"terminate"} /\ m_queue' = Append(m_queue, "seek")
      BY <1>1, TaskFacts DEF SeekRequest
    <2> QED
      BY <1>1, <2>1, NoNewTerminate, Zenon DEF SeekRequest, EndIsKnown
  <1>2. CASE Terminate
    BY <1>2 DEF Terminate, EndIsKnown
  <1>3. CASE StartDemux
    <2>1. m_queue # <<>> /\ m_queue' = Tail(m_queue)
      BY <1>3, TaskFacts DEF StartDemux, Takes
    <2> QED
      BY <1>3, <2>1, NoNewTerminate, Zenon DEF StartDemux, Takes, EndIsKnown
  <1>4. CASE StartDiscontinuity
    <2>1. m_queue # <<>> /\ m_queue' = Tail(m_queue)
      BY <1>4, TaskFacts DEF StartDiscontinuity, Takes
    <2> QED
      BY <1>4, <2>1, NoNewTerminate, Zenon DEF StartDiscontinuity, Takes, EndIsKnown
  <1>5. CASE IgnoreSeek
    <2>1. m_queue # <<>> /\ m_queue' = Tail(m_queue)
      BY <1>5, TaskFacts DEF IgnoreSeek, Takes
    <2> QED
      BY <1>5, <2>1, NoNewTerminate, Zenon DEF IgnoreSeek, Takes, EndIsKnown
  <1>6. CASE StartSeeking
    <2>1. m_queue # <<>> /\ m_queue' = Tail(m_queue)
      BY <1>6, TaskFacts DEF StartSeeking, Takes, Flush
    <2> QED
      BY <1>6, <2>1, NoNewTerminate, Zenon DEF StartSeeking, Takes, Flush, EndIsKnown
  <1>7. CASE PushSeekFlush
    BY <1>7 DEF PushSeekFlush, PushLocked, EndIsKnown
  <1>8. CASE PerformTerminate
    <2>1. /\ m_queue # <<>> /\ Head(m_queue) = "terminate"
          /\ UNCHANGED <<m_liveEnded, m_terminating, srcEnd,
                         m_queueCompleteOrError>>
          /\ opc' = "muxTerminate"
      BY <1>8 DEF PerformTerminate, Takes
    <2>2. m_terminating
      BY <2>1, RequestsOfTail DEF EndIsKnown, Data
    <2> QED
      BY <2>1, <2>2 DEF EndIsKnown
  <1>9. CASE ReadDiscontinuity
    <2>1. "discontinuity" \in Task \ {"terminate"} /\ m_queue' = Append(m_queue, "discontinuity")
      BY <1>9, TaskFacts DEF ReadDiscontinuity
    <2> QED
      BY <1>9, <2>1, NoNewTerminate, Zenon DEF ReadDiscontinuity, EndIsKnown
  <1>10. CASE ReadLiveEOF
    BY <1>10 DEF ReadLiveEOF, EndIsKnown
  <1>11. CASE DemuxLoop
    BY <1>11 DEF DemuxLoop, EndIsKnown
  <1>12. CASE DemuxEnd
    BY <1>12 DEF DemuxEnd, PushEOS, EndIsKnown
  <1>13. CASE FinishDemux
    BY <1>13 DEF FinishDemux, EndIsKnown, FileRunsBySeek
  <1>14. CASE ReopenFails
    BY <1>14 DEF ReopenFails, EndIsKnown, FileRunsBySeek
  <1>15. CASE ReopenSucceeds
    BY <1>15 DEF ReopenSucceeds, PushLocked, EndIsKnown, FileRunsBySeek
  <1>16. CASE SignalNext
    BY <1>16 DEF SignalNext, Signal, EndIsKnown
  <1>17. CASE SignalsDone
    BY <1>17 DEF SignalsDone, EndIsKnown, ResumesOutsideSeek
  <1>18. CASE TerminateMuxer
    BY <1>18 DEF TerminateMuxer, TerminateLocked, EndIsKnown
  <1>19. CASE ThreadEnds
    BY <1>19 DEF ThreadEnds, EndIsKnown
  <1>20. CASE EndSeeking
    BY <1>20, Zenon DEF EndSeeking, EndIsKnown
  <1>21. CASE Finished
    BY <1>21, Zenon DEF Finished, vars, EndIsKnown
  <1>22. ASSUME NEW i \in Streams, DemuxPackage(i) PROVE EndIsKnown'
    BY <1>22 DEF DemuxPackage, PushLocked, EndIsKnown
  <1>23. ASSUME NEW d \in Decoders, TerminateDecoder(d) PROVE EndIsKnown'
    BY <1>23 DEF TerminateDecoder, EndIsKnown
  <1>24. ASSUME NEW d \in Decoders, WarmUp(d) PROVE EndIsKnown'
    BY <1>24 DEF WarmUp, EndIsKnown
  <1>25. ASSUME NEW d \in Decoders, CallNext(d) PROVE EndIsKnown'
    BY <1>25 DEF CallNext, EndIsKnown
  <1>26. ASSUME NEW d \in Decoders, NextPops(d) PROVE EndIsKnown'
    <2>1. \/ m_queue' = m_queue
          \/ "demux" \in Task \ {"terminate"} /\ m_queue' = Append(m_queue, "demux")
      BY <1>26, TaskFacts, Zenon DEF NextPops, SinkFunction
    <2>2. UNCHANGED <<m_liveEnded, opc, resumeAt, m_terminating, srcEnd,
                      m_queueCompleteOrError>>
      BY <1>26 DEF NextPops, PopPackage, SinkFunction
    <2> QED
      BY <2>1, <2>2, NoNewTerminate, Zenon DEF EndIsKnown
  <1>27. ASSUME NEW d \in Decoders, NextIsNull(d) PROVE EndIsKnown'
    BY <1>27 DEF NextIsNull, EndIsKnown
  <1>28. ASSUME NEW d \in Decoders, NextWaits(d) PROVE EndIsKnown'
    <2>1. \/ m_queue' = m_queue
          \/ "demux" \in Task \ {"terminate"} /\ m_queue' = Append(m_queue, "demux")
      BY <1>28, TaskFacts, Zenon DEF NextWaits, SinkFunction
    <2>2. UNCHANGED <<m_liveEnded, opc, resumeAt, m_terminating, srcEnd,
                      m_queueCompleteOrError>>
      BY <1>28 DEF NextWaits, SinkFunction
    <2> QED
      BY <2>1, <2>2, NoNewTerminate, Zenon DEF EndIsKnown
  <1>29. ASSUME NEW d \in Decoders, Woken(d) PROVE EndIsKnown'
    BY <1>29 DEF Woken, WakeBySignal, EndIsKnown
  <1>30. ASSUME NEW d \in Decoders, WaitTimesOut(d) PROVE EndIsKnown'
    BY <1>30 DEF WaitTimesOut, EndIsKnown
  <1>31. ASSUME NEW d \in Decoders, DecoderExits(d) PROVE EndIsKnown'
    BY <1>31 DEF DecoderExits, EndIsKnown
  <1>32. CASE UNCHANGED vars
    BY <1>32 DEF vars, EndIsKnown
  <1> QED
    BY <1>1, <1>2, <1>3, <1>4, <1>5, <1>6, <1>7, <1>8, <1>9, <1>10, <1>11,
       <1>12, <1>13, <1>14, <1>15, <1>16, <1>17, <1>18, <1>19, <1>20, <1>21,
       <1>22, <1>23, <1>24, <1>25, <1>26, <1>27, <1>28, <1>29, <1>30, <1>31,
       <1>32 DEF Next, OwnerStep, InNextPackage

\* The inductive invariant.
RequestInv == IndInv /\ SingleRequest /\ EndIsKnown

\* The requests and the end of the stream, in every reachable state.
LEMMA RequestInductive == Spec => []RequestInv
  <1>1. Init => RequestInv
    <2> SUFFICES ASSUME Init PROVE RequestInv
      OBVIOUS
    <2>1. SingleRequest
      BY DEF Init, SingleRequest, DemuxTasks, Serving
    <2>2. EndIsKnown
      BY DEF Init, MuxerInit, EndIsKnown
    <2> QED
      BY <2>1, <2>2, InitIndInv DEF RequestInv
  <1>2. RequestInv /\ [Next]_vars => RequestInv'
    <2> SUFFICES ASSUME RequestInv, [Next]_vars PROVE RequestInv'
      OBVIOUS
    <2>1. /\ IndInv /\ SingleRequest /\ EndIsKnown
          /\ Flags /\ Data /\ ResumesOutsideSeek /\ FileRunsBySeek
      BY TypeParts DEF RequestInv, IndInv, FeedInv
    <2> QED
      BY <2>1, NextIndInv, SingleStep, EndStep DEF RequestInv
  <1> QED
    BY <1>1, <1>2, PTL DEF Spec

\* A seekable file has at most one demux request between its decoders, queued
\* or being served, and none is queued without m_waitingForDemux.
THEOREM OneRequest ==
    ASSUME ~IsLive
    PROVE  Spec => []OneRequestAtATime
  <1>1. RequestInv => OneRequestAtATime
    <2> SUFFICES ASSUME RequestInv PROVE OneRequestAtATime
      OBVIOUS
    <2>1. SingleRequest /\ Data
      BY TypeParts DEF RequestInv, IndInv
    <2>2. Cardinality(DemuxTasks) <= 1
      <3>1. CASE DemuxTasks = {}
        BY <3>1, FS_EmptySet
      <3>2. CASE DemuxTasks # {}
        <4>1. PICK k : k \in DemuxTasks
          BY <3>2
        <4>2. DemuxTasks = {k}
          BY <2>1, <4>1 DEF SingleRequest
        <4> QED
          BY <4>2, FS_Singleton
      <3> QED
        BY <3>1, <3>2
    <2> QED
      BY <2>1, <2>2 DEF OneRequestAtATime, SingleRequest, Serving
  <1> QED
    BY <1>1, RequestInductive, PTL

\* nextPackage() returns nullptr, other than to a player being terminated, only
\* to a decoder that has taken the last package demuxed for it, after libav has
\* reported the end: the flag that is set outside the lock overtakes nothing.
THEOREM EndAfterLastPackage == Spec => EndOfStreamMeansDrained
  <1> DEFINE Drained ==
        \A d \in Decoders :
          (dpc[d] = "next" /\ dpc'[d] = "work" /\ seen'[d] = seen[d]
             /\ m_packages'[d] = m_packages[d] /\ ~m_terminating)
          => srcEnd /\ seen[d].epoch = epoch /\ seen[d].place = pushed[d]
  <1>1. RequestInv /\ [Next]_vars => [Drained]_vars
    <2> SUFFICES ASSUME RequestInv, [Next]_vars, NEW d \in Decoders,
                        dpc[d] = "next", dpc'[d] = "work", seen'[d] = seen[d],
                        m_packages'[d] = m_packages[d], ~m_terminating
                 PROVE  /\ srcEnd
                        /\ seen[d].epoch = epoch /\ seen[d].place = pushed[d]
      OBVIOUS
    <2>1. Data /\ FeedUnbroken /\ EndIsKnown
      BY TypeParts DEF RequestInv, IndInv, FeedInv
    <2>2. NextIsNull(d)
      <3> USE DEF muxerVars, containerVars, ownerVars, sourceVars, decoderVars,
                  Data
      <3>1. ASSUME NEW e \in Decoders, NextPops(e) PROVE FALSE
        <4>1. e = d
          BY <3>1 DEF NextPops
        <4>2. m_packages[d] # <<>> /\ m_packages'[d] = Tail(m_packages[d])
          BY <2>1, <3>1, <4>1, ConstantsFacts
             DEF NextPops, PopPackage, HasPackage
        <4>3. m_packages[d] \in Seq(Package)
          BY ConstantsFacts, <2>1
        <4>4. Len(Tail(m_packages[d])) # Len(m_packages[d])
          BY <4>2, <4>3, HeadTailProperties
        <4> QED
          BY <4>2, <4>4
      <3>2. ASSUME ~(\E e \in Decoders : NextPops(e) \/ NextIsNull(e))
            PROVE  FALSE
        <4>1. dpc' # dpc
          BY <2>1
        <4>2. dpc \in [Decoders -> DecoderPC]
          BY <2>1
        <4>3. \/ \E e \in Decoders : WarmUp(e) \/ CallNext(e) \/ InNextPackage(e)
              \/ ReopenSucceeds
          BY <4>1, Zenon DEF Next, OwnerStep, vars, SeekRequest, Terminate, StartDemux,
             StartDiscontinuity, IgnoreSeek, StartSeeking, PushSeekFlush,
             PerformTerminate, ReadDiscontinuity, ReadLiveEOF, DemuxPackage,
             DemuxLoop, DemuxEnd, FinishDemux, ReopenFails, SignalNext,
             SignalsDone, TerminateMuxer, ThreadEnds, TerminateDecoder,
             EndSeeking, Finished
        <4> QED
          BY <3>2, <4>2, <4>3 DEF WarmUp, CallNext, InNextPackage, NextWaits,
             Woken, WaitTimesOut, DecoderExits, ReopenSucceeds
      <3>3. PICK e \in Decoders : NextIsNull(e)
        BY <3>1, <3>2
      <3>4. e = d
        BY <2>1, <3>3 DEF NextIsNull
      <3> QED
        BY <3>3, <3>4
    <2>3. m_packages[d] = <<>> /\ m_queueCompleteOrError
      BY <2>2 DEF NextIsNull, NoMorePackages, HasPackage
    <2>4. srcEnd /\ opc # "seekPush"
      BY <2>1, <2>3 DEF EndIsKnown
    <2> QED
      BY <2>1, <2>3, <2>4 DEF FeedUnbroken, FeedEnd
  <1> QED
    BY <1>1, RequestInductive, PTL DEF Spec, EndOfStreamMeansDrained

=============================================================================
