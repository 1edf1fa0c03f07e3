------------------------------- MODULE Playback -------------------------------
(***************************************************************************)
(* Playing, pausing and seeking a file: Acinerella (AcinerellaContainer)   *)
(* between its client on the main thread and the audio and video decoders. *)
(*                                                                         *)
(* play(), pause() and seek() are called on the main thread and go through *)
(* the container's message queue to the queues of the decoders.  A decoder *)
(* thread decodes into a buffer, which the audio pump or the video pull    *)
(* thread empties.  Reports come back on the decoder threads: that a       *)
(* decoder is ready, where it is, that it has played to the end.           *)
(*                                                                         *)
(* The media is cut in stretches 0..Last; a package, a decoded frame and a *)
(* position say which stretch, and after how many seeks (run) it was read. *)
(***************************************************************************)
EXTENDS Integers, Sequences, FiniteSetsExt

CONSTANTS
    Decoders,   \* the decoders the file has, among "audio" and "video"
    Last,       \* the last stretch of the media
    Targets,    \* where the client seeks to
    Tolerance,  \* how far from its target a seek may end (5 s)
    ReadAhead,  \* frames that fill a decoder's buffer (readAheadTime)
    MaxCalls,   \* bound: calls of the client
    MaxSeeks,   \* bound: calls of seek()
    MaxQueue    \* bound: messages of a decoder when its output adds one

ASSUME DecodersAssumption == Decoders \in (SUBSET {"audio", "video"}) \ {{}}
ASSUME BoundsAssumption ==
    /\ Last \in Nat
    /\ Targets \subseteq 0 .. Last
    /\ Tolerance \in Nat
    /\ ReadAhead \in [Decoders -> Nat \ {0}]
    /\ MaxCalls \in Nat
    /\ MaxSeeks \in Nat
    /\ MaxQueue \in Nat \ {0}

VARIABLES
    m_paused, m_ended, m_waitReady, m_isSeeking, m_seekingPosition, m_position,
    m_queue,     \* messages of the container thread
    container,   \* where the container thread is in startSeeking
    dec,         \* the fields of each decoder and of its output
    decQueue,    \* messages of each decoder thread
    muxer,       \* what the muxer has for each decoder
    plays,       \* calls of play() that wait for the main thread
    calls, seeks,
    yielded      \* history: the client has made this player yield

flags == <<m_paused, m_ended, m_waitReady, m_isSeeking, m_seekingPosition,
           m_position>>
vars == <<flags, m_queue, container, dec, decQueue, muxer, plays,
          calls, seeks, yielded>>

Stretch  == 0 .. Last
Position == [run : 0 .. MaxSeeks, pos : 0 .. Last + 1]  \* Last + 1: the end
Frame    == [run : 0 .. MaxSeeks, pos : Stretch]
Start    == [run |-> 0, pos |-> 0]

\* The decoder whose positions are the container's
\* (decoder->isAudio() || !m_audioDecoder).
Clock == IF "audio" \in Decoders THEN "audio" ELSE "video"

ContainerMessage ==
    [op : {"play", "pause", "ready", "coolDown"}]
        \cup [op : {"seek"}, pos : Stretch]

DecoderMessage ==
    [op : {"warmUp", "prePlay", "play", "pause", "pauseToSeek", "coolDown",
           "ended", "shown"}]
        \cup [op : {"position"}, pos : Frame]

Decoder ==
    [m_readying          : BOOLEAN,
     m_playing           : BOOLEAN,
     m_decodedFrames     : Seq(Frame),
     m_decoderEOF        : BOOLEAN,
     m_position          : Position,
     m_ahiControl        : BOOLEAN,  \* audio: the device is open
     sounding            : BOOLEAN,  \* audio: AHIC_Play
     m_ahiSample         : {0, 1},   \* audio: m_ahiSampleBeingPlayed % 2
     m_ahiSampleTimestamp: [{0, 1} -> Frame],
     m_didFlushBuffers   : BOOLEAN,
     m_didUnderrun       : BOOLEAN,
     m_didShowFirstFrame : BOOLEAN]  \* video

TypeOK ==
    /\ {m_paused, m_ended, m_waitReady, m_isSeeking} \subseteq BOOLEAN
    /\ m_seekingPosition \in Stretch
    /\ m_position \in Position
    /\ m_queue \in Seq(ContainerMessage)
    /\ container \in {"waiting", "seeking"}
    /\ dec \in [Decoders -> Decoder]
    /\ decQueue \in [Decoders -> Seq(DecoderMessage)]
    /\ muxer \in [Decoders -> [flush : BOOLEAN, next : Position]]
    /\ plays \in Nat
    /\ calls \in 0 .. MaxCalls
    /\ seeks \in 0 .. MaxSeeks
    /\ yielded \in BOOLEAN

(* After initialize() and the warmUp() of prepareToPlay.                   *)
Init ==
    /\ m_paused = FALSE
    /\ m_ended = FALSE
    /\ m_waitReady = FALSE
    /\ m_isSeeking = FALSE
    /\ m_seekingPosition = 0
    /\ m_position = Start
    /\ m_queue = <<>>
    /\ container = "waiting"
    /\ dec = [d \in Decoders |->
                [m_readying |-> FALSE, m_playing |-> FALSE,
                 m_decodedFrames |-> <<>>, m_decoderEOF |-> FALSE,
                 m_position |-> Start, m_ahiControl |-> FALSE,
                 sounding |-> FALSE, m_ahiSample |-> 0,
                 m_ahiSampleTimestamp |-> [i \in {0, 1} |-> Start],
                 m_didFlushBuffers |-> FALSE, m_didUnderrun |-> FALSE,
                 m_didShowFirstFrame |-> FALSE]]
    /\ decQueue = [d \in Decoders |-> <<[op |-> "warmUp"]>>]
    /\ muxer = [d \in Decoders |-> [flush |-> FALSE, next |-> Start]]
    /\ plays = 0
    /\ calls = 0
    /\ yielded = FALSE
    /\ seeks = 0

-----------------------------------------------------------------------------
(* What the threads ask of a decoder.                                      *)

BufferFull(d, r) == Len(r.m_decodedFrames) >= ReadAhead[d]

IsWarmedUp(d, r) == BufferFull(d, r) \/ r.m_decoderEOF

IsReadyToPlay(d, r) ==
    /\ IsWarmedUp(d, r)
    /\ IF d = "audio" THEN r.m_ahiControl ELSE r.m_didShowFirstFrame

AreDecodersReadyToPlay == \A d \in Decoders : IsReadyToPlay(d, dec[d])

\* AcinerellaDecoder::dispatch of one message to every decoder.
ToAll(queues, op) ==
    [d \in Decoders |-> Append(queues[d], [op |-> op])]

\* stopPlayingQuick(), on the thread that calls pause().
StopPlayingQuick(r) == [r EXCEPT !.m_playing = FALSE]

StopPlaying(d, r) ==
    IF d = "audio" /\ ~r.m_ahiControl
    THEN r
    ELSE [r EXCEPT !.m_playing = FALSE, !.sounding = FALSE]

Flush(r) ==
    [r EXCEPT !.m_decodedFrames = <<>>, !.m_decoderEOF = FALSE,
              !.m_didFlushBuffers = TRUE, !.sounding = FALSE]

-----------------------------------------------------------------------------
(* The client's calls and the main thread.                                 *)

PlayCall ==
    IF m_ended
    THEN UNCHANGED <<m_paused, m_waitReady, m_queue>>
    ELSE /\ m_paused' = FALSE
         /\ m_waitReady' = TRUE
         /\ m_queue' = Append(m_queue, [op |-> "play"])

Call ==
    /\ calls < MaxCalls
    /\ calls' = calls + 1
    /\ UNCHANGED <<m_ended, m_isSeeking, m_seekingPosition, m_position,
                   container, dec, decQueue, muxer, plays>>

Play ==
    /\ Call
    /\ PlayCall
    /\ UNCHANGED <<seeks, yielded>>

\* pause(), or the yield to another player, which is pause() and coolDown().
Paused(after) ==
    IF m_ended
    THEN /\ m_queue' = m_queue \o after
         /\ UNCHANGED <<m_paused, m_waitReady>>
    ELSE /\ m_paused' = TRUE
         /\ m_waitReady' = FALSE
         /\ m_queue' = Append(m_queue, [op |-> "pause"]) \o after

Pause ==
    /\ Call
    /\ Paused(<<>>)
    /\ UNCHANGED <<seeks, yielded>>

Yield ==
    /\ Call
    /\ Paused(<<[op |-> "coolDown"]>>)
    /\ yielded' = TRUE
    /\ UNCHANGED seeks

Seek ==
    /\ Call
    /\ seeks < MaxSeeks
    /\ seeks' = seeks + 1
    /\ \E pos \in Targets :
           m_queue' = Append(m_queue, [op |-> "seek", pos |-> pos])
    /\ UNCHANGED <<m_paused, m_waitReady, yielded>>

\* The play() that the end of a seek has posted to the main thread.
RunMain ==
    /\ plays > 0
    /\ plays' = plays - 1
    /\ PlayCall
    /\ UNCHANGED <<m_ended, m_isSeeking, m_seekingPosition, m_position,
                   container, dec, decQueue, muxer, calls, seeks, yielded>>

-----------------------------------------------------------------------------
(* The container thread.                                                   *)

\* The message taken by the container thread.
Takes(op) ==
    /\ container = "waiting"
    /\ m_queue # <<>>
    /\ Head(m_queue).op = op
    /\ m_queue' = Tail(m_queue)
    /\ UNCHANGED <<m_paused, m_position, plays, calls, seeks, yielded>>

RunPlay ==
    /\ Takes("play")
    /\ m_waitReady' = ~AreDecodersReadyToPlay
    /\ decQueue' = ToAll(decQueue,
                         IF AreDecodersReadyToPlay THEN "play" ELSE "prePlay")
    /\ UNCHANGED <<m_ended, m_isSeeking, m_seekingPosition, container, dec,
                   muxer>>

RunPause ==
    /\ Takes("pause")
    /\ dec' = [d \in Decoders |-> StopPlayingQuick(dec[d])]
    /\ decQueue' = ToAll(decQueue, "pause")
    /\ UNCHANGED <<m_ended, m_waitReady, m_isSeeking, m_seekingPosition,
                   container, muxer>>

RunCoolDown ==
    /\ Takes("coolDown")
    /\ decQueue' = ToAll(decQueue, "coolDown")
    /\ UNCHANGED <<m_ended, m_waitReady, m_isSeeking, m_seekingPosition,
                   container, dec, muxer>>

\* The function onDecoderReadyToPlay dispatches.
RunReady ==
    /\ Takes("ready")
    /\ IF AreDecodersReadyToPlay /\ m_waitReady
       THEN /\ m_waitReady' = FALSE
            /\ decQueue' = ToAll(decQueue, "play")
       ELSE UNCHANGED <<m_waitReady, decQueue>>
    /\ UNCHANGED <<m_ended, m_isSeeking, m_seekingPosition, container, dec,
                   muxer>>

\* startSeeking up to the calls of pause(true).
RunSeek ==
    /\ Takes("seek")
    /\ IF m_isSeeking
       THEN UNCHANGED <<m_isSeeking, m_ended, m_seekingPosition, dec, decQueue,
                        container>>
       ELSE /\ m_isSeeking' = TRUE
            /\ m_ended' = FALSE
            /\ m_seekingPosition' = Head(m_queue).pos
            /\ dec' = [d \in Decoders |-> StopPlayingQuick(dec[d])]
            /\ decQueue' = ToAll(decQueue, "pauseToSeek")
            /\ container' = "seeking"
    /\ UNCHANGED <<m_waitReady, muxer>>

\* The rest of it: ac_seek, the muxer's flush package and prePlay().
SeekMuxer ==
    /\ container = "seeking"
    /\ container' = "waiting"
    /\ muxer' = [d \in Decoders |->
                    [flush |-> TRUE,
                     next |-> [run |-> muxer[d].next.run + 1,
                               pos |-> m_seekingPosition]]]
    /\ decQueue' = ToAll(decQueue, "prePlay")
    /\ UNCHANGED <<flags, m_queue, dec, plays, calls, seeks, yielded>>

-----------------------------------------------------------------------------
(* What the decoders report, on their threads.                             *)

\* Mutant: the positions of both decoders are taken.
OnPositionChanged_AnyDecoder(d, pos) ==
    LET arrived == /\ m_isSeeking
                   /\ pos.pos \in m_seekingPosition - Tolerance
                                .. m_seekingPosition + Tolerance
    IN  /\ m_isSeeking' = (m_isSeeking /\ ~arrived)
        /\ plays' = IF arrived /\ ~m_paused THEN plays + 1 ELSE plays
        /\ m_position' = IF ~m_isSeeking' THEN pos ELSE m_position
        /\ UNCHANGED <<m_paused, m_ended, m_waitReady, m_seekingPosition>>

\* onDecoderUpdatedPosition.
OnPositionChanged(d, pos) ==
    LET arrived == /\ d = Clock
                   /\ m_isSeeking
                   /\ pos.pos \in m_seekingPosition - Tolerance
                                .. m_seekingPosition + Tolerance
    IN  /\ m_isSeeking' = (m_isSeeking /\ ~arrived)
        /\ plays' = IF arrived /\ ~m_paused THEN plays + 1 ELSE plays
        /\ m_position' = IF d = Clock /\ ~m_isSeeking' THEN pos ELSE m_position
        /\ UNCHANGED <<m_paused, m_ended, m_waitReady, m_seekingPosition>>

\* onDecoderEnded.
OnEnded ==
    /\ m_ended' = TRUE
    /\ m_paused' = TRUE
    /\ UNCHANGED <<plays, m_waitReady, m_isSeeking, m_seekingPosition, m_position>>

Silent == UNCHANGED <<flags, plays>>

-----------------------------------------------------------------------------
(* The decoder threads.  A message of a decoder is one step: while it waits *)
(* for packages it has changed nothing another thread uses.                *)

\* Mutant: the end of the media is an underrun like any other.
FillBuffer_NoEnd(r, index) ==
    LET fills == /\ r.m_decodedFrames # <<>>
                 /\ ~r.m_didUnderrun \/ IsWarmedUp("audio", r)
        frame == Head(r.m_decodedFrames)
        times == IF r.m_didFlushBuffers
                 THEN [i \in {0, 1} |-> frame]
                 ELSE [r.m_ahiSampleTimestamp EXCEPT ![index] = frame]
    IN  IF fills
        THEN [dec |-> [r EXCEPT !.m_decodedFrames = Tail(@),
                                !.m_didUnderrun = FALSE,
                                !.m_didFlushBuffers = FALSE,
                                !.m_ahiSampleTimestamp = times],
              sent |-> <<[op |-> "position", pos |-> times[1 - index]]>>]
        ELSE [dec |-> [r EXCEPT !.m_didUnderrun = TRUE], sent |-> <<>>]

\* fillBuffer(index) of the audio decoder r: the fields after it and the
\* messages it dispatches.  A sample takes one frame.
FillBuffer(r, index) ==
    LET fills == /\ r.m_decodedFrames # <<>>
                 /\ ~r.m_didUnderrun \/ IsWarmedUp("audio", r)
        frame == Head(r.m_decodedFrames)
        times == IF r.m_didFlushBuffers
                 THEN [i \in {0, 1} |-> frame]
                 ELSE [r.m_ahiSampleTimestamp EXCEPT ![index] = frame]
        over  == r.m_decoderEOF \/ r.m_position.pos >= Last
    IN  IF fills
        THEN [dec |-> [r EXCEPT !.m_decodedFrames = Tail(@),
                                !.m_didUnderrun = FALSE,
                                !.m_didFlushBuffers = FALSE,
                                !.m_ahiSampleTimestamp = times],
              sent |-> <<[op |-> "position", pos |-> times[1 - index]]>>]
        ELSE [dec |-> [r EXCEPT !.m_didUnderrun = TRUE],
              sent |-> IF over THEN <<[op |-> "ended"]>> ELSE <<>>]

\* onGetReadyToPlay: initializeAudio() opens the device unless it is open;
\* the video decoder asks for a repaint.
GetReadyToPlay(d, r) ==
    IF d = "audio" /\ ~r.m_ahiControl
    THEN LET filled == FillBuffer([r EXCEPT !.m_didFlushBuffers = TRUE], 0)
         IN  [filled EXCEPT !.dec.m_ahiControl = TRUE,
                            !.dec.m_ahiSample = 0,
                            !.dec.m_playing = FALSE]
    ELSE [dec |-> r, sent |-> <<>>]

\* Mutant: one package too many at the end of the media.
DecodeFrames_PastEnd(d, r, next) ==
    LET space  == Max({0, ReadAhead[d] - Len(r.m_decodedFrames)})
        count  == Min({space, Last + 2 - next.pos})
        frames == r.m_decodedFrames
                    \o [i \in 1 .. count |-> [next EXCEPT !.pos = @ + i - 1]]
        first  == /\ d = "video" /\ ~r.m_didShowFirstFrame
                  /\ count > 0 /\ Len(frames) > 1
    IN  [dec |-> [r EXCEPT !.m_decodedFrames = frames,
                           !.m_decoderEOF = @ \/ count < space,
                           !.m_didShowFirstFrame = @ \/ first,
                           !.m_position = IF first THEN Head(frames) ELSE @],
         next |-> [next EXCEPT !.pos = @ + count],
         sent |-> <<>>,
         shown |-> first]

\* The packages from next on, decoded until the buffer of r is full.
\* onFrameDecoded comes before the frame is queued: the video decoder shows
\* its first frame when it has another.
DecodeFrames(d, r, next) ==
    LET space  == Max({0, ReadAhead[d] - Len(r.m_decodedFrames)})
        count  == Min({space, Last + 1 - next.pos})
        frames == r.m_decodedFrames
                    \o [i \in 1 .. count |-> [next EXCEPT !.pos = @ + i - 1]]
        first  == /\ d = "video" /\ ~r.m_didShowFirstFrame
                  /\ count > 0 /\ Len(frames) > 1
    IN  [dec |-> [r EXCEPT !.m_decodedFrames = frames,
                           !.m_decoderEOF = @ \/ count < space,
                           !.m_didShowFirstFrame = @ \/ first,
                           !.m_position = IF first THEN Head(frames) ELSE @],
         next |-> [next EXCEPT !.pos = @ + count],
         sent |-> <<>>,
         shown |-> first]

\* decodeUntilBufferFull of r.  An audio decoder that plays when it takes the
\* flush package of a seek fills its buffer and a sample and goes on playing.
DecodeUntilBufferFull(d, r) ==
    LET flush == muxer[d].flush /\ ~BufferFull(d, r)
        once  == DecodeFrames(d, IF flush THEN Flush(r) ELSE r, muxer[d].next)
        again == FillBuffer(once.dec, once.dec.m_ahiSample)
        got   == IF flush /\ d = "audio" /\ r.m_playing /\ r.m_ahiControl
                 THEN [DecodeFrames(d, [again.dec EXCEPT !.sounding = TRUE],
                                    once.next) EXCEPT !.sent = again.sent]
                 ELSE once
        ready == got.shown \/ \E x \in {once.dec, got.dec} : IsReadyToPlay(d, x)
    IN  [dec   |-> [got.dec EXCEPT !.m_readying = @ /\ ~ready],
         muxer |-> [flush |-> muxer[d].flush /\ ~flush, next |-> got.next],
         sent  |-> got.sent,
         shown |-> got.shown,
         ready |-> r.m_readying /\ ready]

\* Decoder thread d takes a message.
Handles(d, op) ==
    /\ decQueue[d] # <<>>
    /\ Head(decQueue[d]).op = op
    /\ UNCHANGED <<container, calls, seeks, yielded>>

\* onReadyToPlay of a decoder that m_readying says is getting ready.
Ready(reports) == IF reports THEN <<[op |-> "ready"]>> ELSE <<>>

\* The message decoded (got) and leaves the decoder with fields r; sent and
\* ready are what it did after decoding.
Decodes(d, got, r, sent, ready) ==
    /\ dec' = [dec EXCEPT ![d] = r]
    /\ muxer' = [muxer EXCEPT ![d] = got.muxer]
    /\ decQueue' = [decQueue EXCEPT ![d] = Tail(@) \o got.sent \o sent]
    /\ m_queue' = m_queue \o Ready(got.ready) \o Ready(ready)

\* The message does not decode and leaves the decoder with fields r.
Changes(d, r) ==
    /\ dec' = [dec EXCEPT ![d] = r]
    /\ decQueue' = [decQueue EXCEPT ![d] = Tail(@)]
    /\ UNCHANGED <<muxer, m_queue>>

\* showFirstFrame reports a position.
FirstFrame(d, got) ==
    IF got.shown THEN OnPositionChanged(d, got.dec.m_position) ELSE Silent

DoWarmUp(d) ==
    LET got == DecodeUntilBufferFull(d, dec[d])
    IN  /\ Handles(d, "warmUp")
        /\ Decodes(d, got, got.dec, <<>>, FALSE)
        /\ FirstFrame(d, got)

\* Mutants: prePlay leaves the report to a later decodeUntilBufferFull; it
\* forgets that a report is due when the decoder is not ready yet.
DoPrePlay_NoReport(d) ==
    LET got   == DecodeUntilBufferFull(d, dec[d])
        init  == GetReadyToPlay(d, got.dec)
    IN  /\ Handles(d, "prePlay")
        /\ Decodes(d, got, [init.dec EXCEPT !.m_readying = TRUE], init.sent,
                   FALSE)
        /\ FirstFrame(d, got)
DoPrePlay_NotReadying(d) ==
    LET got   == DecodeUntilBufferFull(d, dec[d])
        init  == GetReadyToPlay(d, got.dec)
    IN  /\ Handles(d, "prePlay")
        /\ Decodes(d, got, init.dec, init.sent, IsReadyToPlay(d, init.dec))
        /\ FirstFrame(d, got)

\* A decoder that is ready after prePlay says so.
DoPrePlay(d) ==
    LET got   == DecodeUntilBufferFull(d, dec[d])
        init  == GetReadyToPlay(d, got.dec)
        ready == IsReadyToPlay(d, init.dec)
    IN  /\ Handles(d, "prePlay")
        /\ Decodes(d, got, [init.dec EXCEPT !.m_readying = ~ready], init.sent,
                   ready)
        /\ FirstFrame(d, got)

\* startPlaying, if the decoder is (still) ready.
DoPlay(d) ==
    LET got   == DecodeUntilBufferFull(d, dec[d])
        init  == GetReadyToPlay(d, got.dec)
        ready == IsReadyToPlay(d, init.dec)
        r     == [init.dec EXCEPT !.m_playing = @ \/ ready,
                                  !.sounding = @ \/ (ready /\ d = "audio")]
    IN  /\ Handles(d, "play")
        /\ Decodes(d, got, r, init.sent, FALSE)
        /\ IF ready /\ d = "video" THEN OnPositionChanged(d, r.m_position)
                                   ELSE FirstFrame(d, got)

DoPause(d) ==
    /\ Handles(d, "pause")
    /\ Changes(d, [StopPlaying(d, dec[d]) EXCEPT !.m_readying = FALSE])
    /\ Silent

DoPauseToSeek(d) ==
    /\ Handles(d, "pauseToSeek")
    /\ Changes(d, [Flush(StopPlaying(d, dec[d])) EXCEPT !.m_readying = FALSE])
    /\ Silent

\* onCoolDown closes the audio device (ahiCleanup).
DoCoolDown(d) ==
    /\ Handles(d, "coolDown")
    /\ Changes(d, [StopPlaying(d, dec[d]) EXCEPT !.m_readying = FALSE,
                                                 !.m_ahiControl = FALSE])
    /\ Silent

\* The function fillBuffer dispatches for a new position.  It does nothing
\* once the device is closed (m_ahiThreadShuttingDown).
DoPosition(d) ==
    LET pos == Head(decQueue[d]).pos
        got == DecodeUntilBufferFull(d, [dec[d] EXCEPT !.m_position = pos])
    IN  /\ Handles(d, "position")
        /\ IF dec[d].m_ahiControl
           THEN /\ Decodes(d, got, got.dec, <<>>, FALSE)
                /\ OnPositionChanged(d, pos)
           ELSE Changes(d, dec[d]) /\ Silent

\* The function it dispatches at the end of the media.
DoEnded(d) ==
    /\ Handles(d, "ended")
    /\ IF dec[d].m_ahiControl
       THEN /\ Changes(d, [StopPlaying(d, dec[d])
                               EXCEPT !.m_position.pos = Last + 1])
            /\ OnEnded
       ELSE Changes(d, dec[d]) /\ Silent

\* The function the pull thread dispatches after a frame.
DoShown(d) ==
    LET got == DecodeUntilBufferFull(d, dec[d])
    IN  /\ Handles(d, "shown")
        /\ Decodes(d, got, got.dec, <<>>, FALSE)
        /\ OnPositionChanged(d, dec[d].m_position)

-----------------------------------------------------------------------------
(* The outputs.                                                            *)

\* AHI has played a sample (soundFunc): the pump thread fills the next one.
Pump(d) ==
    LET r      == dec[d]
        index  == 1 - r.m_ahiSample
        filled == FillBuffer(r, index)
    IN  /\ d = "audio"
        /\ r.sounding
        /\ Len(decQueue[d]) < MaxQueue
        /\ dec' = [dec EXCEPT ![d] = [filled.dec EXCEPT !.m_ahiSample = index]]
        /\ decQueue' = [decQueue EXCEPT ![d] = @ \o filled.sent]
        /\ Silent
        /\ UNCHANGED <<m_queue, container, muxer, calls, seeks, yielded>>

\* The video pull thread shows or drops the next frame.
Pull(d) ==
    LET r == dec[d]
    IN  /\ d = "video"
        /\ r.m_playing
        /\ r.m_decodedFrames # <<>>
        /\ Len(decQueue[d]) < MaxQueue
        /\ dec' = [dec EXCEPT ![d].m_position = Head(r.m_decodedFrames),
                              ![d].m_decodedFrames = Tail(@)]
        /\ decQueue' = [decQueue EXCEPT ![d] = Append(@, [op |-> "shown"])]
        /\ Silent
        /\ UNCHANGED <<m_queue, container, muxer, calls, seeks, yielded>>

-----------------------------------------------------------------------------
Client == Play \/ Pause \/ Yield \/ Seek

Container ==
    RunPlay \/ RunPause \/ RunCoolDown \/ RunReady \/ RunSeek \/ SeekMuxer

DecoderThread(d) ==
    \/ DoWarmUp(d) \/ DoPrePlay(d) \/ DoPlay(d) \/ DoPause(d)
    \/ DoPauseToSeek(d) \/ DoCoolDown(d)
    \/ DoPosition(d) \/ DoEnded(d) \/ DoShown(d)

Next ==
    \/ Client
    \/ RunMain
    \/ Container
    \/ \E d \in Decoders : DecoderThread(d) \/ Pump(d) \/ Pull(d)

Spec == Init /\ [][Next]_vars

(* Every thread goes on and the outputs play; the client need not call.  A  *)
(* decoder thread is enabled when its queue is not empty, so that its       *)
(* condition is weak fairness of DecoderThread(d) without ENABLED.          *)
FairSpec ==
    /\ Spec
    /\ WF_vars(RunMain)
    /\ WF_vars(Container)
    /\ \A d \in Decoders :
           /\ []<>(decQueue[d] = <<>>) \/ []<><<DecoderThread(d)>>_vars
           /\ WF_vars(Pump(d))
           /\ WF_vars(Pull(d))

-----------------------------------------------------------------------------
(* Properties.                                                             *)

\* The position the container tells its client goes back only with a seek: never
\* to what was read before an earlier seek than the last position, and within
\* what one seek has read never at all, although positions wait in the decoder's
\* queue while seeks flush the buffers and the device is reopened.  (It does not
\* say that a seek ends with a position of the new place: one that was queued
\* before a seek to a near place ends it, and is told.)
PositionsInOrder ==
    [][\/ m_position'.run > m_position.run
       \/ /\ m_position'.run = m_position.run
          /\ m_position'.pos >= m_position.pos]_vars

\* onReadyToPlay is called for every prePlay: between two messages no decoder
\* that still owes the container the report (m_readying) is ready to play,
\* whichever of decoding, opening the device or showing a frame came last.
ReadyIsReported ==
    \A d \in Decoders :
        ~(dec[d].m_readying /\ IsReadyToPlay(d, dec[d]))

\* play() leads to the play message of the decoders: m_waitReady does not stay
\* set while both decoders are ready, unless the player is paused (by pause()
\* or by the end of the media) or has yielded the audio device.
PlayIsAnswered ==
    m_waitReady /\ ~m_paused /\ ~yielded ~> ~m_waitReady \/ m_paused \/ yielded

\* A device that plays stops: the sample after the last frame makes the audio
\* decoder stop it, whatever pauses and seeks came before.
PlaysOut == dec[Clock].sounding ~> ~dec[Clock].sounding

\* A seek of a paused player ends: the media element waits for it before it goes
\* on.  (It does not: with the audio device open and nothing to play, no position
\* is reported, and only a position near the target ends a seek.)
SeekEnds ==
    m_isSeeking /\ m_paused /\ ~yielded ~> ~m_isSeeking \/ ~m_paused \/ yielded
===============================================================================
