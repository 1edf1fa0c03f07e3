--------------------------- MODULE Playback_proofs ---------------------------
(***************************************************************************)
(* Proofs about Playback, for any media, buffers and number of calls, with *)
(* an audio decoder, a video decoder or both.                              *)
(*                                                                         *)
(* IndInv holds the types and what ReadyIsReported needs.  LineInv, on top *)
(* of it, puts the positions of the decoder that is the clock in one line, *)
(* earlier first, from the one the client was told to the muxer's next.    *)
(***************************************************************************)
EXTENDS Playback, Queues_proofs

(***************************************************************************)
(* The operators of the model.                                             *)
(***************************************************************************)

\* The larger of two numbers.
LEMMA MaxPair ==
    ASSUME NEW a \in Int, NEW b \in Int
    PROVE  Max({a, b}) \in {a, b} /\ Max({a, b}) >= a /\ Max({a, b}) >= b
  <1>1. \E x \in {a, b} : \A y \in {a, b} : x >= y
    OBVIOUS
  <1> QED
    BY <1>1 DEF Max

\* The smaller of two numbers.
LEMMA MinPair ==
    ASSUME NEW a \in Int, NEW b \in Int
    PROVE  Min({a, b}) \in {a, b} /\ Min({a, b}) <= a /\ Min({a, b}) <= b
  <1>1. \E x \in {a, b} : \A y \in {a, b} : x =< y
    OBVIOUS
  <1> QED
    BY <1>1 DEF Min

\* The messages.
LEMMA Messages ==
    /\ \A op \in {"warmUp", "prePlay", "play", "pause", "pauseToSeek", "coolDown",
                  "ended", "shown"} : [op |-> op] \in DecoderMessage
    /\ \A f \in Frame : [op |-> "position", pos |-> f] \in DecoderMessage
    /\ \A op \in {"play", "pause", "ready", "coolDown"} :
         [op |-> op] \in ContainerMessage
    /\ \A pos \in Stretch : [op |-> "seek", pos |-> pos] \in ContainerMessage
    /\ \A m \in DecoderMessage : m.op = "position" => m.pos \in Frame
    /\ \A m \in ContainerMessage : m.op = "seek" => m.pos \in Stretch
  BY DEF DecoderMessage, ContainerMessage

\* A frame is a position, and so is the end of the media.
LEMMA Positions ==
    /\ Frame \subseteq Position
    /\ \A p \in Position : /\ p.run \in 0 .. MaxSeeks /\ p.pos \in 0 .. Last + 1
                           /\ [p EXCEPT !.pos = Last + 1] \in Position
    /\ Start \in Frame
  BY BoundsAssumption DEF Frame, Position, Stretch, Start

\* A message is sent to every decoder.
LEMMA ToAllType ==
    ASSUME NEW q \in [Decoders -> Seq(DecoderMessage)],
           NEW op \in {"warmUp", "prePlay", "play", "pause", "pauseToSeek", "coolDown",
                       "ended", "shown"}
    PROVE  ToAll(q, op) \in [Decoders -> Seq(DecoderMessage)]
  <1>1. ASSUME NEW d \in Decoders PROVE Append(q[d], [op |-> op]) \in Seq(DecoderMessage)
    BY Messages, AppendProperties
  <1> QED
    BY <1>1 DEF ToAll

\* What decides whether a decoder is ready.
LEMMA ReadyFields ==
    ASSUME NEW d, NEW r, NEW s,
           s.m_decodedFrames = r.m_decodedFrames, s.m_decoderEOF = r.m_decoderEOF,
           s.m_ahiControl = r.m_ahiControl,
           s.m_didShowFirstFrame = r.m_didShowFirstFrame
    PROVE  IsReadyToPlay(d, s) <=> IsReadyToPlay(d, r)
  BY DEF IsReadyToPlay, IsWarmedUp, BufferFull

\* Stopping changes only what plays.
LEMMA StopType ==
    ASSUME NEW d, NEW r \in Decoder
    PROVE  \A s \in {StopPlayingQuick(r), StopPlaying(d, r)} :
             /\ s \in Decoder
             /\ s.m_readying = r.m_readying
             /\ s.m_ahiControl = r.m_ahiControl
             /\ IsReadyToPlay(d, s) <=> IsReadyToPlay(d, r)
             /\ s.m_position = r.m_position
  <1>1. ASSUME NEW s \in {r, [r EXCEPT !.m_playing = FALSE],
                          [r EXCEPT !.m_playing = FALSE, !.sounding = FALSE]}
        PROVE  /\ s \in Decoder
               /\ s.m_readying = r.m_readying
               /\ s.m_ahiControl = r.m_ahiControl
               /\ s.m_decodedFrames = r.m_decodedFrames
               /\ s.m_decoderEOF = r.m_decoderEOF
               /\ s.m_didShowFirstFrame = r.m_didShowFirstFrame
               /\ s.m_position = r.m_position
    BY DEF Decoder
  <1>2. {StopPlayingQuick(r), StopPlaying(d, r)} \subseteq
          {r, [r EXCEPT !.m_playing = FALSE],
           [r EXCEPT !.m_playing = FALSE, !.sounding = FALSE]}
    BY DEF StopPlayingQuick, StopPlaying
  <1> QED
    BY <1>1, <1>2, ReadyFields

\* A flushed decoder.
LEMMA FlushType ==
    ASSUME NEW r \in Decoder
    PROVE  /\ Flush(r) \in Decoder
           /\ Flush(r).m_readying = r.m_readying
           /\ Flush(r).m_ahiControl = r.m_ahiControl
  <1>1. <<>> \in Seq(Frame)
    OBVIOUS
  <1> QED
    BY <1>1 DEF Flush, Decoder

\* fillBuffer takes a frame at most.
LEMMA FillType ==
    ASSUME "audio" \in Decoders, NEW r \in Decoder, NEW index \in {0, 1}
    PROVE  LET out == FillBuffer(r, index)
           IN  /\ out.dec \in Decoder
               /\ out.sent \in Seq(DecoderMessage)
               /\ out.dec.m_readying = r.m_readying
               /\ out.dec.m_ahiControl = r.m_ahiControl
               /\ IsReadyToPlay("audio", out.dec) => IsReadyToPlay("audio", r)
  <1> DEFINE fills == /\ r.m_decodedFrames # <<>>
                      /\ ~r.m_didUnderrun \/ IsWarmedUp("audio", r)
             frame == Head(r.m_decodedFrames)
             times == IF r.m_didFlushBuffers
                      THEN [i \in {0, 1} |-> frame]
                      ELSE [r.m_ahiSampleTimestamp EXCEPT ![index] = frame]
             over == r.m_decoderEOF \/ r.m_position.pos >= Last
             out == FillBuffer(r, index)
  <1>1. /\ r.m_decodedFrames \in Seq(Frame)
        /\ r.m_ahiSampleTimestamp \in [{0, 1} -> Frame]
    BY DEF Decoder
  <1>2. CASE fills
    <2> DEFINE s == [r EXCEPT !.m_decodedFrames = Tail(r.m_decodedFrames),
                              !.m_didUnderrun = FALSE,
                              !.m_didFlushBuffers = FALSE,
                              !.m_ahiSampleTimestamp = times]
    <2>1. /\ frame \in Frame /\ Tail(r.m_decodedFrames) \in Seq(Frame)
          /\ Len(Tail(r.m_decodedFrames)) = Len(r.m_decodedFrames) - 1
          /\ Len(r.m_decodedFrames) \in Nat
      BY <1>1, <1>2, HeadTailProperties, LenProperties
    <2>2. times \in [{0, 1} -> Frame]
      BY <1>1, <2>1
    <2>3. times[1 - index] \in Frame
      BY <2>2
    <2>4. out.dec = s /\ out.sent = <<[op |-> "position", pos |-> times[1 - index]]>>
      BY <1>2 DEF FillBuffer
    <2>5. out.sent \in Seq(DecoderMessage)
      <3>1. [op |-> "position", pos |-> times[1 - index]] \in DecoderMessage
        BY <2>3, Messages
      <3> QED
        BY <2>4, <3>1
    <2> HIDE DEF times
    <2>6. /\ s \in Decoder /\ s.m_readying = r.m_readying
          /\ s.m_ahiControl = r.m_ahiControl /\ s.m_decoderEOF = r.m_decoderEOF
          /\ s.m_decodedFrames = Tail(r.m_decodedFrames)
      BY <2>1, <2>2 DEF Decoder
    <2> HIDE DEF s
    <2>7. IsReadyToPlay("audio", s) => IsReadyToPlay("audio", r)
      <3>1. BufferFull("audio", s) => BufferFull("audio", r)
        <4>1. ReadAhead["audio"] \in Nat
          BY BoundsAssumption
        <4> QED
          BY <2>1, <2>6, <4>1 DEF BufferFull
      <3> QED
        BY <2>6, <3>1 DEF IsReadyToPlay, IsWarmedUp
    <2> QED
      BY <2>4, <2>5, <2>6, <2>7
  <1>3. CASE ~fills
    <2> DEFINE s == [r EXCEPT !.m_didUnderrun = TRUE]
    <2>1. out.dec = s /\ out.sent = IF over THEN <<[op |-> "ended"]>> ELSE <<>>
      BY <1>3 DEF FillBuffer
    <2>2. /\ s \in Decoder /\ s.m_readying = r.m_readying
          /\ s.m_ahiControl = r.m_ahiControl /\ s.m_decoderEOF = r.m_decoderEOF
          /\ s.m_decodedFrames = r.m_decodedFrames
          /\ s.m_didShowFirstFrame = r.m_didShowFirstFrame
      BY DEF Decoder
    <2>3. out.sent \in Seq(DecoderMessage)
      <3>1. [op |-> "ended"] \in DecoderMessage
        BY Messages
      <3>2. <<[op |-> "ended"]>> \in Seq(DecoderMessage) /\ <<>> \in Seq(DecoderMessage)
        BY <3>1
      <3> QED
        BY <2>1, <3>2
    <2> HIDE DEF s
    <2> QED
      BY <2>1, <2>2, <2>3, ReadyFields
  <1> QED
    BY <1>2, <1>3

\* How many packages are decoded at once.
LEMMA DecodedCount ==
    ASSUME NEW d \in Decoders, NEW r \in Decoder, NEW next \in Position
    PROVE  LET space == Max({0, ReadAhead[d] - Len(r.m_decodedFrames)})
               count == Min({space, Last + 1 - next.pos})
               new == [i \in 1 .. count |-> [next EXCEPT !.pos = @ + i - 1]]
           IN  /\ space \in Nat /\ count \in Nat /\ count <= (Last + 1) - next.pos
               /\ new \in Seq(Frame)
  <1> DEFINE space == Max({0, ReadAhead[d] - Len(r.m_decodedFrames)})
             count == Min({space, Last + 1 - next.pos})
             new == [i \in 1 .. count |-> [next EXCEPT !.pos = @ + i - 1]]
  <1>2. /\ r.m_decodedFrames \in Seq(Frame) /\ Len(r.m_decodedFrames) \in Nat
    BY LenProperties DEF Decoder
  <1>3. /\ ReadAhead[d] \in Nat /\ Last \in Nat
        /\ next.pos \in 0 .. Last + 1 /\ next.run \in 0 .. MaxSeeks
    BY BoundsAssumption, Positions
  <1>4. space \in Nat
    <2>1. ReadAhead[d] - Len(r.m_decodedFrames) \in Int
      BY <1>2, <1>3
    <2>2. PICK e \in Int : e = ReadAhead[d] - Len(r.m_decodedFrames)
      BY <2>1
    <2>3. Max({0, e}) \in {0, e} /\ Max({0, e}) >= 0
      <3>1. 0 \in Int
        OBVIOUS
      <3> QED
        BY <3>1, MaxPair, Zenon
    <2>4. Max({0, e}) \in Nat
      BY <2>3
    <2> QED
      BY <2>2, <2>4, Zenon
  <1> HIDE DEF space
  <1>5. count \in Nat /\ count <= (Last + 1) - next.pos
    <2>1. (Last + 1) - next.pos \in Nat
      BY <1>3
    <2>2. Last + 1 - next.pos = (Last + 1) - next.pos
      BY <1>3
    <2>3. PICK e \in Nat : e = (Last + 1) - next.pos
      BY <2>1
    <2>4. Min({space, e}) \in {space, e} /\ Min({space, e}) <= e
      <3>1. space \in Int /\ e \in Int
        BY <1>4
      <3> QED
        BY <3>1, MinPair, Zenon
    <2>5. Min({space, e}) \in Nat
      BY <1>4, <2>4
    <2>6. count = Min({space, e})
      BY <2>2, <2>3, Zenon
    <2> QED
      BY <2>3, <2>4, <2>5, <2>6, Zenon
  <1> HIDE DEF count
  <1>6. new \in Seq(Frame)
    <2>1. ASSUME NEW i \in 1 .. count PROVE [next EXCEPT !.pos = @ + i - 1] \in Frame
      <3>1. next.pos + i - 1 \in 0 .. Last
        BY <1>3, <1>5
      <3> QED
        BY <1>3, <3>1 DEF Position, Frame, Stretch
    <2>2. new \in [1 .. count -> Frame]
      BY <2>1
    <2> QED
      BY <1>5, <2>2, SeqDef
  <1> QED
    BY <1>4, <1>5, <1>6 DEF space, count

\* Packages that are decoded become frames, up to the end of the media.
LEMMA DecodeFramesType ==
    ASSUME NEW d \in Decoders, NEW r \in Decoder, NEW next \in Position
    PROVE  LET out == DecodeFrames(d, r, next)
           IN  /\ out.dec \in Decoder
               /\ out.next \in Position /\ out.next.run = next.run
               /\ out.sent = <<>>
               /\ out.shown \in BOOLEAN
               /\ out.dec.m_readying = r.m_readying
               /\ out.dec.m_ahiControl = r.m_ahiControl
  <1> DEFINE space == Max({0, ReadAhead[d] - Len(r.m_decodedFrames)})
             count == Min({space, Last + 1 - next.pos})
             new == [i \in 1 .. count |-> [next EXCEPT !.pos = @ + i - 1]]
             frames == r.m_decodedFrames \o new
             first == /\ d = "video" /\ ~r.m_didShowFirstFrame
                      /\ count > 0 /\ Len(frames) > 1
             s == [r EXCEPT !.m_decodedFrames = frames,
                            !.m_decoderEOF = @ \/ count < space,
                            !.m_didShowFirstFrame = @ \/ first,
                            !.m_position = IF first THEN Head(frames) ELSE @]
             out == DecodeFrames(d, r, next)
  <1>1. /\ out.dec = s /\ out.next = [next EXCEPT !.pos = @ + count]
        /\ out.sent = <<>> /\ out.shown = first
    BY DEF DecodeFrames
  <1>2. /\ r.m_decodedFrames \in Seq(Frame) /\ r.m_position \in Position
        /\ Len(r.m_decodedFrames) \in Nat
    BY LenProperties DEF Decoder
  <1>3. /\ ReadAhead[d] \in Nat /\ Last \in Nat
        /\ next.pos \in 0 .. Last + 1 /\ next.run \in 0 .. MaxSeeks
    BY BoundsAssumption, Positions
  <1>4. space \in Nat /\ count \in Nat /\ count <= (Last + 1) - next.pos
    BY DecodedCount, Zenon
  <1> HIDE DEF space
  <1> HIDE DEF count
  <1>6. new \in Seq(Frame)
    BY DecodedCount DEF count, space
  <1> HIDE DEF new
  <1>7. frames \in Seq(Frame)
    BY <1>2, <1>6, ConcatProperties
  <1> HIDE DEF frames
  <1>8. (IF first THEN Head(frames) ELSE r.m_position) \in Position
    <2>1. first => frames # <<>>
      BY <1>7, EmptySeq, LenProperties
    <2>2. first => Head(frames) \in Frame
      BY <1>7, <2>1, HeadTailProperties
    <2> QED
      BY <1>2, <2>2, Positions
  <1> DEFINE eof == r.m_decoderEOF \/ count < space
             show == r.m_didShowFirstFrame \/ first
             pos == IF first THEN Head(frames) ELSE r.m_position
  <1>9. s = [r EXCEPT !.m_decodedFrames = frames, !.m_decoderEOF = eof,
                      !.m_didShowFirstFrame = show, !.m_position = pos]
    BY DEF Decoder
  <1>10. eof \in BOOLEAN /\ show \in BOOLEAN /\ pos \in Position /\ first \in BOOLEAN
    BY <1>8
  <1> HIDE DEF eof, show, pos, first, s
  <1>11. s \in Decoder /\ s.m_readying = r.m_readying /\ s.m_ahiControl = r.m_ahiControl
    BY <1>7, <1>9, <1>10 DEF Decoder
  <1>12. out.next \in Position /\ out.next.run = next.run
    <2>1. next.pos + count \in 0 .. Last + 1
      BY <1>3, <1>4
    <2> QED
      BY <1>1, <2>1 DEF Position
  <1> QED
    BY <1>1, <1>10, <1>11, <1>12

\* getReadyToPlay opens the device of an audio decoder, if it is not open.
LEMMA GetReadyType ==
    ASSUME NEW d \in Decoders, NEW r \in Decoder
    PROVE  LET out == GetReadyToPlay(d, r)
           IN  /\ out.dec \in Decoder
               /\ out.sent \in Seq(DecoderMessage)
               /\ out.dec.m_readying = r.m_readying
               /\ d = "audio" => out.dec.m_ahiControl
               /\ d # "audio" \/ r.m_ahiControl => out.dec = r
  <1> DEFINE out == GetReadyToPlay(d, r)
  <1>1. CASE d = "audio" /\ ~r.m_ahiControl
    <2> DEFINE s == [r EXCEPT !.m_didFlushBuffers = TRUE]
               filled == FillBuffer(s, 0)
               t == [filled.dec EXCEPT !.m_ahiControl = TRUE, !.m_ahiSample = 0,
                                       !.m_playing = FALSE]
    <2>1. s \in Decoder /\ s.m_readying = r.m_readying
      BY DEF Decoder
    <2> HIDE DEF s
    <2>2. /\ filled.dec \in Decoder /\ filled.dec.m_readying = r.m_readying
          /\ filled.sent \in Seq(DecoderMessage)
      BY <1>1, <2>1, FillType
    <2>3. out.dec = t /\ out.sent = filled.sent
      <3>1. out = [filled EXCEPT !.dec.m_ahiControl = TRUE,
                                 !.dec.m_ahiSample = 0,
                                 !.dec.m_playing = FALSE]
        BY <1>1 DEF GetReadyToPlay, s
      <3>2. \E a, b : filled = [dec |-> a, sent |-> b]
        BY DEF FillBuffer
      <3>3. PICK a, b : filled = [dec |-> a, sent |-> b]
        BY <3>2
      <3> HIDE DEF filled
      <3> QED
        BY <3>1, <3>3
    <2> HIDE DEF filled
    <2>4. t \in Decoder /\ t.m_readying = filled.dec.m_readying /\ t.m_ahiControl
      BY <2>2 DEF Decoder
    <2> QED
      BY <1>1, <2>2, <2>3, <2>4
  <1>2. CASE ~(d = "audio" /\ ~r.m_ahiControl)
    <2>1. out.dec = r /\ out.sent = <<>>
      BY <1>2 DEF GetReadyToPlay
    <2>2. <<>> \in Seq(DecoderMessage)
      OBVIOUS
    <2> QED
      BY <1>2, <2>1, <2>2
  <1> QED
    BY <1>1, <1>2

\* What decodeUntilBufferFull leaves: a decoder that still owes a report is not
\* ready to play.
LEMMA DecodeUntilType ==
    ASSUME NEW d \in Decoders, NEW r \in Decoder,
           muxer \in [Decoders -> [flush : BOOLEAN, next : Position]]
    PROVE  LET out == DecodeUntilBufferFull(d, r)
           IN  /\ out.dec \in Decoder
               /\ out.muxer \in [flush : BOOLEAN, next : Position]
               /\ out.muxer.next.run = muxer[d].next.run
               /\ out.sent \in Seq(DecoderMessage)
               /\ out.shown \in BOOLEAN
               /\ out.ready \in BOOLEAN
               /\ ~(out.dec.m_readying /\ IsReadyToPlay(d, out.dec))
               /\ out.dec.m_readying => r.m_readying
               /\ out.dec.m_ahiControl = r.m_ahiControl
  <1> DEFINE flush == muxer[d].flush /\ ~BufferFull(d, r)
             from == IF flush THEN Flush(r) ELSE r
             once == DecodeFrames(d, from, muxer[d].next)
             again == FillBuffer(once.dec, once.dec.m_ahiSample)
             more == DecodeFrames(d, [again.dec EXCEPT !.sounding = TRUE], once.next)
             got == IF flush /\ d = "audio" /\ r.m_playing /\ r.m_ahiControl
                    THEN [more EXCEPT !.sent = again.sent]
                    ELSE once
             ready == got.shown \/ \E x \in {once.dec, got.dec} : IsReadyToPlay(d, x)
             out == DecodeUntilBufferFull(d, r)
  <1>1. /\ out.dec = [got.dec EXCEPT !.m_readying = @ /\ ~ready]
        /\ out.muxer = [flush |-> muxer[d].flush /\ ~flush, next |-> got.next]
        /\ out.sent = got.sent /\ out.shown = got.shown
        /\ out.ready = (r.m_readying /\ ready)
    BY DEF DecodeUntilBufferFull
  <1>2. muxer[d].flush \in BOOLEAN /\ muxer[d].next \in Position
    OBVIOUS
  <1>3. /\ from \in Decoder /\ from.m_readying = r.m_readying
        /\ from.m_ahiControl = r.m_ahiControl
    BY FlushType
  <1> HIDE DEF from
  <1>4. /\ once.dec \in Decoder /\ once.next \in Position /\ once.sent = <<>>
        /\ once.next.run = muxer[d].next.run /\ once.shown \in BOOLEAN
        /\ once.dec.m_readying = r.m_readying /\ once.dec.m_ahiControl = r.m_ahiControl
    BY <1>2, <1>3, DecodeFramesType
  <1> HIDE DEF once
  <1>5. ASSUME d = "audio"
        PROVE  /\ again.sent \in Seq(DecoderMessage)
               /\ more.dec \in Decoder /\ more.next \in Position
               /\ more.next.run = muxer[d].next.run /\ more.shown \in BOOLEAN
               /\ more.dec.m_readying = r.m_readying
               /\ more.dec.m_ahiControl = r.m_ahiControl
    <2>1. once.dec.m_ahiSample \in {0, 1}
      BY <1>4 DEF Decoder
    <2>2. /\ again.dec \in Decoder /\ again.sent \in Seq(DecoderMessage)
          /\ again.dec.m_readying = r.m_readying /\ again.dec.m_ahiControl = r.m_ahiControl
      BY <1>4, <1>5, <2>1, FillType
    <2> HIDE DEF again
    <2> DEFINE s == [again.dec EXCEPT !.sounding = TRUE]
    <2>3. s \in Decoder /\ s.m_readying = r.m_readying /\ s.m_ahiControl = r.m_ahiControl
      BY <2>2 DEF Decoder
    <2> HIDE DEF s
    <2>4. LET x == DecodeFrames(d, s, once.next)
          IN  /\ x.dec \in Decoder /\ x.next \in Position
              /\ x.next.run = once.next.run /\ x.shown \in BOOLEAN
              /\ x.dec.m_readying = s.m_readying
              /\ x.dec.m_ahiControl = s.m_ahiControl
      BY <1>4, <2>3, DecodeFramesType
    <2> QED
      BY <1>4, <2>2, <2>3, <2>4 DEF s
  <1>6. /\ got.dec \in Decoder /\ got.next \in Position
        /\ got.next.run = muxer[d].next.run /\ got.shown \in BOOLEAN
        /\ got.sent \in Seq(DecoderMessage)
        /\ got.dec.m_readying = r.m_readying /\ got.dec.m_ahiControl = r.m_ahiControl
    <2>1. CASE flush /\ d = "audio" /\ r.m_playing /\ r.m_ahiControl
      <3>1. got = [more EXCEPT !.sent = again.sent]
        BY <2>1
      <3>2. PICK a, b, c, e : more = [dec |-> a, next |-> b, sent |-> c, shown |-> e]
        BY DEF DecodeFrames
      <3> HIDE DEF more, again, got
      <3>3. /\ got.dec = more.dec /\ got.next = more.next /\ got.shown = more.shown
            /\ got.sent = again.sent
        BY <3>1, <3>2
      <3> QED
        BY <1>5, <2>1, <3>3
    <2>2. CASE ~(flush /\ d = "audio" /\ r.m_playing /\ r.m_ahiControl)
      <3>1. got = once
        BY <2>2
      <3>2. <<>> \in Seq(DecoderMessage)
        OBVIOUS
      <3> QED
        BY <1>4, <3>1, <3>2
    <2> QED
      BY <2>1, <2>2
  <1>7. IsReadyToPlay(d, got.dec) => ready
    OBVIOUS
  <1>8. ready \in BOOLEAN /\ flush \in BOOLEAN
    BY <1>6
  <1> HIDE DEF got, ready, flush
  <1> DEFINE s == [got.dec EXCEPT !.m_readying = got.dec.m_readying /\ ~ready]
  <1>9. got.dec.m_readying \in BOOLEAN /\ r.m_readying \in BOOLEAN
    BY <1>6 DEF Decoder
  <1>10. /\ s \in Decoder /\ s.m_readying = (got.dec.m_readying /\ ~ready)
         /\ s.m_ahiControl = got.dec.m_ahiControl
         /\ s.m_decodedFrames = got.dec.m_decodedFrames
         /\ s.m_decoderEOF = got.dec.m_decoderEOF
         /\ s.m_didShowFirstFrame = got.dec.m_didShowFirstFrame
    BY <1>6, <1>8, <1>9 DEF Decoder
  <1>11. out.dec = s
    BY <1>1
  <1> HIDE DEF s
  <1>12. IsReadyToPlay(d, s) => ready
    BY <1>7, <1>10, ReadyFields
  <1>13. /\ out.muxer \in [flush : BOOLEAN, next : Position]
         /\ out.muxer.next.run = muxer[d].next.run
    BY <1>1, <1>2, <1>6, <1>8
  <1>14. out.ready \in BOOLEAN
    BY <1>1, <1>8, <1>9
  <1>15. /\ ~(s.m_readying /\ IsReadyToPlay(d, s))
         /\ s.m_readying => r.m_readying
    BY <1>6, <1>8, <1>9, <1>10, <1>12
  <1> HIDE DEF out
  <1> QED
    BY <1>1, <1>6, <1>10, <1>11, <1>13, <1>14, <1>15 DEF out

(***************************************************************************)
(* The inductive invariant.  A seek gives what is read after it a number;  *)
(* that it stays within the number of calls of seek() needs that no seek   *)
(* is carried out that was not called: those carried out, the one that is  *)
(* being carried out and those in the container's queue are at most that   *)
(* many.  ReadyIsReported needs that a decoder which owes a report has its *)
(* device: the play message may open it, and does not report.              *)
(***************************************************************************)

SeekMessages == {m \in ContainerMessage : m.op = "seek"}

\* The seeks that have been called and have not reached the muxer.
PendingSeeks(q, c) == Hits(q, SeekMessages) + IF c = "seeking" THEN 1 ELSE 0

SeeksAreCalled ==
    \A d \in Decoders : muxer[d].next.run + PendingSeeks(m_queue, container) <= seeks

ReadyingIsOpen ==
    \A d \in Decoders : d = "audio" /\ dec[d].m_readying => dec[d].m_ahiControl

IndInv == TypeOK /\ SeeksAreCalled /\ ReadyingIsOpen /\ ReadyIsReported

\* Messages other than seek are added to the container's queue.
LEMMA PlainMessages ==
    ASSUME NEW q \in Seq(ContainerMessage), NEW op \in {"play", "pause", "ready", "coolDown"},
           NEW t \in {<<>>, <<[op |-> op]>>}
    PROVE  /\ q \o t \in Seq(ContainerMessage)
           /\ Hits(q \o t, SeekMessages) = Hits(q, SeekMessages)
           /\ Append(q, [op |-> op]) \in Seq(ContainerMessage)
           /\ Hits(Append(q, [op |-> op]), SeekMessages) = Hits(q, SeekMessages)
  <1> DEFINE m == [op |-> op]
  <1>1. m \in ContainerMessage /\ m.op # "seek"
    BY Messages
  <1> HIDE DEF m
  <1>2. m \notin SeekMessages
    BY <1>1 DEF SeekMessages
  <1>3. Hits(q, SeekMessages) \in Nat
    BY HitsType
  <1>4. Hits(Append(q, m), SeekMessages) = Hits(q, SeekMessages) + 0
    BY <1>1, <1>2, HitsAppend
  <1>5. Append(q, m) \in Seq(ContainerMessage)
    BY <1>1, AppendProperties
  <1>6. q \o <<>> = q /\ q \o <<m>> = Append(q, m)
    BY <1>1, ConcatEmptySeq, AppendIsConcat
  <1>7. t = <<>> \/ t = <<m>>
    BY DEF m
  <1>8. /\ q \o t \in Seq(ContainerMessage)
        /\ Hits(q \o t, SeekMessages) = Hits(q, SeekMessages)
    <2>1. CASE t = <<>>
      BY <1>6, <2>1
    <2>2. CASE t = <<m>>
      <3>1. q \o t = Append(q, m)
        BY <1>6, <2>2
      <3> QED
        BY <1>3, <1>4, <1>5, <3>1
    <2> QED
      BY <1>7, <2>1, <2>2
  <1> QED
    BY <1>3, <1>4, <1>5, <1>8 DEF m

\* Every action keeps the invariant.
LEMMA Step == ASSUME IndInv, [Next]_vars PROVE IndInv'
  <1> DEFINE Mux == [flush : BOOLEAN, next : Position]
             Flags == /\ m_paused \in BOOLEAN /\ m_ended \in BOOLEAN
                      /\ m_waitReady \in BOOLEAN /\ m_isSeeking \in BOOLEAN
                      /\ m_seekingPosition \in Stretch /\ m_position \in Position
                      /\ plays \in Nat
             Counts == calls \in 0 .. MaxCalls /\ seeks \in 0 .. MaxSeeks /\ yielded \in BOOLEAN
             Queue == m_queue \in Seq(ContainerMessage) /\ container \in {"waiting", "seeking"}
             Muxers == muxer \in [Decoders -> Mux] /\ SeeksAreCalled
             Decs == dec \in [Decoders -> Decoder] /\ ReadyingIsOpen /\ ReadyIsReported
             DecQueues == decQueue \in [Decoders -> Seq(DecoderMessage)]
  <1>1. Flags /\ Counts /\ Queue /\ Muxers /\ Decs /\ DecQueues
    BY DEF IndInv, TypeOK
  <1>2. SUFFICES Flags' /\ Counts' /\ Queue' /\ Muxers' /\ Decs' /\ DecQueues'
    BY DEF IndInv, TypeOK
  <1>3. UNCHANGED dec => Decs'
    BY <1>1 DEF ReadyingIsOpen, ReadyIsReported
  <1>4. UNCHANGED <<flags, plays>> => Flags'
    BY <1>1 DEF flags
  <1>5. UNCHANGED <<calls, seeks, yielded>> => Counts'
    BY <1>1
  <1>6. (/\ UNCHANGED <<muxer, seeks>>
         /\ PendingSeeks(m_queue', container') = PendingSeeks(m_queue, container))
          => Muxers'
    BY <1>1 DEF SeeksAreCalled
  <1>7. Hits(m_queue, SeekMessages) \in Nat
    BY <1>1, HitsType
  <1>8. UNCHANGED decQueue => DecQueues'
    BY <1>1
  <1>80. ASSUME NEW d \in Decoders
         PROVE  muxer[d].next.run \in Nat /\ seeks \in Nat /\ seeks <= MaxSeeks
    <2>1. muxer[d].next \in Position
      BY <1>1
    <2>2. muxer[d].next.run \in 0 .. MaxSeeks
      BY <2>1, Positions
    <2>3. seeks \in 0 .. MaxSeeks /\ MaxSeeks \in Nat
      BY <1>1, BoundsAssumption
    <2> QED
      BY <2>2, <2>3
  <1> DEFINE OPS == {"warmUp", "prePlay", "play", "pause", "pauseToSeek", "coolDown",
                     "ended", "shown"}
  <1>9. ASSUME NEW op \in OPS, decQueue' = ToAll(decQueue, op) PROVE DecQueues'
    BY <1>1, <1>9, ToAllType
  <1>10. ASSUME NEW d \in Decoders, NEW r \in Decoder, dec' = [dec EXCEPT ![d] = r],
                ~(r.m_readying /\ IsReadyToPlay(d, r)),
                d = "audio" /\ r.m_readying => r.m_ahiControl
         PROVE  Decs'
    <2>1. dec' \in [Decoders -> Decoder]
      BY <1>1, <1>10
    <2>2. ASSUME NEW e \in Decoders
          PROVE  /\ ~(dec'[e].m_readying /\ IsReadyToPlay(e, dec'[e]))
                 /\ e = "audio" /\ dec'[e].m_readying => dec'[e].m_ahiControl
      <3>1. CASE e = d
        BY <1>1, <1>10, <3>1
      <3>2. CASE e # d
        <4>1. dec'[e] = dec[e]
          BY <1>1, <1>10, <3>2
        <4> QED
          BY <1>1, <4>1 DEF ReadyingIsOpen, ReadyIsReported
      <3> QED
        BY <3>1, <3>2
    <2>3. ReadyingIsOpen' /\ ReadyIsReported'
      BY <2>2
      DEF ReadyingIsOpen, ReadyIsReported, IsReadyToPlay, IsWarmedUp,
          BufferFull
    <2> QED
      BY <2>1, <2>3
  <1>11. ASSUME dec' = [d \in Decoders |-> StopPlayingQuick(dec[d])] PROVE Decs'
    <2>1. ASSUME NEW d \in Decoders
          PROVE  /\ dec'[d] \in Decoder
                 /\ ~(dec'[d].m_readying /\ IsReadyToPlay(d, dec'[d]))
                 /\ d = "audio" /\ dec'[d].m_readying => dec'[d].m_ahiControl
      <3>1. dec'[d] = StopPlayingQuick(dec[d]) /\ dec[d] \in Decoder
        BY <1>1, <1>11
      <3>2. /\ ~(dec[d].m_readying /\ IsReadyToPlay(d, dec[d]))
            /\ d = "audio" /\ dec[d].m_readying => dec[d].m_ahiControl
        BY <1>1 DEF ReadyingIsOpen, ReadyIsReported
      <3> QED
        BY <3>1, <3>2, StopType
    <2>2. dec' \in [Decoders -> Decoder]
      BY <1>11, <2>1
    <2>3. ReadyingIsOpen' /\ ReadyIsReported'
      BY <2>1
      DEF ReadyingIsOpen, ReadyIsReported, IsReadyToPlay, IsWarmedUp,
          BufferFull
    <2> QED
      BY <2>2, <2>3
  <1>12. ASSUME PlayCall, UNCHANGED container
         PROVE  /\ Queue' /\ PendingSeeks(m_queue', container') = PendingSeeks(m_queue, container)
                /\ m_paused' \in BOOLEAN /\ m_waitReady' \in BOOLEAN
    <2>1. m_queue' = m_queue \/ m_queue' = Append(m_queue, [op |-> "play"])
      BY <1>12 DEF PlayCall
    <2>2. /\ m_queue' \in Seq(ContainerMessage)
          /\ Hits(m_queue', SeekMessages) = Hits(m_queue, SeekMessages)
      BY <1>1, <2>1, PlainMessages
    <2>3. m_paused' \in BOOLEAN /\ m_waitReady' \in BOOLEAN
      BY <1>1, <1>12 DEF PlayCall
    <2> QED
      BY <1>1, <1>12, <2>2, <2>3 DEF PendingSeeks
  <1>13. ASSUME Call
         PROVE  calls' \in 0 .. MaxCalls /\ Decs' /\ DecQueues'
    <2>1. calls' \in 0 .. MaxCalls
      BY <1>1, <1>13, BoundsAssumption DEF Call
    <2> QED
      BY <1>3, <1>8, <1>13, <2>1 DEF Call
  <1>14. CASE Play
    <2>1. Call /\ PlayCall /\ UNCHANGED <<seeks, yielded>>
      BY <1>14 DEF Play
    <2>2. UNCHANGED <<m_ended, m_isSeeking, m_seekingPosition, m_position, container, muxer, plays>>
      BY <2>1 DEF Call
    <2> QED
      BY <1>1, <1>6, <1>12, <1>13, <2>1, <2>2
  <1>15. ASSUME NEW after \in {<<>>, <<[op |-> "coolDown"]>>}, Paused(after), UNCHANGED container
         PROVE  /\ Queue' /\ PendingSeeks(m_queue', container') = PendingSeeks(m_queue, container)
                /\ m_paused' \in BOOLEAN /\ m_waitReady' \in BOOLEAN
    <2>1. \/ m_queue' = m_queue \o after
          \/ m_queue' = Append(m_queue, [op |-> "pause"]) \o after
      BY <1>15 DEF Paused
    <2>2. ASSUME NEW q \in Seq(ContainerMessage)
          PROVE  /\ q \o after \in Seq(ContainerMessage)
                 /\ Hits(q \o after, SeekMessages) = Hits(q, SeekMessages)
      BY PlainMessages
    <2>3. /\ Append(m_queue, [op |-> "pause"]) \in Seq(ContainerMessage)
          /\ Hits(Append(m_queue, [op |-> "pause"]), SeekMessages) = Hits(m_queue, SeekMessages)
      BY <1>1, PlainMessages
    <2>4. /\ m_queue' \in Seq(ContainerMessage)
          /\ Hits(m_queue', SeekMessages) = Hits(m_queue, SeekMessages)
      BY <1>1, <2>1, <2>2, <2>3
    <2>5. m_paused' \in BOOLEAN /\ m_waitReady' \in BOOLEAN
      BY <1>1, <1>15 DEF Paused
    <2> QED
      BY <1>1, <1>15, <2>4, <2>5 DEF PendingSeeks
  <1>16. CASE Pause
    <2>1. Call /\ Paused(<<>>) /\ UNCHANGED <<seeks, yielded>>
      BY <1>16 DEF Pause
    <2>2. UNCHANGED <<m_ended, m_isSeeking, m_seekingPosition, m_position, container, muxer, plays>>
      BY <2>1 DEF Call
    <2> QED
      BY <1>1, <1>6, <1>13, <1>15, <2>1, <2>2
  <1>17. CASE Yield
    <2>1. Call /\ Paused(<<[op |-> "coolDown"]>>) /\ UNCHANGED seeks /\ yielded' = TRUE
      BY <1>17 DEF Yield
    <2>2. UNCHANGED <<m_ended, m_isSeeking, m_seekingPosition, m_position, container, muxer, plays>>
      BY <2>1 DEF Call
    <2> QED
      BY <1>1, <1>6, <1>13, <1>15, <2>1, <2>2
  <1>18. CASE Seek
    <2>1. /\ Call /\ seeks < MaxSeeks /\ seeks' = seeks + 1
          /\ UNCHANGED <<m_paused, m_waitReady, yielded>>
      BY <1>18 DEF Seek
    <2>2. UNCHANGED <<m_ended, m_isSeeking, m_seekingPosition, m_position, container, muxer, plays>>
      BY <2>1 DEF Call
    <2>3. PICK pos \in Targets : m_queue' = Append(m_queue, [op |-> "seek", pos |-> pos])
      BY <1>18 DEF Seek
    <2> DEFINE m == [op |-> "seek", pos |-> pos]
    <2>4. m \in ContainerMessage /\ m.op = "seek"
      BY BoundsAssumption, Messages DEF Stretch
    <2>5. m \in SeekMessages
      BY <2>4 DEF SeekMessages
    <2> HIDE DEF m
    <2>6. /\ m_queue' \in Seq(ContainerMessage)
          /\ Hits(m_queue', SeekMessages) = Hits(m_queue, SeekMessages) + 1
      BY <1>1, <2>3, <2>4, <2>5, AppendProperties, HitsAppend DEF m
    <2>7. PendingSeeks(m_queue', container') = PendingSeeks(m_queue, container) + 1
      BY <1>7, <2>2, <2>6 DEF PendingSeeks
    <2>8. PendingSeeks(m_queue, container) \in Nat
      BY <1>7 DEF PendingSeeks
    <2>9. SeeksAreCalled'
      <3>1. ASSUME NEW d \in Decoders
            PROVE  muxer'[d].next.run + PendingSeeks(m_queue', container') <= seeks'
        <4>1. muxer[d].next.run \in Nat /\ seeks \in Nat
          BY <1>80
        <4>2. muxer[d].next.run + PendingSeeks(m_queue, container) <= seeks
          BY <1>1 DEF SeeksAreCalled
        <4> QED
          BY <2>1, <2>2, <2>7, <2>8, <4>1, <4>2
      <3> QED
        BY <3>1 DEF SeeksAreCalled
    <2>10. seeks' \in 0 .. MaxSeeks
      BY <1>1, <2>1, BoundsAssumption
    <2> QED
      BY <1>1, <1>13, <2>1, <2>2, <2>6, <2>9, <2>10
  <1>19. CASE RunMain
    <2>1. /\ plays > 0 /\ plays' = plays - 1 /\ PlayCall
          /\ UNCHANGED <<m_ended, m_isSeeking, m_seekingPosition, m_position,
                   container, dec, decQueue, muxer, calls, seeks, yielded>>
      BY <1>19 DEF RunMain
    <2>2. plays' \in Nat
      BY <1>1, <2>1
    <2> QED
      BY <1>1, <1>3, <1>5, <1>6, <1>8, <1>12, <2>1, <2>2
  <1>20. ASSUME NEW op, Takes(op), op # "seek", UNCHANGED <<container, muxer>>
         PROVE  Queue' /\ Muxers' /\ Counts'
    <2>1. m_queue # <<>> /\ Head(m_queue).op = op /\ m_queue' = Tail(m_queue)
          /\ UNCHANGED <<calls, seeks, yielded>>
      BY <1>20 DEF Takes
    <2>2. m_queue' \in Seq(ContainerMessage) /\ Head(m_queue) \notin SeekMessages
      BY <1>1, <1>20, <2>1, HeadTailProperties DEF SeekMessages
    <2>3. Hits(m_queue', SeekMessages) = Hits(m_queue, SeekMessages) - 0
      BY <1>1, <2>1, <2>2, HitsTail
    <2>4. PendingSeeks(m_queue', container') = PendingSeeks(m_queue, container)
      BY <1>7, <1>20, <2>3 DEF PendingSeeks
    <2> QED
      BY <1>1, <1>5, <1>6, <1>20, <2>1, <2>2, <2>4
  <1>21. CASE RunPlay
    <2>1. /\ Takes("play")
          /\ UNCHANGED <<m_ended, m_isSeeking, m_seekingPosition, container, dec, muxer>>
          /\ m_waitReady' = ~AreDecodersReadyToPlay
          /\ \E op \in {"play", "prePlay"} : decQueue' = ToAll(decQueue, op)
      BY <1>21 DEF RunPlay
    <2>2. m_waitReady' \in BOOLEAN
      BY <2>1
    <2>3. UNCHANGED <<m_paused, m_position, plays>>
      BY <2>1 DEF Takes
    <2>4. DecQueues'
      BY <1>9, <2>1
    <2> QED
      BY <1>1, <1>3, <1>20, <2>1, <2>2, <2>3, <2>4
  <1>22. CASE RunPause
    <2>1. /\ Takes("pause")
          /\ UNCHANGED <<m_ended, m_waitReady, m_isSeeking, m_seekingPosition, container, muxer>>
          /\ decQueue' = ToAll(decQueue, "pause")
      BY <1>22 DEF RunPause
    <2>2. Decs'
      BY <1>11, <1>22 DEF RunPause
    <2>3. UNCHANGED <<m_paused, m_position, plays>>
      BY <2>1 DEF Takes
    <2> QED
      BY <1>1, <1>9, <1>20, <2>1, <2>2, <2>3
  <1>23. CASE RunCoolDown
    <2>1. /\ Takes("coolDown")
          /\ UNCHANGED <<m_ended, m_waitReady, m_isSeeking, m_seekingPosition,
                          container, dec, muxer>>
          /\ decQueue' = ToAll(decQueue, "coolDown")
      BY <1>23 DEF RunCoolDown
    <2>3. UNCHANGED <<m_paused, m_position, plays>>
      BY <2>1 DEF Takes
    <2> QED
      BY <1>1, <1>3, <1>9, <1>20, <2>1, <2>3
  <1>24. CASE RunReady
    <2>1. /\ Takes("ready")
          /\ UNCHANGED <<m_ended, m_isSeeking, m_seekingPosition, container, dec, muxer>>
          /\ \/ m_waitReady' = FALSE /\ decQueue' = ToAll(decQueue, "play")
             \/ UNCHANGED <<m_waitReady, decQueue>>
      BY <1>24 DEF RunReady
    <2>3. UNCHANGED <<m_paused, m_position, plays>>
      BY <2>1 DEF Takes
    <2>4. m_waitReady' \in BOOLEAN /\ DecQueues'
      BY <1>1, <1>8, <1>9, <2>1
    <2> QED
      BY <1>1, <1>3, <1>20, <2>1, <2>3, <2>4
  <1>25. CASE RunSeek
    <2>1. /\ container = "waiting" /\ m_queue # <<>> /\ Head(m_queue).op = "seek"
          /\ m_queue' = Tail(m_queue)
          /\ UNCHANGED <<m_paused, m_position, plays, calls, seeks, yielded, m_waitReady, muxer>>
      BY <1>25 DEF RunSeek, Takes
    <2>2. /\ m_queue' \in Seq(ContainerMessage) /\ Head(m_queue) \in SeekMessages
          /\ Head(m_queue).pos \in Stretch
      BY <1>1, <2>1, HeadTailProperties, Messages DEF SeekMessages
    <2>3. Hits(m_queue', SeekMessages) = Hits(m_queue, SeekMessages) - 1
      BY <1>1, <2>1, <2>2, HitsTail
    <2>4. Hits(m_queue', SeekMessages) \in Nat
      BY <2>2, HitsType
    <2>5. PendingSeeks(m_queue', container') <= PendingSeeks(m_queue, container)
      BY <1>7, <2>1, <2>3, <2>4 DEF PendingSeeks
    <2>6. PendingSeeks(m_queue', container') \in Nat /\ PendingSeeks(m_queue, container) \in Nat
      BY <1>7, <2>4 DEF PendingSeeks
    <2>7. Muxers'
      <3>1. ASSUME NEW d \in Decoders
            PROVE  muxer[d].next.run + PendingSeeks(m_queue', container') <= seeks
        <4>1. muxer[d].next.run \in Nat /\ seeks \in Nat
          BY <1>80
        <4>2. muxer[d].next.run + PendingSeeks(m_queue, container) <= seeks
          BY <1>1 DEF SeeksAreCalled
        <4> QED
          BY <2>5, <2>6, <4>1, <4>2
      <3> QED
        BY <1>1, <2>1, <3>1 DEF SeeksAreCalled
    <2>8. CASE m_isSeeking
      <3>1. UNCHANGED <<m_isSeeking, m_ended, m_seekingPosition, dec, decQueue, container>>
        BY <1>25, <2>8 DEF RunSeek
      <3> QED
        BY <1>1, <1>3, <1>5, <1>8, <2>1, <2>2, <2>7, <3>1
    <2>9. CASE ~m_isSeeking
      <3>1. /\ m_isSeeking' = TRUE /\ m_ended' = FALSE
            /\ m_seekingPosition' = Head(m_queue).pos
            /\ dec' = [d \in Decoders |-> StopPlayingQuick(dec[d])]
            /\ decQueue' = ToAll(decQueue, "pauseToSeek")
            /\ container' = "seeking"
        BY <1>25, <2>9 DEF RunSeek
      <3> QED
        BY <1>1, <1>5, <1>9, <1>11, <2>1, <2>2, <2>7, <3>1
    <2> QED
      BY <2>8, <2>9
  <1>26. CASE SeekMuxer
    <2>1. /\ container = "seeking" /\ container' = "waiting"
          /\ muxer' = [d \in Decoders |->
                         [flush |-> TRUE, next |-> [run |-> muxer[d].next.run + 1,
                                                    pos |-> m_seekingPosition]]]
          /\ decQueue' = ToAll(decQueue, "prePlay")
          /\ UNCHANGED <<flags, m_queue, dec, plays, calls, seeks, yielded>>
      BY <1>26 DEF SeekMuxer
    <2>2. /\ PendingSeeks(m_queue, container) = Hits(m_queue, SeekMessages) + 1
          /\ PendingSeeks(m_queue', container') = Hits(m_queue, SeekMessages)
      BY <1>7, <2>1 DEF PendingSeeks
    <2>3. ASSUME NEW d \in Decoders
          PROVE  /\ muxer'[d] \in Mux
                 /\ muxer'[d].next.run + PendingSeeks(m_queue', container') <= seeks'
      <3>1. muxer[d].next.run \in Nat /\ seeks \in Nat /\ seeks <= MaxSeeks
        BY <1>80
      <3>2. muxer[d].next.run + (Hits(m_queue, SeekMessages) + 1) <= seeks
        BY <1>1, <2>2 DEF SeeksAreCalled
      <3>3. muxer[d].next.run + 1 \in 0 .. MaxSeeks
        BY <1>7, <3>1, <3>2, BoundsAssumption
      <3>4. m_seekingPosition \in 0 .. Last + 1
        BY <1>1, BoundsAssumption DEF Stretch
      <3>5. [run |-> muxer[d].next.run + 1, pos |-> m_seekingPosition] \in Position
        BY <3>3, <3>4 DEF Position
      <3>6. muxer'[d] = [flush |-> TRUE, next |-> [run |-> muxer[d].next.run + 1,
                                                   pos |-> m_seekingPosition]]
        BY <2>1
      <3>7. (muxer[d].next.run + 1) + Hits(m_queue, SeekMessages) <= seeks
        BY <1>7, <3>1, <3>2
      <3> QED
        BY <2>1, <2>2, <3>5, <3>6, <3>7
    <2>4. Muxers'
      BY <2>1, <2>3 DEF SeeksAreCalled
    <2> QED
      BY <1>1, <1>3, <1>4, <1>5, <1>9, <2>1, <2>4
  <1>27. ASSUME NEW d \in Decoders PROVE
           /\ dec[d] \in Decoder /\ muxer[d] \in Mux
           /\ ~(dec[d].m_readying /\ IsReadyToPlay(d, dec[d]))
           /\ d = "audio" /\ dec[d].m_readying => dec[d].m_ahiControl
           /\ decQueue[d] \in Seq(DecoderMessage)
           /\ decQueue[d] # <<>> => /\ Head(decQueue[d]) \in DecoderMessage
                                    /\ Tail(decQueue[d]) \in Seq(DecoderMessage)
    <2>1. decQueue[d] \in Seq(DecoderMessage)
      BY <1>1
    <2> QED
      BY <1>1, <2>1, HeadTailProperties DEF ReadyingIsOpen, ReadyIsReported
  <1>28. Silent => Flags'
    BY <1>4 DEF Silent
  <1>29. ASSUME NEW d, NEW pos \in Position, OnPositionChanged(d, pos) PROVE Flags'
    <2>1. /\ m_isSeeking' \in BOOLEAN
          /\ UNCHANGED <<m_paused, m_ended, m_waitReady, m_seekingPosition>>
      BY <1>29 DEF OnPositionChanged
    <2>2. plays' = plays + 1 \/ plays' = plays
      BY <1>29 DEF OnPositionChanged
    <2>3. m_position' = pos \/ m_position' = m_position
      BY <1>29 DEF OnPositionChanged
    <2> QED
      BY <1>1, <2>1, <2>2, <2>3
  <1>30. ASSUME NEW d \in Decoders, NEW got, NEW r, NEW sent \in Seq(DecoderMessage),
                NEW ready \in BOOLEAN, NEW op,
                got.muxer \in Mux, got.muxer.next.run = muxer[d].next.run,
                got.sent \in Seq(DecoderMessage), got.ready \in BOOLEAN,
                Handles(d, op), Decodes(d, got, r, sent, ready)
         PROVE  /\ Counts' /\ Queue' /\ Muxers' /\ DecQueues'
                /\ dec' = [dec EXCEPT ![d] = r]
    <2>1. /\ UNCHANGED <<container, calls, seeks, yielded>> /\ decQueue[d] # <<>>
          /\ dec' = [dec EXCEPT ![d] = r]
          /\ muxer' = [muxer EXCEPT ![d] = got.muxer]
          /\ decQueue' = [decQueue EXCEPT ![d] = Tail(decQueue[d]) \o got.sent \o sent]
          /\ m_queue' = m_queue \o Ready(got.ready) \o Ready(ready)
      BY <1>30 DEF Handles, Decodes
    <2>2. DecQueues'
      <3>1. Tail(decQueue[d]) \o got.sent \o sent \in Seq(DecoderMessage)
        BY <1>27, <1>30, <2>1, ConcatProperties
      <3> QED
        BY <1>1, <2>1, <3>1
    <2>3. ASSUME NEW b \in BOOLEAN PROVE Ready(b) \in {<<>>, <<[op |-> "ready"]>>}
      BY DEF Ready
    <2>4. /\ m_queue \o Ready(got.ready) \in Seq(ContainerMessage)
          /\ Hits(m_queue \o Ready(got.ready), SeekMessages) = Hits(m_queue, SeekMessages)
      BY <1>1, <1>30, <2>3, PlainMessages
    <2>5. /\ m_queue' \in Seq(ContainerMessage)
          /\ Hits(m_queue', SeekMessages) = Hits(m_queue, SeekMessages)
      BY <2>1, <2>3, <2>4, PlainMessages
    <2>6. PendingSeeks(m_queue', container') = PendingSeeks(m_queue, container)
      BY <2>1, <2>5 DEF PendingSeeks
    <2>7. Muxers'
      <3>1. muxer' \in [Decoders -> Mux]
        BY <1>1, <1>30, <2>1
      <3>2. ASSUME NEW e \in Decoders PROVE muxer'[e].next.run = muxer[e].next.run
        BY <1>1, <1>30, <2>1
      <3> QED
        BY <1>1, <2>1, <2>6, <3>1, <3>2 DEF SeeksAreCalled
    <2> QED
      BY <1>1, <1>5, <2>1, <2>2, <2>5, <2>7
  <1>31. ASSUME NEW d \in Decoders, NEW r, NEW op, Handles(d, op), Changes(d, r)
         PROVE  /\ Counts' /\ Queue' /\ Muxers' /\ DecQueues'
                /\ dec' = [dec EXCEPT ![d] = r]
    <2>1. /\ UNCHANGED <<container, calls, seeks, yielded, muxer, m_queue>>
          /\ decQueue[d] # <<>>
          /\ dec' = [dec EXCEPT ![d] = r]
          /\ decQueue' = [decQueue EXCEPT ![d] = Tail(decQueue[d])]
      BY <1>31 DEF Handles, Changes
    <2>2. DecQueues'
      BY <1>1, <1>27, <2>1
    <2> QED
      BY <1>1, <1>5, <1>6, <2>1, <2>2
  <1>32. ASSUME NEW d \in Decoders, NEW r \in Decoder,
                r.m_readying = dec[d].m_readying, r.m_ahiControl = dec[d].m_ahiControl
         PROVE  LET got == DecodeUntilBufferFull(d, r)
                IN  /\ got.dec \in Decoder /\ got.muxer \in Mux
                    /\ got.muxer.next.run = muxer[d].next.run
                    /\ got.sent \in Seq(DecoderMessage)
                    /\ got.shown \in BOOLEAN /\ got.ready \in BOOLEAN
                    /\ ~(got.dec.m_readying /\ IsReadyToPlay(d, got.dec))
                    /\ d = "audio" /\ got.dec.m_readying => got.dec.m_ahiControl
                    /\ got.dec.m_position \in Position
    <2> DEFINE got == DecodeUntilBufferFull(d, r)
    <2>1. /\ got.dec \in Decoder /\ got.muxer \in Mux
          /\ got.muxer.next.run = muxer[d].next.run
          /\ got.sent \in Seq(DecoderMessage)
          /\ got.shown \in BOOLEAN /\ got.ready \in BOOLEAN
          /\ ~(got.dec.m_readying /\ IsReadyToPlay(d, got.dec))
          /\ got.dec.m_readying => r.m_readying
          /\ got.dec.m_ahiControl = r.m_ahiControl
      BY <1>1, DecodeUntilType
    <2> HIDE DEF got
    <2>2. got.dec.m_position \in Position
      BY <2>1 DEF Decoder
    <2>3. d = "audio" /\ got.dec.m_readying => got.dec.m_ahiControl
      BY <1>27, <1>32, <2>1
    <2> QED
      BY <2>1, <2>2, <2>3 DEF got
  <1>33. ASSUME NEW d, NEW got, FirstFrame(d, got), got.dec.m_position \in Position
         PROVE  Flags'
    BY <1>28, <1>29, <1>33 DEF FirstFrame
  <1>34. ASSUME NEW d \in Decoders, DoWarmUp(d)
         PROVE  Flags' /\ Counts' /\ Queue' /\ Muxers' /\ Decs' /\ DecQueues'
    <2> DEFINE got == DecodeUntilBufferFull(d, dec[d])
    <2>1. Handles(d, "warmUp") /\ Decodes(d, got, got.dec, <<>>, FALSE) /\ FirstFrame(d, got)
      BY <1>34 DEF DoWarmUp
    <2>2. /\ got.dec \in Decoder /\ got.muxer \in Mux
          /\ got.muxer.next.run = muxer[d].next.run
          /\ got.sent \in Seq(DecoderMessage)
          /\ got.shown \in BOOLEAN /\ got.ready \in BOOLEAN
          /\ ~(got.dec.m_readying /\ IsReadyToPlay(d, got.dec))
          /\ d = "audio" /\ got.dec.m_readying => got.dec.m_ahiControl
          /\ got.dec.m_position \in Position
      BY <1>27, <1>32
    <2> HIDE DEF got
    <2>3. <<>> \in Seq(DecoderMessage)
      OBVIOUS
    <2>4. Counts' /\ Queue' /\ Muxers' /\ DecQueues' /\ dec' = [dec EXCEPT ![d] = got.dec]
      BY <1>30, <2>1, <2>2, <2>3
    <2>5. Decs'
      BY <1>10, <2>2, <2>4
    <2> QED
      BY <1>33, <2>1, <2>2, <2>4, <2>5
  <1>35. ASSUME NEW d \in Decoders, DoPrePlay(d)
         PROVE  Flags' /\ Counts' /\ Queue' /\ Muxers' /\ Decs' /\ DecQueues'
    <2> DEFINE got == DecodeUntilBufferFull(d, dec[d])
               init == GetReadyToPlay(d, got.dec)
               ready == IsReadyToPlay(d, init.dec)
               r == [init.dec EXCEPT !.m_readying = ~ready]
    <2>1. /\ Handles(d, "prePlay") /\ Decodes(d, got, r, init.sent, ready)
          /\ FirstFrame(d, got)
      BY <1>35 DEF DoPrePlay
    <2>2. /\ got.dec \in Decoder /\ got.muxer \in Mux
          /\ got.muxer.next.run = muxer[d].next.run
          /\ got.sent \in Seq(DecoderMessage)
          /\ got.shown \in BOOLEAN /\ got.ready \in BOOLEAN
          /\ ~(got.dec.m_readying /\ IsReadyToPlay(d, got.dec))
          /\ d = "audio" /\ got.dec.m_readying => got.dec.m_ahiControl
          /\ got.dec.m_position \in Position
      BY <1>27, <1>32
    <2> HIDE DEF got
    <2>3. /\ init.dec \in Decoder /\ init.sent \in Seq(DecoderMessage)
          /\ init.dec.m_readying = got.dec.m_readying
          /\ d = "audio" => init.dec.m_ahiControl
          /\ d # "audio" \/ got.dec.m_ahiControl => init.dec = got.dec
      BY <2>2, GetReadyType
    <2> HIDE DEF init
    <2>4. ready \in BOOLEAN
      BY DEF IsReadyToPlay
    <2>5. /\ r \in Decoder /\ r.m_readying = ~ready /\ r.m_ahiControl = init.dec.m_ahiControl
          /\ r.m_decodedFrames = init.dec.m_decodedFrames
          /\ r.m_decoderEOF = init.dec.m_decoderEOF
          /\ r.m_didShowFirstFrame = init.dec.m_didShowFirstFrame
      BY <2>3 DEF Decoder
    <2> HIDE DEF r
    <2>6. IsReadyToPlay(d, r) <=> ready
      BY <2>5, ReadyFields
    <2> HIDE DEF ready
    <2>7. Counts' /\ Queue' /\ Muxers' /\ DecQueues' /\ dec' = [dec EXCEPT ![d] = r]
      <3>1. CASE ready = TRUE
        <4>1. Decodes(d, got, r, init.sent, TRUE)
          BY <2>1, <3>1
        <4> QED
          BY <1>30, <2>1, <2>2, <2>3, <4>1
      <3>2. CASE ready = FALSE
        <4>1. Decodes(d, got, r, init.sent, FALSE)
          BY <2>1, <3>2
        <4> QED
          BY <1>30, <2>1, <2>2, <2>3, <4>1
      <3> QED
        BY <2>4, <3>1, <3>2
    <2>8. Decs'
      BY <1>10, <2>3, <2>5, <2>6, <2>7
    <2> QED
      BY <1>33, <2>1, <2>2, <2>7, <2>8
  <1>36. ASSUME NEW d \in Decoders, DoPlay(d)
         PROVE  Flags' /\ Counts' /\ Queue' /\ Muxers' /\ Decs' /\ DecQueues'
    <2> DEFINE got == DecodeUntilBufferFull(d, dec[d])
               init == GetReadyToPlay(d, got.dec)
               ready == IsReadyToPlay(d, init.dec)
               sounds == ready /\ d = "audio"
               r == [init.dec EXCEPT !.m_playing = @ \/ ready, !.sounding = @ \/ sounds]
    <2>1. /\ Handles(d, "play") /\ Decodes(d, got, r, init.sent, FALSE)
          /\ OnPositionChanged(d, r.m_position) \/ FirstFrame(d, got)
      BY <1>36 DEF DoPlay
    <2>2. /\ got.dec \in Decoder /\ got.muxer \in Mux
          /\ got.muxer.next.run = muxer[d].next.run
          /\ got.sent \in Seq(DecoderMessage)
          /\ got.shown \in BOOLEAN /\ got.ready \in BOOLEAN
          /\ ~(got.dec.m_readying /\ IsReadyToPlay(d, got.dec))
          /\ d = "audio" /\ got.dec.m_readying => got.dec.m_ahiControl
          /\ got.dec.m_position \in Position
      BY <1>27, <1>32
    <2> HIDE DEF got
    <2>3. /\ init.dec \in Decoder /\ init.sent \in Seq(DecoderMessage)
          /\ init.dec.m_readying = got.dec.m_readying
          /\ d = "audio" => init.dec.m_ahiControl
          /\ d # "audio" \/ got.dec.m_ahiControl => init.dec = got.dec
      BY <2>2, GetReadyType
    <2> HIDE DEF init
    <2>4. ready \in BOOLEAN /\ sounds \in BOOLEAN
      BY DEF IsReadyToPlay
    <2>5. /\ r \in Decoder /\ r.m_readying = init.dec.m_readying
          /\ r.m_ahiControl = init.dec.m_ahiControl
          /\ r.m_decodedFrames = init.dec.m_decodedFrames
          /\ r.m_decoderEOF = init.dec.m_decoderEOF
          /\ r.m_didShowFirstFrame = init.dec.m_didShowFirstFrame
          /\ r.m_position \in Position
      <3> HIDE DEF ready, sounds
      <3> QED
        BY <2>3, <2>4 DEF Decoder
    <2> HIDE DEF r
    <2>6. ~(r.m_readying /\ IsReadyToPlay(d, r))
      <3>1. IsReadyToPlay(d, r) <=> IsReadyToPlay(d, init.dec)
        BY <2>5, ReadyFields
      <3>2. CASE d # "audio" \/ got.dec.m_ahiControl
        BY <2>2, <2>3, <2>5, <3>1, <3>2
      <3>3. CASE ~(d # "audio" \/ got.dec.m_ahiControl)
        BY <2>2, <2>3, <2>5, <3>3
      <3> QED
        BY <3>2, <3>3
    <2>7. Counts' /\ Queue' /\ Muxers' /\ DecQueues' /\ dec' = [dec EXCEPT ![d] = r]
      BY <1>30, <2>1, <2>2, <2>3
    <2>8. Decs'
      BY <1>10, <2>3, <2>5, <2>6, <2>7
    <2>9. Flags'
      BY <1>29, <1>33, <2>1, <2>2, <2>5
    <2> QED
      BY <2>7, <2>8, <2>9
  <1>37. ASSUME NEW d \in Decoders, DoPause(d)
         PROVE  Flags' /\ Counts' /\ Queue' /\ Muxers' /\ Decs' /\ DecQueues'
    <2> DEFINE s == StopPlaying(d, dec[d])
               r == [s EXCEPT !.m_readying = FALSE]
    <2>1. Handles(d, "pause") /\ Changes(d, r) /\ Silent
      BY <1>37 DEF DoPause
    <2>2. s \in Decoder
      BY <1>27, StopType
    <2> HIDE DEF s
    <2>3. r \in Decoder /\ r.m_readying = FALSE
      BY <2>2 DEF Decoder
    <2> HIDE DEF r
    <2>4. Counts' /\ Queue' /\ Muxers' /\ DecQueues' /\ dec' = [dec EXCEPT ![d] = r]
      BY <1>31, <2>1
    <2>5. Decs'
      BY <1>10, <2>3, <2>4
    <2> QED
      BY <1>28, <2>1, <2>4, <2>5
  <1>38. ASSUME NEW d \in Decoders, DoPauseToSeek(d)
         PROVE  Flags' /\ Counts' /\ Queue' /\ Muxers' /\ Decs' /\ DecQueues'
    <2> DEFINE s == Flush(StopPlaying(d, dec[d]))
               r == [s EXCEPT !.m_readying = FALSE]
    <2>1. Handles(d, "pauseToSeek") /\ Changes(d, r) /\ Silent
      BY <1>38 DEF DoPauseToSeek
    <2>2. s \in Decoder
      BY <1>27, StopType, FlushType
    <2> HIDE DEF s
    <2>3. r \in Decoder /\ r.m_readying = FALSE
      BY <2>2 DEF Decoder
    <2> HIDE DEF r
    <2>4. Counts' /\ Queue' /\ Muxers' /\ DecQueues' /\ dec' = [dec EXCEPT ![d] = r]
      BY <1>31, <2>1
    <2>5. Decs'
      BY <1>10, <2>3, <2>4
    <2> QED
      BY <1>28, <2>1, <2>4, <2>5
  <1>39. ASSUME NEW d \in Decoders, DoCoolDown(d)
         PROVE  Flags' /\ Counts' /\ Queue' /\ Muxers' /\ Decs' /\ DecQueues'
    <2> DEFINE s == StopPlaying(d, dec[d])
               r == [s EXCEPT !.m_readying = FALSE, !.m_ahiControl = FALSE]
    <2>1. Handles(d, "coolDown") /\ Changes(d, r) /\ Silent
      BY <1>39 DEF DoCoolDown
    <2>2. s \in Decoder
      BY <1>27, StopType
    <2> HIDE DEF s
    <2>3. r \in Decoder /\ r.m_readying = FALSE
      BY <2>2 DEF Decoder
    <2> HIDE DEF r
    <2>4. Counts' /\ Queue' /\ Muxers' /\ DecQueues' /\ dec' = [dec EXCEPT ![d] = r]
      BY <1>31, <2>1
    <2>5. Decs'
      BY <1>10, <2>3, <2>4
    <2> QED
      BY <1>28, <2>1, <2>4, <2>5
  <1>40. ASSUME NEW d \in Decoders, DoPosition(d)
         PROVE  Flags' /\ Counts' /\ Queue' /\ Muxers' /\ Decs' /\ DecQueues'
    <2> DEFINE pos == Head(decQueue[d]).pos
               s == [dec[d] EXCEPT !.m_position = pos]
               got == DecodeUntilBufferFull(d, s)
    <2>0. Handles(d, "position")
      BY <1>40 DEF DoPosition
    <2>1. CASE dec[d].m_ahiControl
      <3>1. Decodes(d, got, got.dec, <<>>, FALSE) /\ OnPositionChanged(d, pos)
        BY <1>40, <2>1 DEF DoPosition
      <3>2. pos \in Frame
        BY <1>27, <2>0, Messages DEF Handles
      <3>3. pos \in Position
        BY <3>2, Positions
      <3> HIDE DEF pos
      <3>4. /\ s \in Decoder /\ s.m_readying = dec[d].m_readying
            /\ s.m_ahiControl = dec[d].m_ahiControl
        BY <1>27, <3>3 DEF Decoder
      <3> HIDE DEF s
      <3>5. /\ got.dec \in Decoder /\ got.muxer \in Mux
            /\ got.muxer.next.run = muxer[d].next.run
            /\ got.sent \in Seq(DecoderMessage)
            /\ got.shown \in BOOLEAN /\ got.ready \in BOOLEAN
            /\ ~(got.dec.m_readying /\ IsReadyToPlay(d, got.dec))
            /\ d = "audio" /\ got.dec.m_readying => got.dec.m_ahiControl
            /\ got.dec.m_position \in Position
        BY <1>32, <3>4
      <3> HIDE DEF got
      <3>6. <<>> \in Seq(DecoderMessage)
        OBVIOUS
      <3>7. Counts' /\ Queue' /\ Muxers' /\ DecQueues' /\ dec' = [dec EXCEPT ![d] = got.dec]
        BY <1>30, <2>0, <3>1, <3>5, <3>6
      <3>8. Decs'
        BY <1>10, <3>5, <3>7
      <3> QED
        BY <1>29, <3>1, <3>3, <3>7, <3>8
    <2>2. CASE ~dec[d].m_ahiControl
      <3>1. /\ Handles(d, "position") /\ Changes(d, dec[d]) /\ Silent
        BY <1>40, <2>2 DEF DoPosition
      <3>2. Counts' /\ Queue' /\ Muxers' /\ DecQueues' /\ dec' = [dec EXCEPT ![d] = dec[d]]
        BY <1>31, <3>1
      <3>3. Decs'
        BY <1>10, <1>27, <3>2
      <3> QED
        BY <1>28, <3>1, <3>2, <3>3
    <2> QED
      BY <2>1, <2>2
  <1>41. ASSUME NEW d \in Decoders, DoEnded(d)
         PROVE  Flags' /\ Counts' /\ Queue' /\ Muxers' /\ Decs' /\ DecQueues'
    <2>1. CASE dec[d].m_ahiControl
      <3> DEFINE s == StopPlaying(d, dec[d])
                 end == [s.m_position EXCEPT !.pos = Last + 1]
                 r == [s EXCEPT !.m_position = end]
      <3>0. /\ s \in Decoder /\ s.m_readying = dec[d].m_readying
            /\ s.m_ahiControl = dec[d].m_ahiControl
            /\ IsReadyToPlay(d, s) <=> IsReadyToPlay(d, dec[d])
        BY <1>27, StopType
      <3>1. Handles(d, "ended") /\ Changes(d, [s EXCEPT !.m_position.pos = Last + 1]) /\ OnEnded
        BY <1>41, <2>1 DEF DoEnded
      <3> HIDE DEF s
      <3>2. [s EXCEPT !.m_position.pos = Last + 1] = r
        BY <3>0 DEF Decoder
      <3>3. end \in Position
        BY <3>0, Positions DEF Decoder
      <3> HIDE DEF end
      <3>4. /\ r \in Decoder /\ r.m_readying = s.m_readying
            /\ r.m_ahiControl = s.m_ahiControl
            /\ r.m_decodedFrames = s.m_decodedFrames
            /\ r.m_decoderEOF = s.m_decoderEOF
            /\ r.m_didShowFirstFrame = s.m_didShowFirstFrame
        BY <3>0, <3>3 DEF Decoder
      <3> HIDE DEF r
      <3>5. IsReadyToPlay(d, r) <=> IsReadyToPlay(d, dec[d])
        BY <3>0, <3>4, ReadyFields
      <3>6. Counts' /\ Queue' /\ Muxers' /\ DecQueues' /\ dec' = [dec EXCEPT ![d] = r]
        BY <1>31, <3>1, <3>2
      <3>7. Decs'
        BY <1>10, <1>27, <3>0, <3>4, <3>5, <3>6
      <3>8. Flags'
        BY <1>1, <3>1 DEF OnEnded
      <3> QED
        BY <3>6, <3>7, <3>8
    <2>2. CASE ~dec[d].m_ahiControl
      <3>1. /\ Handles(d, "ended") /\ Changes(d, dec[d]) /\ Silent
        BY <1>41, <2>2 DEF DoEnded
      <3>2. Counts' /\ Queue' /\ Muxers' /\ DecQueues' /\ dec' = [dec EXCEPT ![d] = dec[d]]
        BY <1>31, <3>1
      <3>3. Decs'
        BY <1>10, <1>27, <3>2
      <3> QED
        BY <1>28, <3>1, <3>2, <3>3
    <2> QED
      BY <2>1, <2>2
  <1>42. ASSUME NEW d \in Decoders, DoShown(d)
         PROVE  Flags' /\ Counts' /\ Queue' /\ Muxers' /\ Decs' /\ DecQueues'
    <2> DEFINE got == DecodeUntilBufferFull(d, dec[d])
    <2>1. /\ Handles(d, "shown") /\ Decodes(d, got, got.dec, <<>>, FALSE)
          /\ OnPositionChanged(d, dec[d].m_position)
      BY <1>42 DEF DoShown
    <2>2. /\ got.dec \in Decoder /\ got.muxer \in Mux
          /\ got.muxer.next.run = muxer[d].next.run
          /\ got.sent \in Seq(DecoderMessage)
          /\ got.shown \in BOOLEAN /\ got.ready \in BOOLEAN
          /\ ~(got.dec.m_readying /\ IsReadyToPlay(d, got.dec))
          /\ d = "audio" /\ got.dec.m_readying => got.dec.m_ahiControl
          /\ got.dec.m_position \in Position
      BY <1>27, <1>32
    <2> HIDE DEF got
    <2>3. <<>> \in Seq(DecoderMessage)
      OBVIOUS
    <2>4. Counts' /\ Queue' /\ Muxers' /\ DecQueues' /\ dec' = [dec EXCEPT ![d] = got.dec]
      BY <1>30, <2>1, <2>2, <2>3
    <2>5. Decs'
      BY <1>10, <2>2, <2>4
    <2>6. dec[d].m_position \in Position
      BY <1>27 DEF Decoder
    <2> QED
      BY <1>29, <2>1, <2>4, <2>5, <2>6
  <1>43. ASSUME NEW d \in Decoders, Pump(d)
         PROVE  Flags' /\ Counts' /\ Queue' /\ Muxers' /\ Decs' /\ DecQueues'
    <2> DEFINE index == 1 - dec[d].m_ahiSample
               filled == FillBuffer(dec[d], index)
               r == [filled.dec EXCEPT !.m_ahiSample = index]
    <2>1. /\ d = "audio" /\ dec' = [dec EXCEPT ![d] = r]
          /\ decQueue' = [decQueue EXCEPT ![d] = decQueue[d] \o filled.sent]
          /\ Silent /\ UNCHANGED <<m_queue, container, muxer, calls, seeks, yielded>>
      BY <1>43 DEF Pump
    <2>2. index \in {0, 1}
      BY <1>27 DEF Decoder
    <2> HIDE DEF index
    <2>3. /\ filled.dec \in Decoder /\ filled.sent \in Seq(DecoderMessage)
          /\ filled.dec.m_readying = dec[d].m_readying
          /\ filled.dec.m_ahiControl = dec[d].m_ahiControl
          /\ IsReadyToPlay("audio", filled.dec) => IsReadyToPlay("audio", dec[d])
      BY <1>27, <2>1, <2>2, FillType
    <2> HIDE DEF filled
    <2>4. /\ r \in Decoder /\ r.m_readying = filled.dec.m_readying
          /\ r.m_ahiControl = filled.dec.m_ahiControl
          /\ r.m_decodedFrames = filled.dec.m_decodedFrames
          /\ r.m_decoderEOF = filled.dec.m_decoderEOF
          /\ r.m_didShowFirstFrame = filled.dec.m_didShowFirstFrame
      BY <2>2, <2>3 DEF Decoder
    <2> HIDE DEF r
    <2>5. IsReadyToPlay(d, r) => IsReadyToPlay(d, dec[d])
      BY <2>1, <2>3, <2>4, ReadyFields
    <2>6. Decs'
      BY <1>10, <1>27, <2>1, <2>3, <2>4, <2>5
    <2>7. DecQueues'
      <3>1. decQueue[d] \o filled.sent \in Seq(DecoderMessage)
        BY <1>27, <2>3, ConcatProperties
      <3> QED
        BY <1>1, <2>1, <3>1
    <2> QED
      BY <1>1, <1>5, <1>6, <1>28, <2>1, <2>6, <2>7
  <1>44. ASSUME NEW d \in Decoders, Pull(d)
         PROVE  Flags' /\ Counts' /\ Queue' /\ Muxers' /\ Decs' /\ DecQueues'
    <2> DEFINE frames == dec[d].m_decodedFrames
               r == [dec[d] EXCEPT !.m_position = Head(frames), !.m_decodedFrames = Tail(frames)]
    <2>1. /\ d = "video" /\ frames # <<>>
          /\ dec' = [dec EXCEPT ![d].m_position = Head(frames),
                                ![d].m_decodedFrames = Tail(@)]
          /\ decQueue' = [decQueue EXCEPT ![d] = Append(decQueue[d], [op |-> "shown"])]
          /\ Silent /\ UNCHANGED <<m_queue, container, muxer, calls, seeks, yielded>>
      BY <1>44 DEF Pull
    <2>2. dec' = [dec EXCEPT ![d] = r]
      BY <1>1, <1>27, <2>1 DEF Decoder
    <2>3. /\ frames \in Seq(Frame) /\ Head(frames) \in Frame /\ Tail(frames) \in Seq(Frame)
          /\ Len(Tail(frames)) = Len(frames) - 1 /\ Len(frames) \in Nat
      <3>1. frames \in Seq(Frame)
        BY <1>27 DEF Decoder
      <3> HIDE DEF frames
      <3> QED
        BY <2>1, <3>1, HeadTailProperties, LenProperties
    <2>4. Head(frames) \in Position
      BY <2>3, Positions
    <2>5. /\ r \in Decoder /\ r.m_readying = dec[d].m_readying
          /\ r.m_ahiControl = dec[d].m_ahiControl
          /\ r.m_decodedFrames = Tail(frames)
          /\ r.m_decoderEOF = dec[d].m_decoderEOF
          /\ r.m_didShowFirstFrame = dec[d].m_didShowFirstFrame
      BY <1>27, <2>3, <2>4 DEF Decoder
    <2> HIDE DEF r
    <2>6. IsReadyToPlay(d, r) => IsReadyToPlay(d, dec[d])
      <3>1. ReadAhead[d] \in Nat
        BY BoundsAssumption
      <3>2. BufferFull(d, r) => BufferFull(d, dec[d])
        BY <2>3, <2>5, <3>1 DEF BufferFull
      <3> QED
        BY <2>5, <3>2 DEF IsReadyToPlay, IsWarmedUp
    <2>7. Decs'
      BY <1>10, <1>27, <2>1, <2>2, <2>5, <2>6
    <2>8. DecQueues'
      <3>1. Append(decQueue[d], [op |-> "shown"]) \in Seq(DecoderMessage)
        BY <1>27, Messages, AppendProperties
      <3> QED
        BY <1>1, <2>1, <3>1
    <2> QED
      BY <1>1, <1>5, <1>6, <1>28, <2>1, <2>7, <2>8
  <1>45. CASE UNCHANGED vars
    BY <1>1, <1>3, <1>4, <1>5, <1>6, <1>8, <1>45 DEF vars
  <1>46. CASE Client
    BY <1>14, <1>16, <1>17, <1>18, <1>46 DEF Client
  <1>47. CASE Container
    BY <1>21, <1>22, <1>23, <1>24, <1>25, <1>26, <1>47 DEF Container
  <1>48. ASSUME NEW d \in Decoders, DecoderThread(d) \/ Pump(d) \/ Pull(d)
         PROVE  Flags' /\ Counts' /\ Queue' /\ Muxers' /\ Decs' /\ DecQueues'
    BY <1>34, <1>35, <1>36, <1>37, <1>38, <1>39, <1>40, <1>41, <1>42, <1>43,
       <1>44, <1>48
    DEF DecoderThread
  <1> HIDE DEF Flags, Counts, Queue, Muxers, Decs, DecQueues
  <1> QED
    BY <1>19, <1>45, <1>46, <1>47, <1>48 DEF Next

\* The first state.
LEMMA InitInv == Init => IndInv
  <1> SUFFICES ASSUME Init PROVE IndInv
    OBVIOUS
  <1> DEFINE new == [m_readying |-> FALSE, m_playing |-> FALSE,
                     m_decodedFrames |-> <<>>, m_decoderEOF |-> FALSE,
                     m_position |-> Start, m_ahiControl |-> FALSE,
                     sounding |-> FALSE, m_ahiSample |-> 0,
                     m_ahiSampleTimestamp |-> [i \in {0, 1} |-> Start],
                     m_didFlushBuffers |-> FALSE, m_didUnderrun |-> FALSE,
                     m_didShowFirstFrame |-> FALSE]
  <1>1. Start \in Frame /\ Start \in Position /\ Start.run = 0
    BY Positions DEF Start
  <1>2. new \in Decoder /\ new.m_readying = FALSE
    <2>1. <<>> \in Seq(Frame) /\ [i \in {0, 1} |-> Start] \in [{0, 1} -> Frame]
      BY <1>1
    <2> HIDE DEF Start
    <2> QED
      BY <1>1, <2>1 DEF Decoder
  <1>3. dec = [d \in Decoders |-> new]
    BY DEF Init
  <1> HIDE DEF new
  <1>4. dec \in [Decoders -> Decoder] /\ ReadyingIsOpen /\ ReadyIsReported
    BY <1>2, <1>3 DEF ReadyingIsOpen, ReadyIsReported
  <1>5. decQueue \in [Decoders -> Seq(DecoderMessage)]
    <2>1. [op |-> "warmUp"] \in DecoderMessage
      BY Messages
    <2>2. <<[op |-> "warmUp"]>> \in Seq(DecoderMessage)
      BY <2>1
    <2> QED
      BY <2>2 DEF Init
  <1>6. /\ muxer \in [Decoders -> [flush : BOOLEAN, next : Position]]
        /\ \A d \in Decoders : muxer[d].next.run = 0
    BY <1>1 DEF Init
  <1>7. m_queue = <<>> /\ m_queue \in Seq(ContainerMessage) /\ container = "waiting" /\ seeks = 0
    BY DEF Init
  <1>8. SeeksAreCalled
    <2>1. PendingSeeks(m_queue, container) = 0
      BY <1>7, HitsEmpty DEF PendingSeeks
    <2> QED
      BY <1>6, <1>7, <2>1 DEF SeeksAreCalled
  <1>9. 0 \in Stretch /\ 0 \in 0 .. MaxCalls /\ 0 \in 0 .. MaxSeeks
    BY BoundsAssumption DEF Stretch
  <1>10. TypeOK
    BY <1>1, <1>4, <1>5, <1>6, <1>7, <1>9 DEF Init, TypeOK
  <1> QED
    BY <1>4, <1>8, <1>10 DEF IndInv

\* The threads keep the types of what they share, for any media and any number of
\* calls: decoding stops at the end of the media, a sample is filled only with a
\* frame, and no seek is carried out that the client has not called.
THEOREM TypeCorrect == Spec => []TypeOK
  <1>1. Init => IndInv
    BY InitInv
  <1>2. IndInv /\ [Next]_vars => IndInv'
    BY Step
  <1>3. IndInv => TypeOK
    BY DEF IndInv
  <1> QED
    BY <1>1, <1>2, <1>3, PTL DEF Spec

\* No decoder that owes the container its report (m_readying) is ready to play
\* between two messages, whichever of decoding, opening the device, showing a frame,
\* pausing, seeking, cooling down and playing came last.
THEOREM ReadyDecodersReport == Spec => []ReadyIsReported
  <1>1. Init => IndInv
    BY InitInv
  <1>2. IndInv /\ [Next]_vars => IndInv'
    BY Step
  <1>3. IndInv => ReadyIsReported
    BY DEF IndInv
  <1> QED
    BY <1>1, <1>2, <1>3, PTL DEF Spec


(***************************************************************************)
(* Positions in order.  Everything that may still be reported is in one    *)
(* line, earlier runs and stretches first: the position the container has, *)
(* the positions in the queue of the decoder it listens to, the marks of   *)
(* the decoder's output, the decoded frames, and what the muxer has next.  *)
(***************************************************************************)

NotAfter(p, q) == p.run < q.run \/ (p.run = q.run /\ p.pos <= q.pos)

\* What an output reports from: the times of the two samples, or the picture.
Marks(d, r) ==
    IF d = "audio" THEN {r.m_ahiSampleTimestamp[i] : i \in {0, 1}}
                   ELSE {r.m_position}
Below(d, p, r) == \A m \in Marks(d, r) : NotAfter(p, m)

\* The marks come before the frames, and these, in order, before next.
FramesInLine(d, r, next) ==
    /\ \A m \in Marks(d, r) :
         /\ NotAfter(m, next)
         /\ \A i \in DOMAIN r.m_decodedFrames : NotAfter(m, r.m_decodedFrames[i])
    /\ \A i \in DOMAIN r.m_decodedFrames :
         /\ NotAfter(r.m_decodedFrames[i], next)
         /\ \A j \in DOMAIN r.m_decodedFrames : i < j =>
              NotAfter(r.m_decodedFrames[i], r.m_decodedFrames[j])

\* The positions in a queue come, in order, before the marks, ...
Trail(d, q, r) ==
    \A i \in DOMAIN q : q[i].op = "position" =>
      /\ Below(d, q[i].pos, r)
      /\ \A j \in DOMAIN q : i < j /\ q[j].op = "position" =>
           NotAfter(q[i].pos, q[j].pos)

\* ... and after p.
After(p, q) == \A i \in DOMAIN q : q[i].op = "position" => NotAfter(p, q[i].pos)

\* A decoder gets the messages of its own output only.
Foreign(d) == IF d = "audio" THEN {"shown"} ELSE {"position", "ended"}
OwnMessages(d, q) == \A i \in DOMAIN q : q[i].op \notin Foreign(d)

\* What a decoder does from r to s, sending some messages, keeps the line.
Passes(d, r, s, sent) ==
    /\ \A p \in Position : Below(d, p, r) => Below(d, p, s) /\ After(p, sent)
    /\ Trail(d, sent, s)
    /\ OwnMessages(d, sent)

InLine(d, r, q, next) ==
    FramesInLine(d, r, next) /\ Trail(d, q, r) /\ OwnMessages(d, q)
LineInv ==
    /\ \A d \in Decoders : InLine(d, dec[d], decQueue[d], muxer[d].next)
    /\ Below(Clock, m_position, dec[Clock])
    /\ After(m_position, decQueue[Clock])

\* The order of positions.
LEMMA NotAfterOrder ==
    /\ \A p \in Position : NotAfter(p, p)
    /\ \A p, q, t \in Position : NotAfter(p, q) /\ NotAfter(q, t) => NotAfter(p, t)
  <1>1. ASSUME NEW p \in Position PROVE p.run \in Int /\ p.pos \in Int
    <2>1. p.run \in 0 .. MaxSeeks /\ p.pos \in 0 .. Last + 1
      BY Positions
    <2> QED
      BY <2>1, BoundsAssumption
  <1> QED
    BY <1>1 DEF NotAfter

\* Marks and frames are positions.
LEMMA MarksType ==
    ASSUME NEW d, NEW r \in Decoder
    PROVE  /\ Marks(d, r) \subseteq Position /\ Marks(d, r) # {}
           /\ r.m_decodedFrames \in Seq(Frame)
           /\ DOMAIN r.m_decodedFrames = 1 .. Len(r.m_decodedFrames)
           /\ Len(r.m_decodedFrames) \in Nat
           /\ \A i \in DOMAIN r.m_decodedFrames : r.m_decodedFrames[i] \in Position
  <1>1. /\ r.m_ahiSampleTimestamp \in [{0, 1} -> Frame] /\ r.m_position \in Position
        /\ r.m_decodedFrames \in Seq(Frame)
    BY DEF Decoder
  <1>2. \A i \in {0, 1} : r.m_ahiSampleTimestamp[i] \in Position
    BY <1>1, Positions
  <1>3. /\ DOMAIN r.m_decodedFrames = 1 .. Len(r.m_decodedFrames)
        /\ Len(r.m_decodedFrames) \in Nat
        /\ \A i \in 1 .. Len(r.m_decodedFrames) : r.m_decodedFrames[i] \in Frame
    BY <1>1, LenProperties, ElementOfSeq
  <1>4. Marks(d, r) \subseteq Position /\ Marks(d, r) # {}
    BY <1>1, <1>2 DEF Marks
  <1> QED
    BY <1>1, <1>3, <1>4, Positions

\* Nothing is sent.
LEMMA NothingSent ==
    /\ \A d, r : Trail(d, <<>>, r) /\ OwnMessages(d, <<>>)
    /\ \A p : After(p, <<>>)
  BY DEF Trail, OwnMessages, After

\* A change that leaves the marks, and the frames or none of them.
LEMMA KeptLine ==
    ASSUME NEW d, NEW r \in Decoder, NEW s \in Decoder, NEW next,
           FramesInLine(d, r, next), Marks(d, s) = Marks(d, r),
           s.m_decodedFrames \in {r.m_decodedFrames, <<>>}
    PROVE  FramesInLine(d, s, next) /\ Passes(d, r, s, <<>>)
  <1>1. FramesInLine(d, s, next)
    BY DEF FramesInLine
  <1> QED
    BY <1>1, NothingSent DEF Passes, Below

\* One thing after the other.
LEMMA ConcatElements ==
    ASSUME NEW X, NEW a \in Seq(X), NEW b \in Seq(X)
    PROVE  /\ a \o b \in Seq(X)
           /\ \A i \in DOMAIN (a \o b) :
                \/ i \in DOMAIN a /\ (a \o b)[i] = a[i]
                \/ /\ i \in Int /\ i > Len(a) /\ Len(a) \in Nat
                   /\ i - Len(a) \in DOMAIN b
                   /\ (a \o b)[i] = b[i - Len(a)]
           /\ \A i \in DOMAIN a : i \in 1 .. Len(a)
  <1>1. /\ a \o b \in Seq(X) /\ Len(a \o b) = Len(a) + Len(b)
        /\ Len(a) \in Nat /\ Len(b) \in Nat
        /\ DOMAIN a = 1 .. Len(a) /\ DOMAIN b = 1 .. Len(b)
        /\ DOMAIN (a \o b) = 1 .. Len(a) + Len(b)
    BY ConcatProperties, LenProperties
  <1>2. \A i \in 1 .. Len(a) + Len(b) :
          (a \o b)[i] = IF i <= Len(a) THEN a[i] ELSE b[i - Len(a)]
    BY ConcatProperties
  <1> QED
    BY <1>1, <1>2

\* Messages are added to a queue: After,
LEMMA AfterConcat ==
    ASSUME NEW p, NEW a \in Seq(DecoderMessage), NEW b \in Seq(DecoderMessage),
           After(p, a), After(p, b)
    PROVE  After(p, a \o b)
  BY ConcatElements DEF After

\* the decoder's own messages,
LEMMA OwnConcat ==
    ASSUME NEW d, NEW a \in Seq(DecoderMessage), NEW b \in Seq(DecoderMessage),
           OwnMessages(d, a), OwnMessages(d, b)
    PROVE  OwnMessages(d, a \o b)
  BY ConcatElements DEF OwnMessages

\* and the order of its positions.
LEMMA TrailConcat ==
    ASSUME NEW d, NEW r \in Decoder, NEW s \in Decoder,
           NEW a \in Seq(DecoderMessage), NEW b \in Seq(DecoderMessage),
           Trail(d, a, r), Passes(d, r, s, b)
    PROVE  Trail(d, a \o b, s)
  <1> DEFINE q == a \o b
  <1>1. /\ q \in Seq(DecoderMessage)
        /\ \A i \in DOMAIN q :
             \/ i \in DOMAIN a /\ q[i] = a[i]
             \/ /\ i \in Int /\ i > Len(a) /\ Len(a) \in Nat
                /\ i - Len(a) \in DOMAIN b /\ q[i] = b[i - Len(a)]
        /\ \A i \in DOMAIN a : i \in 1 .. Len(a)
        /\ \A i \in DOMAIN q : q[i].op = "position" => q[i].pos \in Position
    <2>1. q \in Seq(DecoderMessage)
      BY ConcatElements
    <2>2. \A i \in DOMAIN q : q[i] \in DecoderMessage
      BY <2>1, ElementOfSeq, LenProperties
    <2>3. \A i \in DOMAIN q : q[i].op = "position" => q[i].pos \in Position
      BY <2>2, Messages, Positions
    <2> QED
      BY <2>3, ConcatElements
  <1> HIDE DEF q
  <1>2. SUFFICES ASSUME NEW i \in DOMAIN q, q[i].op = "position"
                 PROVE  /\ Below(d, q[i].pos, s)
                        /\ \A j \in DOMAIN q : i < j /\ q[j].op = "position" =>
                             NotAfter(q[i].pos, q[j].pos)
    BY DEF Trail, q
  <1>3. q[i].pos \in Position
    BY <1>1, <1>2
  <1>4. CASE i \in DOMAIN a /\ q[i] = a[i]
    <2>1. Below(d, q[i].pos, r)
      BY <1>2, <1>4 DEF Trail
    <2>2. Below(d, q[i].pos, s) /\ After(q[i].pos, b)
      BY <1>3, <2>1 DEF Passes
    <2>3. ASSUME NEW j \in DOMAIN q, i < j, q[j].op = "position"
          PROVE  NotAfter(q[i].pos, q[j].pos)
      <3>1. CASE j \in DOMAIN a /\ q[j] = a[j]
        BY <1>2, <1>4, <2>3, <3>1 DEF Trail
      <3>2. CASE j - Len(a) \in DOMAIN b /\ q[j] = b[j - Len(a)]
        BY <2>2, <2>3, <3>2 DEF After
      <3> QED
        BY <1>1, <3>1, <3>2
    <2> QED
      BY <2>2, <2>3
  <1>5. CASE /\ i \in Int /\ i > Len(a) /\ Len(a) \in Nat
             /\ i - Len(a) \in DOMAIN b /\ q[i] = b[i - Len(a)]
    <2>1. Trail(d, b, s)
      BY DEF Passes
    <2>2. ASSUME NEW j \in DOMAIN q, i < j, q[j].op = "position"
          PROVE  NotAfter(q[i].pos, q[j].pos)
      <3>1. /\ j \in Int /\ j > Len(a) /\ j - Len(a) \in DOMAIN b
            /\ q[j] = b[j - Len(a)]
        BY <1>1, <1>5, <2>2
      <3>2. i - Len(a) < j - Len(a)
        BY <1>5, <2>2, <3>1
      <3> QED
        BY <1>2, <1>5, <2>1, <2>2, <3>1, <3>2 DEF Trail
    <2> QED
      BY <1>2, <1>5, <2>1, <2>2 DEF Trail
  <1> QED
    BY <1>1, <1>4, <1>5

\* Two things a decoder does, one after the other.
LEMMA PassesTwice ==
    ASSUME NEW d, NEW r \in Decoder, NEW s \in Decoder, NEW t \in Decoder,
           NEW a \in Seq(DecoderMessage), NEW b \in Seq(DecoderMessage),
           Passes(d, r, s, a), Passes(d, s, t, b)
    PROVE  Passes(d, r, t, a \o b)
  <1>1. Trail(d, a \o b, t)
    BY TrailConcat DEF Passes
  <1>2. OwnMessages(d, a \o b)
    BY OwnConcat DEF Passes
  <1>3. ASSUME NEW p \in Position, Below(d, p, r)
        PROVE  Below(d, p, t) /\ After(p, a \o b)
    BY <1>3, AfterConcat DEF Passes
  <1> QED
    BY <1>1, <1>2, <1>3 DEF Passes

\* The first message is taken.
LEMMA TrailTail ==
    ASSUME NEW d, NEW r, NEW q \in Seq(DecoderMessage), q # <<>>,
           Trail(d, q, r), OwnMessages(d, q)
    PROVE  /\ Trail(d, Tail(q), r) /\ OwnMessages(d, Tail(q))
           /\ \A p : After(p, q) => After(p, Tail(q))
           /\ Head(q).op \notin Foreign(d)
           /\ Head(q).op = "position" =>
                /\ Below(d, Head(q).pos, r) /\ After(Head(q).pos, Tail(q))
                /\ \A p : After(p, q) => NotAfter(p, Head(q).pos)
  <1>1. /\ Len(q) \in Nat \ {0} /\ Head(q) = q[1] /\ DOMAIN q = 1 .. Len(q)
        /\ DOMAIN Tail(q) = 1 .. Len(q) - 1
        /\ \A i \in 1 .. Len(q) - 1 : Tail(q)[i] = q[i + 1]
    BY HeadTailProperties, LenProperties, EmptySeq
  <1>2. \A i \in DOMAIN Tail(q) : i + 1 \in DOMAIN q /\ Tail(q)[i] = q[i + 1]
                                  /\ i \in Int /\ i + 1 > 1
    BY <1>1
  <1>3. 1 \in DOMAIN q
    BY <1>1
  <1> DEFINE t == Tail(q)
  <1> HIDE DEF t
  <1>4. Trail(d, t, r)
    <2>1. ASSUME NEW i \in DOMAIN t, t[i].op = "position"
          PROVE  /\ Below(d, t[i].pos, r)
                 /\ \A j \in DOMAIN t : i < j /\ t[j].op = "position" =>
                      NotAfter(t[i].pos, t[j].pos)
      BY <1>2, <2>1 DEF t, Trail
    <2> QED
      BY <2>1 DEF Trail
  <1>5. OwnMessages(d, t) /\ \A p : After(p, q) => After(p, t)
    BY <1>2 DEF t, OwnMessages, After
  <1>6. Head(q).op \notin Foreign(d)
    BY <1>1, <1>3 DEF OwnMessages
  <1>7. Head(q).op = "position" =>
          /\ Below(d, Head(q).pos, r) /\ After(Head(q).pos, t)
          /\ \A p : After(p, q) => NotAfter(p, Head(q).pos)
    BY <1>1, <1>2, <1>3 DEF t, After, Trail
  <1> QED
    BY <1>4, <1>5, <1>6, <1>7 DEF t

\* fillBuffer moves the marks on and posts a position between the old and the new.
LEMMA FillPasses ==
    ASSUME "audio" \in Decoders, NEW r \in Decoder, NEW index \in {0, 1},
           NEW next \in Position, FramesInLine("audio", r, next)
    PROVE  LET out == FillBuffer(r, index)
           IN  /\ FramesInLine("audio", out.dec, next)
               /\ Passes("audio", r, out.dec, out.sent)
  <1> DEFINE q == r.m_decodedFrames
             fills == /\ q # <<>>
                      /\ ~r.m_didUnderrun \/ IsWarmedUp("audio", r)
             frame == Head(q)
             times == IF r.m_didFlushBuffers
                      THEN [i \in {0, 1} |-> frame]
                      ELSE [r.m_ahiSampleTimestamp EXCEPT ![index] = frame]
             over == r.m_decoderEOF \/ r.m_position.pos >= Last
             out == FillBuffer(r, index)
  <1>1. /\ q \in Seq(Frame)
        /\ r.m_ahiSampleTimestamp \in [{0, 1} -> Frame]
    BY DEF Decoder
  <1>2. CASE fills
    <2> DEFINE s == [r EXCEPT !.m_decodedFrames = Tail(q),
                              !.m_didUnderrun = FALSE,
                              !.m_didFlushBuffers = FALSE,
                              !.m_ahiSampleTimestamp = times]
               pos == times[1 - index]
    <2>1. /\ frame \in Frame /\ Tail(q) \in Seq(Frame) /\ frame = q[1]
          /\ 1 \in DOMAIN q
          /\ \A i \in DOMAIN Tail(q) : /\ i + 1 \in DOMAIN q /\ Tail(q)[i] = q[i + 1]
                                       /\ i \in Int /\ 1 < i + 1
      <3>1. /\ Len(q) \in Nat \ {0} /\ Head(q) = q[1] /\ DOMAIN q = 1 .. Len(q)
            /\ DOMAIN Tail(q) = 1 .. Len(q) - 1 /\ Head(q) \in Frame
            /\ Tail(q) \in Seq(Frame)
            /\ \A i \in 1 .. Len(q) - 1 : Tail(q)[i] = q[i + 1]
        BY <1>1, <1>2, HeadTailProperties, LenProperties, EmptySeq
      <3> QED
        BY <3>1
    <2>2. times \in [{0, 1} -> Frame]
      BY <1>1, <2>1
    <2>3. out.dec = s /\ out.sent = <<[op |-> "position", pos |-> pos]>>
      BY <1>2 DEF FillBuffer
    <2>4. /\ \A k \in {0, 1} : times[k] = frame \/ times[k] = r.m_ahiSampleTimestamp[k]
          /\ times[index] = frame
          /\ \A k \in {0, 1} : times[k] = frame \/ times[k] = pos
      <3>1. 1 - index \in {0, 1} /\ \A k \in {0, 1} : k = index \/ k = 1 - index
        OBVIOUS
      <3> QED
        BY <1>1, <2>1, <3>1
    <2>5. pos \in {times[0], times[1]}
      OBVIOUS
    <2> HIDE DEF times, pos
    <2>6. /\ s \in Decoder /\ s.m_decodedFrames = Tail(q)
          /\ s.m_ahiSampleTimestamp = times
      BY <2>1, <2>2 DEF Decoder
    <2> HIDE DEF s
    <2>7. /\ Marks("audio", s) = {times[0], times[1]}
          /\ Marks("audio", r) = {r.m_ahiSampleTimestamp[0], r.m_ahiSampleTimestamp[1]}
      BY <2>6 DEF Marks
    <2>8. /\ \A m \in Marks("audio", s) : m = frame \/ m \in Marks("audio", r)
          /\ \A m \in Marks("audio", s) : m = frame \/ m = pos
          /\ pos \in Marks("audio", s)
      BY <2>4, <2>5, <2>7
    <2>9. /\ Marks("audio", r) \subseteq Position /\ Marks("audio", r) # {}
          /\ Marks("audio", s) \subseteq Position /\ frame \in Position
      BY <2>1, <2>6, MarksType, Positions
    <2>10. /\ \A m \in Marks("audio", r) : NotAfter(m, frame)
           /\ \A i \in DOMAIN Tail(q) : NotAfter(frame, Tail(q)[i])
           /\ \A i \in DOMAIN Tail(q) : \A j \in DOMAIN Tail(q) : i < j =>
                NotAfter(Tail(q)[i], Tail(q)[j])
           /\ \A m \in Marks("audio", r) :
                /\ NotAfter(m, next)
                /\ \A i \in DOMAIN Tail(q) : NotAfter(m, Tail(q)[i])
           /\ \A i \in DOMAIN Tail(q) : NotAfter(Tail(q)[i], next)
           /\ NotAfter(frame, next)
      <3> HIDE DEF q, frame
      <3>1. \A i, j \in DOMAIN q : i < j => NotAfter(q[i], q[j])
        BY DEF FramesInLine, q
      <3>2. \A i \in DOMAIN q : /\ NotAfter(q[i], next)
                                /\ \A m \in Marks("audio", r) : NotAfter(m, q[i])
        BY DEF FramesInLine, q
      <3>3. \A m \in Marks("audio", r) : NotAfter(m, next)
        BY DEF FramesInLine
      <3>4. \A i, j \in DOMAIN Tail(q) : i < j => i + 1 < j + 1
        BY <2>1
      <3> QED
        BY <2>1, <3>1, <3>2, <3>3, <3>4
    <2>11. FramesInLine("audio", s, next)
      BY <2>6, <2>8, <2>10 DEF FramesInLine
    <2>12. ASSUME NEW p \in Position, Below("audio", p, r)
           PROVE  Below("audio", p, s)
      <3>1. NotAfter(p, frame)
        BY <2>9, <2>10, <2>12, NotAfterOrder DEF Below
      <3> QED
        BY <2>8, <2>12, <3>1 DEF Below
    <2>13. Below("audio", pos, s)
      <3>1. pos = frame \/ pos \in Marks("audio", r)
        BY <2>8
      <3>2. NotAfter(pos, frame) /\ NotAfter(pos, pos)
        BY <2>8, <2>9, <2>10, <3>1, NotAfterOrder
      <3> QED
        BY <2>8, <3>2 DEF Below
    <2> DEFINE sent == <<[op |-> "position", pos |-> pos]>>
    <2>14. /\ DOMAIN sent = {1} /\ sent[1].op = "position" /\ sent[1].pos = pos
      OBVIOUS
    <2> HIDE DEF sent
    <2>15. Trail("audio", sent, s)
      BY <2>13, <2>14 DEF Trail
    <2>16. OwnMessages("audio", sent)
      BY <2>14 DEF OwnMessages, Foreign
    <2>17. \A p : Below("audio", p, s) => After(p, sent)
      BY <2>8, <2>14 DEF Below, After
    <2>18. Passes("audio", r, s, sent)
      BY <2>12, <2>15, <2>16, <2>17 DEF Passes
    <2> QED
      BY <2>3, <2>11, <2>18 DEF sent
  <1>3. CASE ~fills
    <2> DEFINE s == [r EXCEPT !.m_didUnderrun = TRUE]
    <2>1. out.dec = s /\ out.sent = IF over THEN <<[op |-> "ended"]>> ELSE <<>>
      BY <1>3 DEF FillBuffer
    <2>2. /\ s \in Decoder /\ s.m_decodedFrames = r.m_decodedFrames
          /\ s.m_ahiSampleTimestamp = r.m_ahiSampleTimestamp
      BY DEF Decoder
    <2> HIDE DEF s
    <2>3. FramesInLine("audio", s, next) /\ Passes("audio", r, s, <<>>)
      <3>1. Marks("audio", s) = Marks("audio", r)
        BY <2>2 DEF Marks
      <3> QED
        BY <2>2, <3>1, KeptLine
    <2> DEFINE sent == <<[op |-> "ended"]>>
    <2>4. /\ DOMAIN sent = {1} /\ sent[1].op = "ended"
      OBVIOUS
    <2> HIDE DEF sent
    <2>5. Passes("audio", r, s, sent)
      BY <2>3, <2>4 DEF Passes, Trail, After, OwnMessages, Foreign
    <2> QED
      BY <2>1, <2>3, <2>5 DEF sent
  <1> QED
    BY <1>2, <1>3

\* What decoding leaves of a decoder's fields.
LEMMA Decoded ==
    ASSUME NEW d \in Decoders, NEW r \in Decoder, NEW next \in Position
    PROVE  LET out == DecodeFrames(d, r, next)
           IN  \E count \in Nat, new \in Seq(Frame) :
                 /\ next.pos \in Int /\ next.run \in Int
                 /\ out.next.run = next.run /\ out.next.pos = next.pos + count
                 /\ Len(new) = count
                 /\ \A i \in 1 .. count :
                      new[i].run = next.run /\ new[i].pos = next.pos + i - 1
                 /\ out.dec.m_decodedFrames = r.m_decodedFrames \o new
                 /\ out.dec.m_ahiSampleTimestamp = r.m_ahiSampleTimestamp
                 /\ out.dec.m_position = IF out.shown THEN Head(out.dec.m_decodedFrames)
                                                      ELSE r.m_position
                 /\ out.shown => d = "video" /\ Len(out.dec.m_decodedFrames) > 1
                 /\ out.shown \in BOOLEAN
  <1> DEFINE space == Max({0, ReadAhead[d] - Len(r.m_decodedFrames)})
             count == Min({space, Last + 1 - next.pos})
             new == [i \in 1 .. count |-> [next EXCEPT !.pos = @ + i - 1]]
             frames == r.m_decodedFrames \o new
             first == /\ d = "video" /\ ~r.m_didShowFirstFrame
                      /\ count > 0 /\ Len(frames) > 1
             eof == r.m_decoderEOF \/ count < space
             show == r.m_didShowFirstFrame \/ first
             pos == IF first THEN Head(frames) ELSE r.m_position
             s == [r EXCEPT !.m_decodedFrames = frames, !.m_decoderEOF = eof,
                            !.m_didShowFirstFrame = show, !.m_position = pos]
             out == DecodeFrames(d, r, next)
  <1>1. /\ out.dec = s /\ out.next = [next EXCEPT !.pos = @ + count]
        /\ out.shown = first
    BY DEF DecodeFrames, Decoder
  <1>2. count \in Nat
    BY DecodedCount, Zenon
  <1>3. /\ next.pos \in Int /\ next.run \in Int
        /\ \A n \in Int : [next EXCEPT !.pos = n].run = next.run
                         /\ [next EXCEPT !.pos = n].pos = n
    <2>1. next.pos \in 0 .. Last + 1 /\ next.run \in 0 .. MaxSeeks
      BY Positions
    <2> QED
      BY <2>1, BoundsAssumption DEF Position
  <1>4. first \in BOOLEAN /\ (first => d = "video" /\ Len(frames) > 1)
    OBVIOUS
  <1>5. new \in Seq(Frame)
    BY DecodedCount
  <1> HIDE DEF count
  <1>8. out.next.run = next.run /\ out.next.pos = next.pos + count
    BY <1>1, <1>2, <1>3
  <1>9. /\ Len(new) = count
        /\ \A i \in 1 .. count :
             new[i].run = next.run /\ new[i].pos = next.pos + i - 1
    <2>1. DOMAIN new = 1 .. count
      OBVIOUS
    <2>2. DOMAIN new = 1 .. Len(new) /\ Len(new) \in Nat
      BY <1>5, LenProperties
    <2>3. Len(new) = count
      <3>1. ASSUME NEW n \in Nat, NEW m \in Nat, 1 .. n = 1 .. m PROVE n = m
        <4>1. n \in 1 .. n \/ n = 0
          OBVIOUS
        <4>2. m \in 1 .. m \/ m = 0
          OBVIOUS
        <4> QED
          BY <3>1, <4>1, <4>2
      <3> QED
        BY <1>2, <2>1, <2>2, <3>1
    <2>4. ASSUME NEW i \in 1 .. count
          PROVE  new[i].run = next.run /\ new[i].pos = next.pos + i - 1
      <3>1. next.pos + i - 1 \in Int
        BY <1>2, <1>3
      <3>2. new[i] = [next EXCEPT !.pos = next.pos + i - 1]
        OBVIOUS
      <3> QED
        BY <1>3, <3>1, <3>2
    <2> QED
      BY <2>3, <2>4
  <1> HIDE DEF frames, first, eof, show, space, new
  <1>6. /\ s.m_decodedFrames = frames /\ s.m_position = pos
        /\ s.m_ahiSampleTimestamp = r.m_ahiSampleTimestamp
    BY DEF Decoder
  <1>7. /\ out.dec.m_decodedFrames = frames
        /\ out.dec.m_ahiSampleTimestamp = r.m_ahiSampleTimestamp
        /\ out.dec.m_position = IF out.shown THEN Head(out.dec.m_decodedFrames)
                                             ELSE r.m_position
        /\ out.shown => d = "video" /\ Len(out.dec.m_decodedFrames) > 1
        /\ out.shown \in BOOLEAN
    BY <1>1, <1>4, <1>6
  <1> HIDE DEF s, pos, out
  <1>10. out.dec.m_decodedFrames = r.m_decodedFrames \o new
    BY <1>7 DEF frames
  <1>11. \E c \in Nat, n \in Seq(Frame) :
          /\ next.pos \in Int /\ next.run \in Int
          /\ out.next.run = next.run /\ out.next.pos = next.pos + c
          /\ Len(n) = c
          /\ \A i \in 1 .. c : n[i].run = next.run /\ n[i].pos = next.pos + i - 1
          /\ out.dec.m_decodedFrames = r.m_decodedFrames \o n
    BY <1>2, <1>3, <1>5, <1>8, <1>9, <1>10
  <1> QED
    BY <1>7, <1>11 DEF out

\* The packages that are decoded come after the frames there are, and the first
\* frame of a video decoder is not before the picture it has shown.
LEMMA DecodePasses ==
    ASSUME NEW d \in Decoders, NEW r \in Decoder, NEW next \in Position,
           FramesInLine(d, r, next)
    PROVE  LET out == DecodeFrames(d, r, next)
           IN  /\ FramesInLine(d, out.dec, out.next)
               /\ Passes(d, r, out.dec, <<>>)
               /\ out.shown => d = "video"
  <1> DEFINE out == DecodeFrames(d, r, next)
             q == r.m_decodedFrames
             s == out.dec
             f == s.m_decodedFrames
  <1>1. PICK count \in Nat, new \in Seq(Frame) :
          /\ next.pos \in Int /\ next.run \in Int
          /\ out.next.run = next.run /\ out.next.pos = next.pos + count
          /\ Len(new) = count
          /\ \A i \in 1 .. count :
               new[i].run = next.run /\ new[i].pos = next.pos + i - 1
          /\ f = q \o new
          /\ s.m_ahiSampleTimestamp = r.m_ahiSampleTimestamp
          /\ s.m_position = IF out.shown THEN Head(f) ELSE r.m_position
          /\ out.shown => d = "video" /\ Len(f) > 1
          /\ out.shown \in BOOLEAN
    BY Decoded
  <1>2. s \in Decoder /\ out.next \in Position
    BY DecodeFramesType
  <1>3. /\ Marks(d, r) \subseteq Position /\ Marks(d, r) # {}
        /\ Marks(d, s) \subseteq Position
        /\ q \in Seq(Frame) /\ f \in Seq(Frame) /\ DOMAIN q = 1 .. Len(q)
        /\ Len(q) \in Nat /\ DOMAIN f = 1 .. Len(f) /\ Len(f) \in Nat
        /\ \A i \in DOMAIN q : q[i] \in Position
        /\ \A i \in DOMAIN f : f[i] \in Position
    BY <1>2, MarksType
  <1> DEFINE later == out.next
  <1>4. /\ later.run = next.run /\ later.pos = next.pos + count
        /\ DOMAIN new = 1 .. count
    BY <1>1, LenProperties
  <1> HIDE DEF later
  <1>5. /\ \A i \in DOMAIN new : /\ NotAfter(next, new[i]) /\ NotAfter(new[i], later)
                                 /\ \A j \in DOMAIN new : i < j => NotAfter(new[i], new[j])
        /\ NotAfter(next, later)
    <2>1. ASSUME NEW i \in 1 .. count
          PROVE  NotAfter(next, new[i]) /\ NotAfter(new[i], later)
      BY <1>1, <1>4 DEF NotAfter
    <2>2. ASSUME NEW i \in 1 .. count, NEW j \in 1 .. count, i < j
          PROVE  NotAfter(new[i], new[j])
      BY <1>1, <2>2 DEF NotAfter
    <2>3. NotAfter(next, later)
      BY <1>1, <1>4 DEF NotAfter
    <2> QED
      BY <1>4, <2>1, <2>2, <2>3
  <1> HIDE DEF q, f
  <1>6. /\ Len(f) = Len(q) + count
        /\ \A i \in 1 .. Len(f) : f[i] = IF i <= Len(q) THEN q[i] ELSE new[i - Len(q)]
    <2>1. f = q \o new /\ Len(new) = count
      BY <1>1 DEF q, f
    <2> QED
      BY <1>3, <2>1, ConcatProperties
  <1> HIDE DEF s, out
  <1>7. \A i \in DOMAIN f : \/ i \in DOMAIN q /\ f[i] = q[i]
                            \/ i > Len(q) /\ i - Len(q) \in DOMAIN new /\ f[i] = new[i - Len(q)]
    BY <1>3, <1>4, <1>6
  <1>8. /\ \A i \in DOMAIN q : /\ NotAfter(q[i], next)
                               /\ \A j \in DOMAIN q : i < j => NotAfter(q[i], q[j])
        /\ \A m \in Marks(d, r) : /\ NotAfter(m, next)
                                  /\ \A i \in DOMAIN q : NotAfter(m, q[i])
    BY DEF FramesInLine, q
  <1>9. later \in Position
    BY <1>2 DEF later
  <1>10. ASSUME NEW x \in Position, NotAfter(x, next)
         PROVE  /\ NotAfter(x, later)
                /\ \A i \in DOMAIN f : i > Len(q) => NotAfter(x, f[i])
    <2>1. ASSUME NEW i \in DOMAIN f, i > Len(q) PROVE NotAfter(x, f[i])
      <3>1. i - Len(q) \in DOMAIN new /\ f[i] = new[i - Len(q)]
        BY <1>3, <1>7, <2>1
      <3>2. NotAfter(next, f[i])
        BY <1>5, <3>1
      <3> QED
        BY <1>3, <1>10, <3>2, NotAfterOrder
    <2> QED
      BY <1>5, <1>9, <1>10, <2>1, NotAfterOrder
  <1>11. \A m \in Marks(d, r) : /\ NotAfter(m, later)
                                /\ \A i \in DOMAIN f : NotAfter(m, f[i])
    <2>1. SUFFICES ASSUME NEW m \in Marks(d, r), NEW i \in DOMAIN f
                   PROVE  NotAfter(m, later) /\ NotAfter(m, f[i])
      BY <1>3, <1>8, <1>10
    <2>2. NotAfter(m, next) /\ m \in Position
      BY <1>3, <1>8
    <2> QED
      BY <1>7, <1>8, <1>10, <2>2
  <1>12. ASSUME NEW i \in DOMAIN f
         PROVE  /\ NotAfter(f[i], later)
                /\ \A j \in DOMAIN f : i < j => NotAfter(f[i], f[j])
    <2>1. CASE i \in DOMAIN q /\ f[i] = q[i]
      <3>1. f[i] \in Position /\ NotAfter(f[i], next)
        BY <1>3, <1>8, <2>1
      <3>2. \A j \in DOMAIN f : i < j => NotAfter(f[i], f[j])
        BY <1>7, <1>8, <1>10, <2>1, <3>1
      <3> QED
        BY <1>10, <3>1, <3>2
    <2>2. CASE i > Len(q) /\ i - Len(q) \in DOMAIN new /\ f[i] = new[i - Len(q)]
      <3>1. ASSUME NEW j \in DOMAIN f, i < j PROVE NotAfter(f[i], f[j])
        <4>1. /\ j - Len(q) \in DOMAIN new /\ f[j] = new[j - Len(q)]
              /\ i - Len(q) < j - Len(q)
          BY <1>3, <1>7, <2>2, <3>1
        <4> QED
          BY <1>5, <2>2, <4>1
      <3> QED
        BY <1>5, <2>2, <3>1
    <2> QED
      BY <1>7, <2>1, <2>2
  <1>13. Marks(d, s) = Marks(d, r) \/ (Marks(d, s) = {f[1]} /\ 1 \in DOMAIN f)
    <2>1. CASE out.shown
      <3>1. Len(f) > 1 /\ d = "video" /\ s.m_position = Head(f)
        BY <1>1, <2>1 DEF f, s
      <3>2. f # <<>> /\ 1 \in DOMAIN f
        BY <1>3, <3>1, EmptySeq
      <3>3. Head(f) = f[1]
        BY <1>3, <3>2, HeadTailProperties
      <3> QED
        BY <3>1, <3>2, <3>3 DEF Marks
    <2>2. CASE ~out.shown
      <3>1. s.m_position = r.m_position /\ s.m_ahiSampleTimestamp = r.m_ahiSampleTimestamp
        BY <1>1, <2>2 DEF s
      <3> QED
        BY <3>1 DEF Marks
    <2> QED
      BY <2>1, <2>2
  <1>14. ASSUME Marks(d, s) = {f[1]}, 1 \in DOMAIN f
         PROVE  \A i \in DOMAIN f : NotAfter(f[1], f[i])
    <2>1. \A i \in DOMAIN f : i = 1 \/ 1 < i
      BY <1>3
    <2> QED
      BY <1>3, <1>12, <1>14, <2>1, NotAfterOrder
  <1>15. FramesInLine(d, s, later)
    <2>1. \A m \in Marks(d, s) : /\ NotAfter(m, later)
                                 /\ \A i \in DOMAIN f : NotAfter(m, f[i])
      BY <1>11, <1>12, <1>13, <1>14
    <2> QED
      BY <1>12, <2>1 DEF FramesInLine, f
  <1>16. ASSUME NEW p \in Position, Below(d, p, r)
         PROVE  Below(d, p, s)
    <2>1. CASE Marks(d, s) = Marks(d, r)
      BY <1>16, <2>1 DEF Below
    <2>2. CASE Marks(d, s) = {f[1]} /\ 1 \in DOMAIN f
      <3>1. PICK m \in Marks(d, r) : m \in Position
        BY <1>3
      <3>2. NotAfter(p, m) /\ NotAfter(m, f[1])
        BY <1>11, <1>16, <2>2 DEF Below
      <3> QED
        BY <1>3, <2>2, <3>1, <3>2, NotAfterOrder DEF Below
    <2> QED
      BY <1>13, <2>1, <2>2
  <1> QED
    BY <1>1, <1>15, <1>16, NothingSent DEF Passes, out, s, later

\* Two changes of a decoder that differ in what neither marks nor frames say.
LEMMA SameLine ==
    ASSUME NEW d, NEW r, NEW s, NEW t, NEW next, NEW sent,
           FramesInLine(d, s, next), Passes(d, r, s, sent),
           t.m_decodedFrames = s.m_decodedFrames, Marks(d, t) = Marks(d, s)
    PROVE  FramesInLine(d, t, next) /\ Passes(d, r, t, sent)
  <1>1. FramesInLine(d, t, next)
    BY DEF FramesInLine
  <1>2. \A p : Below(d, p, s) <=> Below(d, p, t)
    BY DEF Below
  <1>3. Trail(d, sent, t)
    BY <1>2 DEF Trail, Passes
  <1> QED
    BY <1>1, <1>2, <1>3 DEF Passes

\* Opening the device fills a sample.
LEMMA GetReadyPasses ==
    ASSUME NEW d \in Decoders, NEW r \in Decoder, NEW next \in Position,
           FramesInLine(d, r, next)
    PROVE  LET out == GetReadyToPlay(d, r)
           IN  /\ FramesInLine(d, out.dec, next)
               /\ Passes(d, r, out.dec, out.sent)
  <1> DEFINE out == GetReadyToPlay(d, r)
  <1>1. CASE d = "audio" /\ ~r.m_ahiControl
    <2> DEFINE s == [r EXCEPT !.m_didFlushBuffers = TRUE]
               filled == FillBuffer(s, 0)
               t == [filled.dec EXCEPT !.m_ahiControl = TRUE, !.m_ahiSample = 0,
                                       !.m_playing = FALSE]
    <2>1. /\ s \in Decoder /\ s.m_decodedFrames = r.m_decodedFrames
          /\ s.m_ahiSampleTimestamp = r.m_ahiSampleTimestamp
      BY DEF Decoder
    <2> HIDE DEF s
    <2>2. Marks(d, s) = Marks(d, r)
      BY <1>1, <2>1 DEF Marks
    <2>3. FramesInLine(d, s, next) /\ Passes(d, r, s, <<>>)
      BY <2>1, <2>2, KeptLine
    <2>4. filled.dec \in Decoder /\ filled.sent \in Seq(DecoderMessage)
      BY <1>1, <2>1, FillType
    <2>5. FramesInLine(d, filled.dec, next) /\ Passes(d, s, filled.dec, filled.sent)
      BY <1>1, <2>1, <2>3, FillPasses
    <2>6. out.dec = t /\ out.sent = filled.sent
      <3>1. out = [filled EXCEPT !.dec.m_ahiControl = TRUE,
                                 !.dec.m_ahiSample = 0,
                                 !.dec.m_playing = FALSE]
        BY <1>1 DEF GetReadyToPlay, s
      <3>2. PICK a, b : filled = [dec |-> a, sent |-> b]
        BY DEF FillBuffer
      <3> HIDE DEF filled
      <3> QED
        BY <3>1, <3>2
    <2> HIDE DEF filled
    <2>7. /\ t.m_decodedFrames = filled.dec.m_decodedFrames
          /\ t.m_ahiSampleTimestamp = filled.dec.m_ahiSampleTimestamp
      BY <2>4 DEF Decoder
    <2> HIDE DEF t
    <2>8. Marks(d, t) = Marks(d, filled.dec)
      BY <1>1, <2>7 DEF Marks
    <2>9. Passes(d, r, filled.dec, filled.sent)
      BY <2>2, <2>5 DEF Passes, Below
    <2> QED
      BY <2>5, <2>6, <2>7, <2>8, <2>9, SameLine
  <1>2. CASE ~(d = "audio" /\ ~r.m_ahiControl)
    <2>1. out.dec = r /\ out.sent = <<>>
      BY <1>2 DEF GetReadyToPlay
    <2> QED
      BY <2>1, KeptLine
  <1> QED
    BY <1>1, <1>2

\* decodeUntilBufferFull: the flush package drops frames, and what is decoded
\* then comes after everything that was there.
LEMMA DecodeUntilPasses ==
    ASSUME NEW d \in Decoders, NEW r \in Decoder,
           muxer \in [Decoders -> [flush : BOOLEAN, next : Position]],
           FramesInLine(d, r, muxer[d].next)
    PROVE  LET out == DecodeUntilBufferFull(d, r)
           IN  /\ FramesInLine(d, out.dec, out.muxer.next)
               /\ Passes(d, r, out.dec, out.sent)
               /\ out.shown => d = "video"
  <1> DEFINE flush == muxer[d].flush /\ ~BufferFull(d, r)
             from == IF flush THEN Flush(r) ELSE r
             once == DecodeFrames(d, from, muxer[d].next)
             again == FillBuffer(once.dec, once.dec.m_ahiSample)
             on == [again.dec EXCEPT !.sounding = TRUE]
             more == DecodeFrames(d, on, once.next)
             replays == flush /\ d = "audio" /\ r.m_playing /\ r.m_ahiControl
             got == IF replays THEN [more EXCEPT !.sent = again.sent] ELSE once
             ready == got.shown \/ \E x \in {once.dec, got.dec} : IsReadyToPlay(d, x)
             out == DecodeUntilBufferFull(d, r)
  <1>1. /\ out.dec = [got.dec EXCEPT !.m_readying = @ /\ ~ready]
        /\ out.muxer = [flush |-> muxer[d].flush /\ ~flush, next |-> got.next]
        /\ out.sent = got.sent /\ out.shown = got.shown
    BY DEF DecodeUntilBufferFull
  <1>2. muxer[d].next \in Position
    OBVIOUS
  <1>3. /\ from \in Decoder /\ FramesInLine(d, from, muxer[d].next)
        /\ Passes(d, r, from, <<>>)
    <2>1. CASE flush
      <3>1. /\ Flush(r) \in Decoder /\ Flush(r).m_decodedFrames = <<>>
            /\ Flush(r).m_position = r.m_position
            /\ Flush(r).m_ahiSampleTimestamp = r.m_ahiSampleTimestamp
        BY FlushType DEF Flush, Decoder
      <3>2. Marks(d, Flush(r)) = Marks(d, r)
        BY <3>1 DEF Marks
      <3>3. from = Flush(r)
        BY <2>1
      <3> HIDE DEF from
      <3> QED
        BY <3>1, <3>2, <3>3, KeptLine
    <2>2. CASE ~flush
      <3>1. from = r
        BY <2>2
      <3> HIDE DEF from
      <3> QED
        BY <3>1, KeptLine
    <2> QED
      BY <2>1, <2>2
  <1> HIDE DEF from
  <1>4. /\ once.dec \in Decoder /\ once.next \in Position /\ once.sent = <<>>
    BY <1>2, <1>3, DecodeFramesType
  <1>5. /\ FramesInLine(d, once.dec, once.next) /\ Passes(d, from, once.dec, <<>>)
        /\ once.shown => d = "video"
    BY <1>2, <1>3, DecodePasses
  <1> HIDE DEF once
  <1>6. Passes(d, r, once.dec, <<>>)
    <2>1. <<>> \in Seq(DecoderMessage) /\ <<>> \o <<>> = <<>>
      BY EmptySeq, ConcatEmptySeq
    <2>2. Passes(d, r, once.dec, <<>> \o <<>>)
      BY <1>3, <1>4, <1>5, <2>1, PassesTwice
    <2> QED
      BY <2>1, <2>2
  <1>7. ASSUME d = "audio"
        PROVE  /\ again.sent \in Seq(DecoderMessage) /\ more.dec \in Decoder
               /\ FramesInLine(d, more.dec, more.next)
               /\ Passes(d, r, more.dec, again.sent)
               /\ more.shown => d = "video"
    <2>1. once.dec.m_ahiSample \in {0, 1}
      BY <1>4 DEF Decoder
    <2>2. /\ again.dec \in Decoder /\ again.sent \in Seq(DecoderMessage)
      BY <1>4, <1>7, <2>1, FillType
    <2>3. /\ FramesInLine(d, again.dec, once.next)
          /\ Passes(d, once.dec, again.dec, again.sent)
      BY <1>4, <1>5, <1>7, <2>1, FillPasses
    <2> HIDE DEF again
    <2>4. /\ on \in Decoder /\ on.m_decodedFrames = again.dec.m_decodedFrames
          /\ on.m_ahiSampleTimestamp = again.dec.m_ahiSampleTimestamp
      BY <2>2 DEF Decoder
    <2> HIDE DEF on
    <2>5. Marks(d, on) = Marks(d, again.dec)
      BY <1>7, <2>4 DEF Marks
    <2>6. FramesInLine(d, on, once.next) /\ Passes(d, once.dec, on, again.sent)
      BY <2>3, <2>4, <2>5, SameLine
    <2>7. /\ FramesInLine(d, more.dec, more.next) /\ Passes(d, on, more.dec, <<>>)
          /\ more.shown => d = "video"
      BY <1>4, <2>4, <2>6, DecodePasses
    <2>8. more.dec \in Decoder
      BY <1>4, <2>4, DecodeFramesType
    <2> HIDE DEF more
    <2>9. <<>> \in Seq(DecoderMessage) /\ again.sent \o <<>> = again.sent
          /\ <<>> \o again.sent = again.sent
      BY <2>2, EmptySeq, ConcatEmptySeq
    <2>10. Passes(d, once.dec, more.dec, again.sent)
      <3>1. Passes(d, once.dec, more.dec, again.sent \o <<>>)
        BY <1>4, <2>2, <2>4, <2>6, <2>7, <2>8, <2>9, PassesTwice
      <3> QED
        BY <2>9, <3>1
    <2>11. Passes(d, r, more.dec, <<>> \o again.sent)
      BY <1>4, <1>6, <2>2, <2>8, <2>9, <2>10, PassesTwice
    <2> QED
      BY <2>2, <2>7, <2>8, <2>9, <2>11
  <1>8. /\ got.dec \in Decoder /\ FramesInLine(d, got.dec, got.next)
        /\ Passes(d, r, got.dec, got.sent)
        /\ got.shown => d = "video"
    <2>1. CASE replays
      <3>1. got = [more EXCEPT !.sent = again.sent]
        BY <2>1
      <3>2. PICK a, b, c, e : more = [dec |-> a, next |-> b, sent |-> c, shown |-> e]
        BY DEF DecodeFrames
      <3> HIDE DEF more, again, got
      <3>3. /\ got.dec = more.dec /\ got.next = more.next /\ got.shown = more.shown
            /\ got.sent = again.sent
        BY <3>1, <3>2
      <3> QED
        BY <1>7, <2>1, <3>3
    <2>2. CASE ~replays
      <3>1. got = once
        BY <2>2
      <3> HIDE DEF got
      <3> QED
        BY <1>4, <1>5, <1>6, <3>1
    <2> QED
      BY <2>1, <2>2
  <1> HIDE DEF got, ready, replays
  <1>9. /\ out.dec.m_decodedFrames = got.dec.m_decodedFrames
        /\ out.dec.m_position = got.dec.m_position
        /\ out.dec.m_ahiSampleTimestamp = got.dec.m_ahiSampleTimestamp
        /\ out.muxer.next = got.next
    BY <1>1, <1>8 DEF Decoder
  <1> HIDE DEF out
  <1>10. Marks(d, out.dec) = Marks(d, got.dec)
    BY <1>9 DEF Marks
  <1>11. FramesInLine(d, out.dec, got.next) /\ Passes(d, r, out.dec, got.sent)
    BY <1>8, <1>9, <1>10, SameLine
  <1> QED
    BY <1>1, <1>8, <1>9, <1>11 DEF out

\* A decoder or its output goes on from dec[d] to r and sends messages, after it
\* has taken one or none (q is left).  The position the container takes then is
\* one that was in the queue, or the picture before or after.
LEMMA LineMoves ==
    ASSUME TypeOK, LineInv, m_position' \in Position,
           NEW d \in Decoders, NEW r \in Decoder,
           NEW q \in Seq(DecoderMessage), NEW sent \in Seq(DecoderMessage),
           dec' = [dec EXCEPT ![d] = r], decQueue' = [decQueue EXCEPT ![d] = q \o sent],
           \A e \in Decoders : e # d => muxer'[e] = muxer[e],
           FramesInLine(d, r, muxer'[d].next), Passes(d, dec[d], r, sent),
           Trail(d, q, dec[d]), OwnMessages(d, q),
           \A p : After(p, decQueue[d]) => After(p, q),
           \/ m_position' = m_position
           \/ /\ d = Clock
              /\ Below(d, m_position', dec[d]) /\ After(m_position', q)
              /\ NotAfter(m_position, m_position')
           \/ d = Clock /\ d = "video" /\ m_position' \in Marks(d, r)
    PROVE  LineInv' /\ NotAfter(m_position, m_position')
  <1>1. /\ dec \in [Decoders -> Decoder] /\ m_position \in Position
        /\ decQueue \in [Decoders -> Seq(DecoderMessage)]
    BY DEF TypeOK
  <1>2. /\ dec'[d] = r /\ decQueue'[d] = q \o sent
        /\ \A e \in Decoders : e # d => dec'[e] = dec[e] /\ decQueue'[e] = decQueue[e]
    BY <1>1
  <1>3. InLine(d, r, q \o sent, muxer'[d].next)
    <2>1. Trail(d, q \o sent, r)
      BY <1>1, TrailConcat
    <2>2. OwnMessages(d, q \o sent)
      BY OwnConcat DEF Passes
    <2> QED
      BY <2>1, <2>2 DEF InLine
  <1>4. \A e \in Decoders : InLine(e, dec'[e], decQueue'[e], muxer'[e].next)
    BY <1>2, <1>3 DEF LineInv
  <1>5. Clock \in Decoders
    BY DecodersAssumption DEF Clock
  <1>6. ASSUME NEW p \in Position, d = Clock, Below(d, p, dec[d]), After(p, q)
        PROVE  Below(Clock, p, dec'[Clock]) /\ After(p, decQueue'[Clock])
    <2>1. Below(d, p, r) /\ After(p, sent)
      BY <1>6 DEF Passes
    <2>2. After(p, q \o sent)
      BY <1>6, <2>1, AfterConcat
    <2> QED
      BY <1>2, <1>6, <2>1, <2>2
  <1>7. /\ Below(Clock, m_position', dec'[Clock]) /\ After(m_position', decQueue'[Clock])
        /\ NotAfter(m_position, m_position')
    <2>1. CASE m_position' = m_position
      <3>1. NotAfter(m_position, m_position)
        BY <1>1, NotAfterOrder
      <3>2. CASE d = Clock
        BY <1>1, <1>6, <2>1, <3>1, <3>2 DEF LineInv
      <3>3. CASE d # Clock
        BY <1>2, <1>5, <2>1, <3>1, <3>3 DEF LineInv
      <3> QED
        BY <3>2, <3>3
    <2>2. CASE /\ d = Clock /\ Below(d, m_position', dec[d]) /\ After(m_position', q)
               /\ NotAfter(m_position, m_position')
      BY <1>6, <2>2
    <2>3. CASE d = Clock /\ d = "video" /\ m_position' \in Marks(d, r)
      <3>1. Marks(d, r) = {m_position'}
        BY <2>3 DEF Marks
      <3>2. Below(d, m_position', r)
        BY <3>1, NotAfterOrder DEF Below
      <3>3. OwnMessages(d, decQueue'[d])
        BY <1>2, <1>3 DEF InLine
      <3>4. After(m_position', decQueue'[d])
        BY <2>3, <3>3 DEF After, OwnMessages, Foreign
      <3>5. Below(d, m_position, dec[d])
        BY <2>3 DEF LineInv
      <3>6. Below(d, m_position, r)
        BY <1>1, <3>5 DEF Passes
      <3>7. NotAfter(m_position, m_position')
        BY <3>1, <3>6 DEF Below
      <3> QED
        BY <1>2, <2>3, <3>2, <3>4, <3>7
    <2> QED
      BY <2>1, <2>2, <2>3
  <1> QED
    BY <1>4, <1>7
    DEF LineInv, InLine, FramesInLine, Trail, OwnMessages, Below, After, Marks,
        NotAfter, Foreign

\* A message of the container to every decoder says nothing of positions.
LEMMA LineToAll ==
    ASSUME TypeOK, LineInv,
           NEW op \in {"play", "prePlay", "pause", "pauseToSeek", "coolDown"},
           decQueue' = ToAll(decQueue, op),
           dec' = dec \/ dec' = [d \in Decoders |-> StopPlayingQuick(dec[d])],
           \A d \in Decoders, p \in Position :
             NotAfter(p, muxer[d].next) => NotAfter(p, muxer'[d].next),
           UNCHANGED m_position
    PROVE  LineInv'
  <1>1. /\ dec \in [Decoders -> Decoder] /\ m_position \in Position
        /\ decQueue \in [Decoders -> Seq(DecoderMessage)]
    BY DEF TypeOK
  <1> DEFINE m == [op |-> op]
             sent == <<m>>
  <1>2. m \in DecoderMessage
    BY Messages
  <1>3. sent \in Seq(DecoderMessage) /\ DOMAIN sent = {1} /\ sent[1] = m /\ m.op = op
    BY <1>2
  <1> HIDE DEF m, sent
  <1>4. ASSUME NEW d \in Decoders
        PROVE  /\ dec'[d] \in Decoder
               /\ dec'[d].m_decodedFrames = dec[d].m_decodedFrames
               /\ Marks(d, dec'[d]) = Marks(d, dec[d])
    <2>1. dec[d] \in Decoder
      BY <1>1
    <2>2. dec'[d] = dec[d] \/ dec'[d] = StopPlayingQuick(dec[d])
      OBVIOUS
    <2>3. /\ dec'[d] \in Decoder
          /\ dec'[d].m_decodedFrames = dec[d].m_decodedFrames
          /\ dec'[d].m_ahiSampleTimestamp = dec[d].m_ahiSampleTimestamp
          /\ dec'[d].m_position = dec[d].m_position
      BY <2>1, <2>2 DEF StopPlayingQuick, Decoder
    <2> QED
      BY <2>3 DEF Marks
  <1>5. ASSUME NEW d \in Decoders
        PROVE  /\ decQueue[d] \in Seq(DecoderMessage)
               /\ decQueue'[d] = decQueue[d] \o sent
    <2>1. decQueue[d] \in Seq(DecoderMessage)
      BY <1>1
    <2>2. decQueue'[d] = Append(decQueue[d], m)
      BY DEF ToAll, m
    <2> QED
      BY <1>2, <2>1, <2>2, AppendIsConcat DEF sent
  <1>6. op \notin {"position", "shown", "ended"}
    OBVIOUS
  <1>7. ASSUME NEW d \in Decoders
        PROVE  OwnMessages(d, sent) /\ \A p : After(p, sent)
    BY <1>3, <1>6 DEF OwnMessages, Foreign, After
  <1>8. ASSUME NEW d \in Decoders
        PROVE  InLine(d, dec'[d], decQueue'[d], muxer'[d].next)
    <2>1. /\ dec[d] \in Decoder /\ dec'[d] \in Decoder
          /\ InLine(d, dec[d], decQueue[d], muxer[d].next)
      BY <1>1, <1>4 DEF LineInv
    <2>2. FramesInLine(d, dec'[d], muxer'[d].next)
      <3> DEFINE f == dec[d].m_decodedFrames
      <3>1. /\ \A x \in Marks(d, dec[d]) : x \in Position
            /\ \A i \in DOMAIN f : f[i] \in Position
        BY <2>1, MarksType
      <3>2. FramesInLine(d, dec[d], muxer[d].next)
        BY <2>1 DEF InLine
      <3> QED
        BY <1>4, <3>1, <3>2 DEF FramesInLine
    <2>3. Passes(d, dec[d], dec'[d], sent)
      <3>1. \A p : Below(d, p, dec[d]) => Below(d, p, dec'[d])
        BY <1>4 DEF Below
      <3>2. Trail(d, sent, dec'[d])
        BY <1>3, <1>6 DEF Trail
      <3> QED
        BY <1>7, <3>1, <3>2 DEF Passes
    <2>4. Trail(d, decQueue[d] \o sent, dec'[d])
      BY <1>3, <1>5, <2>1, <2>3, TrailConcat DEF InLine
    <2>5. OwnMessages(d, decQueue[d] \o sent)
      BY <1>3, <1>5, <1>7, <2>1, OwnConcat DEF InLine
    <2> QED
      BY <1>5, <2>2, <2>4, <2>5 DEF InLine
  <1>9. Clock \in Decoders
    BY DecodersAssumption DEF Clock
  <1>10. Below(Clock, m_position', dec'[Clock])
    BY <1>4, <1>9 DEF LineInv, Below
  <1>11. After(m_position', decQueue'[Clock])
    BY <1>3, <1>5, <1>7, <1>9, AfterConcat DEF LineInv
  <1> QED
    BY <1>8, <1>10, <1>11
    DEF LineInv, InLine, FramesInLine, Trail, OwnMessages, Below, After, Marks,
        NotAfter, Foreign

\* Every step keeps the line, and the position the container has goes forward.
LEMMA LineStep ==
    ASSUME IndInv, IndInv', LineInv, [Next]_vars
    PROVE  LineInv' /\ NotAfter(m_position, m_position')
  <1> DEFINE Goal == LineInv' /\ NotAfter(m_position, m_position')
             Mux == [flush : BOOLEAN, next : Position]
  <1>1. /\ TypeOK /\ m_position \in Position /\ m_position' \in Position
        /\ dec \in [Decoders -> Decoder] /\ muxer \in [Decoders -> Mux]
        /\ decQueue \in [Decoders -> Seq(DecoderMessage)]
        /\ m_seekingPosition \in Stretch
    BY DEF IndInv, TypeOK
  <1>2. NotAfter(m_position, m_position)
    BY <1>1, NotAfterOrder
  <1>3. UNCHANGED <<dec, decQueue, muxer, m_position>> => Goal
    BY <1>2
    DEF LineInv, InLine, FramesInLine, Trail, OwnMessages, Below, After, Marks,
        NotAfter, Foreign
  <1>4. CASE Client \/ RunMain \/ UNCHANGED vars
    <2>1. UNCHANGED <<dec, decQueue, muxer, m_position>>
      BY <1>4 DEF Client, Play, Pause, Yield, Seek, Call, RunMain, vars, flags
    <2> QED
      BY <1>3, <2>1
  <1>5. ASSUME NEW op \in {"play", "prePlay", "pause", "pauseToSeek", "coolDown"},
               decQueue' = ToAll(decQueue, op),
               dec' = dec \/ dec' = [d \in Decoders |-> StopPlayingQuick(dec[d])],
               UNCHANGED <<muxer, m_position>>
        PROVE  Goal
    BY <1>1, <1>2, <1>5, LineToAll
  <1>6. CASE Container
    <2>1. CASE RunPlay
      <3>1. /\ \E op \in {"play", "prePlay"} : decQueue' = ToAll(decQueue, op)
            /\ UNCHANGED <<dec, muxer, m_position>>
        BY <2>1 DEF RunPlay, Takes
      <3> QED
        BY <1>5, <3>1
    <2>2. CASE RunPause
      <3>1. /\ decQueue' = ToAll(decQueue, "pause")
            /\ dec' = [d \in Decoders |-> StopPlayingQuick(dec[d])]
            /\ UNCHANGED <<muxer, m_position>>
        BY <2>2 DEF RunPause, Takes
      <3> QED
        BY <1>5, <3>1
    <2>3. CASE RunCoolDown
      <3>1. decQueue' = ToAll(decQueue, "coolDown") /\ UNCHANGED <<dec, muxer, m_position>>
        BY <2>3 DEF RunCoolDown, Takes
      <3> QED
        BY <1>5, <3>1
    <2>4. CASE RunReady
      <3>1. /\ decQueue' = ToAll(decQueue, "play") \/ UNCHANGED decQueue
            /\ UNCHANGED <<dec, muxer, m_position>>
        BY <2>4 DEF RunReady, Takes
      <3> QED
        BY <1>3, <1>5, <3>1
    <2>5. CASE RunSeek
      <3>1. /\ \/ /\ decQueue' = ToAll(decQueue, "pauseToSeek")
                  /\ dec' = [d \in Decoders |-> StopPlayingQuick(dec[d])]
               \/ UNCHANGED <<dec, decQueue>>
            /\ UNCHANGED <<muxer, m_position>>
        BY <2>5 DEF RunSeek, Takes
      <3> QED
        BY <1>3, <1>5, <3>1
    <2>6. CASE SeekMuxer
      <3>1. /\ decQueue' = ToAll(decQueue, "prePlay") /\ UNCHANGED <<dec, m_position>>
            /\ muxer' = [d \in Decoders |->
                           [flush |-> TRUE,
                            next |-> [run |-> muxer[d].next.run + 1,
                                      pos |-> m_seekingPosition]]]
        BY <2>6 DEF SeekMuxer, flags
      <3>2. ASSUME NEW d \in Decoders, NEW p \in Position, NotAfter(p, muxer[d].next)
            PROVE  NotAfter(p, muxer'[d].next)
        <4>1. muxer[d].next \in Position
          BY <1>1
        <4>2. p.run \in 0 .. MaxSeeks /\ muxer[d].next.run \in 0 .. MaxSeeks
          BY <4>1, Positions
        <4>3. muxer'[d].next.run = muxer[d].next.run + 1
          BY <3>1
        <4> QED
          BY <3>2, <4>2, <4>3, BoundsAssumption DEF NotAfter
      <3>3. LineInv'
        BY <1>1, <3>1, <3>2, LineToAll
      <3> QED
        BY <1>2, <3>1, <3>3
    <2> QED
      BY <1>6, <2>1, <2>2, <2>3, <2>4, <2>5, <2>6 DEF Container
  <1>7. ASSUME NEW d \in Decoders
        PROVE  /\ dec[d] \in Decoder /\ muxer[d] \in Mux /\ muxer[d].next \in Position
               /\ decQueue[d] \in Seq(DecoderMessage)
               /\ FramesInLine(d, dec[d], muxer[d].next)
               /\ Trail(d, decQueue[d], dec[d]) /\ OwnMessages(d, decQueue[d])
               /\ d = Clock => /\ Below(d, m_position, dec[d])
                               /\ After(m_position, decQueue[d])
    BY <1>1 DEF LineInv, InLine
  <1>8. ASSUME NEW d \in Decoders, NEW op, Handles(d, op)
        PROVE  LET q == Tail(decQueue[d])
               IN  /\ decQueue[d] # <<>> /\ Head(decQueue[d]).op = op
                   /\ q \in Seq(DecoderMessage)
                   /\ Trail(d, q, dec[d]) /\ OwnMessages(d, q)
                   /\ \A p : After(p, decQueue[d]) => After(p, q)
                   /\ op \notin Foreign(d)
                   /\ op = "position" =>
                        /\ Head(decQueue[d]).pos \in Position
                        /\ Below(d, Head(decQueue[d]).pos, dec[d])
                        /\ After(Head(decQueue[d]).pos, q)
                        /\ d = Clock => NotAfter(m_position, Head(decQueue[d]).pos)
    <2>1. decQueue[d] # <<>> /\ Head(decQueue[d]).op = op
      BY <1>8 DEF Handles
    <2>2. Tail(decQueue[d]) \in Seq(DecoderMessage) /\ Head(decQueue[d]) \in DecoderMessage
      BY <1>7, <2>1, HeadTailProperties
    <2>3. op = "position" => Head(decQueue[d]).pos \in Position
      BY <2>1, <2>2, Messages, Positions
    <2> QED
      BY <1>7, <2>1, <2>2, <2>3, TrailTail
  <1>9. ASSUME NEW d \in Decoders, NEW op, Handles(d, op), NEW r \in Decoder, Changes(d, r),
               Marks(d, r) = Marks(d, dec[d]),
               r.m_decodedFrames \in {dec[d].m_decodedFrames, <<>>},
               UNCHANGED m_position
        PROVE  Goal
    <2> DEFINE q == Tail(decQueue[d])
    <2>1. /\ dec' = [dec EXCEPT ![d] = r] /\ decQueue' = [decQueue EXCEPT ![d] = q]
          /\ UNCHANGED muxer
      BY <1>9 DEF Changes
    <2>2. /\ q \in Seq(DecoderMessage) /\ Trail(d, q, dec[d]) /\ OwnMessages(d, q)
          /\ \A p : After(p, decQueue[d]) => After(p, q)
      BY <1>8, <1>9
    <2> HIDE DEF q
    <2>3. FramesInLine(d, r, muxer'[d].next) /\ Passes(d, dec[d], r, <<>>)
      BY <1>7, <1>9, <2>1, KeptLine
    <2>4. q \o <<>> = q /\ <<>> \in Seq(DecoderMessage)
      BY <2>2, ConcatEmptySeq, EmptySeq
    <2>5. decQueue' = [decQueue EXCEPT ![d] = q \o <<>>]
      BY <2>1, <2>4
    <2> QED
      BY <1>1, <1>9, <2>1, <2>2, <2>3, <2>4, <2>5, LineMoves
  <1>10. ASSUME NEW d, NEW pos, OnPositionChanged(d, pos)
         PROVE  m_position' = m_position \/ (d = Clock /\ m_position' = pos)
    BY <1>10 DEF OnPositionChanged
  <1>11. Silent => UNCHANGED m_position
    BY DEF Silent, flags
  <1>12. ASSUME NEW d \in Decoders, NEW s \in Decoder,
                FramesInLine(d, s, muxer[d].next), Passes(d, dec[d], s, <<>>)
         PROVE  LET got == DecodeUntilBufferFull(d, s)
                IN  /\ got.dec \in Decoder /\ got.muxer \in Mux
                    /\ got.muxer.next \in Position
                    /\ got.sent \in Seq(DecoderMessage) /\ got.ready \in BOOLEAN
                    /\ FramesInLine(d, got.dec, got.muxer.next)
                    /\ Passes(d, dec[d], got.dec, got.sent)
                    /\ got.shown => d = "video"
    <2> DEFINE got == DecodeUntilBufferFull(d, s)
    <2>1. /\ got.dec \in Decoder /\ got.muxer \in Mux
          /\ got.sent \in Seq(DecoderMessage) /\ got.ready \in BOOLEAN
      BY <1>1, DecodeUntilType
    <2>2. /\ FramesInLine(d, got.dec, got.muxer.next)
          /\ Passes(d, s, got.dec, got.sent)
          /\ got.shown => d = "video"
      BY <1>1, <1>12, DecodeUntilPasses
    <2> HIDE DEF got
    <2>3. <<>> \in Seq(DecoderMessage) /\ <<>> \o got.sent = got.sent
      BY <2>1, EmptySeq, ConcatEmptySeq
    <2>4. Passes(d, dec[d], got.dec, <<>> \o got.sent)
      BY <1>7, <1>12, <2>1, <2>2, <2>3, PassesTwice
    <2>5. got.muxer.next \in Position
      BY <2>1
    <2> QED
      BY <2>1, <2>2, <2>3, <2>4, <2>5 DEF got
  <1>13. ASSUME NEW d \in Decoders, NEW op, Handles(d, op), NEW got, NEW r \in Decoder,
                NEW sent \in Seq(DecoderMessage), NEW ready, Decodes(d, got, r, sent, ready),
                got.sent \in Seq(DecoderMessage),
                FramesInLine(d, r, got.muxer.next),
                Passes(d, dec[d], r, got.sent \o sent),
                \/ m_position' = m_position
                \/ /\ d = Clock
                   /\ Below(d, m_position', dec[d])
                   /\ After(m_position', Tail(decQueue[d]))
                   /\ NotAfter(m_position, m_position')
                \/ d = Clock /\ d = "video" /\ m_position' \in Marks(d, r)
         PROVE  Goal
    <2> DEFINE q == Tail(decQueue[d])
               all == got.sent \o sent
    <2>1. /\ dec' = [dec EXCEPT ![d] = r]
          /\ decQueue' = [decQueue EXCEPT ![d] = q \o got.sent \o sent]
          /\ muxer' = [muxer EXCEPT ![d] = got.muxer]
      BY <1>13 DEF Decodes
    <2>2. /\ q \in Seq(DecoderMessage) /\ Trail(d, q, dec[d]) /\ OwnMessages(d, q)
          /\ \A p : After(p, decQueue[d]) => After(p, q)
      BY <1>8, <1>13
    <2> HIDE DEF q
    <2>3. q \o got.sent \o sent = q \o all /\ all \in Seq(DecoderMessage)
      <3>1. PICK g \in Seq(DecoderMessage) : g = got.sent
        BY <1>13
      <3>2. (q \o g) \o sent = q \o (g \o sent) /\ g \o sent \in Seq(DecoderMessage)
        BY <2>2, ConcatAssociative, ConcatProperties
      <3> QED
        BY <3>1, <3>2
    <2> HIDE DEF all
    <2>4. decQueue' = [decQueue EXCEPT ![d] = q \o all]
      BY <2>1, <2>3
    <2>5. muxer'[d] = got.muxer /\ \A e \in Decoders : e # d => muxer'[e] = muxer[e]
      BY <1>1, <2>1
    <2>6. FramesInLine(d, r, muxer'[d].next) /\ Passes(d, dec[d], r, all)
      BY <1>13, <2>5 DEF all
    <2>7. \/ m_position' = m_position
          \/ /\ d = Clock
             /\ Below(d, m_position', dec[d]) /\ After(m_position', q)
             /\ NotAfter(m_position, m_position')
          \/ d = Clock /\ d = "video" /\ m_position' \in Marks(d, r)
      BY <1>13 DEF q
    <2> QED
      BY <1>1, <2>1, <2>2, <2>3, <2>4, <2>5, <2>6, <2>7, LineMoves
  <1>14. ASSUME NEW d, NEW got, FirstFrame(d, got), got.shown => d = "video"
         PROVE  \/ m_position' = m_position
                \/ d = Clock /\ d = "video" /\ m_position' = got.dec.m_position
    <2>1. CASE got.shown
      <3>1. OnPositionChanged(d, got.dec.m_position)
        BY <1>14, <2>1 DEF FirstFrame
      <3> QED
        BY <1>10, <1>14, <2>1, <3>1
    <2>2. CASE ~got.shown
      BY <1>11, <1>14, <2>2 DEF FirstFrame
    <2> QED
      BY <2>1, <2>2
  <1>15. ASSUME NEW d \in Decoders
         PROVE  LET got == DecodeUntilBufferFull(d, dec[d])
                    init == GetReadyToPlay(d, got.dec)
                IN  /\ got.dec \in Decoder
                    /\ got.sent \in Seq(DecoderMessage) /\ got.ready \in BOOLEAN
                    /\ FramesInLine(d, got.dec, got.muxer.next)
                    /\ Passes(d, dec[d], got.dec, got.sent)
                    /\ got.shown => d = "video"
                    /\ init.dec \in Decoder /\ init.sent \in Seq(DecoderMessage)
                    /\ FramesInLine(d, init.dec, got.muxer.next)
                    /\ Passes(d, dec[d], init.dec, got.sent \o init.sent)
                    /\ d = "video" => init.dec = got.dec
    <2> DEFINE got == DecodeUntilBufferFull(d, dec[d])
               init == GetReadyToPlay(d, got.dec)
    <2>1. FramesInLine(d, dec[d], muxer[d].next) /\ Passes(d, dec[d], dec[d], <<>>)
      BY <1>7, KeptLine
    <2>2. /\ got.dec \in Decoder /\ got.muxer.next \in Position
          /\ got.sent \in Seq(DecoderMessage) /\ got.ready \in BOOLEAN
          /\ FramesInLine(d, got.dec, got.muxer.next)
          /\ Passes(d, dec[d], got.dec, got.sent)
          /\ got.shown => d = "video"
      BY <1>7, <1>12, <2>1
    <2> HIDE DEF got
    <2>3. /\ init.dec \in Decoder /\ init.sent \in Seq(DecoderMessage)
          /\ d = "video" => init.dec = got.dec
      BY <2>2, GetReadyType
    <2>4. /\ FramesInLine(d, init.dec, got.muxer.next)
          /\ Passes(d, got.dec, init.dec, init.sent)
      BY <2>2, GetReadyPasses
    <2> HIDE DEF init
    <2>5. Passes(d, dec[d], init.dec, got.sent \o init.sent)
      BY <1>7, <2>2, <2>3, <2>4, PassesTwice
    <2> QED
      BY <2>2, <2>3, <2>4, <2>5 DEF got, init
  <1>16. ASSUME NEW d \in Decoders, DoWarmUp(d) PROVE Goal
    <2> DEFINE got == DecodeUntilBufferFull(d, dec[d])
    <2>1. Handles(d, "warmUp") /\ Decodes(d, got, got.dec, <<>>, FALSE) /\ FirstFrame(d, got)
      BY <1>16 DEF DoWarmUp
    <2>2. /\ got.dec \in Decoder /\ got.sent \in Seq(DecoderMessage)
          /\ FramesInLine(d, got.dec, got.muxer.next)
          /\ Passes(d, dec[d], got.dec, got.sent)
          /\ got.shown => d = "video"
      BY <1>15
    <2> HIDE DEF got
    <2>3. <<>> \in Seq(DecoderMessage) /\ got.sent \o <<>> = got.sent
      BY <2>2, EmptySeq, ConcatEmptySeq
    <2>4. \/ m_position' = m_position
          \/ d = Clock /\ d = "video" /\ m_position' \in Marks(d, got.dec)
      BY <1>14, <2>1, <2>2 DEF Marks
    <2> QED
      BY <1>13, <2>1, <2>2, <2>3, <2>4
  <1>17. ASSUME NEW d \in Decoders, DoPrePlay(d) PROVE Goal
    <2> DEFINE got == DecodeUntilBufferFull(d, dec[d])
               init == GetReadyToPlay(d, got.dec)
               ready == IsReadyToPlay(d, init.dec)
               r == [init.dec EXCEPT !.m_readying = ~ready]
    <2>1. /\ Handles(d, "prePlay") /\ Decodes(d, got, r, init.sent, ready)
          /\ FirstFrame(d, got)
      BY <1>17 DEF DoPrePlay
    <2>2. /\ got.dec \in Decoder /\ got.sent \in Seq(DecoderMessage)
          /\ got.shown => d = "video"
          /\ init.dec \in Decoder /\ init.sent \in Seq(DecoderMessage)
          /\ FramesInLine(d, init.dec, got.muxer.next)
          /\ Passes(d, dec[d], init.dec, got.sent \o init.sent)
          /\ d = "video" => init.dec = got.dec
      BY <1>15
    <2> HIDE DEF got, init
    <2>3. ready \in BOOLEAN
      BY DEF IsReadyToPlay
    <2> HIDE DEF ready
    <2>4. /\ r \in Decoder /\ r.m_decodedFrames = init.dec.m_decodedFrames
          /\ r.m_position = init.dec.m_position
          /\ r.m_ahiSampleTimestamp = init.dec.m_ahiSampleTimestamp
      BY <2>2, <2>3 DEF Decoder
    <2> HIDE DEF r
    <2>5. Marks(d, r) = Marks(d, init.dec)
      BY <2>4 DEF Marks
    <2>6. /\ FramesInLine(d, r, got.muxer.next)
          /\ Passes(d, dec[d], r, got.sent \o init.sent)
      BY <2>2, <2>4, <2>5, SameLine
    <2>7. \/ m_position' = m_position
          \/ d = Clock /\ d = "video" /\ m_position' \in Marks(d, r)
      BY <1>14, <2>1, <2>2, <2>5 DEF Marks
    <2> QED
      BY <1>13, <2>1, <2>2, <2>4, <2>6, <2>7
  <1>18. ASSUME NEW d \in Decoders, DoPlay(d) PROVE Goal
    <2> DEFINE got == DecodeUntilBufferFull(d, dec[d])
               init == GetReadyToPlay(d, got.dec)
               ready == IsReadyToPlay(d, init.dec)
               sounds == ready /\ d = "audio"
               r == [init.dec EXCEPT !.m_playing = @ \/ ready, !.sounding = @ \/ sounds]
    <2>1. /\ Handles(d, "play") /\ Decodes(d, got, r, init.sent, FALSE)
          /\ \/ d = "video" /\ OnPositionChanged(d, r.m_position)
             \/ FirstFrame(d, got)
      BY <1>18 DEF DoPlay
    <2>2. /\ got.dec \in Decoder /\ got.sent \in Seq(DecoderMessage)
          /\ got.shown => d = "video"
          /\ init.dec \in Decoder /\ init.sent \in Seq(DecoderMessage)
          /\ FramesInLine(d, init.dec, got.muxer.next)
          /\ Passes(d, dec[d], init.dec, got.sent \o init.sent)
          /\ d = "video" => init.dec = got.dec
      BY <1>15
    <2> HIDE DEF got, init
    <2>3. ready \in BOOLEAN /\ sounds \in BOOLEAN
      BY DEF IsReadyToPlay
    <2> HIDE DEF ready, sounds
    <2>4. /\ r \in Decoder /\ r.m_decodedFrames = init.dec.m_decodedFrames
          /\ r.m_position = init.dec.m_position
          /\ r.m_ahiSampleTimestamp = init.dec.m_ahiSampleTimestamp
      BY <2>2, <2>3 DEF Decoder
    <2> HIDE DEF r
    <2>5. Marks(d, r) = Marks(d, init.dec)
      BY <2>4 DEF Marks
    <2>6. /\ FramesInLine(d, r, got.muxer.next)
          /\ Passes(d, dec[d], r, got.sent \o init.sent)
      BY <2>2, <2>4, <2>5, SameLine
    <2>7. \/ m_position' = m_position
          \/ d = Clock /\ d = "video" /\ m_position' \in Marks(d, r)
      BY <1>10, <1>14, <2>1, <2>2, <2>5 DEF Marks
    <2> QED
      BY <1>13, <2>1, <2>2, <2>4, <2>6, <2>7
  <1>19. ASSUME NEW d \in Decoders, DoPause(d) \/ DoCoolDown(d) PROVE Goal
    <2> DEFINE s == StopPlaying(d, dec[d])
    <2>1. PICK r \in {[s EXCEPT !.m_readying = FALSE],
                      [s EXCEPT !.m_readying = FALSE, !.m_ahiControl = FALSE]} :
            Changes(d, r)
      BY <1>19 DEF DoPause, DoCoolDown
    <2>2. UNCHANGED m_position /\ \E op : Handles(d, op)
      BY <1>11, <1>19 DEF DoPause, DoCoolDown
    <2>3. /\ s \in Decoder /\ s.m_position = dec[d].m_position
          /\ s.m_decodedFrames = dec[d].m_decodedFrames
          /\ s.m_ahiSampleTimestamp = dec[d].m_ahiSampleTimestamp
      BY <1>7 DEF StopPlaying, Decoder
    <2> HIDE DEF s
    <2>4. /\ r \in Decoder /\ r.m_position = s.m_position
          /\ r.m_decodedFrames = s.m_decodedFrames
          /\ r.m_ahiSampleTimestamp = s.m_ahiSampleTimestamp
      BY <2>1, <2>3 DEF Decoder
    <2>5. Marks(d, r) = Marks(d, dec[d])
      BY <2>3, <2>4 DEF Marks
    <2> QED
      BY <1>9, <2>1, <2>2, <2>3, <2>4, <2>5
  <1>20. ASSUME NEW d \in Decoders, DoPauseToSeek(d) PROVE Goal
    <2> DEFINE s == StopPlaying(d, dec[d])
               r == [Flush(s) EXCEPT !.m_readying = FALSE]
    <2>1. Handles(d, "pauseToSeek") /\ Changes(d, r) /\ UNCHANGED m_position
      BY <1>11, <1>20 DEF DoPauseToSeek
    <2>2. /\ s \in Decoder /\ s.m_position = dec[d].m_position
          /\ s.m_ahiSampleTimestamp = dec[d].m_ahiSampleTimestamp
      BY <1>7 DEF StopPlaying, Decoder
    <2> HIDE DEF s
    <2>3. /\ r \in Decoder /\ r.m_position = s.m_position
          /\ r.m_decodedFrames = <<>>
          /\ r.m_ahiSampleTimestamp = s.m_ahiSampleTimestamp
      BY <2>2, FlushType DEF Flush, Decoder
    <2> HIDE DEF r
    <2>4. Marks(d, r) = Marks(d, dec[d])
      BY <2>2, <2>3 DEF Marks
    <2> QED
      BY <1>9, <2>1, <2>3, <2>4
  <1>21. ASSUME NEW d \in Decoders, DoPosition(d) PROVE Goal
    <2> DEFINE pos == Head(decQueue[d]).pos
               s == [dec[d] EXCEPT !.m_position = pos]
               got == DecodeUntilBufferFull(d, s)
    <2>0. Handles(d, "position")
      BY <1>21 DEF DoPosition
    <2>1. /\ pos \in Position /\ Below(d, pos, dec[d]) /\ After(pos, Tail(decQueue[d]))
          /\ d = Clock => NotAfter(m_position, pos)
          /\ "position" \notin Foreign(d)
      BY <1>8, <2>0
    <2>2. d = "audio"
      BY <2>1 DEF Foreign
    <2>3. CASE dec[d].m_ahiControl
      <3>1. Decodes(d, got, got.dec, <<>>, FALSE) /\ OnPositionChanged(d, pos)
        BY <1>21, <2>3 DEF DoPosition
      <3> HIDE DEF pos
      <3>2. /\ s \in Decoder /\ s.m_decodedFrames = dec[d].m_decodedFrames
            /\ s.m_ahiSampleTimestamp = dec[d].m_ahiSampleTimestamp
        BY <1>7, <2>1 DEF Decoder
      <3> HIDE DEF s
      <3>3. Marks(d, s) = Marks(d, dec[d])
        BY <2>2, <3>2 DEF Marks
      <3>4. FramesInLine(d, s, muxer[d].next) /\ Passes(d, dec[d], s, <<>>)
        BY <1>7, <3>2, <3>3, KeptLine
      <3>5. /\ got.dec \in Decoder /\ got.sent \in Seq(DecoderMessage)
            /\ FramesInLine(d, got.dec, got.muxer.next)
            /\ Passes(d, dec[d], got.dec, got.sent)
        BY <1>12, <3>2, <3>4
      <3> HIDE DEF got
      <3>6. <<>> \in Seq(DecoderMessage) /\ got.sent \o <<>> = got.sent
        BY <3>5, EmptySeq, ConcatEmptySeq
      <3>7. m_position' = m_position \/ (d = Clock /\ m_position' = pos)
        BY <1>10, <3>1
      <3>8. \/ m_position' = m_position
            \/ /\ d = Clock
               /\ Below(d, m_position', dec[d])
               /\ After(m_position', Tail(decQueue[d]))
               /\ NotAfter(m_position, m_position')
        BY <2>1, <3>7
      <3> QED
        BY <1>13, <2>0, <3>1, <3>5, <3>6, <3>8
    <2>4. CASE ~dec[d].m_ahiControl
      <3>1. Changes(d, dec[d]) /\ UNCHANGED m_position
        BY <1>11, <1>21, <2>4 DEF DoPosition
      <3> QED
        BY <1>7, <1>9, <2>0, <3>1
    <2> QED
      BY <2>3, <2>4
  <1>22. ASSUME NEW d \in Decoders, DoEnded(d) PROVE Goal
    <2>0. Handles(d, "ended")
      BY <1>22 DEF DoEnded
    <2>1. d = "audio"
      BY <1>8, <2>0 DEF Foreign
    <2>2. CASE dec[d].m_ahiControl
      <3> DEFINE s == StopPlaying(d, dec[d])
                 r == [s EXCEPT !.m_position.pos = Last + 1]
      <3>1. Changes(d, r) /\ UNCHANGED m_position
        BY <1>22, <2>2 DEF DoEnded, OnEnded
      <3>2. /\ s \in Decoder /\ s.m_decodedFrames = dec[d].m_decodedFrames
            /\ s.m_ahiSampleTimestamp = dec[d].m_ahiSampleTimestamp
        BY <1>7 DEF StopPlaying, Decoder
      <3> HIDE DEF s
      <3>3. [s.m_position EXCEPT !.pos = Last + 1] \in Position
        BY <3>2, Positions DEF Decoder
      <3> DEFINE end == [s.m_position EXCEPT !.pos = Last + 1]
      <3>4. r = [s EXCEPT !.m_position = end]
        BY <3>2 DEF Decoder
      <3> HIDE DEF end, r
      <3>5. /\ r \in Decoder /\ r.m_decodedFrames = s.m_decodedFrames
            /\ r.m_ahiSampleTimestamp = s.m_ahiSampleTimestamp
        BY <3>2, <3>3, <3>4 DEF Decoder, end
      <3>6. Marks(d, r) = Marks(d, dec[d])
        BY <2>1, <3>2, <3>5 DEF Marks
      <3> QED
        BY <1>9, <2>0, <3>1, <3>2, <3>5, <3>6
    <2>3. CASE ~dec[d].m_ahiControl
      <3>1. Changes(d, dec[d]) /\ UNCHANGED m_position
        BY <1>11, <1>22, <2>3 DEF DoEnded
      <3> QED
        BY <1>7, <1>9, <2>0, <3>1
    <2> QED
      BY <2>2, <2>3
  <1>23. ASSUME NEW d \in Decoders, DoShown(d) PROVE Goal
    <2> DEFINE got == DecodeUntilBufferFull(d, dec[d])
    <2>1. /\ Handles(d, "shown") /\ Decodes(d, got, got.dec, <<>>, FALSE)
          /\ OnPositionChanged(d, dec[d].m_position)
      BY <1>23 DEF DoShown
    <2>2. /\ got.dec \in Decoder /\ got.sent \in Seq(DecoderMessage)
          /\ FramesInLine(d, got.dec, got.muxer.next)
          /\ Passes(d, dec[d], got.dec, got.sent)
      BY <1>15
    <2> HIDE DEF got
    <2>3. <<>> \in Seq(DecoderMessage) /\ got.sent \o <<>> = got.sent
      BY <2>2, EmptySeq, ConcatEmptySeq
    <2>4. d # "audio" /\ OwnMessages(d, Tail(decQueue[d]))
      BY <1>8, <2>1 DEF Foreign
    <2>5. \A p : After(p, Tail(decQueue[d]))
      BY <2>4 DEF After, OwnMessages, Foreign
    <2>6. Marks(d, dec[d]) = {dec[d].m_position} /\ dec[d].m_position \in Position
      BY <1>7, <2>4 DEF Marks, Decoder
    <2>7. Below(d, dec[d].m_position, dec[d])
      BY <2>6, NotAfterOrder DEF Below
    <2>8. d = Clock => NotAfter(m_position, dec[d].m_position)
      BY <1>7, <2>6 DEF Below
    <2>9. m_position' = m_position \/ (d = Clock /\ m_position' = dec[d].m_position)
      BY <1>10, <2>1
    <2>10. \/ m_position' = m_position
           \/ /\ d = Clock
              /\ Below(d, m_position', dec[d])
              /\ After(m_position', Tail(decQueue[d]))
              /\ NotAfter(m_position, m_position')
      BY <2>5, <2>7, <2>8, <2>9
    <2> QED
      BY <1>13, <2>1, <2>2, <2>3, <2>10
  <1>24. ASSUME NEW d \in Decoders, Pump(d) PROVE Goal
    <2> DEFINE index == 1 - dec[d].m_ahiSample
               filled == FillBuffer(dec[d], index)
               r == [filled.dec EXCEPT !.m_ahiSample = index]
    <2>1. /\ d = "audio" /\ dec' = [dec EXCEPT ![d] = r]
          /\ decQueue' = [decQueue EXCEPT ![d] = decQueue[d] \o filled.sent]
          /\ UNCHANGED <<m_position, muxer>>
      BY <1>11, <1>24 DEF Pump
    <2>2. index \in {0, 1}
      BY <1>7 DEF Decoder
    <2> HIDE DEF index
    <2>3. /\ filled.dec \in Decoder /\ filled.sent \in Seq(DecoderMessage)
      BY <1>7, <2>1, <2>2, FillType
    <2>4. /\ FramesInLine(d, filled.dec, muxer[d].next)
          /\ Passes(d, dec[d], filled.dec, filled.sent)
      BY <1>7, <2>1, <2>2, FillPasses
    <2> HIDE DEF filled
    <2>5. /\ r \in Decoder
          /\ r.m_decodedFrames = filled.dec.m_decodedFrames
          /\ r.m_ahiSampleTimestamp = filled.dec.m_ahiSampleTimestamp
      BY <2>2, <2>3 DEF Decoder
    <2> HIDE DEF r
    <2>6. Marks(d, r) = Marks(d, filled.dec)
      BY <2>1, <2>5 DEF Marks
    <2>7. FramesInLine(d, r, muxer'[d].next) /\ Passes(d, dec[d], r, filled.sent)
      BY <2>1, <2>4, <2>5, <2>6, SameLine
    <2> QED
      BY <1>1, <1>7, <2>1, <2>3, <2>5, <2>7, LineMoves
  <1>25. ASSUME NEW d \in Decoders, Pull(d) PROVE Goal
    <2> DEFINE f == dec[d].m_decodedFrames
               r == [dec[d] EXCEPT !.m_position = Head(f), !.m_decodedFrames = Tail(f)]
               m == [op |-> "shown"]
               sent == <<m>>
    <2>1. /\ d = "video" /\ f # <<>>
          /\ dec' = [dec EXCEPT ![d].m_position = Head(f),
                                ![d].m_decodedFrames = Tail(@)]
          /\ decQueue' = [decQueue EXCEPT ![d] = Append(decQueue[d], m)]
          /\ UNCHANGED <<m_position, muxer>>
      BY <1>11, <1>25 DEF Pull
    <2>2. dec' = [dec EXCEPT ![d] = r]
      BY <1>1, <1>7, <2>1 DEF Decoder
    <2>3. f \in Seq(Frame)
      BY <1>7 DEF Decoder
    <2> HIDE DEF f
    <2>4. /\ Head(f) \in Frame /\ Tail(f) \in Seq(Frame) /\ Head(f) = f[1]
          /\ 1 \in DOMAIN f
          /\ \A i \in DOMAIN Tail(f) : /\ i + 1 \in DOMAIN f /\ Tail(f)[i] = f[i + 1]
                                       /\ i \in Int /\ 1 < i + 1
      <3>1. /\ Len(f) \in Nat \ {0} /\ Head(f) = f[1] /\ DOMAIN f = 1 .. Len(f)
            /\ DOMAIN Tail(f) = 1 .. Len(f) - 1 /\ Head(f) \in Frame
            /\ Tail(f) \in Seq(Frame)
            /\ \A i \in 1 .. Len(f) - 1 : Tail(f)[i] = f[i + 1]
        BY <2>1, <2>3, HeadTailProperties, LenProperties, EmptySeq
      <3> QED
        BY <3>1
    <2>5. Head(f) \in Position
      BY <2>4, Positions
    <2>6. /\ r \in Decoder /\ r.m_decodedFrames = Tail(f) /\ r.m_position = Head(f)
      BY <1>7, <2>4, <2>5 DEF Decoder
    <2> HIDE DEF r
    <2>7. /\ Marks(d, r) = {Head(f)} /\ Marks(d, dec[d]) = {dec[d].m_position}
          /\ dec[d].m_position \in Position
      BY <1>7, <2>1, <2>6 DEF Marks, Decoder
    <2>8. /\ \A i, j \in DOMAIN f : i < j => NotAfter(f[i], f[j])
          /\ \A i \in DOMAIN f : /\ NotAfter(f[i], muxer[d].next)
                                 /\ NotAfter(dec[d].m_position, f[i])
      BY <1>7, <2>7 DEF FramesInLine, f
    <2>9. FramesInLine(d, r, muxer'[d].next)
      <3>1. \A i, j \in DOMAIN Tail(f) : i < j => i + 1 < j + 1
        BY <2>4
      <3>2. /\ \A i, j \in DOMAIN Tail(f) : i < j => NotAfter(Tail(f)[i], Tail(f)[j])
            /\ \A i \in DOMAIN Tail(f) : /\ NotAfter(Tail(f)[i], muxer[d].next)
                                         /\ NotAfter(Head(f), Tail(f)[i])
            /\ NotAfter(Head(f), muxer[d].next)
        BY <2>4, <2>8, <3>1
      <3> QED
        BY <2>1, <2>6, <2>7, <3>2 DEF FramesInLine
    <2>10. m \in DecoderMessage
      BY Messages
    <2>11. sent \in Seq(DecoderMessage) /\ DOMAIN sent = {1} /\ sent[1].op = "shown"
      BY <2>10
    <2>12. decQueue' = [decQueue EXCEPT ![d] = decQueue[d] \o sent]
      BY <1>7, <2>1, <2>10, AppendIsConcat
    <2> HIDE DEF m, sent
    <2>13. /\ Trail(d, sent, r) /\ OwnMessages(d, sent) /\ \A p : After(p, sent)
      BY <2>1, <2>11 DEF Trail, OwnMessages, Foreign, After
    <2>14. ASSUME NEW p \in Position, Below(d, p, dec[d]) PROVE Below(d, p, r)
      <3>1. NotAfter(p, dec[d].m_position) /\ NotAfter(dec[d].m_position, Head(f))
        BY <2>4, <2>7, <2>8, <2>14 DEF Below
      <3> QED
        BY <2>5, <2>7, <3>1, NotAfterOrder DEF Below
    <2>15. Passes(d, dec[d], r, sent)
      BY <2>13, <2>14 DEF Passes
    <2> QED
      BY <1>1, <1>7, <2>1, <2>2, <2>6, <2>9, <2>11, <2>12, <2>15, LineMoves
  <1>26. ASSUME NEW d \in Decoders, DecoderThread(d) \/ Pump(d) \/ Pull(d) PROVE Goal
    BY <1>16, <1>17, <1>18, <1>19, <1>20, <1>21, <1>22, <1>23, <1>24, <1>25, <1>26
    DEF DecoderThread
  <1> QED
    BY <1>4, <1>6, <1>26 DEF Next

\* The line when the player starts.
LEMMA InitLine == Init => LineInv
  <1> SUFFICES ASSUME Init PROVE LineInv
    OBVIOUS
  <1>1. m_position = Start /\ Start \in Position
    BY Positions DEF Init
  <1>2. NotAfter(Start, Start)
    BY <1>1, NotAfterOrder
  <1>3. ASSUME NEW d \in Decoders
        PROVE  /\ dec[d].m_decodedFrames = <<>> /\ dec[d].m_position = Start
               /\ dec[d].m_ahiSampleTimestamp = [i \in {0, 1} |-> Start]
               /\ muxer[d].next = Start
               /\ decQueue[d] = <<[op |-> "warmUp"]>>
    BY DEF Init
  <1>4. ASSUME NEW d \in Decoders PROVE Marks(d, dec[d]) = {Start}
    BY <1>3 DEF Marks
  <1>5. ASSUME NEW d \in Decoders
        PROVE  DOMAIN decQueue[d] = {1} /\ decQueue[d][1].op = "warmUp"
    BY <1>3
  <1>6. ASSUME NEW d \in Decoders
        PROVE  InLine(d, dec[d], decQueue[d], muxer[d].next)
    <2>1. FramesInLine(d, dec[d], muxer[d].next)
      BY <1>2, <1>3, <1>4 DEF FramesInLine
    <2>2. Trail(d, decQueue[d], dec[d]) /\ OwnMessages(d, decQueue[d])
      BY <1>5 DEF Trail, OwnMessages, Foreign
    <2> QED
      BY <2>1, <2>2 DEF InLine
  <1>7. Clock \in Decoders
    BY DecodersAssumption DEF Clock
  <1>8. Below(Clock, m_position, dec[Clock]) /\ After(m_position, decQueue[Clock])
    BY <1>1, <1>2, <1>4, <1>5, <1>7 DEF Below, After
  <1> QED
    BY <1>6, <1>8 DEF LineInv

\* PositionsInOrder of the specification: the position the container tells its
\* client (onDecoderUpdatedPosition) goes back only by a seek, for any media and
\* buffers, whatever positions wait in the decoder's queue while seeks flush the
\* buffers, pauses stop the output and the audio device is closed and reopened.
THEOREM PositionsGoForward == Spec => PositionsInOrder
  <1>1. Init => IndInv /\ LineInv
    BY InitInv, InitLine
  <1>2. ASSUME IndInv, LineInv, [Next]_vars
        PROVE  IndInv' /\ LineInv' /\ NotAfter(m_position, m_position')
    BY <1>2, Step, LineStep
  <1>3. ASSUME IndInv, IndInv', NotAfter(m_position, m_position')
        PROVE  \/ m_position'.run > m_position.run
               \/ /\ m_position'.run = m_position.run
                  /\ m_position'.pos >= m_position.pos
    <2>1. m_position \in Position /\ m_position' \in Position
      BY <1>3 DEF IndInv, TypeOK
    <2>2. /\ m_position.run \in 0 .. MaxSeeks /\ m_position.pos \in 0 .. Last + 1
          /\ m_position'.run \in 0 .. MaxSeeks /\ m_position'.pos \in 0 .. Last + 1
      BY <2>1, Positions
    <2> QED
      BY <1>3, <2>2, BoundsAssumption DEF NotAfter
  <1>4. IndInv /\ LineInv /\ [Next]_vars =>
          /\ IndInv' /\ LineInv'
          /\ [\/ m_position'.run > m_position.run
              \/ /\ m_position'.run = m_position.run
                 /\ m_position'.pos >= m_position.pos]_vars
    BY <1>2, <1>3
  <1> QED
    BY <1>1, <1>4, PTL DEF Spec, PositionsInOrder
===============================================================================
