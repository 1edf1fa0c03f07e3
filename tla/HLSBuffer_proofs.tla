--------------------------- MODULE HLSBuffer_proofs ---------------------------
(***************************************************************************)
(* Proofs about HLSBuffer for every number of chunks, failures and hanging *)
(* transfers: the types, and that chunks are read in the order of the      *)
(* playlist and none twice.                                                *)
(*                                                                         *)
(* The inductive invariant ChunkOrder puts all chunks the player knows in  *)
(* one line: the last chunk taken for reading, the prepared one, the one   *)
(* that is being prepared, the queue, m_mediaSequence.                     *)
(***************************************************************************)
EXTENDS HLSBuffer, SequenceTheorems, TLAPS

\* The Boolean part of TypeOK.
Flags ==
    /\ m_streamEnded \in BOOLEAN
    /\ m_hasMasterList \in BOOLEAN
    /\ m_playlistRefreshTimer \in BOOLEAN
    /\ m_stopping \in BOOLEAN
    /\ m_event \in BOOLEAN
    /\ serverEnded \in BOOLEAN

\* The rest of it.
Data ==
    /\ m_chunks \in Seq(Sequence)
    /\ m_mediaSequence \in Sequence \cup {-1}
    /\ m_chunkRequest \in Sequence \cup {None}
    /\ m_chunkRequestInRead \in Sequence \cup {None}
    /\ m_chunksRequestPreviouslyRead \subseteq Sequence
    /\ m_hlsRequest \in {"none", "master", "child"}
    /\ mpc \in {"idle", "load", "stop"}
    /\ loading \in Sequence \cup {None}
    /\ swallowed \in Nat
    /\ rpc \in {"idle", "loop", "chunk", "swap", "wait", "fail"}
    /\ result \in {"data", "EOF", "discontinuity", "error"}
    /\ lastRead \in Sequence \cup {None}
    /\ deadChunks \subseteq Sequence
    /\ stalled \subseteq Sequence
    /\ published \in Sequence
    /\ failures \in 0 .. MaxFailures

\* A reader that reads from a chunk has one.
ReadsAChunk == rpc = "chunk" => m_chunkRequestInRead # None

\* The two parts are the type invariant of HLSBuffer.
LEMMA TypeParts == TypeOK <=> Flags /\ Data
  BY Zenon DEF TypeOK, Flags, Data

\* A playlist that ends with a published chunk adds, in order, only chunks of
\* the stream after m_mediaSequence.
LEMMA NewChunksFacts ==
    ASSUME NEW first \in Sequence, NEW last \in Sequence,
           m_mediaSequence \in Sequence \cup {-1}
    PROVE  /\ NewChunks(first, last) \in Seq(Sequence)
           /\ \A k \in 1 .. Len(NewChunks(first, last)) :
                  /\ NewChunks(first, last)[k] > m_mediaSequence
                  /\ NewChunks(first, last)[k] <= last
           /\ \A j, k \in 1 .. Len(NewChunks(first, last)) :
                  j < k => NewChunks(first, last)[j] < NewChunks(first, last)[k]
  <1> DEFINE from == IF first > m_mediaSequence
                     THEN first ELSE m_mediaSequence + 1
             n == last - from + 1
             s == [k \in 1 .. n |-> from + k - 1]
  <1>1. /\ from \in Nat /\ from > m_mediaSequence
        /\ last \in Nat /\ last <= MaxSequence /\ n \in Int
    BY BoundsAssumption DEF Sequence
  <1>2. NewChunks(first, last) = s
    BY DEF NewChunks
  <1> HIDE DEF from
  <1>3. \A k \in 1 .. n : s[k] = from + k - 1 /\ s[k] \in Sequence
    BY <1>1, BoundsAssumption DEF Sequence
  <1> HIDE DEF n
  <1>4. s \in Seq(Sequence) /\ 1 .. Len(s) = 1 .. n
    <2>1. CASE n < 0
      <3>1. 1 .. n = {}
        BY <1>1, <2>1
      <3>2. s = <<>>
        BY <3>1
      <3>3. s \in Seq(Sequence) /\ Len(s) = 0
        BY <3>2, EmptySeq
      <3> HIDE DEF s
      <3> QED
        BY <3>1, <3>3
    <2>2. CASE n >= 0
      <3>1. n \in Nat /\ s \in [1 .. n -> Sequence]
        BY <1>1, <1>3, <2>2
      <3> QED
        BY <3>1
    <2>3. n < 0 \/ n >= 0
      BY <1>1
    <2> HIDE DEF s
    <2> QED
      BY <2>1, <2>2, <2>3
  <1>5. \A k \in 1 .. Len(s) : k \in 1 .. n
    BY <1>4
  <1>6. \A k \in 1 .. Len(s) : s[k] > m_mediaSequence /\ s[k] <= last
    <2> SUFFICES ASSUME NEW k \in 1 .. Len(s)
                 PROVE  s[k] > m_mediaSequence /\ s[k] <= last
      OBVIOUS
    <2>1. k \in 1 .. n /\ s[k] = from + k - 1
      BY <1>3, <1>5
    <2> QED
      BY <1>1, <2>1 DEF n, Sequence
  <1>7. \A j, k \in 1 .. Len(s) : j < k => s[j] < s[k]
    <2> SUFFICES ASSUME NEW j \in 1 .. Len(s), NEW k \in 1 .. Len(s), j < k
                 PROVE  s[j] < s[k]
      OBVIOUS
    <2>1. /\ j \in 1 .. n /\ s[j] = from + j - 1
          /\ k \in 1 .. n /\ s[k] = from + k - 1
      BY <1>3, <1>5
    <2> QED
      BY <1>1, <2>1
  <1> QED
    BY <1>2, <1>4, <1>6, <1>7

\* Every step keeps the flags Boolean.
LEMMA FlagsStep == Flags /\ [Next]_vars => Flags'
  <1> SUFFICES ASSUME Flags, [Next]_vars PROVE Flags'
    OBVIOUS
  <1> USE DEF Flags, streamVars, chunkVars, listVars, mainVars, readerVars,
              serverVars
  <1>1. CASE MasterPlaylistReceived
    BY <1>1, Zenon DEF MasterPlaylistReceived
  <1>2. CASE RefreshTimerFired
    BY <1>2, Zenon DEF RefreshTimerFired
  <1>3. CASE ChunkSwallowed
    <2>1. UNCHANGED <<m_streamEnded, listVars, m_stopping, m_event, serverVars>>
      BY <1>3 DEF ChunkSwallowed
    <2> QED
      BY <2>1, Zenon
  <1>4. CASE ChunkLoads
    BY <1>4, Zenon DEF ChunkLoads
  <1>5. CASE StopLocked
    BY <1>5, Zenon DEF StopLocked
  <1>6. CASE Stop
    BY <1>6, Zenon DEF Stop
  <1>7. CASE MasterPlaylistUnusable
    BY <1>7, Zenon DEF MasterPlaylistUnusable
  <1>8. CASE ChildPlaylistFails
    BY <1>8, Zenon DEF ChildPlaylistFails
  <1>9. CASE ServerPublishes
    BY <1>9, Zenon DEF ServerPublishes
  <1>10. CASE ServerEnds
    BY <1>10, Zenon DEF ServerEnds
  <1>11. CASE ChunkStalls
    BY <1>11, Zenon DEF ChunkStalls
  <1>12. CASE CallRead
    BY <1>12, Zenon DEF CallRead
  <1>13. CASE ReadLoop
    BY <1>13, Zenon DEF ReadLoop
  <1>14. CASE ReadsData
    BY <1>14, Zenon DEF ReadsData
  <1>15. CASE ReadsChunkEnd
    BY <1>15, Zenon DEF ReadsChunkEnd
  <1>16. CASE SwapChunk
    BY <1>16, Zenon DEF SwapChunk
  <1>17. CASE ReadWakes
    BY <1>17, Zenon DEF ReadWakes
  <1>18. CASE ReadFails
    BY <1>18, Zenon DEF ReadFails
  <1>19. CASE Finished
    BY <1>19, Zenon DEF Finished, vars
  <1>20. ASSUME NEW first \in Sequence, ChildPlaylistReceived(first)
         PROVE  Flags'
    BY <1>20, Zenon DEF ChildPlaylistReceived
  <1>21. CASE UNCHANGED vars
    BY <1>21, Zenon DEF vars
  <1> QED
    BY <1>1, <1>2, <1>3, <1>4, <1>5, <1>6, <1>7, <1>8, <1>9, <1>10, <1>11,
       <1>12, <1>13, <1>14, <1>15, <1>16, <1>17, <1>18, <1>19, <1>20, <1>21
       DEF Next, MainStep, InRead

\* Every step keeps queues, chunks and places in their types.
LEMMA DataStep == Data /\ ReadsAChunk /\ [Next]_vars => Data' /\ ReadsAChunk'
  <1> SUFFICES ASSUME Data, ReadsAChunk, [Next]_vars PROVE Data' /\ ReadsAChunk'
    OBVIOUS
  <1> USE DEF Data, ReadsAChunk, streamVars, chunkVars, listVars, mainVars, readerVars,
              serverVars
  <1>1. CASE MasterPlaylistReceived
    BY <1>1, BoundsAssumption DEF MasterPlaylistReceived, None, Sequence
  <1>2. CASE RefreshTimerFired
    BY <1>2, BoundsAssumption DEF RefreshTimerFired, None, Sequence
  <1>3. CASE ChunkSwallowed
    <2>1. /\ m_chunks' \in Seq(Sequence)
          /\ loading' \in Sequence \cup {None}
          /\ mpc' \in {"idle", "load", "stop"}
      BY <1>3, HeadTailProperties DEF ChunkSwallowed, Loads
    <2> QED
      BY <1>3, <2>1 DEF ChunkSwallowed
  <1>4. CASE ChunkLoads
    BY <1>4, BoundsAssumption DEF ChunkLoads, None, Sequence
  <1>5. CASE StopLocked
    BY <1>5, BoundsAssumption DEF StopLocked, None, Sequence
  <1>6. CASE Stop
    BY <1>6, BoundsAssumption DEF Stop, None, Sequence
  <1>7. CASE MasterPlaylistUnusable
    BY <1>7, BoundsAssumption DEF MasterPlaylistUnusable, None, Sequence
  <1>8. CASE ChildPlaylistFails
    BY <1>8, BoundsAssumption DEF ChildPlaylistFails, None, Sequence
  <1>9. CASE ServerPublishes
    BY <1>9, BoundsAssumption DEF ServerPublishes, None, Sequence
  <1>10. CASE ServerEnds
    BY <1>10, BoundsAssumption DEF ServerEnds, None, Sequence
  <1>11. CASE ChunkStalls
    BY <1>11, BoundsAssumption DEF ChunkStalls, None, Sequence
  <1>12. CASE CallRead
    BY <1>12, BoundsAssumption DEF CallRead, None, Sequence
  <1>13. CASE ReadLoop
    BY <1>13, BoundsAssumption DEF ReadLoop, None, Sequence
  <1>14. CASE ReadsData
    BY <1>14, BoundsAssumption DEF ReadsData, None, Sequence
  <1>15. CASE ReadsChunkEnd
    BY <1>15, BoundsAssumption DEF ReadsChunkEnd, None, Sequence
  <1>16. CASE SwapChunk
    BY <1>16, BoundsAssumption DEF SwapChunk, None, Sequence
  <1>17. CASE ReadWakes
    BY <1>17, BoundsAssumption DEF ReadWakes, None, Sequence
  <1>18. CASE ReadFails
    BY <1>18, BoundsAssumption DEF ReadFails, None, Sequence
  <1>19. CASE Finished
    BY <1>19, BoundsAssumption DEF Finished, vars, None, Sequence
  <1>20. ASSUME NEW first \in Sequence, ChildPlaylistReceived(first)
         PROVE  Data' /\ ReadsAChunk'
    <2> DEFINE all == m_chunks \o NewChunks(first, published)
    <2>1. NewChunks(first, published) \in Seq(Sequence)
      BY NewChunksFacts
    <2>2. all \in Seq(Sequence)
      BY <2>1, ConcatProperties
    <2> HIDE DEF all
    <2>3. /\ m_chunks' \in Seq(Sequence)
          /\ loading' \in Sequence \cup {None}
          /\ mpc' \in {"idle", "load", "stop"}
      <3>1. CASE all # <<>> /\ m_chunkRequest = None
        BY <1>20, <2>2, <3>1, HeadTailProperties
           DEF ChildPlaylistReceived, Loads, all
      <3>2. CASE ~(all # <<>> /\ m_chunkRequest = None)
        BY <1>20, <2>2, <3>2 DEF ChildPlaylistReceived, all
      <3> QED
        BY <3>1, <3>2
    <2> QED
      BY <1>20, <2>3 DEF ChildPlaylistReceived
  <1>21. CASE UNCHANGED vars
    BY <1>21, BoundsAssumption DEF vars, None, Sequence
  <1> QED
    BY <1>1, <1>2, <1>3, <1>4, <1>5, <1>6, <1>7, <1>8, <1>9, <1>10, <1>11,
       <1>12, <1>13, <1>14, <1>15, <1>16, <1>17, <1>18, <1>19, <1>20, <1>21
       DEF Next, MainStep, InRead

\* The chunks in a line: every queued chunk comes after what is prepared, being
\* prepared and was read last, the queue increases, and m_mediaSequence is the
\* latest chunk of all.  (None is below every chunk.)
ChunkOrder ==
    /\ mpc = "load" <=> loading # None
    /\ m_chunkRequest # None => lastRead < m_chunkRequest
    /\ loading # None => lastRead < loading /\ m_chunkRequest < loading
    /\ lastRead <= m_mediaSequence /\ m_chunkRequest <= m_mediaSequence
    /\ loading <= m_mediaSequence
    /\ \A k \in 1 .. Len(m_chunks) :
           /\ lastRead < m_chunks[k] /\ m_chunkRequest < m_chunks[k]
           /\ loading < m_chunks[k] /\ m_chunks[k] <= m_mediaSequence
    /\ \A j, k \in 1 .. Len(m_chunks) : j < k => m_chunks[j] < m_chunks[k]

\* A queued chunk is a number, and not None.
LEMMA ChunksAreNumbers ==
    ASSUME NEW q \in Seq(Sequence), NEW k \in 1 .. Len(q)
    PROVE  q[k] \in Sequence /\ q[k] \in Int /\ None < q[k]
  <1>1. q[k] \in Sequence
    BY ElementOfSeq
  <1>2. \A c \in Sequence : c \in Int /\ None < c
    BY BoundsAssumption DEF Sequence, None
  <1> QED
    BY <1>1, <1>2

\* Merging a playlist leaves one increasing queue beyond low and up to high.
LEMMA MergeFacts ==
    ASSUME NEW q \in Seq(Sequence), NEW r \in Seq(Sequence),
           NEW low \in Int, NEW mid \in Int, NEW high \in Int,
           low <= mid, mid <= high,
           \A k \in 1 .. Len(q) : low < q[k] /\ q[k] <= mid,
           \A j, k \in 1 .. Len(q) : j < k => q[j] < q[k],
           \A k \in 1 .. Len(r) : mid < r[k] /\ r[k] <= high,
           \A j, k \in 1 .. Len(r) : j < k => r[j] < r[k]
    PROVE  /\ q \o r \in Seq(Sequence)
           /\ \A k \in 1 .. Len(q \o r) : low < (q \o r)[k] /\ (q \o r)[k] <= high
           /\ \A j, k \in 1 .. Len(q \o r) : j < k => (q \o r)[j] < (q \o r)[k]
  <1> DEFINE s == q \o r
  <1>1. /\ s \in Seq(Sequence)
        /\ Len(s) = Len(q) + Len(r) /\ Len(q) \in Nat /\ Len(r) \in Nat
        /\ \A k \in 1 .. Len(q) : s[k] = q[k]
        /\ \A k \in Len(q) + 1 .. Len(s) :
              k - Len(q) \in 1 .. Len(r) /\ s[k] = r[k - Len(q)]
    BY ConcatProperties
  <1>2. \A k \in 1 .. Len(q) : q[k] \in Int
    BY ChunksAreNumbers
  <1>3. \A k \in 1 .. Len(r) : r[k] \in Int
    BY ChunksAreNumbers
  <1> HIDE DEF s
  <1>4. ASSUME NEW k \in 1 .. Len(s)
        PROVE  low < s[k] /\ s[k] <= high
    <2>1. CASE k <= Len(q)
      <3>1. k \in 1 .. Len(q) /\ s[k] = q[k]
        BY <1>1, <2>1
      <3> QED
        BY <1>2, <3>1
    <2>2. CASE k > Len(q)
      <3>1. k - Len(q) \in 1 .. Len(r) /\ s[k] = r[k - Len(q)]
        BY <1>1, <2>2
      <3> QED
        BY <1>3, <3>1
    <2> QED
      BY <1>1, <2>1, <2>2
  <1>5. ASSUME NEW j \in 1 .. Len(s), NEW k \in 1 .. Len(s), j < k
        PROVE  s[j] < s[k]
    <2>1. CASE k <= Len(q)
      <3>1. /\ j \in 1 .. Len(q) /\ s[j] = q[j]
            /\ k \in 1 .. Len(q) /\ s[k] = q[k]
        BY <1>1, <1>5, <2>1
      <3> QED
        BY <1>5, <3>1
    <2>2. CASE j > Len(q)
      <3>1. /\ j - Len(q) \in 1 .. Len(r) /\ s[j] = r[j - Len(q)]
            /\ k - Len(q) \in 1 .. Len(r) /\ s[k] = r[k - Len(q)]
            /\ j - Len(q) < k - Len(q)
        BY <1>1, <1>5, <2>2
      <3> QED
        BY <3>1
    <2>3. CASE j <= Len(q) /\ k > Len(q)
      <3>1. s[j] = q[j] /\ j \in 1 .. Len(q)
        BY <1>1, <2>3
      <3>2. s[k] = r[k - Len(q)] /\ k - Len(q) \in 1 .. Len(r)
        BY <1>1, <2>3
      <3> QED
        BY <1>2, <1>3, <3>1, <3>2
    <2> QED
      BY <1>1, <2>1, <2>2, <2>3
  <1> QED
    BY <1>1, <1>4, <1>5 DEF s

\* The first chunk of an increasing queue is below the rest.
LEMMA HeadIsLowest ==
    ASSUME NEW q \in Seq(Sequence), q # <<>>,
           \A j, k \in 1 .. Len(q) : j < k => q[j] < q[k]
    PROVE  /\ Head(q) = q[1] /\ 1 \in 1 .. Len(q)
           /\ Tail(q) \in Seq(Sequence)
           /\ \A k \in 1 .. Len(Tail(q)) :
                  /\ k + 1 \in 1 .. Len(q) /\ Tail(q)[k] = q[k + 1]
                  /\ Head(q) < Tail(q)[k]
           /\ \A j, k \in 1 .. Len(Tail(q)) : j < k => Tail(q)[j] < Tail(q)[k]
  <1>1. Len(q) \in Nat \ {0}
    BY EmptySeq
  <1>2. /\ Head(q) = q[1] /\ 1 \in 1 .. Len(q)
        /\ Tail(q) \in Seq(Sequence)
        /\ \A k \in 1 .. Len(Tail(q)) :
               k + 1 \in 1 .. Len(q) /\ Tail(q)[k] = q[k + 1]
    BY <1>1, HeadTailProperties
  <1>3. ASSUME NEW k \in 1 .. Len(Tail(q)) PROVE Head(q) < Tail(q)[k]
    <2>1. k + 1 \in 1 .. Len(q) /\ 1 < k + 1
      BY <1>1, <1>2
    <2> QED
      BY <1>2, <2>1
  <1>4. ASSUME NEW j \in 1 .. Len(Tail(q)), NEW k \in 1 .. Len(Tail(q)), j < k
        PROVE  Tail(q)[j] < Tail(q)[k]
    <2>1. j + 1 \in 1 .. Len(q) /\ k + 1 \in 1 .. Len(q) /\ j + 1 < k + 1
      BY <1>2, <1>4
    <2> QED
      BY <1>2, <2>1
  <1> QED
    BY <1>2, <1>3, <1>4

\* Taking the first of an increasing queue of later chunks keeps the line.
LEMMA LoadsInOrder ==
    ASSUME Data, ChunkOrder, loading = None,
           NEW q \in Seq(Sequence), q # <<>>,
           \A k \in 1 .. Len(q) :
               /\ lastRead < q[k] /\ m_chunkRequest < q[k]
               /\ q[k] <= m_mediaSequence',
           \A j, k \in 1 .. Len(q) : j < k => q[j] < q[k],
           m_mediaSequence' \in Sequence,
           m_mediaSequence <= m_mediaSequence',
           Loads(q), UNCHANGED <<m_chunkRequest, lastRead>>
    PROVE  ChunkOrder'
  <1>1. /\ m_chunks' = Tail(q) /\ loading' = q[1] /\ mpc' = "load"
        /\ 1 \in 1 .. Len(q)
    BY HeadIsLowest DEF Loads
  <1>2. loading' # None /\ loading' \in Sequence
    BY <1>1, ChunksAreNumbers DEF None
  <1>3. \A k \in 1 .. Len(m_chunks') :
            /\ lastRead < m_chunks'[k] /\ m_chunkRequest < m_chunks'[k]
            /\ loading' < m_chunks'[k] /\ m_chunks'[k] <= m_mediaSequence'
    BY <1>1, HeadIsLowest
  <1>4. \A j, k \in 1 .. Len(m_chunks') : j < k => m_chunks'[j] < m_chunks'[k]
    BY <1>1, HeadIsLowest
  <1>5. /\ lastRead < loading' /\ m_chunkRequest < loading'
        /\ loading' <= m_mediaSequence'
    BY <1>1
  <1>6. lastRead <= m_mediaSequence' /\ m_chunkRequest <= m_mediaSequence'
    BY BoundsAssumption DEF Data, ChunkOrder, Sequence, None
  <1> QED
    BY <1>1, <1>2, <1>3, <1>4, <1>5, <1>6 DEF ChunkOrder

\* Every step keeps the chunks in line.
LEMMA OrderStep == Data /\ Data' /\ ChunkOrder /\ [Next]_vars => ChunkOrder'
  <1> SUFFICES ASSUME Data, Data', ChunkOrder, [Next]_vars PROVE ChunkOrder'
    OBVIOUS
  <1> USE DEF streamVars, chunkVars, listVars, mainVars, readerVars,
              serverVars
  <1>1. CASE MasterPlaylistReceived
    BY <1>1 DEF MasterPlaylistReceived, ChunkOrder
  <1>2. CASE RefreshTimerFired
    BY <1>2 DEF RefreshTimerFired, ChunkOrder
  <1>3. CASE ChunkSwallowed
    <2>1. loading = None /\ UNCHANGED <<m_mediaSequence, m_chunkRequest, lastRead>>
      BY <1>3 DEF ChunkSwallowed, ChunkOrder
    <2>2. CASE m_chunks # <<>>
      <3>1. Loads(m_chunks) /\ m_chunks \in Seq(Sequence)
        BY <1>3, <2>2 DEF ChunkSwallowed, Data
      <3>2. m_mediaSequence \in Sequence
        <4>1. 1 \in 1 .. Len(m_chunks) /\ m_chunks[1] \in Sequence
          BY <2>2, <3>1, HeadIsLowest DEF ChunkOrder
        <4>2. m_chunks[1] <= m_mediaSequence
          BY <4>1 DEF ChunkOrder
        <4> QED
          BY <4>1, <4>2, BoundsAssumption DEF Data, Sequence
      <3>3. m_mediaSequence <= m_mediaSequence
        BY <3>2, BoundsAssumption DEF Sequence
      <3> QED
        BY <2>1, <2>2, <3>1, <3>2, <3>3, LoadsInOrder DEF ChunkOrder
    <2>3. CASE m_chunks = <<>>
      BY <1>3, <2>1, <2>3 DEF ChunkSwallowed, ChunkOrder
    <2> QED
      BY <2>2, <2>3
  <1>4. CASE ChunkLoads
    <2>1. /\ lastRead \in Int /\ m_chunkRequest \in Int /\ loading \in Int
          /\ m_mediaSequence \in Int
      BY BoundsAssumption DEF Data, None, Sequence
    <2>2. \A k \in 1 .. Len(m_chunks) : m_chunks[k] \in Int /\ None < m_chunks[k]
      BY ChunksAreNumbers DEF Data
    <2>3. /\ m_chunkRequest' = loading /\ loading' = None /\ mpc' = "idle"
          /\ UNCHANGED <<m_chunks, m_mediaSequence, lastRead>> /\ loading # None
      BY <1>4 DEF ChunkLoads, ChunkOrder
    <2>4. None <= m_mediaSequence
      BY <2>1, BoundsAssumption DEF Data, None, Sequence
    <2> QED
      BY <2>1, <2>2, <2>3, <2>4 DEF ChunkOrder
  <1>5. CASE StopLocked
    BY <1>5 DEF StopLocked, Data, None, Sequence, ChunkOrder
  <1>6. CASE Stop
    BY <1>6 DEF Stop, ChunkOrder
  <1>7. CASE MasterPlaylistUnusable
    BY <1>7 DEF MasterPlaylistUnusable, ChunkOrder
  <1>8. CASE ChildPlaylistFails
    BY <1>8 DEF ChildPlaylistFails, ChunkOrder
  <1>9. CASE ServerPublishes
    BY <1>9 DEF ServerPublishes, ChunkOrder
  <1>10. CASE ServerEnds
    BY <1>10 DEF ServerEnds, ChunkOrder
  <1>11. CASE ChunkStalls
    BY <1>11 DEF ChunkStalls, ChunkOrder
  <1>12. CASE CallRead
    BY <1>12 DEF CallRead, ChunkOrder
  <1>13. CASE ReadLoop
    BY <1>13 DEF ReadLoop, ChunkOrder
  <1>14. CASE ReadsData
    BY <1>14 DEF ReadsData, ChunkOrder
  <1>15. CASE ReadsChunkEnd
    BY <1>15 DEF ReadsChunkEnd, ChunkOrder
  <1>16. CASE SwapChunk
    <2>1. \A k \in 1 .. Len(m_chunks) : m_chunks[k] \in Int /\ None < m_chunks[k]
      BY ChunksAreNumbers DEF Data
    <2>2. None <= m_mediaSequence
      BY BoundsAssumption DEF Data, None, Sequence
    <2>3. None < loading \/ loading = None
      BY BoundsAssumption DEF Data, None, Sequence
    <2>4. /\ m_chunkRequest' = None
          /\ UNCHANGED <<m_chunks, m_mediaSequence, mpc, loading>>
      BY <1>16 DEF SwapChunk
    <2>5. CASE m_chunkRequest = None
      BY <1>16, <2>4, <2>5 DEF SwapChunk, ChunkOrder
    <2>6. CASE m_chunkRequest # None
      <3>1. lastRead' = m_chunkRequest
        BY <1>16, <2>6 DEF SwapChunk
      <3> QED
        BY <2>1, <2>2, <2>3, <2>4, <3>1 DEF ChunkOrder
    <2> QED
      BY <2>5, <2>6
  <1>17. CASE ReadWakes
    BY <1>17 DEF ReadWakes, ChunkOrder
  <1>18. CASE ReadFails
    BY <1>18 DEF ReadFails, ChunkOrder
  <1>19. CASE Finished
    BY <1>19 DEF Finished, vars, ChunkOrder
  <1>20. ASSUME NEW first \in Sequence, ChildPlaylistReceived(first)
         PROVE  ChunkOrder'
    <2> DEFINE new == NewChunks(first, published)
               all == m_chunks \o new
               low == IF lastRead > m_chunkRequest
                      THEN lastRead ELSE m_chunkRequest
    <2>1. loading = None
      BY <1>20 DEF ChildPlaylistReceived, ChunkOrder
    <2>2. /\ m_mediaSequence' = IF published > m_mediaSequence
                                THEN published ELSE m_mediaSequence
          /\ published \in Sequence /\ first <= published
          /\ UNCHANGED <<m_chunkRequest, lastRead>>
      BY <1>20 DEF ChildPlaylistReceived, Data
    <2>3. /\ m_mediaSequence \in Int /\ m_mediaSequence' \in Int
          /\ m_mediaSequence <= m_mediaSequence'
          /\ m_mediaSequence' \in Sequence
          /\ published <= m_mediaSequence'
          /\ lastRead \in Int /\ m_chunkRequest \in Int
      BY <2>2, BoundsAssumption DEF Data, Sequence, None
    <2>4. /\ low \in Int /\ low <= m_mediaSequence
          /\ \A x \in Int : low < x => lastRead < x /\ m_chunkRequest < x
      BY <2>3 DEF ChunkOrder
    <2>5. /\ new \in Seq(Sequence)
          /\ \A k \in 1 .. Len(new) :
                 m_mediaSequence < new[k] /\ new[k] <= m_mediaSequence'
          /\ \A j, k \in 1 .. Len(new) : j < k => new[j] < new[k]
      <3>1. /\ new \in Seq(Sequence)
            /\ \A k \in 1 .. Len(new) :
                   new[k] > m_mediaSequence /\ new[k] <= published
            /\ \A j, k \in 1 .. Len(new) : j < k => new[j] < new[k]
        BY <2>2, NewChunksFacts DEF Data
      <3> HIDE DEF new
      <3>2. \A k \in 1 .. Len(new) : new[k] \in Int
        BY <3>1, ChunksAreNumbers
      <3>3. published \in Int
        BY <2>2 DEF Sequence
      <3> QED
        BY <2>3, <3>1, <3>2, <3>3
    <2>6. /\ m_chunks \in Seq(Sequence)
          /\ \A k \in 1 .. Len(m_chunks) :
                 low < m_chunks[k] /\ m_chunks[k] <= m_mediaSequence
          /\ \A j, k \in 1 .. Len(m_chunks) : j < k => m_chunks[j] < m_chunks[k]
      BY DEF ChunkOrder, Data
    <2> HIDE DEF new, low
    <2>7. /\ all \in Seq(Sequence)
          /\ \A k \in 1 .. Len(all) :
                 low < all[k] /\ all[k] <= m_mediaSequence'
          /\ \A j, k \in 1 .. Len(all) : j < k => all[j] < all[k]
      BY <2>3, <2>4, <2>5, <2>6, MergeFacts
    <2> HIDE DEF all
    <2>8. \A k \in 1 .. Len(all) :
              /\ lastRead < all[k] /\ m_chunkRequest < all[k]
              /\ all[k] <= m_mediaSequence'
      <3>1. \A k \in 1 .. Len(all) : all[k] \in Int
        BY <2>7, ChunksAreNumbers
      <3> QED
        BY <2>4, <2>7, <3>1
    <2>9. CASE all # <<>> /\ m_chunkRequest = None
      <3>1. Loads(all)
        BY <1>20, <2>9 DEF ChildPlaylistReceived, all, new
      <3> QED
        BY <2>1, <2>2, <2>3, <2>7, <2>8, <2>9, <3>1, LoadsInOrder
    <2>10. CASE ~(all # <<>> /\ m_chunkRequest = None)
      <3>1. m_chunks' = all /\ UNCHANGED <<mpc, loading>>
        BY <1>20, <2>10 DEF ChildPlaylistReceived, all, new
      <3>2. /\ lastRead <= m_mediaSequence' /\ m_chunkRequest <= m_mediaSequence'
            /\ loading <= m_mediaSequence'
        BY <2>1, <2>3 DEF ChunkOrder, None
      <3>3. \A k \in 1 .. Len(all) : loading < all[k]
        BY <2>1, <2>7, ChunksAreNumbers
      <3> QED
        BY <2>1, <2>2, <2>7, <2>8, <3>1, <3>2, <3>3 DEF ChunkOrder
    <2> QED
      BY <2>9, <2>10
  <1>21. CASE UNCHANGED vars
    BY <1>21 DEF vars, ChunkOrder
  <1> QED
    BY <1>1, <1>2, <1>3, <1>4, <1>5, <1>6, <1>7, <1>8, <1>9, <1>10, <1>11,
       <1>12, <1>13, <1>14, <1>15, <1>16, <1>17, <1>18, <1>19, <1>20, <1>21
       DEF Next, MainStep, InRead

\* The inductive invariant.
IndInv == TypeOK /\ ReadsAChunk /\ ChunkOrder

\* The buffer after start() satisfies it, and every step keeps it.
THEOREM Inductive == Spec => []IndInv
  <1>1. Init => IndInv
    <2> SUFFICES ASSUME Init PROVE IndInv
      OBVIOUS
    <2>1. Flags
      BY Zenon DEF Init, Flags
    <2>2. Data
      BY BoundsAssumption DEF Init, Data, None, Sequence
    <2>3. ReadsAChunk /\ ChunkOrder
      BY DEF Init, ReadsAChunk, ChunkOrder, None
    <2> QED
      BY <2>1, <2>2, <2>3, TypeParts DEF IndInv
  <1>2. IndInv /\ [Next]_vars => IndInv'
    <2> SUFFICES ASSUME IndInv, [Next]_vars PROVE IndInv'
      OBVIOUS
    <2>1. Flags /\ Data
      BY TypeParts DEF IndInv
    <2>2. Flags' /\ Data' /\ ReadsAChunk'
      BY <2>1, FlagsStep, DataStep DEF IndInv
    <2>3. TypeOK'
      BY <2>2, Zenon DEF TypeOK, Flags, Data
    <2> QED
      BY <2>1, <2>2, <2>3, OrderStep DEF IndInv
  <1> QED
    BY <1>1, <1>2, PTL DEF Spec

\* The chunks, requests and places of HLS buffer and stream keep their types;
\* in particular a merged playlist never adds a chunk the server has not got.
THEOREM TypeCorrect == Spec => []TypeOK
  <1>1. IndInv => TypeOK
    BY DEF IndInv
  <1> QED
    BY <1>1, Inductive, PTL

\* The reader goes through the chunks in the order of the playlist and reads
\* none twice, however refreshes overlap with queued, prepared and read chunks.
THEOREM ChunksAreReadInOrder == Spec => ChunksIncrease
  <1>1. IndInv /\ [Next]_vars
          => [m_chunkRequestInRead' \notin {None, m_chunkRequestInRead}
                => m_chunkRequestInRead' > lastRead]_vars
    <2> SUFFICES ASSUME IndInv, [Next]_vars,
                        m_chunkRequestInRead' # None,
                        m_chunkRequestInRead' # m_chunkRequestInRead
                 PROVE  m_chunkRequestInRead' > lastRead
      OBVIOUS
    <2>1. Data /\ ChunkOrder
      BY TypeParts DEF IndInv
    <2>2. SwapChunk
      BY DEF Next, MainStep, InRead, MasterPlaylistReceived, RefreshTimerFired,
         ChunkSwallowed, ChunkLoads, StopLocked, Stop, MasterPlaylistUnusable,
         ChildPlaylistReceived, ChildPlaylistFails, ServerPublishes, ServerEnds,
         ChunkStalls, CallRead, ReadLoop, ReadsData, ReadsChunkEnd, ReadWakes,
         ReadFails, Finished, vars, chunkVars
    <2>3. m_chunkRequestInRead' = m_chunkRequest /\ m_chunkRequest # None
      BY <2>2 DEF SwapChunk
    <2> QED
      BY <2>1, <2>3, BoundsAssumption DEF ChunkOrder, Data, Sequence, None
  <1> QED
    BY <1>1, Inductive, PTL DEF Spec, ChunksIncrease

===============================================================================
