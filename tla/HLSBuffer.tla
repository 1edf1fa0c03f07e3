------------------------------ MODULE HLSBuffer ------------------------------
(***************************************************************************)
(* AcinerellaNetworkBufferHLS and HLSStream: the main thread fetches and   *)
(* refreshes playlists and prepares one chunk ahead; the Acinerella thread *)
(* reads chunk after chunk.                                                *)
(*                                                                         *)
(* A chunk is its media sequence number.  A chunk's own network buffer is  *)
(* the subject of NetworkBuffer; here reading it gives data or its end,    *)
(* unless its server never answers, which only die() overcomes.            *)
(***************************************************************************)
EXTENDS Integers, Sequences, FiniteSets

CONSTANTS
    MaxSequence,  \* bound: chunks the server ever publishes, from 0
    MaxFailures,  \* bound: child playlist requests that fail
    MaxStalls     \* bound: chunks whose transfer hangs

ASSUME BoundsAssumption ==
    MaxSequence \in Nat /\ MaxFailures \in Nat /\ MaxStalls \in Nat

None == -1
Sequence == 0 .. MaxSequence

VARIABLES
    m_chunks,             \* HLSStream: chunks not requested yet
    m_mediaSequence,      \* HLSStream: the last chunk it was given
    m_streamEnded,        \* HLSStream::m_ended
    m_chunkRequest,       \* the chunk prepared for the reader, or None
    m_chunkRequestInRead, \* the chunk being read, or None
    m_chunksRequestPreviouslyRead,
    m_hlsRequest,         \* the playlist being fetched
    m_hasMasterList,
    m_playlistRefreshTimer,
    m_stopping,
    m_event,
    mpc, loading,         \* the main thread's place, and its new chunk
    swallowed,            \* chunkSwallowed calls posted to the main thread
    rpc,                  \* the reader's place in read()
    result,               \* what read() returned last
    deadChunks,           \* chunks that were told to stop or to die
    stalled,              \* chunks whose transfer hangs
    lastRead,             \* the last chunk taken for reading
    published, serverEnded, failures

streamVars == <<m_chunks, m_mediaSequence, m_streamEnded>>
chunkVars  == <<m_chunkRequest, m_chunkRequestInRead,
                m_chunksRequestPreviouslyRead, deadChunks>>
listVars   == <<m_hlsRequest, m_hasMasterList, m_playlistRefreshTimer>>
mainVars   == <<mpc, loading>>
readerVars == <<rpc, result, lastRead>>
serverVars == <<published, serverEnded, stalled, failures>>
vars == <<streamVars, chunkVars, listVars, m_stopping, m_event, mainVars,
          swallowed, readerVars, serverVars>>

TypeOK ==
    /\ m_chunks \in Seq(Sequence)
    /\ m_mediaSequence \in Sequence \cup {-1}
    /\ m_streamEnded \in BOOLEAN
    /\ m_chunkRequest \in Sequence \cup {None}
    /\ m_chunkRequestInRead \in Sequence \cup {None}
    /\ m_chunksRequestPreviouslyRead \subseteq Sequence
    /\ m_hlsRequest \in {"none", "master", "child"}
    /\ m_hasMasterList \in BOOLEAN
    /\ m_playlistRefreshTimer \in BOOLEAN
    /\ m_stopping \in BOOLEAN
    /\ m_event \in BOOLEAN
    /\ mpc \in {"idle", "load", "stop"}
    /\ loading \in Sequence \cup {None}
    /\ swallowed \in Nat
    /\ rpc \in {"idle", "loop", "chunk", "swap", "wait", "fail"}
    /\ result \in {"data", "EOF", "discontinuity", "error"}
    /\ lastRead \in Sequence \cup {None}
    /\ deadChunks \subseteq Sequence
    /\ stalled \subseteq Sequence
    /\ published \in Sequence
    /\ serverEnded \in BOOLEAN
    /\ failures \in 0 .. MaxFailures

\* start() has asked for the master playlist.
Init ==
    /\ m_chunks = <<>>
    /\ m_mediaSequence = -1
    /\ m_streamEnded = FALSE
    /\ m_chunkRequest = None
    /\ m_chunkRequestInRead = None
    /\ m_chunksRequestPreviouslyRead = {}
    /\ m_hlsRequest = "master"
    /\ m_hasMasterList = FALSE
    /\ m_playlistRefreshTimer = FALSE
    /\ m_stopping = FALSE
    /\ m_event = FALSE
    /\ mpc = "idle" /\ loading = None
    /\ swallowed = 0
    /\ rpc = "idle" /\ result = "data" /\ lastRead = None
    /\ deadChunks = {} /\ stalled = {}
    /\ published = 0 /\ serverEnded = FALSE
    /\ failures = 0

(***************************************************************************)
(* The server.                                                             *)
(***************************************************************************)

ServerPublishes ==
    /\ ~serverEnded /\ published < MaxSequence
    /\ published' = published + 1
    /\ UNCHANGED <<streamVars, chunkVars, listVars, m_stopping, m_event,
                   mainVars, swallowed, readerVars, serverEnded, stalled,
                   failures>>

ServerEnds ==
    /\ ~serverEnded
    /\ serverEnded' = TRUE
    /\ UNCHANGED <<streamVars, chunkVars, listVars, m_stopping, m_event,
                   mainVars, swallowed, readerVars, published, stalled,
                   failures>>

ChunkStalls ==
    /\ m_chunkRequestInRead # None
    /\ m_chunkRequestInRead \notin stalled
    /\ Cardinality(stalled) < MaxStalls
    /\ stalled' = stalled \cup {m_chunkRequestInRead}
    /\ UNCHANGED <<streamVars, chunkVars, listVars, m_stopping, m_event,
                   mainVars, swallowed, readerVars, published, serverEnded,
                   failures>>

(***************************************************************************)
(* Main thread.                                                            *)
(***************************************************************************)

\* masterPlaylistReceived: the selected stream's playlist is next ...
MasterPlaylistReceived ==
    /\ mpc = "idle" /\ m_hlsRequest = "master"
    /\ m_hasMasterList' = TRUE
    /\ m_hlsRequest' = "child"
    /\ UNCHANGED <<streamVars, chunkVars, m_playlistRefreshTimer, m_stopping,
                   m_event, mainVars, swallowed, readerVars, serverVars>>

\* ... or there is none: the request failed or lists no stream.
MasterPlaylistUnusable ==
    /\ mpc = "idle" /\ m_hlsRequest = "master"
    /\ m_hasMasterList' \in BOOLEAN
    /\ m_hlsRequest' = "none"
    /\ UNCHANGED <<streamVars, chunkVars, m_playlistRefreshTimer, m_stopping,
                   m_event, mainVars, swallowed, readerVars, serverVars>>

\* Mutant: every chunk of the playlist is appended again.
NewChunksRepeats(first, last) == [k \in 1 .. last - first + 1 |-> first + k - 1]

\* Mutant: one chunk more than the playlist has.
NewChunksOneTooMany(first, last) ==
    LET from == IF first > m_mediaSequence THEN first ELSE m_mediaSequence + 1
    IN  [k \in 1 .. last - from + 2 |-> from + k - 1]

\* HLSStream::operator+= with a playlist of the chunks first .. last: the ones
\* after m_mediaSequence are appended.
NewChunks(first, last) ==
    LET from == IF first > m_mediaSequence THEN first ELSE m_mediaSequence + 1
    IN  [k \in 1 .. last - from + 1 |-> from + k - 1]

\* The first of the chunks is popped and its transfer created.
Loads(chunks) ==
    /\ m_chunks' = Tail(chunks)
    /\ loading' = Head(chunks)
    /\ mpc' = "load"

\* childPlaylistReceived: merge, take the first chunk if none is prepared, and
\* refresh later unless the stream has ended.
ChildPlaylistReceived(first) ==
    /\ mpc = "idle" /\ m_hlsRequest = "child"
    /\ first <= published
    /\ LET chunks == m_chunks \o NewChunks(first, published)
       IN  IF chunks # <<>> /\ m_chunkRequest = None
           THEN Loads(chunks)
           ELSE m_chunks' = chunks /\ UNCHANGED mainVars
    /\ m_mediaSequence' = IF published > m_mediaSequence
                          THEN published ELSE m_mediaSequence
    /\ m_streamEnded' = serverEnded
    /\ m_hlsRequest' = "none"
    /\ m_playlistRefreshTimer' = ~serverEnded
    /\ UNCHANGED <<chunkVars, m_hasMasterList, m_stopping, m_event,
                   swallowed, readerVars, serverVars>>

\* Mutant: a failed refresh is the last one.
ChildPlaylistFailsForGood ==
    /\ mpc = "idle" /\ m_hlsRequest = "child"
    /\ failures < MaxFailures
    /\ failures' = failures + 1
    /\ m_hlsRequest' = "none"
    /\ UNCHANGED <<streamVars, chunkVars, m_hasMasterList,
                   m_playlistRefreshTimer, m_stopping, m_event, mainVars,
                   swallowed, readerVars, published, serverEnded, stalled>>

\* childPlaylistReceived(false): the refresh timer is started all the same.
ChildPlaylistFails ==
    /\ mpc = "idle" /\ m_hlsRequest = "child"
    /\ failures < MaxFailures
    /\ failures' = failures + 1
    /\ m_hlsRequest' = "none"
    /\ m_playlistRefreshTimer' = ~m_streamEnded
    /\ UNCHANGED <<streamVars, chunkVars, m_hasMasterList, m_stopping,
                   m_event, mainVars, swallowed, readerVars, published,
                   serverEnded, stalled>>

\* refreshTimerFired, which stop() does not prevent.
RefreshTimerFired ==
    /\ mpc = "idle" /\ m_playlistRefreshTimer
    /\ m_playlistRefreshTimer' = FALSE
    /\ m_hlsRequest' = "child"
    /\ UNCHANGED <<streamVars, chunkVars, m_hasMasterList, m_stopping,
                   m_event, mainVars, swallowed, readerVars, serverVars>>

\* chunkSwallowed: finished chunks are stopped and the next one is popped.
ChunkSwallowed ==
    /\ mpc = "idle" /\ swallowed > 0
    /\ swallowed' = swallowed - 1
    /\ deadChunks' = deadChunks \cup m_chunksRequestPreviouslyRead
    /\ m_chunksRequestPreviouslyRead' = {}
    /\ IF m_chunks # <<>>
       THEN Loads(m_chunks)
       ELSE UNCHANGED <<m_chunks, mainVars>>
    /\ UNCHANGED <<m_mediaSequence, m_streamEnded, m_chunkRequest,
                   m_chunkRequestInRead, listVars, m_stopping, m_event,
                   readerVars, serverVars>>

\* The lock section that hands the new chunk over, its start and the signal.
ChunkLoads ==
    /\ mpc = "load"
    /\ m_chunkRequest' = loading
    /\ m_event' = TRUE
    /\ mpc' = "idle" /\ loading' = None
    /\ UNCHANGED <<streamVars, m_chunkRequestInRead,
                   m_chunksRequestPreviouslyRead, deadChunks, listVars,
                   m_stopping, swallowed, readerVars, serverVars>>

\* stop() before its lock section ...
Stop ==
    /\ mpc = "idle" /\ ~m_stopping
    /\ m_stopping' = TRUE
    /\ m_hlsRequest' = "none"
    /\ deadChunks' = deadChunks \cup ({m_chunkRequest} \ {None})
    /\ mpc' = "stop"
    /\ UNCHANGED <<streamVars, m_chunkRequest, m_chunkRequestInRead,
                   m_chunksRequestPreviouslyRead, m_hasMasterList,
                   m_playlistRefreshTimer, m_event, loading, swallowed,
                   readerVars, serverVars>>

\* Mutant: stop() leaves the chunk being read alone.
StopLockedSparesReader ==
    /\ mpc = "stop"
    /\ m_chunkRequest' = None
    /\ deadChunks' = deadChunks \cup m_chunksRequestPreviouslyRead
    /\ m_chunksRequestPreviouslyRead' = {}
    /\ m_event' = TRUE
    /\ mpc' = "idle"
    /\ UNCHANGED <<streamVars, m_chunkRequestInRead, listVars, m_stopping,
                   loading, swallowed, readerVars, serverVars>>

\* ... and from there on: every chunk dies and the reader is woken.
StopLocked ==
    /\ mpc = "stop"
    /\ m_chunkRequest' = None
    /\ deadChunks' = deadChunks \cup m_chunksRequestPreviouslyRead
                       \cup ({m_chunkRequestInRead} \ {None})
    /\ m_chunksRequestPreviouslyRead' = {}
    /\ m_event' = TRUE
    /\ mpc' = "idle"
    /\ UNCHANGED <<streamVars, m_chunkRequestInRead, listVars, m_stopping,
                   loading, swallowed, readerVars, serverVars>>

(***************************************************************************)
(* The reader: AcinerellaNetworkBufferHLS::read.                           *)
(***************************************************************************)

\* Bound: after the end of the stream or an error the container reads no more
\* (m_ioDiscontinuity).
CallRead ==
    /\ rpc = "idle" /\ result \notin {"EOF", "error"}
    /\ rpc' = "loop"
    /\ UNCHANGED <<streamVars, chunkVars, listVars, m_stopping, m_event,
                   mainVars, swallowed, result, lastRead, serverVars>>

ReadLoop ==
    /\ rpc = "loop"
    /\ rpc' = IF m_stopping THEN "fail"
              ELSE IF m_chunkRequestInRead # None THEN "chunk" ELSE "swap"
    /\ UNCHANGED <<streamVars, chunkVars, listVars, m_stopping, m_event,
                   mainVars, swallowed, result, lastRead, serverVars>>

ChunkAnswers ==
    m_chunkRequestInRead \notin stalled \/ m_chunkRequestInRead \in deadChunks

ReadsData ==
    /\ rpc = "chunk" /\ ChunkAnswers
    /\ rpc' = "idle" /\ result' = "data"
    /\ UNCHANGED <<streamVars, chunkVars, listVars, m_stopping, m_event,
                   mainVars, swallowed, lastRead, serverVars>>

\* The chunk is at its end.
ReadsChunkEnd ==
    /\ rpc = "chunk" /\ ChunkAnswers
    /\ rpc' = "idle"
    /\ result' = IF m_chunks = <<>> /\ m_streamEnded
                 THEN "EOF" ELSE "discontinuity"
    /\ m_chunksRequestPreviouslyRead' =
           m_chunksRequestPreviouslyRead \cup {m_chunkRequestInRead}
    /\ m_chunkRequestInRead' = None
    /\ UNCHANGED <<streamVars, m_chunkRequest, deadChunks, listVars,
                   m_stopping, m_event, mainVars, swallowed, lastRead,
                   serverVars>>

\* The prepared chunk, if any, becomes the one being read, and chunkSwallowed
\* is posted.
SwapChunk ==
    /\ rpc = "swap"
    /\ m_chunkRequestInRead' = m_chunkRequest
    /\ m_chunkRequest' = None
    /\ lastRead' = IF m_chunkRequest = None THEN lastRead ELSE m_chunkRequest
    /\ swallowed' = swallowed + 1
    /\ rpc' = IF m_chunkRequest = None THEN "wait" ELSE "loop"
    /\ UNCHANGED <<streamVars, m_chunksRequestPreviouslyRead, deadChunks,
                   listVars, m_stopping, m_event, mainVars, result,
                   serverVars>>

\* The ten-second wait ends by the event or by its limit.  Bound: ten seconds
\* are enough for the main thread to have run chunkSwallowed.
ReadWakes ==
    /\ rpc = "wait"
    /\ m_event \/ swallowed = 0
    /\ m_event' = FALSE
    /\ rpc' = "loop"
    /\ UNCHANGED <<streamVars, chunkVars, listVars, m_stopping, mainVars,
                   swallowed, result, lastRead, serverVars>>

ReadFails ==
    /\ rpc = "fail"
    /\ m_chunksRequestPreviouslyRead' =
           m_chunksRequestPreviouslyRead \cup ({m_chunkRequestInRead} \ {None})
    /\ m_chunkRequestInRead' = None
    /\ rpc' = "idle" /\ result' = "error"
    /\ UNCHANGED <<streamVars, m_chunkRequest, deadChunks, listVars,
                   m_stopping, m_event, mainVars, swallowed, lastRead,
                   serverVars>>

(***************************************************************************)
(* The specification.                                                      *)
(***************************************************************************)

MainStep ==
    \/ MasterPlaylistReceived
    \/ \E first \in Sequence : ChildPlaylistReceived(first)
    \/ RefreshTimerFired \/ ChunkSwallowed \/ ChunkLoads \/ StopLocked

InRead ==
    \/ ReadLoop \/ ReadsData \/ ReadsChunkEnd \/ SwapChunk \/ ReadWakes
    \/ ReadFails

\* The container reads no more: only then may everything stand still.
Finished ==
    /\ rpc = "idle" /\ result \in {"EOF", "error"}
    /\ UNCHANGED vars

Next ==
    \/ MainStep \/ Stop \/ MasterPlaylistUnusable \/ ChildPlaylistFails
    \/ ServerPublishes \/ ServerEnds \/ ChunkStalls
    \/ CallRead \/ InRead \/ Finished

Spec == Init /\ [][Next]_vars

\* The main thread runs, every posted function, timer and playlist request gets
\* its turn in between, and the reader keeps running.
FairSpec ==
    /\ Spec
    /\ WF_vars(MainStep)
    /\ SF_vars(ChunkSwallowed)
    /\ SF_vars(RefreshTimerFired)
    /\ SF_vars(\E first \in Sequence : ChildPlaylistReceived(first))
    /\ WF_vars(InRead)

(***************************************************************************)
(* Properties.                                                             *)
(***************************************************************************)

\* Chunks are read in the order of the playlist and none twice, although every
\* refresh delivers chunks again that were already queued, prepared or read.
ChunksIncrease ==
    [][m_chunkRequestInRead' \notin {None, m_chunkRequestInRead}
         => m_chunkRequestInRead' > lastRead]_vars

\* read() returns eRead_EOF, after which the container fails further reads,
\* only if no chunk is left: not in the playlist and not prepared either.
EOFMeansAllRead ==
    [][(rpc = "chunk" /\ rpc' = "idle" /\ result' = "EOF" /\ ~m_stopping)
         => m_chunkRequest = None /\ loading = None /\ m_chunks = <<>>]_vars

\* stop() gets the reader out of read(), also when the chunk it reads hangs.
StopReleasesReader == m_stopping /\ rpc # "idle" ~> rpc = "idle"

\* While the server has a chunk that was not read yet, a read() of a stream
\* whose playlist was once received returns, unless the chunk it reads hangs:
\* lost wake-ups, failed refreshes and chunkSwallowed calls that come late do
\* not leave the reader waiting.
UnreadChunkIsServed ==
    m_mediaSequence # -1 /\ lastRead < published /\ rpc # "idle"
      ~> rpc = "idle" \/ m_chunkRequestInRead \in stalled

=============================================================================
