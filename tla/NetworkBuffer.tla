---------------------------- MODULE NetworkBuffer ----------------------------
(***************************************************************************)
(* AcinerellaNetworkBufferInternal: a resource downloaded by a CurlRequest *)
(* on the main thread and read, chunk by chunk, by the Acinerella thread.  *)
(*                                                                         *)
(* Three actors: the main thread, which runs posted functions and curl     *)
(* callbacks in the order they were posted; the reader, inside read(); and *)
(* the transfer (external), which posts the callbacks of a request.  Bytes *)
(* are their positions in the resource: a chunk is where it starts and how *)
(* long it is.                                                             *)
(***************************************************************************)
EXTENDS Integers, Sequences

CONSTANTS
    Length,          \* bytes in the resource
    m_readAhead,     \* more than this in the buffer suspends the transfer
    maxRedirects,    \* 20 in the code
    ReadSize,        \* the size every read() asks for
    MaxChunk,        \* bound: bytes in one curl callback
    MaxSeeks,        \* bound: read() calls that ask for another position
    MaxFailures,     \* bound: transfers that fail
    MaxRedirections  \* bound: redirecting responses

ASSUME SizesAssumption ==
    /\ Length \in Nat \ {0}
    /\ m_readAhead \in Nat \ {0}
    /\ maxRedirects \in Nat
    /\ ReadSize \in Nat \ {0}
    /\ MaxChunk \in Nat \ {0}
ASSUME BoundsAssumption ==
    /\ MaxSeeks \in Nat
    /\ MaxFailures \in Nat
    /\ MaxRedirections \in Nat

VARIABLES
    m_buffer,             \* chunks received and not fully read
    m_bufferRead,         \* read from the front chunk
    m_bufferPositionAbs,  \* position of the next byte read() returns
    m_bufferSize,
    m_finishedLoading,
    m_isPaused,
    m_seekProcessed,
    m_redirectCount,
    m_dead,
    m_event,              \* m_eventSemaphore
    m_curlRequest,        \* number of the current request, 0 for none
    posted,               \* functions and callbacks for the main thread
    transfer,             \* what curl does for the newest request
    requests,             \* requests made so far
    seeks, failures, redirections,
    rpc,                  \* the reader's place in read()
    readPosition,         \* its argument, -1 for the current position
    sizeWritten, canReadMore, resume

bufferVars == <<m_buffer, m_bufferRead, m_bufferPositionAbs, m_bufferSize>>
stateVars  == <<m_finishedLoading, m_isPaused, m_redirectCount, m_dead>>
curlVars   == <<m_curlRequest, transfer, requests>>
countVars  == <<seeks, failures, redirections>>
readVars   == <<rpc, readPosition, sizeWritten, canReadMore, resume>>
vars == <<bufferVars, stateVars, m_seekProcessed, m_event, curlVars, posted,
          countVars, readVars>>

Chunk == [from : Nat, size : 1 .. MaxChunk]
TransferState == {"none", "connecting", "answered", "open", "over"}
Transfer == [state : TransferState, pos : Nat, suspended : BOOLEAN]
Posted ==
    [do : {"start"}, from : Nat] \cup [do : {"continue"}]
      \cup [do : {"response"}, req : Nat, redirect : BOOLEAN]
      \cup [do : {"data"}, req : Nat, chunk : Chunk]
      \cup [do : {"complete", "fail"}, req : Nat]

TypeOK ==
    /\ m_buffer \in Seq(Chunk)
    /\ m_bufferRead \in 0 .. MaxChunk
    /\ m_bufferPositionAbs \in Nat
    /\ m_bufferSize \in Nat
    /\ m_finishedLoading \in BOOLEAN
    /\ m_isPaused \in BOOLEAN
    /\ m_seekProcessed \in BOOLEAN
    /\ m_redirectCount \in Nat
    /\ m_dead \in BOOLEAN
    /\ m_event \in BOOLEAN
    /\ m_curlRequest \in 0 .. requests
    /\ posted \in Seq(Posted)
    /\ transfer \in Transfer
    /\ requests \in Nat
    /\ seeks \in 0 .. MaxSeeks
    /\ failures \in 0 .. MaxFailures
    /\ redirections \in 0 .. MaxRedirections
    /\ rpc \in {"idle", "seek", "lock", "check", "wait", "return"}
    /\ readPosition \in Nat \cup {-1}
    /\ sizeWritten \in 0 .. ReadSize
    /\ canReadMore \in BOOLEAN
    /\ resume \in BOOLEAN

NoTransfer == [state |-> "none", pos |-> 0, suspended |-> FALSE]
Connecting(from) ==
    [state |-> "connecting", pos |-> from, suspended |-> FALSE]

\* The container has created the buffer and called start().
Init ==
    /\ m_buffer = <<>>
    /\ m_bufferRead = 0
    /\ m_bufferPositionAbs = 0
    /\ m_bufferSize = 0
    /\ m_finishedLoading = FALSE
    /\ m_isPaused = FALSE
    /\ m_seekProcessed = TRUE
    /\ m_redirectCount = 0
    /\ m_dead = FALSE
    /\ m_event = FALSE
    /\ m_curlRequest = 1
    /\ posted = <<>>
    /\ transfer = Connecting(0)
    /\ requests = 1
    /\ seeks = 0 /\ failures = 0 /\ redirections = 0
    /\ rpc = "idle"
    /\ readPosition = -1
    /\ sizeWritten = 0
    /\ canReadMore = FALSE
    /\ resume = FALSE

(***************************************************************************)
(* Main thread.  A new request takes over the transfer; cancelling one     *)
(* ends it, and callbacks it has already posted are ignored.               *)
(***************************************************************************)

StartRequest(from) ==
    /\ requests' = requests + 1
    /\ m_curlRequest' = requests + 1
    /\ transfer' = Connecting(from)

CancelRequest ==
    /\ m_curlRequest' = 0
    /\ transfer' = NoTransfer
    /\ UNCHANGED requests

Takes(do) ==
    /\ posted # <<>>
    /\ Head(posted).do = do
    /\ posted' = Tail(posted)

TakesCurrent(do) == Takes(do) /\ Head(posted).req = m_curlRequest

\* Mutant: start() that keeps what was buffered.
StartKeepsBuffer ==
    /\ Takes("start")
    /\ IF m_dead
       THEN UNCHANGED <<bufferVars, stateVars, curlVars>>
       ELSE /\ m_bufferPositionAbs' = Head(posted).from
            /\ m_finishedLoading' = FALSE
            /\ m_isPaused' = FALSE
            /\ m_redirectCount' = 0
            /\ StartRequest(Head(posted).from)
            /\ UNCHANGED <<m_buffer, m_bufferRead, m_bufferSize, m_dead>>
    /\ m_seekProcessed' = TRUE
    /\ UNCHANGED <<m_event, countVars, readVars>>

\* The function read() posts for a seek: start(seekTo), which a dead buffer
\* ignores, and m_seekProcessed.
Start ==
    /\ Takes("start")
    /\ IF m_dead
       THEN UNCHANGED <<bufferVars, stateVars, curlVars>>
       ELSE /\ m_buffer' = <<>>
            /\ m_bufferRead' = 0
            /\ m_bufferPositionAbs' = Head(posted).from
            /\ m_bufferSize' = 0
            /\ m_finishedLoading' = FALSE
            /\ m_isPaused' = FALSE
            /\ m_redirectCount' = 0
            /\ StartRequest(Head(posted).from)
            /\ UNCHANGED m_dead
    /\ m_seekProcessed' = TRUE
    /\ UNCHANGED <<m_event, countVars, readVars>>

WantsMore ==
    m_isPaused /\ m_bufferRead < m_readAhead \div 2 /\ ~m_finishedLoading
      /\ ~m_dead

\* Mutant: a paused transfer is left alone.
ContinueNeverResumes ==
    /\ Takes("continue")
    /\ UNCHANGED <<bufferVars, stateVars, m_seekProcessed, m_event, curlVars,
                   countVars, readVars>>

\* continueBuffering(): resumes the request or, after a failure, makes a new
\* one for what follows the buffer.
ContinueBuffering ==
    /\ Takes("continue")
    /\ \/ /\ ~WantsMore
          /\ UNCHANGED <<m_isPaused, curlVars>>
       \/ /\ WantsMore /\ m_curlRequest # 0
          /\ transfer' = [transfer EXCEPT !.suspended = FALSE]
          /\ m_isPaused' = FALSE
          /\ UNCHANGED <<m_curlRequest, requests>>
       \/ /\ WantsMore /\ m_curlRequest = 0
          /\ StartRequest(m_bufferPositionAbs + m_bufferSize)
          /\ m_isPaused' = FALSE
    /\ UNCHANGED <<bufferVars, m_finishedLoading, m_redirectCount, m_dead,
                   m_seekProcessed, m_event, countVars, readVars>>

\* A callback of a request that is not m_curlRequest any more.
StaleCallback ==
    /\ posted # <<>>
    /\ Head(posted).do \in {"response", "data", "complete", "fail"}
    /\ Head(posted).req # m_curlRequest
    /\ posted' = Tail(posted)
    /\ UNCHANGED <<bufferVars, stateVars, m_seekProcessed, m_event, curlVars,
                   countVars, readVars>>

\* curlDidReceiveResponse: redirected, given up, or let through.
DidReceiveResponse ==
    /\ TakesCurrent("response")
    /\ \/ /\ Head(posted).redirect
          /\ m_redirectCount' = m_redirectCount + 1
          /\ \/ /\ m_redirectCount > maxRedirects
                /\ m_event' = TRUE
                /\ UNCHANGED curlVars
             \/ /\ m_redirectCount <= maxRedirects
                /\ StartRequest(m_bufferPositionAbs)
                /\ UNCHANGED m_event
       \/ /\ ~Head(posted).redirect
          /\ transfer' = [transfer EXCEPT !.state = "open"]
          /\ UNCHANGED <<m_redirectCount, m_event, m_curlRequest, requests>>
    /\ UNCHANGED <<bufferVars, m_finishedLoading, m_isPaused, m_dead,
                   m_seekProcessed, countVars, readVars>>

\* curlDidReceiveBuffer.
DidReceiveBuffer ==
    /\ TakesCurrent("data")
    /\ LET chunk == Head(posted).chunk
           suspends == m_bufferSize + chunk.size > m_readAhead /\ ~m_isPaused
       IN  /\ m_buffer' = Append(m_buffer, chunk)
           /\ m_bufferSize' = m_bufferSize + chunk.size
           /\ m_isPaused' = (m_isPaused \/ suspends)
           /\ transfer' = [transfer EXCEPT !.suspended = @ \/ suspends]
    /\ m_event' = TRUE
    /\ UNCHANGED <<m_bufferRead, m_bufferPositionAbs, m_finishedLoading,
                   m_redirectCount, m_dead, m_seekProcessed, m_curlRequest,
                   requests, countVars, readVars>>

\* curlDidComplete.
DidComplete ==
    /\ TakesCurrent("complete")
    /\ m_finishedLoading' = TRUE
    /\ m_event' = TRUE
    /\ CancelRequest
    /\ UNCHANGED <<bufferVars, m_isPaused, m_redirectCount, m_dead,
                   m_seekProcessed, countVars, readVars>>

\* curlDidFailWithError: paused, so that the next read() tries again.
DidFail ==
    /\ TakesCurrent("fail")
    /\ m_isPaused' = TRUE
    /\ m_event' = TRUE
    /\ CancelRequest
    /\ UNCHANGED <<bufferVars, m_finishedLoading, m_redirectCount, m_dead,
                   m_seekProcessed, countVars, readVars>>

\* Mutant: a dead buffer that does not count as loaded.
DieKeepsLoading ==
    /\ ~m_dead
    /\ m_dead' = TRUE
    /\ m_isPaused' = FALSE
    /\ m_event' = TRUE
    /\ CancelRequest
    /\ UNCHANGED <<bufferVars, m_finishedLoading, m_redirectCount,
                   m_seekProcessed, posted, countVars, readVars>>

\* die() and, from it, stop().
Die ==
    /\ ~m_dead
    /\ m_dead' = TRUE
    /\ m_finishedLoading' = TRUE
    /\ m_isPaused' = FALSE
    /\ m_event' = TRUE
    /\ CancelRequest
    /\ UNCHANGED <<bufferVars, m_redirectCount, m_seekProcessed, posted,
                   countVars, readVars>>

(***************************************************************************)
(* The transfer of the current request.                                    *)
(***************************************************************************)

Post(x) == posted' = Append(posted, x)

TransferUnchanged ==
    UNCHANGED <<bufferVars, stateVars, m_seekProcessed, m_event,
                m_curlRequest, requests, seeks, readVars>>

Responds(redirect) ==
    /\ transfer.state = "connecting"
    /\ redirect => redirections < MaxRedirections
    /\ redirections' = IF redirect THEN redirections + 1 ELSE redirections
    /\ transfer' = [transfer EXCEPT !.state = "answered"]
    /\ Post([do |-> "response", req |-> m_curlRequest,
             redirect |-> redirect])
    /\ UNCHANGED failures
    /\ TransferUnchanged

Delivers(n) ==
    /\ transfer.state = "open" /\ ~transfer.suspended
    /\ transfer.pos + n <= Length
    /\ transfer' = [transfer EXCEPT !.pos = @ + n]
    /\ Post([do |-> "data", req |-> m_curlRequest,
             chunk |-> [from |-> transfer.pos, size |-> n]])
    /\ UNCHANGED <<failures, redirections>>
    /\ TransferUnchanged

Completes ==
    /\ transfer.state = "open" /\ ~transfer.suspended
    /\ transfer.pos >= Length
    /\ transfer' = [transfer EXCEPT !.state = "over"]
    /\ Post([do |-> "complete", req |-> m_curlRequest])
    /\ UNCHANGED <<failures, redirections>>
    /\ TransferUnchanged

Fails ==
    /\ transfer.state \in {"connecting", "open"}
    /\ failures < MaxFailures
    /\ failures' = failures + 1
    /\ transfer' = [transfer EXCEPT !.state = "over"]
    /\ Post([do |-> "fail", req |-> m_curlRequest])
    /\ UNCHANGED redirections
    /\ TransferUnchanged

(***************************************************************************)
(* The reader.                                                             *)
(***************************************************************************)

BeginRead(pos) ==
    /\ rpc = "idle"
    /\ readPosition' = pos
    /\ sizeWritten' = 0
    /\ resume' = FALSE
    /\ canReadMore' = FALSE
    /\ UNCHANGED <<bufferVars, stateVars, m_event, curlVars, failures,
                   redirections>>

\* read() where the buffer stands.
ReadOn(pos) ==
    /\ BeginRead(pos)
    /\ pos \in {-1, m_bufferPositionAbs}
    /\ rpc' = "lock"
    /\ UNCHANGED <<m_seekProcessed, posted, seeks>>

\* read() elsewhere: the main thread is to start again from there.
ReadElsewhere(pos) ==
    /\ BeginRead(pos)
    /\ pos \notin {-1, m_bufferPositionAbs}
    /\ seeks < MaxSeeks
    /\ seeks' = seeks + 1
    /\ m_seekProcessed' = FALSE
    /\ Post([do |-> "start", from |-> pos])
    /\ rpc' = "seek"

\* Mutant: one wait for the seek instead of a loop.
SeekWaitsOnce ==
    /\ rpc = "seek"
    /\ rpc' = "lock"
    /\ m_event' \in {m_event, FALSE}
    /\ UNCHANGED <<bufferVars, stateVars, m_seekProcessed, curlVars, posted,
                   countVars, readPosition, sizeWritten, canReadMore, resume>>

\* The loop of waits, which may take the event, until the seek is processed.
SeekDone ==
    /\ rpc = "seek"
    /\ m_dead \/ m_seekProcessed
    /\ rpc' = "lock"
    /\ m_event' \in {m_event, FALSE}
    /\ UNCHANGED <<bufferVars, stateVars, m_seekProcessed, curlVars, posted,
                   countVars, readPosition, sizeWritten, canReadMore, resume>>

\* Mutant: the copy runs past the end of the front chunk.
CopyIgnoresChunkEnd ==
    LET front == Head(m_buffer)
        used  == m_bufferRead + (ReadSize - sizeWritten)
    IN  /\ m_bufferPositionAbs' = m_bufferPositionAbs + ReadSize - sizeWritten
        /\ sizeWritten' = ReadSize
        /\ IF used = front.size
           THEN /\ m_buffer' = Tail(m_buffer)
                /\ m_bufferSize' = m_bufferSize - used
                /\ m_bufferRead' = 0
                /\ resume' = (resume \/ (m_isPaused /\ 0 < m_readAhead \div 2))
           ELSE /\ m_bufferRead' = used
                /\ UNCHANGED <<m_buffer, m_bufferSize, resume>>
        /\ canReadMore' = (m_buffer' # <<>>)

\* The section of read() under m_bufferLock: what the front chunk has left,
\* up to the size asked for.
CopyFrontChunk ==
    LET front == Head(m_buffer)
        left  == front.size - m_bufferRead
        want  == ReadSize - sizeWritten
        write == IF left < want THEN left ELSE want
        used  == m_bufferRead + write
    IN  /\ m_bufferPositionAbs' = m_bufferPositionAbs + write
        /\ sizeWritten' = sizeWritten + write
        /\ IF used = front.size
           THEN /\ m_buffer' = Tail(m_buffer)
                /\ m_bufferSize' = m_bufferSize - used
                /\ m_bufferRead' = 0
                /\ resume' = (resume \/ (m_isPaused /\ 0 < m_readAhead \div 2))
           ELSE /\ m_bufferRead' = used
                /\ UNCHANGED <<m_buffer, m_bufferSize, resume>>
        /\ canReadMore' = (m_buffer' # <<>>)

ReadLocked ==
    /\ rpc = "lock"
    /\ \/ m_buffer # <<>> /\ CopyFrontChunk
       \/ /\ m_buffer = <<>>
          /\ canReadMore' = FALSE
          /\ UNCHANGED <<bufferVars, sizeWritten, resume>>
    /\ rpc' = "check"
    /\ UNCHANGED <<stateVars, m_seekProcessed, m_event, curlVars, posted,
                   countVars, readPosition>>

\* After the unlock: wait for more, give up or go on.
ReadChecks ==
    /\ rpc = "check"
    /\ \/ /\ sizeWritten < ReadSize /\ ~m_finishedLoading /\ ~canReadMore
          /\ Post([do |-> "continue"])
          /\ rpc' = "wait"
       \/ /\ m_finishedLoading /\ ~canReadMore
          /\ rpc' = "return"
          /\ UNCHANGED posted
       \/ /\ canReadMore \/ (sizeWritten = ReadSize /\ ~m_finishedLoading)
          /\ rpc' = IF sizeWritten < ReadSize THEN "lock" ELSE "return"
          /\ UNCHANGED posted
    /\ UNCHANGED <<bufferVars, stateVars, m_seekProcessed, m_event, curlVars,
                   countVars, readPosition, sizeWritten, canReadMore, resume>>

\* The ten-second wait ends by the event or by its limit.  Bound: ten seconds
\* are enough for the main thread to have run continueBuffering.
ReadWakes ==
    /\ rpc = "wait"
    /\ m_event \/ \A k \in 1 .. Len(posted) : posted[k].do # "continue"
    /\ m_event' = FALSE
    /\ rpc' = "lock"
    /\ UNCHANGED <<bufferVars, stateVars, m_seekProcessed, curlVars, posted,
                   countVars, readPosition, sizeWritten, canReadMore, resume>>

ReadReturnsStep ==
    /\ rpc = "return"
    /\ rpc' = "idle"
    /\ IF resume THEN Post([do |-> "continue"]) ELSE UNCHANGED posted
    /\ UNCHANGED <<bufferVars, stateVars, m_seekProcessed, m_event, curlVars,
                   countVars, readPosition, sizeWritten, canReadMore, resume>>

(***************************************************************************)
(* The specification.                                                      *)
(***************************************************************************)

MainStep ==
    \/ Start \/ ContinueBuffering \/ StaleCallback \/ DidReceiveResponse
    \/ DidReceiveBuffer \/ DidComplete \/ DidFail

TransferStep ==
    \/ \E redirect \in BOOLEAN : Responds(redirect)
    \/ \E n \in 1 .. MaxChunk : Delivers(n)
    \/ Completes

InRead ==
    \/ SeekDone \/ ReadLocked \/ ReadChecks \/ ReadWakes \/ ReadReturnsStep

CallsRead == \E pos \in -1 .. Length : ReadOn(pos) \/ ReadElsewhere(pos)

Next == MainStep \/ Die \/ TransferStep \/ Fails \/ InRead \/ CallsRead

Spec == Init /\ [][Next]_vars

\* The main thread and the reader keep running and curl makes progress.
FairSpec ==
    /\ Spec
    /\ WF_vars(MainStep)
    /\ WF_vars(TransferStep)
    /\ WF_vars(InRead)

(***************************************************************************)
(* Properties.                                                             *)
(***************************************************************************)

\* The bytes read() copies are the ones at m_bufferPositionAbs, and the chunks
\* that follow continue them: suspending, resuming, redirecting, seeking while
\* callbacks of the old request are still posted, and retrying neither skip
\* nor repeat anything.
BytesInPlace ==
    /\ m_buffer # <<>> =>
           Head(m_buffer).from + m_bufferRead = m_bufferPositionAbs
    /\ \A k \in 1 .. Len(m_buffer) - 1 :
           m_buffer[k].from + m_buffer[k].size = m_buffer[k + 1].from

\* Until a transfer fails the bytes are in place.  (Then they need not be: the
\* retry of continueBuffering() may ask for bytes too far ahead.)
InPlaceUntilFailure == failures = 0 => BytesInPlace

\* A read() that was given a position copies from there, however long the main
\* thread takes to run start() and whatever signals the event meanwhile.
ReadsWhereAsked ==
    (rpc \in {"lock", "check", "wait"} /\ readPosition # -1 /\ ~m_dead) =>
        m_bufferPositionAbs = readPosition + sizeWritten

\* read() returns 0, which AcinerellaBuffer.h calls eRead_EOF, only if there is
\* nothing left to read.
ZeroMeansEOF ==
    [][(rpc = "check" /\ rpc' = "return" /\ sizeWritten = 0 /\ ~m_dead)
         => m_buffer = <<>>]_vars

\* curlDidReceiveResponse has given up: the request stays as it is, without
\* data, until a seek or die() replaces it.
GivenUp == m_redirectCount > maxRedirects + 1

\* read() always returns, unless there are too many redirects: a suspended
\* transfer is resumed, a failed one is tried again, and no wake-up is lost.
ReadReturns == (rpc # "idle") ~> (rpc = "idle" \/ GivenUp)

\* die() releases the reader, wherever it is and whatever the server does.
DieReleasesReader == m_dead /\ rpc # "idle" ~> rpc = "idle"

=============================================================================
