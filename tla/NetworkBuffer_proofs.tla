------------------------ MODULE NetworkBuffer_proofs ------------------------
(***************************************************************************)
(* Proofs about NetworkBuffer, for any resource, chunk and read sizes and  *)
(* any number of seeks, failures and redirects: its types, that read()     *)
(* copies from where it was asked to, and that the bytes it copies are the *)
(* ones at that position until a transfer fails.                           *)
(*                                                                         *)
(* Sums and paths over queues are given by witnesses: f is a sum when its  *)
(* values go down by the size of each chunk, g a path when its values go   *)
(* up by each piece of data of the current request.  Both are extended     *)
(* with what is appended and cut with what is taken, so that no induction  *)
(* over a queue is needed.                                                 *)
(***************************************************************************)
EXTENDS NetworkBuffer, Queues_proofs

\* f[k] is the size of what follows the first k chunks of q.
Sums(f, q) ==
    /\ f \in [0 .. Len(q) -> Nat]
    /\ f[Len(q)] = 0
    /\ \A k \in 1 .. Len(q) : f[k - 1] = f[k] + q[k].size

\* A chunk is not empty.
LEMMA ChunkSize ==
    ASSUME NEW c \in Chunk
    PROVE  c.size \in Nat /\ c.size > 0 /\ c.size <= MaxChunk /\ c.from \in Nat
  BY SizesAssumption DEF Chunk

\* A chunk is appended,
LEMMA SumsAppend ==
    ASSUME NEW q \in Seq(Chunk), NEW c \in Chunk, NEW f, Sums(f, q)
    PROVE  LET n == Len(q)
               h == [k \in 0 .. n + 1 |-> IF k = n + 1 THEN 0 ELSE f[k] + c.size]
           IN  /\ Sums(h, Append(q, c))
               /\ h[0] = f[0] + c.size
               /\ \A k \in 1 .. n : h[k - 1] = f[k - 1] + c.size
               /\ h[n] = c.size
  <1> DEFINE n == Len(q)
             h == [k \in 0 .. n + 1 |-> IF k = n + 1 THEN 0 ELSE f[k] + c.size]
             p == Append(q, c)
  <1>0. n \in Nat /\ c.size \in Nat /\ \A k \in 1 .. n : q[k].size \in Nat
    <2>1. n \in Nat
      BY LenProperties
    <2>2. ASSUME NEW k \in 1 .. n PROVE q[k].size \in Nat
      BY ElementOfSeq, ChunkSize
    <2> QED
      BY <2>1, <2>2, ChunkSize
  <1>1. Len(p) = n + 1 /\ p[n + 1] = c /\ \A k \in 1 .. n : p[k] = q[k]
    BY AppendProperties
  <1>2. /\ \A k \in 0 .. n : f[k] \in Nat
        /\ f[n] = 0
        /\ \A k \in 1 .. n : f[k - 1] = f[k] + q[k].size
    BY DEF Sums
  <1> HIDE DEF n, p
  <1>3. h \in [0 .. n + 1 -> Nat] /\ h[n + 1] = 0 /\ h[n] = c.size
    BY <1>0, <1>2
  <1>4. \A k \in 0 .. n : h[k] = f[k] + c.size
    BY <1>0, <1>2
  <1> HIDE DEF h
  <1>5. ASSUME NEW k \in 1 .. n + 1 PROVE h[k - 1] = h[k] + p[k].size
    <2>1. CASE k = n + 1
      BY <1>0, <1>1, <1>3, <2>1
    <2>2. CASE k \in 1 .. n
      <3>1. k - 1 \in 0 .. n /\ k \in 0 .. n
        BY <1>0, <2>2
      <3>2. h[k - 1] = f[k - 1] + c.size /\ h[k] = f[k] + c.size
        BY <1>4, <3>1
      <3>3. /\ f[k - 1] = f[k] + q[k].size /\ p[k] = q[k]
            /\ f[k] \in Nat /\ q[k].size \in Nat /\ c.size \in Nat
        BY <1>0, <1>1, <1>2, <2>2, <3>1
      <3> QED
        BY <3>2, <3>3
    <2> QED
      BY <1>0, <2>1, <2>2
  <1>6. Sums(h, p)
    BY <1>1, <1>3, <1>5 DEF Sums
  <1>7. h[0] = f[0] + c.size /\ \A k \in 1 .. n : h[k - 1] = f[k - 1] + c.size
    BY <1>0, <1>4
  <1> QED
    BY <1>3, <1>6, <1>7 DEF h, n, p

\* or taken.
LEMMA SumsTail ==
    ASSUME NEW q \in Seq(Chunk), q # <<>>, NEW f, Sums(f, q)
    PROVE  LET h == [k \in 0 .. Len(q) - 1 |-> f[k + 1]]
           IN  /\ Sums(h, Tail(q))
               /\ h[0] = f[1] /\ f[0] = f[1] + Head(q).size
               /\ \A k \in 1 .. Len(q) - 1 : h[k - 1] = f[k]
  <1> DEFINE n == Len(q)
             h == [k \in 0 .. n - 1 |-> f[k + 1]]
             p == Tail(q)
  <1>0. n \in Nat \ {0} /\ \A k \in 1 .. n : q[k].size \in Nat
    <2>1. n \in Nat \ {0}
      BY LenProperties, EmptySeq
    <2>2. ASSUME NEW k \in 1 .. n PROVE q[k].size \in Nat
      BY ElementOfSeq, ChunkSize
    <2> QED
      BY <2>1, <2>2
  <1>1. /\ Len(p) = n - 1 /\ Head(q) = q[1]
        /\ \A k \in 1 .. n - 1 : p[k] = q[k + 1]
    BY <1>0, HeadTailProperties
  <1>2. /\ \A k \in 0 .. n : f[k] \in Nat
        /\ f[n] = 0
        /\ \A k \in 1 .. n : f[k - 1] = f[k] + q[k].size
    BY DEF Sums
  <1> HIDE DEF n, p
  <1>3. h \in [0 .. n - 1 -> Nat] /\ h[n - 1] = 0
    BY <1>0, <1>2
  <1>4. \A k \in 0 .. n - 1 : h[k] = f[k + 1]
    BY <1>0, <1>2
  <1> HIDE DEF h
  <1>5. ASSUME NEW k \in 1 .. n - 1 PROVE h[k - 1] = h[k] + p[k].size
    <2>1. k - 1 \in 0 .. n - 1 /\ k \in 0 .. n - 1 /\ k + 1 \in 1 .. n
      BY <1>0
    <2>2. h[k - 1] = f[(k - 1) + 1] /\ h[k] = f[k + 1]
      BY <1>4, <2>1
    <2>3. f[(k + 1) - 1] = f[k + 1] + q[k + 1].size
      BY <1>2, <2>1
    <2>4. (k - 1) + 1 = k /\ (k + 1) - 1 = k
      BY <2>1
    <2> QED
      BY <1>1, <2>2, <2>3, <2>4
  <1>6. Sums(h, p)
    BY <1>1, <1>3, <1>5 DEF Sums
  <1>7. h[0] = f[1] /\ f[0] = f[1] + q[1].size
    BY <1>0, <1>2, <1>4
  <1>8. ASSUME NEW k \in 1 .. n - 1 PROVE h[k - 1] = f[k]
    <2>1. k - 1 \in 0 .. n - 1 /\ (k - 1) + 1 = k
      BY <1>0
    <2> QED
      BY <1>4, <2>1
  <1> QED
    BY <1>1, <1>6, <1>7, <1>8 DEF h, n, p

\* The empty buffer.
LEMMA SumsEmpty == \E f : Sums(f, <<>>) /\ f[0] = 0
  <1>1. Len(<<>>) = 0 /\ 0 .. 0 = {0}
    OBVIOUS
  <1>2. Sums([k \in 0 .. 0 |-> 0], <<>>)
    BY <1>1 DEF Sums
  <1> QED
    BY <1>2

(***************************************************************************)
(* Types.  m_bufferSize is reduced by the size of the chunk that was read: *)
(* that it stays a number needs that it is the size of what is buffered.   *)
(***************************************************************************)

SizeInv == \E f : Sums(f, m_buffer) /\ f[0] = m_bufferSize

\* read() has not used up the front chunk.
FrontInv ==
    /\ m_buffer = <<>> => m_bufferRead = 0
    /\ m_buffer # <<>> => m_bufferRead < Head(m_buffer).size

TypeInv == TypeOK /\ SizeInv /\ FrontInv

\* What is posted, by its kind.
LEMMA PostedFacts ==
    ASSUME NEW x \in Posted
    PROVE  /\ x.do \in {"start", "continue", "response", "data", "complete", "fail"}
           /\ x.do = "start" => x.from \in Nat
           /\ x.do \in {"response", "data", "complete", "fail"} => x.req \in Nat
           /\ x.do = "response" => x.redirect \in BOOLEAN
           /\ x.do = "data" => x.chunk \in Chunk
  BY DEF Posted

\* What can be posted.
LEMMA NewPosted ==
    /\ [do |-> "continue"] \in Posted
    /\ \A n \in Nat : /\ [do |-> "start", from |-> n] \in Posted
                      /\ [do |-> "complete", req |-> n] \in Posted
                      /\ [do |-> "fail", req |-> n] \in Posted
                      /\ \A b \in BOOLEAN :
                           [do |-> "response", req |-> n, redirect |-> b] \in Posted
                      /\ \A c \in Chunk :
                           [do |-> "data", req |-> n, chunk |-> c] \in Posted
  BY DEF Posted

\* What the main thread takes.
LEMMA TakenFacts ==
    ASSUME posted \in Seq(Posted), posted # <<>>
    PROVE  Head(posted) \in Posted /\ Tail(posted) \in Seq(Posted)
  BY HeadTailProperties

\* The states of the transfer.
LEMMA TransferFacts ==
    ASSUME NEW t \in Transfer
    PROVE  /\ NoTransfer \in Transfer
           /\ \A n \in Nat : Connecting(n) \in Transfer
           /\ \A x \in TransferState :
                /\ [t EXCEPT !.state = x] \in Transfer
                /\ [t EXCEPT !.state = x].pos = t.pos
                /\ [t EXCEPT !.state = x].state = x
           /\ \A b \in BOOLEAN :
                /\ [t EXCEPT !.suspended = b] \in Transfer
                /\ [t EXCEPT !.suspended = b].pos = t.pos
                /\ [t EXCEPT !.suspended = b].state = t.state
           /\ \A n \in Nat :
                /\ [t EXCEPT !.pos = n] \in Transfer
                /\ [t EXCEPT !.pos = n].pos = n
                /\ [t EXCEPT !.pos = n].state = t.state
           /\ t.pos \in Nat /\ t.state \in TransferState /\ t.suspended \in BOOLEAN
  BY DEF Transfer, TransferState, NoTransfer, Connecting

\* The section of read() under the lock: how much is copied.
LEMMA CopyFacts ==
    ASSUME TypeInv, m_buffer # <<>>, CopyFrontChunk
    PROVE  \E write \in Nat :
             /\ m_bufferPositionAbs' = m_bufferPositionAbs + write
             /\ sizeWritten' = sizeWritten + write /\ sizeWritten' \in 0 .. ReadSize
             /\ m_bufferRead + write <= Head(m_buffer).size
             /\ \/ /\ m_bufferRead + write = Head(m_buffer).size
                   /\ m_buffer' = Tail(m_buffer)
                   /\ m_bufferSize' = m_bufferSize - Head(m_buffer).size
                   /\ m_bufferRead' = 0
                   /\ resume' \in BOOLEAN
                \/ /\ m_bufferRead + write < Head(m_buffer).size
                   /\ m_bufferRead' = m_bufferRead + write
                   /\ UNCHANGED <<m_buffer, m_bufferSize, resume>>
             /\ canReadMore' \in BOOLEAN
  <1> DEFINE left == Head(m_buffer).size - m_bufferRead
             want == ReadSize - sizeWritten
             write == IF left < want THEN left ELSE want
             used == m_bufferRead + write
  <1>1. /\ Head(m_buffer) \in Chunk /\ m_bufferRead \in Nat
        /\ sizeWritten \in 0 .. ReadSize
        /\ m_bufferRead < Head(m_buffer).size
    BY HeadTailProperties DEF TypeInv, TypeOK, FrontInv
  <1>2. Head(m_buffer).size \in Nat
    BY <1>1 DEF Chunk
  <1>3. left \in Nat /\ want \in Nat /\ write \in Nat /\ write <= left /\ write <= want
    BY <1>1, <1>2, SizesAssumption
  <1>4. /\ sizeWritten + write \in 0 .. ReadSize
        /\ m_bufferRead + write <= Head(m_buffer).size
    BY <1>1, <1>2, <1>3, SizesAssumption
  <1>5. /\ m_bufferPositionAbs' = m_bufferPositionAbs + write
        /\ sizeWritten' = sizeWritten + write
        /\ IF used = Head(m_buffer).size
           THEN /\ m_buffer' = Tail(m_buffer)
                /\ m_bufferSize' = m_bufferSize - used
                /\ m_bufferRead' = 0
                /\ resume' = (resume \/ (m_isPaused /\ 0 < m_readAhead \div 2))
           ELSE /\ m_bufferRead' = used
                /\ UNCHANGED <<m_buffer, m_bufferSize, resume>>
        /\ canReadMore' = (m_buffer' # <<>>)
    BY DEF CopyFrontChunk
  <1>6. canReadMore' \in BOOLEAN
    BY <1>5
  <1>7. CASE used = Head(m_buffer).size
    <2>1. resume' \in BOOLEAN
      BY <1>5, <1>7
    <2> HIDE DEF write
    <2> QED
      BY <1>3, <1>4, <1>5, <1>6, <1>7, <2>1
  <1>8. CASE used # Head(m_buffer).size
    <2>1. used < Head(m_buffer).size
      BY <1>1, <1>2, <1>3, <1>4, <1>8
    <2> HIDE DEF write
    <2> QED
      BY <1>3, <1>4, <1>5, <1>6, <1>8, <2>1
  <1> QED
    BY <1>7, <1>8

\* Appending leaves the front alone.
LEMMA AppendHead ==
    ASSUME NEW X, NEW q \in Seq(X), q # <<>>, NEW x \in X
    PROVE  Head(Append(q, x)) = Head(q)
  <1>1. Len(q) \in Nat \ {0} /\ Append(q, x) \in Seq(X) /\ Append(q, x) # <<>>
    BY LenProperties, EmptySeq, AppendProperties
  <1>2. Append(q, x)[1] = q[1]
    BY <1>1, AppendProperties
  <1> QED
    BY <1>1, <1>2, HeadTailProperties

\* Every action keeps the types.
LEMMA TypeStep == ASSUME TypeInv, [Next]_vars PROVE TypeInv'
  <1> DEFINE SameBuffer == UNCHANGED bufferVars
  <1>0. SameBuffer => SizeInv' /\ FrontInv'
    BY DEF TypeInv, SizeInv, FrontInv, bufferVars
  <1>1. TypeOK
    BY DEF TypeInv
  <1>2. transfer \in Transfer /\ requests \in Nat /\ m_curlRequest \in Nat
    BY <1>1 DEF TypeOK
  <1>3. ASSUME NEW do, Takes(do)
        PROVE  /\ Head(posted) \in Posted /\ Head(posted).do = do
               /\ posted' \in Seq(Posted)
    BY <1>1, <1>3, TakenFacts DEF Takes, TypeOK
  <1>4. ASSUME NEW x \in Posted, posted' = Append(posted, x)
        PROVE  posted' \in Seq(Posted)
    BY <1>1, <1>4, AppendProperties DEF TypeOK
  <1>5. ASSUME NEW n \in Nat, StartRequest(n)
        PROVE  transfer' \in Transfer /\ requests' \in Nat /\ m_curlRequest' \in 0 .. requests'
    BY <1>2, <1>5, TransferFacts DEF StartRequest
  <1>6. ASSUME CancelRequest
        PROVE  transfer' \in Transfer /\ requests' \in Nat /\ m_curlRequest' \in 0 .. requests'
    BY <1>2, <1>6, TransferFacts DEF CancelRequest
  <1>11. CASE Start
    <2>1. /\ Head(posted) \in Posted /\ Head(posted).from \in Nat /\ posted' \in Seq(Posted)
      BY <1>3, <1>11, PostedFacts DEF Start
    <2>2. CASE m_dead
      <3>1. SameBuffer
        BY <1>11, <2>2 DEF Start
      <3>2. TypeOK'
        BY <1>1, <1>11, <2>1, <2>2
        DEF TypeOK, Start, stateVars, bufferVars, curlVars, countVars, readVars
      <3> QED
        BY <1>0, <3>1, <3>2 DEF TypeInv
    <2>3. CASE ~m_dead
      <3>1. StartRequest(Head(posted).from)
        BY <1>11, <2>3 DEF Start
      <3>2. transfer' \in Transfer /\ requests' \in Nat /\ m_curlRequest' \in 0 .. requests'
        BY <1>5, <2>1, <3>1
      <3>3. m_buffer' = <<>> /\ m_bufferRead' = 0 /\ m_bufferSize' = 0
        BY <1>11, <2>3 DEF Start
      <3>4. m_buffer' \in Seq(Chunk) /\ 0 \in 0 .. MaxChunk
        BY <3>3, SizesAssumption
      <3>5. /\ m_bufferPositionAbs' = Head(posted).from
            /\ m_finishedLoading' = FALSE /\ m_isPaused' = FALSE
            /\ m_redirectCount' = 0 /\ m_dead' = m_dead
            /\ m_seekProcessed' = TRUE
            /\ UNCHANGED <<m_event, countVars, readVars>>
        BY <1>11, <2>3 DEF Start
      <3>7. TypeOK'
        BY <1>1, <2>1, <3>2, <3>3, <3>4, <3>5 DEF TypeOK, countVars, readVars
      <3>6. SizeInv' /\ FrontInv'
        BY <3>3, SumsEmpty DEF SizeInv, FrontInv
      <3> QED
        BY <3>6, <3>7 DEF TypeInv
    <2> QED
      BY <2>2, <2>3
  <1>12. CASE ContinueBuffering
    <2>1. posted' \in Seq(Posted)
      BY <1>3, <1>12 DEF ContinueBuffering
    <2>2. /\ transfer' \in Transfer /\ requests' \in Nat /\ m_curlRequest' \in 0 .. requests'
          /\ m_isPaused' \in BOOLEAN
      <3>1. CASE ~WantsMore
        BY <1>1, <1>12, <3>1 DEF ContinueBuffering, curlVars, TypeOK
      <3>2. CASE WantsMore /\ m_curlRequest # 0
        <4>1. transfer' = [transfer EXCEPT !.suspended = FALSE] /\ m_isPaused' = FALSE
              /\ UNCHANGED <<m_curlRequest, requests>>
          BY <1>12, <3>2 DEF ContinueBuffering
        <4> QED
          BY <1>1, <1>2, <4>1, TransferFacts DEF TypeOK
      <3>3. CASE WantsMore /\ m_curlRequest = 0
        <4>1. StartRequest(m_bufferPositionAbs + m_bufferSize) /\ m_isPaused' = FALSE
          BY <1>12, <3>3 DEF ContinueBuffering
        <4>2. m_bufferPositionAbs + m_bufferSize \in Nat
          BY <1>1 DEF TypeOK
        <4> QED
          BY <1>5, <4>1, <4>2
      <3> QED
        BY <3>1, <3>2, <3>3
    <2>8. SameBuffer
      BY <1>12
      DEF vars, bufferVars, stateVars, curlVars, countVars, readVars,
          ContinueBuffering
    <2>9. TypeOK'
      BY <1>1, <1>12, <2>1, <2>2
      DEF TypeOK, vars, bufferVars, stateVars, curlVars, countVars, readVars,
          ContinueBuffering
    <2> QED
      BY <1>0, <2>8, <2>9 DEF TypeInv
  <1>13. CASE StaleCallback
    <2>1. posted' \in Seq(Posted)
      BY <1>1, <1>13, TakenFacts DEF StaleCallback, TypeOK
    <2>8. SameBuffer
      BY <1>13
      DEF vars, bufferVars, stateVars, curlVars, countVars, readVars,
          StaleCallback
    <2>9. TypeOK'
      BY <1>1, <1>13, <2>1
      DEF TypeOK, vars, bufferVars, stateVars, curlVars, countVars, readVars,
          StaleCallback
    <2> QED
      BY <1>0, <2>8, <2>9 DEF TypeInv
  <1>14. CASE DidReceiveResponse
    <2>1. posted' \in Seq(Posted)
      BY <1>3, <1>14 DEF DidReceiveResponse, TakesCurrent
    <2>2. /\ transfer' \in Transfer /\ requests' \in Nat /\ m_curlRequest' \in 0 .. requests'
          /\ m_redirectCount' \in Nat /\ m_event' \in BOOLEAN
      <3>1. CASE Head(posted).redirect /\ m_redirectCount > maxRedirects
        <4>1. m_redirectCount \in Nat
          BY <1>1 DEF TypeOK
        <4>2. /\ m_redirectCount' = m_redirectCount + 1 /\ m_event' = TRUE
              /\ UNCHANGED <<m_curlRequest, transfer, requests>>
          BY <1>14, <3>1, <4>1, SizesAssumption
          DEF DidReceiveResponse, curlVars
        <4> QED
          BY <1>1, <4>1, <4>2 DEF TypeOK
      <3>2. CASE Head(posted).redirect /\ ~(m_redirectCount > maxRedirects)
        <4>1. /\ StartRequest(m_bufferPositionAbs) /\ UNCHANGED m_event
              /\ m_redirectCount' = m_redirectCount + 1
          BY <1>14, <3>2 DEF DidReceiveResponse
        <4>2. m_bufferPositionAbs \in Nat /\ m_redirectCount' \in Nat /\ m_event \in BOOLEAN
          BY <1>1, <4>1 DEF TypeOK
        <4> QED
          BY <1>5, <4>1, <4>2
      <3>3. CASE ~Head(posted).redirect
        <4>1. /\ transfer' = [transfer EXCEPT !.state = "open"]
              /\ UNCHANGED <<m_redirectCount, m_event, m_curlRequest, requests>>
          BY <1>14, <3>3 DEF DidReceiveResponse
        <4>2. "open" \in TransferState
          BY DEF TransferState
        <4> QED
          BY <1>1, <1>2, <4>1, <4>2, TransferFacts DEF TypeOK
      <3> QED
        BY <3>1, <3>2, <3>3
    <2>8. SameBuffer
      BY <1>14
      DEF vars, bufferVars, stateVars, curlVars, countVars, readVars,
          DidReceiveResponse
    <2>9. TypeOK'
      BY <1>1, <1>14, <2>1, <2>2
      DEF TypeOK, vars, bufferVars, stateVars, curlVars, countVars, readVars,
          DidReceiveResponse
    <2> QED
      BY <1>0, <2>8, <2>9 DEF TypeInv
  <1>15. CASE DidReceiveBuffer
    <2> DEFINE chunk == Head(posted).chunk
               suspends == m_bufferSize + chunk.size > m_readAhead /\ ~m_isPaused
    <2>1. posted' \in Seq(Posted) /\ chunk \in Chunk
      BY <1>3, <1>15, PostedFacts DEF DidReceiveBuffer, TakesCurrent
    <2>2. /\ m_buffer' = Append(m_buffer, chunk)
          /\ m_bufferSize' = m_bufferSize + chunk.size
          /\ m_isPaused' = (m_isPaused \/ suspends)
          /\ transfer' = [transfer EXCEPT !.suspended = @ \/ suspends]
          /\ m_event' = TRUE
          /\ UNCHANGED <<m_bufferRead, m_bufferPositionAbs, m_finishedLoading,
                   m_redirectCount, m_dead, m_seekProcessed, m_curlRequest,
                   requests, countVars, readVars>>
      BY <1>15 DEF DidReceiveBuffer
    <2>3. m_isPaused' \in BOOLEAN
      BY <2>2
    <2>4. transfer' \in Transfer
      <3>1. transfer' = [transfer EXCEPT !.suspended = transfer.suspended \/ suspends]
        BY <2>2
      <3>2. (transfer.suspended \/ suspends) \in BOOLEAN
        OBVIOUS
      <3> HIDE DEF suspends
      <3> QED
        BY <1>2, <3>1, <3>2, TransferFacts
    <2> HIDE DEF suspends, chunk
    <2>5. chunk.size \in Nat /\ chunk.size > 0
      BY <2>1, ChunkSize
    <2>6. m_buffer \in Seq(Chunk) /\ m_bufferSize \in Nat
      BY <1>1 DEF TypeOK
    <2>7. m_buffer' \in Seq(Chunk) /\ m_bufferSize' \in Nat
      BY <2>1, <2>2, <2>5, <2>6, AppendProperties
    <2>8. TypeOK'
      BY <1>1, <2>1, <2>2, <2>3, <2>4, <2>7 DEF TypeOK, countVars, readVars
    <2>9. SizeInv'
      <3>1. PICK f : Sums(f, m_buffer) /\ f[0] = m_bufferSize
        BY DEF TypeInv, SizeInv
      <3>2. \E h : Sums(h, Append(m_buffer, chunk)) /\ h[0] = f[0] + chunk.size
        BY <2>1, <2>6, <3>1, SumsAppend
      <3> QED
        BY <2>2, <3>1, <3>2 DEF SizeInv
    <2>10. FrontInv'
      <3>1. m_buffer' # <<>>
        BY <2>1, <2>2, <2>6, AppendProperties
      <3>2. CASE m_buffer = <<>>
        <4>1. Head(m_buffer') = chunk /\ m_bufferRead' = 0
          BY <2>1, <2>2, <3>2 DEF TypeInv, FrontInv
        <4> QED
          BY <2>5, <3>1, <4>1 DEF FrontInv
      <3>3. CASE m_buffer # <<>>
        <4>1. Head(m_buffer') = Head(m_buffer)
          BY <2>1, <2>2, <2>6, <3>3, AppendHead
        <4> QED
          BY <2>2, <3>1, <3>3, <4>1 DEF TypeInv, FrontInv
      <3> QED
        BY <3>2, <3>3
    <2> QED
      BY <2>8, <2>9, <2>10 DEF TypeInv
  <1>16. CASE DidComplete
    <2>1. posted' \in Seq(Posted)
      BY <1>3, <1>16 DEF DidComplete, TakesCurrent
    <2>2. transfer' \in Transfer /\ requests' \in Nat /\ m_curlRequest' \in 0 .. requests'
      BY <1>6, <1>16 DEF DidComplete
    <2>8. SameBuffer
      BY <1>16
      DEF vars, bufferVars, stateVars, curlVars, countVars, readVars,
          DidComplete
    <2>9. TypeOK'
      BY <1>1, <1>16, <2>1, <2>2
      DEF TypeOK, vars, bufferVars, stateVars, curlVars, countVars, readVars,
          DidComplete
    <2> QED
      BY <1>0, <2>8, <2>9 DEF TypeInv
  <1>17. CASE DidFail
    <2>1. posted' \in Seq(Posted)
      BY <1>3, <1>17 DEF DidFail, TakesCurrent
    <2>2. transfer' \in Transfer /\ requests' \in Nat /\ m_curlRequest' \in 0 .. requests'
      BY <1>6, <1>17 DEF DidFail
    <2>8. SameBuffer
      BY <1>17
      DEF vars, bufferVars, stateVars, curlVars, countVars, readVars, DidFail
    <2>9. TypeOK'
      BY <1>1, <1>17, <2>1, <2>2
      DEF TypeOK, vars, bufferVars, stateVars, curlVars, countVars, readVars,
          DidFail
    <2> QED
      BY <1>0, <2>8, <2>9 DEF TypeInv
  <1>18. CASE Die
    <2>2. transfer' \in Transfer /\ requests' \in Nat /\ m_curlRequest' \in 0 .. requests'
      BY <1>6, <1>18 DEF Die
    <2>8. SameBuffer
      BY <1>18
      DEF vars, bufferVars, stateVars, curlVars, countVars, readVars, Die
    <2>9. TypeOK'
      BY <1>1, <1>18, <2>2
      DEF TypeOK, vars, bufferVars, stateVars, curlVars, countVars, readVars,
          Die
    <2> QED
      BY <1>0, <2>8, <2>9 DEF TypeInv
  <1>19. ASSUME NEW redirect \in BOOLEAN, Responds(redirect) PROVE TypeInv'
    <2>1. posted' \in Seq(Posted)
      <3>1. [do |-> "response", req |-> m_curlRequest, redirect |-> redirect] \in Posted
        BY <1>2, NewPosted
      <3> QED
        BY <1>4, <1>19, <3>1 DEF Responds, Post
    <2>2. "answered" \in TransferState
      BY DEF TransferState
    <2>3. transfer' \in Transfer
      BY <1>2, <1>19, <2>2, TransferFacts DEF Responds
    <2>4. redirections' \in 0 .. MaxRedirections
      BY <1>1, <1>19, BoundsAssumption DEF Responds, TypeOK
    <2>8. SameBuffer
      BY <1>19 DEF TransferUnchanged, Responds
    <2>9. TypeOK'
      BY <1>1, <1>19, <2>1, <2>3, <2>4
      DEF TypeOK, TransferUnchanged, vars, bufferVars, stateVars, curlVars,
          countVars, readVars, Responds
    <2> QED
      BY <1>0, <2>8, <2>9 DEF TypeInv
  <1>20. ASSUME NEW len \in 1 .. MaxChunk, Delivers(len) PROVE TypeInv'
    <2>1. len \in Nat /\ transfer.pos \in Nat
      BY <1>2, TransferFacts, SizesAssumption
    <2>2. posted' \in Seq(Posted)
      <3>1. [from |-> transfer.pos, size |-> len] \in Chunk
        BY <2>1 DEF Chunk
      <3>2. [do |-> "data", req |-> m_curlRequest,
              chunk |-> [from |-> transfer.pos, size |-> len]] \in Posted
        BY <1>2, <3>1, NewPosted
      <3> QED
        BY <1>4, <1>20, <3>2 DEF Delivers, Post
    <2>3. transfer' \in Transfer
      <3>1. transfer' = [transfer EXCEPT !.pos = transfer.pos + len] /\ transfer.pos + len \in Nat
        BY <1>20, <2>1 DEF Delivers
      <3> QED
        BY <1>2, <3>1, TransferFacts
    <2>8. SameBuffer
      BY <1>20 DEF TransferUnchanged, Delivers
    <2>9. TypeOK'
      BY <1>1, <1>20, <2>2, <2>3
      DEF TypeOK, TransferUnchanged, vars, bufferVars, stateVars, curlVars,
          countVars, readVars, Delivers
    <2> QED
      BY <1>0, <2>8, <2>9 DEF TypeInv
  <1>21. CASE Completes
    <2>1. posted' \in Seq(Posted)
      <3>1. [do |-> "complete", req |-> m_curlRequest] \in Posted
        BY <1>2, NewPosted
      <3> QED
        BY <1>4, <1>21, <3>1 DEF Completes, Post
    <2>2. "over" \in TransferState
      BY DEF TransferState
    <2>3. transfer' \in Transfer
      BY <1>2, <1>21, <2>2, TransferFacts DEF Completes
    <2>8. SameBuffer
      BY <1>21 DEF TransferUnchanged, Completes
    <2>9. TypeOK'
      BY <1>1, <1>21, <2>1, <2>3
      DEF TypeOK, TransferUnchanged, vars, bufferVars, stateVars, curlVars,
          countVars, readVars, Completes
    <2> QED
      BY <1>0, <2>8, <2>9 DEF TypeInv
  <1>22. CASE Fails
    <2>1. posted' \in Seq(Posted)
      <3>1. [do |-> "fail", req |-> m_curlRequest] \in Posted
        BY <1>2, NewPosted
      <3> QED
        BY <1>4, <1>22, <3>1 DEF Fails, Post
    <2>2. "over" \in TransferState
      BY DEF TransferState
    <2>3. transfer' \in Transfer
      BY <1>2, <1>22, <2>2, TransferFacts DEF Fails
    <2>4. failures' \in 0 .. MaxFailures
      BY <1>1, <1>22, BoundsAssumption DEF Fails, TypeOK
    <2>8. SameBuffer
      BY <1>22 DEF TransferUnchanged, Fails
    <2>9. TypeOK'
      BY <1>1, <1>22, <2>1, <2>3, <2>4
      DEF TypeOK, TransferUnchanged, vars, bufferVars, stateVars, curlVars,
          countVars, readVars, Fails
    <2> QED
      BY <1>0, <2>8, <2>9 DEF TypeInv
  <1>23. CASE SeekDone
    <2>8. SameBuffer
      BY <1>23
      DEF vars, bufferVars, stateVars, curlVars, countVars, readVars, SeekDone
    <2>9. TypeOK'
      BY <1>1, <1>23
      DEF TypeOK, vars, bufferVars, stateVars, curlVars, countVars, readVars,
          SeekDone
    <2> QED
      BY <1>0, <2>8, <2>9 DEF TypeInv
  <1>24. CASE ReadLocked
    <2>1. CASE m_buffer = <<>>
      <3>1. SameBuffer /\ canReadMore' = FALSE /\ UNCHANGED <<sizeWritten, resume>>
        BY <1>24, <2>1 DEF ReadLocked, bufferVars
      <3>2. TypeOK'
        BY <1>1, <1>24, <3>1
        DEF TypeOK, ReadLocked, stateVars, bufferVars, curlVars, countVars
      <3> QED
        BY <1>0, <3>1, <3>2 DEF TypeInv
    <2>2. CASE m_buffer # <<>>
      <3> DEFINE front == Head(m_buffer)
      <3>1. CopyFrontChunk
        BY <1>24, <2>2 DEF ReadLocked
      <3>2. PICK write \in Nat :
             /\ m_bufferPositionAbs' = m_bufferPositionAbs + write
             /\ sizeWritten' = sizeWritten + write /\ sizeWritten' \in 0 .. ReadSize
             /\ m_bufferRead + write <= front.size
             /\ \/ /\ m_bufferRead + write = front.size
                   /\ m_buffer' = Tail(m_buffer)
                   /\ m_bufferSize' = m_bufferSize - front.size
                   /\ m_bufferRead' = 0
                   /\ resume' \in BOOLEAN
                \/ /\ m_bufferRead + write < front.size
                   /\ m_bufferRead' = m_bufferRead + write
                   /\ UNCHANGED <<m_buffer, m_bufferSize, resume>>
             /\ canReadMore' \in BOOLEAN
        BY <2>2, <3>1, CopyFacts
      <3>3. /\ m_buffer \in Seq(Chunk) /\ m_bufferSize \in Nat /\ m_bufferRead \in Nat
            /\ m_bufferPositionAbs \in Nat
        BY <1>1 DEF TypeOK
      <3>4. front \in Chunk /\ Tail(m_buffer) \in Seq(Chunk)
        BY <2>2, <3>3, HeadTailProperties
      <3>5. front.size \in Nat /\ front.size <= MaxChunk
        BY <3>4, ChunkSize
      <3>6. PICK f : Sums(f, m_buffer) /\ f[0] = m_bufferSize
        BY DEF TypeInv, SizeInv
      <3>7. \E h : Sums(h, Tail(m_buffer)) /\ h[0] = m_bufferSize - front.size
        <4>1. \E h : Sums(h, Tail(m_buffer)) /\ h[0] = f[1] /\ f[0] = f[1] + front.size
          BY <2>2, <3>3, <3>6, SumsTail
        <4>2. PICK h : Sums(h, Tail(m_buffer)) /\ h[0] = f[1] /\ f[0] = f[1] + front.size
          BY <4>1
        <4>3. h[0] \in Nat
          <5>1. Len(Tail(m_buffer)) \in Nat
            BY <3>4, LenProperties
          <5>2. 0 \in 0 .. Len(Tail(m_buffer))
            BY <5>1
          <5> QED
            BY <4>2, <5>2 DEF Sums
        <4> QED
          BY <3>3, <3>5, <3>6, <4>2, <4>3
      <3>8. m_bufferSize - front.size \in Nat
        <4>1. PICK h : Sums(h, Tail(m_buffer)) /\ h[0] = m_bufferSize - front.size
          BY <3>7
        <4>2. Len(Tail(m_buffer)) \in Nat
          BY <3>4, LenProperties
        <4>3. 0 \in 0 .. Len(Tail(m_buffer))
          BY <4>2
        <4> QED
          BY <4>1, <4>3 DEF Sums
      <3>9. /\ rpc' = "check"
            /\ UNCHANGED <<stateVars, m_seekProcessed, m_event, curlVars, posted,
                   countVars, readPosition>>
        BY <1>24 DEF ReadLocked
      <3> HIDE DEF front
      <3>10. CASE m_bufferRead + write = front.size
        <4>0. ~(m_bufferRead + write < front.size)
          BY <3>3, <3>5, <3>10
        <4>1. /\ m_buffer' = Tail(m_buffer) /\ m_bufferRead' = 0 /\ resume' \in BOOLEAN
              /\ m_bufferSize' = m_bufferSize - front.size
          BY <3>2, <4>0
        <4>2. 0 \in 0 .. MaxChunk /\ m_bufferPositionAbs' \in Nat
          BY <3>2, <3>3, SizesAssumption
        <4>3. TypeOK'
          BY <1>1, <3>2, <3>4, <3>8, <3>9, <4>1, <4>2
          DEF TypeOK, stateVars, curlVars, countVars
        <4>4. SizeInv'
          BY <3>7, <4>1 DEF SizeInv
        <4>5. FrontInv'
          <5>1. ASSUME Tail(m_buffer) # <<>> PROVE 0 < Head(Tail(m_buffer)).size
            <6>1. Head(Tail(m_buffer)) \in Chunk
              BY <3>4, <5>1, HeadTailProperties
            <6> QED
              BY <6>1, ChunkSize
          <5> QED
            BY <4>1, <5>1 DEF FrontInv
        <4> QED
          BY <4>3, <4>4, <4>5 DEF TypeInv
      <3>11. CASE m_bufferRead + write < front.size
        <4>0. m_bufferRead + write # front.size
          BY <3>3, <3>5, <3>11
        <4>1. m_bufferRead' = m_bufferRead + write /\ UNCHANGED <<m_buffer, m_bufferSize, resume>>
          BY <3>2, <4>0
        <4>2. m_bufferRead' \in 0 .. MaxChunk /\ m_bufferPositionAbs' \in Nat
          BY <3>2, <3>3, <3>5, <3>11, <4>1, SizesAssumption
        <4>3. TypeOK'
          BY <1>1, <3>2, <3>9, <4>1, <4>2
          DEF TypeOK, stateVars, curlVars, countVars
        <4>4. SizeInv'
          BY <4>1 DEF TypeInv, SizeInv
        <4>5. FrontInv'
          BY <2>2, <3>11, <4>1 DEF FrontInv, front
        <4> QED
          BY <4>3, <4>4, <4>5 DEF TypeInv
      <3> QED
        BY <3>2, <3>10, <3>11
    <2> QED
      BY <2>1, <2>2
  <1>25. CASE ReadChecks
    <2>1. [do |-> "continue"] \in Posted
      BY NewPosted
    <2>2. posted' \in Seq(Posted)
      BY <1>1, <1>4, <1>25, <2>1 DEF ReadChecks, Post, TypeOK
    <2>8. SameBuffer
      BY <1>25
      DEF vars, bufferVars, stateVars, curlVars, countVars, readVars,
          ReadChecks
    <2>9. TypeOK'
      BY <1>1, <1>25, <2>2
      DEF TypeOK, vars, bufferVars, stateVars, curlVars, countVars, readVars,
          ReadChecks
    <2> QED
      BY <1>0, <2>8, <2>9 DEF TypeInv
  <1>26. CASE ReadWakes
    <2>8. SameBuffer
      BY <1>26
      DEF vars, bufferVars, stateVars, curlVars, countVars, readVars, ReadWakes
    <2>9. TypeOK'
      BY <1>1, <1>26
      DEF TypeOK, vars, bufferVars, stateVars, curlVars, countVars, readVars,
          ReadWakes
    <2> QED
      BY <1>0, <2>8, <2>9 DEF TypeInv
  <1>27. CASE ReadReturnsStep
    <2>1. [do |-> "continue"] \in Posted
      BY NewPosted
    <2>2. posted' \in Seq(Posted)
      BY <1>1, <1>4, <1>27, <2>1 DEF ReadReturnsStep, Post, TypeOK
    <2>8. SameBuffer
      BY <1>27
      DEF vars, bufferVars, stateVars, curlVars, countVars, readVars,
          ReadReturnsStep
    <2>9. TypeOK'
      BY <1>1, <1>27, <2>2
      DEF TypeOK, vars, bufferVars, stateVars, curlVars, countVars, readVars,
          ReadReturnsStep
    <2> QED
      BY <1>0, <2>8, <2>9 DEF TypeInv
  <1>28. ASSUME NEW pos \in -1 .. Length, ReadOn(pos) PROVE TypeInv'
    <2>1. pos \in Nat \cup {-1} /\ 0 \in 0 .. ReadSize
      BY SizesAssumption
    <2>8. SameBuffer
      BY <1>28 DEF ReadOn, BeginRead
    <2>9. TypeOK'
      BY <1>1, <1>28, <2>1
      DEF TypeOK, ReadOn, BeginRead, vars, bufferVars, stateVars, curlVars,
          countVars, readVars
    <2> QED
      BY <1>0, <2>8, <2>9 DEF TypeInv
  <1>29. ASSUME NEW pos \in -1 .. Length, ReadElsewhere(pos) PROVE TypeInv'
    <2>1. pos \in Nat /\ 0 \in 0 .. ReadSize
      BY <1>29, SizesAssumption DEF ReadElsewhere
    <2>2. [do |-> "start", from |-> pos] \in Posted
      BY <2>1, NewPosted
    <2>3. posted' \in Seq(Posted)
      BY <1>4, <1>29, <2>2 DEF ReadElsewhere, Post
    <2>4. seeks' \in 0 .. MaxSeeks
      BY <1>1, <1>29, BoundsAssumption DEF ReadElsewhere, TypeOK
    <2>8. SameBuffer
      BY <1>29 DEF ReadElsewhere, BeginRead
    <2>9. TypeOK'
      BY <1>1, <1>29, <2>1, <2>3, <2>4
      DEF TypeOK, ReadElsewhere, BeginRead, vars, bufferVars, stateVars,
          curlVars, countVars, readVars
    <2> QED
      BY <1>0, <2>8, <2>9 DEF TypeInv
  <1>30. CASE UNCHANGED vars
    <2>8. SameBuffer
      BY <1>30 DEF vars
    <2>9. TypeOK'
      BY <1>1, <1>30
      DEF TypeOK, vars, bufferVars, stateVars, curlVars, countVars, readVars
    <2> QED
      BY <1>0, <2>8, <2>9 DEF TypeInv
  <1> QED
    BY <1>11, <1>12, <1>13, <1>14, <1>15, <1>16, <1>17, <1>18, <1>19, <1>20,
       <1>21, <1>22, <1>23, <1>24, <1>25, <1>26, <1>27, <1>28, <1>29, <1>30
    DEF Next, MainStep, TransferStep, InRead, CallsRead

\* The first state.
LEMMA InitTypes == Init => TypeInv
  <1> SUFFICES ASSUME Init PROVE TypeInv
    OBVIOUS
  <1>1. Connecting(0) \in Transfer
    BY DEF Connecting, Transfer, TransferState
  <1>2. TypeOK
    <2>1. /\ 0 \in 0 .. MaxChunk /\ 0 \in 0 .. ReadSize /\ 0 \in 0 .. MaxSeeks
          /\ 0 \in 0 .. MaxFailures /\ 0 \in 0 .. MaxRedirections
      BY SizesAssumption, BoundsAssumption
    <2>2. <<>> \in Seq(Chunk) /\ <<>> \in Seq(Posted) /\ 1 \in 0 .. 1
      OBVIOUS
    <2> QED
      BY <1>1, <2>1, <2>2 DEF Init, TypeOK
  <1>3. SizeInv /\ FrontInv
    BY SumsEmpty DEF Init, SizeInv, FrontInv
  <1> QED
    BY <1>2, <1>3 DEF TypeInv

\* read() and the callbacks keep the types: m_bufferSize never goes below zero
\* and read() stays within its chunk and the caller's memory, for every resource,
\* chunk size, read size and number of seeks, failures and redirects.
THEOREM TypeCorrect == Spec => []TypeOK
  <1>1. Init => TypeInv
    BY InitTypes
  <1>2. TypeInv /\ [Next]_vars => TypeInv'
    BY TypeStep
  <1>3. TypeInv => TypeOK
    BY DEF TypeInv
  <1> QED
    BY <1>1, <1>2, <1>3, PTL DEF Spec

(***************************************************************************)
(* Seeking.  While read() waits for its seek, the start() it has posted is *)
(* the only one on its way to the main thread and is for the position that *)
(* was asked for; at any other time there is none, so that nothing moves   *)
(* the buffer under a read() that is copying.                              *)
(***************************************************************************)

StartPosts == {x \in Posted : x.do = "start"}

\* n calls of start() are on their way in p, all of them for pos.
Starts(p, pos, n) ==
    /\ Hits(p, StartPosts) = n
    /\ \A x \in Range(p) : x.do = "start" => x.from = pos

\* Another function or callback is posted,
LEMMA StartsAppend ==
    ASSUME NEW p \in Seq(Posted), NEW x \in Posted, x.do # "start",
           NEW pos, NEW n, Starts(p, pos, n)
    PROVE  Starts(Append(p, x), pos, n)
  <1>1. Hits(p, StartPosts) \in Nat
    BY HitsType
  <1>2. Hits(Append(p, x), StartPosts) = Hits(p, StartPosts) + 0
    BY HitsAppend DEF StartPosts
  <1>3. Range(Append(p, x)) = Range(p) \cup {x}
    BY RangeAppend
  <1> QED
    BY <1>1, <1>2, <1>3 DEF Starts

\* or taken.
LEMMA StartsTail ==
    ASSUME NEW p \in Seq(Posted), p # <<>>, Head(p).do # "start",
           NEW pos, NEW n, Starts(p, pos, n)
    PROVE  Starts(Tail(p), pos, n)
  <1>1. Hits(p, StartPosts) \in Nat
    BY HitsType
  <1>2. Hits(Tail(p), StartPosts) = Hits(p, StartPosts) - 0
    BY HitsTail DEF StartPosts
  <1>3. Range(p) = Range(Tail(p)) \cup {Head(p)}
    BY RangeTail
  <1> QED
    BY <1>1, <1>2, <1>3 DEF Starts

\* None is on its way: read() may ask for any position.
LEMMA StartsNone ==
    ASSUME NEW p \in Seq(Posted), NEW old, Starts(p, old, 0)
    PROVE  /\ \A x \in Range(p) : x.do # "start"
           /\ \A pos : Starts(p, pos, 0)
  <1>1. \A i \in DOMAIN p : p[i] \notin StartPosts
    BY HitsType DEF Starts
  <1>2. ASSUME NEW x \in Range(p) PROVE x.do # "start"
    <2>1. PICK i \in DOMAIN p : x = p[i]
      BY DEF Range
    <2>2. x \in Posted
      BY <2>1, ElementOfSeq, LenProperties
    <2> QED
      BY <1>1, <2>1, <2>2 DEF StartPosts
  <1> QED
    BY <1>2 DEF Starts

\* read() posts start().
LEMMA StartsNew ==
    ASSUME NEW p \in Seq(Posted), NEW old, Starts(p, old, 0), NEW pos \in Nat
    PROVE  Starts(Append(p, [do |-> "start", from |-> pos]), pos, 1)
  <1> DEFINE x == [do |-> "start", from |-> pos]
  <1>1. x \in Posted /\ x.do = "start" /\ x.from = pos
    BY NewPosted
  <1> HIDE DEF x
  <1>2. Hits(p, StartPosts) = 0 /\ x \in StartPosts
    BY <1>1 DEF Starts, StartPosts
  <1>3. Hits(Append(p, x), StartPosts) = Hits(p, StartPosts) + 1
    BY <1>1, <1>2, HitsAppend
  <1>4. Range(Append(p, x)) = Range(p) \cup {x}
    BY <1>1, RangeAppend
  <1>5. \A y \in Range(p) : y.do # "start"
    BY StartsNone
  <1>6. Starts(Append(p, x), pos, 1)
    BY <1>1, <1>2, <1>3, <1>4, <1>5 DEF Starts
  <1> QED
    BY <1>6 DEF x

\* The main thread takes start().
LEMMA StartsTaken ==
    ASSUME NEW p \in Seq(Posted), p # <<>>, Head(p).do = "start",
           NEW pos, NEW n \in {0, 1}, Starts(p, pos, n)
    PROVE  n = 1 /\ Head(p).from = pos /\ Starts(Tail(p), pos, 0)
  <1>1. Head(p) \in Posted /\ Tail(p) \in Seq(Posted)
    BY HeadTailProperties
  <1>2. Head(p) \in StartPosts
    BY <1>1 DEF StartPosts
  <1>3. Hits(Tail(p), StartPosts) = Hits(p, StartPosts) - 1
    BY <1>2, HitsTail
  <1>4. Hits(Tail(p), StartPosts) \in Nat
    BY <1>1, HitsType
  <1>5. Range(p) = Range(Tail(p)) \cup {Head(p)}
    BY RangeTail
  <1>6. Hits(p, StartPosts) = n
    BY DEF Starts
  <1>7. n = 1 /\ Hits(Tail(p), StartPosts) = 0
    BY <1>3, <1>4, <1>6
  <1> QED
    BY <1>5, <1>7 DEF Starts

\* The starts that read() still waits for.
Awaited == IF rpc = "seek" /\ ~m_seekProcessed THEN 1 ELSE 0

\* A read() that seeks knows where to, and finds the buffer there afterwards.
SeekArrives ==
    rpc = "seek" =>
        /\ readPosition # -1 /\ sizeWritten = 0
        /\ m_seekProcessed => m_bufferPositionAbs = readPosition

SeekInv ==
    ~m_dead => /\ Starts(posted, readPosition, Awaited)
               /\ SeekArrives
               /\ ReadsWhereAsked

\* Every action keeps the position that was asked for.
LEMMA SeekStep == ASSUME TypeInv, SeekInv, [Next]_vars PROVE SeekInv'
  <1> DEFINE Same == UNCHANGED <<rpc, readPosition, sizeWritten, m_seekProcessed,
                                 m_bufferPositionAbs>>
  <1>0. SUFFICES ASSUME ~m_dead' PROVE SeekInv'
    BY DEF SeekInv
  <1>1. TypeOK
    BY DEF TypeInv
  <1>2. posted \in Seq(Posted)
    BY <1>1 DEF TypeOK
  <1>3. Awaited \in {0, 1}
    BY DEF Awaited
  <1>4. ~m_dead
    BY <1>0 DEF Next, MainStep, TransferStep, InRead, CallsRead, Start,
       ContinueBuffering, StaleCallback, DidReceiveResponse, DidReceiveBuffer,
       DidComplete, DidFail, Die, Responds, Delivers, Completes, Fails, SeekDone,
       ReadLocked, ReadChecks, ReadWakes, ReadReturnsStep, ReadOn, ReadElsewhere,
       BeginRead, TransferUnchanged, stateVars, vars
  <1>5. Starts(posted, readPosition, Awaited) /\ SeekArrives /\ ReadsWhereAsked
    BY <1>4 DEF SeekInv
  <1>6. ASSUME Same
        PROVE  /\ Awaited' = Awaited /\ SeekArrives' /\ readPosition' = readPosition
               /\ ReadsWhereAsked'
    BY <1>4, <1>5, <1>6 DEF Awaited, SeekArrives, ReadsWhereAsked
  <1>7. ASSUME Same, UNCHANGED posted PROVE SeekInv'
    BY <1>5, <1>6, <1>7 DEF SeekInv
  <1>8. ASSUME Same, NEW do, Takes(do), do # "start" PROVE SeekInv'
    <2>1. Starts(posted', readPosition, Awaited)
      BY <1>2, <1>5, <1>8, StartsTail DEF Takes
    <2> QED
      BY <1>6, <1>8, <2>1 DEF SeekInv
  <1>9. ASSUME Same, NEW x \in Posted, posted' = Append(posted, x), x.do # "start"
        PROVE  SeekInv'
    <2>1. Starts(posted', readPosition, Awaited)
      BY <1>2, <1>5, <1>9, StartsAppend
    <2> QED
      BY <1>6, <1>9, <2>1 DEF SeekInv
  <1>10. m_curlRequest \in Nat /\ transfer.pos \in Nat
    BY <1>1, TransferFacts DEF TypeOK
  <1>11. CASE Start
    <2>1. posted # <<>> /\ Head(posted).do = "start" /\ posted' = Tail(posted)
      BY <1>11 DEF Start, Takes
    <2>2. Awaited = 1 /\ Head(posted).from = readPosition /\ Starts(posted', readPosition, 0)
      BY <1>2, <1>3, <1>5, <2>1, StartsTaken
    <2>3. /\ rpc = "seek" /\ rpc' = rpc /\ readPosition' = readPosition
          /\ sizeWritten' = sizeWritten /\ m_seekProcessed' = TRUE
          /\ m_bufferPositionAbs' = readPosition
      BY <1>4, <1>11, <2>2 DEF Start, Awaited, readVars
    <2>4. Awaited' = 0 /\ SeekArrives' /\ ReadsWhereAsked'
      BY <1>5, <2>3 DEF Awaited, SeekArrives, ReadsWhereAsked
    <2> QED
      BY <2>2, <2>3, <2>4 DEF SeekInv
  <1>12. CASE ContinueBuffering
    <2>1. Same /\ Takes("continue")
      BY <1>12 DEF ContinueBuffering, bufferVars, readVars
    <2> QED
      BY <1>8, <2>1
  <1>13. CASE StaleCallback
    <2>1. Same /\ Takes(Head(posted).do) /\ Head(posted).do # "start"
      BY <1>13 DEF StaleCallback, Takes, bufferVars, readVars
    <2> QED
      BY <1>8, <2>1
  <1>14. CASE DidReceiveResponse
    <2>1. Same /\ Takes("response")
      BY <1>14 DEF DidReceiveResponse, TakesCurrent, bufferVars, readVars
    <2> QED
      BY <1>8, <2>1
  <1>15. CASE DidReceiveBuffer
    <2>1. Same /\ Takes("data")
      BY <1>15 DEF DidReceiveBuffer, TakesCurrent, bufferVars, readVars
    <2> QED
      BY <1>8, <2>1
  <1>16. CASE DidComplete
    <2>1. Same /\ Takes("complete")
      BY <1>16 DEF DidComplete, TakesCurrent, bufferVars, readVars
    <2> QED
      BY <1>8, <2>1
  <1>17. CASE DidFail
    <2>1. Same /\ Takes("fail")
      BY <1>17 DEF DidFail, TakesCurrent, bufferVars, readVars
    <2> QED
      BY <1>8, <2>1
  <1>18. CASE Die
    BY <1>0, <1>18 DEF Die
  <1>19. ASSUME NEW redirect \in BOOLEAN, Responds(redirect) PROVE SeekInv'
    <2>1. Same
      BY <1>19 DEF Responds, TransferUnchanged, bufferVars, readVars
    <2>3. [do |-> "response", req |-> m_curlRequest, redirect |-> redirect] \in Posted
      BY <1>10, NewPosted
    <2>4. posted' =
             Append(posted, [do |-> "response", req |-> m_curlRequest, redirect |-> redirect])
      BY <1>19 DEF Responds, Post
    <2> QED
      BY <1>9, <2>1, <2>3, <2>4
  <1>20. ASSUME NEW len \in 1 .. MaxChunk, Delivers(len) PROVE SeekInv'
    <2>1. Same
      BY <1>20 DEF Delivers, TransferUnchanged, bufferVars, readVars
    <2>2. [from |-> transfer.pos, size |-> len] \in Chunk
      BY <1>10, SizesAssumption DEF Chunk
    <2>3. [do |-> "data", req |-> m_curlRequest,
           chunk |-> [from |-> transfer.pos, size |-> len]] \in Posted
      BY <1>10, <2>2, NewPosted
    <2>4. posted' = Append(posted, [do |-> "data", req |-> m_curlRequest,
           chunk |-> [from |-> transfer.pos, size |-> len]])
      BY <1>20 DEF Delivers, Post
    <2> QED
      BY <1>9, <2>1, <2>3, <2>4
  <1>21. CASE Completes
    <2>1. Same
      BY <1>21 DEF Completes, TransferUnchanged, bufferVars, readVars
    <2>3. [do |-> "complete", req |-> m_curlRequest] \in Posted
      BY <1>10, NewPosted
    <2>4. posted' = Append(posted, [do |-> "complete", req |-> m_curlRequest])
      BY <1>21 DEF Completes, Post
    <2> QED
      BY <1>9, <2>1, <2>3, <2>4
  <1>22. CASE Fails
    <2>1. Same
      BY <1>22 DEF Fails, TransferUnchanged, bufferVars, readVars
    <2>3. [do |-> "fail", req |-> m_curlRequest] \in Posted
      BY <1>10, NewPosted
    <2>4. posted' = Append(posted, [do |-> "fail", req |-> m_curlRequest])
      BY <1>22 DEF Fails, Post
    <2> QED
      BY <1>9, <2>1, <2>3, <2>4
  <1>23. CASE SeekDone
    <2>1. /\ rpc = "seek" /\ m_seekProcessed /\ rpc' = "lock" /\ posted' = posted
          /\ UNCHANGED <<readPosition, sizeWritten, m_bufferPositionAbs, m_seekProcessed>>
      BY <1>4, <1>23 DEF SeekDone, bufferVars
    <2>2. Awaited = 0 /\ Awaited' = 0 /\ SeekArrives'
      BY <2>1 DEF Awaited, SeekArrives
    <2>3. readPosition \in Int
      BY <1>1 DEF TypeOK
    <2>4. ReadsWhereAsked'
      BY <1>5, <2>1, <2>3 DEF ReadsWhereAsked, SeekArrives
    <2> QED
      BY <1>5, <2>1, <2>2, <2>4 DEF SeekInv
  <1>24. CASE ReadLocked
    <2>1. rpc = "lock" /\ rpc' = "check" /\ UNCHANGED <<readPosition, posted>>
      BY <1>24 DEF ReadLocked
    <2>2. Awaited = 0 /\ Awaited' = 0 /\ SeekArrives'
      BY <2>1 DEF Awaited, SeekArrives
    <2>3. readPosition \in Int /\ sizeWritten \in Int /\ m_bufferPositionAbs \in Int
      BY <1>1, SizesAssumption DEF TypeOK
    <2>4. \E write \in Int : /\ m_bufferPositionAbs' = m_bufferPositionAbs + write
                             /\ sizeWritten' = sizeWritten + write
      <3>1. CASE m_buffer = <<>>
        <4>1. m_bufferPositionAbs' = m_bufferPositionAbs + 0 /\ sizeWritten' = sizeWritten + 0
          BY <1>24, <2>3, <3>1 DEF ReadLocked, bufferVars
        <4> QED
          BY <4>1
      <3>2. CASE m_buffer # <<>>
        <4>1. CopyFrontChunk
          BY <1>24, <3>2 DEF ReadLocked
        <4> QED
          BY <3>2, <4>1, CopyFacts
      <3> QED
        BY <3>1, <3>2
    <2>5. ReadsWhereAsked'
      <3>1. readPosition # -1 => m_bufferPositionAbs = readPosition + sizeWritten
        BY <1>4, <1>5, <2>1 DEF ReadsWhereAsked
      <3>2. PICK write \in Int : /\ m_bufferPositionAbs' = m_bufferPositionAbs + write
                                 /\ sizeWritten' = sizeWritten + write
        BY <2>4
      <3>3. readPosition # -1 => m_bufferPositionAbs' = readPosition + sizeWritten'
        BY <2>3, <3>1, <3>2
      <3> QED
        BY <2>1, <3>3 DEF ReadsWhereAsked
    <2> QED
      BY <1>5, <2>1, <2>2, <2>5 DEF SeekInv
  <1>25. CASE ReadChecks
    <2>1. /\ rpc = "check" /\ rpc' \in {"wait", "return", "lock"}
          /\ UNCHANGED <<readPosition, sizeWritten, m_bufferPositionAbs, m_seekProcessed>>
      BY <1>25 DEF ReadChecks, bufferVars
    <2>2. Awaited = 0 /\ Awaited' = 0 /\ SeekArrives' /\ ReadsWhereAsked'
      BY <1>4, <1>5, <2>1 DEF Awaited, SeekArrives, ReadsWhereAsked
    <2>3. posted' = posted \/ posted' = Append(posted, [do |-> "continue"])
      BY <1>25 DEF ReadChecks, Post
    <2>4. Starts(posted', readPosition, 0)
      BY <1>2, <1>5, <2>2, <2>3, NewPosted, StartsAppend
    <2> QED
      BY <2>1, <2>2, <2>4 DEF SeekInv
  <1>26. CASE ReadWakes
    <2>1. /\ rpc = "wait" /\ rpc' = "lock" /\ posted' = posted
          /\ UNCHANGED <<readPosition, sizeWritten, m_bufferPositionAbs, m_seekProcessed>>
      BY <1>26 DEF ReadWakes, bufferVars
    <2>2. Awaited = 0 /\ Awaited' = 0 /\ SeekArrives' /\ ReadsWhereAsked'
      BY <1>4, <1>5, <2>1 DEF Awaited, SeekArrives, ReadsWhereAsked
    <2> QED
      BY <1>5, <2>1, <2>2 DEF SeekInv
  <1>27. CASE ReadReturnsStep
    <2>1. /\ rpc = "return" /\ rpc' = "idle"
          /\ UNCHANGED <<readPosition, sizeWritten, m_bufferPositionAbs, m_seekProcessed>>
      BY <1>27 DEF ReadReturnsStep, bufferVars
    <2>2. Awaited = 0 /\ Awaited' = 0 /\ SeekArrives' /\ ReadsWhereAsked'
      BY <2>1 DEF Awaited, SeekArrives, ReadsWhereAsked
    <2>3. posted' = posted \/ posted' = Append(posted, [do |-> "continue"])
      BY <1>27 DEF ReadReturnsStep, Post
    <2>4. Starts(posted', readPosition, 0)
      BY <1>2, <1>5, <2>2, <2>3, NewPosted, StartsAppend
    <2> QED
      BY <2>1, <2>2, <2>4 DEF SeekInv
  <1>28. ASSUME NEW pos \in -1 .. Length, ReadOn(pos) PROVE SeekInv'
    <2>1. /\ rpc = "idle" /\ rpc' = "lock" /\ posted' = posted /\ readPosition' = pos
          /\ sizeWritten' = 0 /\ m_bufferPositionAbs' = m_bufferPositionAbs
          /\ pos # -1 => m_bufferPositionAbs = pos
      BY <1>28 DEF ReadOn, BeginRead, bufferVars
    <2>2. Awaited = 0 /\ Awaited' = 0 /\ SeekArrives'
      BY <2>1 DEF Awaited, SeekArrives
    <2>3. pos \in Int
      BY SizesAssumption
    <2>4. ReadsWhereAsked'
      BY <2>1, <2>3 DEF ReadsWhereAsked
    <2>5. Starts(posted, pos, 0)
      BY <1>2, <1>5, <2>2, StartsNone
    <2> QED
      BY <2>1, <2>2, <2>4, <2>5 DEF SeekInv
  <1>29. ASSUME NEW pos \in -1 .. Length, ReadElsewhere(pos) PROVE SeekInv'
    <2>1. /\ rpc = "idle" /\ rpc' = "seek" /\ readPosition' = pos
          /\ posted' = Append(posted, [do |-> "start", from |-> pos])
          /\ sizeWritten' = 0 /\ m_seekProcessed' = FALSE /\ pos # -1
      BY <1>29 DEF ReadElsewhere, BeginRead, Post
    <2>2. Awaited = 0 /\ Awaited' = 1 /\ SeekArrives' /\ ReadsWhereAsked'
      BY <2>1 DEF Awaited, SeekArrives, ReadsWhereAsked
    <2>3. pos \in Nat
      BY <2>1, SizesAssumption
    <2>4. Starts(posted', pos, 1)
      BY <1>2, <1>5, <2>1, <2>2, <2>3, StartsNew
    <2> QED
      BY <2>1, <2>2, <2>4 DEF SeekInv
  <1>30. CASE UNCHANGED vars
    <2>1. Same /\ UNCHANGED posted
      BY <1>30 DEF vars, bufferVars, readVars
    <2> QED
      BY <1>7, <2>1
  <1> QED
    BY <1>11, <1>12, <1>13, <1>14, <1>15, <1>16, <1>17, <1>18, <1>19, <1>20,
       <1>21, <1>22, <1>23, <1>24, <1>25, <1>26, <1>27, <1>28, <1>29, <1>30
    DEF Next, MainStep, TransferStep, InRead, CallsRead

\* A read() that was given a position copies from there, for every resource, chunk
\* size, read size and number of seeks, failures and redirects, however late the
\* main thread runs start() and whatever wakes the reader meanwhile.
THEOREM CopiesWhereAsked == Spec => []ReadsWhereAsked
  <1>1. Init => TypeInv /\ SeekInv
    <2> SUFFICES ASSUME Init PROVE SeekInv
      BY InitTypes
    <2>1. Awaited = 0 /\ SeekArrives /\ ReadsWhereAsked
      BY DEF Init, Awaited, SeekArrives, ReadsWhereAsked
    <2>2. posted = <<>> /\ \A x \in Range(posted) : FALSE
      BY DEF Init, Range
    <2>3. Starts(posted, readPosition, 0)
      BY <2>2, HitsEmpty DEF Starts
    <2> QED
      BY <2>1, <2>3 DEF SeekInv
  <1>2. TypeInv /\ SeekInv /\ [Next]_vars => TypeInv' /\ SeekInv'
    BY TypeStep, SeekStep
  <1>3. SeekInv => ReadsWhereAsked
    BY DEF SeekInv, ReadsWhereAsked
  <1> QED
    BY <1>1, <1>2, <1>3, PTL DEF Spec

(***************************************************************************)
(* What is buffered.  As long as no transfer has failed, the chunks follow *)
(* each other up to End, and what the current request has posted continues *)
(* them up to where its transfer is.                                       *)
(***************************************************************************)

\* The data of request c.
DataOf(x, c) == x.do = "data" /\ x.req = c

\* g goes up, from a to b, by every piece of data of request c in p, each of which
\* starts where g is.
Path(g, p, c, a, b) ==
    /\ g \in [0 .. Len(p) -> Int]
    /\ g[0] = a
    /\ g[Len(p)] = b
    /\ \A i \in 1 .. Len(p) :
         /\ DataOf(p[i], c) =>
              p[i].chunk.from = g[i - 1] /\ g[i] = g[i - 1] + p[i].chunk.size
         /\ ~DataOf(p[i], c) => g[i] = g[i - 1]

Stream(p, c, a, b) == \E g : Path(g, p, c, a, b)

\* Something is posted,
LEMMA StreamAppend ==
    ASSUME NEW p \in Seq(Posted), NEW x \in Posted, NEW c, NEW a \in Int, NEW b \in Int,
           Stream(p, c, a, b)
    PROVE  /\ ~DataOf(x, c) => Stream(Append(p, x), c, a, b)
           /\ DataOf(x, c) /\ x.chunk.from = b =>
                Stream(Append(p, x), c, a, b + x.chunk.size)
  <1> DEFINE n == Len(p)
             q == Append(p, x)
  <1>1. PICK g : Path(g, p, c, a, b)
    BY DEF Stream
  <1>2. /\ \A i \in 0 .. n : g[i] \in Int
        /\ g[0] = a /\ g[n] = b
        /\ \A i \in 1 .. n :
             /\ DataOf(p[i], c) =>
                  p[i].chunk.from = g[i - 1] /\ g[i] = g[i - 1] + p[i].chunk.size
             /\ ~DataOf(p[i], c) => g[i] = g[i - 1]
    BY <1>1 DEF Path
  <1>3. n \in Nat /\ Len(q) = n + 1 /\ q[n + 1] = x /\ \A i \in 1 .. n : q[i] = p[i]
    BY AppendProperties, LenProperties
  <1> HIDE DEF n, q
  <1>4. ASSUME NEW d \in Int,
               DataOf(x, c) => x.chunk.from = b /\ d = b + x.chunk.size,
               ~DataOf(x, c) => d = b
        PROVE  Stream(q, c, a, d)
    <2> DEFINE h == [i \in 0 .. n + 1 |-> IF i = n + 1 THEN d ELSE g[i]]
    <2>1. h \in [0 .. n + 1 -> Int] /\ h[n + 1] = d /\ \A i \in 0 .. n : h[i] = g[i]
      BY <1>2, <1>3
    <2> HIDE DEF h
    <2>2. ASSUME NEW i \in 1 .. n + 1
          PROVE  /\ DataOf(q[i], c) =>
                      q[i].chunk.from = h[i - 1] /\ h[i] = h[i - 1] + q[i].chunk.size
                 /\ ~DataOf(q[i], c) => h[i] = h[i - 1]
      <3>1. CASE i = n + 1
        <4>1. i - 1 = n /\ n \in 0 .. n
          BY <1>3, <3>1
        <4>2. h[i - 1] = b /\ h[i] = d /\ q[i] = x
          BY <1>2, <1>3, <2>1, <3>1, <4>1
        <4> QED
          BY <1>4, <4>2
      <3>2. CASE i \in 1 .. n
        <4>1. i - 1 \in 0 .. n /\ i \in 0 .. n
          BY <1>3, <3>2
        <4>2. h[i - 1] = g[i - 1] /\ h[i] = g[i] /\ q[i] = p[i]
          BY <1>3, <2>1, <3>2, <4>1
        <4> QED
          BY <1>2, <3>2, <4>2
      <3> QED
        BY <1>3, <3>1, <3>2
    <2>3. h[0] = a
      BY <1>2, <1>3, <2>1
    <2> QED
      BY <1>3, <2>1, <2>2, <2>3 DEF Path, Stream
  <1>5. ASSUME DataOf(x, c) PROVE x.chunk.size \in Int
    BY <1>5, PostedFacts, ChunkSize DEF DataOf
  <1>6. ASSUME DataOf(x, c), x.chunk.from = b PROVE Stream(q, c, a, b + x.chunk.size)
    <2>1. b + x.chunk.size \in Int
      BY <1>5, <1>6
    <2> QED
      BY <1>4, <1>6, <2>1
  <1>7. ASSUME ~DataOf(x, c) PROVE Stream(q, c, a, b)
    BY <1>4, <1>7
  <1> QED
    BY <1>6, <1>7 DEF q

\* or taken.
LEMMA StreamTail ==
    ASSUME NEW p \in Seq(Posted), p # <<>>, NEW c, NEW a \in Int, NEW b \in Int,
           Stream(p, c, a, b)
    PROVE  /\ ~DataOf(Head(p), c) => Stream(Tail(p), c, a, b)
           /\ DataOf(Head(p), c) =>
                /\ Head(p).chunk.from = a
                /\ Stream(Tail(p), c, a + Head(p).chunk.size, b)
  <1> DEFINE n == Len(p)
             q == Tail(p)
  <1>1. PICK g : Path(g, p, c, a, b)
    BY DEF Stream
  <1>2. /\ \A i \in 0 .. n : g[i] \in Int
        /\ g[0] = a /\ g[n] = b
        /\ \A i \in 1 .. n :
             /\ DataOf(p[i], c) =>
                  p[i].chunk.from = g[i - 1] /\ g[i] = g[i - 1] + p[i].chunk.size
             /\ ~DataOf(p[i], c) => g[i] = g[i - 1]
    BY <1>1 DEF Path
  <1>3. /\ n \in Nat \ {0} /\ Len(q) = n - 1 /\ Head(p) = p[1]
        /\ \A i \in 1 .. n - 1 : q[i] = p[i + 1]
    BY HeadTailProperties, LenProperties, EmptySeq
  <1> HIDE DEF n, q
  <1>4. Stream(q, c, g[1], b)
    <2> DEFINE h == [i \in 0 .. n - 1 |-> g[i + 1]]
    <2>1. h \in [0 .. n - 1 -> Int] /\ \A i \in 0 .. n - 1 : h[i] = g[i + 1]
      BY <1>2, <1>3
    <2> HIDE DEF h
    <2>2. h[0] = g[1] /\ h[n - 1] = b
      BY <1>2, <1>3, <2>1
    <2>3. ASSUME NEW i \in 1 .. n - 1
          PROVE  /\ DataOf(q[i], c) =>
                      q[i].chunk.from = h[i - 1] /\ h[i] = h[i - 1] + q[i].chunk.size
                 /\ ~DataOf(q[i], c) => h[i] = h[i - 1]
      <3>1. /\ i - 1 \in 0 .. n - 1 /\ i \in 0 .. n - 1 /\ i + 1 \in 1 .. n
            /\ (i - 1) + 1 = i /\ (i + 1) - 1 = i
        BY <1>3
      <3>2. h[i - 1] = g[i] /\ h[i] = g[i + 1] /\ q[i] = p[i + 1]
        BY <1>3, <2>1, <3>1
      <3>3. /\ DataOf(p[i + 1], c) =>
                 p[i + 1].chunk.from = g[i] /\ g[i + 1] = g[i] + p[i + 1].chunk.size
            /\ ~DataOf(p[i + 1], c) => g[i + 1] = g[i]
        BY <1>2, <3>1
      <3> QED
        BY <3>2, <3>3
    <2> QED
      BY <1>3, <2>1, <2>2, <2>3 DEF Path, Stream
  <1>5. /\ DataOf(p[1], c) => p[1].chunk.from = a /\ g[1] = a + p[1].chunk.size
        /\ ~DataOf(p[1], c) => g[1] = a
    <2>1. 1 \in 1 .. n /\ 1 - 1 = 0
      BY <1>3
    <2> QED
      BY <1>2, <2>1
  <1> QED
    BY <1>3, <1>4, <1>5 DEF q

\* A request that has posted nothing.
LEMMA StreamNew ==
    ASSUME NEW p \in Seq(Posted), NEW c, \A x \in Range(p) : ~DataOf(x, c), NEW a \in Int
    PROVE  Stream(p, c, a, a)
  <1> DEFINE n == Len(p)
             g == [i \in 0 .. n |-> a]
  <1>1. n \in Nat /\ \A i \in 1 .. n : p[i] \in Range(p)
    BY LenProperties DEF Range
  <1>2. g \in [0 .. n -> Int] /\ \A i \in 0 .. n : g[i] = a
    OBVIOUS
  <1>3. g[0] = a /\ g[n] = a /\ \A i \in 1 .. n : g[i] = a /\ g[i - 1] = a
    BY <1>1, <1>2
  <1> HIDE DEF g
  <1>4. Path(g, p, c, a, a)
    BY <1>1, <1>2, <1>3 DEF Path
  <1> QED
    BY <1>4 DEF Stream

(***************************************************************************)
(* The callbacks on their way, for request c of n in state s: none is a    *)
(* failure, each is of a request that was made, the current one has posted *)
(* at most one response and no data before it was let through.             *)
(***************************************************************************)

Callback == {"response", "data", "complete", "fail"}
ResponsesOf(c) == {x \in Posted : x.do = "response" /\ x.req = c}

Numbered(p, n) ==
    \A x \in Range(p) : x.do # "fail" /\ (x.do \in Callback => x.req \in 1 .. n)

Calls(p, c, s) ==
    /\ Hits(p, ResponsesOf(c)) <= IF s = "answered" THEN 1 ELSE 0
    /\ \A x \in Range(p) : DataOf(x, c) => s \in {"open", "over"}

\* Something is taken,
LEMMA CallsTail ==
    ASSUME NEW p \in Seq(Posted), p # <<>>, NEW c, NEW n, NEW s, Numbered(p, n), Calls(p, c, s)
    PROVE  /\ Numbered(Tail(p), n) /\ Calls(Tail(p), c, s)
           /\ Head(p) \in ResponsesOf(c) =>
                s = "answered" /\ \A t : Calls(Tail(p), c, t)
  <1>1. Range(p) = Range(Tail(p)) \cup {Head(p)}
    BY RangeTail
  <1>2. Hits(p, ResponsesOf(c)) \in Nat /\ Hits(Tail(p), ResponsesOf(c)) \in Nat
    BY HitsType, HeadTailProperties
  <1>3. Hits(Tail(p), ResponsesOf(c)) =
          Hits(p, ResponsesOf(c)) - IF Head(p) \in ResponsesOf(c) THEN 1 ELSE 0
    BY HitsTail
  <1>4. Numbered(Tail(p), n) /\ \A x \in Range(Tail(p)) : DataOf(x, c) => s \in {"open", "over"}
    BY <1>1 DEF Numbered, Calls
  <1>5. Hits(p, ResponsesOf(c)) <= IF s = "answered" THEN 1 ELSE 0
    BY DEF Calls
  <1>6. Calls(Tail(p), c, s)
    <2>1. Hits(Tail(p), ResponsesOf(c)) <= IF s = "answered" THEN 1 ELSE 0
      BY <1>2, <1>3, <1>5
    <2> QED
      BY <1>4, <2>1 DEF Calls
  <1>7. ASSUME Head(p) \in ResponsesOf(c), NEW t
        PROVE  s = "answered" /\ Calls(Tail(p), c, t)
    <2>1. s = "answered" /\ Hits(Tail(p), ResponsesOf(c)) = 0
      BY <1>2, <1>3, <1>5, <1>7
    <2>2. \A x \in Range(Tail(p)) : ~DataOf(x, c)
      BY <1>4, <2>1
    <2>3. Hits(Tail(p), ResponsesOf(c)) <= IF t = "answered" THEN 1 ELSE 0
      BY <2>1
    <2> QED
      BY <2>1, <2>2, <2>3 DEF Calls
  <1> QED
    BY <1>4, <1>6, <1>7

\* or posted.
LEMMA CallsAppend ==
    ASSUME NEW p \in Seq(Posted), NEW x \in Posted, NEW c, NEW n, NEW s, NEW t,
           Numbered(p, n), Calls(p, c, s),
           x.do # "fail", x.do \in Callback => x.req \in 1 .. n,
           x \in ResponsesOf(c) => s # "answered" /\ t = "answered",
           DataOf(x, c) => t \in {"open", "over"},
           s \in {"open", "over"} => t \in {"open", "over"},
           s = "answered" => t = "answered"
    PROVE  Numbered(Append(p, x), n) /\ Calls(Append(p, x), c, t)
  <1>1. Range(Append(p, x)) = Range(p) \cup {x}
    BY RangeAppend
  <1>2. Hits(p, ResponsesOf(c)) \in Nat
    BY HitsType
  <1>3. Hits(Append(p, x), ResponsesOf(c)) =
          Hits(p, ResponsesOf(c)) + IF x \in ResponsesOf(c) THEN 1 ELSE 0
    BY HitsAppend
  <1>4. Hits(p, ResponsesOf(c)) <= IF s = "answered" THEN 1 ELSE 0
    BY DEF Calls
  <1>5. Hits(Append(p, x), ResponsesOf(c)) <= IF t = "answered" THEN 1 ELSE 0
    BY <1>2, <1>3, <1>4
  <1>6. \A y \in Range(Append(p, x)) : DataOf(y, c) => t \in {"open", "over"}
    BY <1>1 DEF Calls
  <1> QED
    BY <1>1, <1>5, <1>6 DEF Numbered, Calls

\* A request that has posted nothing, and no request.
LEMMA CallsNew ==
    ASSUME NEW p \in Seq(Posted), NEW n \in Nat, Numbered(p, n)
    PROVE  /\ Numbered(p, n + 1)
           /\ Calls(p, n + 1, "connecting") /\ Calls(p, 0, "none")
           /\ \A a \in Int : Stream(p, n + 1, a, a)
  <1>1. ASSUME NEW c, c \notin 1 .. n, NEW s
        PROVE  Calls(p, c, s) /\ \A x \in Range(p) : ~DataOf(x, c)
    <2>1. ASSUME NEW x \in Range(p) PROVE ~DataOf(x, c) /\ x \notin ResponsesOf(c)
      BY <1>1 DEF Numbered, Callback, DataOf, ResponsesOf
    <2>2. \A i \in DOMAIN p : p[i] \notin ResponsesOf(c)
      BY <2>1 DEF Range
    <2>3. Hits(p, ResponsesOf(c)) = 0
      BY <2>2, HitsType
    <2>4. Hits(p, ResponsesOf(c)) <= IF s = "answered" THEN 1 ELSE 0
      BY <2>3
    <2> QED
      BY <2>1, <2>4 DEF Calls
  <1>2. n + 1 \notin 1 .. n /\ 0 \notin 1 .. n /\ \A i \in 1 .. n : i \in 1 .. n + 1
    OBVIOUS
  <1> QED
    BY <1>1, <1>2, StreamNew DEF Numbered

\* q holds size bytes, chunk after chunk, up to the position end.
Buffered(q, size, end) ==
    \E f : /\ Sums(f, q) /\ f[0] = size
           /\ \A k \in 1 .. Len(q) : q[k].from + f[k - 1] = end

\* Nothing is buffered,
LEMMA BufferedEmpty ==
    /\ \A end : Buffered(<<>>, 0, end)
    /\ \A size, end : Buffered(<<>>, size, end) => size = 0
  <1>1. Len(<<>>) = 0
    OBVIOUS
  <1>2. ASSUME NEW end PROVE Buffered(<<>>, 0, end)
    BY <1>1, SumsEmpty DEF Buffered
  <1>3. ASSUME NEW size, NEW end, Buffered(<<>>, size, end) PROVE size = 0
    BY <1>1, <1>3 DEF Buffered, Sums
  <1> QED
    BY <1>2, <1>3

\* a chunk is added that continues what is there,
LEMMA BufferedAppend ==
    ASSUME NEW q \in Seq(Chunk), NEW c \in Chunk, NEW size \in Nat, NEW end \in Int,
           Buffered(q, size, end), c.from = end
    PROVE  Buffered(Append(q, c), size + c.size, end + c.size)
  <1> DEFINE n == Len(q)
             p == Append(q, c)
  <1>1. PICK f : /\ Sums(f, q) /\ f[0] = size
                 /\ \A k \in 1 .. n : q[k].from + f[k - 1] = end
    BY DEF Buffered
  <1>2. PICK h : /\ Sums(h, p) /\ h[0] = f[0] + c.size /\ h[n] = c.size
                 /\ \A k \in 1 .. n : h[k - 1] = f[k - 1] + c.size
    <2> DEFINE e == [k \in 0 .. n + 1 |-> IF k = n + 1 THEN 0 ELSE f[k] + c.size]
    <2>1. /\ Sums(e, p) /\ e[0] = f[0] + c.size /\ e[n] = c.size
          /\ \A k \in 1 .. n : e[k - 1] = f[k - 1] + c.size
      BY <1>1, SumsAppend
    <2> QED
      BY <2>1
  <1>3. n \in Nat /\ Len(p) = n + 1 /\ p[n + 1] = c /\ \A k \in 1 .. n : p[k] = q[k]
    BY AppendProperties, LenProperties
  <1>4. c.size \in Nat
    BY ChunkSize
  <1>5. ASSUME NEW k \in 1 .. n + 1 PROVE p[k].from + h[k - 1] = end + c.size
    <2>1. CASE k = n + 1
      <3>1. k - 1 = n
        BY <1>3, <2>1
      <3> QED
        BY <1>2, <1>3, <2>1, <3>1
    <2>2. CASE k \in 1 .. n
      <3>1. q[k].from \in Nat
        BY <2>2, ElementOfSeq, ChunkSize
      <3>2. k - 1 \in 0 .. n
        BY <1>3, <2>2
      <3>3. f[k - 1] \in Nat
        BY <1>1, <3>2 DEF Sums
      <3>4. q[k].from + f[k - 1] = end /\ h[k - 1] = f[k - 1] + c.size /\ p[k] = q[k]
        BY <1>1, <1>2, <1>3, <2>2
      <3> HIDE DEF p, n
      <3> QED
        BY <1>4, <3>1, <3>3, <3>4
    <2> QED
      BY <1>3, <2>1, <2>2
  <1> QED
    BY <1>1, <1>2, <1>3, <1>5 DEF Buffered

\* or the front chunk has been read.
LEMMA BufferedTail ==
    ASSUME NEW q \in Seq(Chunk), q # <<>>, NEW size \in Nat, NEW end \in Int,
           Buffered(q, size, end)
    PROVE  Buffered(Tail(q), size - Head(q).size, end)
  <1> DEFINE n == Len(q)
             p == Tail(q)
  <1>1. PICK f : /\ Sums(f, q) /\ f[0] = size
                 /\ \A k \in 1 .. n : q[k].from + f[k - 1] = end
    BY DEF Buffered
  <1>2. PICK h : /\ Sums(h, p) /\ h[0] = f[1] /\ f[0] = f[1] + Head(q).size
                 /\ \A k \in 1 .. n - 1 : h[k - 1] = f[k]
    <2> DEFINE e == [k \in 0 .. n - 1 |-> f[k + 1]]
    <2>1. /\ Sums(e, p) /\ e[0] = f[1] /\ f[0] = f[1] + Head(q).size
          /\ \A k \in 1 .. n - 1 : e[k - 1] = f[k]
      BY <1>1, SumsTail
    <2> QED
      BY <2>1
  <1>3. /\ n \in Nat \ {0} /\ Len(p) = n - 1 /\ Head(q) \in Chunk
        /\ \A k \in 1 .. n - 1 : p[k] = q[k + 1]
    BY HeadTailProperties, LenProperties, EmptySeq
  <1>4. Head(q).size \in Nat /\ f[1] \in Nat
    <2>1. 1 \in 0 .. n
      BY <1>3
    <2> QED
      BY <1>1, <1>3, <2>1, ChunkSize DEF Sums
  <1>5. h[0] = size - Head(q).size
    <2> HIDE DEF p, n
    <2> QED
      BY <1>1, <1>2, <1>4
  <1>6. ASSUME NEW k \in 1 .. n - 1 PROVE p[k].from + h[k - 1] = end
    <2>1. k + 1 \in 1 .. n /\ (k + 1) - 1 = k
      BY <1>3
    <2>2. q[k + 1].from + f[k] = end
      BY <1>1, <2>1
    <2> QED
      BY <1>2, <1>3, <2>2
  <1> QED
    BY <1>2, <1>3, <1>5, <1>6 DEF Buffered

\* Two ways to the same end,
LEMMA Meet ==
    \A a, b, s, x, e \in Int : a + (x + s) = e /\ b + x = e => a + s = b
  OBVIOUS

\* and back from it.
LEMMA Back ==
    \A a, s, p, r \in Int : a + s = (p - r) + s => a + r = p
  OBVIOUS

\* What that says of the chunks.
LEMMA BufferedChunks ==
    ASSUME NEW q \in Seq(Chunk), NEW size \in Nat, NEW end \in Int,
           Buffered(q, size, end)
    PROVE  /\ q # <<>> => Head(q).from + size = end
           /\ \A k \in 1 .. Len(q) - 1 : q[k].from + q[k].size = q[k + 1].from
  <1> DEFINE n == Len(q)
  <1>1. PICK f : /\ Sums(f, q) /\ f[0] = size
                 /\ \A k \in 1 .. n : q[k].from + f[k - 1] = end
    BY DEF Buffered
  <1>2. n \in Nat
    BY LenProperties
  <1>3. ASSUME q # <<>> PROVE Head(q).from + size = end
    <2>1. n # 0 /\ Head(q) = q[1]
      BY <1>3, EmptySeq, HeadTailProperties
    <2>2. 1 \in 1 .. n /\ 1 - 1 = 0
      BY <1>2, <2>1
    <2> QED
      BY <1>1, <2>1, <2>2
  <1>4. ASSUME NEW k \in 1 .. n - 1 PROVE q[k].from + q[k].size = q[k + 1].from
    <2>1. k \in 1 .. n /\ k + 1 \in 1 .. n /\ (k + 1) - 1 = k /\ k \in 0 .. n
      BY <1>2
    <2>2. q[k].from \in Nat /\ q[k + 1].from \in Nat /\ q[k].size \in Nat
      BY <2>1, ElementOfSeq, ChunkSize
    <2>3. q[k].from + f[k - 1] = end /\ q[k + 1].from + f[k] = end
      BY <1>1, <2>1
    <2>4. f[k - 1] = f[k] + q[k].size /\ f[k] \in Nat
      BY <1>1, <2>1 DEF Sums
    <2>5. q[k].from + (f[k] + q[k].size) = end
      BY <2>3, <2>4
    <2>6. /\ q[k].from \in Int /\ q[k + 1].from \in Int /\ q[k].size \in Int
          /\ f[k] \in Int /\ end \in Int
      BY <2>2, <2>4
    <2>7. PICK a \in Int, b \in Int, s \in Int, x \in Int :
            a = q[k].from /\ b = q[k + 1].from /\ s = q[k].size /\ x = f[k]
      BY <2>6
    <2>8. a + (x + s) = end /\ b + x = end
      BY <2>3, <2>5, <2>7, Zenon
    <2>9. a + s = b
      BY <2>8, Meet
    <2> QED
      BY <2>7, <2>9, Zenon
  <1> QED
    BY <1>3, <1>4

\* Where the buffer ends.
End == (m_bufferPositionAbs - m_bufferRead) + m_bufferSize

\* A buffer without a request is loaded, and a request that has not been let
\* through has an empty buffer.
RequestState ==
    /\ m_curlRequest = 0 <=> transfer.state = "none"
    /\ m_curlRequest = 0 => m_finishedLoading
    /\ transfer.state \in {"connecting", "answered"} => m_buffer = <<>>

PlaceInv ==
    failures = 0 =>
        /\ Buffered(m_buffer, m_bufferSize, End)
        /\ Numbered(posted, requests)
        /\ Calls(posted, m_curlRequest, transfer.state)
        /\ RequestState
        /\ m_curlRequest # 0 => Stream(posted, m_curlRequest, End, transfer.pos)

\* Every action keeps the bytes in place, until a transfer fails.
LEMMA PlaceStep == ASSUME TypeInv, PlaceInv, [Next]_vars PROVE PlaceInv'
  <1> DEFINE Same == UNCHANGED <<m_buffer, m_bufferSize, m_bufferRead, m_bufferPositionAbs>>
             SameRequest == UNCHANGED <<m_curlRequest, requests>>
             SameState == transfer'.state = transfer.state /\ transfer'.pos = transfer.pos
             Loads == m_finishedLoading => m_finishedLoading'
  <1>0. SUFFICES ASSUME failures' = 0 PROVE PlaceInv'
    BY DEF PlaceInv
  <1>1. TypeOK
    BY DEF TypeInv
  <1>2. /\ posted \in Seq(Posted) /\ requests \in Nat /\ m_curlRequest \in Nat
        /\ transfer \in Transfer /\ m_buffer \in Seq(Chunk) /\ m_bufferSize \in Nat
        /\ m_bufferRead \in Nat /\ m_bufferPositionAbs \in Nat /\ failures \in Nat
        /\ m_curlRequest \in 0 .. requests
    BY <1>1, SizesAssumption, BoundsAssumption DEF TypeOK
  <1>3. failures = 0
    <2>1. failures' = failures \/ Fails
      BY DEF Next, MainStep, TransferStep, InRead, CallsRead, Start,
         ContinueBuffering, StaleCallback, DidReceiveResponse, DidReceiveBuffer,
         DidComplete, DidFail, Die, Responds, Delivers, Completes, SeekDone,
         ReadLocked, ReadChecks, ReadWakes, ReadReturnsStep, ReadOn, ReadElsewhere,
         BeginRead, countVars, vars
    <2>2. Fails => failures' = failures + 1
      BY DEF Fails
    <2> QED
      BY <1>0, <1>2, <2>1, <2>2
  <1>4. /\ Buffered(m_buffer, m_bufferSize, End)
        /\ Numbered(posted, requests)
        /\ Calls(posted, m_curlRequest, transfer.state)
        /\ RequestState
        /\ m_curlRequest # 0 => Stream(posted, m_curlRequest, End, transfer.pos)
    BY <1>3 DEF PlaceInv
  <1>5. End \in Int /\ transfer.pos \in Nat /\ transfer.state \in TransferState
    BY <1>2, TransferFacts DEF End
  <1>6. Same => End' = End /\ Buffered(m_buffer', m_bufferSize', End')
    BY <1>4 DEF End
  <1>7. m_buffer = <<>> => m_bufferSize = 0 /\ m_bufferRead = 0 /\ End = m_bufferPositionAbs
    <2> SUFFICES ASSUME m_buffer = <<>>
                 PROVE  m_bufferSize = 0 /\ m_bufferRead = 0 /\ End = m_bufferPositionAbs
      OBVIOUS
    <2>1. m_bufferSize = 0
      BY <1>4, BufferedEmpty
    <2>2. m_bufferRead = 0
      BY DEF TypeInv, FrontInv
    <2> QED
      BY <1>2, <2>1, <2>2 DEF End
  <1>8. ASSUME posted # <<>>
        PROVE  /\ Numbered(Tail(posted), requests) /\ Head(posted) \in Posted
               /\ Calls(Tail(posted), m_curlRequest, transfer.state)
               /\ Tail(posted) \in Seq(Posted)
               /\ Head(posted).do # "fail"
               /\ Head(posted).do \in Callback => Head(posted).req \in 1 .. requests
               /\ m_curlRequest # 0 /\ ~DataOf(Head(posted), m_curlRequest) =>
                    Stream(Tail(posted), m_curlRequest, End, transfer.pos)
    <2>1. Range(posted) = Range(Tail(posted)) \cup {Head(posted)}
      BY <1>2, <1>8, RangeTail
    <2>2. /\ Head(posted).do # "fail"
          /\ Head(posted).do \in Callback => Head(posted).req \in 1 .. requests
      BY <1>4, <2>1 DEF Numbered
    <2>3. /\ Numbered(Tail(posted), requests)
          /\ Calls(Tail(posted), m_curlRequest, transfer.state)
      BY <1>2, <1>4, <1>8, CallsTail
    <2>4. m_curlRequest # 0 /\ ~DataOf(Head(posted), m_curlRequest) =>
                    Stream(Tail(posted), m_curlRequest, End, transfer.pos)
      BY <1>2, <1>4, <1>5, <1>8, StreamTail
    <2> QED
      BY <1>2, <1>8, <2>2, <2>3, <2>4, HeadTailProperties
  <1>9. ASSUME Same, SameRequest, SameState, Loads, posted # <<>>, posted' = Tail(posted),
               ~DataOf(Head(posted), m_curlRequest)
        PROVE  PlaceInv'
    <2>1. RequestState'
      BY <1>4, <1>9 DEF RequestState
    <2> QED
      BY <1>4, <1>6, <1>8, <1>9, <2>1 DEF PlaceInv
  <1>10. ASSUME Same, SameRequest, SameState, Loads, UNCHANGED posted
         PROVE  PlaceInv'
    <2>1. RequestState'
      BY <1>4, <1>10 DEF RequestState
    <2> QED
      BY <1>4, <1>6, <1>10, <2>1 DEF PlaceInv
  <1>11. ASSUME Same, SameRequest, SameState, Loads, NEW x \in Posted,
                posted' = Append(posted, x), x.do \notin Callback
         PROVE  PlaceInv'
    <2>1. RequestState'
      BY <1>4, <1>11 DEF RequestState
    <2>2. ~DataOf(x, m_curlRequest) /\ x \notin ResponsesOf(m_curlRequest) /\ x.do # "fail"
      BY <1>11 DEF DataOf, ResponsesOf, Callback
    <2>3. Numbered(posted', requests) /\ Calls(posted', m_curlRequest, transfer.state)
      BY <1>2, <1>4, <1>11, <2>2, CallsAppend
    <2>4. m_curlRequest # 0 => Stream(posted', m_curlRequest, End, transfer.pos)
      BY <1>2, <1>4, <1>5, <1>11, <2>2, StreamAppend
    <2> QED
      BY <1>6, <1>11, <2>1, <2>3, <2>4 DEF PlaceInv
  <1>12. ASSUME NEW p \in Seq(Posted), Numbered(p, requests), posted' = p, NEW from \in Nat,
                StartRequest(from), m_buffer' = <<>>, Buffered(m_buffer', m_bufferSize', End'),
                End' = from
         PROVE  PlaceInv'
    <2>1. /\ requests' = requests + 1 /\ m_curlRequest' = requests + 1
          /\ transfer'.state = "connecting" /\ transfer'.pos = from
      BY <1>12 DEF StartRequest, Connecting
    <2>2. /\ Numbered(p, requests + 1) /\ Calls(p, requests + 1, "connecting")
          /\ Stream(p, requests + 1, from, from)
      BY <1>2, <1>12, CallsNew
    <2>3. RequestState'
      BY <1>2, <1>12, <2>1 DEF RequestState
    <2> QED
      BY <1>12, <2>1, <2>2, <2>3 DEF PlaceInv
  <1>13. ASSUME NEW p \in Seq(Posted), Numbered(p, requests), posted' = p, Same,
                CancelRequest, m_finishedLoading'
         PROVE  PlaceInv'
    <2>1. requests' = requests /\ m_curlRequest' = 0 /\ transfer'.state = "none"
      BY <1>13 DEF CancelRequest, NoTransfer
    <2>2. Calls(p, 0, "none")
      BY <1>2, <1>13, CallsNew
    <2>3. RequestState'
      BY <1>13, <2>1 DEF RequestState
    <2> QED
      BY <1>6, <1>13, <2>1, <2>2, <2>3 DEF PlaceInv
  <1>14. CASE Start
    <2>1. posted # <<>> /\ Head(posted).do = "start" /\ posted' = Tail(posted)
      BY <1>14 DEF Start, Takes
    <2>2. CASE m_dead
      <3>1. Same /\ SameRequest /\ SameState /\ Loads
        BY <1>14, <2>2 DEF Start, bufferVars, stateVars, curlVars
      <3> QED
        BY <1>9, <2>1, <3>1 DEF DataOf
    <2>3. CASE ~m_dead
      <3> DEFINE from == Head(posted).from
      <3>1. /\ m_buffer' = <<>> /\ m_bufferRead' = 0 /\ m_bufferPositionAbs' = from
            /\ m_bufferSize' = 0 /\ StartRequest(from)
        BY <1>14, <2>3 DEF Start
      <3>2. from \in Nat
        BY <1>8, <2>1, PostedFacts
      <3>3. End' = from
        BY <3>1, <3>2 DEF End
      <3>4. Buffered(m_buffer', m_bufferSize', End')
        BY <3>1, BufferedEmpty
      <3> HIDE DEF from
      <3> QED
        BY <1>8, <1>12, <2>1, <3>1, <3>2, <3>3, <3>4
    <2> QED
      BY <2>2, <2>3
  <1>15. CASE ContinueBuffering
    <2>1. /\ posted # <<>> /\ Head(posted).do = "continue" /\ posted' = Tail(posted) /\ Same
          /\ Loads
      BY <1>15 DEF ContinueBuffering, Takes, bufferVars
    <2>2. ~(WantsMore /\ m_curlRequest = 0)
      BY <1>4 DEF WantsMore, RequestState
    <2>3. SameRequest /\ SameState
      <3>1. CASE WantsMore
        <4>1. transfer' = [transfer EXCEPT !.suspended = FALSE] /\ SameRequest
          BY <1>15, <2>2, <3>1 DEF ContinueBuffering
        <4> QED
          BY <1>2, <4>1, TransferFacts
      <3>2. CASE ~WantsMore
        BY <1>15, <3>2 DEF ContinueBuffering, curlVars
      <3> QED
        BY <3>1, <3>2
    <2> QED
      BY <1>9, <2>1, <2>3 DEF DataOf
  <1>16. CASE StaleCallback
    <2>1. /\ posted # <<>> /\ posted' = Tail(posted) /\ Same /\ SameRequest /\ SameState /\ Loads
          /\ Head(posted).req # m_curlRequest
      BY <1>16 DEF StaleCallback, bufferVars, curlVars, stateVars
    <2> QED
      BY <1>9, <2>1 DEF DataOf
  <1>17. CASE DidReceiveResponse
    <2>1. /\ posted # <<>> /\ Head(posted).do = "response" /\ posted' = Tail(posted)
          /\ Head(posted).req = m_curlRequest /\ Same /\ UNCHANGED m_finishedLoading
      BY <1>17 DEF DidReceiveResponse, TakesCurrent, Takes, bufferVars
    <2>2. Head(posted) \in ResponsesOf(m_curlRequest) /\ ~DataOf(Head(posted), m_curlRequest)
      BY <1>8, <2>1 DEF ResponsesOf, DataOf
    <2>3. transfer.state = "answered" /\ Calls(Tail(posted), m_curlRequest, "open")
      BY <1>2, <1>4, <2>1, <2>2, CallsTail
    <2>4. m_buffer = <<>>
      BY <1>4, <2>3 DEF RequestState
    <2>5. CASE Head(posted).redirect /\ m_redirectCount > maxRedirects
      <3>1. m_redirectCount \in Nat /\ maxRedirects \in Nat
        BY <1>1, SizesAssumption DEF TypeOK
      <3>2. UNCHANGED curlVars
        BY <1>17, <2>5, <3>1 DEF DidReceiveResponse
      <3>3. SameRequest /\ SameState
        BY <3>2 DEF curlVars
      <3> QED
        BY <1>9, <2>1, <2>2, <3>3
    <2>6. CASE Head(posted).redirect /\ ~(m_redirectCount > maxRedirects)
      <3>1. StartRequest(m_bufferPositionAbs)
        BY <1>17, <2>6 DEF DidReceiveResponse
      <3>2. End' = m_bufferPositionAbs /\ Buffered(m_buffer', m_bufferSize', End')
        BY <1>6, <1>7, <2>1, <2>4
      <3> QED
        BY <1>2, <1>8, <1>12, <2>1, <2>4, <3>1, <3>2
    <2>7. CASE ~Head(posted).redirect
      <3>1. transfer' = [transfer EXCEPT !.state = "open"] /\ SameRequest
        BY <1>17, <2>7 DEF DidReceiveResponse
      <3>2. "open" \in TransferState
        BY DEF TransferState
      <3>3. transfer'.state = "open" /\ transfer'.pos = transfer.pos
        BY <1>2, <3>1, <3>2, TransferFacts
      <3>4. RequestState'
        BY <1>4, <2>1, <2>3, <3>1, <3>3 DEF RequestState
      <3> QED
        BY <1>6, <1>8, <2>1, <2>2, <2>3, <3>1, <3>3, <3>4 DEF PlaceInv
    <2> QED
      BY <2>5, <2>6, <2>7
  <1>18. CASE DidReceiveBuffer
    <2> DEFINE chunk == Head(posted).chunk
    <2>1. /\ posted # <<>> /\ Head(posted).do = "data" /\ posted' = Tail(posted)
          /\ Head(posted).req = m_curlRequest
          /\ m_buffer' = Append(m_buffer, chunk) /\ m_bufferSize' = m_bufferSize + chunk.size
          /\ UNCHANGED <<m_bufferRead, m_bufferPositionAbs, m_finishedLoading, m_curlRequest,
                         requests>>
      BY <1>18 DEF DidReceiveBuffer, TakesCurrent, Takes
    <2>2. DataOf(Head(posted), m_curlRequest)
      BY <2>1 DEF DataOf
    <2>3. m_curlRequest # 0
      BY <1>2, <1>8, <2>1 DEF Callback
    <2>4. chunk \in Chunk
      BY <1>8, <2>1, PostedFacts
    <2>5. /\ chunk.from = End
          /\ Stream(Tail(posted), m_curlRequest, End + chunk.size, transfer.pos)
      BY <1>2, <1>4, <1>5, <2>1, <2>2, <2>3, StreamTail
    <2>6. transfer.state \in {"open", "over"}
      <3>1. Head(posted) \in Range(posted)
        BY <1>2, <2>1, RangeTail
      <3> QED
        BY <1>4, <2>2, <3>1 DEF Calls
    <2>7. SameState
      <3> DEFINE suspends == m_bufferSize + chunk.size > m_readAhead /\ ~m_isPaused
      <3>1. transfer' = [transfer EXCEPT !.suspended = transfer.suspended \/ suspends]
        BY <1>18 DEF DidReceiveBuffer
      <3>2. (transfer.suspended \/ suspends) \in BOOLEAN
        OBVIOUS
      <3> HIDE DEF suspends
      <3> QED
        BY <1>2, <3>1, <3>2, TransferFacts
    <2> HIDE DEF chunk
    <2>8. chunk.size \in Nat
      BY <2>4, ChunkSize
    <2>9. End' = End + chunk.size
      BY <1>2, <2>1, <2>8 DEF End
    <2>10. Buffered(m_buffer', m_bufferSize', End')
      BY <1>2, <1>4, <1>5, <2>1, <2>4, <2>5, <2>9, BufferedAppend
    <2>11. RequestState'
      BY <2>1, <2>3, <2>6, <2>7 DEF RequestState
    <2> QED
      BY <1>8, <2>1, <2>5, <2>7, <2>9, <2>10, <2>11 DEF PlaceInv
  <1>19. CASE DidComplete
    <2>1. /\ posted # <<>> /\ posted' = Tail(posted) /\ Same /\ CancelRequest
          /\ m_finishedLoading'
      BY <1>19 DEF DidComplete, TakesCurrent, Takes, bufferVars
    <2> QED
      BY <1>8, <1>13, <2>1
  <1>20. CASE DidFail
    BY <1>8, <1>20 DEF DidFail, TakesCurrent, Takes
  <1>21. CASE Die
    <2>1. posted' = posted /\ Same /\ CancelRequest /\ m_finishedLoading'
      BY <1>21 DEF Die, bufferVars
    <2> QED
      BY <1>2, <1>4, <1>13, <2>1
  <1>22. ASSUME NEW redirect \in BOOLEAN, Responds(redirect) PROVE PlaceInv'
    <2> DEFINE x == [do |-> "response", req |-> m_curlRequest, redirect |-> redirect]
    <2>1. /\ transfer.state = "connecting" /\ posted' = Append(posted, x)
          /\ transfer' = [transfer EXCEPT !.state = "answered"]
          /\ Same /\ SameRequest /\ UNCHANGED m_finishedLoading
      BY <1>22 DEF Responds, Post, TransferUnchanged, bufferVars, stateVars
    <2>2. x \in Posted /\ x.do = "response" /\ x.req = m_curlRequest
      BY <1>2, NewPosted
    <2> HIDE DEF x
    <2>3. "answered" \in TransferState
      BY DEF TransferState
    <2>4. transfer'.state = "answered" /\ transfer'.pos = transfer.pos
      BY <1>2, <2>1, <2>3, TransferFacts
    <2>5. m_curlRequest # 0 /\ m_curlRequest \in 1 .. requests
      <3>1. m_curlRequest # 0
        BY <1>4, <2>1 DEF RequestState
      <3> QED
        BY <1>2, <3>1
    <2>6. ~DataOf(x, m_curlRequest)
      BY <2>2 DEF DataOf
    <2>7. Numbered(posted', requests) /\ Calls(posted', m_curlRequest, "answered")
      BY <1>2, <1>4, <2>1, <2>2, <2>5, <2>6, CallsAppend
    <2>8. Stream(posted', m_curlRequest, End, transfer.pos)
      BY <1>2, <1>4, <1>5, <2>1, <2>2, <2>5, <2>6, StreamAppend
    <2>9. RequestState'
      BY <1>4, <2>1, <2>4 DEF RequestState
    <2> QED
      BY <1>6, <2>1, <2>4, <2>7, <2>8, <2>9 DEF PlaceInv
  <1>23. ASSUME NEW len \in 1 .. MaxChunk, Delivers(len) PROVE PlaceInv'
    <2> DEFINE c == [from |-> transfer.pos, size |-> len]
               x == [do |-> "data", req |-> m_curlRequest, chunk |-> c]
    <2>0. len \in Nat
      BY SizesAssumption
    <2>1. /\ transfer.state = "open" /\ posted' = Append(posted, x)
          /\ transfer' = [transfer EXCEPT !.pos = transfer.pos + len]
          /\ Same /\ SameRequest /\ UNCHANGED m_finishedLoading
      BY <1>23 DEF Delivers, Post, TransferUnchanged, bufferVars, stateVars
    <2>2. c \in Chunk /\ c.from = transfer.pos /\ c.size = len
      BY <1>5 DEF Chunk
    <2> HIDE DEF c
    <2>3. x \in Posted /\ x.do = "data" /\ x.req = m_curlRequest /\ x.chunk = c
      BY <1>2, <2>2, NewPosted
    <2> HIDE DEF x
    <2>4. transfer'.state = "open" /\ transfer'.pos = transfer.pos + len
      <3>1. transfer.pos + len \in Nat
        BY <1>5, <2>0
      <3> QED
        BY <1>2, <2>1, <3>1, TransferFacts
    <2>5. m_curlRequest # 0 /\ m_curlRequest \in 1 .. requests
      <3>1. m_curlRequest # 0
        BY <1>4, <2>1 DEF RequestState
      <3> QED
        BY <1>2, <3>1
    <2>6. DataOf(x, m_curlRequest) /\ x \notin ResponsesOf(m_curlRequest)
      BY <2>3 DEF DataOf, ResponsesOf
    <2>7. Numbered(posted', requests) /\ Calls(posted', m_curlRequest, "open")
      BY <1>2, <1>4, <2>1, <2>3, <2>5, <2>6, CallsAppend
    <2>8. Stream(posted', m_curlRequest, End, transfer.pos + len)
      BY <1>2, <1>4, <1>5, <2>1, <2>2, <2>3, <2>5, <2>6, StreamAppend
    <2>9. RequestState'
      BY <1>4, <2>1, <2>4 DEF RequestState
    <2> QED
      BY <1>6, <2>1, <2>4, <2>7, <2>8, <2>9 DEF PlaceInv
  <1>24. CASE Completes
    <2> DEFINE x == [do |-> "complete", req |-> m_curlRequest]
    <2>1. /\ transfer.state = "open" /\ posted' = Append(posted, x)
          /\ transfer' = [transfer EXCEPT !.state = "over"]
          /\ Same /\ SameRequest /\ UNCHANGED m_finishedLoading
      BY <1>24 DEF Completes, Post, TransferUnchanged, bufferVars, stateVars
    <2>2. x \in Posted /\ x.do = "complete" /\ x.req = m_curlRequest
      BY <1>2, NewPosted
    <2> HIDE DEF x
    <2>3. "over" \in TransferState
      BY DEF TransferState
    <2>4. transfer'.state = "over" /\ transfer'.pos = transfer.pos
      BY <1>2, <2>1, <2>3, TransferFacts
    <2>5. m_curlRequest # 0 /\ m_curlRequest \in 1 .. requests
      <3>1. m_curlRequest # 0
        BY <1>4, <2>1 DEF RequestState
      <3> QED
        BY <1>2, <3>1
    <2>6. ~DataOf(x, m_curlRequest) /\ x \notin ResponsesOf(m_curlRequest)
      BY <2>2 DEF DataOf, ResponsesOf
    <2>7. Numbered(posted', requests) /\ Calls(posted', m_curlRequest, "over")
      BY <1>2, <1>4, <2>1, <2>2, <2>5, <2>6, CallsAppend
    <2>8. Stream(posted', m_curlRequest, End, transfer.pos)
      BY <1>2, <1>4, <1>5, <2>1, <2>2, <2>5, <2>6, StreamAppend
    <2>9. RequestState'
      BY <1>4, <2>1, <2>4 DEF RequestState
    <2> QED
      BY <1>6, <2>1, <2>4, <2>7, <2>8, <2>9 DEF PlaceInv
  <1>25. CASE Fails
    BY <1>0, <1>2, <1>25 DEF Fails
  <1>26. CASE SeekDone
    <2>1. Same /\ SameRequest /\ SameState /\ Loads /\ UNCHANGED posted
      BY <1>26 DEF SeekDone, bufferVars, stateVars, curlVars
    <2> QED
      BY <1>10, <2>1
  <1>27. CASE ReadLocked
    <2>1. SameRequest /\ SameState /\ Loads /\ UNCHANGED posted
      BY <1>27 DEF ReadLocked, stateVars, curlVars
    <2>2. CASE m_buffer = <<>>
      <3>1. Same
        BY <1>27, <2>2 DEF ReadLocked, bufferVars
      <3> QED
        BY <1>10, <2>1, <3>1
    <2>3. CASE m_buffer # <<>>
      <3> DEFINE front == Head(m_buffer)
      <3>1. CopyFrontChunk
        BY <1>27, <2>3 DEF ReadLocked
      <3>2. PICK write \in Nat :
             /\ m_bufferPositionAbs' = m_bufferPositionAbs + write
             /\ \/ /\ m_bufferRead + write = front.size
                   /\ m_buffer' = Tail(m_buffer)
                   /\ m_bufferSize' = m_bufferSize - front.size
                   /\ m_bufferRead' = 0
                \/ /\ m_bufferRead' = m_bufferRead + write
                   /\ UNCHANGED <<m_buffer, m_bufferSize>>
        BY <2>3, <3>1, CopyFacts
      <3>3. front \in Chunk
        BY <1>2, <2>3, HeadTailProperties
      <3>4. front.size \in Nat
        BY <3>3, ChunkSize
      <3>5. Buffered(Tail(m_buffer), m_bufferSize - front.size, End)
        BY <1>2, <1>4, <1>5, <2>3, BufferedTail
      <3> HIDE DEF front
      <3>6. End' = End
        BY <1>2, <3>2, <3>4 DEF End
      <3>7. Buffered(m_buffer', m_bufferSize', End')
        BY <1>4, <3>2, <3>5, <3>6
      <3>8. RequestState'
        BY <1>4, <2>1, <2>3 DEF RequestState
      <3> QED
        BY <1>4, <2>1, <3>6, <3>7, <3>8 DEF PlaceInv
    <2> QED
      BY <2>2, <2>3
  <1>28. CASE ReadChecks
    <2>1. Same /\ SameRequest /\ SameState /\ Loads
      BY <1>28 DEF ReadChecks, bufferVars, stateVars, curlVars
    <2>2. posted' = posted \/ posted' = Append(posted, [do |-> "continue"])
      BY <1>28 DEF ReadChecks, Post
    <2> QED
      BY <1>10, <1>11, <2>1, <2>2, NewPosted DEF Callback
  <1>29. CASE ReadWakes
    <2>1. Same /\ SameRequest /\ SameState /\ Loads /\ UNCHANGED posted
      BY <1>29 DEF ReadWakes, bufferVars, stateVars, curlVars
    <2> QED
      BY <1>10, <2>1
  <1>30. CASE ReadReturnsStep
    <2>1. Same /\ SameRequest /\ SameState /\ Loads
      BY <1>30 DEF ReadReturnsStep, bufferVars, stateVars, curlVars
    <2>2. posted' = posted \/ posted' = Append(posted, [do |-> "continue"])
      BY <1>30 DEF ReadReturnsStep, Post
    <2> QED
      BY <1>10, <1>11, <2>1, <2>2, NewPosted DEF Callback
  <1>31. ASSUME NEW pos \in -1 .. Length, ReadOn(pos) PROVE PlaceInv'
    <2>1. Same /\ SameRequest /\ SameState /\ Loads /\ UNCHANGED posted
      BY <1>31 DEF ReadOn, BeginRead, bufferVars, stateVars, curlVars
    <2> QED
      BY <1>10, <2>1
  <1>32. ASSUME NEW pos \in -1 .. Length, ReadElsewhere(pos) PROVE PlaceInv'
    <2>1. Same /\ SameRequest /\ SameState /\ Loads
      BY <1>32 DEF ReadElsewhere, BeginRead, bufferVars, stateVars, curlVars
    <2>2. pos \in Nat /\ posted' = Append(posted, [do |-> "start", from |-> pos])
      BY <1>32, SizesAssumption DEF ReadElsewhere, Post
    <2>3. [do |-> "start", from |-> pos] \in Posted
      BY <2>2, NewPosted
    <2> QED
      BY <1>11, <2>1, <2>2, <2>3 DEF Callback
  <1>33. CASE UNCHANGED vars
    <2>1. Same /\ SameRequest /\ SameState /\ Loads /\ UNCHANGED posted
      BY <1>33 DEF vars, bufferVars, stateVars, curlVars
    <2> QED
      BY <1>10, <2>1
  <1> QED
    BY <1>14, <1>15, <1>16, <1>17, <1>18, <1>19, <1>20, <1>21, <1>22, <1>23,
       <1>24,
       <1>25, <1>26, <1>27, <1>28, <1>29, <1>30, <1>31, <1>32, <1>33
    DEF Next, MainStep, TransferStep, InRead, CallsRead

\* The first state.
LEMMA InitPlace == Init => PlaceInv
  <1> SUFFICES ASSUME Init PROVE PlaceInv
    OBVIOUS
  <1>1. /\ posted = <<>> /\ requests = 1 /\ m_curlRequest = 1 /\ m_buffer = <<>>
        /\ m_bufferSize = 0 /\ m_bufferRead = 0 /\ m_bufferPositionAbs = 0
        /\ transfer.state = "connecting" /\ transfer.pos = 0
    BY DEF Init, Connecting
  <1>2. posted \in Seq(Posted) /\ \A x \in Range(posted) : FALSE
    BY <1>1 DEF Range
  <1>3. Numbered(posted, 0) /\ 0 + 1 = 1
    BY <1>2 DEF Numbered
  <1>4. Numbered(posted, 0 + 1) /\ Calls(posted, 0 + 1, "connecting") /\ Stream(posted, 0 + 1, 0, 0)
    BY <1>2, <1>3, CallsNew
  <1>5. End = 0
    BY <1>1 DEF End
  <1>6. Buffered(m_buffer, m_bufferSize, End)
    BY <1>1, BufferedEmpty
  <1>7. RequestState
    BY <1>1 DEF RequestState
  <1> QED
    BY <1>1, <1>3, <1>4, <1>5, <1>6, <1>7 DEF PlaceInv

\* What that says of the buffer.
LEMMA PlacedBytes == ASSUME TypeInv, PlaceInv PROVE failures = 0 => BytesInPlace
  <1> SUFFICES ASSUME failures = 0 PROVE BytesInPlace
    OBVIOUS
  <1>1. /\ m_buffer \in Seq(Chunk) /\ m_bufferSize \in Nat /\ m_bufferRead \in Nat
        /\ m_bufferPositionAbs \in Nat
    BY SizesAssumption DEF TypeInv, TypeOK
  <1>2. End \in Int /\ Buffered(m_buffer, m_bufferSize, End)
    BY <1>1 DEF PlaceInv, End
  <1>3. /\ m_buffer # <<>> => Head(m_buffer).from + m_bufferSize = End
        /\ \A k \in 1 .. Len(m_buffer) - 1 :
             m_buffer[k].from + m_buffer[k].size = m_buffer[k + 1].from
    BY <1>1, <1>2, BufferedChunks
  <1>4. m_buffer # <<>> => Head(m_buffer).from + m_bufferRead = m_bufferPositionAbs
    <2> SUFFICES ASSUME m_buffer # <<>>
                 PROVE  Head(m_buffer).from + m_bufferRead = m_bufferPositionAbs
      OBVIOUS
    <2>1. Head(m_buffer) \in Chunk
      BY <1>1, HeadTailProperties
    <2>2. Head(m_buffer).from \in Nat
      BY <2>1, ChunkSize
    <2> QED
      <3>1. /\ Head(m_buffer).from \in Int /\ m_bufferSize \in Int
            /\ m_bufferPositionAbs \in Int /\ m_bufferRead \in Int
        BY <1>1, <2>2
      <3>2. Head(m_buffer).from + m_bufferSize = (m_bufferPositionAbs - m_bufferRead) + m_bufferSize
        BY <1>3 DEF End
      <3>3. PICK a \in Int, s \in Int, p \in Int, r \in Int :
              /\ a = Head(m_buffer).from /\ s = m_bufferSize
              /\ p = m_bufferPositionAbs /\ r = m_bufferRead
        BY <3>1
      <3>4. a + s = (p - r) + s
        BY <3>2, <3>3, Zenon
      <3>5. a + r = p
        BY <3>4, Back
      <3> QED
        BY <3>3, <3>5, Zenon
  <1> QED
    BY <1>3, <1>4 DEF BytesInPlace

\* Until a transfer fails, suspending, resuming, redirecting and seeking while
\* callbacks of the old request are still posted neither skip nor repeat a byte,
\* for every resource, chunk size, read size, read-ahead and redirect limit.
THEOREM StaysInPlace == Spec => []InPlaceUntilFailure
  <1>1. Init => TypeInv /\ PlaceInv
    BY InitTypes, InitPlace
  <1>2. TypeInv /\ PlaceInv /\ [Next]_vars => TypeInv' /\ PlaceInv'
    BY TypeStep, PlaceStep
  <1>3. TypeInv /\ PlaceInv => InPlaceUntilFailure
    BY PlacedBytes DEF InPlaceUntilFailure
  <1> QED
    BY <1>1, <1>2, <1>3, PTL DEF Spec

=============================================================================
