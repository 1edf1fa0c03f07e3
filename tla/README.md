# Verification of Odyssey's media pipeline

Odyssey is a web browser for MorphOS and AmigaOS-like systems: a port of WebKit
with its own user interface, network glue and media player. Most of the
repository is upstream WebKit. The part that is both Odyssey's own and hard to
get right is its media stack in `Source/WebCore/platform/graphics/mui`: half a
dozen threads that download, demux, decode and present a stream and have to
agree about seeking, ends of streams, failures and shutting down. This project
models that stack in TLA+, together with the curl requests it loads with, checks
the models with TLC and proves the central results with TLAPS.

File names without a path are in `Source/WebCore/platform/graphics/mui`.

## 1. Inventory

### The media stack

| Part | State | Operations | Talks to |
|---|---|---|---|
| Network buffer, `AcinerellaNetworkBufferInternal` in `AcinerellaBuffer.cpp` | queue of received chunks, place in the front chunk, absolute position, size, finished / paused / seek-processed / dead flags, current `CurlRequest`, an event | `start`, `stop`, `die`, `continueBuffering`, curl callbacks (main thread); `read` (container thread) | curl request (callbacks posted to the main thread), container |
| HLS buffer, `AcinerellaHLS.cpp` | chunks listed and not yet requested, prepared chunk, chunk being read, finished chunks, playlist request, refresh timer, an event | `start`, `stop`, `masterPlaylistReceived`, `childPlaylistReceived`, `refreshTimerFired`, `chunkSwallowed` (main thread); `read` (container thread) | one network buffer per chunk |
| Container, `AcinerellaContainer.cpp` | message queue, libav context, muxed buffer, decoders, flags for seeking, terminating, discontinuity, waiting for demux, paused, ended | `play`, `pause`, `seek`, `warmUp`, `coolDown`, `terminate` (main thread, by message), `demuxMorePackages`, `startSeeking`, `initialize`, `initializeAfterDiscontinuity`, libav's read and seek callbacks (own thread), reports of decoders (their threads) | everything below |
| Muxed buffer, `AcinerellaMuxer.cpp` | a package queue and an event per stream index, end-of-stream flag, sink function | `push`, `flush`, `terminate` (container thread), `nextPackage` (decoder threads) | container through the sink function |
| Decoders, `AcinerellaDecoder.cpp` and its audio and video subclasses | message queue, decoded frames, warm-up / ready / end-of-stream flags | `warmUp`, `prePlay`, `play`, `pause`, `coolDown`, `terminate`, decoding loop | muxed buffer, audio and overlay hardware |
| Audio and video output, in the same subclasses | the two samples of the audio device, the pump thread that fills them, the pull thread that shows pictures, the position played | `initializeAudio`, `ahiCleanup`, `fillBuffer`, `onCoolDown`, `showFirstFrame`, the pull loop | decoded frames; reports ready, position and end to the container |
| Libav wrapper `acinerella.c` | demuxer and codec contexts | open, read package, seek, decode | vendored |
| `MediaPlayerPrivateMorphOS.cpp`, `MediaSource*MorphOS.cpp` | WebCore's player and media source interfaces | translate to container calls; source buffers parse segments on their own thread | container, muxed buffer, WebCore |

A decoder thread that wants a package calls `nextPackage`. If its queue is short
the muxed buffer calls the sink function, which sets `m_waitingForDemux` and
sends the container thread a `demuxMorePackages` message. The container thread
has libav read packages; libav calls back into `Acinerella::read`, which reads
the network buffer, which waits for the main thread to deliver what curl
received. Every arrow of that chain crosses a thread, and seek, end of stream,
HLS discontinuity, failed transfer and terminate can each arrive in the middle.

### Loading

`CurlRequest.cpp` and `CurlRequestScheduler.cpp` in
`Source/WebCore/platform/network/curl` carry every load of the browser. A
request is used by two threads: the main thread starts, suspends, resumes,
cancels and answers responses, the curl thread sets up the transfer and runs
libcurl, whose callbacks change the same flags. The scheduler holds raw pointers
to requests in its set of active jobs and its map from easy handles, and keeps
them valid with a `retain()` that the main thread gives back.

### The rest of the repository

- The rest of `Source/WebCore/platform/network/curl`: resource handles,
  downloads, cookies, cache. Shared with other WebKit ports, locally changed.
- `Source/WebKitLegacy/mui`: browser shell (views, frames, history, downloads,
  plug-ins) and the MUI user interface; one thread of event handlers.
- `Source/WebCore/loader/AdBlock.cpp`, `Source/WTF/wtf/mui/execallocator.cpp`,
  `Source/WebCore/platform/mui`, `Tools/OdysseyWebBrowser`: local additions.
- WebCore, JavaScriptCore, WTF, third-party libraries, tools: upstream.

`PROJECT.json` lists all parts with their status.

### What is hard, and what makes each part correct

- Muxed buffer and container: decoders get exactly what was demuxed, in order,
  and nothing of an old position after a seek; a demux request flag that is
  shared without a lock never gets stuck; the end of the stream is announced
  only to a decoder that has had everything; nobody sleeps forever; terminate
  comes back.
- Network buffer: whatever is suspended, resumed, redirected, retried or
  restarted, `read` copies the bytes at the position it should and neither skips
  nor repeats; `read` returns; `die` releases the reader; 0 means end of file.
- HLS buffer: overlapping refreshes neither repeat nor reorder chunks; a reader
  is not left waiting while the server has chunks; `stop` releases the reader;
  the end is reported after the last chunk.
- Playback: a decoder that becomes ready while a report is wanted makes it,
  however it becomes ready; `play` is answered by decoders that play; the
  position shown comes from one clock and goes back only with a seek; what plays
  reaches its end; a seek ends.
- Curl request: the scheduler knows a request exactly as long as it has retained
  it, and finds it by the handle libcurl has; the client hears response, data
  and end in this order and hears an end; a suspended transfer that is resumed
  goes on; a cancelled download leaves no file.

`PROJECT.json` names the lines where each of these could fail ("hazards"), with
the property that covers it or the reason why none does.

## 2. Modules

| Module | Models | Proof |
|---|---|---|
| `MuxedBuffer` | `AcinerellaMuxedBuffer`: one operator per lock section and per signal | |
| `Demuxer` (extends it) | container thread, decoder threads as callers of `nextPackage`, main thread as source of seek and terminate | `Demuxer_proofs` |
| `DecoderFeed` | abstract: what the decoders are promised, without threads or queues | `Demuxer` implements it |
| `NetworkBuffer` | `AcinerellaNetworkBufferInternal` with its main-thread callbacks, its reader and curl's transfer | `NetworkBuffer_proofs` |
| `HLSBuffer` | `AcinerellaNetworkBufferHLS` and `HLSStream` with server, main thread and reader | `HLSBuffer_proofs` |
| `Playback` | `play`, `pause`, `seek` and `coolDown` of the container, the messages of the decoders, the audio pump and the video pull, and what they report | `Playback_proofs` |
| `CurlRequest` | `CurlRequest` and `CurlRequestScheduler`: main thread, curl thread and the two queues between them | `CurlTypes_proofs`, `CurlRequest_proofs`, `CurlClient_proofs` |
| `MCDemuxer`, `MCNetworkBuffer`, `MCHLSBuffer`, `MCPlayback`, `MCCurlRequest` | extend these for TLC; the `.cfg` files give the constants | |
| `Queues_proofs` | nothing of the code: lemmas about queues (what appending, taking and joining do to members and to their number) that the proofs of `NetworkBuffer`, `Playback` and `CurlRequest` share | itself |

Variables keep the names of the members they stand for. Program counters (`opc`
container thread, `dpc` decoder threads, `rpc` reader, `mpc` main thread) mark
the places where another thread can get in: between two lock sections, between a
lock section and the signal after it, and inside waits. Operators whose comment
starts with "Mutant" are plausible mistakes; `PROJECT.json` says which property
each of them breaks. They are not part of any specification.

**MuxedBuffer / Demuxer.** A package is its stream index, the number of the run
it belongs to (`epoch`: a seek or an HLS discontinuity starts a new one) and its
place in the run; place 0 is the flush package. The queue and the flags of the
container are as in the code; `m_queue` holds the kinds of messages that matter
here. Messages for play, pause and volume are not modelled: they change nothing
these modules contain. `warmUp` is a step of the idle container thread. Libav is
external: any stream may have the next package and a run may end at any time.
`DemuxLoop`, `DemuxPackage`, `DemuxEnd`, `ReadDiscontinuity`, `ReadLiveEOF` and
`FinishDemux` together are `demuxMorePackages` with the read callback in it. The
decoders are terminated one after the other, in either order (the code takes
video first).

**NetworkBuffer.** Bytes are their positions: a chunk is where it starts and its
length. Functions posted with `callOnMainThread` and curl's callbacks share one
queue, `posted`, as they share the main run loop. The transfer of the newest
request (`transfer`) is external: it connects, answers (perhaps with a
redirect), delivers, completes or fails, and stands still while suspended.
Callbacks of a replaced request stay in the queue and are ignored when they
arrive. `m_didFailLoading` is written and never read, and is left out; so are
`m_length` (reported to the container only) and what a redirect does to headers.

**HLSBuffer.** A chunk is its media sequence number. A playlist is an interval of
published chunks that ends with the newest and begins anywhere, as sliding live
playlists do. The network buffer of a chunk gives data or its end; one that
hangs answers only once it is told to stop or die. A playlist request is one
request with one answer. `m_ended` of the buffer, which nothing sets, is left
out.

**Playback.** The media is cut in stretches 0 .. `Last`; a frame, a sample of the
device and a position are the stretch they belong to and the number of the seek
they came after. `Demuxer` shows that a decoder gets the packages of a run in
order and nothing of an earlier one, so here a decoder takes the next stretch
itself. A message of a decoder is one step: while it waits for packages it
changes nothing that another thread uses. Filling a sample is one step of the
pump (its task has priority 50, a decoder 3), and a sample takes one frame. What
`startSeeking` assigns before it flushes the muxer is one step. `ac_seek` lands
in the stretch asked for. The video decoder reports a position for each stretch
it shows. The build is the one that paints with cairo; the media is a file that
can be sought. `yielded`, which remembers that another player took the output
away, is a history variable. Not modelled: notifications of the client other
than those that change the player, the watchdog timer, dropping of late frames
and the pull thread's sleep, live streams, a device or codec that fails (of
`initializeAudio` the model has the way that succeeds).

`Play` is `Acinerella::play`. On AROS the player calls it alone; on other builds
`MediaPlayerPrivateMorphOS::play` (lines 441-446) calls `pause` and `coolDown`
first, which is `Yield` followed by `Play`. `PlayIsAnswered` promises nothing
after a yield, so it says nothing of those builds: there a play message may open
the device and be dropped (a hazard of `PROJECT.json`, `AcinerellaDecoder.cpp:101`).

**CurlRequest.** Tasks for the curl thread are taken a batch at a time, functions
for the main thread one at a time. `cancel`, `didReceiveData`,
`didCompleteTransfer` and `setupTransfer` test flags of the other thread and act on
them later; each is split where the other thread can come between. In
`setupTransfer` that is between the test of `m_shouldSuspend`, made without a lock
(`TestShouldSuspend`), and `setRequestPaused(true)` (`SuspendAtSetup`). `suspended`
is a history variable: the owner's last word, `suspend` or `resume`, whatever the
flags say. Owners call the two in turn. libcurl is external: a
transfer is refused, answers with blocks of headers, delivers pieces of a body
while it is not paused, ends or fails. The body of a download is the file being
open, closed or removed. Left out: sending a body, the message queue of
synchronous loads, metrics, buffering in the multipart parser, web-socket streams
of the scheduler and the end of the curl thread.

`NetworkBuffer` uses a request more coarsely (`transfer`): what it takes for
granted of it, that callbacks come in order, that none comes after `cancel` and
that a transfer ends unless suspended, are `ClientHearsInOrder` and `LoadEnds`
here.

## 3. Runs

| Run | Configuration | Result |
|---|---|---|
| `demux_file` | 2 streams with decoders, 1 seek, 2 packages per run, batch 2 | `FeedUnbroken`, `RequestIsOutstanding`, `OneRequestAtATime`, `EndOfStreamMeansDrained`, `ImplementsFeed`, `NextPackageReturns`, `TerminateReturns` hold |
| `demux_live` | HLS, 3 streams, 2 decoders, 1 discontinuity | `TypeOK`, `FeedUnbroken`, `RequestIsOutstanding`, `ImplementsFeed`, `TerminateReturns` hold |
| `demux_live_end` | HLS | `LiveEndIsSignalled` is violated (finding 1) |
| `buffer_read` | 3 bytes, read-ahead 2, 1 seek, 1 failure, redirects past the limit | `TypeOK`, `InPlaceUntilFailure`, `ReadsWhereAsked`, `ReadReturns`, `DieReleasesReader` hold |
| `buffer_gap` | 5 bytes, read-ahead 4, 1 failure | `BytesInPlace` is violated (finding 2) |
| `buffer_eof` | 3 bytes, no failure | `ZeroMeansEOF` is violated (finding 3) |
| `hls_chunks` | 3 chunks, 1 failed refresh, 1 chunk that hangs | `TypeOK`, `ChunksIncrease`, `UnreadChunkIsServed`, `StopReleasesReader` hold |
| `hls_eof` | 3 chunks | `EOFMeansAllRead` is violated (finding 4) |
| `playback` | sound and pictures, 3 stretches, tolerance 0, 2 calls of `play`, `pause`, yield or `seek`, 1 seek at most | `TypeOK`, `ReadyIsReported`, `PositionsInOrder`, `PlayIsAnswered`, `PlaysOut` hold |
| `playback_seek` | sound only, 5 stretches, tolerance 2, 2 calls and 1 seek | `SeekEnds` is violated (finding 5) |
| `curl_requests` | 1 request of any kind, 2 header blocks, 2 pieces, 1 suspend | `TypeOK`, `RetainedWhileReferenced`, `HandlesAreMapped`, `ClientHearsInOrder`, `ResumeReachesHandle`, `LoadEnds`, `IsReleased`, `CancelLeavesNoFile` hold |
| `curl_resume` | 1 deferred http request, 1 header block, 1 piece | `ResumeIsNotLost` is violated (finding 6) |

**Bounds.** The constants named `Max...` are bounds of the models, not of the
code. Two decoders are what the player has, and their indexes make a flush
package signal one of them (`demux_file`) or neither (`demux_live`). Two packages per
run and a batch of two let a queue be empty, at the read-ahead size and above
it, and let a batch end in the middle of a run, at its end and before it. One
seek gives two runs, and any longer sequence is a sequence of such pairs,
because `flush` leaves nothing of earlier runs; the theorems below need no
bound. A resource of three to five bytes in chunks of up to two with reads of two
has chunks read whole, partly and across their border, and a read-ahead of two
or four makes the transfer suspend. Three HLS chunks give one that is being read,
one prepared and one waiting, and playlists that overlap with all of them. A timed wait may end early only when what it waits for is signalled
or, in the two network modules, when the main thread has run what the waiter had
posted: ten seconds are taken to be enough for that. In `Demuxer` the one-second
wait may end at any time.

Three stretches let a decoder have a frame in the device, one queued and one to
come; the seek goes to the middle one, so that it and another are left. Two calls
give every pair of `play`, `pause`, yield and `seek`; a decoder queue of two holds
a position behind a message. The code ends a seek within five seconds of its
target and reads two seconds ahead. In `playback_seek`, whose violation is about
the end of a seek, the constants keep that relation (`Tolerance` 2, read-ahead 1). `playback` has `Tolerance` 0, so that there are
positions that do not end the seek although there are only three stretches; with
`Tolerance` 1, where every position ends it, the run passes too, in 680783 states.
The theorems of section 4 are for every tolerance. A seek that leaves a video
stream of a single frame is excluded on purpose: such a stream never becomes
ready (a hazard of `PROJECT.json`, `showFirstFrame`). In `curl_requests` the
constants allow every kind of request rather than require it: the one request
may turn out http or file, with one or two header blocks, plain or multipart.
One request shows the races between its own two threads. Two requests that share
the queues and get the same handle address one after the other are beyond the
liveness properties. `TypeOK`, `RetainedWhileReferenced`, `HandlesAreMapped` and
`ClientHearsInOrder` are proved for any number of requests and handles
(section 4).

**Deadlock** is checked for `Demuxer`, `NetworkBuffer` and `HLSBuffer`: apart from
the explicit `Finished` steps (the container thread is over; the container reads
no more) something can always happen. `Playback` and `CurlRequest` come to rest
when the client calls nothing more, as the program does; there the liveness
properties say what must have happened by then.

**Fairness.** Weak fairness of each thread: the system schedules runnable
threads, and no action of a model is enabled while its thread would be blocked.
`Demuxer` also takes it that a read callback comes back, which is what
`NetworkBuffer` (`ReadReturns`, `DieReleasesReader`) and `HLSBuffer`
(`UnreadChunkIsServed`, `StopReleasesReader`) show. `NetworkBuffer` takes it that
a transfer that is not suspended makes progress (curl's time-outs turn one that
does not into a failure), but never that it fails or succeeds. `HLSBuffer` takes
strong fairness for a posted `chunkSwallowed`, the refresh timer and the answer
to a playlist request: the main run loop serves each of them in turn, although
others keep arriving. `CurlRequest` takes it that both threads go on, that a
transfer that is not paused ends or fails, and that a client answers the
responses it is given and resumes what it suspended (`SetRequestPaused(r, FALSE)`
is enabled by `suspended`, so that an owner who has resumed does not do it again
and cannot repair a resume that was lost). `Playback` takes it that
every thread goes on, that the device plays the samples it has and that the pull
thread shows the next picture. No fairness is assumed of seeks, terminate, die,
stop, cancel, play, pause, failures or the server.

### Findings

1. `demux_live_end`: at the end of an HLS stream `Acinerella::read` means to "let
   demuxer signal EOF to decoders" and assigns `m_liveEnded = false`. Nothing
   ever sets it to true, so `demuxMorePackages` drops the null package and the
   decoders are not told.
2. `buffer_gap`: a retry after a failure asks for
   `m_bufferPositionAbs + m_bufferSize`; `m_bufferSize` still contains what was
   read of the front chunk, although its comment says "(- m_bufferRead)". That
   many bytes are skipped.
3. `buffer_eof`: `read` tests `m_finishedLoading` after it has released the lock
   under which it saw an empty buffer. If the last data and the completion come
   in between it returns 0, `eRead_EOF`, with data in the buffer.
4. `hls_eof`: the HLS `read` takes the stream for ended when no chunk is queued,
   without looking at the chunk `chunkSwallowed` has already prepared. The last
   chunk of an ended playlist is not played.
5. `playback_seek`: a seek ends when a position near its target is reported
   (`AcinerellaContainer.cpp:843`), and only outputs that play report positions.
   A player that has played and is paused, by `pause` or by the end of the media,
   has its audio device open: the `prePlay` of a seek does not fill a sample
   (`initializeAudio` returns at once), and no position is reported. The seek does
   not end until `play`, and later seeks are ignored meanwhile (line 268), although
   `HTMLMediaElement.cpp:3128` expects the end of a seek once enough is decoded to
   play back the new position. (With the device closed `prePlay` opens it, fills a
   sample and reports its position, which ends the seek.)
6. `curl_resume`: `setupTransfer` tests `m_shouldSuspend` without a lock and then
   calls `setRequestPaused(true)` (`CurlRequest.cpp:246`). A `resume` in between
   changes flags that this call sets back; the handle is paused and stays so,
   although `NetworkDataTaskCurl.cpp:128` says that after `resume` "communication
   resumes". `ResumeReachesHandle`, `LoadEnds` and `IsReleased` leave this one case
   out (`Overwritten`) and hold in all others.

## 4. Proofs

All theorems hold for every value of the constants that the `ASSUME`s of the
modules allow: stream indexes below 32 with the decoders among them, a decoder
for sound, pictures or both, subsets of the requests for the kinds of request,
sizes that are positive and bounds that are natural numbers. Where a theorem
needs more it says so. Every inductive invariant was first an invariant of a TLC run.

| Theorem | States | Extra hypothesis |
|---|---|---|
| `Demuxer_proofs!TypeCorrect` | `Spec => []TypeOK` | |
| `Demuxer_proofs!FeedIsUnbroken` | `Spec => []FeedUnbroken` | |
| `Demuxer_proofs!RequestsNeverStick` | `Spec => []RequestIsOutstanding` | |
| `Demuxer_proofs!DemuxerImplementsFeed` | `Spec => ImplementsFeed`, the refinement of `DecoderFeed` | |
| `Demuxer_proofs!OneRequest` | `Spec => []OneRequestAtATime` | `~IsLive` |
| `Demuxer_proofs!EndAfterLastPackage` | `Spec => EndOfStreamMeansDrained` | |
| `NetworkBuffer_proofs!TypeCorrect` | `Spec => []TypeOK` | |
| `NetworkBuffer_proofs!CopiesWhereAsked` | `Spec => []ReadsWhereAsked` | |
| `NetworkBuffer_proofs!StaysInPlace` | `Spec => []InPlaceUntilFailure` | |
| `HLSBuffer_proofs!TypeCorrect` | `Spec => []TypeOK` | |
| `HLSBuffer_proofs!ChunksAreReadInOrder` | `Spec => ChunksIncrease` | |
| `Playback_proofs!TypeCorrect` | `Spec => []TypeOK` | |
| `Playback_proofs!ReadyDecodersReport` | `Spec => []ReadyIsReported` | |
| `Playback_proofs!PositionsGoForward` | `Spec => PositionsInOrder` | |
| `CurlRequest_proofs!TypeCorrect` | `Spec => []TypeOK` | |
| `CurlRequest_proofs!HandlesAreTheirs` | `Spec => []HandlesAreMapped` | |
| `CurlRequest_proofs!RetainedAndReleased` | `Spec => []RetainedWhileReferenced` | |
| `CurlClient_proofs!ClientHearsItInOrder` | `Spec => []ClientHearsInOrder` | |

**Demuxer.** `FeedUnbroken` says that the package a decoder took last followed
by its queue is one chain that ends at the last package demuxed for it.
Appending a package to the end of the chain and taking one from its front keep
it a chain (`AppendToFeed`, `TakeFromFeed`); a flush empties the queue, and until
its flush package is pushed the clause for `opc = "seekPush"` holds instead. This
is not inductive by itself: one has to know that nothing queued belongs to a run
not yet begun (`EpochsBounded`), otherwise a flush package might not come
"later"; that the signalling loop never returns into the middle of
`startSeeking` (`ResumesOutsideSeek`); and, for the refinement, that on a file
only seeks begin runs, so that all that is queued belongs to the current one
(`FileRunsBySeek`): then nothing read before a seek is handed out after it. On a
live stream, where seeks are ignored, the rest of an older run may still be handed
out, and `oldestRun` maps to 0. `IndInv` is the conjunction, `Inductive` its proof,
with a lemma per part and a step per action. Boolean typing (`Flags`) is separate
from the rest (`Data`) because different provers handle them.

`RequestIsOutstanding` is inductive given the types: only the sink function sets
the flag, and it queues a message in the same step (the muxed buffer's lock
excludes other decoders); the flag is cleared where the request ends.
`OneRequestAtATime` needs the converse as well, that a request that is queued or
served has the flag set (`SingleRequest`). That is what a discontinuity breaks,
where `demuxMorePackages` clears the flag of a request that is still queued; hence
`~IsLive`. `EndOfStreamMeansDrained` is an action property; its step needs that
`m_queueCompleteOrError` is set only while the source has ended or the player
terminates (`EndIsKnown`), and then `FeedUnbroken` with an empty queue says that the
decoder has had the last package.

**NetworkBuffer.** For the types, `m_bufferSize` must be the sum of the sizes of
the chunks (`SizeInv`) and `m_bufferRead` must lie inside the front chunk
(`FrontInv`): otherwise the subtractions of `read` could go below zero. The sum is
not defined by recursion, about which nothing could be proved: `Sums(f, q)` says
that `f` is the function of partial sums, and each step that changes the buffer
gives the new one. `ReadsWhereAsked` needs `SeekInv`: until `die`, exactly as many
`start` functions are posted as `read` waits for, all for the position it asked
for, and a seek that was processed has left the buffer there. `InPlaceUntilFailure` needs
the callbacks on their way (`PlaceInv`): the buffer is a stretch that ends at `End`;
the data posted for the current request continues from there to where its
transfer is (`Stream`, again with a witness function); callbacks of replaced
requests have smaller numbers and are ignored; and at most one answer is posted,
before any data, so that a redirect never replaces a request that has data. All
of it is under `failures = 0`, a condition on the state: the retry after a failure
asks for the wrong place, which is finding 2.

**HLSBuffer.** `ChunkOrder` puts all chunks the player knows in one line: the last
one taken for reading, the one prepared, the one being prepared, the queue,
`m_mediaSequence`. A refresh appends only numbers above `m_mediaSequence`
(`NewChunksFacts`), whatever interval the playlist shows.

**Playback.** Two facts are needed beside the types. The run number in a position
stays within the seeks that were called because the muxer's run and the seeks
still on their way never add up to more (`SeeksAreCalled`). And `ReadyIsReported`
alone is not kept by the play message, which may open the audio device, and so
make the decoder ready, without a report: an audio decoder that owes the report
has its device open already (`ReadyingIsOpen`).

`PositionsInOrder` is an action property. It does not say that a position told
after a seek is of the new place (section 5), but that there is no way back over an
earlier one. The container takes
positions from one decoder only, the `Clock`, and a position passes through several places on its way, each
of which a seek, a pause or a reopened device may empty or refill. `LineInv` puts
them in one line, earlier first: `m_position` of the container, the positions that
wait in the decoder's queue, the marks of its output (the times of the samples in
the device's two halves, or the picture shown), the decoded frames in their order,
what the muxer hands out next. Each step takes from the front of a stretch of this
line and adds to its end, or drops a part; a seek appends a later run. It is an
invariant together with the types and with `OwnMessages`: a decoder gets only
messages of its own output.

**CurlRequest.** The batch the curl thread is running and `m_taskQueue` are one
queue, in which a task of a request may follow only certain others (`Ordered`).
`Life(r)` is the way of a request through `start`, the scheduler, libcurl and the
end: the transfer is added once, and what is active, queued, mapped or over goes
together. With `Mapped` (every entry of the map is of a request that holds the
handle) this is `LifeInv`, which gives `HandlesAreMapped` also where the address of
a handle is used again. `Balanced` then counts, with the lemmas of `Queues_proofs`:
the retains of a request are its releases that are due, each owed by a
different part of the state. That no release goes below zero, a part of `TypeOK`,
is not inductive without it: hence types and life are proved together.

`ClientHearsInOrder` speaks of what the client was told; what it will be told is
decided earlier, by the functions posted to the main thread. `ListensInv` therefore
says that the functions posted lead from what was told over orderly stories to a
last one (`Hearing`, with a witness function that has the story before each
function, as above for the sums): none of them has an end unless a function that
brings one is posted (`Closed`), and the last has every piece libcurl delivered and,
once the client was notified, a response. After `cancel` both what was told and what
libcurl delivers are frozen. Three invariants carry it. `CancelInv`: `m_cancelled` is
set from `cancel` on, there is no client after it, and cancel tasks exist for
cancelled requests only. `OnceInv`: nothing waits for a client that was not notified
(`Unheard`), a transfer whose end waits for the client is finished by one thing at
most, the answer to come, the completion it has queued or the one that runs
(`OneEnd`), and nothing more happens to a completed one (`AllDone`). `AnsweredInv`: the responses delivered are the
headers received, a local file notifies its client before the scheduler has the
request, and a transfer that ends without an error has a response.

**Only model-checked.** The liveness properties of the runs (`NextPackageReturns`,
`TerminateReturns`, `ReadReturns`, `DieReleasesReader`, `UnreadChunkIsServed`,
`StopReleasesReader`, `PlayIsAnswered`, `PlaysOut`, `ResumeReachesHandle`, `LoadEnds`,
`IsReleased`, `CancelLeavesNoFile`), because fairness and `ENABLED` are out of the
reach of this prover.

## 5. Not modelled

The contents of packages and playlists, libav, the timing of pictures against
sound, stream description for the client, `initialize` before the decoders exist,
media source extensions, libcurl itself, resource handles, the browser shell and
WebKit. The components of `PROJECT.json` give the reasons.

Seen while modelling `Playback`, and reached by it: a position that the audio pump
dispatched before a seek may be handled after `startSeeking` has set `m_isSeeking`.
If it is within five seconds of the target it ends the seek
(`AcinerellaContainer.cpp:843`) and is stored, before the decoders are flushed and
possibly before the media is sought. `seeking` is then false while the position shown
is still one of the old place, and jumps later. No property excludes it.

Seen while modelling, outside what the models contain: the limit of redirects is
reset by `start` only (`AcinerellaBuffer.cpp:68`); `m_length` has no initial value
(`AcinerellaBuffer.h:71`); a master playlist that fails is dropped without a retry
(`AcinerellaHLS.cpp:329`); an audio device that cannot be opened leaves the decoder
unready without telling the client (`AcinerellaAudioDecoder.cpp:234`); a file
without sound never reports its end (`AcinerellaAudioDecoder.cpp:529`).

## 6. Plan

In this order, most important first:

1. Playlist requests (`AcinerellaNetworkFileRequest`) as a part of `HLSBuffer`,
   and a composition of `HLSBuffer` with an abstract byte source that
   `NetworkBuffer` is shown to implement.
2. An abstract player, the states as the client sees them, that `Playback`
   implements.
3. `MediaSourceBuffer`: appends, aborts and removals against the parsing thread
   and the muxed buffer's per-index operations.
4. `CurlDownload` and the resource handle as clients of `CurlRequest`.
5. Proofs: the refinements of points 1 and 2. Every safety property that a passing
   run checks is a theorem of section 4.
