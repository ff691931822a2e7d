# ipchub: formal models

ipchub is a streaming media server written in Go. A *source* (a camera pulled
over RTSP, or a client that pushes) feeds a *stream*; players consume the stream
over RTSP (TCP, UDP, multicast, WebSocket), WSP, HTTP-FLV, WebSocket-FLV or HLS.
This directory holds TLA+ modules for its core logic, the TLC configurations that
check them, and machine-checked proofs: of every safety property that a passing run
checks, and of one refinement.

Contents: 1 inventory, 2 modules, 3 the modules and the code, 4 runs, 5 fairness
and assumptions, 6 proofs, 7 what the checks found, 8 what is not modelled and
what could follow.

## 1. Inventory

| component (source) | state | operations | interacts with | hard part | what must hold |
|---|---|---|---|---|---|
| stream and consumptions (`media/stream.go`, `consumption.go`, `consumptions.go`, `cid.go`) | status, two `sync.Map`s of consumptions with a counter beside each, a queue and a `closed` flag per consumption | StartConsume, StopConsume, WriteRtpPacket, WriteFlvTag, close, the consume goroutine | sources write, sessions and handlers consume, the registry closes | no lock spans two steps of anything: map and counter, status and collection, flag and queue | no consumption is lost or served after its end; the counter covers what is attached; close reaches everyone |
| pack caches (`media/cache/*.go`) | parameter packs and the current group of pictures (GOP), under a lock | CachePack, PushTo, Reset | the writer and each StartConsume | the GOP handed over and the live packs are joined without a lock | a player's feed begins with the parameters and the GOP at hand, and once live it is broken only between GOPs |
| registry (`media/global.go`) | `sync.Map` path to stream; a timer task per abandoned stream | Regist, Unregist, Get, GetOrCreate, the task | pull clients, pushers, viewers, the management API | load and store of the map are separate; a stream registers long after it was created | an ended source leaves nothing registered or open; a replaced or abandoned stream is closed in the end |
| RTSP pull client (`service/rtsp/pull_client.go`) | connection, RTSP dialogue, the stream it feeds | Open, playStream, Close | registry, stream | authentication retry, the goroutine that outlives Open | a pull that ends unregisters its stream |
| RTSP session (`service/rtsp/session*.go`) | mode, status, transport, role | one handler per RTSP method, Consume, Close | registry, stream, users, multicast proxy | the reader goroutine and the consume goroutine share the role | a session that ended consumes and feeds nothing |
| multicast proxy (`service/rtsp/multicast_proxy.go`) | members, one consumption, closed | AddMember, ReleaseMember, Consume, Close | sessions, stream by path | Close of an old run against a new run | it runs while it has members |
| HLS (`av/format/hls/*.go`, `service/hls`) | current segment, window of segments, pooled buffers | WriteMpegtsFrame, addSegment, M3u8, Segment, Close | TS muxer goroutine, HTTP readers, stream.close | buffers go back to a pool while they are read; close beside the writer | numbers are consecutive; a reader gets the segment it asked for |
| FLV service (`service/flv`) | a close channel per viewer | ConsumeByHTTP, ConsumeByWebsocket | registry, stream | | the consumption ends with the request |
| WSP (`service/wsp`) | control and data channels, status, paused | WRAP requests, JOIN of a data channel | registry, stream | channel joins beside the end of a session | as for RTSP sessions |
| RTP demuxer (`av/format/rtp`) | queue, fragments, synchronisation clock | WriteRtpPacket, depacketizing | stream, muxers | lost and reordered packets, timestamps that wrap | a frame is never put together from two |
| FLV and TS muxers (`av/format/flv/muxer.go`, `av/format/mpegts/muxer.go`) | queue, closed | WriteFrame, process, Close | demuxer, stream, HLS | as for consumptions | headers precede frames |
| users and rights (`provider/auth`) | users by name, lists of changes | Save, Del, Flush, Get; matchers | sessions, API | bookkeeping over any sequence | the provider ends up with what was saved, across failed writes and restarts |
| tokens (`provider/auth/token.go`) | tokens by access and refresh key | NewToken, Refresh, AccessCheck, ExpCheck | API, HTTP services | load, then delete | a refresh token is used once |
| routes (`provider/route`) | routes by pattern, lists of changes | Match, Save, Del, Flush | GetOrCreate, API | longest prefix | the most specific route wins |
| listener, connections (`network`) | sockets | Serve, Close, matchers | services | closing beside serving | |
| formats, codecs, config, stats, utils | none to speak of | parse, format | | | |
| demo players (`demos`) | none | | | third-party JavaScript, not the program | |

The hazards that the properties are aimed at are listed, each at its line, in
`PROJECT.json`.

## 2. Modules

| module | what it is |
|---|---|
| `MediaStream` | the life cycle of one stream and its consumptions, every load and store a step |
| `PackFeed` | abstract: what the consumers of a stream are promised |
| `PackDelivery` | caches, GOP hand-over, queue limit; implements `PackFeed` |
| `StreamCenter` | the registry, the sources, the viewers and the no-consumer task |
| `Sessions` | the RTSP and WSP sessions and the multicast proxies around the streams of one path |
| `RtpDemux` | reassembly of NAL units from lost, repeated and swapped RTP packets |
| `SegmentTiming` | timestamps, PTS, and when an HLS segment is cut |
| `HlsPlaylist` | the files and buffers of HLS segments beside the muxer, close and readers |
| `ChangeTable` | the tables of users and of routes, their file, and crashes of the server |
| `MediaStream_proofs`, `PackDelivery_proofs`, `StreamCenter_proofs`, `Sessions_proofs`, `RtpDemux_proofs`, `SegmentTiming_proofs`, `HlsPlaylist_proofs`, `ChangeTable_proofs` | theorems, checked by TLAPS |
| `MC...` | instances for TLC |

How they fit together: packets come in through `RtpDemux` (frames for HLS and FLV)
and `PackDelivery` (packs for RTSP players). Each module has one part in detail
and takes as one step what another has in detail:

- `MediaStream` keeps the length of a queue and whether a cache holds anything,
  and has every interleaving of the goroutines. `PackDelivery` keeps the packs,
  and lets a consumption go from joined to removed in one step.
- `StreamCenter` has many streams and treats one stream's `close`, and the
  counter of its consumers, as one step. `Sessions` does the same with
  StartConsume, StopConsume and close, and has what the viewers of
  `StreamCenter` are inside.
- `SegmentTiming` says when a segment ends, `HlsPlaylist` lets it end at any frame
  and follows its bytes.
- `ChangeTable` stands for `auth.manager` and `route.routetable`, which are the same
  algorithm line by line; its map in `PROJECT.json` names the former.

## 3. The modules and the code

**MediaStream.** `registered` is the keys of `consumptions` and
`flvConsumptions`, `count` their counters. A call is a program counter
(`starting`, `removing`, `writing`, `closing`, `consuming`) moved by one action
per access to shared state. `startConsume` is StartConsume, Store, CountAndGo
(the counter and `go c.consume()`; the goroutine's first step is a step of its
own). `StopConsume` is FindConsumption, DeleteConsumption, DecrementCount,
CloseRemoved, whether the session, the API or the consumption's own goroutine calls
it. `close` is BeginClose (the load of the status), StoreStatus, then for FLV and
for RTP the Range of RemoveAndCloseAll (DeleteInRange, CloseInRange), ZeroCount and
ResetCache. A `sync.Map` Range is the set of keys it has yet to visit: a key
stored during the Range may be seen or not, a key deleted before its turn is
skipped, or visited all the same if the Range had loaded its value. `send` pushes or
does not push (`Send`): which of the two is the business of `PackDelivery`.
`MaxQueue` bounds the queue: a push to a full queue is treated as a pack that
`send` discards.

The queue is `cnotch/queue.SyncQueue`, an external library. Its Pop takes an
element, or waits, or returns nil after a Signal. A Signal wakes a Pop that is waiting;
whether one that finds nobody waiting is remembered for the next Pop cannot be read off
this repository, so CloseConsumption leaves it open, each time anew. With a Signal that
is forgotten, a Close between the test of `closed` and the Pop (consumption.go:97) leaves the
goroutine waiting: PopWaits calls this state `late`, and ClosedConsumptionEnds excepts it
and nothing else.

**PackDelivery.** A pack is its number and its shape: which parameter sets and
whether a key picture is in it, and whether the cache looks at it. `H264Cache`
(sps, pps), `HevcCache` (vps, sps, pps) and `FlvCache` (metadata, video header,
audio header) differ in the parameter kinds and the order in which CachePack
tests them and PushTo writes them; `ParamOrder` is that order. An aggregation
packet with a parameter set and a key picture counts as the parameter set, as in
the code. `discarding` changes at key frames only. `MaxGop` is an assumption on the
source (a key frame among any MaxGop packs), used by `QueueIsBounded` alone.
Not modelled: the byte counts, and the new timestamp FlvCache gives the copies of
the headers. A new parameter set leaves the cached GOP in place, against the comments of
CachePack (section 7). FlvCache.PushTo writes the cached GOP whether or not `cacheGop` is
set; with it off the GOP is empty, so both forms agree.

**StreamCenter.** `registry` is the map `streams`. Each stream has a source with a
program counter: new, Regist (RegistLoad, RegistStore, RegistCountOld,
RegistCloseOld), running, Unregist (UnregistLoad, UnregistDelete, UnregistClose).
A viewer gets a stream (Get) or opens a pull client (OpenPull, PullOpened), and
attaches later, to whatever the stream has become. `fresh` abstracts the clock:
the playlist was read less than five minutes ago. `RunTask` is the body of
`run` with its two tests and the panic on a stream without playlist; the task
then decides and closes in two steps. A stream is pulled or pushed (`Pulled`, `Pushed`; the
instance lets each be either), and `KeepAlive` are those pulled for a route with keepalive,
for which no task is posted: the route can be saved anew between two requests, so two
pulls of one path may differ in it.

**HlsPlaylist.** Three kinds of goroutine share a segment generator without a lock:
the TS muxer's, which writes frames and cuts segments (`muxer`, and its local
variables `curr` and `out`); the closers of the stream (`closer`, `currOf`); and HTTP
requests for a segment (`reader`) or for the playlist (`client`). Every load and
store of `current` and of a segment's file is an action; the playlist's own lock
makes AddSegment and M3u8 one step. A Cell is what holds bytes: a pooled
buffer when segments are kept in memory, an inode otherwise. `pool[c]` counts how
often the pool holds a buffer, so giving one back twice shows. `data[c]` is whose
frames the cell holds, not what they say. `delayed` is the scheduled delete of
`clearSegments`. A cut may come at any frame here, as the number of the
last segment is what bounds an instance (`LastOf`). `persistentSegmentFile.close` is several stores
(segmentfile.go:104-110: flush, close, and three fields to nil), taken as one step
(CloseFile); a closer inside it beside the muxer's goroutine could also panic on the nil
of a field, which is not modelled.

**Sessions.** `at` is the program counter of the goroutine that reads the requests,
`mode`, `transport`, `status`, `consumer` are the fields of Session, `feeds` the stream a
pusher registered. A request is one action, except PLAY of a TCP player (Play,
Starts, Started: the goroutine of the consumption can run, and fail, before the
consumer knows its cid) and of a multicast player (Play, Join). The goroutine of a
consumption sends, ends (TaskEnds) and releases its owner (TaskReleases). A send that fails
closes the consumer, and so does the end of the session, and the two may be inside
`tcpConsumer.Close` at once: its test of `closed`, its store, its StopConsume and
`source = nil` are SendFails, StoreClosed, StopFailed, ClearSource in the one goroutine and
TestClosed, StoresClosed, StopsConsumer, ClearsSource in the other. Who comes to the
StopConsume after the other's `source = nil` panics. The goroutine of the consumption
recovers and stops its own consumption on its way out (StopPanics, consumption.go:79-95); the
session's is in a deferred function past its recover, which ends the program (Crashes,
session.go:150-158; nothing happens after it). Last, the session closes the stream it
feeds (CloseFeed). A WSP session stops its consumption in its own goroutine only (StopsWsp).
The operations of a multicast proxy hold its lock and are one action each. Left out:
authentication and permissions (they refuse and change nothing), PAUSE and the data
channel of WSP, and other panics.

**RtpDemux.** A NAL unit is its first packet's number, its kind and its parts;
packets travel on `way`, a set from which any may arrive, get lost or be repeated.
`queue`, `pc`, `pending` are the demuxer's goroutine, `fragments`, `meta`, `metaReady` the
depacketizer. The two codecs differ as in the code: with nothing held, H264
takes any fragment, and so writes the rest of a unit whose start was lost
(h264_depacketizer.go:150); H265 drops it. Sequence numbers are compared modulo
`SeqMod`. NumberIsFree is an assumption on the environment: no packet is under way
while the encoder wraps all the way round to its number. A parameter set is stored
once and never replaced, as in the code (h264_depacketizer.go:190). An aggregation packet that
is cut short makes the depacketizer index past its payload and panic (Panics): the goroutine
ends, the queue is reset, and the demuxer stays open, its queue growing with every packet.

**SegmentTiming.** In each instant the source captures a video and an audio frame,
and the clocks tick. Control is the first sender report of a medium: its RTP time
replaces 0, so the PTS (timestamp less that time, in `Pts`) jump back when it comes
after the first frames; and they jump at a wrap of the timestamp. The PTS of each
medium is relative to its own first report, not to a common NTP time.
VideoCuts, VideoAppended, AudioFlushed, AudioCuts and AudioCached are the cases of
WriteMpegtsFrame, with `updateDuration` and the audio cache.

**ChangeTable.** `m` and `l` are the map and the list of the table, `saves` and `removes` the
changes since the last Flush. The write of the file is FlushBegins (the file is
truncated, `torn`) and FlushEnds or FlushFails, because the process may Crash between them; every
other operation holds the lock and is one action. Service.Close flushes once more,
and after it a Save may still come (`up` = "flushed"). Reset reads the file and panics on a
torn one.

## 4. Runs

| run | instance | checks | states, time |
|---|---|---|---|
| `media_stream` | an FLV and an RTP consumption, 1 outside stopper, 1 closer, 1 writer of RTP packs, a Signal without a waiter remembered or not | TypeOK, CountCoversConsumers, NoLostConsumption, ReleasedIsDetached, ClosedConsumptionEnds | 813 k, 3 min |
| `media_stream_count` | 1 consumption, 2 stoppers | CountIsExact: violated | |
| `pack_delivery` | 1 consumption, 5 packs of 5 shapes, queue limit 1, key frame among any 2 packs | TypeOK, QueueIsBounded, CacheHoldsCurrentGop, FeedIsProper | 1.5 M, 20 s |
| `pack_delivery_params` | the same | ParamsPrecedeGop: violated | |
| `stream_center` | 2 streams on one path, each pulled or pushed, HLS on the first, keepalive on the second, 2 viewers | TypeOK, EndedSourceLeavesNothing, ReplacedIsNotForgotten, ClosedStreamLosesSource, AbandonedStreamCloses, ReplacedStreamCloses | 316 k, 100 s |
| `stream_center_no_hls` | a pulled and a pushed stream, no HLS | AbandonedStreamCloses: violated | |
| `sessions` | 2 sessions (symmetric) of either kind, 2 streams of one path, the first with a multicast proxy, 2 consumptions of each | TypeOK, RolesAgree, EndedSessionIsDetached, ProxyRunsForMembers, StopsItsOwn | 3.8 M, 2 min |
| `hls` | 2 streams on one path with up to 5 and 2 segments, the first is closed; 1 reader, 1 client, 5 buffers or inodes; in memory and on disk | TypeOK, OneOwner, ListedIsIntact, ReaderGetsItsSegment, CloseLeavesOneFrame, WindowSlides | 2.6 M, 75 s |
| `segment_timing` | 13 instants, segments of 3, a key frame among any 8 frames, clocks that start at 0 or at 20 and wrap at 32, late or missing sender reports | TypeOK, SteadySegmentKeepsLength, SteadyDurationIsSpan, AudioIsKept | 5.8 M, 40 s |
| `segment_timing_length` | the same, a key frame among any 2 frames | SegmentKeepsLength: violated | |
| `rtp_demux` | both codecs, 7 packets, units of up to 3 parts, sequence numbers modulo 5, 2 packets under way, 2 lost or repeated | TypeOK, FrameIsOfOneUnit, HevcFrameIsWhole, RecoversFromLoss, FramesHaveParams | 11.1 M, 2 min |
| `change_table` | 2 names, 2 passwords, 2 other contents; nothing else is bounded | TypeOK, ListIsMap, ChangesExplainTable, FileHasTheRest, ChangesAreStored | 391 k, 50 s |

Three more configurations end with a counterexample each, listed in section 7:
`MCMediaStream_ClosedStreamHasNoConsumer`, `MCStreamCenter_Flv` and `MCHlsPlaylist_M3u8`.

Why the bounds are enough:

- *Consumptions.* Every property of `MediaStream` is about one consumption and
  those who act on it, or about the counter, where two consumptions show one being
  counted while another is removed. A consumption can be removed by three callers at
  once in these runs: its goroutine, the stopper, the closer. One consumption is of each
kind, because `close` sweeps the FLV collection first; only RTP packs are written, as the
writers of the two kinds share nothing but the status.
- *Queue.* MaxQueue = 1 separates empty from non-empty, which is all the goroutine
  tells apart.
- *Packs.* Five packs with a key frame among any two give up to five GOPs, so
  the queue limit of 1 is passed, discarding goes on, off and on again, and a
  consumer joins before, in and after a GOP. One consumer is enough: consumers do
  not read each other's state.
- *Streams.* Two on one path are enough for every race of Regist and Unregist: a
  replacing stream, a replaced one, and a deletion that hits the other. Both may be
pulled, each by a viewer that found the path empty, and the replaced one may have a
playlist or not. In
  `sessions` they let a proxy or a player find the wrong stream under its path.
- *Sessions.* Two can be pusher and player, two players of one proxy, or players
  of two streams; the numbers of consumptions agree between streams (MaxCid 2), so a
  stop on the wrong stream can hit a live consumption.
- *Segments.* The window holds 3; five segments slide it twice, and the buffers of
  the first two are used again, by the same stream or by the second. Five
  cells are more than the segments a run can have at once, so New is never
  refused. Two overlapping closers are a run of their own size (8 M states); they
  are what OneOwner excludes.
- *Instants.* 13 hold four segments of 3, or one that is cut by audio at 6, with a
  jump of the clock in any of them.
- *Packets.* Seven packets modulo 5 wrap once, before, in or after a unit of three parts. Two faults can lose
  the end of one unit and the start of the next, whose parts then meet.
- *Changes.* `saves` and `removes` never name anything twice (part of ChangesExplainTable),
  so two names give all orders of two changes; a Save and a Del of one name, in any
  order and across failed writes, is what their loops treat specially.

Deadlock is checked in `change_table`, `segment_timing`, `segment_timing_length` and
`rtp_demux`, whose Rests actions name the states where nothing happens any more. It
is off in the others: consumptions, streams, sessions and segments are finite sets,
used once each, so those instances come to rest when they are used up.

## 5. Fairness and assumptions

- `MediaStream`: weak fairness of each thread of control once its call has begun: a
  StartConsume with the goroutine it leaves and its cleanup, an outside StopConsume, a close.
  Go runs every goroutine that can run, and none of these steps waits for anything but a
  consumer's `Consume`, assumed to return (sockets have write deadlines or are closed). No
  fairness for beginning a call, and none for the writers: a consumption must end without
  another pack coming.
- `StreamCenter`: weak fairness of a source's steps (a running source gets its next
  pack, or its read times out), of the clock and of the posted tasks. None for
  viewers (a GetOrCreate that opened a pull may never get to post its task), for a failing source, or for the management API.
- `ChangeTable`: weak fairness of the Flush task while the server is up (the scheduler posts
  it every 5 minutes, service.go), strong fairness of a successful end of a write: a
  disk may fail any number of times, not for ever. None for Save, Del, stops or crashes.
- `PackDelivery`, `Sessions`, `RtpDemux`, `SegmentTiming` and `HlsPlaylist` have no
  liveness property, and their specifications no fairness.

Assumptions on the environment are in the guards that name them: MaxGop
(`PackDelivery`, `SegmentTiming`: the source sends key frames), NumberIsFree (`RtpDemux`), and
an HLS fragment of at least 5 seconds (the configuration sees to it), so that no
segment is shorter than the minimum that addSegment drops.

## 6. Proofs

| module | theorem | statement |
|---|---|---|
| `MediaStream_proofs` | `TypeCorrect` | `Spec => []TypeOK` |
| | `ReleasedDetached` | `Spec => []ReleasedIsDetached` |
| | `NoConsumptionLost` | `Spec => []NoLostConsumption` |
| | `CountCovered` | `Spec => []CountCoversConsumers` |
| `PackDelivery_proofs` | `TypeCorrect` | `Spec => []TypeOK` |
| | `QueuesAreBounded` | `Spec => []QueueIsBounded` |
| | `CacheIsCurrent` | `Spec => []CacheHoldsCurrentGop` |
| | `DeliveryIsProper` | `Spec => FeedIsProper`, which is the specification of `PackFeed` |
| `StreamCenter_proofs` | `TypeCorrect` | `Spec => []TypeOK` |
| | `EndedSourcesLeaveNothing` | `Spec => []EndedSourceLeavesNothing` |
| | `ReplacedAreNotForgotten` | `Spec => []ReplacedIsNotForgotten` |
| `Sessions_proofs` | `TypeCorrect` | `Spec => []TypeOK` |
| | `RolesStayApart` | `Spec => []RolesAgree` |
| | `EndedIsDetached` | `Spec => []EndedSessionIsDetached` |
| | `ProxyHasMembers` | `Spec => []ProxyRunsForMembers` |
| | `OthersAreLeftAlone` | `Spec => StopsItsOwn` |
| `RtpDemux_proofs` | `TypeCorrect` | `Spec => []TypeOK` |
| | `FramesAreOfOneUnit` | `Spec => []FrameIsOfOneUnit` |
| | `HevcFramesAreWhole` | `Spec => []HevcFrameIsWhole` |
| | `FramesFindParams` | `Spec => []FramesHaveParams` |
| | `Recovers` | `Spec => []RecoversFromLoss` |
| `SegmentTiming_proofs` | `TypeCorrect` | `Spec => []TypeOK` |
| | `AudioStaysKept` | `Spec => []AudioIsKept` |
| | `SegmentsKeepLength` | `Spec => []SteadySegmentKeepsLength` |
| | `DurationsAreSpans` | `Spec => []SteadyDurationIsSpan` |
| `HlsPlaylist_proofs` | `TypeCorrect` | `Spec => []TypeOK` |
| | `PlaylistSlides` | `Spec => WindowSlides` |
| | `BuffersHaveOneOwner` | `Spec => []OneOwner` |
| | `ListedAreIntact` | `Spec => []ListedIsIntact` |
| | `ReadersGetTheirSegments` | `Spec => []ReaderGetsItsSegment` |
| | `ClosesLeaveOneFrame` | `Spec => []CloseLeavesOneFrame` |
| `ChangeTable_proofs` | `TypeCorrect` | `Spec => []TypeOK` |
| | `ListStaysMap` | `Spec => []ListIsMap` |
| | `ChangesKeepExplaining` | `Spec => []ChangesExplainTable` |
| | `FileKeepsTheRest` | `Spec => []FileHasTheRest` |

The assumptions are those the modules state by name, and TLC evaluates them in every
run: ConstantsAssumption and FiniteAssumption (the callers of `MediaStream` are disjoint
and, where they are counted, finite sets), SessionsAssumption (sessions and streams are
disjoint), RtpAssumption (sequence numbers of any width above 2; any bounds),
TimingAssumption (timestamps of any width; any fragment, delay and group of pictures),
DeliveryAssumption and NoPackAssumption (any sequence of parameter kinds, any shapes, queue
limit and MaxGop; the missing pack is not a pack), CenterAssumption and HlsAssumption (every
stream has a path; any number of segments) and TableAssumption (a finite set of names).
MaxGop, NumberIsFree and the other bounds of section 5 are in the guards, so the
theorems hold under them, for every value. The sizes that a run fixes (streams, consumers,
packs, segments, buffers, widths) are constants of which the proofs know no more
than these assumptions. The number of listed segments is 3, as in the code.

**MediaStream.** `ReleasedIsDetached` and `NoLostConsumption` are not inductive. DetachInv adds
what a step relies on: a goroutine exists only once its consumption was counted;
what is registered was stored; a removal in progress has a target that was
stored, and has it out of the collection once it is past its Delete; a goroutine
removes its own consumption in its cleanup only. For the counter,
`ClosingIsDecided` says that a closer touches the collections only after it stored a
status, so a step that resets or empties them happens on a closed stream, of
which CountCoversConsumers says nothing. The four steps that move the counter or
one of the sets it is compared with have a lemma each (StoreCounts,
CountAndGoCounts, DeleteCounts, DecrementCounts), with the cardinality theorems of
the TLAPS library; every other step leaves all of them alone (KeptCounts).

**PackDelivery.** The packs a consumer has been through are those up to `Handled(c)`: all of them, or
all but the one being written when the writer has yet to come to it. The caches are
settled first: the parameter packs are the newest of their kinds (ParamsAreNewest), and the
GOP is what was published since the last key frame (GopIsCurrent). Of a
consumer, FeedGoesOn says that its feed has reached Handled, or, while it is discarding, that it
left off before a key frame; QueueFollowsGop says how long its queue can be at a given
distance from the last key frame (`Grown`), because nothing is checked in between.
Both depend on the consumer's own state only, so a step of another keeps them
(ConsumerStays). KeysAreFrequent, that is MaxGop, then bounds the queue (GrownIsBounded). The
refinement maps each step: the writer's Write is a Publish (WriteIsPublish), a send that
pushes is a Feed (SendIsFeed, from FeedGoesOn), StartConsume with something to hand over is a
Join (StartConsumeIsJoin, from GopIsCurrent), and every other step a stutter.

This proof corrected the model's bound, which had allowed for one GOP beyond what a join
hands over and holds for MaxGop 1 and 2 only: when a key frame is published between the
join and the Store of the consumption, the GOP handed over and the one that has begun both
reach the queue unchecked. TLC has the counterexample with MaxGop = 3, and the bound of
QueueIsBounded is the one that is proved.

**StreamCenter.** `IInv` has what the two properties read: a path leads to a
stream of that path whose source has stored it and is not past its Delete (StoredIsAlive),
what Regist found exists (FoundIsCreated), and what it replaced is closed or has its task
posted (TaskIsPosted). An open stream whose source ended would contradict
EndedSourceLeavesNothing, so ReplacedIsNotForgotten follows. That the posted task in the end
closes a stream with a playlist is ReplacedStreamCloses, a liveness property, and stays with TLC. A
source whose Unregist deletes the entry of a stream that replaced it keeps all this, since
nothing says that a running stream can be found. Closing moves viewers and one status, and
never opens anything (CloseStreamCloses), so one lemma does for all actions that close.

**HlsPlaylist.** Three layers, each on the one before. *Control*: the goroutine of the muxer
and the closers, and the numbers they have in hand. `ControlInv` says where `current`,
`curr`, `currOf` and the list can be relative to `sequenceNo`, and what the muxer can
still do after `closed` was set: end the cut it is in, open one segment and write one
frame. That gives WindowSlides and the first half of CloseLeavesOneFrame. *Owners*: the
buffer of the oldest segment is given back by AddSegment, that of the current one by a
close, and ControlInv keeps those two numbers apart (OldestIsPast); hence OneOwner, from
OwnersAreOne, which says without cardinalities who has a buffer. *Bytes*: handles
(HandleInv), files that must be there (NeedInv), their contents (ContentInv) and what a
close leaves (LeftInv). In memory contents stay because a buffer has one owner
(BufferStaysOwn); the one write that may come from another is that of the frame in hand of a
stream whose muxer was closed (WritesAreOwn), after which that goroutine is idle for good, so
it is a late frame from then on. A segment that leaves the window stays what it was until
three newer ones were listed (ListedUntilOutOfDate), since its buffer is given back only
then, or by a close; hence the request that still reads it. On disk they stay because an inode belongs to one name from its creation
on, and a name is written by one stream only (InodesHaveNames, InodeStaysOwn); so a
request may go on reading a file that was deleted.

**Sessions.** EndedSessionIsDetached says nothing of the sessions that still run, so
`IInv` says who will stop what. ConsumptionIsHeld: a session that may still start a
consumption owns none on any stream, and whatever it owns afterwards is held (Holds): by the
session, whose consumer is not closed yet, or which has closed it and comes to its StopConsume,
and which knows the number or is about to be told the only one there is; or by the
goroutine of that consumption, which has stored `closed` and comes to its StopConsume; or a send
failed before the number was known (deaf). TaskIsRight says what such a goroutine has
done. When the session clears `source` first, the goroutine stops its own consumption
on its way out (StopPanics), and no later step needs the number. SessionIsConsistent ties the progress of the
request goroutine, status, mode and consumer together, which gives RolesAgree and
rules out that a session plays twice. ProxyKnowsItsOwn is about the registered stream
only: there the consumption of a proxy is the one the proxy knows, so that closing it
takes that one away. It can say no more, since a proxy looks its stream up by path, and
survives a replacement because a stream that has just been published has no consumption.
HeldStaysHeld is the argument for all sessions that do not act; it is used by every
action, by way of HeldWhileShrinking and HeldBesideStart. StopsItsOwn needs the same
invariant: the number a session stops is owned by it. ProxyCloseEndsClients is not
among the theorems, since the code violates it.

**RtpDemux.** The code compares sequence numbers modulo 2^16, and the frame it then
puts together is right only if equal remainders mean the next packet. `IInv` therefore
carries OutstandingIsNear: packets on the way, in the queue and held as fragments are
fewer than SeqMod apart, which NumberIsFree preserves, and from which SmallMultiple
turns the remainder check into equality of packet numbers. PacketsAreShaped and
NextIsNextPart say what the encoder sends: the packet after a part is the next part
of that unit. IsHeld says what the fragments are at any time, FramesAreWritable what
waits to be written, and ReadyMeansKnown ties `metaReady` to the parameter sets.
For RecoversFromLoss, `RInv` follows the history variable `run`, the parts of one unit popped
one after the other: until its last part came, the fragments held are the run
(RunIsHeld), since the next part is the next packet and so Follows; with its last part it
is the frame to write, then the frame written (RunIsWritten). FragmentsAreNumbered
and EndsAreEnds say that a part tells the number of its packet, and that nothing
outstanding goes on after the end of a unit.

**SegmentTiming.** AudioIsKept is inductive with the types: the cache begins after the
newest frame written and ends with the newest captured, on each way through a cut, a
flush or both (CachedIsKept, FlushedIsKept, AudioCutsKeepsAudio). The steady properties
measure in instants what the code measures in PTS. While the clocks do not jump, all
frames have one shift between the two (FrameHasShift; NothingShifted before the first
frame, then StartIsShifted and CacheIsShifted); a timestamp that wraps changes the
shift, and counts as a jump. SteadyMeansOne turns the cardinality in Steady into that one
shift, with the theorems of the library, hence ShiftsAreFinite. The duration then
follows the clock (DurationFollows), a key frame cuts when it is due
(VideoIsInTime), and so does the audio at twice the length (AudioIsInTime); ListedIsSpan
says what the cut lists. The first segment is the exception in SteadyDurationIsSpan:
it counts from PTS 0.

**ChangeTable.** `IInv` is TypeOK, FlushingRuns (whoever is in a Flush is in a process
that runs) and the three properties themselves: the list is the map only because Save and
Del change both, the lists of changes explain the table only because the loops drop
exactly one entry (lemmas WithoutOf and DropOf, which hold because no list names
anything twice), and the file follows from what the lists explain. That the list written to the file is the map uses that
every entry is listed once.

Every invariant and action property of a passing run is proved. Only model-checked are the
liveness properties (ClosedConsumptionEnds, ClosedStreamLosesSource, AbandonedStreamCloses,
ReplacedStreamCloses, ChangesAreStored): the prover has neither fairness nor ENABLED.
The properties that the code violates (section 7) have no theorem.

## 7. What the checks found

Four runs end with a counterexample; `PROJECT.json` quotes the text that the code
disagrees with.

1. `media_stream_count`: two StopConsume of one consumption decrement twice. The
   counter may then stay below the number of consumers, and the registry takes a
   stream for abandoned that is not.
2. `stream_center_no_hls`: the no-consumer task never closes a stream without HLS
   playlist, because it panics on the nil inside the interface.
3. `segment_timing_length`: when the PTS jump back (a first sender report after the first
   frames, a timestamp that wraps) the open HLS segment grows until they have caught up.
4. `pack_delivery_params`: a new parameter set does not reset the cached GOP, as the comments
   say (h264cache.go:45, :50). A consumer that joins in such a group is given the new parameters
   first and then pictures that were sent before them.

TLC also shows the following when the named property is checked with the
configuration beside it:

| property | configuration | what the code does |
|---|---|---|
| ClosedStreamHasNoConsumer (`MediaStream`) | `MCMediaStream_ClosedStreamHasNoConsumer` | StartConsume does not look at the status (stream.go:284): a consumer can be left on a closed stream |
| TaskSparesConsumers (`StreamCenter`) | `MCStreamCenter_Flv` | the no-consumer task does not count FLV consumers (global.go:197; docs/config.md:97) |
| ClientGetsItsPlaylist (`HlsPlaylist`) | `MCHlsPlaylist_M3u8` | M3u8 returns the bytes of a buffer that is already back in the pool (playlist.go:91) |
| ProxyCloseEndsClients (`Sessions`) | that of `sessions` | a proxy that stops leaves its other members in status playing (multicast_proxy.go:157) |

Further, seen while modelling, and excluded by name where a property would fail:

- Two overlapping `close` of one stream give a segment's buffer to the pool twice
  (`ClosedOnce` in OneOwner; stream.go:171).
- Streams that follow each other on one path share file names: the delayed delete
  of the first removes files of the second (`OwnsPath` in ListedIsIntact).
- A Close of a consumption that comes between its goroutine's test of `closed` and the Pop
  leaves it waiting when the queue does not remember the Signal (`late` in
  ClosedConsumptionEnds; consumption.go:97).
- In memory, a closed stream's muxer may still have one frame in hand, whose buffer was
  given back to the pool: the frame then lands in a segment of another stream
  (LateFrames in ListedIsIntact and ReaderGetsItsSegment; segmentfile.go:66).
- In memory, a request that is still sending a segment when the third newer one is
  listed, or when the stream is closed, may send the bytes of another (IsOutOfDate in
  ReaderGetsItsSegment).
- A session that ends while its consumption's failed send is inside `tcpConsumer.Close` may find
  `source` nil: the panic is past the recover of Session.process and ends the program
  (Crashes; session.go:150-158).
- A stream that was replaced and has no playlist is closed by its own source only: its task
  panics as in finding 2 (`Hls` in ReplacedIsNotForgotten and ReplacedStreamCloses).
- Two Regist of one path that both find it empty: the first stream is overwritten, and
  stays open and unreachable until its own source ends (global.go:44-50).
- A malformed aggregation packet ends the demuxer's goroutine for good (Panics of `RtpDemux`).
- A multicast proxy whose stream was replaced stops the consumption of the same
  number on the new stream (the exception in StopsItsOwn; multicast_proxy.go:147).
- A TCP player whose send fails before its cid is stored stays attached until
  the stream closes (`deaf` in EndedSessionIsDetached; session_roles.go:245).
- A Save acknowledged between the Flush of Service.Close and the exit is lost
  (service.go:169), and a crash in the middle of a write leaves a file on which the
  next start panics (io.go:15): FileHasTheRest promises that much and no more.
- A users file edited by hand that has a name twice puts both entries in the list,
  and Del removes one (manager.go:117); `Init` is a file the program wrote.
- Outside the models: `User.CopyFrom` appends path matchers without clearing the old
  ones (user.go:43, :126), so a right that was taken away matches until the next start,
  and it changes an entry that readers hold without the lock (manager.go:149).

What the passing runs show is as telling: whatever stops, closes and panics
run at once, no consumption is lost or served by a writer that starts after its
end; the counter of an open stream errs to one side only; every player's feed
begins with the parameters and the GOP at hand, and once live it is broken between GOPs only
(packs may be missing, or one come twice, at the hand-over; and parameters that change inside
a group come before pictures they do not belong to, see 4); a source that ended leaves neither
an open stream nor a path to it, even though Unregist can delete the path of
another stream (that stream stays open but unreachable until its own source ends);
a session never plays and pushes at once, whatever its client sends; lost, repeated and
swapped packets never make a frame of two units; the close of a generator beside its muxer
does not give a buffer back twice, though both may delete the same file; and no
sequence of changes and failed writes makes the table of users forget one while the
process lives.

## 8. What is not modelled, and what could follow

Not modelled, with the reason:

- `demos`: bundled third-party JavaScript players and decoders for trying the server
  in a browser, not the program, which is in Go.
- Parsing and formatting of RTSP, SDP, AMF, FLV and TS bytes, codec parameter sets,
  path matching of users and routes, the port-sharing listener's look at first
  bytes: functions of their input, covered by the repository's unit tests, without
  state that another component depends on.
- Configuration, statistics, logging, sockets, `UnregistAll` (shutdown only).

Left for later, in this order:

1. The tokens (`provider/auth/token.go`): two refreshes of one token at once.
2. WSP's PAUSE and its data channels; the RTSP dialogue of the pull client with its
   authentication retry; the FLV muxer's order of headers and tags.
3. The AAC depacketizer.
4. Proofs: more of the abstract specifications a component could be shown to
   implement, as `PackDelivery` implements `PackFeed`: the list of an HLS playlist for its
   clients, the table of users for its provider.
