--------------------------- MODULE SegmentTiming ----------------------------
(***************************************************************************)
(* The clocks of a stream and the length of its HLS segments: the RTP      *)
(* timestamps of the two media, SyncClock with the first sender report of  *)
(* each, the PTS that the depacketizers give their frames, and the         *)
(* SegmentGenerator that measures and cuts the segments by it.  Module     *)
(* HlsPlaylist has what becomes of the files.                              *)
(*                                                                         *)
(* Time passes in instants; in each the source captures a video and an     *)
(* audio frame, and a tick of every clock is one instant.  The queues of   *)
(* the demuxer and the TS muxer keep the order, so a frame is handled at   *)
(* once; the jitter filter of the audio stays within its 100 ms and is     *)
(* left out.  config.HlsFragment is at least 5 seconds, so that no segment *)
(* is ever shorter than hlsSegmentMinDurationMs.                           *)
(***************************************************************************)
EXTENDS Integers, FiniteSets

CONSTANTS
    TsMod,        \* RTP timestamps are below it (2^32)
    Base,         \* the timestamps a source may start from
    PtsDelay,     \* ptsDelay
    HlsFragment,  \* SegmentGenerator.hlsFragment
    AacDelay,     \* hlsAacDelay
    MaxGop,       \* the source sends a key frame in any MaxGop instants
    MaxTime       \* bound of the model: instants

ASSUME TimingAssumption ==
    /\ TsMod \in Nat /\ TsMod > 1
    /\ Base \subseteq 0..(TsMod - 1)
    /\ PtsDelay \in Nat
    /\ HlsFragment \in Nat \ {0}
    /\ AacDelay \in Nat
    /\ MaxGop \in Nat \ {0}
    /\ MaxTime \in Nat \ {0}

Media == {"video", "audio"}

VARIABLES
    now,      \* the instant of capture
    due,      \* the media whose frame of this instant has yet to come
    base,     \* base[m]: the timestamp of instant 0
    rtpTime,  \* rtpTime[m]: SyncClock.RTPTime, 0 before the first report
    lastKey,  \* the instant of the newest key frame
    current,  \* SegmentGenerator.current
    afCache,  \* SegmentGenerator.afCache with afCacheBuff: its PTS, the
              \* first and the last audio frame in it; none when empty
    listed,   \* the newest segment added to the playlist
    audioOut, \* the newest audio frame written to a segment
    shift     \* shift[m]: by how much the PTS of m are ahead of the instants
              \* so far (history); a set, of one element while the clock of
              \* m does not jump

clockVars == <<now, due, base, rtpTime, lastKey, shift>>
vars == <<clockVars, current, afCache, listed, audioOut>>

\* sequenceNo, segmentStartPts and duration of a segment, and (history) the
\* instant it begins with and the one it is cut at.
Segment == [no : Nat, startPts : Int, duration : Int, from : Nat, to : Nat]
Cache   == [pts : Int, first : Nat, last : Nat]
None    == [pts |-> 0, first |-> 0, last |-> 0]

TypeOK ==
    /\ now \in 1..MaxTime
    /\ due \in SUBSET Media
    /\ base \in [Media -> Base]
    /\ rtpTime \in [Media -> 0..(TsMod - 1)]
    /\ lastKey \in Nat
    /\ current \in Segment
    /\ afCache \in Cache
    /\ listed \in Segment
    /\ audioOut \in Nat
    /\ shift \in [Media -> SUBSET Int]

\* NewSegmentGenerator opens the first segment with start 0.
Init ==
    /\ now = 1
    /\ due = Media
    /\ base \in [Media -> Base]
    /\ rtpTime = [m \in Media |-> 0]
    /\ lastKey = 0
    /\ current = [no |-> 1, startPts |-> 0, duration |-> 0, from |-> 1, to |-> 1]
    /\ afCache = None
    /\ listed = [no |-> 0, startPts |-> 0, duration |-> 0, from |-> 0, to |-> 0]
    /\ audioOut = 0
    /\ shift = [m \in Media |-> {}]

-----------------------------------------------------------------------------
(* Clocks.                                                                 *)

\* Mutant of Timestamp: more than 32 bits.
TimestampOf64Bits(m) == base[m] + now

Timestamp(m) == (base[m] + now) % TsMod

RelativeNtp(m) == Timestamp(m) - rtpTime[m]

Pts(m) == RelativeNtp(m) + PtsDelay

\* A sender report of m: Control takes the first whose timestamp is not 0.
Control(m) ==
    /\ m \in due
    /\ rtpTime[m] = 0
    /\ rtpTime' = [rtpTime EXCEPT ![m] = Timestamp(m)]
    /\ UNCHANGED <<now, due, base, lastKey, shift, current, afCache, listed, audioOut>>

Tick ==
    /\ due = {}
    /\ now < MaxTime
    /\ now' = now + 1
    /\ due' = Media
    /\ UNCHANGED <<base, rtpTime, lastKey, shift, current, afCache, listed, audioOut>>

Captured(m) ==
    /\ m \in due
    /\ due' = due \ {m}
    /\ shift' = [shift EXCEPT ![m] = @ \cup {Pts(m) - now}]

-----------------------------------------------------------------------------
(* SegmentGenerator.WriteMpegtsFrame.                                      *)

\* updateDuration ignores a frame from before the start of the segment.
updateDuration(seg, pts) ==
    IF pts < seg.startPts THEN seg ELSE [seg EXCEPT !.duration = pts - seg.startPts]

isSegmentOverflow == current.duration >= HlsFragment

\* Mutant of isSegmentAbsolutelyOverflow: audio never cuts.
NeverOverflow == FALSE

isSegmentAbsolutelyOverflow == current.duration >= 2 * HlsFragment

\* Mutant of Reaped: the segment starts with the PTS of the cached audio.
ReapedFromAudio(pts, cache) ==
    [no |-> current.no + 1, startPts |-> IF cache = None THEN pts ELSE cache.pts - AacDelay - 1,
     duration |-> 0, from |-> now, to |-> now]

\* reapSegment opens the next segment with the cached audio.
Reaped(pts, cache) ==
    LET seg == [no |-> current.no + 1, startPts |-> pts, duration |-> 0,
                from |-> now, to |-> now]
    IN IF cache = None THEN seg ELSE updateDuration(seg, cache.pts)

\* segmentClose adds the segment to the playlist.
Lists == listed' = [current EXCEPT !.to = now]

\* Mutant of Flushes: the cache is not emptied.
FlushesAndKeeps(cache) ==
    /\ audioOut' = IF cache = None THEN audioOut ELSE cache.last
    /\ afCache' = cache

\* flushAudioCache.
Flushes(cache) ==
    /\ audioOut' = IF cache = None THEN audioOut ELSE cache.last
    /\ afCache' = None

\* A key frame cuts a segment that is long enough and goes to the new one.
VideoCuts ==
    /\ Captured("video")
    /\ isSegmentOverflow
    /\ lastKey' = now
    /\ Lists
    /\ current' = updateDuration(Reaped(Pts("video"), afCache), Pts("video"))
    /\ Flushes(afCache)
    /\ UNCHANGED <<now, base, rtpTime>>

\* Any other video frame goes to the current segment.
VideoAppended(key) ==
    /\ Captured("video")
    /\ key \/ now - lastKey < MaxGop
    /\ ~(key /\ isSegmentOverflow)
    /\ lastKey' = IF key THEN now ELSE lastKey
    /\ current' = updateDuration(current, Pts("video"))
    /\ UNCHANGED <<now, base, rtpTime, afCache, listed, audioOut>>

\* What afCache is with the audio frame of this instant.
Cached ==
    IF afCache = None THEN [pts |-> Pts("audio"), first |-> now, last |-> now]
                      ELSE [afCache EXCEPT !.last = now]

\* An audio frame that ends the delay: the cache goes to the segment.
AudioFlushed ==
    /\ Captured("audio")
    /\ Pts("audio") - Cached.pts > AacDelay
    /\ current' = updateDuration(current, Cached.pts)
    /\ Flushes(Cached)
    /\ UNCHANGED <<now, base, rtpTime, lastKey, listed>>

\* An audio frame that finds the segment twice too long cuts it.
AudioCuts ==
    /\ Captured("audio")
    /\ Pts("audio") - Cached.pts <= AacDelay
    /\ isSegmentAbsolutelyOverflow
    /\ Lists
    /\ current' = Reaped(Pts("audio"), Cached)
    /\ Flushes(Cached)
    /\ UNCHANGED <<now, base, rtpTime, lastKey>>

\* Any other waits in the cache.
AudioCached ==
    /\ Captured("audio")
    /\ Pts("audio") - Cached.pts <= AacDelay
    /\ ~isSegmentAbsolutelyOverflow
    /\ afCache' = Cached
    /\ UNCHANGED <<now, base, rtpTime, lastKey, current, listed, audioOut>>

\* The end of the instants of the model.
Rests ==
    /\ due = {}
    /\ now = MaxTime
    /\ UNCHANGED vars

Next ==
    \/ Tick
    \/ Rests
    \/ \E m \in Media : Control(m)
    \/ VideoCuts
    \/ \E key \in BOOLEAN : VideoAppended(key)
    \/ AudioFlushed
    \/ AudioCuts
    \/ AudioCached

Spec == Init /\ [][Next]_vars

-----------------------------------------------------------------------------
(* Properties.                                                             *)

\* The two media run on one clock that has not jumped.
Steady == Cardinality(shift["video"] \cup shift["audio"]) <= 1

LesserOf(a, b) == IF a < b THEN a ELSE b

\* Flushing the cached audio sets the duration back, by what the cache waits
\* and the frame between two looks at it: a cut may come so much later.
Slack == AacDelay + 3

\* No segment outgrows hlsFragment by more than a group of pictures, and none
\* is twice as long: docs/config.md gives hlsfragment as the size of the HLS
\* segments in seconds.
SegmentKeepsLength ==
    now - current.from <= LesserOf(HlsFragment + MaxGop, 2 * HlsFragment) + Slack

\* The cuts do that as long as the clocks do not jump: the frame that is not
\* a key frame, the audio in the cache and the audio that cuts included.
SteadySegmentKeepsLength == Steady => SegmentKeepsLength

\* And the EXTINF of a segment is what it spans, to a frame and the delay of
\* the audio.  The first counts from PTS 0, not from its first frame.
SteadyDurationIsSpan ==
    (Steady /\ listed.no > 1) =>
        /\ listed.duration <= listed.to - listed.from
        /\ listed.duration >= listed.to - listed.from - AacDelay - 2

\* No audio frame is lost or written twice on the way through the cache and
\* from one segment to the next, however the clocks jump: the cache begins
\* with the frame after the newest one written, and ends with the newest.
AudioIsKept ==
    LET newest == IF "audio" \in due THEN now - 1 ELSE now IN
    IF afCache = None THEN audioOut = newest
                      ELSE afCache.first = audioOut + 1 /\ afCache.last = newest
=============================================================================
