------------------------ MODULE SegmentTiming_proofs ------------------------
(***************************************************************************)
(* Proofs about the segment generator's clocks, for any width of the       *)
(* timestamps, any lengths of segments and groups of pictures and any      *)
(* time: the state is of its type, every audio frame goes through the      *)
(* cache to a segment exactly once, and while the clocks do not jump the   *)
(* segments keep their length and their durations are what they span.      *)
(*                                                                         *)
(* While the clocks are steady all frames have one shift between PTS and   *)
(* instant, so that what the generator measures in PTS is measured in      *)
(* instants (StartIsShifted, CacheIsShifted).  The duration then follows   *)
(* the clock (DurationFollows), and the two cuts come in time.             *)
(***************************************************************************)
EXTENDS SegmentTiming, FiniteSetTheorems, TLAPS

KeptInv == TypeOK /\ AudioIsKept

-----------------------------------------------------------------------------
(* Clocks.                                                                 *)

\* Timestamps are below TsMod, and a PTS is an integer.
LEMMA PtsOf ==
    ASSUME TypeOK, NEW k \in Media
    PROVE  Timestamp(k) \in 0..(TsMod - 1) /\ Pts(k) \in Int
<1>1. base[k] + now \in Nat /\ TsMod \in Nat /\ TsMod > 1
  <2>1. base[k] \in Base /\ now \in 1..MaxTime
    BY DEF TypeOK
  <2>2. base[k] \in 0..(TsMod - 1) /\ TsMod \in Nat /\ MaxTime \in Nat
    BY <2>1, TimingAssumption
  <2> QED
    BY <2>1, <2>2, TimingAssumption
<1>2. Timestamp(k) \in 0..(TsMod - 1)
  BY <1>1 DEF Timestamp
<1>3. rtpTime[k] \in Int /\ PtsDelay \in Int
  BY TimingAssumption DEF TypeOK
<1> QED
  BY <1>2, <1>3 DEF Pts, RelativeNtp

\* The frame of this instant is taken, and the clocks keep their types.
LEMMA CapturedType ==
    ASSUME TypeOK, NEW k \in Media, Captured(k)
    PROVE  due' \in SUBSET Media /\ shift' \in [Media -> SUBSET Int]
<1>1. Pts(k) - now \in Int
  BY PtsOf DEF TypeOK
<1> QED
  BY <1>1 DEF TypeOK, Captured

-----------------------------------------------------------------------------
(* Segments and the audio cache.                                           *)

\* A segment keeps its type, and with another duration it is the same one.
LEMMA UpdateDurationType ==
    ASSUME NEW seg \in Segment, NEW pts \in Int
    PROVE  updateDuration(seg, pts) \in Segment
BY DEF updateDuration, Segment

\* reapSegment makes a segment.
LEMMA ReapedType ==
    ASSUME TypeOK, NEW pts \in Int, NEW cache \in Cache
    PROVE  Reaped(pts, cache) \in Segment
<1> DEFINE seg == [no |-> current.no + 1, startPts |-> pts, duration |-> 0,
                   from |-> now, to |-> now]
<1>1. seg \in Segment
  BY DEF TypeOK, Segment
<1>2. cache.pts \in Int
  BY DEF Cache
<1> QED
  BY <1>1, <1>2, UpdateDurationType DEF Reaped

\* What a cut lists is a segment.
LEMMA ListsType ==
    ASSUME TypeOK, Lists
    PROVE  listed' \in Segment
BY DEF TypeOK, Lists, Segment

\* A flush takes the cached frames over.
LEMMA FlushesType ==
    ASSUME TypeOK, NEW cache \in Cache, Flushes(cache)
    PROVE  audioOut' \in Nat /\ afCache' \in Cache
BY DEF TypeOK, Flushes, Cache, None

\* With the audio frame of this instant the cache begins after the newest
\* frame that is written and ends with the newest captured.
LEMMA CachedIsKept ==
    ASSUME KeptInv, "audio" \in due
    PROVE  /\ Cached \in Cache /\ Cached # None
           /\ Cached.first = audioOut + 1 /\ Cached.last = now
<1>1. now \in Nat /\ now >= 1 /\ audioOut \in Nat /\ afCache \in Cache
  BY DEF KeptInv, TypeOK
<1>2. Pts("audio") \in Int
  BY PtsOf DEF KeptInv, Media
<1>3. CASE afCache = None
  <2>1. audioOut = now - 1
    BY <1>3 DEF KeptInv, AudioIsKept
  <2>2. Cached = [pts |-> Pts("audio"), first |-> now, last |-> now]
    BY <1>3 DEF Cached
  <2> QED
    BY <1>1, <1>2, <2>1, <2>2 DEF Cache, None
<1>4. CASE afCache # None
  <2>1. Cached = [afCache EXCEPT !.last = now]
    BY <1>4 DEF Cached
  <2>2. Cached.last = now /\ Cached.first = afCache.first /\ Cached \in Cache
    BY <1>1, <2>1 DEF Cache
  <2>3. Cached.first = audioOut + 1
    BY <1>4, <2>2 DEF KeptInv, AudioIsKept
  <2>4. Cached # None
    BY <1>1, <2>2 DEF None
  <2> QED
    BY <2>2, <2>3, <2>4
<1> QED
  BY <1>3, <1>4

-----------------------------------------------------------------------------
(* One lemma for each action.                                              *)

\* A sender report touches no audio.
LEMMA ControlKeepsAudio ==
    ASSUME KeptInv, NEW k \in Media, Control(k)
    PROVE  KeptInv'
<1>1. Timestamp(k) \in 0..(TsMod - 1)
  BY PtsOf DEF KeptInv
<1>2. TypeOK'
  BY <1>1 DEF KeptInv, TypeOK, Control
<1>3. AudioIsKept'
  BY DEF KeptInv, AudioIsKept, Control, None
<1> QED
  BY <1>2, <1>3 DEF KeptInv

\* With the next instant the newest frame stays the newest.
LEMMA TickKeepsAudio ==
    ASSUME KeptInv, Tick
    PROVE  KeptInv'
<1>1. now \in 1..MaxTime /\ MaxTime \in Nat
  BY TimingAssumption DEF KeptInv, TypeOK
<1>2. TypeOK'
  BY <1>1 DEF KeptInv, TypeOK, Tick
<1>3. AudioIsKept'
  BY <1>1 DEF KeptInv, AudioIsKept, Tick, Media, None
<1> QED
  BY <1>2, <1>3 DEF KeptInv

\* A video frame that cuts flushes what the cache holds.
LEMMA VideoCutsKeepsAudio ==
    ASSUME KeptInv, VideoCuts
    PROVE  KeptInv'
<1>1. Captured("video") /\ Lists /\ Flushes(afCache) /\ UNCHANGED <<now, base, rtpTime>>
  BY DEF VideoCuts
<1>2. Pts("video") \in Int /\ afCache \in Cache /\ now \in Nat /\ audioOut \in Nat
  BY PtsOf DEF KeptInv, TypeOK, Media
<1>3. TypeOK'
  <2>1. due' \in SUBSET Media /\ shift' \in [Media -> SUBSET Int]
    BY <1>1, CapturedType DEF KeptInv, Media
  <2>2. current' \in Segment
    BY <1>2, ReapedType, UpdateDurationType DEF KeptInv, VideoCuts
  <2>3. listed' \in Segment /\ audioOut' \in Nat /\ afCache' \in Cache
    BY <1>1, <1>2, ListsType, FlushesType DEF KeptInv
  <2>4. lastKey' \in Nat
    BY <1>2 DEF VideoCuts
  <2> QED
    BY <1>1, <2>1, <2>2, <2>3, <2>4 DEF KeptInv, TypeOK
<1>4. AudioIsKept'
  <2>1. ("audio" \in due') <=> ("audio" \in due)
    BY <1>1 DEF Captured
  <2>2. now' = now /\ afCache' = None
        /\ audioOut' = IF afCache = None THEN audioOut ELSE afCache.last
    BY <1>1 DEF Flushes
  <2> QED
    BY <2>1, <2>2 DEF KeptInv, AudioIsKept, None
<1> QED
  BY <1>3, <1>4 DEF KeptInv

\* A video frame that is appended leaves the cache alone.
LEMMA VideoAppendedKeepsAudio ==
    ASSUME KeptInv, NEW key \in BOOLEAN, VideoAppended(key)
    PROVE  KeptInv'
<1>1. Captured("video") /\ UNCHANGED <<now, base, rtpTime, afCache, listed, audioOut>>
  BY DEF VideoAppended
<1>2. Pts("video") \in Int
  BY PtsOf DEF KeptInv, Media
<1>3. TypeOK'
  <2>1. due' \in SUBSET Media /\ shift' \in [Media -> SUBSET Int]
    BY <1>1, CapturedType DEF KeptInv, Media
  <2>2. current' \in Segment
    BY <1>2, UpdateDurationType DEF KeptInv, TypeOK, VideoAppended
  <2>3. lastKey' \in Nat
    BY DEF KeptInv, TypeOK, VideoAppended
  <2> QED
    BY <1>1, <2>1, <2>2, <2>3 DEF KeptInv, TypeOK
<1>4. AudioIsKept'
  <2>1. ("audio" \in due') <=> ("audio" \in due)
    BY <1>1 DEF Captured
  <2> QED
    BY <1>1, <2>1 DEF KeptInv, AudioIsKept, None
<1> QED
  BY <1>3, <1>4 DEF KeptInv

\* Audio that is flushed, with a cut or without, ends with this instant.
LEMMA FlushedIsKept ==
    ASSUME KeptInv, Captured("audio"), Flushes(Cached), now' = now
    PROVE  audioOut' \in Nat /\ afCache' \in Cache /\ AudioIsKept'
<1>1. /\ "audio" \in due /\ "audio" \notin due'
      /\ Cached \in Cache /\ Cached # None /\ Cached.last = now
  BY CachedIsKept DEF Captured
<1>2. audioOut' = now /\ afCache' = None
  BY <1>1 DEF Flushes
<1>3. AudioIsKept'
  BY <1>1, <1>2 DEF AudioIsKept, None
<1> QED
  BY <1>1, <1>3, FlushesType DEF KeptInv

\* Audio that ends the delay goes out with what the cache held.
LEMMA AudioFlushedKeepsAudio ==
    ASSUME KeptInv, AudioFlushed
    PROVE  KeptInv'
<1>1. Captured("audio") /\ Flushes(Cached) /\ UNCHANGED <<now, base, rtpTime, lastKey, listed>>
  BY DEF AudioFlushed
<1>2. audioOut' \in Nat /\ afCache' \in Cache /\ AudioIsKept'
  BY <1>1, FlushedIsKept
<1>3. due' \in SUBSET Media /\ shift' \in [Media -> SUBSET Int]
  BY <1>1, CapturedType DEF KeptInv, Media
<1>4. Cached.pts \in Int
  BY <1>1, CachedIsKept DEF Captured, Cache
<1>5. current' \in Segment
  BY <1>4, UpdateDurationType DEF KeptInv, TypeOK, AudioFlushed
<1> QED
  BY <1>1, <1>2, <1>3, <1>5 DEF KeptInv, TypeOK

\* Audio that cuts goes out with what the cache held.
LEMMA AudioCutsKeepsAudio ==
    ASSUME KeptInv, AudioCuts
    PROVE  KeptInv'
<1>1. /\ Captured("audio") /\ Lists /\ Flushes(Cached)
      /\ UNCHANGED <<now, base, rtpTime, lastKey>>
  BY DEF AudioCuts
<1>2. audioOut' \in Nat /\ afCache' \in Cache /\ AudioIsKept'
  BY <1>1, FlushedIsKept
<1>3. due' \in SUBSET Media /\ shift' \in [Media -> SUBSET Int] /\ listed' \in Segment
  BY <1>1, CapturedType, ListsType DEF KeptInv, Media
<1>4. Cached \in Cache /\ Pts("audio") \in Int
  BY <1>1, CachedIsKept, PtsOf DEF KeptInv, Captured, Media
<1>5. current' \in Segment
  BY <1>4, ReapedType DEF KeptInv, AudioCuts
<1> QED
  BY <1>1, <1>2, <1>3, <1>5 DEF KeptInv, TypeOK

\* Audio that is cached comes after what the cache held.
LEMMA AudioCachedKeepsAudio ==
    ASSUME KeptInv, AudioCached
    PROVE  KeptInv'
<1>1. /\ Captured("audio") /\ afCache' = Cached
      /\ UNCHANGED <<now, base, rtpTime, lastKey, current, listed, audioOut>>
  BY DEF AudioCached
<1>2. /\ "audio" \notin due' /\ Cached \in Cache /\ Cached # None
      /\ Cached.first = audioOut + 1 /\ Cached.last = now
  BY <1>1, CachedIsKept DEF Captured
<1>3. due' \in SUBSET Media /\ shift' \in [Media -> SUBSET Int]
  BY <1>1, CapturedType DEF KeptInv, Media
<1>4. TypeOK'
  BY <1>1, <1>2, <1>3 DEF KeptInv, TypeOK
<1>5. AudioIsKept'
  BY <1>1, <1>2 DEF AudioIsKept, None
<1> QED
  BY <1>4, <1>5 DEF KeptInv


\* Before the first frame nothing is cached.
LEMMA InitIsKept ==
    ASSUME Init
    PROVE  KeptInv
<1>1. TypeOK
  BY TimingAssumption DEF Init, TypeOK, Segment, Cache, None
<1>2. AudioIsKept
  BY DEF Init, AudioIsKept, Media
<1> QED
  BY <1>1, <1>2 DEF KeptInv

\* The audio is kept by every step.
LEMMA NextKeepsAudio ==
    ASSUME KeptInv, [Next]_vars
    PROVE  KeptInv'
<1>1. CASE Tick
  BY <1>1, TickKeepsAudio
<1>2. ASSUME NEW k \in Media, Control(k) PROVE KeptInv'
  BY <1>2, ControlKeepsAudio
<1>3. CASE VideoCuts
  BY <1>3, VideoCutsKeepsAudio
<1>4. ASSUME NEW key \in BOOLEAN, VideoAppended(key) PROVE KeptInv'
  BY <1>4, VideoAppendedKeepsAudio
<1>5. CASE AudioFlushed
  BY <1>5, AudioFlushedKeepsAudio
<1>6. CASE AudioCuts
  BY <1>6, AudioCutsKeepsAudio
<1>7. CASE AudioCached
  BY <1>7, AudioCachedKeepsAudio
<1>8. CASE UNCHANGED vars
  BY <1>8 DEF KeptInv, TypeOK, AudioIsKept, None, vars, clockVars
<1> QED
  BY <1>1, <1>2, <1>3, <1>4, <1>5, <1>6, <1>7, <1>8 DEF Next, Rests

-----------------------------------------------------------------------------
(* Clocks that have not jumped: every frame so far had the same shift.     *)

Shifts == shift["video"] \cup shift["audio"]

\* The last instant whose frame of medium k was handled.
Newest(k) == IF k \in due THEN now - 1 ELSE now

ShiftsAreFinite == \A k \in Media : IsFiniteSet(shift[k])

\* Before the second instant a report can only bring the first timestamp.
FirstReport == now = 1 => \A k \in Media : rtpTime[k] \in {0, Timestamp(k)}

\* The first segment may begin before its first frame: it counts from PTS 0.
StartIsShifted(d) ==
    /\ current.startPts <= current.from + d
    /\ current.no > 1 => current.startPts = current.from + d

CacheIsShifted(d) == afCache # None => afCache.pts = afCache.first + d

NothingShifted ==
    /\ now = 1
    /\ current.no = 1 /\ current.startPts = 0 /\ current.from = 1
    /\ afCache = None

\* The cache is of this segment and no older than hlsAacDelay.
CacheIsYoung ==
    afCache # None =>
        /\ current.from <= afCache.first
        /\ afCache.first <= Newest("audio")
        /\ Newest("audio") - afCache.first <= AacDelay

\* The duration follows the clock.
DurationFollows ==
    /\ current.from <= now
    /\ current.no > 1 => current.duration <= now - current.from
    /\ current.duration >=
         now - current.from - AacDelay - (IF "video" \in due THEN 2 ELSE 1)

\* Either medium cuts in time: the video at a key frame, the audio when it
\* puts a frame in the cache.
VideoIsInTime ==
    /\ lastKey <= now
    /\ lastKey - current.from <= HlsFragment + AacDelay + 1
    /\ Newest("video") - lastKey < MaxGop

AudioIsInTime ==
    /\ Newest("audio") - current.from <= 2 * HlsFragment + AacDelay + 2
    /\ afCache # None => Newest("audio") - current.from <= 2 * HlsFragment + AacDelay + 1

ListedIsSpan ==
    listed.no > 1 =>
        /\ listed.duration <= listed.to - listed.from
        /\ listed.duration >= listed.to - listed.from - AacDelay - 2

SteadyInv ==
    /\ \A d \in Shifts : StartIsShifted(d) /\ CacheIsShifted(d)
    /\ Shifts = {} => NothingShifted
    /\ CacheIsYoung
    /\ DurationFollows
    /\ VideoIsInTime
    /\ AudioIsInTime
    /\ ListedIsSpan

\* A handled frame leaves its shift.
FramesShift == due = {} \/ now > 1 => Shifts # {}

IInv ==
    /\ KeptInv
    /\ ShiftsAreFinite
    /\ FirstReport
    /\ FramesShift
    /\ Steady => SteadyInv

\* A set with at most one element.
LEMMA AtMostOne ==
    ASSUME NEW S, IsFiniteSet(S)
    PROVE  Cardinality(S) <= 1 <=> \A x, y \in S : x = y
<1>1. Cardinality(S) \in Nat
  BY FS_CardinalityType
<1>2. ASSUME Cardinality(S) <= 1, NEW x \in S, NEW y \in S, x # y PROVE FALSE
  <2>1. IsFiniteSet({x}) /\ Cardinality({x}) = 1
    BY FS_Singleton
  <2>2. Cardinality({x} \cup {y}) = 2
    BY <1>2, <2>1, FS_AddElement
  <2>3. Cardinality({x} \cup {y}) <= Cardinality(S)
    BY FS_Subset
  <2> QED
    BY <1>1, <1>2, <2>2, <2>3
<1>3. ASSUME \A x, y \in S : x = y PROVE Cardinality(S) <= 1
  <2>1. CASE S = {}
    BY <2>1, FS_EmptySet
  <2>2. CASE S # {}
    <3>1. PICK x \in S : S = {x}
      BY <1>3, <2>2
    <3>2. Cardinality({x}) = 1
      BY FS_Singleton
    <3> QED
      BY <3>1, <3>2
  <2> QED
    BY <2>1, <2>2
<1> QED
  BY <1>2, <1>3

\* Steady, as the set of shifts says it.
LEMMA SteadyMeansOne ==
    ASSUME ShiftsAreFinite
    PROVE  IsFiniteSet(Shifts) /\ (Steady <=> \A x, y \in Shifts : x = y)
<1>1. IsFiniteSet(shift["video"]) /\ IsFiniteSet(shift["audio"])
  BY DEF ShiftsAreFinite, Media
<1>2. IsFiniteSet(Shifts)
  BY <1>1, FS_Union DEF Shifts
<1>3. Steady <=> Cardinality(Shifts) <= 1
  BY DEF Steady, Shifts
<1> QED
  BY <1>2, <1>3, AtMostOne

\* Shifts are only added, one a frame, so finitely many.
LEMMA NextKeepsFinite ==
    ASSUME IInv, [Next]_vars
    PROVE  ShiftsAreFinite'
<1>1. CASE UNCHANGED shift
  BY <1>1 DEF IInv, ShiftsAreFinite
<1>2. ASSUME NEW k \in Media, Captured(k) PROVE ShiftsAreFinite'
  <2>1. IsFiniteSet(shift[k] \cup {Pts(k) - now})
    BY FS_AddElement DEF IInv, ShiftsAreFinite
  <2> QED
    BY <1>2, <2>1 DEF IInv, KeptInv, TypeOK, ShiftsAreFinite, Captured
<1>3. UNCHANGED shift \/ \E k \in Media : Captured(k)
  BY DEF Next, vars, clockVars, Tick, Rests, Control, VideoCuts, VideoAppended,
         AudioFlushed, AudioCuts, AudioCached, Media
<1> QED
  BY <1>1, <1>2, <1>3

\* A report brings the timestamp of this instant, and it is the only one.
LEMMA NextKeepsFirstReport ==
    ASSUME IInv, [Next]_vars
    PROVE  FirstReport'
<1>1. base' = base
  BY DEF Next, vars, clockVars, Tick, Rests, Control, VideoCuts, VideoAppended,
         AudioFlushed, AudioCuts, AudioCached, Captured
<1>2. CASE now' = now /\ rtpTime' = rtpTime
  BY <1>1, <1>2 DEF IInv, FirstReport, Timestamp
<1>3. ASSUME NEW k \in Media, Control(k) PROVE FirstReport'
  BY <1>1, <1>3 DEF IInv, KeptInv, TypeOK, FirstReport, Timestamp, Control
<1>4. CASE Tick
  BY <1>4 DEF IInv, KeptInv, TypeOK, FirstReport, Tick
<1> QED
  BY <1>2, <1>3, <1>4 DEF Next, vars, clockVars, Rests, VideoCuts, VideoAppended,
         AudioFlushed, AudioCuts, AudioCached, Captured

\* A frame adds a shift, and an instant ends when its frames were handled.
LEMMA NextKeepsFramesShift ==
    ASSUME IInv, [Next]_vars
    PROVE  FramesShift'
<1>1. ASSUME NEW k \in Media, Captured(k) PROVE Shifts' # {}
  BY <1>1 DEF IInv, KeptInv, TypeOK, Captured, Shifts, Media
<1>2. CASE UNCHANGED <<now, due, shift>>
  BY <1>2 DEF IInv, FramesShift, Shifts
<1>3. CASE Tick
  BY <1>3 DEF IInv, FramesShift, Shifts, Tick
<1>4. \/ UNCHANGED <<now, due, shift>> \/ Tick \/ \E k \in Media : Captured(k)
  BY DEF Next, vars, clockVars, Rests, Control, VideoCuts, VideoAppended,
         AudioFlushed, AudioCuts, AudioCached, Media
<1> QED
  BY <1>1, <1>2, <1>3, <1>4 DEF FramesShift

-----------------------------------------------------------------------------
(* A frame that leaves the clocks steady.                                  *)

\* The frame has the shift of all others, and the segment and the cache are
\* measured by it.
LEMMA FrameHasShift ==
    ASSUME IInv, NEW k \in Media, Captured(k), Steady'
    PROVE  /\ SteadyInv
           /\ Shifts' = {Pts(k) - now}
           /\ StartIsShifted(Pts(k) - now) /\ CacheIsShifted(Pts(k) - now)
<1> DEFINE d == Pts(k) - now
<1>1. Shifts' = Shifts \cup {d}
  BY DEF IInv, KeptInv, TypeOK, Captured, Shifts, Media
<1>2. \A x, y \in Shifts' : x = y
  <2>1. IsFiniteSet(Shifts) /\ IsFiniteSet(Shifts')
    BY <1>1, SteadyMeansOne, FS_AddElement DEF IInv
  <2>2. Cardinality(Shifts') <= 1
    BY DEF Steady, Shifts
  <2> QED
    BY <2>1, <2>2, AtMostOne
<1>3. Steady /\ SteadyInv
  BY <1>1, <1>2, SteadyMeansOne DEF IInv
<1>4. Shifts' = {d}
  BY <1>1, <1>2
<1>5. StartIsShifted(d) /\ CacheIsShifted(d)
  <2>1. CASE Shifts # {}
    <3>1. d \in Shifts
      BY <1>1, <1>2, <2>1
    <3> QED
      BY <1>3, <3>1 DEF SteadyInv
  <2>2. CASE Shifts = {}
    <3>1. NothingShifted
      BY <1>3, <2>2 DEF SteadyInv
    <3>2. Timestamp(k) - rtpTime[k] >= 0
      <4>1. Timestamp(k) \in Nat /\ rtpTime[k] \in {0, Timestamp(k)}
        BY <3>1, PtsOf, TimingAssumption DEF IInv, KeptInv, FirstReport, NothingShifted
      <4> QED
        BY <4>1
    <3>3. Timestamp(k) - rtpTime[k] \in Int
      BY PtsOf, TimingAssumption DEF IInv, KeptInv, TypeOK
    <3>4. Pts(k) >= 0 /\ Pts(k) \in Int
      BY <3>2, <3>3, TimingAssumption DEF Pts, RelativeNtp
    <3> QED
      BY <3>1, <3>4 DEF NothingShifted, StartIsShifted, CacheIsShifted
  <2> QED
    BY <2>1, <2>2
<1> QED
  BY <1>3, <1>4, <1>5

\* The new segment begins with this frame and has no duration: cached audio
\* is not from after it.
LEMMA ReapedIsNew ==
    ASSUME TypeOK, NEW pts \in Int, NEW cache \in Cache, cache # None => cache.pts <= pts
    PROVE  Reaped(pts, cache) = [no |-> current.no + 1, startPts |-> pts, duration |-> 0,
                                 from |-> now, to |-> now]
<1>1. cache.pts \in Int
  BY DEF Cache
<1> QED
  BY <1>1 DEF Reaped, updateDuration

\* The types of what the arithmetic is about.
LEMMA TypesOf ==
    ASSUME TypeOK
    PROVE  /\ now \in Nat /\ lastKey \in Nat
           /\ current.no \in Nat /\ current.from \in Nat
           /\ current.startPts \in Int /\ current.duration \in Int
           /\ afCache.pts \in Int /\ afCache.first \in Nat /\ afCache.last \in Nat
           /\ HlsFragment \in Nat /\ HlsFragment >= 1 /\ AacDelay \in Nat
           /\ MaxGop \in Nat /\ MaxGop >= 1
BY TimingAssumption DEF TypeOK, Segment, Cache

\* A cut after the frame of medium k leaves a segment that begins now.
LEMMA CutIsSteady ==
    ASSUME IInv, NEW k \in Media, Captured(k), Steady', Lists, afCache' = None, now' = now,
           current' = [no |-> current.no + 1, startPts |-> Pts(k), duration |-> 0,
                       from |-> now, to |-> now],
           VideoIsInTime'
    PROVE  SteadyInv'
<1>1. SteadyInv /\ Shifts' = {Pts(k) - now}
  BY FrameHasShift
<1>2. Pts(k) \in Int /\ TypeOK
  BY PtsOf DEF IInv, KeptInv
<1>3. \A d \in Shifts' : StartIsShifted(d)' /\ CacheIsShifted(d)'
  <2> SUFFICES ASSUME NEW d \in Shifts'
               PROVE  StartIsShifted(d)' /\ CacheIsShifted(d)'
    OBVIOUS
  <2>1. d = Pts(k) - now
    BY <1>1
  <2> QED
    BY <1>2, <2>1, TypesOf DEF StartIsShifted, CacheIsShifted
<1>4. Shifts' # {}
  BY <1>1
<1>5. CacheIsYoung' /\ DurationFollows'
  BY <1>2, TypesOf DEF CacheIsYoung, DurationFollows
<1>6. AudioIsInTime'
  <2>1. Newest("audio")' <= now /\ Newest("audio")' \in Int
    BY <1>2, TypesOf DEF Newest
  <2>2. current'.from = now /\ now \in Nat /\ HlsFragment \in Nat /\ AacDelay \in Nat
    BY <1>2, TypesOf
  <2> QED
    BY <2>1, <2>2 DEF AudioIsInTime
<1>7. ListedIsSpan'
  <2>1. listed' = [current EXCEPT !.to = now]
    BY DEF Lists
  <2>2. /\ listed'.no = current.no /\ listed'.duration = current.duration
        /\ listed'.from = current.from /\ listed'.to = now
    BY <1>2, <2>1 DEF TypeOK, Segment
  <2> QED
    BY <1>1, <1>2, <2>2, TypesOf DEF SteadyInv, DurationFollows, ListedIsSpan
<1> QED
  BY <1>3, <1>4, <1>5, <1>6, <1>7 DEF SteadyInv

\* A key frame that cuts begins a segment with itself.
LEMMA VideoCutsIsSteady ==
    ASSUME IInv, VideoCuts, Steady'
    PROVE  SteadyInv'
<1>1. /\ Captured("video") /\ Lists /\ Flushes(afCache)
      /\ lastKey' = now /\ now' = now
  BY DEF VideoCuts
<1>2. /\ SteadyInv /\ CacheIsShifted(Pts("video") - now)
      /\ Pts("video") \in Int /\ TypeOK /\ afCache \in Cache
  BY <1>1, FrameHasShift, PtsOf DEF IInv, KeptInv, TypeOK, Media
<1>3. afCache # None => afCache.pts <= Pts("video")
  BY <1>2, TypesOf DEF SteadyInv, CacheIsYoung, Newest, CacheIsShifted
<1>4. current' = [no |-> current.no + 1, startPts |-> Pts("video"), duration |-> 0,
                  from |-> now, to |-> now]
  BY <1>2, <1>3, ReapedIsNew DEF VideoCuts, updateDuration
<1>5. VideoIsInTime'
  <2>1. Newest("video")' = now
    BY <1>1 DEF Newest, Captured
  <2> QED
    BY <1>1, <1>2, <1>4, <2>1, TypesOf DEF VideoIsInTime
<1>6. afCache' = None
  BY <1>1 DEF Flushes
<1> QED
  BY <1>1, <1>4, <1>5, <1>6, CutIsSteady DEF Media

\* Audio that cuts begins a segment with itself; the key frames are older.
LEMMA AudioCutsIsSteady ==
    ASSUME IInv, AudioCuts, Steady'
    PROVE  SteadyInv'
<1>1. /\ Captured("audio") /\ Lists /\ Flushes(Cached)
      /\ UNCHANGED <<now, lastKey>> /\ current' = Reaped(Pts("audio"), Cached)
  BY DEF AudioCuts
<1>2. /\ SteadyInv /\ CacheIsShifted(Pts("audio") - now)
      /\ Pts("audio") \in Int /\ TypeOK /\ Cached \in Cache
  BY <1>1, FrameHasShift, PtsOf, CachedIsKept DEF IInv, KeptInv, Captured, Media
<1>3. Cached.pts <= Pts("audio")
  <2>1. CASE afCache = None
    BY <1>2, <2>1 DEF Cached
  <2>2. CASE afCache # None
    <3>1. Cached.pts = afCache.pts
      BY <1>2, <2>2 DEF Cached, TypeOK, Cache
    <3> QED
      BY <1>2, <2>2, <3>1, TypesOf DEF SteadyInv, CacheIsYoung, Newest, CacheIsShifted
  <2> QED
    BY <2>1, <2>2
<1>4. current' = [no |-> current.no + 1, startPts |-> Pts("audio"), duration |-> 0,
                  from |-> now, to |-> now]
  BY <1>1, <1>2, <1>3, ReapedIsNew
<1>5. VideoIsInTime'
  <2>1. Newest("video")' = Newest("video")
    BY <1>1 DEF Newest, Captured
  <2> QED
    BY <1>1, <1>2, <1>4, <2>1, TypesOf DEF SteadyInv, VideoIsInTime
<1>6. afCache' = None
  BY <1>1 DEF Flushes
<1> QED
  BY <1>1, <1>4, <1>5, <1>6, CutIsSteady DEF Media

\* A frame of the segment measures it.
LEMMA Measures ==
    ASSUME TypeOK, NEW pts \in Int, current.startPts <= pts
    PROVE  /\ updateDuration(current, pts).duration = pts - current.startPts
           /\ updateDuration(current, pts).no = current.no
           /\ updateDuration(current, pts).from = current.from
           /\ updateDuration(current, pts).startPts = current.startPts
<1>1. updateDuration(current, pts) = [current EXCEPT !.duration = pts - current.startPts]
  BY TypesOf DEF updateDuration
<1> QED
  BY <1>1 DEF TypeOK, Segment

\* When the segment and the frames it is measured by stay, so does the rest.
LEMMA SegmentStays ==
    ASSUME IInv, NEW k \in Media, Captured(k), Steady', UNCHANGED <<now, listed>>,
           current'.no = current.no, current'.from = current.from,
           current'.startPts = current.startPts,
           NEW d \in Int, d = Pts(k) - now, CacheIsShifted(d)',
           CacheIsYoung', DurationFollows', VideoIsInTime', AudioIsInTime'
    PROVE  SteadyInv'
<1>1. SteadyInv /\ Shifts' = {d} /\ StartIsShifted(d)
  BY FrameHasShift
<1>2. \A e \in Shifts' : StartIsShifted(e)' /\ CacheIsShifted(e)'
  BY <1>1 DEF StartIsShifted
<1>3. ListedIsSpan'
  BY <1>1 DEF SteadyInv, ListedIsSpan
<1> QED
  BY <1>1, <1>2, <1>3 DEF SteadyInv

\* A video frame that is appended brings the duration up to now, and a key
\* frame among them found the segment not long enough to cut.
LEMMA VideoAppendedIsSteady ==
    ASSUME IInv, NEW key \in BOOLEAN, VideoAppended(key), Steady'
    PROVE  SteadyInv'
<1> DEFINE pts == Pts("video")
<1>1. /\ Captured("video") /\ UNCHANGED <<now, afCache, listed>>
      /\ current' = updateDuration(current, pts)
  BY DEF VideoAppended
<1>2. SteadyInv /\ StartIsShifted(pts - now) /\ CacheIsShifted(pts - now)
  BY <1>1, FrameHasShift DEF Media
<1>3. TypeOK /\ pts \in Int /\ pts - now \in Int
  BY PtsOf, TypesOf DEF IInv, KeptInv, Media
<1>4. current.startPts <= pts
  BY <1>2, <1>3, TypesOf DEF SteadyInv, DurationFollows, StartIsShifted
<1>5. /\ current'.duration = pts - current.startPts
      /\ current'.no = current.no /\ current'.from = current.from
      /\ current'.startPts = current.startPts
  BY <1>1, <1>3, <1>4, Measures
<1>6. /\ "video" \in due /\ "video" \notin due' /\ Newest("video")' = now
      /\ Newest("audio")' = Newest("audio")
  BY <1>1 DEF Captured, Newest
<1>7. CacheIsYoung' /\ AudioIsInTime'
  BY <1>1, <1>2, <1>5, <1>6 DEF SteadyInv, CacheIsYoung, AudioIsInTime
<1>8. DurationFollows'
  BY <1>1, <1>2, <1>3, <1>5, <1>6, TypesOf DEF SteadyInv, DurationFollows, StartIsShifted
<1>9. VideoIsInTime'
  <2>1. CASE key
    <3>1. current.duration < HlsFragment /\ lastKey' = now
      BY <1>3, <2>1, TypesOf DEF VideoAppended, isSegmentOverflow
    <3> QED
      BY <1>1, <1>2, <1>3, <1>5, <1>6, <3>1, TypesOf
         DEF SteadyInv, DurationFollows, VideoIsInTime
  <2>2. CASE ~key
    <3>1. now - lastKey < MaxGop /\ lastKey' = lastKey
      BY <2>2 DEF VideoAppended
    <3> QED
      BY <1>1, <1>2, <1>5, <1>6, <3>1 DEF SteadyInv, VideoIsInTime
  <2> QED
    BY <2>1, <2>2
<1>10. ASSUME NEW d \in Int, d = pts - now PROVE SteadyInv'
  <2>1. CacheIsShifted(d)'
    BY <1>1, <1>2, <1>10 DEF CacheIsShifted
  <2> QED
    BY <1>1, <1>5, <1>7, <1>8, <1>9, <1>10, <2>1, SegmentStays DEF Media
<1> QED
  BY <1>3, <1>10

\* What an audio frame finds in the cache, with itself put in.
LEMMA CachedIsYoung ==
    ASSUME IInv, Captured("audio"), Steady'
    PROVE  /\ Cached \in Cache /\ Cached # None
           /\ Cached.pts - Cached.first = Pts("audio") - now
           /\ current.from <= Cached.first /\ Cached.first <= now
           /\ now - Cached.first <= AacDelay + 1
           /\ afCache = None => Cached.pts = Pts("audio")
<1>1. "audio" \in due /\ Newest("audio") = now - 1
  BY DEF Captured, Newest
<1>2. SteadyInv /\ CacheIsShifted(Pts("audio") - now)
  BY FrameHasShift DEF Media
<1>3. TypeOK /\ Pts("audio") \in Int
  BY PtsOf DEF IInv, KeptInv, Media
<1>4. Cached \in Cache /\ Cached # None
  BY <1>1, CachedIsKept DEF IInv
<1>5. CASE afCache = None
  <2>1. Cached.pts = Pts("audio") /\ Cached.first = now
    BY <1>5 DEF Cached
  <2> QED
    BY <1>2, <1>3, <1>4, <2>1, TypesOf DEF SteadyInv, DurationFollows
<1>6. CASE afCache # None
  <2>1. Cached.pts = afCache.pts /\ Cached.first = afCache.first
    BY <1>3, <1>6 DEF Cached, TypeOK, Cache
  <2>2. /\ current.from <= afCache.first /\ afCache.first <= now - 1
        /\ now - 1 - afCache.first <= AacDelay
    BY <1>1, <1>2, <1>6 DEF SteadyInv, CacheIsYoung
  <2>3. afCache.pts = afCache.first + (Pts("audio") - now)
    BY <1>2, <1>6 DEF CacheIsShifted
  <2> QED
    BY <1>3, <1>4, <1>6, <2>1, <2>2, <2>3, TypesOf
<1> QED
  BY <1>5, <1>6

\* Flushed audio sets the duration back to its first frame, no further.
LEMMA AudioFlushedIsSteady ==
    ASSUME IInv, AudioFlushed, Steady'
    PROVE  SteadyInv'
<1> DEFINE pts == Pts("audio")
<1>1. /\ Captured("audio") /\ UNCHANGED <<now, lastKey, listed>> /\ afCache' = None
      /\ current' = updateDuration(current, Cached.pts) /\ pts - Cached.pts > AacDelay
  BY DEF AudioFlushed, Flushes
<1>2. SteadyInv /\ StartIsShifted(pts - now)
  BY <1>1, FrameHasShift DEF Media
<1>3. TypeOK /\ pts \in Int /\ pts - now \in Int
  BY PtsOf, TypesOf DEF IInv, KeptInv, Media
<1>4. /\ Cached.pts \in Int /\ Cached.first \in Nat
      /\ Cached.pts - Cached.first = pts - now
      /\ current.from <= Cached.first /\ Cached.first <= now
      /\ now - Cached.first <= AacDelay + 1
      /\ afCache = None => Cached.pts = pts
  BY <1>1, CachedIsYoung DEF Cache
<1>5. current.startPts <= Cached.pts
  BY <1>2, <1>3, <1>4, TypesOf DEF StartIsShifted
<1>6. /\ current'.duration = Cached.pts - current.startPts
      /\ current'.no = current.no /\ current'.from = current.from
      /\ current'.startPts = current.startPts
  BY <1>1, <1>3, <1>4, <1>5, Measures
<1>7. /\ Newest("audio") = now - 1 /\ Newest("audio")' = now
      /\ Newest("video")' = Newest("video") /\ ("video" \in due' <=> "video" \in due)
  BY <1>1 DEF Captured, Newest
<1>8. afCache # None
  BY <1>1, <1>3, <1>4, TypesOf
<1>9. CacheIsYoung' /\ VideoIsInTime'
  BY <1>1, <1>2, <1>6, <1>7 DEF SteadyInv, CacheIsYoung, VideoIsInTime
<1>10. AudioIsInTime'
  BY <1>1, <1>2, <1>3, <1>6, <1>7, <1>8, TypesOf DEF SteadyInv, AudioIsInTime
<1>11. DurationFollows'
  <2>1. current'.duration >= now - current.from - AacDelay - 1
    BY <1>2, <1>3, <1>4, <1>6, TypesOf DEF StartIsShifted
  <2>2. current.no > 1 => current'.duration <= now - current.from
    BY <1>2, <1>3, <1>4, <1>6, TypesOf DEF StartIsShifted
  <2>3. current'.duration \in Int /\ now - current.from - AacDelay \in Int
    BY <1>3, <1>4, <1>6, TypesOf
  <2>4. current'.duration >=
          now' - current'.from - AacDelay - (IF "video" \in due' THEN 2 ELSE 1)
    BY <1>1, <1>6, <2>1, <2>3
  <2>5. current'.from <= now' /\ (current'.no > 1 => current'.duration <= now' - current'.from)
    BY <1>1, <1>2, <1>6, <2>2 DEF SteadyInv, DurationFollows
  <2> QED
    BY <2>4, <2>5 DEF DurationFollows
<1>12. ASSUME NEW d \in Int, d = pts - now PROVE SteadyInv'
  <2>1. CacheIsShifted(d)'
    BY <1>1 DEF CacheIsShifted
  <2> QED
    BY <1>1, <1>6, <1>9, <1>10, <1>11, <1>12, <2>1, SegmentStays DEF Media
<1> QED
  BY <1>3, <1>12

\* Audio that is cached has found the segment less than twice too long.
LEMMA AudioCachedIsSteady ==
    ASSUME IInv, AudioCached, Steady'
    PROVE  SteadyInv'
<1> DEFINE pts == Pts("audio")
<1>1. /\ Captured("audio") /\ UNCHANGED <<now, lastKey, current, listed>>
      /\ afCache' = Cached /\ pts - Cached.pts <= AacDelay
  BY DEF AudioCached
<1>2. SteadyInv
  BY <1>1, FrameHasShift DEF Media
<1>3. TypeOK /\ pts \in Int /\ pts - now \in Int
  BY PtsOf, TypesOf DEF IInv, KeptInv, Media
<1>4. /\ Cached.pts \in Int /\ Cached.first \in Nat
      /\ Cached.pts - Cached.first = pts - now
      /\ current.from <= Cached.first /\ Cached.first <= now
  BY <1>1, CachedIsYoung DEF Cache
<1>5. /\ Newest("audio")' = now
      /\ Newest("video")' = Newest("video") /\ ("video" \in due' <=> "video" \in due)
  BY <1>1 DEF Captured, Newest
<1>6. CacheIsYoung'
  BY <1>1, <1>3, <1>4, <1>5, TypesOf DEF CacheIsYoung
<1>7. VideoIsInTime' /\ DurationFollows'
  BY <1>1, <1>2, <1>5 DEF SteadyInv, VideoIsInTime, DurationFollows
<1>8. AudioIsInTime'
  <2>1. current.duration < 2 * HlsFragment
    BY <1>3, TypesOf DEF AudioCached, isSegmentAbsolutelyOverflow
  <2> QED
    BY <1>1, <1>2, <1>3, <1>5, <2>1, TypesOf DEF SteadyInv, DurationFollows, AudioIsInTime
<1>9. ASSUME NEW d \in Int, d = pts - now PROVE SteadyInv'
  <2>1. CacheIsShifted(d)'
    BY <1>1, <1>3, <1>4, <1>9, TypesOf DEF CacheIsShifted
  <2> QED
    BY <1>1, <1>6, <1>7, <1>8, <1>9, <2>1, SegmentStays DEF Media
<1> QED
  BY <1>3, <1>9

\* Without a frame the segment, the cache and the shifts stay.
LEMMA TickIsSteady ==
    ASSUME IInv, Tick, Steady'
    PROVE  SteadyInv'
<1>1. /\ due = {} /\ now' = now + 1 /\ due' = Media
      /\ UNCHANGED <<shift, lastKey, current, afCache, listed>>
  BY DEF Tick
<1>2. Steady /\ SteadyInv /\ TypeOK
  BY <1>1 DEF IInv, KeptInv, Steady
<1>3. Newest("video")' = Newest("video") /\ Newest("audio")' = Newest("audio")
  BY <1>1, <1>2, TypesOf DEF Newest, Media
<1>4. Shifts' = Shifts /\ Shifts # {}
  <2>1. Shifts # {}
    BY <1>1, <1>2 DEF IInv, FramesShift
  <2> QED
    BY <1>1, <2>1 DEF Shifts
<1>5. \A d \in Shifts' : StartIsShifted(d)' /\ CacheIsShifted(d)'
  BY <1>1, <1>2, <1>4 DEF SteadyInv, StartIsShifted, CacheIsShifted
<1>6. CacheIsYoung' /\ AudioIsInTime' /\ ListedIsSpan'
  BY <1>1, <1>2, <1>3 DEF SteadyInv, CacheIsYoung, AudioIsInTime, ListedIsSpan
<1>7. VideoIsInTime'
  BY <1>1, <1>2, <1>3, TypesOf DEF SteadyInv, VideoIsInTime
<1>8. DurationFollows'
  BY <1>1, <1>2, TypesOf DEF SteadyInv, DurationFollows, Media
<1> QED
  BY <1>4, <1>5, <1>6, <1>7, <1>8 DEF SteadyInv

\* A report, or nothing, leaves all that was measured.
LEMMA NothingIsSteady ==
    ASSUME IInv, Steady', UNCHANGED <<now, due, lastKey, shift, current, afCache, listed>>
    PROVE  SteadyInv'
<1>1. SteadyInv
  BY DEF IInv, Steady
<1>2. UNCHANGED <<Shifts, Newest("video"), Newest("audio")>>
  BY DEF Shifts, Newest
<1>3. \A d \in Shifts' : StartIsShifted(d)' /\ CacheIsShifted(d)'
  BY <1>1, <1>2 DEF SteadyInv, StartIsShifted, CacheIsShifted
<1>4. CacheIsYoung' /\ AudioIsInTime' /\ VideoIsInTime' /\ DurationFollows' /\ ListedIsSpan'
  BY <1>1, <1>2
     DEF SteadyInv, CacheIsYoung, AudioIsInTime, VideoIsInTime, DurationFollows, ListedIsSpan
<1> QED
  BY <1>1, <1>2, <1>3, <1>4 DEF SteadyInv, NothingShifted

-----------------------------------------------------------------------------
(* The theorems.                                                           *)

\* The first instant satisfies the invariant: no frame was handled.
LEMMA InitHasInv ==
    ASSUME Init
    PROVE  IInv
<1>1. ShiftsAreFinite /\ Shifts = {}
  BY FS_EmptySet DEF Init, ShiftsAreFinite, Shifts, Media
<1>2. FirstReport /\ FramesShift
  BY DEF Init, FirstReport, FramesShift, Media
<1>3. NothingShifted
  BY DEF Init, NothingShifted
<1>4. CacheIsYoung /\ DurationFollows /\ ListedIsSpan
  BY TimingAssumption DEF Init, CacheIsYoung, DurationFollows, ListedIsSpan, Media
<1>5. VideoIsInTime /\ AudioIsInTime
  BY TimingAssumption DEF Init, VideoIsInTime, AudioIsInTime, Newest, Media
<1> QED
  BY <1>1, <1>2, <1>3, <1>4, <1>5, InitIsKept DEF IInv, SteadyInv

\* Every step keeps it, the clocks jumping or not.
LEMMA NextKeepsInv ==
    ASSUME IInv, [Next]_vars
    PROVE  IInv'
<1>1. KeptInv' /\ ShiftsAreFinite' /\ FirstReport' /\ FramesShift'
  BY NextKeepsAudio, NextKeepsFinite, NextKeepsFirstReport, NextKeepsFramesShift DEF IInv
<1>2. ASSUME Steady' PROVE SteadyInv'
  <2>1. CASE Tick
    BY <1>2, <2>1, TickIsSteady
  <2>2. CASE VideoCuts
    BY <1>2, <2>2, VideoCutsIsSteady
  <2>3. ASSUME NEW key \in BOOLEAN, VideoAppended(key) PROVE SteadyInv'
    BY <1>2, <2>3, VideoAppendedIsSteady
  <2>4. CASE AudioFlushed
    BY <1>2, <2>4, AudioFlushedIsSteady
  <2>5. CASE AudioCuts
    BY <1>2, <2>5, AudioCutsIsSteady
  <2>6. CASE AudioCached
    BY <1>2, <2>6, AudioCachedIsSteady
  <2>7. ASSUME NEW k \in Media, Control(k) PROVE SteadyInv'
    <3>1. UNCHANGED <<now, due, lastKey, shift, current, afCache, listed>>
      BY <2>7 DEF Control
    <3> QED
      BY <1>2, <3>1, NothingIsSteady
  <2>8. CASE UNCHANGED vars
    <3>1. UNCHANGED <<now, due, lastKey, shift, current, afCache, listed>>
      BY <2>8 DEF vars, clockVars
    <3> QED
      BY <1>2, <3>1, NothingIsSteady
  <2> QED
    BY <2>1, <2>2, <2>3, <2>4, <2>5, <2>6, <2>7, <2>8 DEF Next, Rests
<1> QED
  BY <1>1, <1>2 DEF IInv

\* IInv is inductive, for every source, every report and every jump of the
\* clocks (demuxer.go, syncclock.go, segmentgenerator.go).
THEOREM InvariantHolds == Spec => []IInv
  BY InitHasInv, NextKeepsInv, PTL DEF Spec

\* The clocks, the segments and the audio cache keep their types.
THEOREM TypeCorrect == Spec => []TypeOK
<1>1. IInv => TypeOK
  BY DEF IInv, KeptInv
<1> QED
  BY <1>1, InvariantHolds, PTL

\* Every audio frame goes through the cache to a segment exactly once, however
\* the clocks jump (flushAudioCache and reapSegment of segmentgenerator.go).
THEOREM AudioStaysKept == Spec => []AudioIsKept
<1>1. IInv => AudioIsKept
  BY DEF IInv, KeptInv
<1> QED
  BY <1>1, InvariantHolds, PTL

\* While the clocks do not jump, a segment outgrows hlsFragment by a group of
\* pictures at most and never twice (WriteMpegtsFrame of segmentgenerator.go).
THEOREM SegmentsKeepLength == Spec => []SteadySegmentKeepsLength
<1>1. ASSUME IInv PROVE SteadySegmentKeepsLength
  <2> SUFFICES ASSUME Steady PROVE SegmentKeepsLength
    BY DEF SteadySegmentKeepsLength
  <2>1. VideoIsInTime /\ AudioIsInTime /\ TypeOK
    BY <1>1 DEF IInv, KeptInv, SteadyInv
  <2>2. Newest("video") \in Int /\ Newest("audio") \in Int
        /\ now <= Newest("video") + 1 /\ now <= Newest("audio") + 1
    BY <2>1, TypesOf DEF Newest
  <2>3. now - current.from <= HlsFragment + MaxGop + Slack
    BY <2>1, <2>2, TypesOf DEF VideoIsInTime, Slack
  <2>4. now - current.from <= 2 * HlsFragment + Slack
    BY <2>1, <2>2, TypesOf DEF AudioIsInTime, Slack
  <2> QED
    BY <2>3, <2>4 DEF SegmentKeepsLength, LesserOf
<1> QED
  BY <1>1, InvariantHolds, PTL

\* While the clocks do not jump, a listed duration is what the segment spans, to
\* a frame and the delay of the audio (updateDuration of segment.go).
THEOREM DurationsAreSpans == Spec => []SteadyDurationIsSpan
<1>1. IInv => SteadyDurationIsSpan
  BY DEF IInv, SteadyInv, ListedIsSpan, SteadyDurationIsSpan
<1> QED
  BY <1>1, InvariantHolds, PTL
=============================================================================
