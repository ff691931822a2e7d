----------------------------- MODULE HlsPlaylist -----------------------------
(***************************************************************************)
(* HLS segments and their bytes (av/format/hls): a stream's generator cuts *)
(* frames into segments, its playlist lists the last three, HTTP requests  *)
(* read them.                                                              *)
(*                                                                         *)
(* Three kinds of goroutine touch a generator with no lock in common: the  *)
(* TS muxer that writes frames, Stream.close, and the readers.  The lock of*)
(* the playlist covers its list only.  Each load and store of `current` and*)
(* of a segment's file is a step of its own.                               *)
(*                                                                         *)
(* A Cell is what holds the bytes of a segment: a pooled buffer when       *)
(* segments are kept in memory, the inode of a file otherwise.  What a     *)
(* frame says is not modelled, only whose it is: data[c] is the set of     *)
(* segments that frames in c were written for.                             *)
(***************************************************************************)
EXTENDS Integers, Sequences, FiniteSets

CONSTANTS
    Gen,           \* the streams with HLS ever created, by their generators
    Path, PathOf,  \* the path of each stream
    Reader,        \* requests for a segment
    Client,        \* requests for a playlist
    Cell,          \* buffers or inodes
    MaxSeq,        \* bound: the highest segment number ...
    LastOf,        \* ... and the number of the last segment of each stream
    Closer,        \* the goroutines that may close a stream
    Ending,        \* bound: the streams that are closed at some time
    None           \* no cell, no request

ASSUME HlsAssumption ==
    /\ PathOf \in [Gen -> Path]
    /\ MaxSeq \in Nat \ {0} /\ LastOf \in [Gen -> 1..MaxSeq]
    /\ Ending \subseteq Gen
    /\ None \notin Cell

hlsRemainSegments == 3

No == 1..MaxSeq

VARIABLES
    memory,    \* SegmentGenerator.memory, one configuration for all streams
    sequenceNo, current,  \* the generator's fields; current is a number, 0 is nil
    segments,  \* segments[g]: the numbers of Playlist.segments
    file,      \* file[g][n]: the cell segment n writes to and, in memory, is read from
    writable,  \* writable[g]: the segments whose file was opened and not closed
    disk,      \* disk[p][n]: the inode named <hash of p>_<n>.ts
    pool,      \* pool[c]: how often segmentPool holds buffer c
    data,      \* data[c]: whose frames cell c holds
    delayed,   \* the files left to a scheduled delete
    muxer,     \* muxer[g]: progress of the TS muxer's goroutine
    curr,      \* curr[g]: its local variable of that name
    out,       \* out[g]: the cell behind the writer it loaded
    muxClosed, \* Muxer.closed
    closer,    \* closer[g][k]: progress of Stream.close, called by k
    currOf,    \* currOf[g][k]: the variable curr of SegmentGenerator.Close
    reader,    \* reader[r]: the segment a request reads, and the cell it got
    client     \* client[q]: the playlist a request got, and the bytes it will send

segVars    == <<sequenceNo, current, segments>>
storeVars  == <<file, writable, disk, pool, data, delayed>>
muxVars    == <<muxer, curr, out>>
closeVars  == <<muxClosed, closer, currOf>>
vars == <<memory, segVars, storeVars, muxVars, closeVars, reader, client>>

Segment == Gen \X No
NoRead  == [gen |-> None, no |-> 0, cell |-> None]

TypeOK ==
    /\ memory \in BOOLEAN
    /\ sequenceNo \in [Gen -> 0..MaxSeq] /\ current \in [Gen -> 0..MaxSeq]
    /\ segments \in [Gen -> Seq(No)]
    /\ \A g \in Gen : Len(segments[g]) =< hlsRemainSegments
    /\ file \in [Gen -> [No -> Cell \cup {None}]]
    /\ writable \in [Gen -> SUBSET No]
    /\ disk \in [Path -> [No -> Cell \cup {None}]]
    /\ pool \in [Cell -> Nat]
    /\ data \in [Cell -> SUBSET Segment]
    /\ delayed \in SUBSET Segment
    /\ muxer \in [Gen -> {"none", "idle", "reap", "take", "add", "open",
                          "flush", "write", "ended"}]
    /\ curr \in [Gen -> 0..MaxSeq] /\ out \in [Gen -> Cell \cup {None}]
    /\ muxClosed \in [Gen -> BOOLEAN]
    /\ closer \in [Gen -> [Closer -> {"no", "mux", "sg", "take", "delete", "clear",
                                       "list", "done"}]]
    /\ currOf \in [Gen -> [Closer -> 0..MaxSeq]]
    /\ reader \in [Reader -> {NoRead} \cup [gen : Gen, no : No, cell : Cell]]
    /\ client \in [Client -> {None} \cup [buffer : Client, playlist : Gen \X Seq(No),
                                         bytes : Gen \X Seq(No)]]

Init ==
    /\ memory \in BOOLEAN
    /\ sequenceNo = [g \in Gen |-> 0] /\ current = [g \in Gen |-> 0]
    /\ segments = [g \in Gen |-> <<>>]
    /\ file = [g \in Gen |-> [n \in No |-> None]]
    /\ writable = [g \in Gen |-> {}]
    /\ disk = [p \in Path |-> [n \in No |-> None]]
    /\ pool = [c \in Cell |-> 0]
    /\ data = [c \in Cell |-> {}]
    /\ delayed = {}
    /\ muxer = [g \in Gen |-> "none"]
    /\ curr = [g \in Gen |-> 0] /\ out = [g \in Gen |-> None]
    /\ muxClosed = [g \in Gen |-> FALSE]
    /\ closer = [g \in Gen |-> [k \in Closer |-> "no"]]
    /\ currOf = [g \in Gen |-> [k \in Closer |-> 0]]
    /\ reader = [r \in Reader |-> NoRead]
    /\ client = [q \in Client |-> None]

Listed(g)  == {segments[g][i] : i \in 1..Len(segments[g])}
Name(g, n) == disk[PathOf[g]][n]

-----------------------------------------------------------------------------
(* The files of segments.                                                  *)

\* Nothing refers to cell c: it may be a new buffer, or a new inode.
Unused(c) ==
    /\ pool[c] = 0
    /\ \A g \in Gen : out[g] # c /\ \A n \in No : file[g][n] # c /\ Name(g, n) # c
    /\ \A r \in Reader : reader[r].cell # c

New(c) == Unused(c) /\ c = CHOOSE d \in Cell : Unused(d)

\* The cell that open gets: a buffer from the pool, which may also make one;
\* the file of that name, which is truncated, or a new one.
Opens(g, n, c) ==
    IF memory THEN pool[c] > 0 \/ New(c)
    ELSE c = Name(g, n) \/ (Name(g, n) = None /\ New(c))

\* segmentFile.open; in memory the buffer is Reset.
OpenFile(g, n, c) ==
    /\ Opens(g, n, c)
    /\ file' = [file EXCEPT ![g][n] = c]
    /\ writable' = [writable EXCEPT ![g] = @ \cup {n}]
    /\ data' = [data EXCEPT ![c] = {}]
    /\ pool' = IF memory /\ pool[c] > 0 THEN [pool EXCEPT ![c] = @ - 1] ELSE pool
    /\ disk' = IF memory THEN disk ELSE [disk EXCEPT ![PathOf[g]][n] = c]

\* segmentFile.close; a file on disk forgets its handle as well.
CloseFile(g, n) ==
    /\ writable' = [writable EXCEPT ![g] = @ \ {n}]
    /\ file' = IF memory THEN file ELSE [file EXCEPT ![g][n] = None]

\* clearSegments: the files of segments S are deleted.  A file that is not
\* there any more is deleted again later.
DeleteFiles(g, S) ==
    IF memory
      THEN /\ pool' = [c \in Cell |-> pool[c] + Cardinality({n \in S : file[g][n] = c})]
           /\ file' = [file EXCEPT ![g] = [n \in No |-> IF n \in S THEN None ELSE @[n]]]
           /\ UNCHANGED <<disk, delayed>>
      ELSE /\ disk' = [disk EXCEPT ![PathOf[g]] =
                         [n \in No |-> IF n \in S THEN None ELSE @[n]]]
           /\ delayed' = delayed \cup {<<g, n>> : n \in {m \in S : Name(g, m) = None}}
           /\ UNCHANGED <<pool, file>>

\* NewSegmentGenerator, with the playlist and the muxer of a new stream.
NewSegmentGenerator(g, c) ==
    /\ muxer[g] = "none"
    /\ sequenceNo' = [sequenceNo EXCEPT ![g] = 1]
    /\ current' = [current EXCEPT ![g] = 1]
    /\ OpenFile(g, 1, c)
    /\ muxer' = [muxer EXCEPT ![g] = "idle"]
    /\ UNCHANGED <<memory, segments, delayed, curr, out, closeVars, reader, client>>

-----------------------------------------------------------------------------
(* The goroutine of the TS muxer.                                          *)

At(g, here, there) == muxer[g] = here /\ muxer' = [muxer EXCEPT ![g] = there]

\* The next frame goes to the segment, or first makes a new one: the segment
\* overflows.  Without a segment a frame is ignored.
TakeFrame(g) ==
    /\ ~muxClosed[g]
    /\ current[g] # 0
    /\ \/ At(g, "idle", "flush")
       \/ sequenceNo[g] < LastOf[g] /\ At(g, "idle", "reap")
    /\ UNCHANGED <<memory, segVars, storeVars, curr, out, closeVars, reader, client>>

MuxerEnds(g) ==
    /\ muxClosed[g]
    /\ At(g, "idle", "ended")
    /\ UNCHANGED <<memory, segVars, storeVars, curr, out, closeVars, reader, client>>

\* current became nil since it was tested: a video frame panics, which ends
\* the goroutine; an audio frame finds nothing to close and opens a segment.
ReapNil(g) ==
    /\ current[g] = 0
    /\ At(g, "reap", "ended") \/ At(g, "reap", "open")
    /\ UNCHANGED <<memory, segVars, storeVars, curr, out, closeVars, reader, client>>

\* segmentClose loads current ...
ReapLoad(g) ==
    /\ current[g] # 0
    /\ At(g, "reap", "take")
    /\ curr' = [curr EXCEPT ![g] = current[g]]
    /\ UNCHANGED <<memory, segVars, storeVars, out, closeVars, reader, client>>

\* Mutant of SegmentClose: the segment is listed and its file stays open.
SegmentStaysOpen(g) ==
    /\ At(g, "take", "add")
    /\ current' = [current EXCEPT ![g] = 0]
    /\ UNCHANGED <<memory, sequenceNo, segments, storeVars, curr, out, closeVars, reader, client>>

\* ... sets it to nil and closes the file.
SegmentClose(g) ==
    /\ At(g, "take", "add")
    /\ current' = [current EXCEPT ![g] = 0]
    /\ CloseFile(g, curr[g])
    /\ UNCHANGED <<memory, sequenceNo, segments, disk, pool, data, delayed, curr, out,
                   closeVars, reader, client>>

\* Mutant of AddSegment: the file of the second oldest is deleted.
AddSegmentDropsWrong(g) ==
    /\ At(g, "add", "open")
    /\ LET all  == Append(segments[g], curr[g])
           over == Len(all) > hlsRemainSegments
       IN  /\ segments' = [segments EXCEPT ![g] = IF over THEN Tail(all) ELSE all]
           /\ DeleteFiles(g, IF over THEN {all[2]} ELSE {})
    /\ UNCHANGED <<memory, sequenceNo, current, writable, data, curr, out, closeVars, reader, client>>

\* Mutant of AddSegment: no segment leaves the list.
AddSegmentKeepsAll(g) ==
    /\ At(g, "add", "open")
    /\ segments' = [segments EXCEPT ![g] = Append(@, curr[g])]
    /\ UNCHANGED <<memory, sequenceNo, current, storeVars, curr, out, closeVars, reader, client>>

\* Mutant of AddSegment: one segment less remains.
AddSegmentKeepsTwo(g) ==
    /\ At(g, "add", "open")
    /\ curr' = [curr EXCEPT ![g] = 0]
    /\ LET all  == Append(segments[g], curr[g])
           over == Len(all) >= hlsRemainSegments
       IN  /\ segments' = [segments EXCEPT ![g] = IF over THEN Tail(all) ELSE all]
           /\ DeleteFiles(g, IF over THEN {Head(all)} ELSE {})
    /\ UNCHANGED <<memory, sequenceNo, current, writable, data, out, closeVars, reader, client>>

\* addSegment, under the lock: the oldest segments leave the list.
AddSegment(g) ==
    /\ At(g, "add", "open")
    /\ LET all  == Append(segments[g], curr[g])
           over == Len(all) > hlsRemainSegments
       IN  /\ segments' = [segments EXCEPT ![g] = IF over THEN Tail(all) ELSE all]
           /\ DeleteFiles(g, IF over THEN {Head(all)} ELSE {})
    /\ curr' = [curr EXCEPT ![g] = 0]
    /\ UNCHANGED <<memory, sequenceNo, current, writable, data, out, closeVars, reader, client>>

\* segmentOpen: the next number.
SegmentOpen(g, c) ==
    /\ sequenceNo[g] < LastOf[g]
    /\ At(g, "open", "flush")
    /\ sequenceNo' = [sequenceNo EXCEPT ![g] = @ + 1]
    /\ current' = [current EXCEPT ![g] = sequenceNo[g] + 1]
    /\ OpenFile(g, sequenceNo[g] + 1, c)
    /\ UNCHANGED <<memory, segments, delayed, curr, out, closeVars, reader, client>>

\* The file cannot be opened: no segment any more, frames are ignored.
SegmentOpenFails(g) ==
    /\ ~memory
    /\ sequenceNo[g] < LastOf[g]
    /\ At(g, "open", "idle")
    /\ sequenceNo' = [sequenceNo EXCEPT ![g] = @ + 1]
    /\ UNCHANGED <<memory, current, segments, storeVars, curr, out, closeVars, reader, client>>

\* flushFrame finds the segment and its writer ...
FlushLoad(g) ==
    /\ current[g] \in writable[g]
    /\ At(g, "flush", "write")
    /\ curr' = [curr EXCEPT ![g] = current[g]]
    /\ out' = [out EXCEPT ![g] = file[g][current[g]]]
    /\ UNCHANGED <<memory, segVars, storeVars, closeVars, reader, client>>

\* ... or one of them is nil by now.
FlushPanics(g) ==
    /\ current[g] \notin writable[g]
    /\ At(g, "flush", "ended")
    /\ UNCHANGED <<memory, segVars, storeVars, curr, out, closeVars, reader, client>>

\* The bytes go to that buffer, whosever it is now, or to the file unless it
\* was closed.
FlushWrite(g) ==
    /\ At(g, "write", "idle")
    /\ curr' = [curr EXCEPT ![g] = 0] /\ out' = [out EXCEPT ![g] = None]
    /\ data' = IF memory \/ curr[g] \in writable[g]
                 THEN [data EXCEPT ![out[g]] = @ \cup {<<g, curr[g]>>}] ELSE data
    /\ UNCHANGED <<memory, segVars, file, writable, disk, pool, delayed,
                   closeVars, reader, client>>

-----------------------------------------------------------------------------
(* Stream.close: the muxer, the generator, the playlist.                   *)

Closes(g, k, here, there) ==
    closer[g][k] = here /\ closer' = [closer EXCEPT ![g][k] = there]

\* The status is loaded, and stored later: two closers may both find it OK.
\* (Muxer.closed stands for the status, which is stored just before it.)
CloseBegins(g, k) ==
    /\ g \in Ending /\ muxer[g] # "none"
    /\ ~muxClosed[g]
    /\ Closes(g, k, "no", "mux")
    /\ UNCHANGED <<memory, segVars, storeVars, muxVars, muxClosed, currOf, reader, client>>

\* Mutant of CloseMuxer: the muxer is left to write.
CloseNoMuxer(g, k) ==
    /\ Closes(g, k, "mux", "sg")
    /\ UNCHANGED <<memory, segVars, storeVars, muxVars, muxClosed, currOf, reader, client>>

CloseMuxer(g, k) ==
    /\ Closes(g, k, "mux", "sg")
    /\ muxClosed' = [muxClosed EXCEPT ![g] = TRUE]
    /\ UNCHANGED <<memory, segVars, storeVars, muxVars, currOf, reader, client>>

\* SegmentGenerator.Close loads current ...
CloseLoad(g, k) ==
    /\ Closes(g, k, "sg", IF current[g] = 0 THEN "list" ELSE "take")
    /\ currOf' = [currOf EXCEPT ![g][k] = current[g]]
    /\ UNCHANGED <<memory, segVars, storeVars, muxVars, muxClosed, reader, client>>

\* ... sets it to nil, closes the file ...
CloseTake(g, k) ==
    /\ Closes(g, k, "take", "delete")
    /\ current' = [current EXCEPT ![g] = 0]
    /\ CloseFile(g, currOf[g][k])
    /\ UNCHANGED <<memory, sequenceNo, segments, disk, pool, data, delayed, muxVars,
                   muxClosed, currOf, reader, client>>

\* ... and deletes it: the buffer goes to the pool ...
CloseDelete(g, k) ==
    LET n == currOf[g][k] IN
    /\ Closes(g, k, "delete", IF memory /\ file[g][n] # None THEN "clear" ELSE "list")
    /\ pool' = [c \in Cell |-> IF memory /\ c = file[g][n] THEN pool[c] + 1 ELSE pool[c]]
    /\ disk' = IF memory THEN disk ELSE [disk EXCEPT ![PathOf[g]][n] = None]
    /\ UNCHANGED <<memory, segVars, file, writable, data, delayed, muxVars, muxClosed,
                   currOf, reader, client>>

\* Mutant of CloseClear: the segment keeps the buffer it gave back.
CloseForgetsClear(g, k) ==
    /\ Closes(g, k, "clear", "list")
    /\ UNCHANGED <<memory, segVars, storeVars, muxVars, muxClosed, currOf, reader, client>>

\* ... and the segment forgets it.
CloseClear(g, k) ==
    /\ Closes(g, k, "clear", "list")
    /\ file' = [file EXCEPT ![g][currOf[g][k]] = None]
    /\ UNCHANGED <<memory, segVars, writable, disk, pool, data, delayed, muxVars,
                   muxClosed, currOf, reader, client>>

\* Playlist.Close, under the lock.
ClosePlaylist(g, k) ==
    /\ Closes(g, k, "list", "done")
    /\ segments' = [segments EXCEPT ![g] = <<>>]
    /\ DeleteFiles(g, Listed(g))
    /\ UNCHANGED <<memory, sequenceNo, current, writable, data, muxVars, muxClosed,
                   currOf, reader, client>>

\* The scheduled delete of a file that was missing; it takes whatever file has
\* the name now.
DelayedDelete(g, n) ==
    /\ <<g, n>> \in delayed
    /\ delayed' = delayed \ {<<g, n>>}
    /\ disk' = [disk EXCEPT ![PathOf[g]][n] = None]
    /\ UNCHANGED <<memory, segVars, file, writable, pool, data, muxVars, closeVars,
                   reader, client>>

-----------------------------------------------------------------------------
(* HTTP requests.                                                          *)

\* Where Playlist.Segment finds the bytes of listed segment n.
Bytes(g, n) == IF memory THEN file[g][n] ELSE Name(g, n)

\* GetTS: the reader keeps the bytes, the lock is released.
GetTS(r, g, n) ==
    /\ reader[r] = NoRead
    /\ n \in Listed(g)
    /\ Bytes(g, n) # None
    /\ reader' = [reader EXCEPT ![r] = [gen |-> g, no |-> n, cell |-> Bytes(g, n)]]
    /\ UNCHANGED <<memory, segVars, storeVars, muxVars, closeVars, client>>

\* Its bytes are sent.
TSSent(r) ==
    /\ reader[r] # NoRead
    /\ reader' = [reader EXCEPT ![r] = NoRead]
    /\ UNCHANGED <<memory, segVars, storeVars, muxVars, closeVars, client>>

\* Playlist.M3u8 prints into pooled buffer b, which is back in the pool on
\* return while the result still points to its bytes: whoever prints into it
\* next changes them.
M3u8(q, g, b) ==
    /\ client[q] = None
    /\ Len(segments[g]) >= hlsRemainSegments
    /\ LET printed == <<g, segments[g]>> IN
       client' = [x \in Client |->
           IF x = q THEN [buffer |-> b, playlist |-> printed, bytes |-> printed]
           ELSE IF client[x] # None /\ client[x].buffer = b
                  THEN [client[x] EXCEPT !.bytes = printed]
           ELSE client[x]]
    /\ UNCHANGED <<memory, segVars, storeVars, muxVars, closeVars, reader>>

\* GetM3u8 sends the bytes it got.
M3u8Sent(q) ==
    /\ client[q] # None
    /\ client' = [client EXCEPT ![q] = None]
    /\ UNCHANGED <<memory, segVars, storeVars, muxVars, closeVars, reader>>

-----------------------------------------------------------------------------
Muxing(g) ==
    \/ TakeFrame(g) \/ MuxerEnds(g)
    \/ ReapNil(g) \/ ReapLoad(g) \/ SegmentClose(g) \/ AddSegment(g)
    \/ (\E c \in Cell : SegmentOpen(g, c)) \/ SegmentOpenFails(g)
    \/ FlushLoad(g) \/ FlushPanics(g) \/ FlushWrite(g)

Closing(g, k) ==
    \/ CloseBegins(g, k) \/ CloseMuxer(g, k)
    \/ CloseLoad(g, k) \/ CloseTake(g, k) \/ CloseDelete(g, k) \/ CloseClear(g, k)
    \/ ClosePlaylist(g, k)

Next ==
    \/ \E g \in Gen :
         \/ Muxing(g)
         \/ \E k \in Closer : Closing(g, k)
         \/ \E c \in Cell : NewSegmentGenerator(g, c)
         \/ \E n \in No : DelayedDelete(g, n)
         \/ \E r \in Reader, n \in No : GetTS(r, g, n)
         \/ \E q, b \in Client : M3u8(q, g, b)
    \/ \E r \in Reader : TSSent(r)
    \/ \E q \in Client : M3u8Sent(q)

Spec == Init /\ [][Next]_vars

-----------------------------------------------------------------------------
(* Properties.                                                             *)

\* No other stream ever had this one's path, so its file names are its own.
OwnsPath(g) == \A h \in Gen \ {g} : PathOf[h] = PathOf[g] => muxer[h] = "none"

\* Two closers of one stream overlap: both found its status OK.
ClosedTwice(g) == \E k, l \in Closer : k # l /\ closer[g][k] # "no" /\ closer[g][l] # "no"
ClosedOnce     == \A g \in Gen : ~ClosedTwice(g)

IsOpen(g) == \A k \in Closer : closer[g][k] = "no"

\* A segment whose delete has put the buffer back and not yet forgotten it.
GivenBack(g, n) == \E k \in Closer : closer[g][k] = "clear" /\ currOf[g][k] = n

\* A buffer belongs to one segment or lies in the pool once, although the
\* generator's Close and its own segmentClose may both hold one segment and
\* both run into delete (segmentfile.go:71, a test and two stores).  Two
\* overlapping closes of one stream (stream.go:171) do break this.
OneOwner ==
    memory /\ ClosedOnce => \A c \in Cell :
        pool[c] + Cardinality({x \in Segment :
            file[x[1]][x[2]] = c /\ ~GivenBack(x[1], x[2])}) =< 1

\* The close of stream g got as far as the delete of its segment.
Returned(g) == \E k \in Closer : closer[g][k] \in {"clear", "list", "done"}

\* The last frame of a stream, which its muxer had in hand during the close: it
\* goes to the buffer loaded before the delete, whosever that is by then
\* (segmentfile.go:66).  A stream has one, for the muxer ends after it.
LateFrames ==
    {<<g, sequenceNo[g]>> : g \in {h \in Gen :
        muxClosed[h] /\ muxer[h] \in {"idle", "ended"} /\ Returned(h)}}

\* Cell c holds the frames of segment n and no other; a buffer perhaps late
\* frames as well.
IsSegment(c, g, n) == data[c] \subseteq {<<g, n>>} \cup (IF memory THEN LateFrames ELSE {})

\* hlsRemainSegments segments were listed after segment n.
IsOutOfDate(g, n) == \E m \in Listed(g) : m >= n + hlsRemainSegments

\* Nobody else returns the buffers, or removes the files, of stream g.
Undisturbed(g) == IF memory THEN ClosedOnce ELSE OwnsPath(g)

\* What a playlist lists can be fetched, is finished, and holds the frames of
\* that segment and no other, whatever other streams open, drop and close.  One
\* exception, in memory: the one frame that a closed stream's muxer had in hand
\* (LateFrames).  On disk no other stream may have the path (their files share
\* names).
ListedIsIntact ==
    \A g \in Gen : IsOpen(g) /\ Undisturbed(g) =>
        \A n \in Listed(g) :
            /\ Bytes(g, n) # None
            /\ n \notin writable[g]
            /\ IsSegment(Bytes(g, n), g, n)

\* A request that is being answered has the bytes of its segment.  In memory it
\* reads the pooled buffer itself, without the lock (segmentfile.go:60): as long
\* as the stream is open and fewer than hlsRemainSegments newer segments were
\* listed; after that the buffer may be another segment's.  A file is read to the
\* end, even when it was deleted and the stream closed meanwhile.
ReaderGetsItsSegment ==
    \A r \in Reader : reader[r] # NoRead =>
        LET g == reader[r].gen  n == reader[r].no IN
        Undisturbed(g) /\ (memory => IsOpen(g) /\ ~IsOutOfDate(g, n))
            => IsSegment(reader[r].cell, g, n)

\* After Stream.close a generator adds at most what the frame in hand makes:
\* one listed segment and one open segment, and their two files.
CloseLeavesOneFrame ==
    \A g \in Gen : (\E k \in Closer : closer[g][k] = "done") =>
        /\ Len(segments[g]) =< 1
        /\ memory \/ OwnsPath(g) => Cardinality({n \in No : Bytes(g, n) # None}) =< 2

\* Playlist.M3u8, "获取 m3u8 播放列表" (get the m3u8 playlist, playlist.go:45):
\* what a client is sent is the playlist of its stream as it was listed.
ClientGetsItsPlaylist ==
    \A q \in Client : client[q] # None => client[q].bytes = client[q].playlist

\* A playlist changes by the next number coming in at the end, with the oldest
\* going out when there are three, or by the close that empties it: players
\* count on EXT-X-MEDIA-SEQUENCE growing by one with each segment gone.
Slides(old, new) ==
    \/ new = <<>>
    \/ /\ old = <<>> \/ new[Len(new)] = old[Len(old)] + 1
       /\ \/ Len(old) < hlsRemainSegments /\ new = Append(old, new[Len(new)])
          \/ Len(old) = hlsRemainSegments /\ new = Append(Tail(old), new[Len(new)])

WindowSlides ==
    [][\A g \in Gen : segments'[g] # segments[g] =>
            /\ Slides(segments[g], segments'[g])
            /\ segments'[g] = <<>> => \E k \in Closer : closer'[g][k] = "done"]_vars
=============================================================================
