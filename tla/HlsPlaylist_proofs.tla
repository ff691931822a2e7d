-------------------------- MODULE HlsPlaylist_proofs --------------------------
(***************************************************************************)
(* Proofs about HLS segments and their bytes, for any streams, paths,      *)
(* closers, readers, buffers and segment numbers.                          *)
(*                                                                         *)
(* The argument is in three layers.  ControlInv is about the goroutines    *)
(* and the numbers: after Muxer.closed is set the muxer's goroutine makes  *)
(* the one step of the way it is on, adds one segment and opens one, so    *)
(* the list stays a run of numbers.  OwnerInv is about the buffers: a      *)
(* segment leaves the list with a lower number than the one a close has in *)
(* hand, so that no buffer is given back twice.  BytesInv is about the     *)
(* contents: what is written, listed or read refers to the buffer of one   *)
(* segment, or to the inode of one file name.                              *)
(***************************************************************************)
EXTENDS HlsPlaylist, FiniteSetTheorems, SequenceTheorems, TLAPS

-----------------------------------------------------------------------------
(* The goroutines and the numbers.                                         *)

\* The muxer is about to list the segment of number sequenceNo.
InFlight(g) == muxer[g] \in {"reap", "take", "add"}

Last(g) == segments[g][Len(segments[g])]

\* Number n comes before the next one that will be listed.
IsPast(g, n) ==
    /\ n =< sequenceNo[g]
    /\ InFlight(g) \/ (~muxClosed[g] /\ muxer[g] # "open") => n < sequenceNo[g]

MuxerInv(g) ==
    /\ muxer[g] = "none" => /\ sequenceNo[g] = 0 /\ current[g] = 0 /\ segments[g] = <<>>
                            /\ ~muxClosed[g] /\ \A k \in Closer : closer[g][k] = "no"
    /\ muxer[g] # "none" => sequenceNo[g] >= 1
    /\ current[g] \in {0, sequenceNo[g]}
    /\ muxer[g] \in {"take", "add", "write"} => curr[g] = sequenceNo[g]
    /\ muxer[g] \in {"add", "open"} => current[g] = 0
    /\ muxer[g] \in {"reap", "take", "flush", "write"} /\ ~muxClosed[g] => current[g] # 0

CloserInv(g) ==
    /\ \A k \in Closer : closer[g][k] \notin {"no", "mux"} => muxClosed[g]
    /\ muxClosed[g] => ~IsOpen(g)
    /\ \A k \in Closer : closer[g][k] \in {"take", "delete", "clear"} =>
          /\ currOf[g][k] \in No
          /\ currOf[g][k] =< sequenceNo[g]
          /\ InFlight(g) => currOf[g][k] = sequenceNo[g]

ListInv(g) ==
    /\ \A i \in 1..(Len(segments[g]) - 1) : segments[g][i + 1] = segments[g][i] + 1
    /\ segments[g] # <<>> =>
          /\ Last(g) =< sequenceNo[g]
          /\ InFlight(g) \/ (~muxClosed[g] /\ muxer[g] # "open") => Last(g) = sequenceNo[g] - 1
    /\ muxer[g] = "open" /\ ~muxClosed[g] => segments[g] # <<>> /\ Last(g) = sequenceNo[g]
    /\ (\E k \in Closer : closer[g][k] = "done") =>
          /\ Len(segments[g]) =< 1
          /\ InFlight(g) => segments[g] = <<>>
          /\ segments[g] # <<>> => /\ Last(g) >= sequenceNo[g] - 1
                                   /\ muxer[g] = "open" => Last(g) = sequenceNo[g]

ControlInv == \A g \in Gen : MuxerInv(g) /\ CloserInv(g) /\ ListInv(g)

-----------------------------------------------------------------------------
(* The buffers.                                                            *)

Owns(x, c) == file[x[1]][x[2]] = c /\ ~GivenBack(x[1], x[2])

OwnersAreOne ==
    \A c \in Cell :
        /\ pool[c] =< 1
        /\ pool[c] = 1 => \A x \in Segment : ~Owns(x, c)
        /\ \A x, y \in Segment : Owns(x, c) /\ Owns(y, c) => x = y

OwnerInv == memory /\ ClosedOnce => OwnersAreOne

-----------------------------------------------------------------------------
(* The bytes.                                                              *)

\* The segments whose bytes stream g still needs.
IsNeeded(g, n) ==
    \/ n \in Listed(g)
    \/ n = current[g] /\ n # 0
    \/ n = curr[g] /\ muxer[g] \in {"take", "add"}

\* The handles of its files are those of the goroutines.
HandleInv(g) ==
    /\ muxer[g] = "none" => \A n \in No : file[g][n] = None
    /\ \A n \in No : n \in writable[g] \/ file[g][n] # None => n =< sequenceNo[g]
    /\ \A n \in Listed(g) : n \notin writable[g]
    /\ muxer[g] = "add" => curr[g] \notin writable[g]
    /\ out[g] # None => muxer[g] = "write"
    /\ muxer[g] = "write" /\ IsOpen(g) => out[g] = file[g][curr[g]] /\ curr[g] \in writable[g]
    /\ memory /\ muxer[g] = "write" /\ ~Returned(g) => out[g] = file[g][curr[g]]

NeedInv(g) ==
    IsOpen(g) /\ Undisturbed(g) => \A n \in No : IsNeeded(g, n) => Bytes(g, n) # None

ContentInv(g) ==
    Undisturbed(g) /\ (memory => IsOpen(g)) =>
        \A n \in No : Bytes(g, n) # None => IsSegment(Bytes(g, n), g, n)

\* What has bytes is listed or is the segment in hand; after the muxer was
\* closed, perhaps the one before.
LeftInv(g) ==
    memory \/ OwnsPath(g) => \A n \in No : Bytes(g, n) # None =>
        \/ n \in Listed(g)
        \/ n = sequenceNo[g]
        \/ n = sequenceNo[g] - 1 /\ muxClosed[g] /\ muxer[g] \in {"flush", "write", "idle", "ended"}

FileInv(g) == HandleInv(g) /\ NeedInv(g) /\ ContentInv(g) /\ LeftInv(g)

ReaderInv(r) ==
    reader[r] # NoRead =>
        LET g == reader[r].gen  n == reader[r].no IN
        /\ IsPast(g, n)
        /\ memory /\ n \in Listed(g) /\ IsOpen(g) => reader[r].cell = file[g][n]
        /\ IsOpen(g) /\ ~IsOutOfDate(g, n) => n \in Listed(g)
        /\ ~memory /\ OwnsPath(g) => IsSegment(reader[r].cell, g, n)

\* On disk an inode has one name from the time it is made until nothing refers
\* to it any more.
InodesHaveNames ==
    ~memory => \E name \in [Cell -> (Path \X No) \cup {None}] : \A c \in Cell :
        /\ \A p \in Path, n \in No : disk[p][n] = c => name[c] = <<p, n>>
        /\ \A g \in Gen : /\ \A n \in No : file[g][n] = c => name[c] = <<PathOf[g], n>>
                          /\ out[g] = c => name[c] = <<PathOf[g], curr[g]>>
        /\ \A r \in Reader : reader[r] # NoRead /\ reader[r].cell = c =>
              name[c] = <<PathOf[reader[r].gen], reader[r].no>>

DelayedInv ==
    \A x \in delayed : /\ muxer[x[1]] # "none"
                       /\ OwnsPath(x[1]) => ~IsOpen(x[1])

PathInv ==
    \A p \in Path : (\A g \in Gen : PathOf[g] = p => muxer[g] = "none") =>
        \A n \in No : disk[p][n] = None

BytesInv ==
    /\ \A g \in Gen : FileInv(g)
    /\ \A r \in Reader : ReaderInv(r)
    /\ InodesHaveNames
    /\ DelayedInv
    /\ PathInv

-----------------------------------------------------------------------------
(* Types.                                                                  *)

ListType ==
    /\ sequenceNo \in [Gen -> 0..MaxSeq] /\ current \in [Gen -> 0..MaxSeq]
    /\ segments \in [Gen -> Seq(No)]
    /\ \A g \in Gen : Len(segments[g]) =< hlsRemainSegments

StoreType ==
    /\ file \in [Gen -> [No -> Cell \cup {None}]]
    /\ writable \in [Gen -> SUBSET No]
    /\ disk \in [Path -> [No -> Cell \cup {None}]]
    /\ pool \in [Cell -> Nat]
    /\ data \in [Cell -> SUBSET Segment]
    /\ delayed \in SUBSET Segment

MuxerType ==
    /\ muxer \in [Gen -> {"none", "idle", "reap", "take", "add", "open",
                          "flush", "write", "ended"}]
    /\ curr \in [Gen -> 0..MaxSeq] /\ out \in [Gen -> Cell \cup {None}]

CloserType ==
    /\ muxClosed \in [Gen -> BOOLEAN]
    /\ closer \in [Gen -> [Closer -> {"no", "mux", "sg", "take", "delete", "clear",
                                       "list", "done"}]]
    /\ currOf \in [Gen -> [Closer -> 0..MaxSeq]]

RequestType ==
    /\ reader \in [Reader -> {NoRead} \cup [gen : Gen, no : No, cell : Cell]]
    /\ client \in [Client -> {None} \cup [buffer : Client, playlist : Gen \X Seq(No),
                                         bytes : Gen \X Seq(No)]]

\* The types by the goroutines that change them.
LEMMA TypesInParts ==
    TypeOK <=> /\ memory \in BOOLEAN /\ ListType /\ StoreType /\ MuxerType /\ CloserType
               /\ RequestType
BY DEF TypeOK, ListType, StoreType, MuxerType, CloserType, RequestType

\* What the assumptions say of the constants.
LEMMA ConstantsAreNumbers ==
    /\ MaxSeq \in Nat /\ MaxSeq >= 1
    /\ \A g \in Gen : PathOf[g] \in Path /\ LastOf[g] \in 1..MaxSeq
    /\ None \notin Cell
BY HlsAssumption

\* Only numbers are listed, finitely many.
LEMMA ListedAreNumbers ==
    ASSUME ListType, NEW g \in Gen
    PROVE  Listed(g) \in SUBSET No /\ IsFiniteSet(Listed(g))
<1>1. Listed(g) \in SUBSET No
  <2>1. segments[g] \in Seq(No)
    BY DEF ListType
  <2>2. \A i \in 1..Len(segments[g]) : segments[g][i] \in No
    BY <2>1
  <2> QED
    BY <2>2 DEF Listed
<1>2. IsFiniteSet(No)
  BY ConstantsAreNumbers, FS_Interval DEF No
<1> QED
  BY <1>1, <1>2, FS_Subset

\* segmentFile.open keeps the types.
LEMMA OpenFileKeepsTypes ==
    ASSUME StoreType, NEW g \in Gen, NEW n \in No, NEW c \in Cell, OpenFile(g, n, c),
           delayed' = delayed
    PROVE  StoreType'
<1>1. PathOf[g] \in Path
  BY ConstantsAreNumbers
<1>2. file' \in [Gen -> [No -> Cell \cup {None}]]
  BY DEF OpenFile, StoreType
<1>3. writable' \in [Gen -> SUBSET No]
  BY DEF OpenFile, StoreType
<1>4. disk' \in [Path -> [No -> Cell \cup {None}]]
  BY <1>1 DEF OpenFile, StoreType
<1>5. pool' \in [Cell -> Nat]
  BY DEF OpenFile, StoreType
<1>6. data' \in [Cell -> SUBSET Segment]
  BY DEF OpenFile, StoreType
<1> QED
  BY <1>2, <1>3, <1>4, <1>5, <1>6 DEF StoreType

\* segmentFile.close keeps the types.
LEMMA CloseFileKeepsTypes ==
    ASSUME StoreType, NEW g \in Gen, NEW n, CloseFile(g, n),
           UNCHANGED <<disk, pool, data, delayed>>
    PROVE  StoreType'
<1>1. writable' \in [Gen -> SUBSET No]
  BY DEF CloseFile, StoreType
<1>2. file' \in [Gen -> [No -> Cell \cup {None}]]
  BY DEF CloseFile, StoreType
<1> QED
  BY <1>1, <1>2 DEF StoreType

\* clearSegments keeps the types.
LEMMA DeleteFilesKeepsTypes ==
    ASSUME StoreType, NEW g \in Gen, NEW S \in SUBSET No, IsFiniteSet(S), DeleteFiles(g, S),
           UNCHANGED <<writable, data>>
    PROVE  StoreType'
<1>1. PathOf[g] \in Path
  BY ConstantsAreNumbers
<1>2. CASE memory
  <2>1. UNCHANGED <<disk, delayed>>
    BY <1>2 DEF DeleteFiles
  <2>2. file' \in [Gen -> [No -> Cell \cup {None}]]
    BY <1>2 DEF DeleteFiles, StoreType
  <2>3. ASSUME NEW c \in Cell
        PROVE  pool[c] + Cardinality({n \in S : file[g][n] = c}) \in Nat
    <3>1. {n \in S : file[g][n] = c} \in SUBSET S
      OBVIOUS
    <3>2. IsFiniteSet({n \in S : file[g][n] = c})
      BY <3>1, FS_Subset
    <3>3. Cardinality({n \in S : file[g][n] = c}) \in Nat
      BY <3>2, FS_CardinalityType
    <3> QED
      BY <3>3 DEF StoreType
  <2>4. pool' = [c \in Cell |-> pool[c] + Cardinality({n \in S : file[g][n] = c})]
    BY <1>2 DEF DeleteFiles
  <2>5. pool' \in [Cell -> Nat]
    BY <2>3, <2>4
  <2> QED
    BY <2>1, <2>2, <2>5 DEF StoreType
<1>3. CASE ~memory
  <2>1. UNCHANGED <<pool, file>>
    BY <1>3 DEF DeleteFiles
  <2>2. disk' \in [Path -> [No -> Cell \cup {None}]]
    BY <1>1, <1>3 DEF DeleteFiles, StoreType
  <2>3. delayed' \in SUBSET Segment
    BY <1>3 DEF DeleteFiles, StoreType, Segment
  <2> QED
    BY <2>1, <2>2, <2>3 DEF StoreType
<1> QED
  BY <1>2, <1>3

-----------------------------------------------------------------------------
(* A goroutine of one stream leaves those of the others alone.             *)

ControlOf(g) == MuxerInv(g) /\ CloserInv(g) /\ ListInv(g)

SameControl(g) ==
    /\ sequenceNo'[g] = sequenceNo[g] /\ current'[g] = current[g]
    /\ segments'[g] = segments[g]
    /\ muxer'[g] = muxer[g] /\ curr'[g] = curr[g]
    /\ muxClosed'[g] = muxClosed[g] /\ closer'[g] = closer[g] /\ currOf'[g] = currOf[g]

\* What is said of the goroutines and numbers of a stream depends on them only.
LEMMA SameControlKeeps ==
    ASSUME NEW g \in Gen, ControlOf(g), SameControl(g)
    PROVE  ControlOf(g)'
<1>1. MuxerInv(g)'
  BY DEF ControlOf, SameControl, MuxerInv
<1>2. CloserInv(g)'
  BY DEF ControlOf, SameControl, CloserInv, IsOpen, InFlight
<1>3. ListInv(g)'
  BY DEF ControlOf, SameControl, ListInv, Last, InFlight
<1> QED
  BY <1>1, <1>2, <1>3 DEF ControlOf

\* The muxer of stream g changes nothing of another stream.
LEMMA MuxingKeepsOthers ==
    ASSUME TypeOK, NEW g \in Gen, NEW h \in Gen, h # g,
           Muxing(g) \/ \E c \in Cell : NewSegmentGenerator(g, c)
    PROVE  SameControl(h)
<1>1. CASE TakeFrame(g) \/ MuxerEnds(g) \/ ReapNil(g) \/ FlushPanics(g)
  BY <1>1 DEF TakeFrame, MuxerEnds, ReapNil, FlushPanics, At, SameControl, segVars, closeVars, TypeOK
<1>2. CASE ReapLoad(g) \/ FlushLoad(g) \/ FlushWrite(g)
  BY <1>2 DEF ReapLoad, FlushLoad, FlushWrite, At, SameControl, segVars, closeVars, TypeOK
<1>3. CASE SegmentClose(g) \/ SegmentOpenFails(g)
  BY <1>3 DEF SegmentClose, SegmentOpenFails, At, SameControl, closeVars, TypeOK
<1>4. CASE AddSegment(g)
  BY <1>4 DEF AddSegment, At, SameControl, closeVars, TypeOK
<1>5. CASE \E c \in Cell : SegmentOpen(g, c)
  BY <1>5 DEF SegmentOpen, At, SameControl, closeVars, TypeOK
<1>6. CASE \E c \in Cell : NewSegmentGenerator(g, c)
  BY <1>6 DEF NewSegmentGenerator, At, SameControl, closeVars, TypeOK
<1> QED
  BY <1>1, <1>2, <1>3, <1>4, <1>5, <1>6 DEF Muxing

\* Nor does a closer of stream g.
LEMMA ClosingKeepsOthers ==
    ASSUME TypeOK, NEW g \in Gen, NEW h \in Gen, h # g, NEW k \in Closer, Closing(g, k)
    PROVE  SameControl(h)
<1>1. CASE CloseBegins(g, k) \/ CloseMuxer(g, k) \/ CloseLoad(g, k)
  BY <1>1 DEF CloseBegins, CloseMuxer, CloseLoad, Closes, SameControl, segVars, muxVars, TypeOK
<1>2. CASE CloseTake(g, k) \/ ClosePlaylist(g, k)
  BY <1>2 DEF CloseTake, ClosePlaylist, Closes, SameControl, muxVars, TypeOK
<1>3. CASE CloseDelete(g, k) \/ CloseClear(g, k)
  BY <1>3 DEF CloseDelete, CloseClear, Closes, SameControl, segVars, muxVars, TypeOK
<1> QED
  BY <1>1, <1>2, <1>3 DEF Closing

-----------------------------------------------------------------------------
(* The goroutine of the muxer.                                             *)

\* A new stream has opened segment 1.
LEMMA NewKeepsControl ==
    ASSUME TypeOK, NEW g \in Gen, NEW c \in Cell, ControlOf(g), NewSegmentGenerator(g, c)
    PROVE  ControlOf(g)'
<1>1. /\ muxer[g] = "none" /\ muxer'[g] = "idle"
      /\ sequenceNo'[g] = 1 /\ current'[g] = 1
      /\ segments' = segments /\ UNCHANGED <<curr, muxClosed, closer, currOf>>
  BY DEF NewSegmentGenerator, closeVars, TypeOK
<1>2. /\ segments[g] = <<>> /\ ~muxClosed[g] /\ \A k \in Closer : closer[g][k] = "no"
  BY <1>1 DEF ControlOf, MuxerInv
<1>3. MuxerInv(g)'
  BY <1>1, <1>2 DEF MuxerInv
<1>4. CloserInv(g)'
  BY <1>1, <1>2 DEF CloserInv
<1>5. ListInv(g)'
  BY <1>1, <1>2 DEF ListInv, InFlight, Last
<1> QED
  BY <1>3, <1>4, <1>5 DEF ControlOf

\* The muxer goes from one step to the next; neither numbers nor list change.
LEMMA MuxerMovesKeepControl ==
    ASSUME TypeOK, NEW g \in Gen, ControlOf(g),
           \/ TakeFrame(g) \/ MuxerEnds(g) \/ ReapNil(g) \/ ReapLoad(g)
           \/ FlushLoad(g) \/ FlushPanics(g) \/ FlushWrite(g)
    PROVE  ControlOf(g)'
<1>1. UNCHANGED <<sequenceNo, current, segments, muxClosed, closer, currOf>>
  BY DEF TakeFrame, MuxerEnds, ReapNil, ReapLoad, FlushLoad, FlushPanics, FlushWrite,
     segVars, closeVars
<1>2. \/ /\ muxer[g] = "idle" /\ muxer'[g] \in {"flush", "reap"} /\ curr'[g] = curr[g]
         /\ ~muxClosed[g] /\ current[g] # 0
      \/ muxer[g] = "idle" /\ muxer'[g] = "ended" /\ curr'[g] = curr[g]
      \/ muxer[g] = "reap" /\ muxer'[g] \in {"ended", "open"} /\ curr'[g] = curr[g] /\ current[g] = 0
      \/ muxer[g] = "reap" /\ muxer'[g] = "take" /\ curr'[g] = current[g] /\ current[g] # 0
      \/ muxer[g] = "flush" /\ muxer'[g] = "write" /\ curr'[g] = current[g] /\ current[g] \in writable[g]
      \/ muxer[g] = "flush" /\ muxer'[g] = "ended" /\ curr'[g] = curr[g]
      \/ muxer[g] = "write" /\ muxer'[g] = "idle"
  <2>1. CASE TakeFrame(g)
    BY <2>1 DEF TakeFrame, At, TypeOK
  <2>2. CASE MuxerEnds(g)
    BY <2>2 DEF MuxerEnds, At, TypeOK
  <2>3. CASE ReapNil(g)
    BY <2>3 DEF ReapNil, At, TypeOK
  <2>4. CASE ReapLoad(g)
    BY <2>4 DEF ReapLoad, At, TypeOK
  <2>5. CASE FlushLoad(g)
    BY <2>5 DEF FlushLoad, At, TypeOK
  <2>6. CASE FlushPanics(g)
    BY <2>6 DEF FlushPanics, At, TypeOK
  <2>7. CASE FlushWrite(g)
    BY <2>7 DEF FlushWrite, At, TypeOK
  <2> QED
    BY <2>1, <2>2, <2>3, <2>4, <2>5, <2>6, <2>7
<1>3. current[g] \in writable[g] => current[g] # 0
  <2>1. writable[g] \in SUBSET No /\ 0 \notin No
    BY DEF TypeOK, No
  <2> QED
    BY <2>1
<1>4. ~muxClosed[g] => \A k \in Closer : closer[g][k] \in {"no", "mux"}
  BY DEF ControlOf, CloserInv
<1>5. MuxerInv(g)'
  BY <1>1, <1>2, <1>3 DEF ControlOf, MuxerInv
<1>6. CloserInv(g)'
  BY <1>1, <1>2, <1>4 DEF ControlOf, CloserInv, IsOpen, InFlight
<1>7. ListInv(g)'
  <2>1. ~muxClosed[g] => ~ \E k \in Closer : closer[g][k] = "done"
    BY <1>4
  <2>2. muxer[g] = "reap" /\ current[g] = 0 => muxClosed[g]
    BY DEF ControlOf, MuxerInv
  <2>3. Last(g)' = Last(g)
    BY <1>1 DEF Last
  <2> QED
    BY <1>1, <1>2, <2>1, <2>2, <2>3 DEF ControlOf, ListInv, InFlight
<1> QED
  BY <1>5, <1>6, <1>7 DEF ControlOf

\* segmentClose takes the segment away.
LEMMA SegmentCloseKeepsControl ==
    ASSUME TypeOK, NEW g \in Gen, ControlOf(g), SegmentClose(g)
    PROVE  ControlOf(g)'
<1>1. /\ muxer[g] = "take" /\ muxer'[g] = "add" /\ current'[g] = 0
      /\ UNCHANGED <<sequenceNo, segments, curr, muxClosed, closer, currOf>>
  BY DEF SegmentClose, At, closeVars, TypeOK
<1>2. MuxerInv(g)'
  BY <1>1 DEF ControlOf, MuxerInv
<1>3. CloserInv(g)'
  BY <1>1 DEF ControlOf, CloserInv, IsOpen, InFlight
<1>4. ListInv(g)'
  BY <1>1 DEF ControlOf, ListInv, Last, InFlight
<1> QED
  BY <1>2, <1>3, <1>4 DEF ControlOf

\* The list u is what adding n to list s leaves.
HasSlid(s, n, u) ==
    /\ u \in Seq(No) /\ u # <<>> /\ Len(u) =< 3 /\ Len(u) =< Len(s) + 1
    /\ u[Len(u)] = n
    /\ \A i \in 1..(Len(u) - 1) : u[i + 1] = u[i] + 1
    /\ Slides(s, u)
    /\ {u[i] : i \in 1..Len(u)}
          = ({s[i] : i \in 1..Len(s)} \cup {n}) \ (IF Len(s) = 3 THEN {s[1]} ELSE {})

\* A list of consecutive numbers, with the next number at the end and without
\* the first when there were three.
LEMMA ListSlides ==
    ASSUME NEW s \in Seq(No), Len(s) =< 3, NEW n \in No, NEW u,
           s # <<>> => s[Len(s)] = n - 1,
           \A i \in 1..(Len(s) - 1) : s[i + 1] = s[i] + 1,
           u = IF Len(Append(s, n)) > 3 THEN Tail(Append(s, n)) ELSE Append(s, n)
    PROVE  HasSlid(s, n, u)
<1>a. PICK all : all = Append(s, n)
  OBVIOUS
<1>1. /\ all \in Seq(No) /\ Len(all) = Len(s) + 1 /\ all # <<>> /\ all[Len(s) + 1] = n
      /\ \A i \in 1..Len(s) : all[i] = s[i]
  BY <1>a, AppendProperties
<1>2. n \in Nat /\ Len(s) \in Nat
  BY DEF No
<1>3. CASE Len(s) < 3
  <2>1. u = all /\ u = Append(s, n)
    <3>1. ~(Len(all) > 3)
      BY <1>1, <1>2, <1>3
    <3> QED
      BY <1>a, <3>1
  <2>2. /\ Len(u) = Len(s) + 1 /\ u[Len(u)] = n /\ Len(u) =< 3
        /\ \A i \in 1..Len(s) : u[i] = s[i]
    BY <1>1, <1>2, <1>3, <2>1
  <2>3. ASSUME NEW i \in 1..(Len(u) - 1)
        PROVE  u[i + 1] = u[i] + 1
    <3>1. i \in 1..Len(s) /\ u[i] = s[i]
      BY <1>2, <2>2
    <3>2. CASE i = Len(s)
      <4>1. s # <<>> /\ u[i + 1] = n /\ u[i] = n - 1
        BY <1>2, <2>2, <3>1, <3>2
      <4> QED
        BY <1>2, <4>1
    <3>3. CASE i < Len(s)
      <4>1. i \in 1..(Len(s) - 1) /\ i + 1 \in 1..Len(s)
        BY <1>2, <3>1, <3>3
      <4> QED
        BY <2>2, <3>1, <4>1
    <3> QED
      BY <1>2, <3>1, <3>2, <3>3
  <2>4. Slides(s, u)
    <3>1. s = <<>> \/ u[Len(u)] = s[Len(s)] + 1
      BY <1>2, <2>2
    <3> QED
      BY <1>3, <2>1, <2>2, <3>1 DEF Slides, hlsRemainSegments
  <2>5. {u[i] : i \in 1..Len(u)} = {s[i] : i \in 1..Len(s)} \cup {n}
    <3>1. \A i \in 1..Len(u) : i \in 1..Len(s) \/ i = Len(u)
      BY <1>2, <2>2
    <3>2. \A i \in 1..Len(s) : i \in 1..Len(u)
      BY <1>2, <2>2
    <3>3. Len(u) \in 1..Len(u)
      BY <1>2, <2>2
    <3> QED
      BY <2>2, <3>1, <3>2, <3>3
  <2>6. u \in Seq(No) /\ u # <<>>
    BY <1>1, <2>1
  <2>7. Len(s) # 3
    BY <1>3
  <2>8. {u[i] : i \in 1..Len(u)}
           = ({s[i] : i \in 1..Len(s)} \cup {n}) \ (IF Len(s) = 3 THEN {s[1]} ELSE {})
    BY <2>5, <2>7
  <2>9. Len(u) =< Len(s) + 1
    BY <1>2, <2>2
  <2> QED
    BY <2>2, <2>3, <2>4, <2>6, <2>8, <2>9 DEF HasSlid
<1>4. CASE Len(s) = 3
  <2>1. u = Tail(all)
    <3>1. Len(all) > 3
      BY <1>1, <1>4
    <3> QED
      BY <1>a, <3>1
  <2>2. Tail(all) \in Seq(No) /\ Len(Tail(all)) = Len(all) - 1
        /\ \A i \in 1..Len(Tail(all)) : Tail(all)[i] = all[i + 1]
    BY <1>1, HeadTailProperties
  <2>3. /\ u \in Seq(No) /\ Len(u) = 3 /\ \A i \in 1..3 : u[i] = all[i + 1]
    BY <1>1, <1>4, <2>1, <2>2
  <2>4. /\ u[1] = all[2] /\ u[2] = all[3] /\ u[3] = all[4]
        /\ all[2] = s[2] /\ all[3] = s[3] /\ all[4] = n
    <3>1. u[1] = all[2] /\ u[2] = all[3] /\ u[3] = all[4]
      <4>1. u[1] = all[1 + 1] /\ u[2] = all[2 + 1] /\ u[3] = all[3 + 1]
        BY <2>3
      <4>2. 1 + 1 = 2 /\ 2 + 1 = 3 /\ 3 + 1 = 4
        OBVIOUS
      <4> QED
        BY <4>1, <4>2
    <3>2. all[2] = s[2] /\ all[3] = s[3] /\ all[4] = n
      BY <1>1, <1>4
    <3> QED
      BY <3>1, <3>2
  <2>5. s[1] \in Nat /\ s[2] = s[1] + 1 /\ s[3] = s[2] + 1 /\ s[3] = n - 1
    <3>1. s[1] \in Nat
      <4>1. s[1] \in No
        BY <1>4
      <4> QED
        BY <4>1 DEF No
    <3>2. s[1 + 1] = s[1] + 1 /\ s[2 + 1] = s[2] + 1
      BY <1>4
    <3>3. s # <<>>
      BY <1>4
    <3> QED
      BY <1>4, <3>1, <3>2, <3>3
  <2>6. Slides(s, u)
    <3>1. u = Append(Tail(s), n)
      <4>1. s # <<>>
        BY <1>4
      <4> QED
        BY <1>a, <2>1, <4>1, HeadTailAppend
    <3>2. u[Len(u)] = n /\ n = s[Len(s)] + 1
      BY <1>2, <1>4, <2>3, <2>4, <2>5
    <3> QED
      BY <1>4, <3>1, <3>2 DEF Slides, hlsRemainSegments
  <2>7. \A i \in 1..(Len(u) - 1) : u[i + 1] = u[i] + 1
    <3>1. \A i \in 1..(Len(u) - 1) : i = 1 \/ i = 2
      BY <2>3
    <3>2. u[1 + 1] = u[1] + 1 /\ u[2 + 1] = u[2] + 1
      BY <1>2, <2>4, <2>5
    <3> QED
      BY <3>1, <3>2
  <2>8. {u[i] : i \in 1..Len(u)} = {s[2], s[3], n} /\ {s[i] : i \in 1..Len(s)} = {s[1], s[2], s[3]}
    <3>1. \A f : {f[i] : i \in 1..3} = {f[1], f[2], f[3]}
      OBVIOUS
    <3>2. {u[i] : i \in 1..Len(u)} = {u[1], u[2], u[3]}
      BY <2>3, <3>1
    <3>3. {s[i] : i \in 1..Len(s)} = {s[1], s[2], s[3]}
      BY <1>4, <3>1
    <3> QED
      BY <2>4, <3>2, <3>3
  <2>9. s[1] \notin {s[2], s[3], n}
    BY <1>2, <2>5
  <2>10. {s[2], s[3], n} = ({s[1], s[2], s[3]} \cup {n}) \ {s[1]}
    BY <2>9
  <2>11. u # <<>> /\ u[Len(u)] = n
    BY <2>3, <2>4
  <2>12. {u[i] : i \in 1..Len(u)}
            = ({s[i] : i \in 1..Len(s)} \cup {n}) \ (IF Len(s) = 3 THEN {s[1]} ELSE {})
    BY <1>4, <2>8, <2>10
  <2>13. Len(u) =< 3 /\ Len(u) =< Len(s) + 1
    BY <1>4, <2>3
  <2> QED
    BY <2>3, <2>6, <2>7, <2>11, <2>12, <2>13 DEF HasSlid
<1>5. Len(s) < 3 \/ Len(s) = 3
  <2>1. PICK m \in Nat : m = Len(s)
    BY <1>2
  <2>2. m =< 3
    BY <2>1
  <2>3. m < 3 \/ m = 3
    BY <2>2
  <2> QED
    BY <2>1, <2>3
<1> QED
  BY <1>3, <1>4, <1>5

\* What addSegment makes of the playlist: it goes on with the next number.
LEMMA AddSegmentSlides ==
    ASSUME TypeOK, NEW g \in Gen, ControlOf(g), AddSegment(g)
    PROVE  /\ segments'[g] \in Seq(No) /\ segments'[g] # <<>>
           /\ Len(segments'[g]) =< hlsRemainSegments
           /\ Len(segments'[g]) =< Len(segments[g]) + 1
           /\ Last(g)' = sequenceNo[g]
           /\ \A i \in 1..(Len(segments'[g]) - 1) : segments'[g][i + 1] = segments'[g][i] + 1
           /\ Slides(segments[g], segments'[g])
           /\ Listed(g)' = (Listed(g) \cup {sequenceNo[g]})
                 \ (IF Len(segments[g]) = hlsRemainSegments THEN {segments[g][1]} ELSE {})
<1>s. PICK s : s = segments[g]
  OBVIOUS
<1>n. PICK n : n = sequenceNo[g]
  OBVIOUS
<1>1. /\ s \in Seq(No) /\ Len(s) =< 3 /\ n \in No /\ n = curr[g]
      /\ muxer[g] = "add"
  <2>1. s \in Seq(No) /\ Len(s) =< hlsRemainSegments /\ n \in 0..MaxSeq
    BY <1>s, <1>n DEF TypeOK
  <2>2. muxer[g] = "add"
    BY DEF AddSegment, At
  <2>3. n = curr[g] /\ n >= 1
    BY <1>n, <2>2 DEF ControlOf, MuxerInv
  <2> QED
    BY <2>1, <2>2, <2>3 DEF hlsRemainSegments, No
<1>u. PICK u : u = segments'[g]
  OBVIOUS
<1>2. u = IF Len(Append(s, n)) > 3 THEN Tail(Append(s, n)) ELSE Append(s, n)
  BY <1>1, <1>s, <1>u DEF AddSegment, hlsRemainSegments, TypeOK
<1>3. /\ s # <<>> => s[Len(s)] = n - 1
      /\ \A i \in 1..(Len(s) - 1) : s[i + 1] = s[i] + 1
  BY <1>1, <1>s, <1>n DEF ControlOf, ListInv, Last, InFlight
<1>4. HasSlid(s, n, u)
  <2>1. s \in Seq(No) /\ Len(s) =< 3 /\ n \in No
    BY <1>1
  <2>2. s # <<>> => s[Len(s)] = n - 1
    BY <1>3
  <2>3. \A i \in 1..(Len(s) - 1) : s[i + 1] = s[i] + 1
    BY <1>3
  <2> QED
    BY <2>1, <2>2, <2>3, <1>2, ListSlides
<1>5. Last(g)' = n
  BY <1>4, <1>u DEF Last, HasSlid
<1>6. Listed(g)' = (Listed(g) \cup {n}) \ (IF Len(s) = 3 THEN {s[1]} ELSE {})
  <2>1. Listed(g)' = {u[i] : i \in 1..Len(u)} /\ Listed(g) = {s[i] : i \in 1..Len(s)}
    BY <1>u, <1>s DEF Listed
  <2> QED
    BY <1>4, <2>1 DEF HasSlid
<1> QED
  BY <1>4, <1>5, <1>6, <1>s, <1>n, <1>u DEF hlsRemainSegments, HasSlid

\* The muxer has added its segment; it opens the next one.
LEMMA AddSegmentKeepsControl ==
    ASSUME TypeOK, NEW g \in Gen, ControlOf(g), AddSegment(g)
    PROVE  ControlOf(g)'
<1>1. /\ muxer[g] = "add" /\ muxer'[g] = "open"
      /\ UNCHANGED <<sequenceNo, current, muxClosed, closer, currOf>>
  BY DEF AddSegment, At, closeVars, TypeOK
<1>2. MuxerInv(g)'
  BY <1>1 DEF ControlOf, MuxerInv
<1>3. CloserInv(g)'
  BY <1>1 DEF ControlOf, CloserInv, IsOpen, InFlight
<1>4. ListInv(g)'
  <2>1. sequenceNo[g] \in Nat /\ Len(segments[g]) \in Nat /\ Len(segments'[g]) \in Nat
    <3>1. sequenceNo[g] \in Nat /\ segments[g] \in Seq(No)
      BY DEF TypeOK
    <3>2. segments'[g] \in Seq(No)
      BY AddSegmentSlides
    <3> QED
      BY <3>1, <3>2
  <2>2. (\E k \in Closer : closer[g][k] = "done") => Len(segments[g]) = 0
    BY <1>1 DEF ControlOf, ListInv, InFlight
  <2> QED
    BY <1>1, <2>1, <2>2, AddSegmentSlides DEF ListInv, InFlight
<1> QED
  BY <1>2, <1>3, <1>4 DEF ControlOf

\* segmentOpen counts on.
LEMMA SegmentOpenKeepsControl ==
    ASSUME TypeOK, NEW g \in Gen, ControlOf(g),
           SegmentOpenFails(g) \/ \E c \in Cell : SegmentOpen(g, c)
    PROVE  ControlOf(g)'
<1>1. /\ muxer[g] = "open"
      /\ sequenceNo'[g] = sequenceNo[g] + 1
      /\ \/ muxer'[g] = "flush" /\ current'[g] = sequenceNo[g] + 1
         \/ muxer'[g] = "idle" /\ current'[g] = current[g]
      /\ UNCHANGED <<segments, muxClosed, closer, currOf>>
  <2>1. CASE SegmentOpenFails(g)
    BY <2>1 DEF SegmentOpenFails, At, closeVars, TypeOK
  <2>2. CASE \E c \in Cell : SegmentOpen(g, c)
    BY <2>2 DEF SegmentOpen, At, closeVars, TypeOK
  <2> QED
    BY <2>1, <2>2
<1>2. sequenceNo[g] \in Nat /\ current[g] = 0 /\ sequenceNo[g] >= 1
  BY <1>1 DEF ControlOf, MuxerInv, TypeOK
<1>3. MuxerInv(g)'
  BY <1>1, <1>2 DEF MuxerInv
<1>4. CloserInv(g)'
  <2>1. \A k \in Closer : currOf[g][k] \in Nat
    BY DEF TypeOK
  <2> QED
    BY <1>1, <1>2, <2>1 DEF ControlOf, CloserInv, IsOpen, InFlight
<1>5. ListInv(g)'
  <2>1. Last(g)' = Last(g)
    BY <1>1 DEF Last
  <2>2. segments[g] # <<>> => Last(g) \in No
    BY DEF TypeOK, Last
  <2> QED
    BY <1>1, <1>2, <2>1, <2>2 DEF ControlOf, ListInv, InFlight, No
<1> QED
  BY <1>3, <1>4, <1>5 DEF ControlOf

-----------------------------------------------------------------------------
(* The closers.                                                            *)

\* A step of Stream.close up to Playlist.Close: how far closer k got.
LEMMA CloserMovesKeepControl ==
    ASSUME TypeOK, NEW g \in Gen, NEW k \in Closer, ControlOf(g),
           \/ CloseBegins(g, k) \/ CloseMuxer(g, k) \/ CloseLoad(g, k)
           \/ CloseTake(g, k) \/ CloseDelete(g, k) \/ CloseClear(g, k)
    PROVE  ControlOf(g)'
<1>1. /\ UNCHANGED <<sequenceNo, segments, muxer, curr>>
      /\ \A l \in Closer \ {k} : closer'[g][l] = closer[g][l] /\ currOf'[g][l] = currOf[g][l]
  BY DEF CloseBegins, CloseMuxer, CloseLoad, CloseTake, CloseDelete, CloseClear, Closes,
     segVars, muxVars, TypeOK
<1>2. /\ current'[g] = current[g] \/ (current'[g] = 0 /\ closer[g][k] = "take")
      /\ muxClosed'[g] = muxClosed[g] \/ muxClosed'[g]
      /\ closer'[g][k] \notin {"no", "done"}
      /\ muxer[g] # "none"
      /\ closer'[g][k] # "mux" => muxClosed'[g]
      /\ closer'[g][k] = "mux" => ~muxClosed'[g]
      /\ closer'[g][k] \in {"take", "delete", "clear"} =>
            \/ currOf'[g][k] = currOf[g][k] /\ closer[g][k] \in {"take", "delete", "clear"}
            \/ currOf'[g][k] = current[g] /\ current[g] # 0
  <2>1. CASE CloseBegins(g, k)
    BY <2>1 DEF CloseBegins, Closes, segVars, TypeOK
  <2>2. CASE CloseMuxer(g, k)
    BY <2>2 DEF CloseMuxer, Closes, segVars, TypeOK, ControlOf, MuxerInv
  <2>3. CASE CloseLoad(g, k)
    BY <2>3 DEF CloseLoad, Closes, segVars, TypeOK, ControlOf, MuxerInv, CloserInv
  <2>4. CASE CloseTake(g, k)
    BY <2>4 DEF CloseTake, Closes, TypeOK, ControlOf, MuxerInv, CloserInv
  <2>5. CASE CloseDelete(g, k)
    BY <2>5 DEF CloseDelete, Closes, segVars, TypeOK, ControlOf, MuxerInv, CloserInv
  <2>6. CASE CloseClear(g, k)
    BY <2>6 DEF CloseClear, Closes, segVars, TypeOK, ControlOf, MuxerInv, CloserInv
  <2> QED
    BY <2>1, <2>2, <2>3, <2>4, <2>5, <2>6
<1>3. closer[g][k] = "take" => muxClosed[g]
  BY DEF ControlOf, CloserInv
<1>4. MuxerInv(g)'
  BY <1>1, <1>2, <1>3 DEF ControlOf, MuxerInv
<1>5. CloserInv(g)'
  <2>1. \A l \in Closer : closer'[g][l] \notin {"no", "mux"} => muxClosed'[g]
    BY <1>1, <1>2 DEF ControlOf, CloserInv
  <2>2. ~IsOpen(g)'
    BY <1>2 DEF IsOpen
  <2>3. current[g] # 0 => current[g] \in No /\ current[g] = sequenceNo[g] /\ sequenceNo[g] \in Nat
    BY ConstantsAreNumbers DEF ControlOf, MuxerInv, TypeOK, No
  <2>4. ASSUME NEW l \in Closer, closer'[g][l] \in {"take", "delete", "clear"}
        PROVE  /\ currOf'[g][l] \in No
               /\ currOf'[g][l] =< sequenceNo'[g]
               /\ InFlight(g)' => currOf'[g][l] = sequenceNo'[g]
    <3>1. CASE l = k
      BY <1>1, <1>2, <2>3, <2>4, <3>1 DEF ControlOf, CloserInv, InFlight
    <3>2. CASE l # k
      BY <1>1, <2>4, <3>2 DEF ControlOf, CloserInv, InFlight
    <3> QED
      BY <3>1, <3>2
  <2> QED
    BY <2>1, <2>2, <2>4 DEF CloserInv
<1>6. ListInv(g)'
  <2>1. Last(g)' = Last(g)
    BY <1>1 DEF Last
  <2>2. (\E l \in Closer : closer'[g][l] = "done") => \E l \in Closer : closer[g][l] = "done"
    BY <1>1, <1>2
  <2> QED
    BY <1>1, <1>2, <2>1, <2>2 DEF ControlOf, ListInv, InFlight
<1> QED
  BY <1>4, <1>5, <1>6 DEF ControlOf

\* Playlist.Close empties the list, and its closer is done.
LEMMA ClosePlaylistEmpties ==
    ASSUME TypeOK, NEW g \in Gen, NEW k \in Closer, ClosePlaylist(g, k)
    PROVE  /\ segments'[g] = <<>> /\ closer[g][k] = "list" /\ closer'[g][k] = "done"
           /\ \A l \in Closer \ {k} : closer'[g][l] = closer[g][l]
           /\ UNCHANGED <<sequenceNo, current, muxer, curr, muxClosed, currOf>>
           /\ \A h \in Gen \ {g} : segments'[h] = segments[h]
BY DEF ClosePlaylist, Closes, muxVars, TypeOK

\* Playlist.Close leaves nothing that its generator could go wrong on.
LEMMA ClosePlaylistKeepsControl ==
    ASSUME TypeOK, NEW g \in Gen, NEW k \in Closer, ControlOf(g), ClosePlaylist(g, k)
    PROVE  ControlOf(g)'
<1>1. muxClosed[g] /\ muxer[g] # "none"
  BY ClosePlaylistEmpties DEF ControlOf, CloserInv, MuxerInv
<1>2. MuxerInv(g)'
  BY <1>1, ClosePlaylistEmpties DEF ControlOf, MuxerInv
<1>3. CloserInv(g)'
  <2>1. ~IsOpen(g)'
    BY ClosePlaylistEmpties DEF IsOpen
  <2>2. \A l \in Closer : closer'[g][l] \in {"take", "delete", "clear"} => l # k
    BY ClosePlaylistEmpties
  <2> QED
    BY <1>1, <2>1, <2>2, ClosePlaylistEmpties DEF ControlOf, CloserInv, InFlight
<1>4. ListInv(g)'
  <2>1. Len(segments'[g]) = 0
    BY ClosePlaylistEmpties
  <2> QED
    BY <1>1, <2>1, ClosePlaylistEmpties DEF ListInv, InFlight
<1> QED
  BY <1>2, <1>3, <1>4 DEF ControlOf

-----------------------------------------------------------------------------
(* Every step keeps the types and the control.                             *)

\* The steps of the muxer keep the types.
LEMMA MuxingKeepsTypes ==
    ASSUME TypeOK, NEW g \in Gen, ControlOf(g), Muxing(g)
    PROVE  TypeOK'
<1>p. memory \in BOOLEAN /\ ListType /\ StoreType /\ MuxerType /\ CloserType /\ RequestType
  BY TypesInParts
<1>r. reader' = reader /\ client' = client
  BY DEF Muxing, TakeFrame, MuxerEnds, ReapNil, ReapLoad, SegmentClose, AddSegment,
     SegmentOpen, SegmentOpenFails, FlushLoad, FlushPanics, FlushWrite
<1>t. memory' \in BOOLEAN /\ ListType' /\ StoreType' /\ MuxerType' /\ CloserType' => TypeOK'
  BY <1>p, <1>r DEF TypeOK, ListType, StoreType, MuxerType, CloserType, RequestType
<1> USE <1>p, ConstantsAreNumbers
<1>1. CASE TakeFrame(g) \/ MuxerEnds(g) \/ ReapNil(g) \/ FlushPanics(g)
  <2>1. /\ UNCHANGED <<memory, segVars, storeVars, curr, out, closeVars>>
        /\ muxer' \in [Gen -> {"none", "idle", "reap", "take", "add", "open",
                               "flush", "write", "ended"}]
    BY <1>1 DEF TakeFrame, MuxerEnds, ReapNil, FlushPanics, At, MuxerType
  <2>2. MuxerType'
    BY <2>1 DEF MuxerType
  <2>3. ListType' /\ StoreType' /\ CloserType' /\ memory' \in BOOLEAN
    BY <2>1 DEF ListType, StoreType, CloserType, segVars, storeVars, closeVars
  <2> QED
    BY <1>t, <2>2, <2>3
<1>2. CASE ReapLoad(g) \/ FlushLoad(g)
  <2>1. UNCHANGED <<memory, segVars, storeVars, closeVars>>
    BY <1>2 DEF ReapLoad, FlushLoad
  <2>2. CASE ReapLoad(g)
    <3>1. MuxerType'
      BY <2>2 DEF ReapLoad, At, MuxerType, ListType
    <3> QED
      BY <2>1, <3>1, <1>t DEF ListType, StoreType, CloserType, segVars, storeVars, closeVars
  <2>3. CASE FlushLoad(g)
    <3>1. file[g][current[g]] \in Cell \cup {None}
      BY <2>3 DEF FlushLoad, StoreType
    <3>2. MuxerType'
      BY <2>3, <3>1 DEF FlushLoad, At, MuxerType, ListType
    <3> QED
      BY <2>1, <3>2, <1>t DEF ListType, StoreType, CloserType, segVars, storeVars, closeVars
  <2> QED
    BY <1>2, <2>2, <2>3
<1>3. CASE FlushWrite(g)
  <2>1. UNCHANGED <<memory, segVars, file, writable, disk, pool, delayed, closeVars>>
    BY <1>3 DEF FlushWrite
  <2>2. MuxerType'
    BY <1>3 DEF FlushWrite, At, MuxerType
  <2>3. muxer[g] = "write"
    BY <1>3 DEF FlushWrite, At
  <2>4. <<g, curr[g]>> \in Segment
    BY <2>3, ConstantsAreNumbers DEF ControlOf, MuxerInv, ListType, Segment, No
  <2>5. data' \in [Cell -> SUBSET Segment]
    BY <1>3, <2>4 DEF FlushWrite, StoreType
  <2> QED
    BY <2>1, <2>2, <2>5, <1>t DEF ListType, StoreType, CloserType, segVars, closeVars
<1>4. CASE SegmentClose(g)
  <2>1. UNCHANGED <<memory, sequenceNo, segments, disk, pool, data, delayed, curr, out, closeVars>>
    BY <1>4 DEF SegmentClose
  <2>2. StoreType'
    BY <1>4, <2>1, CloseFileKeepsTypes DEF SegmentClose
  <2>3. MuxerType' /\ ListType'
    BY <1>4 DEF SegmentClose, At, MuxerType, ListType
  <2> QED
    BY <2>1, <2>2, <2>3, <1>t DEF CloserType, closeVars
<1>5. CASE AddSegment(g)
  <2>1. UNCHANGED <<memory, sequenceNo, current, writable, data, out, closeVars>>
    BY <1>5 DEF AddSegment
  <2>2. MuxerType'
    BY <1>5 DEF AddSegment, At, MuxerType
  <2>3. ListType'
    <3>1. \A h \in Gen \ {g} : segments'[h] = segments[h]
      BY <1>5 DEF AddSegment, ListType
    <3>2. segments' \in [Gen -> Seq(No)]
      <4>1. segments'[g] \in Seq(No)
        BY <1>5, AddSegmentSlides
      <4>2. PICK u : segments' = [segments EXCEPT ![g] = u]
        BY <1>5 DEF AddSegment
      <4>3. u \in Seq(No)
        BY <4>1, <4>2 DEF ListType
      <4> QED
        BY <4>2, <4>3 DEF ListType
    <3>3. \A h \in Gen : Len(segments'[h]) =< hlsRemainSegments
      BY <1>5, <3>1, AddSegmentSlides DEF ListType
    <3> QED
      BY <2>1, <3>2, <3>3, <1>t DEF ListType
  <2>4. StoreType'
    <3>1. PICK all : all = Append(segments[g], curr[g])
      OBVIOUS
    <3>2. PICK S : S = IF Len(all) > hlsRemainSegments THEN {Head(all)} ELSE {}
      OBVIOUS
    <3>3. DeleteFiles(g, S)
      BY <1>5, <3>1, <3>2 DEF AddSegment
    <3>4. curr[g] \in No
      <4>1. muxer[g] = "add"
        BY <1>5 DEF AddSegment, At
      <4> QED
        BY <4>1, ConstantsAreNumbers DEF ControlOf, MuxerInv, ListType, No
    <3>5. Head(all) \in No
      <4>1. segments[g] \in Seq(No)
        BY DEF ListType
      <4>2. all \in Seq(No) /\ all # <<>>
        BY <3>1, <3>4, <4>1, AppendProperties
      <4> QED
        BY <4>2, HeadTailProperties
    <3>6. S \in SUBSET No
      BY <3>2, <3>5
    <3>7. IsFiniteSet(S)
      BY <3>2, FS_Singleton, FS_EmptySet
    <3> QED
      BY <2>1, <3>3, <3>6, <3>7, DeleteFilesKeepsTypes
  <2> QED
    BY <2>1, <2>2, <2>3, <2>4, <1>t DEF CloserType, closeVars
<1>6. CASE \E c \in Cell : SegmentOpen(g, c)
  <2>1. PICK c \in Cell : SegmentOpen(g, c)
    BY <1>6
  <2>2. UNCHANGED <<memory, segments, delayed, curr, out, closeVars>>
    BY <2>1 DEF SegmentOpen
  <2>3. sequenceNo[g] + 1 \in No
    BY <2>1, ConstantsAreNumbers DEF SegmentOpen, ListType, No
  <2>4. StoreType'
    BY <2>1, <2>2, <2>3, OpenFileKeepsTypes DEF SegmentOpen
  <2>5. MuxerType'
    BY <2>1 DEF SegmentOpen, At, MuxerType
  <2>6. ListType'
    BY <2>1, <2>3 DEF SegmentOpen, ListType, No
  <2> QED
    BY <2>2, <2>4, <2>5, <2>6, <1>t DEF CloserType, closeVars
<1>7. CASE SegmentOpenFails(g)
  <2>1. UNCHANGED <<memory, current, segments, storeVars, curr, out, closeVars>>
    BY <1>7 DEF SegmentOpenFails
  <2>2. sequenceNo[g] + 1 \in No
    BY <1>7, ConstantsAreNumbers DEF SegmentOpenFails, ListType, No
  <2>3. MuxerType' /\ ListType'
    BY <1>7, <2>2 DEF SegmentOpenFails, At, MuxerType, ListType, No
  <2> QED
    BY <2>1, <2>3, <1>t DEF StoreType, CloserType, storeVars, closeVars
<1> QED
  BY <1>1, <1>2, <1>3, <1>4, <1>5, <1>6, <1>7 DEF Muxing

\* The steps of Stream.close keep the types.
LEMMA ClosingKeepsTypes ==
    ASSUME TypeOK, NEW g \in Gen, NEW k \in Closer, ControlOf(g), Closing(g, k)
    PROVE  TypeOK'
<1>p. memory \in BOOLEAN /\ ListType /\ StoreType /\ MuxerType /\ CloserType /\ RequestType
  BY TypesInParts
<1>r. reader' = reader /\ client' = client
  BY DEF Closing, CloseBegins, CloseMuxer, CloseLoad, CloseTake, CloseDelete, CloseClear,
     ClosePlaylist
<1>t. memory' \in BOOLEAN /\ ListType' /\ StoreType' /\ MuxerType' /\ CloserType' => TypeOK'
  BY <1>p, <1>r DEF TypeOK, ListType, StoreType, MuxerType, CloserType, RequestType
<1> USE <1>p, ConstantsAreNumbers
<1>0. closer' \in [Gen -> [Closer -> {"no", "mux", "sg", "take", "delete", "clear",
                                      "list", "done"}]]
  <2>1. \E t \in {"mux", "sg", "take", "delete", "clear", "list", "done"} :
           closer' = [closer EXCEPT ![g][k] = t]
    BY DEF Closing, CloseBegins, CloseMuxer, CloseLoad, CloseTake, CloseDelete, CloseClear,
       ClosePlaylist, Closes
  <2> QED
    BY <2>1 DEF CloserType
<1>1. CASE CloseBegins(g, k) \/ CloseMuxer(g, k) \/ CloseLoad(g, k)
  <2>1. UNCHANGED <<memory, segVars, storeVars, muxVars>>
    BY <1>1 DEF CloseBegins, CloseMuxer, CloseLoad
  <2>2. muxClosed' \in [Gen -> BOOLEAN] /\ currOf' \in [Gen -> [Closer -> 0..MaxSeq]]
    <3>1. CASE CloseBegins(g, k)
      BY <3>1 DEF CloseBegins, CloserType
    <3>2. CASE CloseMuxer(g, k)
      BY <3>2 DEF CloseMuxer, CloserType
    <3>3. CASE CloseLoad(g, k)
      <4>1. current[g] \in 0..MaxSeq
        BY DEF ListType
      <4> QED
        BY <3>3, <4>1 DEF CloseLoad, CloserType
    <3> QED
      BY <1>1, <3>1, <3>2, <3>3
  <2> QED
    BY <1>0, <2>1, <2>2, <1>t DEF ListType, StoreType, MuxerType, CloserType, segVars, storeVars, muxVars
<1>2. CASE CloseTake(g, k)
  <2>1. UNCHANGED <<memory, sequenceNo, segments, disk, pool, data, delayed, muxVars,
                    muxClosed, currOf>>
    BY <1>2 DEF CloseTake
  <2>2. StoreType'
    BY <1>2, <2>1, CloseFileKeepsTypes DEF CloseTake
  <2>3. ListType'
    BY <1>2 DEF CloseTake, ListType
  <2> QED
    BY <1>0, <2>1, <2>2, <2>3, <1>t DEF MuxerType, CloserType, muxVars
<1>3. CASE CloseDelete(g, k)
  <2>1. UNCHANGED <<memory, segVars, file, writable, data, delayed, muxVars, muxClosed, currOf>>
    BY <1>3 DEF CloseDelete
  <2>2. pool' \in [Cell -> Nat]
    BY <1>3 DEF CloseDelete, StoreType
  <2>3. disk' \in [Path -> [No -> Cell \cup {None}]]
    BY <1>3, ConstantsAreNumbers DEF CloseDelete, StoreType
  <2> QED
    BY <1>0, <2>1, <2>2, <2>3, <1>t DEF ListType, StoreType, MuxerType, CloserType, segVars, muxVars
<1>4. CASE CloseClear(g, k)
  <2>1. UNCHANGED <<memory, segVars, writable, disk, pool, data, delayed, muxVars,
                    muxClosed, currOf>>
    BY <1>4 DEF CloseClear
  <2>2. file' \in [Gen -> [No -> Cell \cup {None}]]
    BY <1>4 DEF CloseClear, StoreType
  <2> QED
    BY <1>0, <2>1, <2>2, <1>t DEF ListType, StoreType, MuxerType, CloserType, segVars, muxVars
<1>5. CASE ClosePlaylist(g, k)
  <2>1. UNCHANGED <<memory, sequenceNo, current, writable, data, muxVars, muxClosed, currOf>>
    BY <1>5 DEF ClosePlaylist
  <2>2. StoreType'
    BY <1>5, <2>1, ListedAreNumbers, DeleteFilesKeepsTypes DEF ClosePlaylist
  <2>3. <<>> \in Seq(No) /\ Len(<<>>) = 0
    OBVIOUS
  <2>4. ListType'
    BY <1>5, <2>1, <2>3 DEF ClosePlaylist, ListType, hlsRemainSegments
  <2> QED
    BY <1>0, <2>1, <2>2, <2>4, <1>t DEF MuxerType, CloserType, muxVars
<1> QED
  BY <1>1, <1>2, <1>3, <1>4, <1>5 DEF Closing

\* A scheduled delete, requests for segments and for playlists change nothing
\* of a generator but its files.
OtherStep ==
    \/ \E g \in Gen : \/ \E n \in No : DelayedDelete(g, n)
                      \/ \E r \in Reader, n \in No : GetTS(r, g, n)
                      \/ \E q, b \in Client : M3u8(q, g, b)
    \/ \E r \in Reader : TSSent(r)
    \/ \E q \in Client : M3u8Sent(q)

\* What a request has is a segment that was listed, what a client has a list.
LEMMA RequestsKeepTypes ==
    ASSUME TypeOK, OtherStep, ~ \E g \in Gen, n \in No : DelayedDelete(g, n)
    PROVE  RequestType'
<1>p. RequestType /\ ListType /\ StoreType
  BY TypesInParts
<1>1. CASE \E r \in Reader, g \in Gen, n \in No : GetTS(r, g, n)
  <2>1. PICK r \in Reader, g \in Gen, n \in No : GetTS(r, g, n)
    BY <1>1
  <2>2. Bytes(g, n) \in Cell
    <3>1. PathOf[g] \in Path
      BY ConstantsAreNumbers
    <3> QED
      BY <1>p, <2>1, <3>1 DEF GetTS, Bytes, Name, StoreType
  <2>3. reader' = [reader EXCEPT ![r] = [gen |-> g, no |-> n, cell |-> Bytes(g, n)]]
        /\ client' = client
    BY <2>1 DEF GetTS
  <2> QED
    BY <1>p, <2>2, <2>3 DEF RequestType
<1>2. CASE \E r \in Reader : TSSent(r)
  BY <1>p, <1>2 DEF TSSent, RequestType
<1>3. CASE \E q, b \in Client, g \in Gen : M3u8(q, g, b)
  <2>1. PICK q \in Client, b \in Client, g \in Gen : M3u8(q, g, b)
    BY <1>3
  <2>2. PICK printed : printed = <<g, segments[g]>>
    OBVIOUS
  <2>3. printed \in Gen \X Seq(No)
    BY <1>p, <2>2 DEF ListType
  <2>4. /\ reader' = reader
        /\ client' = [x \in Client |->
              IF x = q THEN [buffer |-> b, playlist |-> printed, bytes |-> printed]
              ELSE IF client[x] # None /\ client[x].buffer = b
                     THEN [client[x] EXCEPT !.bytes = printed]
              ELSE client[x]]
    BY <2>1, <2>2 DEF M3u8
  <2>5. PICK Got : Got = [buffer : Client, playlist : Gen \X Seq(No), bytes : Gen \X Seq(No)]
    OBVIOUS
  <2>6. [buffer |-> b, playlist |-> printed, bytes |-> printed] \in Got
    BY <2>3, <2>5
  <2>7. \A c \in Got : [c EXCEPT !.bytes = printed] \in Got
    BY <2>3, <2>5
  <2>8. client \in [Client -> {None} \cup Got]
    BY <1>p, <2>5 DEF RequestType
  <2>9. client' \in [Client -> {None} \cup Got]
    BY <2>4, <2>6, <2>7, <2>8
  <2> QED
    BY <1>p, <2>4, <2>5, <2>9 DEF RequestType
<1>4. CASE \E q \in Client : M3u8Sent(q)
  BY <1>p, <1>4 DEF M3u8Sent, RequestType
<1> QED
  BY <1>1, <1>2, <1>3, <1>4 DEF OtherStep

\* They keep the types ...
LEMMA OtherStepsKeepTypes ==
    ASSUME TypeOK, OtherStep
    PROVE  TypeOK' /\ UNCHANGED <<memory, segVars, file, writable, pool, data, muxVars, closeVars>>
<1>p. memory \in BOOLEAN /\ ListType /\ StoreType /\ MuxerType /\ CloserType /\ RequestType
  BY TypesInParts
<1>1. CASE \E g \in Gen, n \in No : DelayedDelete(g, n)
  <2>1. PICK g \in Gen, n \in No : DelayedDelete(g, n)
    BY <1>1
  <2>2. UNCHANGED <<memory, segVars, file, writable, pool, data, muxVars, closeVars>>
    BY <2>1 DEF DelayedDelete
  <2>3. disk' \in [Path -> [No -> Cell \cup {None}]] /\ delayed' \in SUBSET Segment
    BY <1>p, <2>1, ConstantsAreNumbers DEF DelayedDelete, StoreType
  <2>4. reader' = reader /\ client' = client
    BY <2>1 DEF DelayedDelete
  <2> QED
    BY <1>p, <2>2, <2>3, <2>4 DEF TypeOK, ListType, StoreType, MuxerType, CloserType, RequestType,
       segVars, muxVars, closeVars
<1>2. CASE ~ \E g \in Gen, n \in No : DelayedDelete(g, n)
  <2>1. UNCHANGED <<memory, segVars, storeVars, muxVars, closeVars>>
    BY <1>2 DEF OtherStep, GetTS, M3u8, TSSent, M3u8Sent
  <2>2. RequestType'
    BY <1>p, <1>2, RequestsKeepTypes
  <2> QED
    BY <1>p, <2>1, <2>2 DEF TypeOK, RequestType, segVars, storeVars, muxVars, closeVars
<1> QED
  BY <1>1, <1>2

\* ... and the control.
LEMMA OtherStepsKeepControl ==
    ASSUME TypeOK, NEW g \in Gen, ControlOf(g), OtherStep
    PROVE  ControlOf(g)'
<1>1. SameControl(g)
  BY OtherStepsKeepTypes DEF SameControl, segVars, muxVars, closeVars
<1> QED
  BY <1>1, SameControlKeeps

\* A step is one of the muxer, of a closer, of a new stream or another one.
LEMMA StepsOfNext ==
    Next <=> \/ \E g \in Gen : Muxing(g)
             \/ \E g \in Gen, k \in Closer : Closing(g, k)
             \/ \E g \in Gen, c \in Cell : NewSegmentGenerator(g, c)
             \/ OtherStep
BY DEF Next, OtherStep

\* The step of a new stream keeps the types.
LEMMA NewKeepsTypes ==
    ASSUME TypeOK, NEW g \in Gen, NEW c \in Cell, NewSegmentGenerator(g, c)
    PROVE  TypeOK'
<1>p. memory \in BOOLEAN /\ ListType /\ StoreType /\ MuxerType /\ CloserType /\ RequestType
  BY TypesInParts
<1>r. reader' = reader /\ client' = client
  BY DEF NewSegmentGenerator
<1>1. UNCHANGED <<memory, segments, delayed, curr, out, closeVars>>
  BY DEF NewSegmentGenerator
<1>2. 1 \in No /\ 1 \in 0..MaxSeq
  BY ConstantsAreNumbers DEF No
<1>3. StoreType'
  BY <1>p, <1>1, <1>2, OpenFileKeepsTypes DEF NewSegmentGenerator
<1>4. MuxerType'
  BY <1>p DEF NewSegmentGenerator, At, MuxerType
<1>5. ListType'
  BY <1>p, <1>2 DEF NewSegmentGenerator, ListType
<1>6. CloserType'
  BY <1>p, <1>1 DEF CloserType, closeVars
<1> QED
  BY <1>p, <1>r, <1>1, <1>3, <1>4, <1>5, <1>6 DEF TypeOK, ListType, StoreType, MuxerType, CloserType, RequestType

\* The muxer of stream g keeps the control of every stream.
LEMMA MuxingKeepsControl ==
    ASSUME TypeOK, NEW g \in Gen, ControlInv, Muxing(g)
    PROVE  ControlInv'
<1>1. \A h \in Gen : ControlOf(h)
  BY DEF ControlInv, ControlOf
<1>2. ControlOf(g)'
  BY <1>1, MuxerMovesKeepControl, SegmentCloseKeepsControl, AddSegmentKeepsControl,
     SegmentOpenKeepsControl DEF Muxing
<1>3. \A h \in Gen : h # g => ControlOf(h)'
  BY <1>1, MuxingKeepsOthers, SameControlKeeps
<1> QED
  BY <1>2, <1>3 DEF ControlInv, ControlOf

\* So do its closers.
LEMMA ClosingKeepsControl ==
    ASSUME TypeOK, NEW g \in Gen, NEW k \in Closer, ControlInv, Closing(g, k)
    PROVE  ControlInv'
<1>1. \A h \in Gen : ControlOf(h)
  BY DEF ControlInv, ControlOf
<1>2. ControlOf(g)'
  BY <1>1, CloserMovesKeepControl, ClosePlaylistKeepsControl DEF Closing
<1>3. \A h \in Gen : h # g => ControlOf(h)'
  BY <1>1, ClosingKeepsOthers, SameControlKeeps
<1> QED
  BY <1>2, <1>3 DEF ControlInv, ControlOf

\* A new stream begins as it should.
LEMMA NewStreamKeepsControl ==
    ASSUME TypeOK, NEW g \in Gen, NEW c \in Cell, ControlInv, NewSegmentGenerator(g, c)
    PROVE  ControlInv'
<1>1. \A h \in Gen : ControlOf(h)
  BY DEF ControlInv, ControlOf
<1>2. ControlOf(g)'
  BY <1>1, NewKeepsControl
<1>3. \A h \in Gen : h # g => ControlOf(h)'
  BY <1>1, MuxingKeepsOthers, SameControlKeeps
<1> QED
  BY <1>2, <1>3 DEF ControlInv, ControlOf

\* Nothing is there at first.
LEMMA InitHasControl ==
    ASSUME Init
    PROVE  TypeOK /\ ControlInv
<1>1. TypeOK
  <2>1. <<>> \in Seq(No) /\ Len(<<>>) = 0 /\ 0 \in 0..MaxSeq
    BY ConstantsAreNumbers
  <2> QED
    BY <2>1 DEF Init, TypeOK, hlsRemainSegments
<1>2. ASSUME NEW g \in Gen
      PROVE  MuxerInv(g) /\ CloserInv(g) /\ ListInv(g)
  <2>1. Len(<<>>) = 0
    OBVIOUS
  <2> QED
    BY <2>1 DEF Init, MuxerInv, CloserInv, ListInv, InFlight
<1> QED
  BY <1>1, <1>2 DEF ControlInv

\* Every step keeps the types and the control.
LEMMA NextKeepsControl ==
    ASSUME TypeOK, ControlInv, [Next]_vars
    PROVE  TypeOK' /\ ControlInv'
<1>1. \A g \in Gen : ControlOf(g)
  BY DEF ControlInv, ControlOf
<1>2. CASE \E g \in Gen : Muxing(g)
  BY <1>1, <1>2, MuxingKeepsTypes, MuxingKeepsControl
<1>3. CASE \E g \in Gen, k \in Closer : Closing(g, k)
  BY <1>1, <1>3, ClosingKeepsTypes, ClosingKeepsControl
<1>4. CASE \E g \in Gen, c \in Cell : NewSegmentGenerator(g, c)
  BY <1>4, NewKeepsTypes, NewStreamKeepsControl
<1>5. CASE OtherStep
  <2>1. TypeOK'
    BY <1>5, OtherStepsKeepTypes
  <2>2. \A g \in Gen : ControlOf(g)'
    BY <1>1, <1>5, OtherStepsKeepControl
  <2> QED
    BY <2>1, <2>2 DEF ControlInv, ControlOf
<1>6. CASE UNCHANGED vars
  <2>1. TypeOK'
    BY <1>6 DEF vars, segVars, storeVars, muxVars, closeVars, TypeOK
  <2>2. \A g \in Gen : SameControl(g)
    BY <1>6 DEF vars, segVars, muxVars, closeVars, SameControl
  <2>3. \A g \in Gen : ControlOf(g)'
    BY <1>1, <2>2, SameControlKeeps
  <2> QED
    BY <2>1, <2>3 DEF ControlInv, ControlOf
<1> QED
  BY <1>2, <1>3, <1>4, <1>5, <1>6, StepsOfNext

\* The muxer's goroutine and those that close the stream agree on the numbers:
\* what the one has in hand when the other takes it away, and what it may
\* still list and open afterwards (segmentgenerator.go, stream.go close).
THEOREM ControlHolds == Spec => [](TypeOK /\ ControlInv)
<1>1. Init => TypeOK /\ ControlInv
  BY InitHasControl
<1>2. TypeOK /\ ControlInv /\ [Next]_vars => TypeOK' /\ ControlInv'
  BY NextKeepsControl
<1> QED
  BY <1>1, <1>2, PTL DEF Spec

\* The type invariant: the list of a playlist holds at most three numbers, and
\* no number is beyond the last segment, whichever goroutines run when.
THEOREM TypeCorrect == Spec => []TypeOK
BY ControlHolds, PTL

-----------------------------------------------------------------------------
(* The list that players see.                                              *)

\* A step changes the list of stream g by a segment or by a close.
LEMMA ListStep ==
    ASSUME TypeOK, ControlInv, [Next]_vars, NEW g \in Gen, segments'[g] # segments[g]
    PROVE  /\ Slides(segments[g], segments'[g])
           /\ segments'[g] = <<>> => \E k \in Closer : closer'[g][k] = "done"
<1>1. ControlOf(g)
  BY DEF ControlInv, ControlOf
<1>2. CASE Muxing(g)
  <2>1. CASE AddSegment(g)
    BY <1>1, <2>1, AddSegmentSlides
  <2>2. CASE ~AddSegment(g)
    BY <1>2, <2>2 DEF Muxing, TakeFrame, MuxerEnds, ReapNil, ReapLoad, SegmentClose,
       SegmentOpen, SegmentOpenFails, FlushLoad, FlushPanics, FlushWrite, segVars
  <2> QED
    BY <2>1, <2>2
<1>3. CASE \E k \in Closer : Closing(g, k)
  <2>1. PICK k \in Closer : Closing(g, k)
    BY <1>3
  <2>2. CASE ClosePlaylist(g, k)
    BY <2>2, ClosePlaylistEmpties DEF Slides
  <2>3. CASE ~ClosePlaylist(g, k)
    BY <2>1, <2>3 DEF Closing, CloseBegins, CloseMuxer, CloseLoad, CloseTake, CloseDelete,
       CloseClear, segVars
  <2> QED
    BY <2>2, <2>3
<1>4. CASE \E c \in Cell : NewSegmentGenerator(g, c)
  BY <1>4 DEF NewSegmentGenerator
<1>5. CASE OtherStep \/ UNCHANGED vars
  BY <1>5, OtherStepsKeepTypes DEF vars, segVars
<1>6. CASE \E h \in Gen : h # g /\ (Muxing(h) \/ \E c \in Cell : NewSegmentGenerator(h, c))
  BY <1>6, MuxingKeepsOthers DEF SameControl
<1>7. CASE \E h \in Gen, k \in Closer : h # g /\ Closing(h, k)
  BY <1>7, ClosingKeepsOthers DEF SameControl
<1> QED
  BY <1>2, <1>3, <1>4, <1>5, <1>6, <1>7, StepsOfNext

\* A playlist goes on with the next number at the end and the oldest gone when
\* there were three, or is emptied by a close: the numbers that players count
\* (EXT-X-MEDIA-SEQUENCE, playlist.go) never jump, whatever the muxer's
\* goroutine still adds while the stream is closed.
THEOREM PlaylistSlides == Spec => WindowSlides
<1>1. TypeOK /\ ControlInv /\ [Next]_vars
         => [\A g \in Gen : segments'[g] # segments[g] =>
                /\ Slides(segments[g], segments'[g])
                /\ segments'[g] = <<>> => \E k \in Closer : closer'[g][k] = "done"]_vars
  BY ListStep
<1> QED
  BY <1>1, ControlHolds, PTL DEF Spec, WindowSlides

-----------------------------------------------------------------------------
(* Every buffer has one owner.                                             *)

\* No step gets rid of a second close.
LEMMA ClosedOnceWas ==
    ASSUME TypeOK, Next, ClosedOnce'
    PROVE  ClosedOnce
<1>1. ASSUME NEW g \in Gen, NEW k \in Closer, closer'[g][k] = "no"
      PROVE  closer[g][k] = "no"
  <2>1. CASE \E h \in Gen, l \in Closer : Closing(h, l)
    <3>1. PICK h \in Gen, l \in Closer : Closing(h, l)
      BY <2>1
    <3>2. CASE h = g /\ l = k
      BY <1>1, <3>1, <3>2 DEF Closing, CloseBegins, CloseMuxer, CloseLoad, CloseTake,
         CloseDelete, CloseClear, ClosePlaylist, Closes, TypeOK
    <3>3. CASE h = g /\ l # k
      BY <1>1, <3>1, <3>3 DEF Closing, CloseBegins, CloseMuxer, CloseLoad, CloseTake,
         CloseDelete, CloseClear, ClosePlaylist, Closes, TypeOK
    <3>4. CASE h # g
      BY <1>1, <3>1, <3>4, ClosingKeepsOthers DEF SameControl
    <3> QED
      BY <3>2, <3>3, <3>4
  <2>2. CASE \E h \in Gen : Muxing(h) \/ \E c \in Cell : NewSegmentGenerator(h, c)
    <3>1. UNCHANGED closeVars
      BY <2>2 DEF Muxing, NewSegmentGenerator, TakeFrame, MuxerEnds, ReapNil, ReapLoad,
         SegmentClose, AddSegment, SegmentOpen, SegmentOpenFails, FlushLoad, FlushPanics,
         FlushWrite
    <3> QED
      BY <1>1, <3>1 DEF closeVars
  <2>3. CASE OtherStep
    BY <1>1, <2>3, OtherStepsKeepTypes DEF closeVars
  <2> QED
    BY <2>1, <2>2, <2>3, StepsOfNext
<1> QED
  BY <1>1 DEF ClosedOnce, ClosedTwice

\* Nobody comes to own a buffer and none is given back.
LEMMA OwnersShrink ==
    ASSUME OwnersAreOne, pool' = pool,
           \A x \in Segment, c \in Cell : Owns(x, c)' => Owns(x, c)
    PROVE  OwnersAreOne'
BY DEF OwnersAreOne

\* The segments of T give their buffers back and have them no more.
LEMMA OwnersGiveBack ==
    ASSUME TypeOK, OwnersAreOne, NEW T \in SUBSET Segment,
           \A x \in Segment, c \in Cell : Owns(x, c)' => Owns(x, c) /\ x \notin T,
           \A c \in Cell : \/ pool'[c] = pool[c]
                           \/ pool'[c] = pool[c] + 1 /\ \E x \in T : Owns(x, c)
    PROVE  OwnersAreOne'
<1> SUFFICES ASSUME NEW c \in Cell
             PROVE  /\ pool'[c] =< 1
                    /\ pool'[c] = 1 => \A x \in Segment : ~Owns(x, c)'
                    /\ \A x, y \in Segment : Owns(x, c)' /\ Owns(y, c)' => x = y
  BY DEF OwnersAreOne
<1>1. /\ pool[c] =< 1
      /\ pool[c] = 1 => \A x \in Segment : ~Owns(x, c)
      /\ \A x, y \in Segment : Owns(x, c) /\ Owns(y, c) => x = y
  BY DEF OwnersAreOne
<1>2. \A x \in Segment : Owns(x, c)' => Owns(x, c) /\ x \notin T
  OBVIOUS
<1>3. \A x, y \in Segment : Owns(x, c)' /\ Owns(y, c)' => x = y
  BY <1>1, <1>2
<1>4. CASE pool'[c] = pool[c]
  BY <1>1, <1>2, <1>3, <1>4
<1>5. CASE pool'[c] = pool[c] + 1 /\ \E x \in T : Owns(x, c)
  <2>1. PICK x \in T : Owns(x, c)
    BY <1>5
  <2>2. pool[c] = 0
    <3>1. pool[c] # 1
      BY <1>1, <2>1
    <3>2. pool[c] \in Nat
      BY DEF TypeOK
    <3> QED
      BY <1>1, <3>1, <3>2
  <2>3. pool'[c] = 1
    BY <1>5, <2>2
  <2>4. \A y \in Segment : ~Owns(y, c)'
    BY <1>1, <1>2, <2>1
  <2> QED
    BY <1>3, <2>3, <2>4
<1> QED
  BY <1>4, <1>5

\* open takes a buffer that nobody owns, out of the pool or new.
LEMMA OpenFileOwns ==
    ASSUME TypeOK, memory, OwnersAreOne, NEW g \in Gen, NEW n \in No, NEW c \in Cell,
           OpenFile(g, n, c), UNCHANGED <<closer, currOf>>
    PROVE  OwnersAreOne'
<1>1. \A x \in Segment : ~Owns(x, c)
  <2>1. CASE pool[c] > 0
    BY <2>1 DEF OwnersAreOne, TypeOK
  <2>2. CASE New(c)
    BY <2>2 DEF New, Unused, Owns, Segment
  <2> QED
    BY <2>1, <2>2 DEF OpenFile, Opens
<1>2. pool'[c] = 0 /\ \A d \in Cell \ {c} : pool'[d] = pool[d]
  <2>1. pool[c] = 0 \/ pool[c] = 1
    BY DEF OwnersAreOne, TypeOK
  <2> QED
    BY <2>1 DEF OpenFile, TypeOK
<1>3. \A x \in Segment : x # <<g, n>> => file'[x[1]][x[2]] = file[x[1]][x[2]]
  BY DEF OpenFile, TypeOK, Segment
<1>4. file'[g][n] = c
  BY DEF OpenFile, TypeOK
<1>5. \A h, m : GivenBack(h, m)' <=> GivenBack(h, m)
  BY DEF GivenBack
<1>6. \A x \in Segment, d \in Cell : Owns(x, d)' => Owns(x, d) \/ (x = <<g, n>> /\ d = c)
  BY <1>3, <1>4, <1>5 DEF Owns
<1> SUFFICES ASSUME NEW d \in Cell
             PROVE  /\ pool'[d] =< 1
                    /\ pool'[d] = 1 => \A x \in Segment : ~Owns(x, d)'
                    /\ \A x, y \in Segment : Owns(x, d)' /\ Owns(y, d)' => x = y
  BY DEF OwnersAreOne
<1>7. CASE d = c
  <2>1. \A x \in Segment : Owns(x, c)' => x = <<g, n>>
    BY <1>1, <1>6
  <2> QED
    BY <1>2, <1>7, <2>1
<1>8. CASE d # c
  <2>1. \A x \in Segment : Owns(x, d)' => Owns(x, d)
    BY <1>6, <1>8
  <2>2. pool'[d] = pool[d]
    BY <1>2, <1>8
  <2> QED
    BY <2>1, <2>2 DEF OwnersAreOne
<1> QED
  BY <1>7, <1>8

\* clearSegments gives back what the segments own: none of them was given back
\* before.
LEMMA DeleteFilesGivesBack ==
    ASSUME TypeOK, memory, OwnersAreOne, NEW g \in Gen, NEW S \in SUBSET No, IsFiniteSet(S),
           DeleteFiles(g, S),
           \A n \in S : ~GivenBack(g, n),
           \A h \in Gen, n \in No : GivenBack(h, n) => GivenBack(h, n)'
    PROVE  OwnersAreOne'
<1>1. PICK T : T = {<<g, n>> : n \in S}
  OBVIOUS
<1>2. T \in SUBSET Segment
  BY <1>1 DEF Segment
<1>3. /\ pool' = [c \in Cell |-> pool[c] + Cardinality({n \in S : file[g][n] = c})]
      /\ file' = [file EXCEPT ![g] = [n \in No |-> IF n \in S THEN None ELSE @[n]]]
  BY DEF DeleteFiles
<1>4. ASSUME NEW x \in Segment, NEW c \in Cell, Owns(x, c)'
      PROVE  Owns(x, c) /\ x \notin T
  <2>1. x[1] \in Gen /\ x[2] \in No /\ x = <<x[1], x[2]>>
    BY DEF Segment
  <2>2. file'[x[1]][x[2]] = IF x[1] = g /\ x[2] \in S THEN None ELSE file[x[1]][x[2]]
    BY <1>3, <2>1 DEF TypeOK
  <2>3. file'[x[1]][x[2]] = c /\ ~GivenBack(x[1], x[2])'
    BY <1>4 DEF Owns
  <2>4. c # None
    BY ConstantsAreNumbers
  <2>5. ~(x[1] = g /\ x[2] \in S) /\ file[x[1]][x[2]] = c
    BY <2>2, <2>3, <2>4
  <2>6. x \notin T
    BY <1>1, <2>5
  <2> QED
    BY <2>1, <2>3, <2>5, <2>6 DEF Owns
<1>5. ASSUME NEW c \in Cell
      PROVE  \/ pool'[c] = pool[c]
             \/ pool'[c] = pool[c] + 1 /\ \E x \in T : Owns(x, c)
  <2>1. PICK D : D = {n \in S : file[g][n] = c}
    OBVIOUS
  <2>2. pool'[c] = pool[c] + Cardinality(D)
    BY <1>3, <2>1
  <2>3. CASE D = {}
    <3>1. Cardinality(D) = 0
      BY <2>3, FS_EmptySet
    <3>2. pool[c] \in Nat
      BY DEF TypeOK
    <3> QED
      BY <2>2, <3>1, <3>2
  <2>4. CASE D # {}
    <3>1. PICK n \in D : TRUE
      BY <2>4
    <3>2. \A m \in D : m \in No /\ Owns(<<g, m>>, c) /\ <<g, m>> \in T /\ <<g, m>> \in Segment
      BY <1>1, <2>1 DEF Owns, Segment
    <3>3. \A m \in D : m = n
      BY <3>1, <3>2 DEF OwnersAreOne
    <3>4. D = {n}
      BY <3>1, <3>3
    <3>5. Cardinality(D) = 1
      BY <3>4, FS_Singleton
    <3> QED
      BY <2>2, <3>1, <3>2, <3>5
  <2> QED
    BY <2>3, <2>4
<1> QED
  BY <1>2, <1>4, <1>5, OwnersGiveBack

\* A list that is full begins before the segment that is added to it.
LEMMA OldestIsPast ==
    ASSUME TypeOK, NEW g \in Gen, ControlOf(g), muxer[g] = "add",
           Len(Append(segments[g], curr[g])) > hlsRemainSegments
    PROVE  /\ Head(Append(segments[g], curr[g])) = segments[g][1]
           /\ segments[g][1] \in No /\ segments[g][1] < sequenceNo[g]
           /\ sequenceNo[g] = segments[g][1] + hlsRemainSegments
           /\ Len(segments[g]) = hlsRemainSegments
<1>s. PICK s : s = segments[g]
  OBVIOUS
<1>1. s \in Seq(No) /\ Len(s) =< 3 /\ curr[g] = sequenceNo[g] /\ curr[g] \in No
  BY <1>s, ConstantsAreNumbers DEF TypeOK, hlsRemainSegments, ControlOf, MuxerInv, No
<1>a. PICK all : all = Append(s, curr[g])
  OBVIOUS
<1>2. /\ all \in Seq(No) /\ Len(all) = Len(s) + 1 /\ all # <<>>
      /\ \A i \in 1..Len(s) : all[i] = s[i]
  BY <1>1, <1>a, AppendProperties
<1>3. Len(s) = 3
  <2>1. PICK m \in Nat : m = Len(s)
    BY <1>1
  <2>2. m =< 3 /\ m + 1 > 3
    BY <1>1, <1>2, <1>a, <1>s, <2>1 DEF hlsRemainSegments
  <2>3. m = 3
    BY <2>2
  <2> QED
    BY <2>1, <2>3
<1>4. Head(all) = s[1] /\ s[1] \in No /\ s[2] \in No /\ s[3] \in No
  <2>0. 1 \in 1..Len(s) /\ 2 \in 1..Len(s) /\ 3 \in 1..Len(s)
    BY <1>3
  <2>a. \A i \in 1..Len(s) : s[i] \in No
    BY <1>1
  <2>1. s[1] \in No /\ s[2] \in No /\ s[3] \in No /\ all[1] = s[1]
    BY <1>2, <2>0, <2>a
  <2>2. Head(all) = all[1]
    BY <1>2
  <2> QED
    BY <2>1, <2>2
<1>5. /\ \A i \in 1..2 : s[i + 1] = s[i] + 1
      /\ s[3] = sequenceNo[g] - 1
  BY <1>1, <1>3, <1>s DEF ControlOf, ListInv, Last, InFlight
<1>6. s[1 + 1] = s[1] + 1 /\ s[2 + 1] = s[2] + 1
  BY <1>5
<1>7. s[1] < sequenceNo[g] /\ sequenceNo[g] = s[1] + 3
  <2>1. s[2] = s[1] + 1 /\ s[3] = s[2] + 1
    BY <1>6
  <2>2. sequenceNo[g] \in Int
    BY DEF TypeOK
  <2> QED
    BY <1>4, <1>5, <2>1, <2>2 DEF No
<1> QED
  BY <1>3, <1>4, <1>7, <1>a, <1>s DEF hlsRemainSegments

\* The muxer and a new stream: a file is opened, or the oldest segment goes.
LEMMA MuxingKeepsOwners ==
    ASSUME TypeOK, memory, OwnersAreOne, NEW g \in Gen, ControlOf(g),
           Muxing(g) \/ \E c \in Cell : NewSegmentGenerator(g, c)
    PROVE  OwnersAreOne'
<1>1. UNCHANGED <<closer, currOf>>
  BY DEF Muxing, NewSegmentGenerator, TakeFrame, MuxerEnds, ReapNil, ReapLoad, SegmentClose,
     AddSegment, SegmentOpen, SegmentOpenFails, FlushLoad, FlushPanics, FlushWrite, closeVars
<1>2. \A h, m : GivenBack(h, m)' <=> GivenBack(h, m)
  BY <1>1 DEF GivenBack
<1>3. CASE AddSegment(g)
  <2>1. PICK all : all = Append(segments[g], curr[g])
    OBVIOUS
  <2>2. PICK S : S = IF Len(all) > hlsRemainSegments THEN {Head(all)} ELSE {}
    OBVIOUS
  <2>3. DeleteFiles(g, S) /\ muxer[g] = "add"
    BY <1>3, <2>1, <2>2 DEF AddSegment, At
  <2>4. \A n \in S : n \in No /\ n # sequenceNo[g]
    <3>1. sequenceNo[g] \in Nat
      BY DEF TypeOK
    <3>2. \A n \in S : n = segments[g][1] /\ n \in No /\ n < sequenceNo[g]
      BY <2>1, <2>2, <2>3, OldestIsPast
    <3> QED
      BY <3>1, <3>2 DEF No
  <2>5. S \in SUBSET No /\ IsFiniteSet(S)
    BY <2>2, <2>4, FS_Singleton, FS_EmptySet
  <2>6. \A n \in S : ~GivenBack(g, n)
    BY <2>3, <2>4 DEF GivenBack, ControlOf, CloserInv, InFlight
  <2> QED
    BY <1>2, <2>3, <2>5, <2>6, DeleteFilesGivesBack
<1>4. CASE \E c \in Cell : SegmentOpen(g, c)
  <2>1. PICK c \in Cell : SegmentOpen(g, c)
    BY <1>4
  <2>2. sequenceNo[g] + 1 \in No
    BY <2>1, ConstantsAreNumbers DEF SegmentOpen, TypeOK, No
  <2>3. OpenFile(g, sequenceNo[g] + 1, c)
    BY <2>1 DEF SegmentOpen
  <2> QED
    BY <1>1, <2>2, <2>3, OpenFileOwns
<1>5. CASE \E c \in Cell : NewSegmentGenerator(g, c)
  <2>1. PICK c \in Cell : NewSegmentGenerator(g, c)
    BY <1>5
  <2>2. 1 \in No /\ OpenFile(g, 1, c)
    BY <2>1, ConstantsAreNumbers DEF NewSegmentGenerator, No
  <2> QED
    BY <1>1, <2>2, OpenFileOwns
<1>6. CASE /\ ~AddSegment(g) /\ ~ \E c \in Cell : SegmentOpen(g, c)
           /\ ~ \E c \in Cell : NewSegmentGenerator(g, c)
  <2>1. UNCHANGED <<pool, file>>
    BY <1>6 DEF Muxing, TakeFrame, MuxerEnds, ReapNil, ReapLoad, SegmentClose, CloseFile,
       SegmentOpenFails, FlushLoad, FlushPanics, FlushWrite, storeVars
  <2>2. \A x, c : Owns(x, c)' <=> Owns(x, c)
    BY <1>2, <2>1 DEF Owns
  <2> QED
    BY <2>1, <2>2, OwnersShrink
<1> QED
  BY <1>3, <1>4, <1>5, <1>6

\* A close of one goroutine: the segment that segmentClose may have in hand as
\* well, and the list.
LEMMA ClosingKeepsOwners ==
    ASSUME TypeOK, memory, OwnersAreOne, ClosedOnce', NEW g \in Gen, NEW k \in Closer,
           ControlOf(g), Closing(g, k)
    PROVE  OwnersAreOne'
<1>0. /\ \E t \in {"mux", "sg", "take", "delete", "clear", "list", "done"} :
            closer' = [closer EXCEPT ![g][k] = t] /\ (t = "clear" => CloseDelete(g, k))
      /\ \E m : currOf' = currOf \/ currOf' = [currOf EXCEPT ![g][k] = m]
  <2>1. CASE CloseBegins(g, k) \/ CloseMuxer(g, k)
    BY <2>1 DEF CloseBegins, CloseMuxer, Closes
  <2>2. CASE CloseLoad(g, k)
    BY <2>2 DEF CloseLoad, Closes
  <2>3. CASE CloseTake(g, k) \/ CloseDelete(g, k)
    BY <2>3 DEF CloseTake, CloseDelete, Closes
  <2>4. CASE CloseClear(g, k) \/ ClosePlaylist(g, k)
    BY <2>4 DEF CloseClear, ClosePlaylist, Closes
  <2> QED
    BY <2>1, <2>2, <2>3, <2>4 DEF Closing
<1>1. \A h \in Gen, l \in Closer : h # g \/ l # k =>
          closer'[h][l] = closer[h][l] /\ currOf'[h][l] = currOf[h][l]
  BY <1>0 DEF TypeOK
<1>2. closer'[g][k] # "no" /\ (closer'[g][k] = "clear" => CloseDelete(g, k))
  BY <1>0 DEF TypeOK
<1>3. \A l \in Closer \ {k} : closer[g][l] = "no"
  BY <1>1, <1>2 DEF ClosedOnce, ClosedTwice
<1>4. CASE CloseDelete(g, k)
  <2>1. PICK n : n = currOf[g][k]
    OBVIOUS
  <2>2. /\ closer[g][k] = "delete"
        /\ closer'[g][k] = IF file[g][n] # None THEN "clear" ELSE "list"
        /\ currOf' = currOf /\ file' = file
        /\ \A c \in Cell : pool'[c] = IF c = file[g][n] THEN pool[c] + 1 ELSE pool[c]
    BY <1>4, <2>1 DEF CloseDelete, Closes, TypeOK
  <2>3. \A m : ~GivenBack(g, m)
    BY <1>3, <2>2 DEF GivenBack
  <2>4. \A h \in Gen, m \in No : GivenBack(h, m) => GivenBack(h, m)'
    <3>1. \A h \in Gen \ {g}, m \in No : GivenBack(h, m) => GivenBack(h, m)'
      BY <1>1 DEF GivenBack
    <3> QED
      BY <2>3, <3>1
  <2>5. PICK T : T = {x \in Segment : x = <<g, n>> /\ file[g][n] # None}
    OBVIOUS
  <2>6. ASSUME NEW x \in Segment, NEW c \in Cell, Owns(x, c)'
        PROVE  Owns(x, c) /\ x \notin T
    <3>1. x[1] \in Gen /\ x[2] \in No
      BY DEF Segment
    <3>2. Owns(x, c)
      BY <2>2, <2>4, <2>6, <3>1 DEF Owns
    <3>3. x # <<g, n>> \/ file[g][n] = None
      <4>1. CASE x = <<g, n>> /\ file[g][n] # None
        <5>1. GivenBack(g, n)'
          BY <2>1, <2>2, <4>1 DEF GivenBack
        <5> QED
          BY <2>6, <4>1, <5>1 DEF Owns
      <4> QED
        BY <4>1
    <3> QED
      BY <2>5, <3>2, <3>3
  <2>7. ASSUME NEW c \in Cell
        PROVE  \/ pool'[c] = pool[c]
               \/ pool'[c] = pool[c] + 1 /\ \E x \in T : Owns(x, c)
    <3>1. CASE c = file[g][n]
      <4>1. c # None
        BY ConstantsAreNumbers
      <4>2. n \in No
        BY <2>1, <2>2 DEF ControlOf, CloserInv
      <4>3. <<g, n>> \in T
        BY <2>5, <3>1, <4>1, <4>2 DEF Segment
      <4>4. Owns(<<g, n>>, c)
        BY <2>3, <3>1 DEF Owns
      <4> QED
        BY <2>2, <3>1, <4>3, <4>4
    <3>2. CASE c # file[g][n]
      BY <2>2, <3>2
    <3> QED
      BY <3>1, <3>2
  <2>8. T \in SUBSET Segment
    BY <2>5
  <2> QED
    BY <2>6, <2>7, <2>8, OwnersGiveBack
<1>5. CASE ClosePlaylist(g, k)
  <2>1. closer[g][k] = "list" /\ closer'[g][k] = "done" /\ currOf' = currOf
    BY <1>5, ClosePlaylistEmpties
  <2>2. \A m : ~GivenBack(g, m)
    BY <1>3, <2>1 DEF GivenBack
  <2>3. \A h \in Gen, m \in No : GivenBack(h, m) => GivenBack(h, m)'
    <3>1. \A h \in Gen \ {g}, m \in No : GivenBack(h, m) => GivenBack(h, m)'
      BY <1>1 DEF GivenBack
    <3> QED
      BY <2>2, <3>1
  <2>4. DeleteFiles(g, Listed(g))
    BY <1>5 DEF ClosePlaylist
  <2>5. Listed(g) \in SUBSET No /\ IsFiniteSet(Listed(g))
    BY TypesInParts, ListedAreNumbers
  <2> QED
    BY <2>2, <2>3, <2>4, <2>5, DeleteFilesGivesBack
<1>6. CASE CloseClear(g, k)
  <2>1. /\ pool' = pool /\ file' = [file EXCEPT ![g][currOf[g][k]] = None]
        /\ currOf' = currOf /\ closer'[g][k] = "list"
    BY <1>6 DEF CloseClear, Closes, TypeOK
  <2>2. ASSUME NEW x \in Segment, NEW c \in Cell, Owns(x, c)'
        PROVE  Owns(x, c)
    <3>1. x[1] \in Gen /\ x[2] \in No /\ c # None
      BY ConstantsAreNumbers DEF Segment
    <3>2. ~(x[1] = g /\ x[2] = currOf[g][k]) /\ file[x[1]][x[2]] = c
      BY <2>1, <2>2, <3>1 DEF Owns, TypeOK
    <3>3. GivenBack(x[1], x[2]) => GivenBack(x[1], x[2])'
      BY <1>1, <2>1, <3>1, <3>2 DEF GivenBack
    <3> QED
      BY <2>2, <3>2, <3>3 DEF Owns
  <2> QED
    BY <2>1, <2>2, OwnersShrink
<1>7. CASE CloseBegins(g, k) \/ CloseMuxer(g, k) \/ CloseLoad(g, k) \/ CloseTake(g, k)
  <2>1. UNCHANGED <<pool, file>> /\ closer[g][k] # "clear"
    BY <1>7 DEF CloseBegins, CloseMuxer, CloseLoad, CloseTake, CloseFile, Closes, storeVars
  <2>2. \A h \in Gen, m \in No : GivenBack(h, m) => GivenBack(h, m)'
    BY <1>1, <2>1 DEF GivenBack
  <2>3. ASSUME NEW x \in Segment, NEW c \in Cell, Owns(x, c)'
        PROVE  Owns(x, c)
    <3>1. x[1] \in Gen /\ x[2] \in No
      BY DEF Segment
    <3> QED
      BY <2>1, <2>2, <2>3, <3>1 DEF Owns
  <2> QED
    BY <2>1, <2>3, OwnersShrink
<1> QED
  BY <1>4, <1>5, <1>6, <1>7 DEF Closing

\* Every step keeps the owners.
LEMMA NextKeepsOwners ==
    ASSUME TypeOK, ControlInv, OwnerInv, [Next]_vars
    PROVE  OwnerInv'
<1>1. memory' = memory
  BY StepsOfNext, OtherStepsKeepTypes DEF Muxing, NewSegmentGenerator, TakeFrame, MuxerEnds,
     ReapNil, ReapLoad, SegmentClose, AddSegment, SegmentOpen, SegmentOpenFails, FlushLoad,
     FlushPanics, FlushWrite, Closing, CloseBegins, CloseMuxer, CloseLoad, CloseTake,
     CloseDelete, CloseClear, ClosePlaylist, vars
<1>2. CASE UNCHANGED vars
  <2>1. UNCHANGED <<memory, pool, file, closer, currOf>>
    BY <1>2 DEF vars, storeVars, closeVars
  <2>2. OwnersAreOne' <=> OwnersAreOne
    BY <2>1 DEF OwnersAreOne, Owns, GivenBack
  <2>3. ClosedOnce' <=> ClosedOnce
    BY <2>1 DEF ClosedOnce, ClosedTwice
  <2> QED
    BY <2>1, <2>2, <2>3 DEF OwnerInv
<1>3. CASE Next /\ memory /\ ClosedOnce'
  <2>1. OwnersAreOne
    BY <1>3, ClosedOnceWas DEF OwnerInv
  <2>2. \A g \in Gen : ControlOf(g)
    BY DEF ControlInv, ControlOf
  <2>3. CASE \E g \in Gen : Muxing(g) \/ \E c \in Cell : NewSegmentGenerator(g, c)
    BY <1>3, <2>1, <2>2, <2>3, MuxingKeepsOwners DEF OwnerInv
  <2>4. CASE \E g \in Gen, k \in Closer : Closing(g, k)
    BY <1>3, <2>1, <2>2, <2>4, ClosingKeepsOwners DEF OwnerInv
  <2>5. CASE OtherStep
    <3>1. UNCHANGED <<pool, file, closer, currOf>>
      BY <2>5, OtherStepsKeepTypes DEF closeVars
    <3>2. \A x, c : Owns(x, c)' <=> Owns(x, c)
      BY <3>1 DEF Owns, GivenBack
    <3> QED
      BY <2>1, <3>1, <3>2, OwnersShrink DEF OwnerInv
  <2> QED
    BY <1>3, <2>3, <2>4, <2>5, StepsOfNext
<1>4. CASE ~(memory /\ ClosedOnce')
  BY <1>1, <1>4 DEF OwnerInv
<1> QED
  BY <1>2, <1>3, <1>4

\* At first there is no buffer.
LEMMA InitHasOwners ==
    ASSUME Init
    PROVE  OwnerInv
<1>1. ASSUME NEW c \in Cell
      PROVE  pool[c] = 0 /\ \A x \in Segment : ~Owns(x, c)
  BY <1>1, ConstantsAreNumbers DEF Init, Owns, Segment
<1> QED
  BY <1>1 DEF OwnerInv, OwnersAreOne

\* A buffer of one owner at most is one owner or one place in the pool.
LEMMA OwnersAreCounted ==
    ASSUME TypeOK, OwnerInv
    PROVE  OneOwner
<1> SUFFICES ASSUME memory, ClosedOnce, NEW c \in Cell
             PROVE  pool[c] + Cardinality({x \in Segment :
                        file[x[1]][x[2]] = c /\ ~GivenBack(x[1], x[2])}) =< 1
  BY DEF OneOwner
<1>1. PICK D : D = {x \in Segment : file[x[1]][x[2]] = c /\ ~GivenBack(x[1], x[2])}
  OBVIOUS
<1>2. /\ pool[c] = 0 \/ pool[c] = 1
      /\ pool[c] = 1 => \A x \in Segment : ~Owns(x, c)
      /\ \A x, y \in Segment : Owns(x, c) /\ Owns(y, c) => x = y
  BY DEF OwnerInv, OwnersAreOne, TypeOK
<1>3. \A x \in D : x \in Segment /\ Owns(x, c)
  BY <1>1 DEF Owns
<1>4. CASE D = {}
  <2>1. Cardinality(D) = 0
    BY <1>4, FS_EmptySet
  <2> QED
    BY <1>1, <1>2, <2>1
<1>5. CASE D # {}
  <2>1. PICK x \in D : TRUE
    BY <1>5
  <2>2. D = {x}
    BY <1>2, <1>3, <2>1
  <2>3. Cardinality(D) = 1
    BY <2>2, FS_Singleton
  <2>4. pool[c] = 0
    BY <1>2, <1>3, <2>1
  <2> QED
    BY <1>1, <2>3, <2>4
<1> QED
  BY <1>4, <1>5

\* A buffer belongs to one segment or lies in the pool once, for any number of
\* streams: the oldest segment that addSegment drops is never the one that
\* SegmentGenerator.Close has in hand, and a file that both would delete is
\* deleted by one (segmentfile.go delete, playlist.go clearSegments).
THEOREM BuffersHaveOneOwner == Spec => []OneOwner
<1>1. Init => TypeOK /\ ControlInv /\ OwnerInv
  BY InitHasControl, InitHasOwners
<1>2. TypeOK /\ ControlInv /\ OwnerInv /\ [Next]_vars => (TypeOK /\ ControlInv /\ OwnerInv)'
  BY NextKeepsControl, NextKeepsOwners
<1>3. TypeOK /\ OwnerInv => OneOwner
  BY OwnersAreCounted
<1> QED
  BY <1>1, <1>2, <1>3, PTL DEF Spec

-----------------------------------------------------------------------------
(* The bytes of segments.                                                  *)

\* After a close and its last frame a stream has nothing more to write.
LEMMA FinishedStays ==
    ASSUME TypeOK, Next, NEW g \in Gen,
           muxClosed[g], muxer[g] \in {"idle", "ended"}, Returned(g)
    PROVE  /\ muxClosed'[g] /\ muxer'[g] \in {"idle", "ended"} /\ Returned(g)'
           /\ sequenceNo'[g] = sequenceNo[g]
<1>1. CASE SameControl(g)
  BY <1>1 DEF SameControl, Returned
<1>2. CASE Muxing(g) \/ \E c \in Cell : NewSegmentGenerator(g, c)
  <2>1. MuxerEnds(g)
    BY <1>2 DEF Muxing, NewSegmentGenerator, TakeFrame, ReapNil, ReapLoad, SegmentClose,
       AddSegment, SegmentOpen, SegmentOpenFails, FlushLoad, FlushPanics, FlushWrite, At
  <2> QED
    BY <2>1 DEF MuxerEnds, At, segVars, closeVars, TypeOK, Returned
<1>3. CASE \E k \in Closer : Closing(g, k)
  <2>1. PICK k \in Closer : Closing(g, k)
    BY <1>3
  <2>2. UNCHANGED <<sequenceNo, muxer>> /\ muxClosed'[g]
    <3>1. CASE CloseBegins(g, k) \/ CloseMuxer(g, k) \/ CloseLoad(g, k)
      BY <3>1 DEF CloseBegins, CloseMuxer, CloseLoad, segVars, muxVars, TypeOK
    <3>2. CASE ~(CloseBegins(g, k) \/ CloseMuxer(g, k) \/ CloseLoad(g, k))
      BY <2>1, <3>2 DEF Closing, CloseTake, CloseDelete, CloseClear, ClosePlaylist, segVars, muxVars
    <3> QED
      BY <3>1, <3>2
  <2>3. \E t \in {"mux", "sg", "take", "delete", "clear", "list", "done"} :
            /\ closer' = [closer EXCEPT ![g][k] = t]
            /\ closer[g][k] \in {"clear", "list", "done"} => t \in {"list", "done"}
    BY <2>1 DEF Closing, CloseBegins, CloseMuxer, CloseLoad, CloseTake, CloseDelete,
       CloseClear, ClosePlaylist, Closes
  <2>4. PICK l \in Closer : closer[g][l] \in {"clear", "list", "done"}
    BY DEF Returned
  <2>5. closer'[g][l] \in {"clear", "list", "done"}
    BY <2>3, <2>4 DEF TypeOK
  <2> QED
    BY <2>2, <2>5 DEF Returned
<1>4. CASE \E h \in Gen : /\ h # g
                          /\ \/ Muxing(h) \/ \E c \in Cell : NewSegmentGenerator(h, c)
                             \/ \E k \in Closer : Closing(h, k)
  BY <1>1, <1>4, MuxingKeepsOthers, ClosingKeepsOthers
<1>5. CASE OtherStep
  <2>1. SameControl(g)
    BY <1>5, OtherStepsKeepTypes DEF SameControl, segVars, muxVars, closeVars
  <2> QED
    BY <1>1, <2>1
<1> QED
  BY <1>2, <1>3, <1>4, <1>5, StepsOfNext

\* No step forgets a stream, or a close of one.
LEMMA NothingIsUndone ==
    ASSUME TypeOK, ControlInv, Next
    PROVE  /\ memory' = memory
           /\ \A g \in Gen : /\ IsOpen(g)' => IsOpen(g)
                             /\ muxer'[g] = "none" => muxer[g] = "none"
                             /\ OwnsPath(g)' => OwnsPath(g)
                             /\ Undisturbed(g)' => Undisturbed(g)
           /\ \A x \in LateFrames : x \in LateFrames'
<1>1. memory' = memory
  BY StepsOfNext, OtherStepsKeepTypes DEF Muxing, NewSegmentGenerator, TakeFrame, MuxerEnds,
     ReapNil, ReapLoad, SegmentClose, AddSegment, SegmentOpen, SegmentOpenFails, FlushLoad,
     FlushPanics, FlushWrite, Closing, CloseBegins, CloseMuxer, CloseLoad, CloseTake,
     CloseDelete, CloseClear, ClosePlaylist
<1>2. ASSUME NEW g \in Gen
      PROVE  /\ IsOpen(g)' => IsOpen(g)
             /\ muxer'[g] = "none" => muxer[g] = "none"
  <2>1. CASE \E h \in Gen : h # g /\ (Muxing(h) \/ \E c \in Cell : NewSegmentGenerator(h, c))
    BY <2>1, MuxingKeepsOthers DEF SameControl, IsOpen
  <2>2. CASE \E h \in Gen, k \in Closer : h # g /\ Closing(h, k)
    BY <2>2, ClosingKeepsOthers DEF SameControl, IsOpen
  <2>3. CASE OtherStep
    BY <2>3, OtherStepsKeepTypes DEF muxVars, closeVars, IsOpen
  <2>4. CASE Muxing(g) \/ \E c \in Cell : NewSegmentGenerator(g, c)
    <3>1. closer' = closer
      BY <2>4 DEF Muxing, NewSegmentGenerator, TakeFrame, MuxerEnds, ReapNil, ReapLoad,
         SegmentClose, AddSegment, SegmentOpen, SegmentOpenFails, FlushLoad, FlushPanics,
         FlushWrite, closeVars
    <3>2. \E t \in {"idle", "reap", "take", "add", "open", "flush", "write", "ended"} :
              muxer' = [muxer EXCEPT ![g] = t]
      BY <2>4 DEF Muxing, NewSegmentGenerator, TakeFrame, MuxerEnds, ReapNil, ReapLoad,
         SegmentClose, AddSegment, SegmentOpen, SegmentOpenFails, FlushLoad, FlushPanics,
         FlushWrite, At
    <3>3. muxer'[g] # "none"
      BY <3>2 DEF TypeOK
    <3> QED
      BY <3>1, <3>3 DEF IsOpen
  <2>5. CASE \E k \in Closer : Closing(g, k)
    <3>1. PICK k \in Closer : Closing(g, k)
      BY <2>5
    <3>2. /\ muxer' = muxer
          /\ \E t \in {"mux", "sg", "take", "delete", "clear", "list", "done"} :
                closer' = [closer EXCEPT ![g][k] = t]
      BY <3>1 DEF Closing, CloseBegins, CloseMuxer, CloseLoad, CloseTake, CloseDelete,
         CloseClear, ClosePlaylist, Closes, muxVars
    <3>3. closer'[g][k] # "no"
      BY <3>2 DEF TypeOK
    <3> QED
      BY <3>2, <3>3 DEF IsOpen
  <2> QED
    BY <2>1, <2>2, <2>3, <2>4, <2>5, StepsOfNext
<1>3. ASSUME NEW g \in Gen
      PROVE  OwnsPath(g)' => OwnsPath(g)
  BY <1>2 DEF OwnsPath
<1>4. ASSUME NEW g \in Gen
      PROVE  Undisturbed(g)' => Undisturbed(g)
  <2>1. ClosedOnce' => ClosedOnce
    BY ClosedOnceWas
  <2> QED
    BY <1>1, <1>3, <2>1 DEF Undisturbed
<1>5. \A x \in LateFrames : x \in LateFrames'
  <2>1. ASSUME NEW g \in Gen, muxClosed[g], muxer[g] \in {"idle", "ended"}, Returned(g)
        PROVE  /\ muxClosed'[g] /\ muxer'[g] \in {"idle", "ended"} /\ Returned(g)'
               /\ sequenceNo'[g] = sequenceNo[g]
    BY <2>1, FinishedStays
  <2> QED
    BY <2>1 DEF LateFrames
<1> QED
  BY <1>1, <1>2, <1>3, <1>4, <1>5

\* The files of a stream, apart from what frames say.
SameFiles(g) ==
    /\ file'[g] = file[g] /\ writable'[g] = writable[g] /\ out'[g] = out[g]

\* The muxer and the closers of stream g do not touch the handles of another.
LEMMA OtherFilesStay ==
    ASSUME TypeOK, NEW g \in Gen, NEW h \in Gen, h # g,
           \/ Muxing(g) \/ \E c \in Cell : NewSegmentGenerator(g, c)
           \/ \E k \in Closer : Closing(g, k)
    PROVE  SameFiles(h)
<1>1. CASE TakeFrame(g) \/ MuxerEnds(g) \/ ReapNil(g) \/ FlushPanics(g) \/ ReapLoad(g)
           \/ SegmentOpenFails(g)
  BY <1>1 DEF TakeFrame, MuxerEnds, ReapNil, FlushPanics, ReapLoad, SegmentOpenFails, SameFiles,
     storeVars
<1>2. CASE FlushLoad(g) \/ FlushWrite(g)
  BY <1>2 DEF FlushLoad, FlushWrite, SameFiles, storeVars, TypeOK
<1>3. CASE SegmentClose(g)
  BY <1>3 DEF SegmentClose, CloseFile, SameFiles, TypeOK
<1>4. CASE AddSegment(g)
  BY <1>4 DEF AddSegment, DeleteFiles, SameFiles, TypeOK
<1>5. CASE \E c \in Cell : SegmentOpen(g, c) \/ NewSegmentGenerator(g, c)
  BY <1>5 DEF SegmentOpen, NewSegmentGenerator, OpenFile, SameFiles, TypeOK
<1>6. CASE \E k \in Closer : CloseBegins(g, k) \/ CloseMuxer(g, k) \/ CloseLoad(g, k)
  BY <1>6 DEF CloseBegins, CloseMuxer, CloseLoad, SameFiles, storeVars, muxVars
<1>7. CASE \E k \in Closer : CloseTake(g, k)
  BY <1>7 DEF CloseTake, CloseFile, SameFiles, muxVars, TypeOK
<1>8. CASE \E k \in Closer : CloseDelete(g, k) \/ CloseClear(g, k)
  BY <1>8 DEF CloseDelete, CloseClear, SameFiles, muxVars, TypeOK
<1>9. CASE \E k \in Closer : ClosePlaylist(g, k)
  BY <1>9 DEF ClosePlaylist, DeleteFiles, SameFiles, muxVars, TypeOK
<1> QED
  BY <1>1, <1>2, <1>3, <1>4, <1>5, <1>6, <1>7, <1>8, <1>9 DEF Muxing, Closing

\* Files are made and removed in the directory of one stream, which exists.
LEMMA OtherDiskStays ==
    ASSUME TypeOK, ControlInv, NEW g \in Gen,
           \/ Muxing(g) \/ \E c \in Cell : NewSegmentGenerator(g, c)
           \/ \E k \in Closer : Closing(g, k)
    PROVE  /\ muxer'[g] # "none"
           /\ memory => disk' = disk
           /\ \A p \in Path : p # PathOf[g] => disk'[p] = disk[p]
<1>1. CASE Muxing(g) \/ \E c \in Cell : NewSegmentGenerator(g, c)
  <2>1. \E t \in {"idle", "reap", "take", "add", "open", "flush", "write", "ended"} :
            muxer' = [muxer EXCEPT ![g] = t]
    BY <1>1 DEF Muxing, NewSegmentGenerator, TakeFrame, MuxerEnds, ReapNil, ReapLoad,
       SegmentClose, AddSegment, SegmentOpen, SegmentOpenFails, FlushLoad, FlushPanics,
       FlushWrite, At
  <2>2. muxer'[g] # "none"
    BY <2>1 DEF TypeOK
  <2>3. disk' = disk \/ (~memory /\ \E f : disk' = [disk EXCEPT ![PathOf[g]] = f])
    <3>1. CASE \/ TakeFrame(g) \/ MuxerEnds(g) \/ ReapNil(g) \/ FlushPanics(g) \/ ReapLoad(g)
               \/ SegmentOpenFails(g) \/ FlushLoad(g) \/ FlushWrite(g) \/ SegmentClose(g)
      BY <3>1 DEF TakeFrame, MuxerEnds, ReapNil, FlushPanics, ReapLoad, SegmentOpenFails,
         FlushLoad, FlushWrite, SegmentClose, storeVars
    <3>2. CASE AddSegment(g)
      BY <3>2 DEF AddSegment, DeleteFiles
    <3>3. CASE \E c \in Cell : SegmentOpen(g, c) \/ NewSegmentGenerator(g, c)
      BY <3>3 DEF SegmentOpen, NewSegmentGenerator, OpenFile
    <3> QED
      BY <1>1, <3>1, <3>2, <3>3 DEF Muxing
  <2> QED
    BY <2>2, <2>3 DEF TypeOK
<1>2. CASE \E k \in Closer : Closing(g, k)
  <2>1. PICK k \in Closer : Closing(g, k)
    BY <1>2
  <2>2. muxer' = muxer /\ muxer[g] # "none"
    <3>1. MuxerInv(g)
      BY DEF ControlInv
    <3>2. muxer' = muxer /\ (muxer[g] # "none" \/ closer[g][k] # "no")
      BY <2>1 DEF Closing, CloseBegins, CloseMuxer, CloseLoad, CloseTake, CloseDelete,
         CloseClear, ClosePlaylist, Closes, muxVars
    <3> QED
      BY <3>1, <3>2 DEF MuxerInv
  <2>3. disk' = disk \/ (~memory /\ \E f : disk' = [disk EXCEPT ![PathOf[g]] = f])
    BY <2>1 DEF Closing, CloseBegins, CloseMuxer, CloseLoad, CloseTake, CloseDelete,
       CloseClear, ClosePlaylist, DeleteFiles, storeVars
  <2> QED
    BY <2>2, <2>3 DEF TypeOK
<1> QED
  BY <1>1, <1>2

\* Whose handles and numbers do not change keeps what is said of them.
LEMMA SameFilesKeepHandles ==
    ASSUME NEW g \in Gen, HandleInv(g), SameControl(g), SameFiles(g), memory' = memory
    PROVE  HandleInv(g)'
<1>1. (IsOpen(g)' <=> IsOpen(g)) /\ (Returned(g)' <=> Returned(g)) /\ Listed(g)' = Listed(g)
  BY DEF SameControl, IsOpen, Returned, Listed
<1> QED
  BY <1>1 DEF HandleInv, SameControl, SameFiles

\* Numbers in the list are not beyond sequenceNo.
LEMMA ListedArePast ==
    ASSUME TypeOK, NEW g \in Gen, ControlOf(g), NEW n \in Listed(g)
    PROVE  /\ n \in No /\ n =< sequenceNo[g]
           /\ InFlight(g) \/ (~muxClosed[g] /\ muxer[g] # "open") => n < sequenceNo[g]
           /\ Len(segments[g]) = 1 => n = Last(g)
<1>s. PICK s : s = segments[g]
  OBVIOUS
<1>1. s \in Seq(No) /\ Len(s) =< 3 /\ sequenceNo[g] \in Nat
  BY <1>s DEF TypeOK, hlsRemainSegments
<1>2. PICK i \in 1..Len(s) : n = s[i]
  BY <1>s DEF Listed
<1>3. n \in No /\ s # <<>>
  BY <1>1, <1>2
<1>4. \A j \in 1..(Len(s) - 1) : s[j + 1] = s[j] + 1
  BY <1>s DEF ControlOf, ListInv
<1>5. PICK m \in Nat : m = Len(s)
  BY <1>1
<1>6. s[m] \in No
  <2>1. m \in 1..Len(s)
    BY <1>1, <1>2, <1>5
  <2> QED
    BY <1>1, <2>1
<1>7. i = m \/ s[m] = n + 1 \/ s[m] = n + 2
  <2>1. i \in 1..m /\ m =< 3
    BY <1>1, <1>2, <1>5
  <2>2. i = m \/ (i + 1 = m /\ i \in 1..(m - 1)) \/ (i + 2 = m /\ i \in 1..(m - 1) /\ i + 1 \in 1..(m - 1))
    BY <2>1
  <2>3. i \in 1..(m - 1) => s[i + 1] = n + 1
    BY <1>2, <1>4, <1>5
  <2>4. i \in 1..(m - 1) /\ i + 1 \in 1..(m - 1) => s[(i + 1) + 1] = (n + 1) + 1
    BY <1>4, <1>5, <2>3
  <2>5. (i + 1) + 1 = i + 2 /\ (n + 1) + 1 = n + 2
    BY <1>3, <2>1 DEF No
  <2> QED
    BY <2>2, <2>3, <2>4, <2>5
<1>8. n =< s[m] /\ s[m] = Last(g)
  BY <1>2, <1>3, <1>5, <1>6, <1>7, <1>s DEF Last, No
<1>9. /\ s[m] =< sequenceNo[g]
      /\ InFlight(g) \/ (~muxClosed[g] /\ muxer[g] # "open") => s[m] = sequenceNo[g] - 1
  BY <1>3, <1>8, <1>s DEF ControlOf, ListInv
<1>10. n =< sequenceNo[g]
  BY <1>1, <1>3, <1>6, <1>8, <1>9 DEF No
<1>11. InFlight(g) \/ (~muxClosed[g] /\ muxer[g] # "open") => n < sequenceNo[g]
  BY <1>1, <1>3, <1>6, <1>8, <1>9 DEF No
<1>12. Len(s) = 1 => n = Last(g)
  <2>1. Len(s) = 1 => i = 1 /\ m = 1
    BY <1>2, <1>5
  <2> QED
    BY <1>2, <1>8, <2>1
<1> QED
  BY <1>3, <1>10, <1>11, <1>12, <1>s

\* The muxer moves on, and loads the segment and its writer.
LEMMA MuxerMovesKeepHandles ==
    ASSUME TypeOK, NEW g \in Gen, ControlOf(g), HandleInv(g),
           \/ TakeFrame(g) \/ MuxerEnds(g) \/ ReapNil(g) \/ ReapLoad(g)
           \/ FlushLoad(g) \/ FlushPanics(g) \/ FlushWrite(g)
    PROVE  HandleInv(g)'
<1>1. UNCHANGED <<sequenceNo, segments, file, writable, closer>>
  BY DEF TakeFrame, MuxerEnds, ReapNil, ReapLoad, FlushLoad, FlushPanics, FlushWrite,
     segVars, storeVars, closeVars
<1>2. \/ muxer'[g] \notin {"none", "add", "write"} /\ out'[g] = None
      \/ /\ muxer'[g] = "write"
         /\ current[g] \in writable[g] /\ curr'[g] = current[g] /\ out'[g] = file[g][current[g]]
  <2>1. muxer[g] # "write" => out[g] = None
    BY DEF HandleInv
  <2>2. CASE TakeFrame(g) \/ MuxerEnds(g) \/ ReapNil(g) \/ ReapLoad(g) \/ FlushPanics(g)
    BY <2>1, <2>2 DEF TakeFrame, MuxerEnds, ReapNil, ReapLoad, FlushPanics, At, TypeOK
  <2>3. CASE FlushLoad(g)
    BY <2>3 DEF FlushLoad, At, TypeOK
  <2>4. CASE FlushWrite(g)
    BY <2>4 DEF FlushWrite, At, TypeOK
  <2> QED
    BY <2>2, <2>3, <2>4
<1> QED
  BY <1>1, <1>2 DEF HandleInv, Listed

\* segmentClose closes the file that will be listed, ...
LEMMA SegmentCloseKeepsHandles ==
    ASSUME TypeOK, NEW g \in Gen, ControlOf(g), HandleInv(g), SegmentClose(g)
    PROVE  HandleInv(g)'
<1>1. /\ UNCHANGED <<sequenceNo, segments, curr, out, closer>>
      /\ muxer[g] = "take" /\ muxer'[g] = "add"
      /\ writable'[g] = writable[g] \ {curr[g]}
      /\ \A n \in No : file'[g][n] # None => file[g][n] # None
  BY DEF SegmentClose, CloseFile, At, closeVars, TypeOK
<1> QED
  BY <1>1 DEF HandleInv, Listed

\* ... addSegment lists it ...
LEMMA AddSegmentKeepsHandles ==
    ASSUME TypeOK, NEW g \in Gen, ControlOf(g), HandleInv(g), AddSegment(g)
    PROVE  HandleInv(g)'
<1>1. /\ UNCHANGED <<sequenceNo, writable, out, closer>>
      /\ muxer[g] = "add" /\ muxer'[g] = "open"
      /\ \A n \in No : file'[g][n] # None => file[g][n] # None
  BY DEF AddSegment, DeleteFiles, At, closeVars, TypeOK
<1>2. \A n \in Listed(g)' : n \in Listed(g) \/ n = curr[g]
  BY <1>1, AddSegmentSlides DEF ControlOf, MuxerInv
<1> QED
  BY <1>1, <1>2 DEF HandleInv

\* ... and a new file is opened with the next number.
LEMMA OpenKeepsHandles ==
    ASSUME TypeOK, NEW g \in Gen, ControlOf(g), HandleInv(g),
           SegmentOpenFails(g) \/ \E c \in Cell : SegmentOpen(g, c) \/ NewSegmentGenerator(g, c)
    PROVE  HandleInv(g)'
<1>1. \A n \in Listed(g) : n \in No /\ n =< sequenceNo[g]
  BY ListedArePast
<1>2. /\ UNCHANGED <<segments, out, closer, curr>>
      /\ muxer[g] \in {"open", "none"} /\ muxer'[g] \in {"flush", "idle"}
      /\ sequenceNo[g] \in Nat /\ sequenceNo'[g] = sequenceNo[g] + 1
      /\ \A n \in No : n # sequenceNo'[g] =>
            (n \in writable'[g] <=> n \in writable[g]) /\ file'[g][n] = file[g][n]
  <2>1. CASE SegmentOpenFails(g)
    BY <2>1 DEF SegmentOpenFails, At, storeVars, closeVars, TypeOK
  <2>2. CASE \E c \in Cell : SegmentOpen(g, c)
    BY <2>2 DEF SegmentOpen, OpenFile, At, closeVars, TypeOK
  <2>3. CASE \E c \in Cell : NewSegmentGenerator(g, c)
    <3>1. sequenceNo[g] = 0
      BY <2>3 DEF NewSegmentGenerator, ControlOf, MuxerInv
    <3> QED
      BY <2>3, <3>1 DEF NewSegmentGenerator, OpenFile, At, closeVars, TypeOK
  <2> QED
    BY <2>1, <2>2, <2>3
<1>3. \A n \in No : n \in writable'[g] \/ file'[g][n] # None => n =< sequenceNo'[g]
  BY <1>2 DEF HandleInv, No
<1>4. \A n \in Listed(g)' : n \notin writable'[g]
  <2>1. Listed(g)' = Listed(g)
    BY <1>2 DEF Listed
  <2>2. \A n \in Listed(g) : n # sequenceNo'[g]
    BY <1>1, <1>2 DEF No
  <2> QED
    BY <1>1, <1>2, <2>1, <2>2 DEF HandleInv
<1> QED
  BY <1>2, <1>3, <1>4 DEF HandleInv

\* A close only takes handles away.
LEMMA ClosingKeepsHandles ==
    ASSUME TypeOK, ControlInv, NEW g \in Gen, NEW k \in Closer, HandleInv(g), Closing(g, k)
    PROVE  HandleInv(g)'
<1>1. /\ UNCHANGED <<sequenceNo, muxer, curr, out>>
      /\ segments'[g] = segments[g] \/ segments'[g] = <<>>
      /\ writable'[g] \subseteq writable[g]
      /\ \A n \in No : file'[g][n] # None => file[g][n] # None
  <2>1. CASE CloseBegins(g, k) \/ CloseMuxer(g, k) \/ CloseLoad(g, k)
    BY <2>1 DEF CloseBegins, CloseMuxer, CloseLoad, segVars, muxVars, storeVars
  <2>2. CASE CloseTake(g, k)
    BY <2>2 DEF CloseTake, CloseFile, muxVars, TypeOK
  <2>3. CASE CloseDelete(g, k) \/ CloseClear(g, k)
    BY <2>3 DEF CloseDelete, CloseClear, segVars, muxVars, TypeOK
  <2>4. CASE ClosePlaylist(g, k)
    BY <2>4 DEF ClosePlaylist, DeleteFiles, muxVars, TypeOK
  <2> QED
    BY <2>1, <2>2, <2>3, <2>4 DEF Closing
<1>2. ~IsOpen(g)'
  <2>1. \E t \in {"mux", "sg", "take", "delete", "clear", "list", "done"} :
                closer' = [closer EXCEPT ![g][k] = t]
    BY DEF Closing, CloseBegins, CloseMuxer, CloseLoad, CloseTake, CloseDelete,
       CloseClear, ClosePlaylist, Closes
  <2>2. closer'[g][k] # "no"
    BY <2>1 DEF TypeOK
  <2> QED
    BY <2>2 DEF IsOpen
<1>3. \A n \in Listed(g)' : n \in Listed(g)
  <2>1. CASE segments'[g] = segments[g]
    BY <2>1 DEF Listed
  <2>2. CASE segments'[g] = <<>>
    BY <2>2 DEF Listed
  <2> QED
    BY <1>1, <2>1, <2>2
<1>4. ASSUME memory', ~Returned(g)'
      PROVE  memory /\ ~Returned(g) /\ file' = file
  <2>1. \E t \in {"mux", "sg", "take", "delete", "clear", "list", "done"} :
            /\ closer' = [closer EXCEPT ![g][k] = t]
            /\ closer[g][k] \in {"clear", "list", "done"} => t \in {"list", "done"}
    BY DEF Closing, CloseBegins, CloseMuxer, CloseLoad, CloseTake, CloseDelete,
       CloseClear, ClosePlaylist, Closes
  <2>2. \A l \in Closer : closer'[g][l] \notin {"clear", "list", "done"}
    BY <1>4 DEF Returned
  <2>3. \A l \in Closer : closer[g][l] \notin {"clear", "list", "done"}
    BY <2>1, <2>2 DEF TypeOK
  <2>4. CASE CloseBegins(g, k) \/ CloseMuxer(g, k) \/ CloseLoad(g, k) \/ CloseTake(g, k)
    BY <1>4, <2>3, <2>4 DEF CloseBegins, CloseMuxer, CloseLoad, CloseTake, CloseFile, storeVars, Returned
  <2>5. CASE CloseDelete(g, k)
    <3>1. closer'[g][k] \in {"clear", "list"}
      BY <2>5 DEF CloseDelete, Closes, TypeOK
    <3> QED
      BY <2>2, <3>1
  <2>6. CASE CloseClear(g, k) \/ ClosePlaylist(g, k)
    BY <2>3, <2>6 DEF CloseClear, ClosePlaylist, Closes
  <2> QED
    BY <2>4, <2>5, <2>6 DEF Closing
<1> QED
  BY <1>1, <1>2, <1>3, <1>4 DEF HandleInv

-----------------------------------------------------------------------------
(* Where the bytes of a segment are found.                                 *)

\* The bytes of stream h are its own, unless another stream has its path.
LEMMA OtherBytesStay ==
    ASSUME TypeOK, ControlInv, NEW g \in Gen, NEW h \in Gen, h # g, memory' = memory,
           memory \/ OwnsPath(h)',
           \/ Muxing(g) \/ \E c \in Cell : NewSegmentGenerator(g, c)
           \/ \E k \in Closer : Closing(g, k)
    PROVE  \A n \in No : Bytes(h, n)' = Bytes(h, n)
<1>1. CASE memory
  BY <1>1, OtherFilesStay DEF SameFiles, Bytes
<1>2. CASE ~memory
  <2>1. PathOf[h] # PathOf[g] /\ PathOf[h] \in Path
    BY <1>2, OtherDiskStays, ConstantsAreNumbers DEF OwnsPath
  <2>2. disk'[PathOf[h]] = disk[PathOf[h]]
    BY <2>1, OtherDiskStays
  <2> QED
    BY <1>2, <2>2 DEF Bytes, Name
<1> QED
  BY <1>1, <1>2

\* The muxer finds the bytes where they were, unless it drops or opens a segment.
LEMMA MuxerMovesKeepBytes ==
    ASSUME TypeOK, NEW g \in Gen,
           \/ TakeFrame(g) \/ MuxerEnds(g) \/ ReapNil(g) \/ ReapLoad(g) \/ SegmentClose(g)
           \/ SegmentOpenFails(g) \/ FlushLoad(g) \/ FlushPanics(g) \/ FlushWrite(g)
    PROVE  \A n \in No : Bytes(g, n)' = Bytes(g, n)
<1>1. CASE ~SegmentClose(g)
  <2>1. UNCHANGED <<memory, file, disk>>
    BY <1>1 DEF TakeFrame, MuxerEnds, ReapNil, ReapLoad, SegmentOpenFails, FlushLoad, FlushPanics,
       FlushWrite, storeVars
  <2> QED
    BY <2>1 DEF Bytes, Name
<1>2. CASE SegmentClose(g)
  BY <1>2 DEF SegmentClose, CloseFile, Bytes, Name
<1> QED
  BY <1>1, <1>2

\* addSegment deletes what leaves the list and nothing else.
LEMMA AddSegmentDropsBytes ==
    ASSUME TypeOK, NEW g \in Gen, ControlOf(g), AddSegment(g), NEW n \in No
    PROVE  /\ Bytes(g, n)' \in {Bytes(g, n), None}
           /\ n \in Listed(g)' \/ n \notin Listed(g) => Bytes(g, n)' = Bytes(g, n)
           /\ n \in Listed(g) /\ n \notin Listed(g)' => Bytes(g, n)' = None
<1>1. PICK all : all = Append(segments[g], curr[g])
  OBVIOUS
<1>2. PICK S : S = IF Len(all) > hlsRemainSegments THEN {Head(all)} ELSE {}
  OBVIOUS
<1>3. DeleteFiles(g, S) /\ muxer[g] = "add" /\ memory' = memory
  BY <1>1, <1>2 DEF AddSegment, At
<1>4. S = IF Len(segments[g]) = hlsRemainSegments THEN {segments[g][1]} ELSE {}
  <2>1. segments[g] \in Seq(No) /\ curr[g] \in No
    BY <1>3, ConstantsAreNumbers DEF TypeOK, ControlOf, MuxerInv, No
  <2>2. Len(all) = Len(segments[g]) + 1
    BY <1>1, <2>1, AppendProperties
  <2>3. CASE Len(all) > hlsRemainSegments
    BY <1>1, <1>2, <1>3, <2>3, OldestIsPast
  <2>4. CASE ~(Len(all) > hlsRemainSegments)
    <3>1. Len(segments[g]) # hlsRemainSegments
      <4>1. PICK m \in Nat : m = Len(segments[g])
        BY <2>1
      <4>2. ~(m + 1 > 3)
        BY <2>2, <2>4, <4>1 DEF hlsRemainSegments
      <4>3. m # 3
        BY <4>2
      <4> QED
        BY <4>1, <4>3 DEF hlsRemainSegments
    <3> QED
      BY <1>2, <2>4, <3>1
  <2> QED
    BY <2>3, <2>4
<1>5. \A m \in S : m \in Listed(g) /\ m \notin Listed(g)'
  <2>1. ASSUME NEW m \in S
        PROVE  m = segments[g][1] /\ Len(segments[g]) = hlsRemainSegments
    BY <1>4, <2>1
  <2>2. Len(segments[g]) = hlsRemainSegments => segments[g][1] \in Listed(g)
    <3>1. Len(segments[g]) = hlsRemainSegments => 1 \in 1..Len(segments[g])
      BY DEF hlsRemainSegments
    <3> QED
      BY <3>1 DEF Listed
  <2>3. Len(segments[g]) = hlsRemainSegments => segments[g][1] \notin Listed(g)'
    BY AddSegmentSlides
  <2> QED
    BY <2>1, <2>2, <2>3
<1>6. n \in Listed(g) /\ n \notin Listed(g)' => n \in S
  BY <1>4, AddSegmentSlides
<1>7. Bytes(g, n)' = IF n \in S THEN None ELSE Bytes(g, n)
  <2>1. PathOf[g] \in Path
    BY ConstantsAreNumbers
  <2>2. CASE memory
    <3>1. file'[g][n] = IF n \in S THEN None ELSE file[g][n]
      BY <1>3, <2>2 DEF DeleteFiles, TypeOK
    <3> QED
      BY <1>3, <2>2, <3>1 DEF Bytes
  <2>3. CASE ~memory
    <3>1. disk'[PathOf[g]][n] = IF n \in S THEN None ELSE disk[PathOf[g]][n]
      BY <1>3, <2>1, <2>3 DEF DeleteFiles, TypeOK
    <3> QED
      BY <1>3, <2>3, <3>1 DEF Bytes, Name
  <2> QED
    BY <2>2, <2>3
<1> QED
  BY <1>5, <1>6, <1>7

\* open makes empty bytes for the segment of the next number.
LEMMA OpenMakesBytes ==
    ASSUME TypeOK, NEW g \in Gen, ControlOf(g), NEW c \in Cell,
           SegmentOpen(g, c) \/ NewSegmentGenerator(g, c), NEW n \in No
    PROVE  /\ n # sequenceNo'[g] => Bytes(g, n)' = Bytes(g, n)
           /\ n = sequenceNo'[g] => Bytes(g, n)' = c /\ data'[c] = {}
           /\ current'[g] = sequenceNo'[g]
<1>1. PICK m : m = sequenceNo'[g]
  OBVIOUS
<1>2. OpenFile(g, m, c) /\ memory' = memory /\ current'[g] = m
  <2>1. CASE SegmentOpen(g, c)
    BY <1>1, <2>1 DEF SegmentOpen, TypeOK
  <2>2. CASE NewSegmentGenerator(g, c)
    BY <1>1, <2>2 DEF NewSegmentGenerator, TypeOK
  <2> QED
    BY <2>1, <2>2
<1>3. data'[c] = {}
  BY <1>2 DEF OpenFile, TypeOK
<1>4. CASE memory
  <2>1. file'[g][n] = IF n = m THEN c ELSE file[g][n]
    BY <1>2 DEF OpenFile, TypeOK
  <2> QED
    BY <1>1, <1>2, <1>3, <1>4, <2>1 DEF Bytes
<1>5. CASE ~memory
  <2>1. PathOf[g] \in Path
    BY ConstantsAreNumbers
  <2>2. disk'[PathOf[g]][n] = IF n = m THEN c ELSE disk[PathOf[g]][n]
    BY <1>2, <1>5, <2>1 DEF OpenFile, TypeOK
  <2> QED
    BY <1>1, <1>2, <1>3, <1>5, <2>2 DEF Bytes, Name
<1> QED
  BY <1>4, <1>5

\* A close finds the bytes where they were, or takes them away; those of the
\* list are gone with the list.
LEMMA ClosingTakesBytes ==
    ASSUME TypeOK, NEW g \in Gen, NEW k \in Closer, Closing(g, k), NEW n \in No
    PROVE  /\ Bytes(g, n)' \in {Bytes(g, n), None}
           /\ \/ segments'[g] = segments[g]
              \/ segments'[g] = <<>> /\ (n \in Listed(g) => Bytes(g, n)' = None)
<1>0. PathOf[g] \in Path
  BY ConstantsAreNumbers
<1>1. CASE CloseBegins(g, k) \/ CloseMuxer(g, k) \/ CloseLoad(g, k)
  <2>1. UNCHANGED <<memory, file, disk, segments>>
    BY <1>1 DEF CloseBegins, CloseMuxer, CloseLoad, segVars, storeVars
  <2> QED
    BY <2>1 DEF Bytes, Name
<1>2. CASE CloseTake(g, k)
  BY <1>2 DEF CloseTake, CloseFile, Bytes, Name
<1>3. CASE CloseDelete(g, k)
  <2>1. UNCHANGED <<memory, file, segments>>
    BY <1>3 DEF CloseDelete, segVars
  <2>2. CASE memory
    BY <2>1, <2>2 DEF Bytes
  <2>3. CASE ~memory
    <3>1. disk'[PathOf[g]][n] \in {disk[PathOf[g]][n], None}
      BY <1>0, <1>3, <2>3 DEF CloseDelete, TypeOK
    <3> QED
      BY <2>1, <2>3, <3>1 DEF Bytes, Name
  <2> QED
    BY <2>1, <2>2, <2>3
<1>4. CASE CloseClear(g, k)
  <2>1. UNCHANGED <<memory, disk, segments>>
    BY <1>4 DEF CloseClear, segVars
  <2>2. file'[g][n] \in {file[g][n], None}
    BY <1>4 DEF CloseClear, TypeOK
  <2> QED
    BY <2>1, <2>2 DEF Bytes, Name
<1>5. CASE ClosePlaylist(g, k)
  <2>1. DeleteFiles(g, Listed(g)) /\ memory' = memory /\ segments'[g] = <<>>
    BY <1>5 DEF ClosePlaylist, TypeOK
  <2>2. CASE memory
    <3>1. file'[g][n] = IF n \in Listed(g) THEN None ELSE file[g][n]
      BY <2>1, <2>2 DEF DeleteFiles, TypeOK
    <3> QED
      BY <2>1, <2>2, <3>1 DEF Bytes
  <2>3. CASE ~memory
    <3>1. disk'[PathOf[g]][n] = IF n \in Listed(g) THEN None ELSE disk[PathOf[g]][n]
      BY <1>0, <2>1, <2>3 DEF DeleteFiles, TypeOK
    <3> QED
      BY <2>1, <2>3, <3>1 DEF Bytes, Name
  <2> QED
    BY <2>2, <2>3
<1> QED
  BY <1>1, <1>2, <1>3, <1>4, <1>5 DEF Closing

\* A scheduled delete takes bytes away, and none of a stream that has its path
\* to itself and is not closed.
LEMMA DelayedDeleteTakesBytes ==
    ASSUME TypeOK, DelayedInv, NEW g \in Gen, NEW m \in No, DelayedDelete(g, m),
           NEW h \in Gen, NEW n \in No
    PROVE  /\ Bytes(h, n)' \in {Bytes(h, n), None}
           /\ IsOpen(h) /\ Undisturbed(h) => Bytes(h, n)' = Bytes(h, n)
<1>1. /\ muxer[g] # "none" /\ (OwnsPath(g) => ~IsOpen(g))
      /\ UNCHANGED <<memory, file>>
  BY DEF DelayedDelete, DelayedInv
<1>2. PathOf[g] \in Path /\ PathOf[h] \in Path
  BY ConstantsAreNumbers
<1>3. /\ disk'[PathOf[h]][n] \in {disk[PathOf[h]][n], None}
      /\ PathOf[h] # PathOf[g] => disk'[PathOf[h]] = disk[PathOf[h]]
  BY <1>2 DEF DelayedDelete, TypeOK
<1>4. IsOpen(h) /\ OwnsPath(h) => PathOf[h] # PathOf[g]
  BY <1>1 DEF OwnsPath
<1>5. CASE memory
  BY <1>1, <1>5 DEF Bytes
<1>6. CASE ~memory
  BY <1>1, <1>3, <1>4, <1>6 DEF Bytes, Name, Undisturbed
<1> QED
  BY <1>5, <1>6

-----------------------------------------------------------------------------
(* What is needed is there, and what is left is little.                    *)

\* A stream that another one's step leaves alone keeps what it needs, and has
\* no more left.
LEMMA SameBytesKeepNeeds ==
    ASSUME NEW g \in Gen, SameControl(g), memory' = memory,
           Undisturbed(g)' => Undisturbed(g), OwnsPath(g)' => OwnsPath(g),
           memory \/ OwnsPath(g)' => \A n \in No : Bytes(g, n)' = Bytes(g, n),
           NeedInv(g), LeftInv(g)
    PROVE  NeedInv(g)' /\ LeftInv(g)'
<1>1. Listed(g)' = Listed(g) /\ (IsOpen(g)' <=> IsOpen(g))
  BY DEF SameControl, Listed, IsOpen
<1>2. \A n : IsNeeded(g, n)' <=> IsNeeded(g, n)
  BY <1>1 DEF SameControl, IsNeeded
<1>3. NeedInv(g)'
  <2>1. Undisturbed(g)' => memory \/ OwnsPath(g)'
    BY DEF Undisturbed
  <2> QED
    BY <1>1, <1>2, <2>1 DEF NeedInv
<1>4. LeftInv(g)'
  BY <1>1 DEF LeftInv, SameControl
<1> QED
  BY <1>3, <1>4

\* The muxer keeps what the stream needs: a segment is listed before the next
\* one is opened.
LEMMA MuxingKeepsNeeds ==
    ASSUME TypeOK, ControlInv, NEW g \in Gen, ControlOf(g), NeedInv(g),
           Undisturbed(g)' => Undisturbed(g),
           Muxing(g) \/ \E c \in Cell : NewSegmentGenerator(g, c)
    PROVE  NeedInv(g)'
<1> SUFFICES ASSUME IsOpen(g)', Undisturbed(g)', NEW n \in No, IsNeeded(g, n)'
             PROVE  Bytes(g, n)' # None
  BY DEF NeedInv
<1>1. IsOpen(g) /\ Undisturbed(g)
  <2>1. closer' = closer
    BY DEF Muxing, NewSegmentGenerator, TakeFrame, MuxerEnds, ReapNil, ReapLoad,
       SegmentClose, AddSegment, SegmentOpen, SegmentOpenFails, FlushLoad, FlushPanics,
       FlushWrite, closeVars
  <2> QED
    BY <2>1 DEF IsOpen
<1>2. IsNeeded(g, n) => Bytes(g, n) # None
  BY <1>1 DEF NeedInv
<1>3. CASE \/ TakeFrame(g) \/ MuxerEnds(g) \/ ReapNil(g) \/ ReapLoad(g) \/ SegmentClose(g)
           \/ SegmentOpenFails(g) \/ FlushLoad(g) \/ FlushPanics(g) \/ FlushWrite(g)
  <2>1. /\ segments' = segments
        /\ current'[g] = current[g] \/ current'[g] = 0
        /\ muxer'[g] \in {"take", "add"} =>
              curr'[g] = current[g] \/ (curr'[g] = curr[g] /\ muxer[g] \in {"take", "add"})
    <3>1. CASE TakeFrame(g) \/ MuxerEnds(g) \/ ReapNil(g) \/ FlushPanics(g)
      BY <3>1 DEF TakeFrame, MuxerEnds, ReapNil, FlushPanics, At, TypeOK, segVars
    <3>2. CASE ReapLoad(g) \/ FlushLoad(g) \/ FlushWrite(g)
      BY <3>2 DEF ReapLoad, FlushLoad, FlushWrite, At, TypeOK, segVars
    <3>3. CASE SegmentClose(g) \/ SegmentOpenFails(g)
      BY <3>3 DEF SegmentClose, SegmentOpenFails, At, TypeOK
    <3> QED
      BY <1>3, <3>1, <3>2, <3>3
  <2>2. n # 0
    BY DEF No
  <2>3. IsNeeded(g, n)
    BY <2>1, <2>2 DEF IsNeeded, Listed
  <2> QED
    BY <1>2, <1>3, <2>3, MuxerMovesKeepBytes
<1>4. CASE AddSegment(g)
  <2>1. /\ muxer[g] = "add" /\ muxer'[g] = "open" /\ current'[g] = current[g]
        /\ current[g] = 0 /\ curr[g] = sequenceNo[g]
    BY <1>4 DEF AddSegment, At, TypeOK, ControlOf, MuxerInv
  <2>2. n \in Listed(g)'
    BY <2>1 DEF IsNeeded
  <2>3. n \in Listed(g) \/ n = sequenceNo[g]
    BY <1>4, <2>2, AddSegmentSlides
  <2>4. IsNeeded(g, n)
    BY <2>1, <2>3 DEF IsNeeded
  <2> QED
    BY <1>2, <1>4, <2>2, <2>4, AddSegmentDropsBytes
<1>5. CASE \E c \in Cell : SegmentOpen(g, c) \/ NewSegmentGenerator(g, c)
  <2>1. PICK c \in Cell : SegmentOpen(g, c) \/ NewSegmentGenerator(g, c)
    BY <1>5
  <2>2. CASE n = sequenceNo'[g]
    BY <2>1, <2>2, OpenMakesBytes, ConstantsAreNumbers
  <2>3. CASE n # sequenceNo'[g]
    <3>1. segments' = segments /\ muxer'[g] \in {"flush", "idle"} /\ current'[g] = sequenceNo'[g]
      <4>1. segments' = segments /\ muxer'[g] \in {"flush", "idle"}
        BY <2>1 DEF SegmentOpen, NewSegmentGenerator, At, TypeOK
      <4>2. 1 \in No
        BY ConstantsAreNumbers DEF No
      <4> QED
        BY <2>1, <4>1, <4>2, OpenMakesBytes
    <3>2. IsNeeded(g, n)
      BY <2>3, <3>1 DEF IsNeeded, Listed
    <3> QED
      BY <1>2, <2>1, <2>3, <3>2, OpenMakesBytes
  <2> QED
    BY <2>2, <2>3
<1> QED
  BY <1>3, <1>4, <1>5 DEF Muxing

\* The muxer leaves the bytes of what it lists and of the segment in hand.
LEMMA MuxingKeepsLeft ==
    ASSUME TypeOK, ControlInv, NEW g \in Gen, ControlOf(g), HandleInv(g), LeftInv(g), PathInv,
           memory' = memory, OwnsPath(g)' => OwnsPath(g),
           Muxing(g) \/ \E c \in Cell : NewSegmentGenerator(g, c)
    PROVE  LeftInv(g)'
<1> SUFFICES ASSUME memory \/ OwnsPath(g)', NEW n \in No, Bytes(g, n)' # None
             PROVE  \/ n \in Listed(g)'
                    \/ n = sequenceNo'[g]
                    \/ /\ n = sequenceNo'[g] - 1 /\ muxClosed'[g]
                       /\ muxer'[g] \in {"flush", "write", "idle", "ended"}
  BY DEF LeftInv
<1>1. Bytes(g, n) # None =>
         \/ n \in Listed(g)
         \/ n = sequenceNo[g]
         \/ n = sequenceNo[g] - 1 /\ muxClosed[g] /\ muxer[g] \in {"flush", "write", "idle", "ended"}
  BY DEF LeftInv
<1>2. CASE \/ TakeFrame(g) \/ MuxerEnds(g) \/ ReapNil(g) \/ ReapLoad(g) \/ SegmentClose(g)
           \/ FlushLoad(g) \/ FlushPanics(g) \/ FlushWrite(g)
  <2>1. /\ UNCHANGED <<segments, sequenceNo, muxClosed>>
        /\ muxClosed[g] /\ muxer[g] \in {"flush", "write", "idle", "ended"} =>
              muxer'[g] \in {"flush", "write", "idle", "ended"}
    <3>1. CASE TakeFrame(g) \/ MuxerEnds(g) \/ ReapNil(g) \/ FlushPanics(g)
      BY <3>1 DEF TakeFrame, MuxerEnds, ReapNil, FlushPanics, At, TypeOK, segVars, closeVars
    <3>2. CASE ReapLoad(g) \/ FlushLoad(g) \/ FlushWrite(g) \/ SegmentClose(g)
      BY <3>2 DEF ReapLoad, FlushLoad, FlushWrite, SegmentClose, At, TypeOK, segVars, closeVars
    <3> QED
      BY <1>2, <3>1, <3>2
  <2>2. Bytes(g, n) # None
    BY <1>2, MuxerMovesKeepBytes
  <2> QED
    BY <1>1, <2>1, <2>2 DEF Listed
<1>3. CASE AddSegment(g)
  <2>1. Bytes(g, n)' = Bytes(g, n) /\ (n \in Listed(g) => n \in Listed(g)')
    BY <1>3, AddSegmentDropsBytes
  <2>2. sequenceNo' = sequenceNo /\ muxer[g] = "add"
    BY <1>3 DEF AddSegment, At
  <2> QED
    BY <1>1, <2>1, <2>2
<1>4. CASE SegmentOpenFails(g) \/ \E c \in Cell : SegmentOpen(g, c)
  <2>1. /\ muxer[g] = "open" /\ muxer'[g] \in {"idle", "flush"}
        /\ UNCHANGED <<segments, muxClosed>>
        /\ sequenceNo[g] \in Nat /\ sequenceNo'[g] = sequenceNo[g] + 1
    BY <1>4 DEF SegmentOpenFails, SegmentOpen, At, TypeOK, closeVars
  <2>2. n # sequenceNo'[g] => Bytes(g, n)' = Bytes(g, n)
    BY <1>4, MuxerMovesKeepBytes, OpenMakesBytes
  <2>3. ~muxClosed[g] => sequenceNo[g] \in Listed(g)
    <3>1. ~muxClosed[g] => segments[g] # <<>> /\ Last(g) = sequenceNo[g]
      BY <2>1 DEF ControlOf, ListInv
    <3>2. segments[g] \in Seq(No)
      BY DEF TypeOK
    <3>3. segments[g] # <<>> => Len(segments[g]) \in 1..Len(segments[g])
      BY <3>2
    <3> QED
      BY <3>1, <3>3 DEF Listed, Last
  <2>4. sequenceNo'[g] - 1 = sequenceNo[g]
    BY <2>1
  <2>5. Listed(g)' = Listed(g)
    BY <2>1 DEF Listed
  <2> QED
    BY <1>1, <2>1, <2>2, <2>3, <2>4, <2>5
<1>5. CASE \E c \in Cell : NewSegmentGenerator(g, c)
  <2>1. muxer[g] = "none"
    BY <1>5 DEF NewSegmentGenerator
  <2>2. Bytes(g, n) = None
    <3>1. CASE memory
      BY <2>1, <3>1 DEF HandleInv, Bytes
    <3>2. CASE ~memory
      <4>1. \A h \in Gen : PathOf[h] = PathOf[g] => muxer[h] = "none"
        BY <2>1, <3>2 DEF OwnsPath
      <4>2. PathOf[g] \in Path
        BY ConstantsAreNumbers
      <4> QED
        BY <3>2, <4>1, <4>2 DEF PathInv, Bytes, Name
    <3> QED
      BY <3>1, <3>2
  <2> QED
    BY <1>5, <2>2, OpenMakesBytes
<1> QED
  BY <1>2, <1>3, <1>4, <1>5 DEF Muxing

\* A close leaves less.
LEMMA ClosingKeepsLeft ==
    ASSUME TypeOK, NEW g \in Gen, NEW k \in Closer, LeftInv(g), ControlInv,
           memory' = memory, OwnsPath(g)' => OwnsPath(g), Closing(g, k)
    PROVE  LeftInv(g)' /\ NeedInv(g)'
<1>1. UNCHANGED <<sequenceNo, muxer>> /\ (muxClosed[g] => muxClosed'[g])
  <2>1. CASE CloseBegins(g, k) \/ CloseMuxer(g, k) \/ CloseLoad(g, k)
    BY <2>1 DEF CloseBegins, CloseMuxer, CloseLoad, segVars, muxVars, TypeOK
  <2>2. CASE ~(CloseBegins(g, k) \/ CloseMuxer(g, k) \/ CloseLoad(g, k))
    BY <2>2 DEF Closing, CloseTake, CloseDelete, CloseClear, ClosePlaylist, segVars, muxVars
  <2> QED
    BY <2>1, <2>2
<1>2. \A n \in No : Bytes(g, n)' # None =>
          Bytes(g, n)' = Bytes(g, n) /\ (n \in Listed(g) => n \in Listed(g)')
  <2>1. segments'[g] = segments[g] => Listed(g)' = Listed(g)
    BY DEF Listed
  <2> QED
    BY <2>1, ClosingTakesBytes
<1>3. LeftInv(g)'
  BY <1>1, <1>2 DEF LeftInv
<1>4. ~IsOpen(g)'
  <2>1. \E t \in {"mux", "sg", "take", "delete", "clear", "list", "done"} :
                closer' = [closer EXCEPT ![g][k] = t]
    BY DEF Closing, CloseBegins, CloseMuxer, CloseLoad, CloseTake, CloseDelete,
       CloseClear, ClosePlaylist, Closes
  <2>2. closer'[g][k] # "no"
    BY <2>1 DEF TypeOK
  <2> QED
    BY <2>2 DEF IsOpen
<1> QED
  BY <1>3, <1>4 DEF NeedInv

\* So does a scheduled delete.
LEMMA DelayedDeleteKeepsNeeds ==
    ASSUME TypeOK, DelayedInv, NEW h \in Gen, NeedInv(h), LeftInv(h),
           NEW g \in Gen, NEW m \in No, DelayedDelete(g, m)
    PROVE  NeedInv(h)' /\ LeftInv(h)'
<1>1. UNCHANGED <<memory, segVars, file, muxVars, closeVars>>
  BY DEF DelayedDelete
<1>2. /\ Listed(h)' = Listed(h) /\ (IsOpen(h)' <=> IsOpen(h))
      /\ (Undisturbed(h)' <=> Undisturbed(h)) /\ (OwnsPath(h)' <=> OwnsPath(h))
      /\ \A n : IsNeeded(h, n)' <=> IsNeeded(h, n)
  BY <1>1 DEF Listed, IsOpen, Undisturbed, OwnsPath, ClosedOnce, ClosedTwice, IsNeeded,
     segVars, muxVars, closeVars
<1>3. NeedInv(h)'
  BY <1>2, DelayedDeleteTakesBytes DEF NeedInv
<1>4. LeftInv(h)'
  BY <1>1, <1>2, DelayedDeleteTakesBytes DEF LeftInv, segVars, muxVars, closeVars
<1> QED
  BY <1>3, <1>4

-----------------------------------------------------------------------------
(* Whose frames the bytes hold.                                            *)

\* Stream g writes to cell c, and in memory has it for its segment or is late.
WritesTo(g, c) ==
    /\ muxer[g] = "write" /\ curr[g] \in No /\ out[g] = c
    /\ memory => <<g, curr[g]>> \in LateFrames' \/ (file[g][curr[g]] = c /\ ~Returned(g))

\* Who writes to cell c is a stream with a late frame, or has it for its segment.
LEMMA WritesAreOwn ==
    ASSUME TypeOK, ControlInv, \A g \in Gen : HandleInv(g), Next,
           NEW c \in Cell, NEW x \in data'[c]
    PROVE  x \in data[c] \/ \E g \in Gen : x = <<g, curr[g]>> /\ WritesTo(g, c)
<1>1. CASE \E g \in Gen : FlushWrite(g)
  <2>1. PICK g \in Gen : FlushWrite(g)
    BY <1>1
  <2>2. muxer[g] = "write" /\ curr[g] \in No /\ curr[g] = sequenceNo[g]
    <3>1. muxer[g] = "write" /\ MuxerInv(g)
      BY <2>1 DEF FlushWrite, At, ControlInv
    <3>2. curr[g] = sequenceNo[g] /\ sequenceNo[g] >= 1 /\ sequenceNo[g] \in 0..MaxSeq
      BY <3>1 DEF MuxerInv, TypeOK
    <3> QED
      BY <3>1, <3>2, ConstantsAreNumbers DEF No
  <2>3. x \in data[c] \/ (x = <<g, curr[g]>> /\ out[g] = c)
    BY <2>1 DEF FlushWrite, TypeOK
  <2>4. ASSUME memory, Returned(g)
        PROVE  <<g, curr[g]>> \in LateFrames'
    <3>1. muxClosed[g]
      BY <2>4 DEF Returned, ControlInv, CloserInv
    <3>2. /\ muxClosed'[g] /\ muxer'[g] = "idle" /\ Returned(g)'
          /\ sequenceNo'[g] = curr[g]
      BY <2>1, <2>2, <2>4, <3>1 DEF FlushWrite, At, TypeOK, segVars, closeVars, Returned
    <3> QED
      BY <3>2 DEF LateFrames
  <2>5. memory /\ ~Returned(g) => out[g] = file[g][curr[g]]
    BY <2>2 DEF HandleInv
  <2> QED
    BY <2>2, <2>3, <2>4, <2>5 DEF WritesTo
<1>2. CASE \E g \in Gen, d \in Cell : SegmentOpen(g, d) \/ NewSegmentGenerator(g, d)
  <2>1. \E d \in Cell : data' = [data EXCEPT ![d] = {}]
    BY <1>2 DEF SegmentOpen, NewSegmentGenerator, OpenFile
  <2> QED
    BY <2>1 DEF TypeOK
<1>3. CASE OtherStep
  BY <1>3, OtherStepsKeepTypes
<1>4. CASE \E g \in Gen, k \in Closer : Closing(g, k)
  <2>1. data' = data
    BY <1>4 DEF Closing, CloseBegins, CloseMuxer, CloseLoad, CloseTake, CloseDelete, CloseClear,
       ClosePlaylist, storeVars
  <2> QED
    BY <2>1
<1>5. CASE \E g \in Gen : Muxing(g) /\ ~FlushWrite(g) /\ ~ \E d \in Cell : SegmentOpen(g, d)
  <2>1. data' = data
    BY <1>5 DEF Muxing, TakeFrame, MuxerEnds, ReapNil, ReapLoad, SegmentClose, AddSegment,
       SegmentOpenFails, FlushLoad, FlushPanics, storeVars
  <2> QED
    BY <2>1
<1> QED
  BY <1>1, <1>2, <1>3, <1>4, <1>5, StepsOfNext DEF Muxing

\* In memory, the buffer of a segment goes on holding its frames only.
LEMMA BufferStaysOwn ==
    ASSUME TypeOK, ControlInv, OwnerInv, \A h \in Gen : HandleInv(h), Next,
           memory, ClosedOnce, NEW g \in Gen, NEW n \in No, IsOpen(g), NEW c \in Cell,
           file[g][n] = c, IsSegment(c, g, n)
    PROVE  IsSegment(c, g, n)'
<1>1. \A h \in Gen : IsOpen(h) \/ ~Returned(h) => \A m : ~GivenBack(h, m)
  BY DEF IsOpen, GivenBack, Returned
<1>2. ASSUME NEW x \in data'[c]
      PROVE  x = <<g, n>> \/ x \in LateFrames'
  <2>1. CASE x \in data[c]
    BY <2>1, NothingIsUndone DEF IsSegment
  <2>2. CASE \E h \in Gen : x = <<h, curr[h]>> /\ WritesTo(h, c)
    <3>1. PICK h \in Gen : x = <<h, curr[h]>> /\ WritesTo(h, c)
      BY <2>2
    <3>2. CASE file[h][curr[h]] = c /\ ~Returned(h)
      <4>1. <<g, n>> \in Segment /\ <<h, curr[h]>> \in Segment
        BY <3>1 DEF Segment, WritesTo
      <4>2. Owns(<<g, n>>, c) /\ Owns(<<h, curr[h]>>, c)
        BY <1>1, <3>2 DEF Owns
      <4>3. <<g, n>> = <<h, curr[h]>>
        BY <4>1, <4>2 DEF OwnerInv, OwnersAreOne
      <4> QED
        BY <3>1, <4>3
    <3> QED
      BY <3>1, <3>2 DEF WritesTo
  <2> QED
    BY <2>1, <2>2, WritesAreOwn
<1>3. memory'
  BY NothingIsUndone
<1> QED
  BY <1>2, <1>3 DEF IsSegment

\* On disk, the file of a segment does: nobody else has its name.
LEMMA InodeStaysOwn ==
    ASSUME TypeOK, ControlInv, InodesHaveNames, \A h \in Gen : HandleInv(h), Next,
           ~memory, NEW g \in Gen, NEW n \in No, OwnsPath(g), NEW c \in Cell,
           \/ Name(g, n) = c
           \/ \E r \in Reader : reader[r] # NoRead /\ reader[r].cell = c
                                /\ reader[r].gen = g /\ reader[r].no = n,
           IsSegment(c, g, n)
    PROVE  IsSegment(c, g, n)'
<1>1. PICK name \in [Cell -> (Path \X No) \cup {None}] : \A d \in Cell :
        /\ \A p \in Path, m \in No : disk[p][m] = d => name[d] = <<p, m>>
        /\ \A h \in Gen : /\ \A m \in No : file[h][m] = d => name[d] = <<PathOf[h], m>>
                          /\ out[h] = d => name[d] = <<PathOf[h], curr[h]>>
        /\ \A r \in Reader : reader[r] # NoRead /\ reader[r].cell = d =>
              name[d] = <<PathOf[reader[r].gen], reader[r].no>>
  BY DEF InodesHaveNames
<1>2. name[c] = <<PathOf[g], n>>
  <2>1. PathOf[g] \in Path
    BY ConstantsAreNumbers
  <2> QED
    BY <1>1, <2>1 DEF Name
<1>3. ASSUME NEW x \in data'[c]
      PROVE  x = <<g, n>>
  <2>1. CASE x \in data[c]
    BY <2>1 DEF IsSegment
  <2>2. CASE \E h \in Gen : x = <<h, curr[h]>> /\ WritesTo(h, c)
    <3>1. PICK h \in Gen : muxer[h] = "write" /\ x = <<h, curr[h]>> /\ out[h] = c
      BY <2>2 DEF WritesTo
    <3>2. name[c] = <<PathOf[h], curr[h]>>
      BY <1>1, <3>1
    <3>3. PathOf[h] = PathOf[g] /\ curr[h] = n
      BY <1>2, <3>2
    <3>4. h = g
      BY <3>1, <3>3 DEF OwnsPath
    <3> QED
      BY <3>1, <3>3, <3>4
  <2> QED
    BY <2>1, <2>2, WritesAreOwn
<1> QED
  BY <1>3 DEF IsSegment

\* The bytes a segment has after a step it had before, or they are new.
LEMMA BytesAreOldOrNew ==
    ASSUME TypeOK, ControlInv, DelayedInv, Next, NEW g \in Gen, NEW n \in No,
           memory \/ OwnsPath(g)', Bytes(g, n)' # None
    PROVE  Bytes(g, n)' = Bytes(g, n) \/ data'[Bytes(g, n)'] = {}
<1>0. memory' = memory /\ ControlOf(g)
  BY NothingIsUndone DEF ControlInv, ControlOf
<1>1. CASE \/ TakeFrame(g) \/ MuxerEnds(g) \/ ReapNil(g) \/ ReapLoad(g) \/ SegmentClose(g)
           \/ SegmentOpenFails(g) \/ FlushLoad(g) \/ FlushPanics(g) \/ FlushWrite(g)
  BY <1>1, MuxerMovesKeepBytes
<1>2. CASE AddSegment(g)
  BY <1>0, <1>2, AddSegmentDropsBytes
<1>3. CASE \E c \in Cell : SegmentOpen(g, c) \/ NewSegmentGenerator(g, c)
  BY <1>0, <1>3, OpenMakesBytes
<1>4. CASE \E k \in Closer : Closing(g, k)
  BY <1>4, ClosingTakesBytes
<1>5. CASE \E h \in Gen : /\ h # g
                          /\ \/ Muxing(h) \/ \E c \in Cell : NewSegmentGenerator(h, c)
                             \/ \E k \in Closer : Closing(h, k)
  BY <1>0, <1>5, OtherBytesStay
<1>6. CASE OtherStep
  <2>1. CASE \E h \in Gen, m \in No : DelayedDelete(h, m)
    BY <2>1, DelayedDeleteTakesBytes
  <2>2. CASE ~ \E h \in Gen, m \in No : DelayedDelete(h, m)
    <3>1. UNCHANGED <<memory, file, disk>>
      BY <1>6, <2>2 DEF OtherStep, GetTS, M3u8, TSSent, M3u8Sent, storeVars
    <3> QED
      BY <3>1 DEF Bytes, Name
  <2> QED
    BY <2>1, <2>2
<1> QED
  BY <1>1, <1>2, <1>3, <1>4, <1>5, <1>6, StepsOfNext DEF Muxing

\* What a segment has holds its frames and no other.
LEMMA NextKeepsContents ==
    ASSUME TypeOK, ControlInv, OwnerInv, BytesInv, Next, NEW g \in Gen
    PROVE  ContentInv(g)'
<1> SUFFICES ASSUME Undisturbed(g)', memory' => IsOpen(g)', NEW n \in No, Bytes(g, n)' # None
             PROVE  IsSegment(Bytes(g, n), g, n)'
  BY DEF ContentInv
<1>1. PICK c : c = Bytes(g, n)'
  OBVIOUS
<1>2. /\ memory' = memory /\ Undisturbed(g) /\ (memory => IsOpen(g))
      /\ memory \/ OwnsPath(g)'
  BY NothingIsUndone DEF Undisturbed
<1>3. c \in Cell
  <2>1. Bytes(g, n)' \in Cell \cup {None}
    <3>1. TypeOK' /\ PathOf[g] \in Path
      BY NextKeepsControl, ConstantsAreNumbers
    <3> QED
      BY <3>1 DEF TypeOK, Bytes, Name
  <2> QED
    BY <1>1, <2>1
<1>0. IsSegment(c, g, n)' => IsSegment(Bytes(g, n), g, n)'
  BY <1>1 DEF IsSegment
<1>4. CASE data'[c] = {}
  BY <1>0, <1>4 DEF IsSegment
<1>5. CASE Bytes(g, n) = c
  <2>1. IsSegment(c, g, n)
    BY <1>2, <1>3, <1>5, ConstantsAreNumbers DEF BytesInv, FileInv, ContentInv
  <2>2. CASE memory
    <3>1. ClosedOnce /\ IsOpen(g) /\ file[g][n] = c
      BY <1>2, <1>5, <2>2 DEF Undisturbed, Bytes
    <3> QED
      BY <1>3, <2>1, <2>2, <3>1, <1>0, BufferStaysOwn DEF BytesInv, FileInv
  <2>3. CASE ~memory
    <3>1. OwnsPath(g) /\ Name(g, n) = c
      BY <1>2, <1>5, <2>3 DEF Undisturbed, Bytes
    <3> QED
      BY <1>3, <2>1, <2>3, <3>1, <1>0, InodeStaysOwn DEF BytesInv, FileInv
  <2> QED
    BY <2>2, <2>3
<1> QED
  BY <1>1, <1>2, <1>4, <1>5, BytesAreOldOrNew DEF BytesInv

-----------------------------------------------------------------------------
(* What requests read.                                                     *)

\* A number that came before the next one to be listed still does.
LEMMA PastStays ==
    ASSUME TypeOK, ControlInv, Next, NEW g \in Gen, NEW n \in No, IsPast(g, n)
    PROVE  IsPast(g, n)'
<1>1. CASE SameControl(g)
  BY <1>1 DEF SameControl, IsPast, InFlight
<1>2. CASE \/ TakeFrame(g) \/ MuxerEnds(g) \/ ReapNil(g) \/ ReapLoad(g)
           \/ FlushLoad(g) \/ FlushPanics(g) \/ FlushWrite(g)
  <2>1. CASE TakeFrame(g) \/ MuxerEnds(g) \/ ReapNil(g) \/ ReapLoad(g)
    BY <2>1 DEF TakeFrame, MuxerEnds, ReapNil, ReapLoad, At, TypeOK, segVars, closeVars, IsPast,
       InFlight
  <2>2. CASE FlushLoad(g) \/ FlushPanics(g) \/ FlushWrite(g)
    BY <2>2 DEF FlushLoad, FlushPanics, FlushWrite, At, TypeOK, segVars, closeVars, IsPast, InFlight
  <2> QED
    BY <1>2, <2>1, <2>2
<1>3. CASE SegmentClose(g) \/ AddSegment(g)
  BY <1>3 DEF SegmentClose, AddSegment, At, TypeOK, closeVars, IsPast, InFlight
<1>4. CASE SegmentOpenFails(g) \/ \E c \in Cell : SegmentOpen(g, c)
  <2>1. sequenceNo[g] \in Nat /\ n \in Nat /\ sequenceNo'[g] = sequenceNo[g] + 1
    BY <1>4 DEF SegmentOpenFails, SegmentOpen, TypeOK, No
  <2> QED
    BY <2>1 DEF IsPast
<1>5. CASE \E c \in Cell : NewSegmentGenerator(g, c)
  <2>1. sequenceNo[g] = 0
    BY <1>5 DEF NewSegmentGenerator, ControlInv, MuxerInv
  <2> QED
    BY <2>1 DEF IsPast, No
<1>6. CASE \E k \in Closer : Closing(g, k)
  <2>1. PICK k \in Closer : Closing(g, k)
    BY <1>6
  <2>2. UNCHANGED <<sequenceNo, muxer>> /\ (muxClosed[g] => muxClosed'[g])
    <3>1. CASE CloseBegins(g, k) \/ CloseMuxer(g, k) \/ CloseLoad(g, k)
      BY <3>1 DEF CloseBegins, CloseMuxer, CloseLoad, segVars, muxVars, TypeOK
    <3>2. CASE ~(CloseBegins(g, k) \/ CloseMuxer(g, k) \/ CloseLoad(g, k))
      BY <2>1, <3>2 DEF Closing, CloseTake, CloseDelete, CloseClear, ClosePlaylist, segVars, muxVars
    <3> QED
      BY <3>1, <3>2
  <2> QED
    BY <2>2 DEF IsPast, InFlight
<1>7. CASE \E h \in Gen : /\ h # g
                          /\ \/ Muxing(h) \/ \E c \in Cell : NewSegmentGenerator(h, c)
                             \/ \E k \in Closer : Closing(h, k)
  BY <1>1, <1>7, MuxingKeepsOthers, ClosingKeepsOthers
<1>8. CASE OtherStep
  <2>1. SameControl(g)
    BY <1>8, OtherStepsKeepTypes DEF SameControl, segVars, muxVars, closeVars
  <2> QED
    BY <1>1, <2>1
<1> QED
  BY <1>2, <1>3, <1>4, <1>5, <1>6, <1>7, <1>8, StepsOfNext DEF Muxing

\* While a segment is listed its buffer is not replaced.
LEMMA ListedKeepTheirBuffers ==
    ASSUME TypeOK, ControlInv, Next, memory, NEW g \in Gen, NEW n \in No, IsPast(g, n),
           n \in Listed(g)', IsOpen(g)'
    PROVE  n \in Listed(g) /\ file'[g][n] = file[g][n]
<1>0. memory' = memory /\ ControlOf(g)
  BY NothingIsUndone DEF ControlInv, ControlOf
<1>1. Bytes(g, n)' = file'[g][n] /\ Bytes(g, n) = file[g][n]
  BY <1>0 DEF Bytes
<1>2. CASE \/ TakeFrame(g) \/ MuxerEnds(g) \/ ReapNil(g) \/ ReapLoad(g) \/ SegmentClose(g)
           \/ SegmentOpenFails(g) \/ FlushLoad(g) \/ FlushPanics(g) \/ FlushWrite(g)
  <2>1. segments' = segments
    BY <1>2 DEF TakeFrame, MuxerEnds, ReapNil, ReapLoad, SegmentClose, SegmentOpenFails,
       FlushLoad, FlushPanics, FlushWrite, segVars
  <2> QED
    BY <1>1, <1>2, <2>1, MuxerMovesKeepBytes DEF Listed
<1>3. CASE AddSegment(g)
  <2>1. n # sequenceNo[g]
    <3>1. InFlight(g)
      BY <1>3 DEF AddSegment, At, InFlight
    <3> QED
      BY <3>1 DEF IsPast, No, TypeOK
  <2>2. n \in Listed(g)
    BY <1>0, <1>3, <2>1, AddSegmentSlides
  <2> QED
    BY <1>0, <1>1, <1>3, <2>2, AddSegmentDropsBytes
<1>4. CASE \E c \in Cell : SegmentOpen(g, c) \/ NewSegmentGenerator(g, c)
  <2>1. PICK c \in Cell : SegmentOpen(g, c) \/ NewSegmentGenerator(g, c)
    BY <1>4
  <2>2. segments' = segments /\ sequenceNo'[g] = sequenceNo[g] + 1
    <3>1. CASE SegmentOpen(g, c)
      BY <3>1 DEF SegmentOpen, TypeOK
    <3>2. CASE NewSegmentGenerator(g, c)
      BY <1>0, <3>2 DEF NewSegmentGenerator, TypeOK, ControlOf, MuxerInv
    <3> QED
      BY <2>1, <3>1, <3>2
  <2>3. n # sequenceNo'[g]
    BY <2>2 DEF IsPast, No, TypeOK
  <2> QED
    BY <1>0, <1>1, <2>1, <2>2, <2>3, OpenMakesBytes DEF Listed
<1>5. CASE \E k \in Closer : Closing(g, k)
  <2>1. PICK k \in Closer : Closing(g, k)
    BY <1>5
  <2>2. \E t \in {"mux", "sg", "take", "delete", "clear", "list", "done"} :
                closer' = [closer EXCEPT ![g][k] = t]
    BY <2>1 DEF Closing, CloseBegins, CloseMuxer, CloseLoad, CloseTake, CloseDelete,
       CloseClear, ClosePlaylist, Closes
  <2>3. closer'[g][k] # "no"
    BY <2>2 DEF TypeOK
  <2> QED
    BY <2>3 DEF IsOpen
<1>6. CASE \E h \in Gen : /\ h # g
                          /\ \/ Muxing(h) \/ \E c \in Cell : NewSegmentGenerator(h, c)
                             \/ \E k \in Closer : Closing(h, k)
  BY <1>6, MuxingKeepsOthers, ClosingKeepsOthers, OtherFilesStay DEF SameControl, SameFiles, Listed
<1>7. CASE OtherStep
  BY <1>7, OtherStepsKeepTypes DEF segVars, Listed
<1> QED
  BY <1>2, <1>3, <1>4, <1>5, <1>6, <1>7, StepsOfNext DEF Muxing

\* The list of an open stream loses a segment when the third after it comes.
LEMMA ListedUntilOutOfDate ==
    ASSUME TypeOK, ControlInv, Next, NEW g \in Gen, NEW n \in No, IsOpen(g)',
           ~IsOutOfDate(g, n) => n \in Listed(g),
           ~IsOutOfDate(g, n)'
    PROVE  n \in Listed(g)'
<1>1. CASE segments'[g] = segments[g]
  <2>1. Listed(g)' = Listed(g)
    BY <1>1 DEF Listed
  <2> QED
    BY <2>1 DEF IsOutOfDate
<1>2. CASE AddSegment(g)
  <2>1. ControlOf(g) /\ InFlight(g) /\ muxer[g] = "add"
    BY <1>2 DEF ControlInv, ControlOf, AddSegment, At, InFlight
  <2>2. /\ sequenceNo[g] \in Nat /\ n \in Nat
        /\ Listed(g)' = (Listed(g) \cup {sequenceNo[g]})
              \ (IF Len(segments[g]) = hlsRemainSegments THEN {segments[g][1]} ELSE {})
    <3>1. sequenceNo[g] \in Nat /\ n \in Nat
      BY DEF TypeOK, No
    <3> QED
      BY <1>2, <2>1, <3>1, AddSegmentSlides
  <2>3. Len(segments[g]) = hlsRemainSegments =>
            segments[g][1] \in Nat /\ sequenceNo[g] = segments[g][1] + hlsRemainSegments
    <3>1. segments[g] \in Seq(No) /\ curr[g] \in No
      BY <2>1, ConstantsAreNumbers DEF TypeOK, ControlOf, MuxerInv, No
    <3>2. Len(Append(segments[g], curr[g])) = Len(segments[g]) + 1
      BY <3>1
    <3> QED
      BY <2>1, <3>2, OldestIsPast DEF hlsRemainSegments, No
  <2>4. sequenceNo[g] \in Listed(g)'
    BY <2>2, <2>3 DEF hlsRemainSegments
  <2>5. ~(sequenceNo[g] >= n + hlsRemainSegments)
    BY <2>4 DEF IsOutOfDate
  <2>6. ~IsOutOfDate(g, n)
    <3>1. ASSUME NEW m \in Listed(g), m >= n + hlsRemainSegments
          PROVE  FALSE
      <4>1. m \in Nat /\ m < sequenceNo[g]
        BY <2>1, ListedArePast DEF No
      <4> QED
        BY <2>2, <2>5, <3>1, <4>1 DEF hlsRemainSegments
    <3> QED
      BY <3>1 DEF IsOutOfDate
  <2>7. Len(segments[g]) = hlsRemainSegments => n # segments[g][1]
    BY <2>2, <2>3, <2>5 DEF hlsRemainSegments
  <2> QED
    BY <2>2, <2>6, <2>7
<1>3. CASE segments'[g] # segments[g] /\ ~AddSegment(g)
  <2>1. CASE Muxing(g) \/ \E c \in Cell : NewSegmentGenerator(g, c)
    BY <1>3, <2>1 DEF Muxing, NewSegmentGenerator, TakeFrame, MuxerEnds, ReapNil, ReapLoad,
       SegmentClose, SegmentOpen, SegmentOpenFails, FlushLoad, FlushPanics, FlushWrite, segVars
  <2>2. CASE \E k \in Closer : Closing(g, k)
    <3>1. PICK k \in Closer : ClosePlaylist(g, k)
      BY <1>3, <2>2 DEF Closing, CloseBegins, CloseMuxer, CloseLoad, CloseTake, CloseDelete,
         CloseClear, segVars
    <3> QED
      BY <3>1, ClosePlaylistEmpties DEF IsOpen
  <2>3. CASE OtherStep
    BY <1>3, <2>3, OtherStepsKeepTypes DEF segVars
  <2>4. CASE \E h \in Gen : /\ h # g
                            /\ \/ Muxing(h) \/ \E c \in Cell : NewSegmentGenerator(h, c)
                               \/ \E k \in Closer : Closing(h, k)
    BY <1>3, <2>4, MuxingKeepsOthers, ClosingKeepsOthers DEF SameControl
  <2> QED
    BY <2>1, <2>2, <2>3, <2>4, StepsOfNext
<1> QED
  BY <1>1, <1>2, <1>3

\* Only requests change what requests read.
LEMMA ReadersStep ==
    ASSUME TypeOK, Next, NEW r \in Reader, reader'[r] # NoRead
    PROVE  reader'[r] = reader[r] \/ \E g \in Gen, n \in No : GetTS(r, g, n)
<1>1. CASE \E g \in Gen : \/ Muxing(g) \/ \E c \in Cell : NewSegmentGenerator(g, c)
                          \/ \E k \in Closer : Closing(g, k)
  <2>1. CASE \E g \in Gen : Muxing(g) \/ \E c \in Cell : NewSegmentGenerator(g, c)
    BY <2>1 DEF Muxing, NewSegmentGenerator, TakeFrame, MuxerEnds, ReapNil, ReapLoad,
       SegmentClose, AddSegment, SegmentOpen, SegmentOpenFails, FlushLoad, FlushPanics, FlushWrite
  <2>2. CASE \E g \in Gen, k \in Closer : Closing(g, k)
    BY <2>2 DEF Closing, CloseBegins, CloseMuxer, CloseLoad, CloseTake, CloseDelete, CloseClear,
       ClosePlaylist
  <2> QED
    BY <1>1, <2>1, <2>2
<1>2. CASE OtherStep
  <2>1. CASE \E g \in Gen : \/ \E n \in No : DelayedDelete(g, n)
                            \/ \E q, b \in Client : M3u8(q, g, b)
    BY <2>1 DEF DelayedDelete, M3u8
  <2>2. CASE \E q \in Client : M3u8Sent(q)
    BY <2>2 DEF M3u8Sent
  <2>3. CASE \E t \in Reader : TSSent(t)
    BY <2>3 DEF TSSent, TypeOK
  <2>4. CASE \E t \in Reader, g \in Gen, n \in No : GetTS(t, g, n)
    BY <2>4 DEF GetTS, TypeOK
  <2> QED
    BY <1>2, <2>1, <2>2, <2>3, <2>4 DEF OtherStep
<1> QED
  BY <1>1, <1>2, StepsOfNext

\* A request that is answered has what it asked for.
LEMMA NextKeepsReaders ==
    ASSUME TypeOK, ControlInv, BytesInv, Next, NEW r \in Reader
    PROVE  ReaderInv(r)'
<1> SUFFICES ASSUME reader'[r] # NoRead
             PROVE  ReaderInv(r)'
  BY DEF ReaderInv
<1>0. memory' = memory
  BY NothingIsUndone
<1>1. CASE \E g \in Gen, n \in No : GetTS(r, g, n)
  <2>1. PICK g \in Gen, n \in No : GetTS(r, g, n)
    BY <1>1
  <2>2. /\ n \in Listed(g) /\ Bytes(g, n) # None
        /\ reader'[r] = [gen |-> g, no |-> n, cell |-> Bytes(g, n)]
        /\ UNCHANGED <<memory, segVars, storeVars, muxVars, closeVars>>
    BY <2>1 DEF GetTS, TypeOK
  <2>3. IsPast(g, n)
    <3>1. ControlOf(g)
      BY DEF ControlInv, ControlOf
    <3> QED
      BY <2>2, <3>1, ListedArePast DEF IsPast
  <2>4. IsPast(g, n)'
    BY <2>2, <2>3 DEF IsPast, InFlight, segVars, muxVars, closeVars
  <2>5. memory => Bytes(g, n) = file'[g][n]
    BY <2>2 DEF Bytes, storeVars
  <2>6. ~memory /\ OwnsPath(g)' => IsSegment(Bytes(g, n), g, n)
    BY <2>2, NothingIsUndone DEF BytesInv, FileInv, ContentInv, Undisturbed
  <2>7. PICK c : c = Bytes(g, n)
    OBVIOUS
  <2>8. IsSegment(c, g, n) => IsSegment(c, g, n)'
    BY <2>2, NothingIsUndone DEF IsSegment, storeVars
  <2>9. /\ reader'[r].gen = g /\ reader'[r].no = n /\ reader'[r].cell = c
    BY <2>2, <2>7
  <2>10. /\ memory' => c = file'[g][n]
         /\ ~memory' /\ OwnsPath(g)' => IsSegment(c, g, n)'
    BY <1>0, <2>5, <2>6, <2>7, <2>8
  <2>11. n \in Listed(g)'
    BY <2>2 DEF Listed, segVars
  <2> QED
    BY <2>4, <2>9, <2>10, <2>11 DEF ReaderInv, IsPast, InFlight, IsSegment, OwnsPath, IsOpen, Listed,
       IsOutOfDate
<1>2. CASE reader'[r] = reader[r]
  <2>1. PICK g, n, c : g = reader[r].gen /\ n = reader[r].no /\ c = reader[r].cell
    OBVIOUS
  <2>2. g \in Gen /\ n \in No /\ c \in Cell
    BY <1>2, <2>1 DEF TypeOK
  <2>3. /\ IsPast(g, n)
        /\ memory /\ n \in Listed(g) /\ IsOpen(g) => c = file[g][n]
        /\ IsOpen(g) /\ ~IsOutOfDate(g, n) => n \in Listed(g)
        /\ ~memory /\ OwnsPath(g) => IsSegment(c, g, n)
    BY <1>2, <2>1 DEF BytesInv, ReaderInv
  <2>4. IsPast(g, n)'
    BY <2>2, <2>3, PastStays
  <2>5. memory' /\ n \in Listed(g)' /\ IsOpen(g)' => c = file'[g][n]
    BY <1>0, <2>2, <2>3, ListedKeepTheirBuffers, NothingIsUndone
  <2>6. ~memory' /\ OwnsPath(g)' => IsSegment(c, g, n)'
    <3>1. ~memory' /\ OwnsPath(g)' => ~memory /\ OwnsPath(g)
      BY <1>0, <2>2, NothingIsUndone
    <3> QED
      BY <1>2, <2>1, <2>2, <2>3, <3>1, InodeStaysOwn DEF BytesInv, FileInv
  <2>7. reader'[r].gen = g /\ reader'[r].no = n /\ reader'[r].cell = c
    BY <1>2, <2>1
  <2>8. IsOpen(g)' /\ ~IsOutOfDate(g, n)' => n \in Listed(g)'
    BY <2>2, <2>3, ListedUntilOutOfDate, NothingIsUndone
  <2> QED
    BY <2>4, <2>5, <2>6, <2>7, <2>8 DEF ReaderInv, IsPast, InFlight, IsSegment, OwnsPath, IsOpen,
       Listed, IsOutOfDate
<1> QED
  BY <1>1, <1>2, ReadersStep

-----------------------------------------------------------------------------
(* The names of inodes, and deletes that are due.                          *)

\* What refers to an inode after a step referred to it before by its name.
LEMMA NamesStay ==
    ASSUME InodesHaveNames, memory' = memory,
           \A p \in Path, m \in No : disk'[p][m] \in {disk[p][m], None},
           \A h \in Gen, m \in No : file'[h][m] \in {file[h][m], None},
           \A h \in Gen : \/ out'[h] = None
                          \/ out'[h] = out[h] /\ curr'[h] = curr[h]
                          \/ curr'[h] \in No /\ out'[h] = file[h][curr'[h]],
           \A r \in Reader : reader'[r] # NoRead =>
              \/ reader'[r] = reader[r]
              \/ /\ reader'[r].gen \in Gen /\ reader'[r].no \in No
                 /\ reader'[r].cell = Name(reader'[r].gen, reader'[r].no)
    PROVE  InodesHaveNames'
<1> SUFFICES ASSUME ~memory
             PROVE  InodesHaveNames'
  BY DEF InodesHaveNames
<1>1. PICK name \in [Cell -> (Path \X No) \cup {None}] : \A c \in Cell :
        /\ \A p \in Path, n \in No : disk[p][n] = c => name[c] = <<p, n>>
        /\ \A g \in Gen : /\ \A n \in No : file[g][n] = c => name[c] = <<PathOf[g], n>>
                          /\ out[g] = c => name[c] = <<PathOf[g], curr[g]>>
        /\ \A r \in Reader : reader[r] # NoRead /\ reader[r].cell = c =>
              name[c] = <<PathOf[reader[r].gen], reader[r].no>>
  BY DEF InodesHaveNames
<1>2. ASSUME NEW c \in Cell
      PROVE  /\ \A p \in Path, n \in No : disk'[p][n] = c => name[c] = <<p, n>>
             /\ \A g \in Gen : /\ \A n \in No : file'[g][n] = c => name[c] = <<PathOf[g], n>>
                               /\ out'[g] = c => name[c] = <<PathOf[g], curr'[g]>>
             /\ \A r \in Reader : reader'[r] # NoRead /\ reader'[r].cell = c =>
                   name[c] = <<PathOf[reader'[r].gen], reader'[r].no>>
  <2>1. c # None
    BY ConstantsAreNumbers
  <2>2. \A p \in Path, n \in No : disk'[p][n] = c => name[c] = <<p, n>>
    BY <1>1, <2>1
  <2>3. \A g \in Gen, n \in No : file'[g][n] = c => name[c] = <<PathOf[g], n>>
    BY <1>1, <2>1
  <2>4. \A g \in Gen : out'[g] = c => name[c] = <<PathOf[g], curr'[g]>>
    BY <1>1, <2>1
  <2>5. ASSUME NEW r \in Reader, reader'[r] # NoRead, reader'[r].cell = c
        PROVE  name[c] = <<PathOf[reader'[r].gen], reader'[r].no>>
    <3>1. CASE reader'[r] = reader[r]
      BY <1>1, <2>5, <3>1
    <3>2. CASE reader'[r] # reader[r]
      <4>1. PICK g \in Gen, n \in No : g = reader'[r].gen /\ n = reader'[r].no /\ Name(g, n) = c
        BY <2>5, <3>2
      <4>2. PathOf[g] \in Path
        BY ConstantsAreNumbers
      <4>3. name[c] = <<PathOf[g], n>>
        BY <1>1, <4>1, <4>2 DEF Name
      <4> QED
        BY <4>1, <4>3
    <3> QED
      BY <3>1, <3>2
  <2> QED
    BY <2>2, <2>3, <2>4, <2>5
<1> QED
  BY <1>2 DEF InodesHaveNames

\* A new file's inode gets the name it is opened by.
LEMMA OpenKeepsNames ==
    ASSUME TypeOK, InodesHaveNames, PathInv, ~memory, NEW g \in Gen, NEW m \in No, NEW c \in Cell,
           OpenFile(g, m, c), UNCHANGED <<memory, curr, out, reader>>
    PROVE  InodesHaveNames'
<1>1. PICK old \in [Cell -> (Path \X No) \cup {None}] : \A d \in Cell :
        /\ \A p \in Path, n \in No : disk[p][n] = d => old[d] = <<p, n>>
        /\ \A h \in Gen : /\ \A n \in No : file[h][n] = d => old[d] = <<PathOf[h], n>>
                          /\ out[h] = d => old[d] = <<PathOf[h], curr[h]>>
        /\ \A r \in Reader : reader[r] # NoRead /\ reader[r].cell = d =>
              old[d] = <<PathOf[reader[r].gen], reader[r].no>>
  BY DEF InodesHaveNames
<1>0. PathOf[g] \in Path /\ c # None
  BY ConstantsAreNumbers
<1>2. PICK name : name = [old EXCEPT ![c] = <<PathOf[g], m>>]
  OBVIOUS
<1>3. /\ name \in [Cell -> (Path \X No) \cup {None}]
      /\ name[c] = <<PathOf[g], m>>
      /\ \A d \in Cell : d # c => name[d] = old[d]
  BY <1>0, <1>1, <1>2
<1>4. /\ \A p \in Path, n \in No : disk[p][n] = c => name[c] = <<p, n>>
      /\ \A h \in Gen : /\ \A n \in No : file[h][n] = c => name[c] = <<PathOf[h], n>>
                        /\ out[h] = c => name[c] = <<PathOf[h], curr[h]>>
      /\ \A r \in Reader : reader[r] # NoRead /\ reader[r].cell = c =>
            name[c] = <<PathOf[reader[r].gen], reader[r].no>>
  <2>1. CASE c = Name(g, m)
    <3>1. old[c] = <<PathOf[g], m>>
      BY <1>0, <1>1, <2>1 DEF Name
    <3> QED
      BY <1>1, <1>3, <3>1
  <2>2. CASE New(c)
    <3>1. /\ \A h \in Gen : out[h] # c /\ \A n \in No : file[h][n] # c /\ Name(h, n) # c
          /\ \A r \in Reader : reader[r].cell # c
      BY <2>2 DEF New, Unused
    <3>2. ASSUME NEW p \in Path, NEW n \in No
          PROVE  disk[p][n] # c
      <4>1. CASE \E h \in Gen : PathOf[h] = p
        BY <3>1, <4>1 DEF Name
      <4>2. CASE ~ \E h \in Gen : PathOf[h] = p
        BY <1>0, <4>2 DEF PathInv
      <4> QED
        BY <4>1, <4>2
    <3> QED
      BY <3>1, <3>2
  <2> QED
    BY <2>1, <2>2 DEF OpenFile, Opens
<1>5. /\ \A p \in Path, n \in No : disk'[p][n] = disk[p][n] \/ (p = PathOf[g] /\ n = m /\ disk'[p][n] = c)
      /\ \A h \in Gen, n \in No : file'[h][n] = file[h][n] \/ (h = g /\ n = m /\ file'[h][n] = c)
  BY DEF OpenFile, TypeOK
<1>6. ASSUME NEW d \in Cell
      PROVE  /\ \A p \in Path, n \in No : disk'[p][n] = d => name[d] = <<p, n>>
             /\ \A h \in Gen : /\ \A n \in No : file'[h][n] = d => name[d] = <<PathOf[h], n>>
                               /\ out'[h] = d => name[d] = <<PathOf[h], curr'[h]>>
             /\ \A r \in Reader : reader'[r] # NoRead /\ reader'[r].cell = d =>
                   name[d] = <<PathOf[reader'[r].gen], reader'[r].no>>
  <2>1. CASE d = c
    BY <1>3, <1>4, <1>5, <2>1
  <2>2. CASE d # c
    BY <1>1, <1>3, <1>5, <2>2
  <2> QED
    BY <2>1, <2>2
<1> QED
  BY <1>3, <1>6 DEF InodesHaveNames

\* Every step keeps the names of inodes.
LEMMA NextKeepsNames ==
    ASSUME TypeOK, ControlInv, BytesInv, Next
    PROVE  InodesHaveNames'
<1>0. InodesHaveNames /\ PathInv /\ (\A g \in Gen : HandleInv(g)) /\ memory' = memory
  BY NothingIsUndone DEF BytesInv, FileInv
<1>a. \A g \in Gen : PathOf[g] \in Path
  BY ConstantsAreNumbers
<1>b. /\ disk \in [Path -> [No -> Cell \cup {None}]]
      /\ file \in [Gen -> [No -> Cell \cup {None}]]
  BY DEF TypeOK
<1>1. CASE memory
  BY <1>0, <1>1 DEF InodesHaveNames
<1>2. CASE \E g \in Gen : \/ TakeFrame(g) \/ MuxerEnds(g) \/ ReapNil(g) \/ FlushPanics(g)
                          \/ SegmentOpenFails(g)
  <2>1. UNCHANGED <<file, disk, out, curr, reader>>
    BY <1>2 DEF TakeFrame, MuxerEnds, ReapNil, FlushPanics, SegmentOpenFails, storeVars
  <2> QED
    BY <1>0, <2>1, NamesStay
<1>3. CASE \E g \in Gen : ReapLoad(g) \/ FlushLoad(g) \/ FlushWrite(g)
  <2>1. PICK g \in Gen : ReapLoad(g) \/ FlushLoad(g) \/ FlushWrite(g)
    BY <1>3
  <2>2. UNCHANGED <<file, disk, reader>>
    BY <2>1 DEF ReapLoad, FlushLoad, FlushWrite, storeVars
  <2>3. \A h \in Gen \ {g} : out'[h] = out[h] /\ curr'[h] = curr[h]
    BY <2>1 DEF ReapLoad, FlushLoad, FlushWrite, TypeOK
  <2>4. out'[g] = None \/ (curr'[g] \in No /\ out'[g] = file[g][curr'[g]])
    <3>1. CASE ReapLoad(g)
      <4>1. muxer[g] = "reap" /\ out' = out
        BY <3>1 DEF ReapLoad, At
      <4>2. out[g] = None
        BY <1>0, <4>1 DEF HandleInv
      <4> QED
        BY <4>1, <4>2
    <3>2. CASE FlushLoad(g)
      BY <3>2 DEF FlushLoad, TypeOK
    <3>3. CASE FlushWrite(g)
      BY <3>3 DEF FlushWrite, TypeOK
    <3> QED
      BY <2>1, <3>1, <3>2, <3>3
  <2>5. \A h \in Gen : \/ out'[h] = None
                       \/ out'[h] = out[h] /\ curr'[h] = curr[h]
                       \/ curr'[h] \in No /\ out'[h] = file[h][curr'[h]]
    BY <2>3, <2>4
  <2> QED
    BY <1>0, <2>2, <2>5, NamesStay
<1>4. CASE \E g \in Gen : SegmentClose(g)
  <2>1. UNCHANGED <<disk, out, curr, reader>>
    BY <1>4 DEF SegmentClose
  <2>2. \A h \in Gen, m \in No : file'[h][m] \in {file[h][m], None}
    BY <1>4 DEF SegmentClose, CloseFile, TypeOK
  <2> QED
    BY <1>0, <2>1, <2>2, NamesStay
<1>5. CASE ~memory /\ \E g \in Gen : AddSegment(g)
  <2>1. PICK g \in Gen : AddSegment(g)
    BY <1>5
  <2>2. UNCHANGED <<out, reader, file>> /\ muxer[g] = "add"
    BY <1>5, <2>1 DEF AddSegment, DeleteFiles, At
  <2>3. \A p \in Path, m \in No : disk'[p][m] \in {disk[p][m], None}
    <3>1. PICK S : DeleteFiles(g, S)
      BY <2>1 DEF AddSegment
    <3>2. disk' = [disk EXCEPT ![PathOf[g]] = [n \in No |-> IF n \in S THEN None ELSE @[n]]]
      BY <1>5, <3>1 DEF DeleteFiles
    <3> QED
      BY <1>a, <1>b, <3>2
  <2>4. \A h \in Gen : out'[h] = None \/ (out'[h] = out[h] /\ curr'[h] = curr[h])
    <3>1. out[g] = None
      BY <1>0, <2>2 DEF HandleInv
    <3>2. \A h \in Gen \ {g} : curr'[h] = curr[h]
      BY <2>1 DEF AddSegment, TypeOK
    <3> QED
      BY <2>2, <3>1, <3>2
  <2> QED
    BY <1>0, <2>2, <2>3, <2>4, NamesStay
<1>6. CASE ~memory /\ \E g \in Gen, c \in Cell : SegmentOpen(g, c) \/ NewSegmentGenerator(g, c)
  <2>1. PICK g \in Gen, c \in Cell : SegmentOpen(g, c) \/ NewSegmentGenerator(g, c)
    BY <1>6
  <2>2. UNCHANGED <<memory, curr, out, reader>>
    BY <2>1 DEF SegmentOpen, NewSegmentGenerator
  <2>3. \E m \in No : OpenFile(g, m, c)
    <3>1. CASE SegmentOpen(g, c)
      <4>1. sequenceNo[g] + 1 \in No
        BY <3>1, ConstantsAreNumbers DEF SegmentOpen, TypeOK, No
      <4> QED
        BY <3>1, <4>1 DEF SegmentOpen
    <3>2. CASE NewSegmentGenerator(g, c)
      <4>1. 1 \in No
        BY ConstantsAreNumbers DEF No
      <4> QED
        BY <3>2, <4>1 DEF NewSegmentGenerator
    <3> QED
      BY <2>1, <3>1, <3>2
  <2> QED
    BY <1>0, <1>6, <2>2, <2>3, OpenKeepsNames
<1>7. CASE ~memory /\ \E g \in Gen, k \in Closer : Closing(g, k)
  <2>1. PICK g \in Gen, k \in Closer : Closing(g, k)
    BY <1>7
  <2>2. UNCHANGED <<out, curr, reader>>
    BY <2>1 DEF Closing, CloseBegins, CloseMuxer, CloseLoad, CloseTake, CloseDelete, CloseClear,
       ClosePlaylist, muxVars
  <2>3. /\ \A p \in Path, m \in No : disk'[p][m] \in {disk[p][m], None}
        /\ \A h \in Gen, m \in No : file'[h][m] \in {file[h][m], None}
    <3>1. CASE CloseBegins(g, k) \/ CloseMuxer(g, k) \/ CloseLoad(g, k)
      BY <3>1 DEF CloseBegins, CloseMuxer, CloseLoad, storeVars
    <3>2. CASE CloseTake(g, k) \/ CloseClear(g, k)
      <4>1. disk' = disk /\ \E n : file' = [file EXCEPT ![g][n] = None]
        BY <1>7, <3>2 DEF CloseTake, CloseFile, CloseClear
      <4> QED
        BY <1>b, <4>1
    <3>3. CASE CloseDelete(g, k)
      <4>1. file' = file /\ \E n : disk' = [disk EXCEPT ![PathOf[g]][n] = None]
        BY <1>7, <3>3 DEF CloseDelete
      <4> QED
        BY <1>a, <1>b, <4>1
    <3>4. CASE ClosePlaylist(g, k)
      <4>1. PICK S : DeleteFiles(g, S)
        BY <3>4 DEF ClosePlaylist
      <4>2. /\ file' = file
            /\ disk' = [disk EXCEPT ![PathOf[g]] = [n \in No |-> IF n \in S THEN None ELSE @[n]]]
        BY <1>7, <4>1 DEF DeleteFiles
      <4> QED
        BY <1>a, <1>b, <4>2
    <3> QED
      BY <2>1, <3>1, <3>2, <3>3, <3>4 DEF Closing
  <2> QED
    BY <1>0, <2>2, <2>3, NamesStay
<1>8. CASE ~memory /\ OtherStep
  <2>1. UNCHANGED <<file, out, curr>>
    BY <1>8, OtherStepsKeepTypes DEF muxVars
  <2>2. \A p \in Path, m \in No : disk'[p][m] \in {disk[p][m], None}
    <3>1. CASE \E g \in Gen, n \in No : DelayedDelete(g, n)
      BY <1>a, <3>1 DEF DelayedDelete, TypeOK
    <3>2. CASE ~ \E g \in Gen, n \in No : DelayedDelete(g, n)
      BY <1>8, <3>2 DEF OtherStep, GetTS, TSSent, M3u8, M3u8Sent, storeVars
    <3> QED
      BY <3>1, <3>2
  <2>3. ASSUME NEW r \in Reader, reader'[r] # NoRead
        PROVE  \/ reader'[r] = reader[r]
               \/ /\ reader'[r].gen \in Gen /\ reader'[r].no \in No
                  /\ reader'[r].cell = Name(reader'[r].gen, reader'[r].no)
    <3>1. CASE \E g \in Gen, n \in No : GetTS(r, g, n)
      <4>1. PICK g \in Gen, n \in No : GetTS(r, g, n)
        BY <3>1
      <4>2. reader'[r] = [gen |-> g, no |-> n, cell |-> Name(g, n)]
        BY <1>8, <4>1 DEF GetTS, Bytes, TypeOK
      <4> QED
        BY <4>2
    <3> QED
      BY <2>3, <3>1, ReadersStep
  <2> QED
    BY <1>0, <2>1, <2>2, <2>3, NamesStay
<1> QED
  BY <1>1, <1>2, <1>3, <1>4, <1>5, <1>6, <1>7, <1>8, StepsOfNext DEF Muxing

\* A path that no stream ever had has no files.
LEMMA NextKeepsPaths ==
    ASSUME TypeOK, ControlInv, PathInv, Next
    PROVE  PathInv'
<1> SUFFICES ASSUME NEW p \in Path, \A g \in Gen : PathOf[g] = p => muxer'[g] = "none",
                    NEW n \in No
             PROVE  disk'[p][n] = None
  BY DEF PathInv
<1>1. disk[p][n] = None
  BY NothingIsUndone DEF PathInv
<1>2. CASE \E g \in Gen : \/ Muxing(g) \/ \E c \in Cell : NewSegmentGenerator(g, c)
                          \/ \E k \in Closer : Closing(g, k)
  <2>1. disk'[p] = disk[p]
    BY <1>2, OtherDiskStays
  <2> QED
    BY <1>1, <2>1
<1>3. CASE OtherStep
  <2>1. CASE \E g \in Gen, m \in No : DelayedDelete(g, m)
    BY <1>1, <2>1, ConstantsAreNumbers DEF DelayedDelete, TypeOK
  <2>2. CASE ~ \E g \in Gen, m \in No : DelayedDelete(g, m)
    BY <1>1, <1>3, <2>2 DEF OtherStep, GetTS, TSSent, M3u8, M3u8Sent, storeVars
  <2> QED
    BY <2>1, <2>2
<1> QED
  BY <1>2, <1>3, StepsOfNext

\* A delete is scheduled for a closed stream, or one whose path is another's
\* as well.
LEMMA NextKeepsDelayed ==
    ASSUME TypeOK, ControlInv, BytesInv, Next
    PROVE  DelayedInv'
<1> SUFFICES ASSUME NEW x \in delayed'
             PROVE  muxer'[x[1]] # "none" /\ (OwnsPath(x[1])' => ~IsOpen(x[1])')
  BY DEF DelayedInv
<1>1. CASE x \in delayed
  <2>1. x[1] \in Gen
    BY <1>1 DEF TypeOK, Segment
  <2>2. muxer[x[1]] # "none" /\ (OwnsPath(x[1]) => ~IsOpen(x[1]))
    BY <1>1 DEF BytesInv, DelayedInv
  <2> QED
    BY <2>1, <2>2, NothingIsUndone
<1>2. CASE x \notin delayed
  <2>1. CASE \E g \in Gen : AddSegment(g)
    <3>1. PICK g \in Gen : AddSegment(g)
      BY <2>1
    <3>2. PICK all : all = Append(segments[g], curr[g])
      OBVIOUS
    <3>3. /\ muxer[g] = "add" /\ muxer'[g] = "open"
          /\ DeleteFiles(g, IF Len(all) > hlsRemainSegments THEN {Head(all)} ELSE {})
      BY <3>1, <3>2 DEF AddSegment, At, TypeOK
    <3>4. /\ ~memory /\ Len(all) > hlsRemainSegments
          /\ x = <<g, Head(all)>> /\ Name(g, Head(all)) = None
      BY <1>2, <3>3 DEF DeleteFiles
    <3>5. Head(all) \in Listed(g) /\ Head(all) \in No
      <4>1. ControlOf(g)
        BY DEF ControlInv, ControlOf
      <4>2. Head(all) = segments[g][1] /\ Len(segments[g]) = hlsRemainSegments
            /\ segments[g][1] \in No
        BY <3>2, <3>3, <3>4, <4>1, OldestIsPast
      <4>3. 1 \in 1..Len(segments[g])
        BY <4>2 DEF hlsRemainSegments
      <4> QED
        BY <4>2, <4>3 DEF Listed
    <3>6. ~(IsOpen(g) /\ OwnsPath(g))
      BY <3>4, <3>5 DEF BytesInv, FileInv, NeedInv, IsNeeded, Undisturbed, Bytes
    <3> QED
      BY <3>3, <3>4, <3>6, NothingIsUndone
  <2>2. CASE \E g \in Gen, k \in Closer : ClosePlaylist(g, k)
    <3>1. PICK g \in Gen, k \in Closer : ClosePlaylist(g, k)
      BY <2>2
    <3>2. x[1] = g
      BY <1>2, <3>1 DEF ClosePlaylist, DeleteFiles
    <3>3. closer'[g][k] = "done" /\ muxer' = muxer /\ closer[g][k] = "list"
      BY <3>1, ClosePlaylistEmpties
    <3>4. muxer[g] # "none"
      BY <3>3 DEF ControlInv, MuxerInv
    <3> QED
      BY <3>2, <3>3, <3>4 DEF IsOpen
  <2>3. CASE OtherStep
    BY <1>2, <2>3 DEF OtherStep, DelayedDelete, GetTS, TSSent, M3u8, M3u8Sent, storeVars
  <2>4. CASE \E g \in Gen : ~AddSegment(g) /\ (Muxing(g) \/ \E c \in Cell : NewSegmentGenerator(g, c))
    BY <1>2, <2>4 DEF Muxing, NewSegmentGenerator, TakeFrame, MuxerEnds, ReapNil, ReapLoad,
       SegmentClose, SegmentOpen, SegmentOpenFails, FlushLoad, FlushPanics, FlushWrite, storeVars
  <2>5. CASE \E g \in Gen, k \in Closer : ~ClosePlaylist(g, k) /\ Closing(g, k)
    BY <1>2, <2>5 DEF Closing, CloseBegins, CloseMuxer, CloseLoad, CloseTake, CloseDelete,
       CloseClear, storeVars
  <2> QED
    BY <2>1, <2>2, <2>3, <2>4, <2>5, StepsOfNext
<1> QED
  BY <1>1, <1>2

-----------------------------------------------------------------------------
(* The invariant of the bytes, and what follows.                           *)

\* Every step keeps the handles, and what is needed and left.
LEMMA NextKeepsFiles ==
    ASSUME TypeOK, ControlInv, OwnerInv, BytesInv, Next, NEW g \in Gen
    PROVE  FileInv(g)'
<1>0. /\ memory' = memory /\ (OwnsPath(g)' => OwnsPath(g)) /\ (Undisturbed(g)' => Undisturbed(g))
      /\ Next /\ TypeOK /\ ControlInv
  BY NothingIsUndone
<1>1. ControlOf(g) /\ HandleInv(g) /\ NeedInv(g) /\ LeftInv(g) /\ PathInv /\ DelayedInv
  BY DEF BytesInv, FileInv, ControlInv, ControlOf
<1>2. HandleInv(g)' /\ NeedInv(g)' /\ LeftInv(g)'
  <2>1. CASE Muxing(g) \/ \E c \in Cell : NewSegmentGenerator(g, c)
    <3>1. HandleInv(g)'
      BY <1>0, <1>1, <2>1, MuxerMovesKeepHandles, SegmentCloseKeepsHandles, AddSegmentKeepsHandles,
         OpenKeepsHandles DEF Muxing
    <3>2. NeedInv(g)'
      BY <1>0, <1>1, <2>1, MuxingKeepsNeeds
    <3>3. LeftInv(g)'
      BY <1>0, <1>1, <2>1, MuxingKeepsLeft
    <3> QED
      BY <3>1, <3>2, <3>3
  <2>2. CASE \E k \in Closer : Closing(g, k)
    BY <1>0, <1>1, <2>2, ClosingKeepsHandles, ClosingKeepsLeft
  <2>3. CASE \E h \in Gen : /\ h # g
                            /\ \/ Muxing(h) \/ \E c \in Cell : NewSegmentGenerator(h, c)
                               \/ \E k \in Closer : Closing(h, k)
    <3>1. SameControl(g) /\ SameFiles(g)
      BY <1>0, <2>3, MuxingKeepsOthers, ClosingKeepsOthers, OtherFilesStay
    <3>2. memory \/ OwnsPath(g)' => \A n \in No : Bytes(g, n)' = Bytes(g, n)
      BY <1>0, <2>3, OtherBytesStay
    <3>3. HandleInv(g)'
      BY <1>0, <1>1, <3>1, SameFilesKeepHandles
    <3> QED
      BY <1>0, <1>1, <3>1, <3>2, <3>3, SameBytesKeepNeeds
  <2>4. CASE OtherStep
    <3>1. SameControl(g) /\ SameFiles(g)
      BY <1>0, <2>4, OtherStepsKeepTypes DEF SameControl, SameFiles, segVars, muxVars, closeVars
    <3>2. HandleInv(g)'
      BY <1>0, <1>1, <3>1, SameFilesKeepHandles
    <3>3. CASE \E h \in Gen, m \in No : DelayedDelete(h, m)
      BY <1>0, <1>1, <3>2, <3>3, DelayedDeleteKeepsNeeds
    <3>4. CASE ~ \E h \in Gen, m \in No : DelayedDelete(h, m)
      <4>1. UNCHANGED <<memory, file, disk>>
        BY <2>4, <3>4 DEF OtherStep, GetTS, TSSent, M3u8, M3u8Sent, storeVars
      <4>2. \A n \in No : Bytes(g, n)' = Bytes(g, n)
        BY <4>1 DEF Bytes, Name
      <4> QED
        BY <1>0, <1>1, <3>1, <3>2, <4>2, SameBytesKeepNeeds
    <3> QED
      BY <3>3, <3>4
  <2> QED
    BY <1>0, <2>1, <2>2, <2>3, <2>4, StepsOfNext
<1>3. ContentInv(g)'
  BY NextKeepsContents
<1> QED
  BY <1>2, <1>3 DEF FileInv

\* Every step keeps the invariant of the bytes.
LEMMA NextKeepsBytes ==
    ASSUME TypeOK, ControlInv, OwnerInv, BytesInv, [Next]_vars
    PROVE  BytesInv'
<1>1. CASE Next
  <2>1. \A g \in Gen : FileInv(g)'
    BY <1>1, NextKeepsFiles
  <2>2. \A r \in Reader : ReaderInv(r)'
    BY <1>1, NextKeepsReaders
  <2>3. InodesHaveNames'
    BY <1>1, NextKeepsNames
  <2>4. DelayedInv'
    BY <1>1, NextKeepsDelayed
  <2>5. PathInv'
    BY <1>1, NextKeepsPaths DEF BytesInv
  <2> QED
    BY <2>1, <2>2, <2>3, <2>4, <2>5 DEF BytesInv
<1>2. CASE UNCHANGED vars
  <2>1. UNCHANGED <<memory, sequenceNo, current, segments, file, writable, disk, data, delayed,
                    muxer, curr, out, muxClosed, closer, reader>>
    BY <1>2 DEF vars, segVars, storeVars, muxVars, closeVars
  <2>2. \A g \in Gen : FileInv(g)' <=> FileInv(g)
    BY <2>1 DEF FileInv, HandleInv, NeedInv, ContentInv, LeftInv, Listed, Bytes, Name, IsOpen,
       IsNeeded, Undisturbed, OwnsPath, ClosedOnce, ClosedTwice, IsSegment, LateFrames, Returned
  <2>3. \A r \in Reader : ReaderInv(r)' <=> ReaderInv(r)
    BY <2>1 DEF ReaderInv, IsPast, InFlight, Listed, IsOpen, OwnsPath, IsSegment, LateFrames,
       Returned, IsOutOfDate
  <2>4. InodesHaveNames' <=> InodesHaveNames
    BY <2>1 DEF InodesHaveNames
  <2>5. (DelayedInv' <=> DelayedInv) /\ (PathInv' <=> PathInv)
    BY <2>1 DEF DelayedInv, PathInv, OwnsPath, IsOpen
  <2> QED
    BY <2>2, <2>3, <2>4, <2>5 DEF BytesInv
<1> QED
  BY <1>1, <1>2

\* At first there are no bytes.
LEMMA InitHasBytes ==
    ASSUME Init
    PROVE  BytesInv
<1>1. \A p \in Path, n \in No : disk[p][n] = None
  BY DEF Init
<1>2. \A g \in Gen : PathOf[g] \in Path
  BY ConstantsAreNumbers
<1>3. ASSUME NEW g \in Gen
      PROVE  FileInv(g)
  <2>1. /\ muxer[g] = "none" /\ writable[g] = {} /\ out[g] = None /\ Listed(g) = {}
        /\ \A n \in No : file[g][n] = None
    <3>1. segments[g] = <<>>
      BY DEF Init
    <3>2. Listed(g) = {}
      BY <3>1 DEF Listed
    <3> QED
      BY <3>2 DEF Init
  <2>2. \A n \in No : Bytes(g, n) = None
    BY <1>1, <1>2, <2>1 DEF Bytes, Name
  <2>3. HandleInv(g)
    BY <2>1 DEF HandleInv
  <2>4. \A n \in No : ~IsNeeded(g, n)
    <3>1. current[g] = 0
      BY DEF Init
    <3> QED
      BY <2>1, <3>1 DEF IsNeeded
  <2> QED
    BY <2>2, <2>3, <2>4 DEF FileInv, NeedInv, ContentInv, LeftInv
<1>4. \A r \in Reader : ReaderInv(r)
  BY DEF Init, ReaderInv
<1>5. InodesHaveNames
  <2>1. PICK name : name = [c \in Cell |-> None]
    OBVIOUS
  <2>2. \A c \in Cell : c # None
    BY ConstantsAreNumbers
  <2>3. \A c \in Cell : /\ \A p \in Path, n \in No : disk[p][n] # c
                        /\ \A g \in Gen : out[g] # c /\ \A n \in No : file[g][n] # c
    BY <2>2 DEF Init
  <2>4. \A r \in Reader : reader[r] = NoRead
    BY DEF Init
  <2>5. name \in [Cell -> (Path \X No) \cup {None}]
    BY <2>1
  <2> QED
    BY <2>3, <2>4, <2>5 DEF InodesHaveNames
<1>6. DelayedInv /\ PathInv
  BY <1>1 DEF Init, DelayedInv, PathInv
<1> QED
  BY <1>3, <1>4, <1>5, <1>6 DEF BytesInv

\* The whole invariant.
IInv == TypeOK /\ ControlInv /\ OwnerInv /\ BytesInv

\* The numbers, the buffers and the bytes, together.
THEOREM InvariantHolds == Spec => []IInv
<1>1. Init => IInv
  BY InitHasControl, InitHasOwners, InitHasBytes DEF IInv
<1>2. IInv /\ [Next]_vars => IInv'
  BY NextKeepsControl, NextKeepsOwners, NextKeepsBytes DEF IInv
<1> QED
  BY <1>1, <1>2, PTL DEF Spec

\* What a playlist lists can be fetched, is finished, and holds the frames of
\* that segment and no other (playlist.go addSegment, segmentfile.go open and
\* delete), for any number of streams that share the pool of buffers, and on
\* disk for any streams on other paths; in memory except for the one frame a
\* closed stream may write late (LateFrames).
THEOREM ListedAreIntact == Spec => []ListedIsIntact
<1>1. ASSUME IInv
      PROVE  ListedIsIntact
  <2> SUFFICES ASSUME NEW g \in Gen, IsOpen(g), Undisturbed(g), NEW n \in Listed(g)
               PROVE  /\ Bytes(g, n) # None /\ n \notin writable[g]
                      /\ IsSegment(Bytes(g, n), g, n)
    BY DEF ListedIsIntact
  <2>1. n \in No
    BY <1>1, TypesInParts, ListedAreNumbers DEF IInv
  <2>2. HandleInv(g) /\ NeedInv(g) /\ ContentInv(g)
    BY <1>1 DEF IInv, BytesInv, FileInv
  <2>3. Bytes(g, n) # None
    BY <2>1, <2>2 DEF NeedInv, IsNeeded
  <2>4. IsSegment(Bytes(g, n), g, n)
    BY <2>1, <2>2, <2>3 DEF ContentInv
  <2> QED
    BY <2>2, <2>3, <2>4 DEF HandleInv
<1> QED
  BY <1>1, InvariantHolds, PTL

\* A request for a segment (GetTS) has the bytes of that segment until they
\* are sent: in memory until the third segment after it is listed, when its
\* buffer may go to another (playlist.go addSegment); from a file always, even when
\* the file was deleted and the stream closed meanwhile.
THEOREM ReadersGetTheirSegments == Spec => []ReaderGetsItsSegment
<1>1. ASSUME IInv
      PROVE  ReaderGetsItsSegment
  <2> SUFFICES ASSUME NEW r \in Reader, reader[r] # NoRead,
                      Undisturbed(reader[r].gen),
                      memory => /\ IsOpen(reader[r].gen)
                                /\ ~IsOutOfDate(reader[r].gen, reader[r].no)
               PROVE  IsSegment(reader[r].cell, reader[r].gen, reader[r].no)
    BY DEF ReaderGetsItsSegment
  <2>1. PICK g, n, c : g = reader[r].gen /\ n = reader[r].no /\ c = reader[r].cell
    OBVIOUS
  <2>2. g \in Gen /\ n \in No /\ c \in Cell /\ c # None
    BY <1>1, <2>1, ConstantsAreNumbers DEF IInv, TypeOK
  <2>3. /\ memory /\ n \in Listed(g) /\ IsOpen(g) => c = file[g][n]
        /\ IsOpen(g) /\ ~IsOutOfDate(g, n) => n \in Listed(g)
        /\ ~memory /\ OwnsPath(g) => IsSegment(c, g, n)
    BY <1>1, <2>1 DEF IInv, BytesInv, ReaderInv
  <2>4. CASE memory
    <3>1. ContentInv(g)
      BY <1>1, <2>2 DEF IInv, BytesInv, FileInv
    <3>2. Bytes(g, n) = c /\ IsOpen(g) /\ Undisturbed(g)
      BY <2>1, <2>3, <2>4 DEF Bytes
    <3>3. IsSegment(c, g, n)
      BY <2>2, <3>1, <3>2 DEF ContentInv
    <3> QED
      BY <2>1, <3>3
  <2>5. CASE ~memory
    BY <2>1, <2>3, <2>5 DEF Undisturbed
  <2> QED
    BY <2>4, <2>5
<1> QED
  BY <1>1, InvariantHolds, PTL

\* Closing a stream (Stream.close, SegmentGenerator.Close, Playlist.Close)
\* leaves at most what the frame in hand makes: one listed segment and one
\* open segment, and their two files.
THEOREM ClosesLeaveOneFrame == Spec => []CloseLeavesOneFrame
<1>1. ASSUME IInv
      PROVE  CloseLeavesOneFrame
  <2> SUFFICES ASSUME NEW g \in Gen, \E k \in Closer : closer[g][k] = "done"
               PROVE  /\ Len(segments[g]) =< 1
                      /\ memory \/ OwnsPath(g) =>
                            Cardinality({n \in No : Bytes(g, n) # None}) =< 2
    BY DEF CloseLeavesOneFrame
  <2>1. ControlOf(g) /\ LeftInv(g) /\ TypeOK
    BY <1>1 DEF IInv, ControlInv, ControlOf, BytesInv, FileInv
  <2>2. Len(segments[g]) =< 1
    BY <2>1 DEF ControlOf, ListInv
  <2>3. PICK m : m = sequenceNo[g]
    OBVIOUS
  <2>4. m \in Nat
    BY <2>1, <2>3 DEF TypeOK
  <2>5. ASSUME NEW n \in Listed(g)
        PROVE  n \in {m - 1, m}
    <3>1. PICK s : s = segments[g]
      OBVIOUS
    <3>2. s \in Seq(No) /\ Len(s) =< 1
      BY <2>1, <2>2, <3>1 DEF TypeOK
    <3>3. PICK i \in 1..Len(s) : n = s[i]
      BY <3>1 DEF Listed
    <3>4. s # <<>> /\ Len(s) = 1
      <4>1. PICK l \in Nat : l = Len(s)
        BY <3>2
      <4>2. i \in 1..l /\ l =< 1
        BY <3>2, <3>3, <4>1
      <4>3. l = 1
        BY <4>2
      <4>4. Len(s) = 1
        BY <4>1, <4>3
      <4>5. ASSUME s = <<>>
            PROVE  FALSE
        <5>1. Len(s) = 0
          BY <4>5
        <5> QED
          BY <4>4, <5>1
      <4> QED
        BY <4>4, <4>5
    <3>5. n = Last(g) /\ n \in No /\ n =< m
      BY <2>1, <2>3, <3>1, <3>4, ListedArePast
    <3>6. Last(g) >= m - 1
      BY <2>1, <2>3, <3>1, <3>4 DEF ControlOf, ListInv
    <3>7. n >= m - 1 /\ n =< m /\ n \in Int /\ m \in Int
      BY <2>4, <3>5, <3>6 DEF No
    <3>8. n = m - 1 \/ n = m
      BY <3>7
    <3> QED
      BY <3>8
  <2>6. ASSUME memory \/ OwnsPath(g)
        PROVE  Cardinality({n \in No : Bytes(g, n) # None}) =< 2
    <3>1. PICK D : D = {n \in No : Bytes(g, n) # None}
      OBVIOUS
    <3>2. D \subseteq {m - 1, m}
      BY <2>1, <2>3, <2>5, <2>6, <3>1 DEF LeftInv
    <3>3. IsFiniteSet({m - 1}) /\ Cardinality({m - 1}) = 1
      BY FS_Singleton
    <3>4. IsFiniteSet({m - 1} \cup {m}) /\ Cardinality({m - 1} \cup {m}) =< 2
      <4>1. /\ IsFiniteSet({m - 1} \cup {m})
            /\ Cardinality({m - 1} \cup {m}) = IF m \in {m - 1} THEN Cardinality({m - 1})
                                               ELSE Cardinality({m - 1}) + 1
        BY <3>3, FS_AddElement
      <4> QED
        BY <3>3, <4>1
    <3>5. {m - 1} \cup {m} = {m - 1, m}
      OBVIOUS
    <3>6. Cardinality(D) =< Cardinality({m - 1, m}) /\ Cardinality({m - 1, m}) =< 2
          /\ Cardinality(D) \in Nat /\ Cardinality({m - 1, m}) \in Nat
      BY <3>2, <3>4, <3>5, FS_Subset, FS_CardinalityType
    <3>7. Cardinality(D) =< 2
      BY <3>6
    <3> QED
      BY <3>1, <3>7
  <2> QED
    BY <2>2, <2>6
<1> QED
  BY <1>1, InvariantHolds, PTL
=============================================================================
