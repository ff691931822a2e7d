---------------------------- MODULE PackDelivery ----------------------------
(***************************************************************************)
(* The packs of one kind on their way from the writer of a stream to its   *)
(* consumers: the pack cache (H264Cache, HevcCache or FlvCache), the GOP   *)
(* handed to a consumer that joins, and consumption.send with its queue    *)
(* limit.  Module MediaStream has the life cycle around it.                *)
(*                                                                         *)
(* A pack is its number in the stream and its shape: the NAL units (or the *)
(* tag type) that the caches look at, and whether the cache looks at it at *)
(* all (an RTP cache ignores the audio channel, FlvCache ignores nothing). *)
(***************************************************************************)
EXTENDS Integers, Sequences, FiniteSets

CONSTANTS
    Consumption,
    ParamOrder,   \* the parameter kinds in the order CachePack tests them
    Shape,        \* the shapes packs come in: [cached : BOOLEAN, nals : set]
    CacheGop,     \* the configuration option cachegop
    MaxQLen,      \* consumption.maxQLen (1000 in the code)
    MaxGop,       \* the source sends a key frame among any MaxGop packs
    MaxPack,      \* bound of the model: packs written
    NoPack        \* a parameter pack that was not seen yet

ParamKind == {ParamOrder[i] : i \in 1..Len(ParamOrder)}

ASSUME DeliveryAssumption ==
    /\ ParamOrder \in Seq(ParamKind)
    /\ Shape \subseteq [cached : BOOLEAN, nals : SUBSET (ParamKind \cup {"key"})]
    /\ "key" \notin ParamKind
    /\ CacheGop \in BOOLEAN
    /\ MaxQLen \in Nat
    /\ MaxGop \in Nat \ {0}
    /\ MaxPack \in Nat

Pack == [n : Nat, shape : Shape]

ASSUME NoPackAssumption == NoPack \notin Pack

IsParam(p)    == p.shape.cached /\ p.shape.nals \cap ParamKind # {}
InGop(p)      == p.shape.cached /\ p.shape.nals \cap ParamKind = {}
IsKeyframe(p) == InGop(p) /\ "key" \in p.shape.nals

\* An aggregation packet counts as the first parameter kind found in it.
ParamOf(p) ==
    ParamOrder[CHOOSE i \in 1..Len(ParamOrder) :
                 /\ ParamOrder[i] \in p.shape.nals
                 /\ \A j \in 1..(i-1) : ParamOrder[j] \notin p.shape.nals]

VARIABLES
    status,     \* Stream.status, "OK" or "Closed"
    published,  \* the packs that passed the status check, in order
    writing,    \* progress of the writer with the newest of them
    left,       \* the consumptions the Range of SendToAll has yet to visit
    params,     \* params[k]: the cached parameter pack of kind k
    gop,        \* the cached group of pictures
    joined,     \* joined[c]: progress of the StartConsume of c
    pushed,     \* pushed[c]: the packs pushed to the queue of c, in order
    popped,     \* popped[c]: how many of them its goroutine has popped
    prefix,     \* prefix[c]: how many of them sendGop pushed
    discarding  \* consumption.discarding

cacheVars == <<params, gop>>
queueVars == <<pushed, popped, prefix, discarding>>
vars == <<status, published, writing, left, cacheVars, joined, queueVars>>

TypeOK ==
    /\ status \in {"OK", "Closed"}
    /\ published \in Seq(Pack)
    /\ writing \in {"no", "cache", "range"}
    /\ left \in SUBSET Consumption
    /\ params \in [ParamKind -> Pack \cup {NoPack}]
    /\ gop \in Seq(Pack)
    /\ joined \in [Consumption -> {"no", "gopSent", "stored", "removed"}]
    /\ pushed \in [Consumption -> Seq(Pack)]
    /\ popped \in [Consumption -> Nat]
    /\ prefix \in [Consumption -> Nat]
    /\ discarding \in [Consumption -> BOOLEAN]

Init ==
    /\ status = "OK"
    /\ published = <<>>
    /\ writing = "no"
    /\ left = {}
    /\ params = [k \in ParamKind |-> NoPack]
    /\ gop = <<>>
    /\ joined = [c \in Consumption |-> "no"]
    /\ pushed = [c \in Consumption |-> <<>>]
    /\ popped = [c \in Consumption |-> 0]
    /\ prefix = [c \in Consumption |-> 0]
    /\ discarding = [c \in Consumption |-> FALSE]

Newest     == published[Len(published)]
QueueLen(c) == Len(pushed[c]) - popped[c]

\* How many packs were written since the last key frame, that one included.
SinceKey ==
    Cardinality({i \in 1..Len(published) :
                    \A j \in (i+1)..Len(published) : ~IsKeyframe(published[j])})

-----------------------------------------------------------------------------
(* The writer.                                                             *)

\* The status check of WriteRtpPacket.  MaxPack and MaxGop bound the source.
Write(s) ==
    LET p == [n |-> Len(published) + 1, shape |-> s] IN
    /\ writing = "no"
    /\ status = "OK"
    /\ Len(published) < MaxPack
    /\ IsKeyframe(p) \/ SinceKey < MaxGop
    /\ published' = Append(published, p)
    /\ writing' = "cache"
    /\ UNCHANGED <<status, left, cacheVars, joined, queueVars>>

\* Mutant of CachePack: a key frame does not reset the GOP.
CacheEndlessGop ==
    /\ writing = "cache"
    /\ params' = IF IsParam(Newest) THEN [params EXCEPT ![ParamOf(Newest)] = Newest]
                                    ELSE params
    /\ gop' = IF CacheGop /\ InGop(Newest) /\ (gop # <<>> \/ IsKeyframe(Newest))
                THEN Append(gop, Newest) ELSE gop
    /\ left' = {c \in Consumption : joined[c] = "stored"}
    /\ writing' = "range"
    /\ UNCHANGED <<status, published, joined, queueVars>>

\* CachePack, under the lock of the cache; then SendToAll begins its Range.
CachePack ==
    /\ writing = "cache"
    /\ params' = IF IsParam(Newest) THEN [params EXCEPT ![ParamOf(Newest)] = Newest]
                                    ELSE params
    /\ gop' = IF ~CacheGop \/ ~InGop(Newest) THEN gop
              ELSE IF IsKeyframe(Newest) THEN <<Newest>>
              ELSE IF gop # <<>> THEN Append(gop, Newest)
              ELSE gop
    /\ left' = {c \in Consumption : joined[c] = "stored"}
    /\ writing' = "range"
    /\ UNCHANGED <<status, published, joined, queueVars>>

\* Mutants of Discards: the limit is applied at every pack; its comparison is
\* the wrong way round.
DiscardsAnywhere(c) ==
    IF discarding[c] THEN QueueLen(c) >= MaxQLen ELSE QueueLen(c) > MaxQLen

DiscardsWhenShort(c) ==
    IF ~IsKeyframe(Newest) THEN discarding[c]
    ELSE IF discarding[c] THEN QueueLen(c) =< MaxQLen
    ELSE QueueLen(c) < MaxQLen

\* consumption.send: discarding changes at key frames only.
Discards(c) ==
    IF ~IsKeyframe(Newest) THEN discarding[c]
    ELSE IF discarding[c] THEN QueueLen(c) >= MaxQLen
    ELSE QueueLen(c) > MaxQLen

Send(c) ==
    /\ writing = "range"
    /\ c \in left
    /\ left' = left \ {c}
    /\ discarding' = [discarding EXCEPT ![c] = Discards(c)]
    /\ pushed' = IF Discards(c) THEN pushed
                 ELSE [pushed EXCEPT ![c] = Append(@, Newest)]
    /\ UNCHANGED <<status, published, writing, cacheVars, joined, popped, prefix>>

SkipRemoved(c) ==
    /\ c \in left
    /\ joined[c] = "removed"
    /\ left' = left \ {c}
    /\ UNCHANGED <<status, published, writing, cacheVars, joined, queueVars>>

EndWrite ==
    /\ writing = "range"
    /\ left = {}
    /\ writing' = "no"
    /\ UNCHANGED <<status, published, left, cacheVars, joined, queueVars>>

-----------------------------------------------------------------------------
(* The consumers.                                                          *)

\* Mutant of CachedKinds: packs that were not seen are pushed as well.
EveryKind == 1..Len(ParamOrder)

\* The places in ParamOrder of the parameter packs that were seen.
CachedKinds == {i \in 1..Len(ParamOrder) : params[ParamOrder[i]] # NoPack}

\* PushTo, under the lock of the cache: the parameter packs in order, the GOP.
PushTo(c) ==
    LET n == Cardinality(CachedKinds) IN
    \E place \in [1..n -> CachedKinds] :
        /\ \A i, j \in 1..n : i < j => place[i] < place[j]
        /\ pushed' = [pushed EXCEPT ![c] = [i \in 1..n |-> params[ParamOrder[place[i]]]] \o gop]
        /\ prefix' = [prefix EXCEPT ![c] = n + Len(gop)]

StartConsume(c, useGopCache) ==
    /\ joined[c] = "no"
    /\ joined' = [joined EXCEPT ![c] = "gopSent"]
    /\ IF useGopCache THEN PushTo(c) ELSE UNCHANGED <<pushed, prefix>>
    /\ UNCHANGED <<status, published, writing, left, cacheVars, popped, discarding>>

\* A Range in progress may or may not come to the consumption just stored.
Store(c) ==
    /\ joined[c] = "gopSent"
    /\ joined' = [joined EXCEPT ![c] = "stored"]
    /\ left' \in IF writing = "range" THEN {left, left \cup {c}} ELSE {left}
    /\ UNCHANGED <<status, published, writing, cacheVars, queueVars>>

Pop(c) ==
    /\ joined[c] = "stored"
    /\ QueueLen(c) > 0
    /\ popped' = [popped EXCEPT ![c] = @ + 1]
    /\ UNCHANGED <<status, published, writing, left, cacheVars, joined, pushed,
                   prefix, discarding>>

\* StopConsume, or the Range of RemoveAndCloseAll.
Remove(c) ==
    /\ joined[c] = "stored"
    /\ joined' = [joined EXCEPT ![c] = "removed"]
    /\ UNCHANGED <<status, published, writing, left, cacheVars, queueVars>>

-----------------------------------------------------------------------------
(* Stream.close as far as the packs go: the status, the consumers (Remove, *)
(* one by one), the cache.                                                 *)

CloseStream ==
    /\ status = "OK"
    /\ status' = "Closed"
    /\ UNCHANGED <<published, writing, left, cacheVars, joined, queueVars>>

ResetCache ==
    /\ status = "Closed"
    /\ params' = [k \in ParamKind |-> NoPack]
    /\ gop' = <<>>
    /\ UNCHANGED <<status, published, writing, left, joined, queueVars>>

Next ==
    \/ \E s \in Shape : Write(s)
    \/ CachePack
    \/ EndWrite
    \/ \E c \in Consumption :
          \/ Send(c)
          \/ SkipRemoved(c)
          \/ \E useGopCache \in BOOLEAN : StartConsume(c, useGopCache)
          \/ Store(c)
          \/ Pop(c)
          \/ Remove(c)
    \/ CloseStream
    \/ ResetCache

Spec == Init /\ [][Next]_vars

-----------------------------------------------------------------------------
(* Properties.                                                             *)

(* Every consumer gets a proper feed (module PackFeed): packs in order,    *)
(* from a key frame on, broken only between groups of pictures once its    *)
(* live packs began, for every interleaving of its StartConsume with the   *)
(* writer and every pace of its goroutine.                                 *)
Promise == INSTANCE PackFeed WITH feed <- pushed
FeedIsProper == Promise!Spec

(* The queue of a slow consumer is bounded as long as the source sends a   *)
(* key frame among any MaxGop packs: discarding starts only at a key frame,*)
(* so a queue overshoots maxQLen by one GOP.  A consumer that joins gets   *)
(* the parameter packs and a GOP; when the next GOP began before its       *)
(* consumption was stored, it gets the rest of that one unchecked as well. *)
QueueBound ==
    LET afterCheck == MaxQLen + MaxGop
        afterJoin  == Len(ParamOrder) + MaxGop + (MaxGop - 1)
    IN  IF afterCheck > afterJoin THEN afterCheck ELSE afterJoin

QueueIsBounded == \A c \in Consumption : QueueLen(c) =< QueueBound

(* What CachePack has been through, and the newest parameter pack of a     *)
(* kind among the first h packs.                                           *)
Seen == IF writing = "cache" THEN Len(published) - 1 ELSE Len(published)

IsParamOf(p, k) == IsParam(p) /\ ParamOf(p) = k

IsNewestParam(p, k, h) ==
    \/ p = NoPack /\ \A i \in 1..h : ~IsParamOf(published[i], k)
    \/ \E i \in 1..h : /\ p = published[i]
                       /\ IsParamOf(published[i], k)
                       /\ \A j \in (i+1)..h : ~IsParamOf(published[j], k)

(* While the stream is open and the source has sent no parameter sets since*)
(* its last key frame, a consumer that joins gets what it needs to begin   *)
(* at that key frame: the cached GOP is what CachePack has seen from it on,*)
(* nothing missing and nothing older, and the cached parameter packs are   *)
(* the ones that were in force when it was sent.  When parameter sets came *)
(* since, they do not reset the GOP: see ParamsPrecedeGop.                 *)
CacheHoldsCurrentGop ==
    CacheGop /\ status = "OK" =>
        LET keys == {i \in 1..Seen : IsKeyframe(published[i])} IN
        /\ keys = {} => gop = <<>>
        /\ \A last \in keys :
              (\A i \in (last+1)..Seen : ~IsKeyframe(published[i]) /\ ~IsParam(published[i])) =>
                  /\ Promise!IsGopOf(gop, last, Seen)
                  /\ \A k \in ParamKind : IsNewestParam(params[k], k, last)

(* "新序列参数,重置图像参数和 GopCache" and "新图像参数，重置 GopCahce"        *)
(* (comments of H264Cache.CachePack): a new parameter set resets the cached*)
(* GOP, so that the parameter packs a joining consumer gets are never newer*)
(* than the pictures it gets after them.  The code stores the parameter    *)
(* pack and leaves the GOP as it is.                                       *)
ParamsPrecedeGop ==
    gop # <<>> => \A k \in ParamKind : params[k] # NoPack => params[k].n < gop[1].n
=============================================================================
