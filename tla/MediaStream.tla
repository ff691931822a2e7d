---------------------------- MODULE MediaStream ----------------------------
(***************************************************************************)
(* The life cycle of one media.Stream and of its consumptions.             *)
(*                                                                         *)
(* A stream keeps two collections of consumptions, one for RTP and one for *)
(* FLV packs (media/consumptions.go: a sync.Map and a counter beside it).  *)
(* Goroutines that act on it, with no lock common to them:                 *)
(*   - whoever calls StartConsume (a session, an HTTP handler);            *)
(*   - the goroutine "consume" of each consumption, which drains the       *)
(*     consumption's queue and cleans up when it ends;                     *)
(*   - Stopper: the callers of StopConsume other than that goroutine (the  *)
(*     session that owns the consumer, the DELETE ...:consumer API);       *)
(*   - Closer: the callers of Stream.close (Unregist, UnregistAll, Regist, *)
(*     the no-consumer task);                                              *)
(*   - one writer per kind: the source calls WriteRtpPacket, the goroutine *)
(*     of the FLV muxer calls WriteFlvTag.                                 *)
(*                                                                         *)
(* What a queue holds is abstracted to its length, and a pack that         *)
(* consumption.send may discard to a choice (module PackDelivery has the   *)
(* packs).  The HLS side of close is not part of this module.              *)
(***************************************************************************)
EXTENDS Integers, FiniteSets

CONSTANTS
    Consumption,    \* the consumptions ever created, one per StartConsume
    Flv,            \* those among them created with FLVPacket
    Stopper,        \* the outside callers of StopConsume
    Closer,         \* the callers of Stream.close
    Replacing,      \* those among them that close it as StreamReplaced (Regist)
    Written,        \* the kinds of pack the source gives rise to
    None,           \* no consumption
    MaxQueue        \* bound of the model: packs waiting in one queue

Kind   == {"flv", "rtp"}
Ranger == Kind \cup Closer           \* who iterates over a collection
Thread == Consumption \cup Stopper   \* who calls StopConsume

ASSUME ConstantsAssumption ==
    /\ Flv \subseteq Consumption
    /\ Replacing \subseteq Closer
    /\ Written \subseteq {"flv", "rtp"}
    /\ None \notin Consumption
    /\ Consumption \cap Stopper = {}
    /\ Kind \cap Closer = {}
    /\ MaxQueue \in Nat \ {0}

ASSUME FiniteAssumption == IsFiniteSet(Consumption) /\ IsFiniteSet(Stopper)

KindOf(c) == IF c \in Flv THEN "flv" ELSE "rtp"

VARIABLES
    status,     \* Stream.status
    cached,     \* cached[k]: is there anything in the packCache of kind k?
    registered, \* the consumptions in the two sync.Maps
    count,      \* count[k]: consumptions.count of kind k
    starting,   \* starting[c]: progress of the StartConsume that creates c
    closed,     \* consumption.closed
    queued,     \* queued[c]: length of consumption.recvQueue
    signalled,  \* signalled[c]: a Signal of recvQueue that no Pop has seen
    consuming,  \* consuming[c]: progress of the goroutine of c
    removing,   \* removing[t]: progress of the StopConsume that t calls
    target,     \* target[t]: the consumption that call is about
    writing,    \* writing[k]: progress of the writer of kind k
    closing,    \* closing[x]: progress of Stream.close called by x
    closingKind,\* closingKind[x]: the collection x is at
    held,       \* held[x]: the consumption x deleted and has yet to Close
    left        \* left[r]: the consumptions the Range of r has yet to visit

consumerVars == <<starting, closed, queued, signalled, consuming>>
stopVars     == <<removing, target>>
closeVars    == <<closing, closingKind, held>>
vars == <<status, cached, registered, count, consumerVars, stopVars,
          writing, closeVars, left>>

TypeOK ==
    /\ status \in {"OK", "Closed", "Replaced"}
    /\ cached \in [Kind -> BOOLEAN]
    /\ registered \in SUBSET Consumption
    /\ count \in [Kind -> Int]
    /\ starting \in [Consumption -> {"no", "gopSent", "stored", "running"}]
    /\ closed \in [Consumption -> BOOLEAN]
    /\ queued \in [Consumption -> 0..MaxQueue]
    /\ signalled \in [Consumption -> BOOLEAN]
    /\ consuming \in [Consumption -> {"off", "check", "pop", "wait", "late",
                                      "consume", "cleanup", "release", "done"}]
    /\ removing \in [Thread -> {"no", "delete", "decrement", "close"}]
    /\ target \in [Thread -> Consumption \cup {None}]
    /\ writing \in [Kind -> {"no", "cache", "range"}]
    /\ closing \in [Closer -> {"no", "store", "range", "zero", "done"}]
    /\ closingKind \in [Closer -> Kind]
    /\ held \in [Closer -> Consumption \cup {None}]
    /\ left \in [Ranger -> SUBSET Consumption]

Init ==
    /\ status = "OK"
    /\ cached = [k \in Kind |-> FALSE]
    /\ registered = {}
    /\ count = [k \in Kind |-> 0]
    /\ starting = [c \in Consumption |-> "no"]
    /\ closed = [c \in Consumption |-> FALSE]
    /\ queued = [c \in Consumption |-> 0]
    /\ signalled = [c \in Consumption |-> FALSE]
    /\ consuming = [c \in Consumption |-> "off"]
    /\ removing = [t \in Thread |-> "no"]
    /\ target = [t \in Thread |-> None]
    /\ writing = [k \in Kind |-> "no"]
    /\ closing = [x \in Closer |-> "no"]
    /\ closingKind = [x \in Closer |-> "flv"]
    /\ held = [x \in Closer |-> None]
    /\ left = [r \in Ranger |-> {}]

Registered(k) == {c \in registered : KindOf(c) = k}

\* Mutant of CloseConsumption: Close forgets the Signal.
CloseWithoutSignal(c) ==
    /\ closed' = [closed EXCEPT ![c] = TRUE]
    /\ UNCHANGED signalled

(***************************************************************************)
(* consumption.Close: sets closed and signals the queue; nothing when it   *)
(* was closed before.  SyncQueue is a library: a Signal wakes a Pop that   *)
(* is waiting, and whether it reaches a Pop that starts later is left open.*)
(***************************************************************************)
CloseConsumption(c) ==
    /\ closed' = [closed EXCEPT ![c] = TRUE]
    /\ \/ signalled' = [signalled EXCEPT ![c] = @ \/ ~closed[c]]
       \/ (closed[c] \/ consuming[c] # "wait") /\ UNCHANGED signalled

-----------------------------------------------------------------------------
(* StartConsume: record and GOP, consumptions.Add (Store, then the         *)
(* counter), the goroutine.  It never looks at the status of the stream.   *)

StartConsume(c, useGopCache) ==
    /\ starting[c] = "no"
    /\ starting' = [starting EXCEPT ![c] = "gopSent"]
    /\ queued' = [queued EXCEPT ![c] = IF useGopCache /\ cached[KindOf(c)] THEN 1 ELSE 0]
    /\ UNCHANGED <<status, cached, registered, count, closed, signalled,
                   consuming, stopVars, writing, closeVars, left>>

\* The iterations in progress over the collection of kind k.
Ranging(k) ==
    {r \in Ranger : IF r \in Kind THEN r = k /\ writing[k] = "range"
                                  ELSE closing[r] = "range" /\ closingKind[r] = k}

\* m.Store: a Range of the sync.Map in progress may or may not see the new key.
Store(c) ==
    /\ starting[c] = "gopSent"
    /\ starting' = [starting EXCEPT ![c] = "stored"]
    /\ registered' = registered \cup {c}
    /\ \E seeing \in SUBSET Ranging(KindOf(c)) :
          left' = [r \in Ranger |-> IF r \in seeing THEN left[r] \cup {c} ELSE left[r]]
    /\ UNCHANGED <<status, cached, count, closed, queued, signalled,
                   consuming, stopVars, writing, closeVars>>

CountAndGo(c) ==
    /\ starting[c] = "stored"
    /\ starting' = [starting EXCEPT ![c] = "running"]
    /\ count' = [count EXCEPT ![KindOf(c)] = @ + 1]
    /\ consuming' = [consuming EXCEPT ![c] = "check"]
    /\ UNCHANGED <<status, cached, registered, closed, queued, signalled,
                   stopVars, writing, closeVars, left>>

-----------------------------------------------------------------------------
(* The goroutine of consumption c.                                         *)

CheckClosed(c) ==
    /\ consuming[c] = "check"
    /\ consuming' = [consuming EXCEPT ![c] = IF closed[c] THEN "cleanup" ELSE "pop"]
    /\ UNCHANGED <<status, cached, registered, count, starting, closed, queued,
                   signalled, stopVars, writing, closeVars, left>>

PopPack(c) ==
    /\ consuming[c] \in {"pop", "wait", "late"}
    /\ queued[c] > 0
    /\ queued' = [queued EXCEPT ![c] = @ - 1]
    /\ consuming' = [consuming EXCEPT ![c] = "consume"]
    /\ UNCHANGED <<status, cached, registered, count, starting, closed,
                   signalled, stopVars, writing, closeVars, left>>

PopNil(c) ==
    /\ consuming[c] \in {"pop", "wait", "late"}
    /\ queued[c] = 0
    /\ signalled[c]
    /\ signalled' = [signalled EXCEPT ![c] = FALSE]
    /\ consuming' = [consuming EXCEPT ![c] = "check"]
    /\ UNCHANGED <<status, cached, registered, count, starting, closed, queued,
                   stopVars, writing, closeVars, left>>

\* Pop begins to wait; "late" when its consumption was closed before that,
\* between the test of closed and here.
PopWaits(c) ==
    /\ consuming[c] = "pop"
    /\ queued[c] = 0
    /\ ~signalled[c]
    /\ consuming' = [consuming EXCEPT ![c] = IF closed[c] THEN "late" ELSE "wait"]
    /\ UNCHANGED <<status, cached, registered, count, starting, closed, queued,
                   signalled, stopVars, writing, closeVars, left>>

ConsumePack(c) ==
    /\ consuming[c] = "consume"
    /\ consuming' = [consuming EXCEPT ![c] = "check"]
    /\ UNCHANGED <<status, cached, registered, count, starting, closed, queued,
                   signalled, stopVars, writing, closeVars, left>>

\* consumer.Consume panics: the deferred function recovers and cleans up.
ConsumePanics(c) ==
    /\ consuming[c] = "consume"
    /\ consuming' = [consuming EXCEPT ![c] = "cleanup"]
    /\ UNCHANGED <<status, cached, registered, count, starting, closed, queued,
                   signalled, stopVars, writing, closeVars, left>>

\* consumer.Close and recvQueue.Reset, after StopConsume of its own cid.
ReleaseConsumer(c) ==
    /\ consuming[c] = "release"
    /\ consuming' = [consuming EXCEPT ![c] = "done"]
    /\ queued' = [queued EXCEPT ![c] = 0]
    /\ UNCHANGED <<status, cached, registered, count, starting, closed,
                   signalled, stopVars, writing, closeVars, left>>

-----------------------------------------------------------------------------
(* StopConsume, by an outside caller or by the goroutine in its cleanup:   *)
(* consumptions.Remove (Load, Delete, the counter), then Close.            *)

FindConsumption(t, c) ==
    /\ removing[t] = "no"
    /\ t \in Consumption => t = c /\ consuming[c] = "cleanup"
    /\ c \in registered
    /\ removing' = [removing EXCEPT ![t] = "delete"]
    /\ target' = [target EXCEPT ![t] = c]
    /\ UNCHANGED <<status, cached, registered, count, consumerVars, writing,
                   closeVars, left>>

\* Mutant of AlreadyRemoved: the goroutine ends without its StopConsume.
EndsAttached(c) ==
    /\ consuming[c] = "cleanup"
    /\ removing[c] = "no"
    /\ consuming' = [consuming EXCEPT ![c] = "release"]
    /\ UNCHANGED <<status, cached, registered, count, starting, closed, queued,
                   signalled, stopVars, writing, closeVars, left>>

\* The goroutine finds its consumption removed by someone else.
AlreadyRemoved(c) ==
    /\ consuming[c] = "cleanup"
    /\ removing[c] = "no"
    /\ c \notin registered
    /\ consuming' = [consuming EXCEPT ![c] = "release"]
    /\ UNCHANGED <<status, cached, registered, count, starting, closed, queued,
                   signalled, stopVars, writing, closeVars, left>>

DeleteConsumption(t) ==
    /\ removing[t] = "delete"
    /\ removing' = [removing EXCEPT ![t] = "decrement"]
    /\ registered' = registered \ {target[t]}
    /\ UNCHANGED <<status, cached, count, consumerVars, target, writing,
                   closeVars, left>>

\* Mutant of DecrementCount: Remove leaves the counter alone.
ForgetDecrement(t) ==
    /\ removing[t] = "decrement"
    /\ removing' = [removing EXCEPT ![t] = "close"]
    /\ UNCHANGED <<status, cached, registered, count, consumerVars, target, writing,
                   closeVars, left>>

DecrementCount(t) ==
    /\ removing[t] = "decrement"
    /\ removing' = [removing EXCEPT ![t] = "close"]
    /\ count' = [count EXCEPT ![KindOf(target[t])] = @ - 1]
    /\ UNCHANGED <<status, cached, registered, consumerVars, target, writing,
                   closeVars, left>>

\* Mutant of CloseRemoved: StopConsume drops what Remove returns.
ForgetRemoved(t) ==
    /\ removing[t] = "close"
    /\ removing' = [removing EXCEPT ![t] = "no"]
    /\ target' = [target EXCEPT ![t] = None]
    /\ consuming' = [c \in Consumption |->
                        IF c = t THEN "release" ELSE consuming[c]]
    /\ UNCHANGED <<status, cached, registered, count, starting, closed, queued,
                   signalled, writing, closeVars, left>>

CloseRemoved(t) ==
    /\ removing[t] = "close"
    /\ removing' = [removing EXCEPT ![t] = "no"]
    /\ target' = [target EXCEPT ![t] = None]
    /\ CloseConsumption(target[t])
    /\ consuming' = [c \in Consumption |->
                        IF c = t THEN "release" ELSE consuming[c]]
    /\ UNCHANGED <<status, cached, registered, count, starting, queued, writing,
                   closeVars, left>>

-----------------------------------------------------------------------------
(* WriteRtpPacket (kind "rtp") and WriteFlvTag (kind "flv"): the status is *)
(* read once, then the pack is cached and sent to all.                     *)

CheckStatus(k) ==
    /\ k \in Written
    /\ writing[k] = "no"
    /\ status = "OK"
    /\ writing' = [writing EXCEPT ![k] = "cache"]
    /\ UNCHANGED <<status, cached, registered, count, consumerVars, stopVars,
                   closeVars, left>>

\* CachePack, and the start of the Range of SendToAll.
CachePack(k) ==
    /\ writing[k] = "cache"
    /\ writing' = [writing EXCEPT ![k] = "range"]
    /\ cached' = [cached EXCEPT ![k] = TRUE]
    /\ left' = [left EXCEPT ![k] = Registered(k)]
    /\ UNCHANGED <<status, registered, count, consumerVars, stopVars, closeVars>>

\* consumption.send pushes the pack, or discards it.
Send(k, c) ==
    /\ writing[k] = "range"
    /\ c \in left[k]
    /\ left' = [left EXCEPT ![k] = @ \ {c}]
    /\ \/ queued[c] < MaxQueue /\ queued' = [queued EXCEPT ![c] = @ + 1]
       \/ UNCHANGED queued
    /\ UNCHANGED <<status, cached, registered, count, starting, closed, signalled,
                   consuming, stopVars, writing, closeVars>>

\* The Range of r comes to a key that was deleted in the meantime.
SkipDeleted(r, c) ==
    /\ c \in left[r]
    /\ c \notin registered
    /\ left' = [left EXCEPT ![r] = @ \ {c}]
    /\ UNCHANGED <<status, cached, registered, count, consumerVars, stopVars,
                   writing, closeVars>>

EndWrite(k) ==
    /\ writing[k] = "range"
    /\ left[k] = {}
    /\ writing' = [writing EXCEPT ![k] = "no"]
    /\ UNCHANGED <<status, cached, registered, count, consumerVars, stopVars,
                   closeVars, left>>

-----------------------------------------------------------------------------
(* Stream.close: the status is read, then stored; then RemoveAndCloseAll   *)
(* and the reset of the cache, for FLV and then for RTP.                   *)

BeginClose(x) ==
    /\ closing[x] = "no"
    /\ closing' = [closing EXCEPT ![x] = IF status = "OK" THEN "store" ELSE "done"]
    /\ UNCHANGED <<status, cached, registered, count, consumerVars, stopVars,
                   writing, closingKind, held, left>>

\* Mutant of StoreStatus: the status is stored as it was given, that of the
\* no-consumer task too.
StoreAnyStatus(x) ==
    /\ closing[x] = "store"
    /\ status' = IF x \in Replacing THEN "Replaced" ELSE "NoConsumer"
    /\ closing' = [closing EXCEPT ![x] = "range"]
    /\ left' = [left EXCEPT ![x] = Registered("flv")]
    /\ UNCHANGED <<cached, registered, count, consumerVars, stopVars, writing,
                   closingKind, held>>

\* Every status other than StreamReplaced is stored as StreamClosed.
StoreStatus(x) ==
    /\ closing[x] = "store"
    /\ status' = IF x \in Replacing THEN "Replaced" ELSE "Closed"
    /\ closing' = [closing EXCEPT ![x] = "range"]
    /\ left' = [left EXCEPT ![x] = Registered("flv")]
    /\ UNCHANGED <<cached, registered, count, consumerVars, stopVars, writing,
                   closingKind, held>>

\* RemoveAndCloseAll, for one key: Delete, then Close.
DeleteInRange(x, c) ==
    /\ closing[x] = "range"
    /\ held[x] = None
    /\ c \in left[x]
    /\ left' = [left EXCEPT ![x] = @ \ {c}]
    /\ registered' = registered \ {c}
    /\ held' = [held EXCEPT ![x] = c]
    /\ UNCHANGED <<status, cached, count, consumerVars, stopVars, writing,
                   closing, closingKind>>

CloseInRange(x) ==
    /\ held[x] # None
    /\ held' = [held EXCEPT ![x] = None]
    /\ CloseConsumption(held[x])
    /\ UNCHANGED <<status, cached, registered, count, starting, queued, consuming,
                   stopVars, writing, closing, closingKind, left>>

\* The Range is over; atomic.StoreInt32(&m.count, 0).
ZeroCount(x) ==
    /\ closing[x] = "range"
    /\ held[x] = None
    /\ left[x] = {}
    /\ closing' = [closing EXCEPT ![x] = "zero"]
    /\ count' = [count EXCEPT ![closingKind[x]] = 0]
    /\ UNCHANGED <<status, cached, registered, consumerVars, stopVars, writing,
                   closingKind, held, left>>

\* Reset of the cache, then the next collection or the return of close.
ResetCache(x) ==
    /\ closing[x] = "zero"
    /\ cached' = [cached EXCEPT ![closingKind[x]] = FALSE]
    /\ IF closingKind[x] = "flv"
          THEN /\ closing' = [closing EXCEPT ![x] = "range"]
               /\ closingKind' = [closingKind EXCEPT ![x] = "rtp"]
               /\ left' = [left EXCEPT ![x] = Registered("rtp")]
          ELSE /\ closing' = [closing EXCEPT ![x] = "done"]
               /\ UNCHANGED <<closingKind, left>>
    /\ UNCHANGED <<status, registered, count, consumerVars, stopVars, writing,
                   held>>

-----------------------------------------------------------------------------
Starting(c)  == Store(c) \/ CountAndGo(c)
Goroutine(c) == \/ CheckClosed(c) \/ PopPack(c) \/ PopNil(c) \/ PopWaits(c)
                \/ ConsumePack(c) \/ ReleaseConsumer(c)
                \/ FindConsumption(c, c) \/ AlreadyRemoved(c)
Stopping(t)  == DeleteConsumption(t) \/ DecrementCount(t) \/ CloseRemoved(t)
Writing(k)   == \/ CachePack(k) \/ EndWrite(k)
                \/ \E c \in Consumption : Send(k, c) \/ SkipDeleted(k, c)
Closing(x)   == \/ StoreStatus(x) \/ CloseInRange(x) \/ ZeroCount(x) \/ ResetCache(x)
                \/ \E c \in Consumption : DeleteInRange(x, c) \/ SkipDeleted(x, c)

Next ==
    \/ \E c \in Consumption :
          \/ \E useGopCache \in BOOLEAN : StartConsume(c, useGopCache)
          \/ Starting(c)
          \/ Goroutine(c)
          \/ ConsumePanics(c)
          \/ \E t \in Stopper : FindConsumption(t, c)
    \/ \E t \in Thread : Stopping(t)
    \/ \E k \in Kind : CheckStatus(k) \/ Writing(k)
    \/ \E x \in Closer : BeginClose(x) \/ Closing(x)

Spec == Init /\ [][Next]_vars

(***************************************************************************)
(* Fairness: a goroutine that can run does run, so a call that has begun   *)
(* goes on (consumer.Consume returns).  StartConsume and the goroutine it  *)
(* leaves are one thread of control, the StopConsume of the cleanup        *)
(* included.  Nothing obliges anyone to begin a call: no fairness for      *)
(* StartConsume, BeginClose, an outside StopConsume or a panic; nor for    *)
(* the writers, whom the end of a consumption must not wait for.           *)
(***************************************************************************)
Fairness ==
    /\ \A c \in Consumption : WF_vars(Starting(c) \/ Goroutine(c) \/ Stopping(c))
    /\ \A t \in Stopper : WF_vars(Stopping(t))
    /\ \A x \in Closer : WF_vars(Closing(x))

FairSpec == Spec /\ Fairness

-----------------------------------------------------------------------------
(* Properties.                                                             *)

Uncounted(k) == {c \in Consumption : starting[c] = "stored" /\ KindOf(c) = k}
Removers(k)  == {t \in Thread : removing[t] = "decrement" /\ KindOf(target[t]) = k}

(* While the stream is open its counter never claims more consumers than   *)
(* the collection holds: what it counts, and what it is about to count, is *)
(* registered or is the pending decrement of a removal.  So a positive     *)
(* count that lasts means a consumer that is attached, and the no-consumer *)
(* task is never put off by a consumer that is gone.                       *)
CountCoversConsumers ==
    status = "OK" => \A k \in Kind :
        count[k] + Cardinality(Uncounted(k))
            =< Cardinality(Registered(k)) + Cardinality(Removers(k))

(* A consumption that was started is never lost: it is in its collection,  *)
(* or it was closed, or somebody has taken it out and is on the way to     *)
(* closing it, or its goroutine is past the loop.  Otherwise its goroutine *)
(* would wait for packs that nobody sends and nobody could stop it.        *)
NoLostConsumption ==
    \A c \in Consumption :
        starting[c] \in {"stored", "running"} =>
            \/ c \in registered
            \/ closed[c]
            \/ \E t \in Thread : target[t] = c /\ removing[t] \in {"decrement", "close"}
            \/ \E x \in Closer : held[x] = c
            \/ consuming[c] \in {"release", "done"}

(* When the consumer is closed and its queue reset, the consumption is in  *)
(* no collection any more and never will be again: no writer that starts   *)
(* to send later finds a consumption whose goroutine has ended.            *)
ReleasedIsDetached ==
    \A c \in Consumption : consuming[c] \in {"release", "done"} => c \notin registered

(* Once Close was called on a consumption, or the stream began to close    *)
(* while it was attached, its goroutine ends, and the consumer (the socket *)
(* of a player) is closed with it: for either kind, and whatever stops,    *)
(* writes and panics run beside.  There is one exception: a goroutine that *)
(* goes to wait in Pop after the Close, when nobody was waiting for the    *)
(* Signal, may sleep on.                                                   *)
ClosedConsumptionEnds ==
    \A c \in Consumption :
        (closed[c] \/ (c \in registered /\ \E x \in Closer : closing[x] = "store"))
            ~> consuming[c] \in {"done", "late"}

NoCallInProgress ==
    /\ \A c \in Consumption : starting[c] \in {"no", "running"}
    /\ \A t \in Thread : removing[t] = "no"
    /\ \A x \in Closer : closing[x] \in {"no", "done"}

(* With no call in progress on an open stream, the counter is the number   *)
(* of consumers (stream_test.go reads it as such).  Two StopConsume of one *)
(* consumption that both find it decrement it twice.                       *)
CountIsExact ==
    NoCallInProgress /\ status = "OK" =>
        \A k \in Kind : count[k] = Cardinality(Registered(k))

(* A closed stream keeps no consumer: when every close has returned, no    *)
(* consumption is attached.  StartConsume does not look at the status.     *)
ClosedStreamHasNoConsumer ==
    NoCallInProgress /\ status # "OK" => registered = {}
=============================================================================
