--------------------------- MODULE Sessions_proofs ---------------------------
(***************************************************************************)
(* Proofs about the sessions and the multicast proxies, for any number of  *)
(* sessions of either kind, of streams that follow each other on the path, *)
(* and of consumptions.                                                    *)
(*                                                                         *)
(* What a session is hangs together by its progress, status and mode       *)
(* (SessionIsConsistent).  That a session which ended is detached takes    *)
(* that a session starts one consumption at most, and that either it or    *)
(* the goroutine of that consumption is still to stop it, unless the       *)
(* number was lost (ConsumptionIsHeld): the two close the consumer beside  *)
(* each other, step by step.  The proxies of streams that were replaced do *)
(* harm on other streams only because a path never leads back to a stream  *)
(* (ProxyKnowsItsOwn).                                                     *)
(***************************************************************************)
EXTENDS Sessions, TLAPS

\* The streams' numbers and the path.
StreamIsBookkept(t) ==
    /\ attached[t] \subseteq 1..lastCid[t] /\ ending[t] \subseteq 1..lastCid[t]
    /\ \A n \in Cid : n > lastCid[t] => owner[t][n] = None
    /\ open[t] = "none" => attached[t] = {} /\ pcid[t] = 0

Bookkept ==
    /\ \A t \in Stream : StreamIsBookkept(t)
    /\ registry # None => open[registry] # "none"
    /\ \A s \in Session : consumer[s].source # None => open[consumer[s].source] # "none"

\* A goroutine runs for somebody; one that closes the consumer of a failed send
\* does it for a TCP player, and once it has stopped a consumption that was its
\* own, or else the player's number was not known.
TaskIsRight(t, n) ==
    LET s == owner[t][n] IN
    /\ task[t][n] # "none" => s # None
    /\ task[t][n] \in {"store", "stop", "clear"} => s \in Session /\ consumer[s].via = "tcp"
    /\ task[t][n] \in {"stop", "clear"} => consumer[s].closed
    /\ task[t][n] = "clear" => n \notin attached[t] \/ deaf[s]

TasksAreRight == \A t \in Stream, n \in Cid : TaskIsRight(t, n)

\* A session waits for its role with nothing of one; while it takes the role
\* of a player it cannot be anything else.
SessionIsConsistent(s) ==
    /\ at[s] \in {"none", "run"} /\ status[s] \in {"init", "ready"}
         => consumer[s] = NoConsumer /\ feeds[s] = None /\ ~deaf[s]
    /\ at[s] = "none" => status[s] = "init"
    /\ at[s] \in {"start", "started", "join"}
         => /\ kind[s] = "rtsp" /\ mode[s] = "play" /\ status[s] = "ready"
            /\ consumer[s].cid = 0
    /\ at[s] \in {"start", "started", "store", "stop", "clear"}
         => consumer[s].via \in {"tcp", "udp"}
    /\ at[s] \in {"start", "join"} => ~consumer[s].closed /\ consumer[s].source # None
    /\ at[s] \in {"stop", "clear"} => consumer[s].closed
    /\ at[s] = "ended" => feeds[s] = None
    /\ status[s] # "init" => mode[s] # "unknown"
    /\ kind[s] = "wsp" => mode[s] # "record" /\ consumer[s].via = "none"
    /\ feeds[s] # None =>
         /\ mode[s] = "record" /\ transport[s].via = "tcp"
         /\ consumer[s] = NoConsumer
    /\ consumer[s].source # None => mode[s] = "play"
    /\ consumer[s].via = "multicast" /\ at[s] \in {"join", "run", "consumer"}
         => consumer[s].source # None
    /\ deaf[s] => consumer[s].closed

SessionsAreConsistent == \A s \in Session : SessionIsConsistent(s)

\* A session that may still start a consumption has none.
OwnsNothing(s) == \A t \in Stream, n \in Cid : owner[t][n] # s

\* Consumption n of stream t is that of session s: the session will stop it, or
\* the goroutine that has closed the consumer will.
Holds(s, t, n) ==
    /\ consumer[s].source = t
    /\ consumer[s].via # "multicast"
    /\ \/ ~consumer[s].closed /\ at[s] = "started"
       \/ ~consumer[s].closed /\ at[s] \in {"run", "consumer", "store"} /\ consumer[s].cid = n
       \/ at[s] = "stop" /\ consumer[s].cid = n
       \/ task[t][n] = "stop" /\ at[s] = "started"
       \/ task[t][n] = "stop" /\ at[s] # "clear" /\ consumer[s].cid = n

MayStart(s) ==
    \/ at[s] \in {"none", "start", "join"}
    \/ at[s] = "run" /\ status[s] \in {"init", "ready"}

OwnsOne(s) ==
    /\ \A t, u \in Stream, n, m \in Cid :
         owner[t][n] = s /\ owner[u][m] = s => t = u /\ n = m
    /\ \A t \in Stream, n \in Cid : owner[t][n] = s => consumer[s].source \in {t, None}
    /\ consumer[s].cid # 0 => \E t \in Stream : owner[t][consumer[s].cid] = s

ConsumptionIsHeld(s) ==
    /\ MayStart(s) => OwnsNothing(s)
    /\ OwnsOne(s)
    /\ \A t \in Stream : \A n \in attached[t] :
         owner[t][n] = s => Holds(s, t, n) \/ deaf[s]

ConsumptionsAreHeld == \A s \in Session : ConsumptionIsHeld(s)

\* The proxy of a registered stream, and the proxies that consume it.
ProxyKnowsItsOwn ==
    registry # None =>
        /\ ~pclosed[registry] /\ pcid[registry] # 0
             => owner[registry][pcid[registry]] = registry
        /\ \A n \in attached[registry] : owner[registry][n] \in Stream =>
             LET u == owner[registry][n] IN
             members[u] # {} /\ ~pclosed[u] /\ pcid[u] = n

IInv ==
    /\ TypeOK
    /\ Bookkept
    /\ TasksAreRight
    /\ SessionsAreConsistent
    /\ ConsumptionsAreHeld
    /\ ProxyKnowsItsOwn

-----------------------------------------------------------------------------
(* Changes that several actions make.                                      *)

TaskStates == {"none", "run", "store", "stop", "clear", "release", "done"}

Progress == {"none", "run", "start", "started", "join", "consumer", "store", "stop",
             "clear", "stream", "ended", "crashed"}

\* TypeOK by whose variables they are.
StreamTypes ==
    /\ registry \in Stream \cup {None}
    /\ open \in [Stream -> {"none", "open", "closed"}]
    /\ lastCid \in [Stream -> 0..MaxCid]
    /\ attached \in [Stream -> SUBSET Cid] /\ ending \in [Stream -> SUBSET Cid]
    /\ \A t \in Stream : attached[t] \cap ending[t] = {}
    /\ owner \in [Stream -> [Cid -> Session \cup Stream \cup {None}]]
    /\ task \in [Stream -> [Cid -> TaskStates]]

Consumer == [via : Via, closed : BOOLEAN, cid : 0..MaxCid, source : Stream \cup {None}]

SessionTypes ==
    /\ kind \in [Session -> {"rtsp", "wsp"}]
    /\ at \in [Session -> Progress]
    /\ closed \in [Session -> BOOLEAN] /\ deaf \in [Session -> BOOLEAN]
    /\ mode \in [Session -> Modes]
    /\ transport \in [Session -> [mode : {"play", "record"}, via : Via]]
    /\ status \in [Session -> Status]
    /\ consumer \in [Session -> Consumer]
    /\ feeds \in [Session -> Stream \cup {None}]

ProxyTypes ==
    /\ members \in [Stream -> SUBSET Session]
    /\ pclosed \in [Stream -> BOOLEAN] /\ pcid \in [Stream -> 0..MaxCid]

\* TypeOK says no more and no less.
LEMMA TypesAreThese == TypeOK <=> StreamTypes /\ SessionTypes /\ ProxyTypes
  BY DEF TypeOK, StreamTypes, SessionTypes, ProxyTypes, Consumer, TaskStates, Progress

\* Consumptions go, and nothing else happens to the streams.
Shrinks ==
    /\ UNCHANGED <<registry, open, lastCid, owner>>
    /\ \A t \in Stream : /\ attached'[t] \subseteq attached[t]
                         /\ ending'[t] \subseteq ending[t] \cup attached[t]

\* StopConsume takes the one consumption away.
LEMMA StopsShrinks ==
    ASSUME IInv, NEW t \in Stream, NEW n, Stops(t, n),
           UNCHANGED <<registry, open, lastCid, owner>>
    PROVE  /\ Shrinks /\ n \notin attached'[t]
           /\ task' \in [Stream -> [Cid -> TaskStates]] => StreamTypes'
<1>1. StreamTypes
  BY TypesAreThese DEF IInv
<1>2. /\ attached' \in [Stream -> SUBSET Cid] /\ ending' \in [Stream -> SUBSET Cid]
      /\ \A u \in Stream : /\ attached'[u] \subseteq attached[u]
                           /\ ending'[u] \subseteq ending[u] \cup attached[u]
                           /\ attached'[u] \cap ending'[u] = {}
      /\ n \notin attached'[t]
  BY <1>1 DEF StreamTypes, Stops
<1> QED
  BY <1>1, <1>2 DEF StreamTypes, Shrinks

\* StartConsume takes a number that nobody had.
LEMMA StartConsumeTakes ==
    ASSUME IInv, NEW t \in Stream, NEW o \in Session \cup Stream, StartConsume(t, o)
    PROVE  /\ StreamTypes'
           /\ lastCid[t] + 1 \in Cid /\ owner[t][lastCid[t] + 1] = None
           /\ owner'[t][lastCid[t] + 1] = o
           /\ \A u \in Stream, m \in Cid :
                u # t \/ m # lastCid[t] + 1 => owner'[u][m] = owner[u][m]
           /\ attached'[t] = attached[t] \cup {lastCid[t] + 1}
           /\ \A u \in Stream \ {t} : attached'[u] = attached[u]
<1> DEFINE n == lastCid[t] + 1
<1>1. StreamTypes /\ StreamIsBookkept(t)
  BY TypesAreThese DEF IInv, Bookkept
<1>2. lastCid[t] \in Nat /\ n \in Cid /\ n \in 0..MaxCid /\ n > lastCid[t]
  BY <1>1 DEF StreamTypes, StartConsume, Cid
<1>3. owner[t][n] = None /\ n \notin ending[t]
  BY <1>1, <1>2 DEF StreamIsBookkept
<1>4. /\ owner'[t][n] = o
      /\ \A u \in Stream, m \in Cid : u # t \/ m # n => owner'[u][m] = owner[u][m]
  BY <1>1, <1>2 DEF StreamTypes, StartConsume
<1>5. /\ attached'[t] = attached[t] \cup {n}
      /\ \A u \in Stream \ {t} : attached'[u] = attached[u]
  BY <1>1 DEF StreamTypes, StartConsume
<1>6. StreamTypes'
  <2>1. owner' \in [Stream -> [Cid -> Session \cup Stream \cup {None}]]
    BY <1>1, <1>2 DEF StreamTypes, StartConsume
  <2>2. task' \in [Stream -> [Cid -> TaskStates]]
    BY <1>1, <1>2 DEF StreamTypes, StartConsume, TaskStates
  <2>3. lastCid' \in [Stream -> 0..MaxCid] /\ attached' \in [Stream -> SUBSET Cid]
    BY <1>1, <1>2 DEF StreamTypes, StartConsume
  <2>4. UNCHANGED <<registry, open, ending>>
    BY DEF StartConsume
  <2>5. \A u \in Stream : attached'[u] \cap ending'[u] = {}
    BY <1>1, <1>3, <1>5, <2>4 DEF StreamTypes
  <2> QED
    BY <1>1, <2>1, <2>2, <2>3, <2>4, <2>5 DEF StreamTypes
<1> QED
  BY <1>2, <1>3, <1>4, <1>5, <1>6

\* Closing a proxy takes a consumption from the registered stream at most, and
\* nobody's proxy but its own changes.
LEMMA CloseProxyShrinks ==
    ASSUME IInv, NEW t \in Stream, NEW ms \in SUBSET Session, CloseProxy(t, ms),
           UNCHANGED <<registry, open, lastCid, owner>>
    PROVE  /\ Shrinks
           /\ attached' \in [Stream -> SUBSET Cid] /\ ending' \in [Stream -> SUBSET Cid]
           /\ \A u \in Stream : attached'[u] \cap ending'[u] = {}
           /\ members' \in [Stream -> SUBSET Session] /\ pclosed' \in [Stream -> BOOLEAN]
           /\ closed' \in [Session -> BOOLEAN]
           /\ \A u \in Stream \ {t} : members'[u] = members[u] /\ pclosed'[u] = pclosed[u]
           /\ pclosed'[t]
           /\ registry # None => \A n \in attached'[registry] : owner[registry][n] # t
<1>1. StreamTypes /\ ProxyTypes /\ SessionTypes
  BY TypesAreThese DEF IInv
<1>2. /\ members' \in [Stream -> SUBSET Session] /\ pclosed' \in [Stream -> BOOLEAN]
      /\ \A u \in Stream \ {t} : members'[u] = members[u] /\ pclosed'[u] = pclosed[u]
      /\ pclosed'[t]
  BY <1>1 DEF ProxyTypes, CloseProxy
<1>3. closed' \in [Session -> BOOLEAN]
  BY <1>1 DEF SessionTypes, CloseProxy
<1>4. /\ attached' \in [Stream -> SUBSET Cid] /\ ending' \in [Stream -> SUBSET Cid]
      /\ \A u \in Stream : /\ attached'[u] \subseteq attached[u]
                           /\ ending'[u] \subseteq ending[u] \cup attached[u]
                           /\ attached'[u] \cap ending'[u] = {}
  <2>1. CASE UNCHANGED <<attached, ending>>
    BY <1>1, <2>1 DEF StreamTypes
  <2>2. ASSUME registry # None, NEW stopped, stopped = {pcid[t]} \cap attached[registry],
               ending' = [ending EXCEPT ![registry] = @ \cup stopped],
               attached' = [attached EXCEPT ![registry] = @ \ stopped]
        PROVE  <1>4!:
    BY <1>1, <2>2 DEF StreamTypes
  <2> QED
    BY <2>1, <2>2 DEF CloseProxy
<1>5. ASSUME registry # None, NEW n \in attached'[registry] PROVE owner[registry][n] # t
  <2>1. registry \in Stream /\ n \in attached[registry]
    BY <1>1, <1>4, <1>5 DEF StreamTypes
  <2>2. CASE owner[registry][n] = t
    <3>1. ~pclosed[t] /\ pcid[t] = n
      BY <1>5, <2>1, <2>2 DEF IInv, ProxyKnowsItsOwn
    <3>2. attached'[registry] = attached[registry] \ ({pcid[t]} \cap attached[registry])
      BY <1>1, <1>5, <2>1, <3>1 DEF CloseProxy, StreamTypes
    <3> QED
      BY <1>5, <3>1, <3>2
  <2> QED
    BY <2>2
<1> QED
  BY <1>2, <1>3, <1>4, <1>5 DEF Shrinks

\* The bookkeeping allows for that.
LEMMA ShrinksKeepsBooks ==
    ASSUME IInv, Shrinks, UNCHANGED pcid,
           \A s \in Session : consumer'[s].source \in {consumer[s].source, None}
    PROVE  Bookkept'
<1>1. StreamTypes
  BY TypesAreThese DEF IInv
<1>2. ASSUME NEW t \in Stream PROVE StreamIsBookkept(t)'
  BY <1>1 DEF IInv, Bookkept, StreamIsBookkept, Shrinks
<1>3. registry' # None => open'[registry'] # "none"
  BY DEF IInv, Bookkept, Shrinks
<1>4. ASSUME NEW s \in Session, consumer'[s].source # None
      PROVE  open'[consumer'[s].source] # "none"
  BY <1>4 DEF IInv, Bookkept, Shrinks
<1> QED
  BY <1>2, <1>3, <1>4 DEF Bookkept

\* A session keeps hold of its consumption in a step that starts none for it,
\* as long as whoever was to stop it still is.
LEMMA HeldStaysHeld ==
    ASSUME IInv, NEW s \in Session,
           \A t \in Stream, n \in Cid : owner'[t][n] = s <=> owner[t][n] = s,
           \A t \in Stream : attached'[t] \subseteq Cid,
           \A t \in Stream : \A n \in attached'[t] : owner'[t][n] = s =>
              /\ n \in attached[t]
              /\ Holds(s, t, n) => Holds(s, t, n)' \/ deaf'[s],
           consumer'[s].cid = consumer[s].cid,
           consumer'[s].source \in {consumer[s].source, None},
           deaf[s] => deaf'[s],
           MayStart(s)' => MayStart(s)
    PROVE  ConsumptionIsHeld(s)'
<1>1. ConsumptionIsHeld(s) /\ OwnsOne(s) /\ consumer[s] \in Consumer
  BY TypesAreThese DEF IInv, ConsumptionsAreHeld, ConsumptionIsHeld, SessionTypes
<1>2. MayStart(s)' => OwnsNothing(s)'
  BY <1>1 DEF ConsumptionIsHeld, OwnsNothing
<1>3. OwnsOne(s)'
  <2>1. consumer[s].cid # 0 => consumer[s].cid \in Cid
    BY <1>1, SessionsAssumption DEF Consumer, Cid
  <2>2. consumer'[s].cid # 0 => \E t \in Stream : owner'[t][consumer'[s].cid] = s
    BY <1>1, <2>1 DEF OwnsOne
  <2>3. \A t \in Stream, n \in Cid : owner'[t][n] = s => consumer'[s].source \in {t, None}
    BY <1>1 DEF OwnsOne
  <2>4. \A t, u \in Stream, n, m \in Cid :
          owner'[t][n] = s /\ owner'[u][m] = s => t = u /\ n = m
    BY <1>1 DEF OwnsOne
  <2> QED
    BY <2>2, <2>3, <2>4 DEF OwnsOne
<1>4. ASSUME NEW t \in Stream, NEW n \in attached'[t], owner'[t][n] = s
      PROVE  Holds(s, t, n)' \/ deaf'[s]
  <2>1. n \in attached[t] /\ owner[t][n] = s
    BY <1>4
  <2> QED
    BY <1>1, <1>4, <2>1 DEF ConsumptionIsHeld
<1> QED
  BY <1>2, <1>3, <1>4 DEF ConsumptionIsHeld

\* Nothing of session s changes, nor what a goroutine is about to stop for it.
StaysAsItIs(s) ==
    /\ at'[s] = at[s] /\ status'[s] = status[s]
    /\ consumer'[s] = consumer[s] /\ deaf'[s] = deaf[s]
    /\ \A t \in Stream, n \in Cid :
         owner[t][n] = s /\ task[t][n] = "stop" => task'[t][n] = "stop"

\* A step that starts no consumption leaves those of the others to them.
LEMMA HeldWhileShrinking ==
    ASSUME IInv, NEW s \in Session, owner' = owner,
           \A t \in Stream : attached'[t] \subseteq attached[t],
           StaysAsItIs(s)
    PROVE  ConsumptionIsHeld(s)'
<1>1. \A t \in Stream : attached'[t] \subseteq attached[t] /\ attached'[t] \subseteq Cid
  BY TypesAreThese DEF IInv, StreamTypes
<1>2. ASSUME NEW t \in Stream, NEW n \in attached'[t], owner'[t][n] = s
      PROVE  /\ n \in attached[t]
             /\ Holds(s, t, n) => Holds(s, t, n)' \/ deaf'[s]
  BY <1>1, <1>2 DEF Holds, StaysAsItIs
<1>3. MayStart(s)' => MayStart(s)
  BY DEF MayStart, StaysAsItIs
<1> QED
  BY <1>1, <1>2, <1>3, HeldStaysHeld DEF StaysAsItIs

\* So does one that starts a consumption of another owner.
LEMMA HeldBesideStart ==
    ASSUME IInv, NEW s \in Session, NEW t \in Stream, NEW o \in Session \cup Stream, o # s,
           StartConsume(t, o), consumer'[s] = consumer[s], deaf'[s] = deaf[s],
           MayStart(s)' => MayStart(s),
           at'[s] = at[s] \/ at[s] = "join"
    PROVE  ConsumptionIsHeld(s)'
<1>n. PICK n : n = lastCid[t] + 1
  OBVIOUS
<1>1. /\ StreamTypes /\ StreamTypes' /\ n \in Cid /\ owner[t][n] = None /\ owner'[t][n] = o
      /\ \A u \in Stream, m \in Cid : u # t \/ m # n => owner'[u][m] = owner[u][m]
      /\ attached'[t] = attached[t] \cup {n}
      /\ \A u \in Stream \ {t} : attached'[u] = attached[u]
  BY <1>n, TypesAreThese, StartConsumeTakes DEF IInv
<1>2. s # None
  BY SessionsAssumption
<1>3. \A u \in Stream, m \in Cid : owner'[u][m] = s <=> owner[u][m] = s
  BY <1>1, <1>2
<1>4. \A u \in Stream : attached'[u] \subseteq Cid
  BY <1>1 DEF StreamTypes
<1>5. ASSUME NEW u \in Stream, NEW m \in attached'[u], owner'[u][m] = s
      PROVE  /\ m \in attached[u]
             /\ Holds(s, u, m) => Holds(s, u, m)' \/ deaf'[s]
  <2>1. m \in Cid /\ (u # t \/ m # n)
    BY <1>1, <1>4, <1>5
  <2>2. m \in attached[u]
    BY <1>1, <1>5, <2>1
  <2>3. task'[u][m] = task[u][m]
    BY <1>1, <1>n, <2>1 DEF StartConsume, StreamTypes
  <2>4. at[s] # "join"
    BY <1>3, <1>5, <2>1 DEF IInv, ConsumptionsAreHeld, ConsumptionIsHeld, MayStart, OwnsNothing
  <2> QED
    BY <2>2, <2>3, <2>4 DEF Holds
<1> QED
  BY <1>3, <1>4, <1>5, HeldStaysHeld

\* Goroutines go on with what they were about to do, or it is done.
LEMMA TasksStayRight ==
    ASSUME IInv, owner' = owner, NEW t \in Stream, NEW n \in Cid,
           attached'[t] \subseteq attached[t],
           task'[t][n] = task[t][n],
           \A s \in Session : /\ consumer'[s].via = consumer[s].via
                              /\ consumer[s].closed => consumer'[s].closed
                              /\ deaf[s] => deaf'[s]
    PROVE  TaskIsRight(t, n)'
<1>o. PICK o : o = owner[t][n]
  OBVIOUS
<1>1. TaskIsRight(t, n) /\ owner'[t][n] = o
  BY <1>o DEF IInv, TasksAreRight
<1>2. /\ task[t][n] # "none" => o # None
      /\ task[t][n] \in {"store", "stop", "clear"} => o \in Session /\ consumer[o].via = "tcp"
      /\ task[t][n] \in {"stop", "clear"} => consumer[o].closed
      /\ task[t][n] = "clear" => n \notin attached[t] \/ deaf[o]
  BY <1>1, <1>o DEF TaskIsRight
<1>3. /\ task'[t][n] # "none" => o # None
      /\ task'[t][n] \in {"store", "stop", "clear"} => o \in Session /\ consumer'[o].via = "tcp"
      /\ task'[t][n] \in {"stop", "clear"} => consumer'[o].closed
      /\ task'[t][n] = "clear" => n \notin attached'[t] \/ deaf'[o]
  BY <1>2
<1> QED
  BY <1>1, <1>3 DEF TaskIsRight

\* What the proxies know holds while consumptions go.
LEMMA ProxiesWhileShrinking ==
    ASSUME IInv, Shrinks, UNCHANGED <<members, pclosed, pcid>>
    PROVE  ProxyKnowsItsOwn'
<1>1. registry \in Stream \cup {None}
  BY TypesAreThese DEF IInv, StreamTypes
<1> QED
  BY <1>1 DEF IInv, ProxyKnowsItsOwn, Shrinks

\* And while sessions start theirs.
LEMMA ProxiesBesideStart ==
    ASSUME IInv, NEW t \in Stream, NEW s \in Session, StartConsume(t, s),
           UNCHANGED <<members, pclosed, pcid>>
    PROVE  ProxyKnowsItsOwn'
<1> DEFINE n == lastCid[t] + 1
<1>1. /\ n \in Cid /\ owner[t][n] = None /\ owner'[t][n] = s
      /\ \A u \in Stream, m \in Cid : u # t \/ m # n => owner'[u][m] = owner[u][m]
      /\ attached'[t] = attached[t] \cup {n}
      /\ \A u \in Stream \ {t} : attached'[u] = attached[u]
      /\ registry' = registry
  BY StartConsumeTakes DEF StartConsume
<1> HIDE DEF n
<1> SUFFICES ASSUME registry # None
             PROVE  ProxyKnowsItsOwn'
  BY <1>1 DEF ProxyKnowsItsOwn
<1>2. registry \in Stream /\ pcid[registry] \in 0..MaxCid /\ attached[registry] \subseteq Cid
      /\ MaxCid \in Nat
  BY TypesAreThese, SessionsAssumption DEF IInv, StreamTypes, ProxyTypes
<1>3. ~pclosed[registry] /\ pcid[registry] # 0 => owner'[registry][pcid[registry]] = registry
  <2> SUFFICES ASSUME ~pclosed[registry], pcid[registry] # 0
               PROVE  owner'[registry][pcid[registry]] = registry
    OBVIOUS
  <2>1. owner[registry][pcid[registry]] = registry /\ pcid[registry] \in Cid
    BY <1>2 DEF IInv, ProxyKnowsItsOwn, Cid
  <2>2. registry # None
    OBVIOUS
  <2> QED
    BY <1>1, <1>2, <2>1, <2>2
<1>4. ASSUME NEW m \in attached'[registry], owner'[registry][m] \in Stream
      PROVE  LET u == owner'[registry][m] IN members[u] # {} /\ ~pclosed[u] /\ pcid[u] = m
  <2>1. s \notin Stream
    BY SessionsAssumption
  <2>2. m \in attached[registry] /\ owner'[registry][m] = owner[registry][m]
    BY <1>1, <1>2, <1>4, <2>1
  <2> QED
    BY <1>4, <2>2 DEF IInv, ProxyKnowsItsOwn
<1> QED
  BY <1>1, <1>3, <1>4 DEF ProxyKnowsItsOwn

-----------------------------------------------------------------------------
(* Every step keeps the invariant.                                         *)

\* A session that goes on gains nothing to start and drops nothing it holds.
GoesOn(s) ==
    /\ MayStart(s)' => MayStart(s)
    /\ \A t \in Stream, n \in Cid : Holds(s, t, n) => Holds(s, t, n)'

\* Mutual knowledge of the sessions and their consumptions, for a step that
\* may change the streams as well, but no consumer.
LEMMA StreamStepKeepsInv ==
    ASSUME IInv, StreamTypes', Bookkept', TasksAreRight', ProxyKnowsItsOwn', SessionTypes',
           SessionsAreConsistent',
           UNCHANGED <<members, pclosed, pcid, owner, consumer, deaf>>,
           \A t \in Stream : attached'[t] \subseteq attached[t],
           \A s \in Session : GoesOn(s)
    PROVE  IInv'
<1>1. TypeOK'
  BY TypesAreThese DEF IInv, TypeOK, StreamTypes, SessionTypes, ProxyTypes, Consumer,
     TaskStates, Progress
<1>2. ASSUME NEW s \in Session PROVE ConsumptionIsHeld(s)'
  <2>1. \A t \in Stream : attached'[t] \subseteq attached[t] /\ attached'[t] \subseteq Cid
    BY DEF StreamTypes
  <2>2. ASSUME NEW t \in Stream, NEW n \in attached'[t], owner'[t][n] = s
        PROVE  /\ n \in attached[t]
               /\ Holds(s, t, n) => Holds(s, t, n)' \/ deaf'[s]
    BY <2>1, <2>2 DEF GoesOn
  <2>3. MayStart(s)' => MayStart(s)
    BY DEF GoesOn
  <2> QED
    BY <2>1, <2>2, <2>3, HeldStaysHeld
<1> QED
  BY <1>1, <1>2 DEF IInv, ConsumptionsAreHeld

\* For a step that touches neither streams nor proxies nor consumers, only the
\* sessions have to be looked at.
LEMMA QuietKeepsInv ==
    ASSUME IInv, SessionTypes', SessionsAreConsistent',
           UNCHANGED <<streamVars, proxyVars, consumer, deaf>>,
           \A s \in Session : GoesOn(s)
    PROVE  IInv'
<1>1. Shrinks
  BY DEF Shrinks, streamVars
<1>2. Bookkept'
  BY <1>1, ShrinksKeepsBooks DEF proxyVars
<1>3. ProxyKnowsItsOwn'
  BY <1>1, ProxiesWhileShrinking DEF proxyVars
<1>4. TasksAreRight'
  BY DEF IInv, TasksAreRight, TaskIsRight, streamVars
<1>5. StreamTypes'
  BY TypesAreThese DEF IInv, StreamTypes, streamVars
<1> QED
  BY <1>1, <1>2, <1>3, <1>4, <1>5, StreamStepKeepsInv DEF proxyVars, Shrinks

\* A new session has no role.
LEMMA AcceptKeepsInv ==
    ASSUME IInv, NEW s \in Session, Accept(s)
    PROVE  IInv'
<1>1. SessionTypes /\ SessionsAreConsistent
  BY TypesAreThese DEF IInv
<1>2. SessionTypes'
  BY <1>1 DEF SessionTypes, Accept, Progress, Modes, Via, Status
<1>3. SessionsAreConsistent'
  BY <1>1 DEF SessionTypes, SessionsAreConsistent, SessionIsConsistent, NoConsumer, Accept
<1>4. \A r \in Session : GoesOn(r)
  BY <1>1 DEF SessionTypes, GoesOn, MayStart, Holds, streamVars, Accept
<1> QED
  BY <1>2, <1>3, <1>4, QuietKeepsInv DEF Accept

\* DESCRIBE chooses the player's role before any is taken.
LEMMA DescribeKeepsInv ==
    ASSUME IInv, NEW s \in Session, Describe(s)
    PROVE  IInv'
<1>1. SessionTypes /\ SessionsAreConsistent
  BY TypesAreThese DEF IInv
<1>2. SessionTypes'
  BY <1>1 DEF SessionTypes, Describe, Reads, Modes, Via, Status
<1>3. SessionsAreConsistent'
  BY <1>1 DEF SessionTypes, SessionsAreConsistent, SessionIsConsistent, NoConsumer, Describe, Reads
<1>4. \A r \in Session : GoesOn(r)
  BY <1>1 DEF SessionTypes, GoesOn, MayStart, Holds, streamVars, Describe, Reads
<1> QED
  BY <1>2, <1>3, <1>4, QuietKeepsInv DEF Describe

\* ANNOUNCE chooses the pusher's.
LEMMA AnnounceKeepsInv ==
    ASSUME IInv, NEW s \in Session, Announce(s)
    PROVE  IInv'
<1>1. SessionTypes /\ SessionsAreConsistent
  BY TypesAreThese DEF IInv
<1>2. SessionTypes'
  BY <1>1 DEF SessionTypes, Announce, Reads, Modes, Via, Status
<1>3. SessionsAreConsistent'
  BY <1>1 DEF SessionTypes, SessionsAreConsistent, SessionIsConsistent, NoConsumer, Announce, Reads
<1>4. \A r \in Session : GoesOn(r)
  BY <1>1 DEF SessionTypes, GoesOn, MayStart, Holds, streamVars, Announce, Reads
<1> QED
  BY <1>2, <1>3, <1>4, QuietKeepsInv DEF Announce

\* SETUP overwrites the transport of a session without a role.
LEMMA SetupKeepsInv ==
    ASSUME IInv, NEW s \in Session, NEW tr \in [mode : {"play", "record"}, via : Via], Setup(s, tr)
    PROVE  IInv'
<1>1. SessionTypes /\ SessionsAreConsistent
  BY TypesAreThese DEF IInv
<1>2. SessionTypes'
  BY <1>1 DEF SessionTypes, Setup, Reads, Modes, Via, Status
<1>3. SessionsAreConsistent'
  BY <1>1 DEF SessionTypes, SessionsAreConsistent, SessionIsConsistent, NoConsumer, Setup, Reads
<1>4. \A r \in Session : GoesOn(r)
  BY <1>1 DEF SessionTypes, GoesOn, MayStart, Holds, streamVars, Setup, Reads
<1> QED
  BY <1>2, <1>3, <1>4, QuietKeepsInv DEF Setup

\* A refused PLAY leaves a session that plays nothing.
LEMMA PlayRefusedKeepsInv ==
    ASSUME IInv, NEW s \in Session, PlayRefused(s)
    PROVE  IInv'
<1>1. SessionTypes /\ SessionsAreConsistent
  BY TypesAreThese DEF IInv
<1>2. SessionTypes'
  BY <1>1 DEF SessionTypes, PlayRefused, CanPlay, Reads, Modes, Via, Status
<1>3. SessionsAreConsistent'
  BY <1>1 DEF SessionTypes, SessionsAreConsistent, SessionIsConsistent, NoConsumer, PlayRefused, CanPlay, Reads
<1>4. \A r \in Session : GoesOn(r)
  BY <1>1 DEF SessionTypes, GoesOn, MayStart, Holds, streamVars, PlayRefused, CanPlay, Reads
<1> QED
  BY <1>2, <1>3, <1>4, QuietKeepsInv DEF PlayRefused

\* Leaving keeps the role until it is closed.
LEMMA LeaveKeepsInv ==
    ASSUME IInv, NEW s \in Session, Leave(s)
    PROVE  IInv'
<1>1. SessionTypes /\ SessionsAreConsistent
  BY TypesAreThese DEF IInv
<1>2. SessionTypes'
  BY <1>1 DEF SessionTypes, Leave, Progress, Modes, Via, Status
<1>3. SessionsAreConsistent'
  BY <1>1 DEF SessionTypes, SessionsAreConsistent, SessionIsConsistent, NoConsumer, Leave
<1>4. \A r \in Session : GoesOn(r)
  BY <1>1 DEF SessionTypes, GoesOn, MayStart, Holds, streamVars, Leave
<1> QED
  BY <1>2, <1>3, <1>4, QuietKeepsInv DEF Leave

\* A failed write of a WSP session only sets a flag.
LEMMA WspSendFailsKeepsInv ==
    ASSUME IInv, NEW t \in Stream, NEW n \in Cid, WspSendFails(t, n)
    PROVE  IInv'
<1>1. SessionTypes /\ SessionsAreConsistent
  BY TypesAreThese DEF IInv
<1>2. SessionTypes'
  BY <1>1 DEF SessionTypes, WspSendFails, Modes, Via, Status
<1>3. SessionsAreConsistent'
  BY <1>1 DEF SessionTypes, SessionsAreConsistent, SessionIsConsistent, NoConsumer, WspSendFails
<1>4. \A r \in Session : GoesOn(r)
  BY <1>1 DEF SessionTypes, GoesOn, MayStart, Holds, streamVars, WspSendFails
<1> QED
  BY <1>2, <1>3, <1>4, QuietKeepsInv DEF WspSendFails

\* The test of closed: a consumer that is closed leaves nothing to hold but what
\* the goroutine that closed it holds.
LEMMA TestClosedKeepsInv ==
    ASSUME IInv, NEW s \in Session, TestClosed(s)
    PROVE  IInv'
<1>1. SessionTypes /\ SessionsAreConsistent
  BY TypesAreThese DEF IInv
<1>2. SessionTypes'
  BY <1>1 DEF SessionTypes, TestClosed, Progress
<1>3. SessionsAreConsistent'
  BY <1>1 DEF SessionTypes, SessionsAreConsistent, SessionIsConsistent, TestClosed
<1>4. \A r \in Session : GoesOn(r)
  BY <1>1 DEF SessionTypes, GoesOn, MayStart, Holds, streamVars, TestClosed
<1> QED
  BY <1>2, <1>3, <1>4, QuietKeepsInv DEF TestClosed

\* A session whose source is gone has nothing to stop.
LEMMA CrashesKeepsInv ==
    ASSUME IInv, NEW s \in Session, Crashes(s)
    PROVE  IInv'
<1>1. SessionTypes /\ SessionsAreConsistent /\ None \notin Stream
  BY TypesAreThese, SessionsAssumption DEF IInv
<1>2. SessionTypes'
  BY <1>1 DEF SessionTypes, Crashes, Progress
<1>3. SessionsAreConsistent'
  BY <1>1 DEF SessionTypes, SessionsAreConsistent, SessionIsConsistent, Crashes
<1>4. \A r \in Session : GoesOn(r)
  BY <1>1 DEF SessionTypes, GoesOn, MayStart, Holds, streamVars, Crashes
<1> QED
  BY <1>2, <1>3, <1>4, QuietKeepsInv DEF Crashes

\* Nor has one without a consumer.
LEMMA CloseNothingKeepsInv ==
    ASSUME IInv, NEW s \in Session, CloseNothing(s)
    PROVE  IInv'
<1>1. SessionTypes /\ SessionsAreConsistent /\ None \notin Stream
  BY TypesAreThese, SessionsAssumption DEF IInv
<1>2. SessionTypes'
  BY <1>1 DEF SessionTypes, CloseNothing, ToStream, Progress
<1>3. SessionsAreConsistent'
  BY <1>1 DEF SessionTypes, SessionsAreConsistent, SessionIsConsistent, CloseNothing, ToStream
<1>4. \A r \in Session : GoesOn(r)
  BY <1>1 DEF SessionTypes, GoesOn, MayStart, Holds, streamVars, CloseNothing, ToStream,
     NoConsumer
<1> QED
  BY <1>2, <1>3, <1>4, QuietKeepsInv DEF CloseNothing

\* A stream that has just been published has no consumption.
LEMMA PublishStarts ==
    ASSUME IInv, NEW t \in Stream, Publish(t),
           UNCHANGED <<lastCid, attached, ending, owner, task, consumer, proxyVars>>
    PROVE  StreamTypes' /\ Bookkept' /\ ProxyKnowsItsOwn'
<1>1. StreamTypes /\ Bookkept /\ t # None
  BY TypesAreThese, SessionsAssumption DEF IInv
<1>2. StreamTypes'
  BY <1>1 DEF StreamTypes, Publish
<1>3. ASSUME NEW u \in Stream PROVE StreamIsBookkept(u)'
  BY <1>1 DEF Bookkept, StreamIsBookkept, Publish, StreamTypes, proxyVars
<1>4. open'[registry'] # "none"
  BY <1>1 DEF Publish, StreamTypes
<1>5. ASSUME NEW s \in Session, consumer'[s].source # None
      PROVE  open'[consumer'[s].source] # "none"
  BY <1>1, <1>5 DEF Publish, StreamTypes, Bookkept
<1>6. ProxyKnowsItsOwn'
  BY <1>1 DEF ProxyKnowsItsOwn, Publish, Bookkept, StreamIsBookkept, proxyVars
<1> QED
  BY <1>2, <1>3, <1>4, <1>5, <1>6 DEF Bookkept

\* A source that publishes its stream is nobody here.
LEMMA SourceStartsKeepsInv ==
    ASSUME IInv, NEW t \in Stream, SourceStarts(t)
    PROVE  IInv'
<1>1. SessionTypes /\ SessionsAreConsistent
  BY TypesAreThese DEF IInv
<1>2. SessionTypes' /\ SessionsAreConsistent'
  BY <1>1 DEF SourceStarts, sessionVars, SessionTypes, SessionsAreConsistent, SessionIsConsistent
<1>3. StreamTypes' /\ Bookkept' /\ ProxyKnowsItsOwn'
  BY PublishStarts DEF SourceStarts, sessionVars
<1>4. \A s \in Session : GoesOn(s)
  BY DEF SourceStarts, sessionVars, GoesOn, MayStart, Holds
<1>5. TasksAreRight'
  BY DEF SourceStarts, sessionVars, IInv, TasksAreRight, TaskIsRight
<1> QED
  BY <1>2, <1>3, <1>4, <1>5, StreamStepKeepsInv DEF SourceStarts, sessionVars, proxyVars

\* A session that publishes has no consumer and the mode to do so.
LEMMA RecordKeepsInv ==
    ASSUME IInv, NEW s \in Session, NEW t \in Stream, Record(s, t)
    PROVE  IInv'
<1>1. SessionTypes /\ SessionsAreConsistent
  BY TypesAreThese DEF IInv
<1>2. SessionTypes'
  BY <1>1 DEF Record, SessionTypes, Status
<1>3. SessionsAreConsistent'
  BY <1>1 DEF Record, Reads, SessionTypes, SessionsAreConsistent, SessionIsConsistent
<1>4. StreamTypes' /\ Bookkept' /\ ProxyKnowsItsOwn'
  BY PublishStarts DEF Record
<1>5. \A r \in Session : GoesOn(r)
  BY <1>1 DEF SessionTypes, GoesOn, MayStart, Holds, Record, Reads
<1>6. TasksAreRight'
  BY DEF Record, IInv, TasksAreRight, TaskIsRight
<1> QED
  BY <1>2, <1>3, <1>4, <1>5, <1>6, StreamStepKeepsInv DEF Record, proxyVars

\* A stream that closes loses its consumptions, and the path perhaps it.
LEMMA UnregistShrinks ==
    ASSUME IInv, NEW t \in Stream, Unregist(t), UNCHANGED proxyVars,
           \A s \in Session : consumer'[s].source \in {consumer[s].source, None}
    PROVE  /\ StreamTypes' /\ Bookkept' /\ ProxyKnowsItsOwn'
           /\ \A u \in Stream : attached'[u] \subseteq attached[u]
<1>1. StreamTypes /\ Bookkept /\ t # None
  BY TypesAreThese, SessionsAssumption DEF IInv
<1>2. StreamTypes'
  BY <1>1 DEF StreamTypes, Unregist
<1>3. \A u \in Stream : /\ attached'[u] \subseteq attached[u]
                        /\ ending'[u] \subseteq ending[u] \cup attached[u]
  BY <1>1 DEF StreamTypes, Unregist
<1>4. ASSUME NEW u \in Stream PROVE StreamIsBookkept(u)'
  <2>1. open'[u] = "none" => open[u] = "none"
    BY <1>1 DEF StreamTypes, Unregist
  <2> QED
    BY <1>1, <1>3, <2>1 DEF Bookkept, StreamIsBookkept, Unregist, proxyVars
<1>5. registry' # None => open'[registry'] # "none"
  BY <1>1 DEF Unregist, StreamTypes, Bookkept
<1>6. ASSUME NEW s \in Session, consumer'[s].source # None
      PROVE  open'[consumer'[s].source] # "none"
  BY <1>1, <1>6 DEF Unregist, StreamTypes, Bookkept
<1>7. ProxyKnowsItsOwn'
  <2> SUFFICES ASSUME registry' # None
               PROVE  ProxyKnowsItsOwn'
    BY DEF ProxyKnowsItsOwn
  <2>1. registry' = registry /\ registry \in Stream
    BY <1>1 DEF Unregist, StreamTypes
  <2> QED
    BY <1>3, <2>1 DEF IInv, ProxyKnowsItsOwn, Unregist, proxyVars
<1> QED
  BY <1>2, <1>3, <1>4, <1>5, <1>6, <1>7 DEF Bookkept

\* The end of another source.
LEMMA SourceEndsKeepsInv ==
    ASSUME IInv, NEW t \in Stream, SourceEnds(t)
    PROVE  IInv'
<1>1. SessionTypes /\ SessionsAreConsistent
  BY TypesAreThese DEF IInv
<1>2. SessionTypes' /\ SessionsAreConsistent'
  BY <1>1 DEF SourceEnds, sessionVars, SessionTypes, SessionsAreConsistent, SessionIsConsistent
<1>3. /\ StreamTypes' /\ Bookkept' /\ ProxyKnowsItsOwn'
      /\ \A u \in Stream : attached'[u] \subseteq attached[u]
  BY UnregistShrinks DEF SourceEnds, sessionVars
<1>4. \A s \in Session : GoesOn(s)
  BY DEF SourceEnds, Unregist, sessionVars, GoesOn, MayStart, Holds
<1>5. ASSUME NEW u \in Stream, NEW m \in Cid PROVE TaskIsRight(u, m)'
  BY <1>3, TasksStayRight DEF SourceEnds, Unregist, sessionVars
<1> QED
  BY <1>2, <1>3, <1>4, <1>5, StreamStepKeepsInv
     DEF SourceEnds, Unregist, sessionVars, proxyVars, TasksAreRight

\* A goroutine that leaves its loop stops nothing.
LEMMA TaskEndsKeepsInv ==
    ASSUME IInv, NEW t \in Stream, NEW n \in Cid, TaskEnds(t, n)
    PROVE  IInv'
<1>1. StreamTypes /\ SessionTypes /\ SessionsAreConsistent /\ TasksAreRight
  BY TypesAreThese DEF IInv
<1>2. SessionTypes' /\ SessionsAreConsistent'
  BY <1>1 DEF TaskEnds, sessionVars, SessionTypes, SessionsAreConsistent, SessionIsConsistent
<1>3. /\ task[t][n] = "run" /\ task'[t][n] = "release"
      /\ \A u \in Stream, m \in Cid : u # t \/ m # n => task'[u][m] = task[u][m]
  BY <1>1 DEF StreamTypes, TaskEnds
<1>4. Shrinks /\ StreamTypes'
  BY <1>1 DEF TaskEnds, Shrinks, StreamTypes, TaskStates
<1>5. Bookkept' /\ ProxyKnowsItsOwn'
  BY <1>4, ShrinksKeepsBooks, ProxiesWhileShrinking DEF TaskEnds, sessionVars, proxyVars
<1>6. ASSUME NEW u \in Stream, NEW m \in Cid PROVE TaskIsRight(u, m)'
  <2>1. CASE u = t /\ m = n
    BY <1>1, <1>3, <2>1 DEF TaskEnds, TasksAreRight, TaskIsRight
  <2>2. CASE u # t \/ m # n
    BY <1>3, <2>2, TasksStayRight DEF TaskEnds, sessionVars
  <2> QED
    BY <2>1, <2>2
<1>7. ASSUME NEW s \in Session PROVE GoesOn(s)
  <2>1. ASSUME NEW u \in Stream, NEW m \in Cid, Holds(s, u, m) PROVE Holds(s, u, m)'
    BY <1>3, <2>1 DEF Holds, TaskEnds, sessionVars
  <2> QED
    BY <2>1 DEF GoesOn, MayStart, TaskEnds, sessionVars
<1> QED
  BY <1>2, <1>4, <1>5, <1>6, <1>7, StreamStepKeepsInv
     DEF TaskEnds, sessionVars, proxyVars, TasksAreRight

\* A goroutine whose send failed finds the consumer open.
LEMMA SendFailsKeepsInv ==
    ASSUME IInv, NEW t \in Stream, NEW n \in Cid, SendFails(t, n)
    PROVE  IInv'
<1>1. StreamTypes /\ SessionTypes /\ SessionsAreConsistent /\ TasksAreRight
  BY TypesAreThese DEF IInv
<1>2. SessionTypes' /\ SessionsAreConsistent'
  BY <1>1 DEF SendFails, sessionVars, SessionTypes, SessionsAreConsistent, SessionIsConsistent
<1>3. /\ task[t][n] = "run" /\ task'[t][n] = "store"
      /\ \A u \in Stream, m \in Cid : u # t \/ m # n => task'[u][m] = task[u][m]
  BY <1>1 DEF StreamTypes, SendFails
<1>4. Shrinks /\ StreamTypes'
  BY <1>1 DEF SendFails, Shrinks, StreamTypes, TaskStates
<1>5. Bookkept' /\ ProxyKnowsItsOwn'
  BY <1>4, ShrinksKeepsBooks, ProxiesWhileShrinking DEF SendFails, sessionVars, proxyVars
<1>6. ASSUME NEW u \in Stream, NEW m \in Cid PROVE TaskIsRight(u, m)'
  <2>1. CASE u = t /\ m = n
    BY <1>1, <1>3, <2>1 DEF SendFails, sessionVars, TasksAreRight, TaskIsRight
  <2>2. CASE u # t \/ m # n
    BY <1>3, <2>2, TasksStayRight DEF SendFails, sessionVars
  <2> QED
    BY <2>1, <2>2
<1>7. ASSUME NEW s \in Session PROVE GoesOn(s)
  <2>1. ASSUME NEW u \in Stream, NEW m \in Cid, Holds(s, u, m) PROVE Holds(s, u, m)'
    BY <1>3, <2>1 DEF Holds, SendFails, sessionVars
  <2> QED
    BY <2>1 DEF GoesOn, MayStart, SendFails, sessionVars
<1> QED
  BY <1>2, <1>4, <1>5, <1>6, <1>7, StreamStepKeepsInv
     DEF SendFails, sessionVars, proxyVars, TasksAreRight

\* Nobody knows a proxy that has been closed.
LEMMA ProxiesBesideClose ==
    ASSUME IInv, NEW t \in Stream, NEW ms \in SUBSET Session, CloseProxy(t, ms),
           UNCHANGED <<registry, open, lastCid, owner, pcid>>
    PROVE  ProxyKnowsItsOwn'
<1>1. registry # None => registry \in Stream
  BY TypesAreThese DEF IInv, StreamTypes
<1>2. /\ \A u \in Stream : attached'[u] \subseteq attached[u]
      /\ \A u \in Stream \ {t} : members'[u] = members[u] /\ pclosed'[u] = pclosed[u]
      /\ pclosed'[t]
      /\ registry # None => \A n \in attached'[registry] : owner[registry][n] # t
  BY CloseProxyShrinks DEF Shrinks
<1> QED
  BY <1>1, <1>2 DEF IInv, ProxyKnowsItsOwn

\* A goroutine that closes its session only sets a flag; one that closes a
\* proxy may take a consumption of another stream with it.
LEMMA TaskReleasesKeepsInv ==
    ASSUME IInv, NEW t \in Stream, NEW n \in Cid, TaskReleases(t, n)
    PROVE  IInv'
<1> DEFINE o == owner[t][n]
<1>1. StreamTypes /\ SessionTypes /\ ProxyTypes /\ SessionsAreConsistent
  BY TypesAreThese DEF IInv
<1>2. o \in Session \cup Stream
  BY <1>1 DEF IInv, TasksAreRight, TaskIsRight, TaskReleases, StreamTypes
<1>3. /\ Shrinks /\ closed' \in [Session -> BOOLEAN]
      /\ attached' \in [Stream -> SUBSET Cid] /\ ending' \in [Stream -> SUBSET Cid]
      /\ \A u \in Stream : attached'[u] \cap ending'[u] = {}
      /\ members' \in [Stream -> SUBSET Session] /\ pclosed' \in [Stream -> BOOLEAN]
      /\ pcid' = pcid
      /\ ProxyKnowsItsOwn'
  <2>1. CASE o \in Session
    <3>1. UNCHANGED <<registry, open, lastCid, owner, attached, ending, proxyVars>>
      BY <2>1 DEF TaskReleases
    <3>2. Shrinks
      BY <3>1 DEF Shrinks
    <3>3. ProxyKnowsItsOwn'
      BY <3>1, <3>2, ProxiesWhileShrinking DEF proxyVars
    <3>4. closed' \in [Session -> BOOLEAN]
      BY <1>1, <2>1 DEF TaskReleases, SessionTypes
    <3> QED
      BY <1>1, <3>1, <3>2, <3>3, <3>4 DEF proxyVars, StreamTypes, ProxyTypes
  <2>2. CASE o \notin Session
    <3>1. o \in Stream /\ members[o] \in SUBSET Session
      BY <1>1, <1>2, <2>2 DEF ProxyTypes
    <3>2. CloseProxy(o, members[o]) /\ UNCHANGED <<registry, open, lastCid, owner, pcid>>
      BY <2>2 DEF TaskReleases
    <3> QED
      BY <3>1, <3>2, CloseProxyShrinks, ProxiesBesideClose
  <2> QED
    BY <2>1, <2>2
<1>4. TypeOK'
  <2>1. StreamTypes'
    BY <1>1, <1>3 DEF StreamTypes, TaskReleases, TaskStates
  <2>2. SessionTypes'
    BY <1>1, <1>3 DEF SessionTypes, TaskReleases
  <2>3. ProxyTypes'
    BY <1>1, <1>3 DEF ProxyTypes
  <2> QED
    BY <2>1, <2>2, <2>3 DEF TypeOK, StreamTypes, SessionTypes, ProxyTypes, Consumer, TaskStates, Progress
<1>5. Bookkept'
  BY <1>3, ShrinksKeepsBooks DEF TaskReleases
<1>6. TasksAreRight'
  <2>1. ASSUME NEW u \in Stream, NEW m \in Cid PROVE TaskIsRight(u, m)'
    <3>1. CASE u = t /\ m = n
      <4>1. task'[u][m] = "done" /\ owner'[u][m] = o
        BY <1>1, <3>1 DEF StreamTypes, TaskReleases
      <4> QED
        BY <1>2, <4>1, SessionsAssumption DEF TaskIsRight
    <3>2. CASE u # t \/ m # n
      <4>1. task'[u][m] = task[u][m]
        BY <1>1, <3>2 DEF StreamTypes, TaskReleases
      <4> QED
        BY <1>3, <4>1, TasksStayRight DEF TaskReleases, Shrinks
    <3> QED
      BY <3>1, <3>2
  <2> QED
    BY <2>1 DEF TasksAreRight
<1>7. SessionsAreConsistent'
  BY <1>1 DEF TaskReleases, SessionsAreConsistent, SessionIsConsistent
<1>8. ConsumptionsAreHeld'
  <2>1. ASSUME NEW x \in Session PROVE StaysAsItIs(x)
    BY <1>1 DEF StaysAsItIs, TaskReleases, StreamTypes
  <2> QED
    BY <1>3, <2>1, HeldWhileShrinking DEF ConsumptionsAreHeld, Shrinks
<1> QED
  BY <1>3, <1>4, <1>5, <1>6, <1>7, <1>8 DEF IInv

\* For a step that changes one session's consumer and takes consumptions away at
\* most, the other sessions need not be looked at.
LEMMA ConsumerStepKeepsInv ==
    ASSUME IInv, NEW s \in Session, Shrinks, UNCHANGED proxyVars,
           StreamTypes', SessionTypes', SessionIsConsistent(s)', ConsumptionIsHeld(s)',
           TasksAreRight',
           consumer'[s].source \in {consumer[s].source, None},
           \A r \in Session \ {s} : StaysAsItIs(r),
           UNCHANGED <<kind, mode, transport, feeds>>
    PROVE  IInv'
<1>1. TypeOK'
  BY TypesAreThese DEF IInv, TypeOK, StreamTypes, SessionTypes, ProxyTypes, Consumer,
     TaskStates, Progress, proxyVars
<1>2. ASSUME NEW r \in Session \ {s}
      PROVE  SessionIsConsistent(r)' /\ ConsumptionIsHeld(r)'
  <2>1. StaysAsItIs(r) /\ SessionIsConsistent(r)
    BY DEF IInv, SessionsAreConsistent
  <2>2. SessionIsConsistent(r)'
    BY <2>1 DEF SessionIsConsistent, StaysAsItIs
  <2> QED
    BY <2>1, <2>2, HeldWhileShrinking DEF Shrinks
<1>3. SessionsAreConsistent' /\ ConsumptionsAreHeld'
  BY <1>2 DEF SessionsAreConsistent, ConsumptionsAreHeld
<1>4. ProxyKnowsItsOwn'
  BY ProxiesWhileShrinking DEF proxyVars
<1>5. Bookkept'
  BY ShrinksKeepsBooks DEF StaysAsItIs, proxyVars
<1> QED
  BY <1>1, <1>3, <1>4, <1>5 DEF IInv

\* The store of closed changes nothing else of a consumer.
LEMMA ClosedIsSet ==
    ASSUME SessionTypes, NEW s \in Session, consumer' = [consumer EXCEPT ![s].closed = TRUE]
    PROVE  /\ consumer' \in [Session -> Consumer]
           /\ consumer'[s].closed /\ consumer'[s].via = consumer[s].via
           /\ consumer'[s].cid = consumer[s].cid /\ consumer'[s].source = consumer[s].source
           /\ \A r \in Session \ {s} : consumer'[r] = consumer[r]
  BY DEF SessionTypes, Consumer

\* Nor does that of source = nil, which leaves the consumer's kind and number.
LEMMA SourceIsCleared ==
    ASSUME SessionTypes, NEW s \in Session, consumer' = [consumer EXCEPT ![s].source = None]
    PROVE  /\ consumer' \in [Session -> Consumer]
           /\ consumer'[s].source = None /\ consumer'[s].via = consumer[s].via
           /\ consumer'[s].cid = consumer[s].cid /\ consumer'[s].closed = consumer[s].closed
           /\ \A r \in Session \ {s} : consumer'[r] = consumer[r]
  BY DEF SessionTypes, Consumer

\* A goroutine that closes a consumer does it for a player that started its
\* consumption, the only one it has.
LEMMA ClosingTask ==
    ASSUME IInv, NEW t \in Stream, NEW n \in Cid, task[t][n] \in {"store", "stop", "clear"},
           NEW s, s = owner[t][n]
    PROVE  /\ s \in Session /\ consumer[s] \in Consumer
           /\ consumer[s].via = "tcp" /\ feeds[s] = None
           /\ ~MayStart(s)
           /\ \A u \in Stream, m \in Cid : owner[u][m] = s => u = t /\ m = n
           /\ consumer[s].source \in {t, None} /\ consumer[s].cid \in {0, n}
           /\ SessionIsConsistent(s) /\ ConsumptionIsHeld(s)
           /\ task[t][n] \in {"stop", "clear"} => consumer[s].closed
<1>1. /\ s \in Session /\ consumer[s].via = "tcp"
      /\ task[t][n] \in {"stop", "clear"} => consumer[s].closed
  BY DEF IInv, TasksAreRight, TaskIsRight
<1>2. /\ SessionIsConsistent(s) /\ ConsumptionIsHeld(s) /\ OwnsOne(s)
      /\ consumer[s] \in Consumer
  BY <1>1, TypesAreThese
     DEF IInv, SessionsAreConsistent, ConsumptionsAreHeld, ConsumptionIsHeld, SessionTypes
<1>3. ~MayStart(s)
  BY <1>2 DEF ConsumptionIsHeld, OwnsNothing
<1>4. feeds[s] = None
  BY <1>1, <1>2 DEF SessionIsConsistent, NoConsumer
<1>5. \A u \in Stream, m \in Cid : owner[u][m] = s => u = t /\ m = n
  BY <1>2 DEF OwnsOne
<1>6. consumer[s].source \in {t, None}
  BY <1>2 DEF OwnsOne
<1>7. consumer[s].cid \in {0, n}
  <2>1. consumer[s].cid # 0 => consumer[s].cid \in Cid
    BY <1>2, SessionsAssumption DEF Consumer, Cid
  <2> QED
    BY <1>2, <1>5, <2>1 DEF OwnsOne
<1> QED
  BY <1>1, <1>2, <1>3, <1>4, <1>5, <1>6, <1>7

\* The goroutine sets closed and so takes the stopping over.
LEMMA StoreClosedKeepsInv ==
    ASSUME IInv, NEW t \in Stream, NEW n \in Cid, StoreClosed(t, n)
    PROVE  IInv'
<1>s. PICK s : s = owner[t][n]
  OBVIOUS
<1>1. /\ s \in Session /\ consumer[s] \in Consumer
      /\ consumer[s].via = "tcp" /\ feeds[s] = None
      /\ ~MayStart(s)
      /\ \A u \in Stream, m \in Cid : owner[u][m] = s => u = t /\ m = n
      /\ SessionIsConsistent(s)
  BY <1>s, ClosingTask DEF StoreClosed
<1>2. StreamTypes /\ SessionTypes /\ None \notin Stream
  BY TypesAreThese, SessionsAssumption DEF IInv
<1>3. /\ consumer' = [consumer EXCEPT ![s].closed = TRUE]
      /\ UNCHANGED <<registry, open, lastCid, attached, ending, owner, kind, at, closed,
                     mode, transport, status, feeds, deaf, proxyVars>>
  BY <1>s DEF StoreClosed
<1>4. /\ consumer' \in [Session -> Consumer]
      /\ consumer'[s].closed /\ consumer'[s].via = consumer[s].via
      /\ consumer'[s].cid = consumer[s].cid /\ consumer'[s].source = consumer[s].source
      /\ \A r \in Session \ {s} : consumer'[r] = consumer[r]
  BY <1>1, <1>2, <1>3, ClosedIsSet
<1>5. /\ task[t][n] = "store" /\ task'[t][n] = "stop"
      /\ \A u \in Stream, m \in Cid : u # t \/ m # n => task'[u][m] = task[u][m]
  BY <1>2 DEF StreamTypes, StoreClosed
<1>6. StreamTypes' /\ SessionTypes' /\ Shrinks
  BY <1>2, <1>3, <1>4 DEF StreamTypes, SessionTypes, StoreClosed, TaskStates, Shrinks
<1>7. SessionIsConsistent(s)'
  BY <1>1, <1>3, <1>4 DEF SessionIsConsistent, MayStart
<1>8. ConsumptionIsHeld(s)'
  <2>1. ASSUME NEW u \in Stream, NEW m \in attached'[u], owner'[u][m] = s
        PROVE  m \in attached[u] /\ (Holds(s, u, m) => Holds(s, u, m)' \/ deaf'[s])
    <3>1. u = t /\ m = n /\ m \in attached[u]
      BY <1>1, <1>2, <1>3, <2>1 DEF StreamTypes
    <3> QED
      BY <1>3, <1>4, <1>5, <3>1 DEF Holds
  <2>2. \A u \in Stream : attached'[u] \subseteq Cid
    BY <1>6 DEF StreamTypes
  <2>3. MayStart(s)' => MayStart(s)
    BY <1>3 DEF MayStart
  <2> QED
    BY <1>1, <1>3, <1>4, <2>1, <2>2, <2>3, HeldStaysHeld
<1>9. ASSUME NEW u \in Stream, NEW m \in Cid PROVE TaskIsRight(u, m)'
  <2>1. CASE u = t /\ m = n
    BY <1>1, <1>3, <1>4, <1>5, <1>s, <2>1, SessionsAssumption DEF TaskIsRight
  <2>2. CASE u # t \/ m # n
    <3>1. \A x \in Session : /\ consumer'[x].via = consumer[x].via
                             /\ consumer[x].closed => consumer'[x].closed
                             /\ deaf[x] => deaf'[x]
      BY <1>3, <1>4
    <3> QED
      BY <1>3, <1>5, <2>2, <3>1, TasksStayRight
  <2> QED
    BY <2>1, <2>2
<1>10. ASSUME NEW r \in Session \ {s} PROVE StaysAsItIs(r)
  BY <1>3, <1>4, <1>5, <1>s DEF StaysAsItIs
<1> QED
  BY <1>1, <1>3, <1>4, <1>6, <1>7, <1>8, <1>9, <1>10, ConsumerStepKeepsInv DEF TasksAreRight

\* It stops the one consumption, unless the player does not know its number.
LEMMA StopFailedKeepsInv ==
    ASSUME IInv, NEW t \in Stream, NEW n \in Cid, StopFailed(t, n)
    PROVE  IInv'
<1>s. PICK s : s = owner[t][n]
  OBVIOUS
<1>1. /\ s \in Session /\ consumer[s] \in Consumer /\ consumer[s].via = "tcp"
      /\ consumer[s].closed /\ ~MayStart(s)
      /\ \A u \in Stream, m \in Cid : owner[u][m] = s => u = t /\ m = n
      /\ consumer[s].source \in {t, None} /\ consumer[s].cid \in {0, n}
      /\ SessionIsConsistent(s)
  BY <1>s, ClosingTask DEF StopFailed
<1>2. StreamTypes /\ SessionTypes /\ None \notin Stream
  BY TypesAreThese, SessionsAssumption DEF IInv
<1>3. /\ consumer[s].source = t /\ Stops(t, consumer[s].cid)
      /\ deaf' = [deaf EXCEPT ![s] = @ \/ consumer[s].cid = 0]
      /\ UNCHANGED <<registry, open, lastCid, owner, kind, at, closed, mode, transport,
                     status, consumer, feeds, proxyVars>>
  BY <1>1, <1>s DEF StopFailed
<1>4. /\ task[t][n] = "stop" /\ task'[t][n] = "clear"
      /\ \A u \in Stream, m \in Cid : u # t \/ m # n => task'[u][m] = task[u][m]
      /\ task' \in [Stream -> [Cid -> TaskStates]]
  BY <1>2 DEF StreamTypes, StopFailed, TaskStates
<1>5. Shrinks /\ StreamTypes' /\ consumer[s].cid \notin attached'[t]
  BY <1>3, <1>4, StopsShrinks
<1>6. /\ deaf' \in [Session -> BOOLEAN]
      /\ deaf[s] => deaf'[s]
      /\ consumer[s].cid = 0 => deaf'[s]
      /\ \A r \in Session \ {s} : deaf'[r] = deaf[r]
  BY <1>1, <1>2, <1>3 DEF SessionTypes
<1>7. SessionTypes'
  BY <1>2, <1>3, <1>6 DEF SessionTypes
<1>8. SessionIsConsistent(s)'
  BY <1>1, <1>3 DEF SessionIsConsistent, MayStart
<1>9. n \notin attached'[t] \/ deaf'[s]
  BY <1>1, <1>5, <1>6
<1>10. ConsumptionIsHeld(s)'
  <2>1. ASSUME NEW u \in Stream, NEW m \in attached'[u], owner'[u][m] = s
        PROVE  m \in attached[u] /\ deaf'[s]
    BY <1>1, <1>3, <1>5, <1>9, <2>1 DEF StreamTypes, Shrinks
  <2>2. \A u \in Stream : attached'[u] \subseteq Cid
    BY <1>5 DEF StreamTypes
  <2>3. MayStart(s)' => MayStart(s)
    BY <1>3 DEF MayStart
  <2> QED
    BY <1>1, <1>3, <1>6, <2>1, <2>2, <2>3, HeldStaysHeld
<1>11. ASSUME NEW u \in Stream, NEW m \in Cid PROVE TaskIsRight(u, m)'
  <2>1. CASE u = t /\ m = n
    BY <1>1, <1>3, <1>4, <1>9, <1>s, <2>1, SessionsAssumption DEF TaskIsRight
  <2>2. CASE u # t \/ m # n
    <3>1. \A x \in Session : /\ consumer'[x].via = consumer[x].via
                             /\ consumer[x].closed => consumer'[x].closed
                             /\ deaf[x] => deaf'[x]
      BY <1>3, <1>6
    <3> QED
      BY <1>3, <1>4, <1>5, <2>2, <3>1, TasksStayRight DEF Shrinks
  <2> QED
    BY <2>1, <2>2
<1>12. ASSUME NEW r \in Session \ {s} PROVE StaysAsItIs(r)
  BY <1>3, <1>4, <1>6, <1>s DEF StaysAsItIs
<1> QED
  BY <1>1, <1>3, <1>5, <1>7, <1>8, <1>10, <1>11, <1>12, ConsumerStepKeepsInv DEF TasksAreRight

\* Where the session was first it stops its own on its way out.
LEMMA StopPanicsKeepsInv ==
    ASSUME IInv, NEW t \in Stream, NEW n \in Cid, StopPanics(t, n)
    PROVE  IInv'
<1>s. PICK s : s = owner[t][n]
  OBVIOUS
<1>1. /\ s \in Session /\ ~MayStart(s)
      /\ \A u \in Stream, m \in Cid : owner[u][m] = s => u = t /\ m = n
      /\ SessionIsConsistent(s)
  BY <1>s, ClosingTask DEF StopPanics
<1>2. StreamTypes /\ SessionTypes /\ None \notin Stream
  BY TypesAreThese, SessionsAssumption DEF IInv
<1>3. /\ Stops(t, n)
      /\ UNCHANGED <<registry, open, lastCid, owner, sessionVars, proxyVars>>
  BY DEF StopPanics
<1>4. /\ task[t][n] = "stop" /\ task'[t][n] = "release"
      /\ \A u \in Stream, m \in Cid : u # t \/ m # n => task'[u][m] = task[u][m]
      /\ task' \in [Stream -> [Cid -> TaskStates]]
  BY <1>2 DEF StreamTypes, StopPanics, TaskStates
<1>5. Shrinks /\ StreamTypes' /\ n \notin attached'[t]
  BY <1>3, <1>4, StopsShrinks
<1>6. SessionTypes' /\ SessionIsConsistent(s)'
  BY <1>1, <1>2, <1>3 DEF SessionTypes, SessionIsConsistent, sessionVars
<1>7. ConsumptionIsHeld(s)'
  <2>1. ASSUME NEW u \in Stream, NEW m \in attached'[u], owner'[u][m] = s
        PROVE  FALSE
    BY <1>1, <1>3, <1>5, <2>1 DEF StreamTypes
  <2>2. \A u \in Stream : attached'[u] \subseteq Cid
    BY <1>5 DEF StreamTypes
  <2>3. MayStart(s)' => MayStart(s)
    BY <1>3 DEF MayStart, sessionVars
  <2> QED
    BY <1>1, <1>3, <2>1, <2>2, <2>3, HeldStaysHeld DEF sessionVars
<1>8. ASSUME NEW u \in Stream, NEW m \in Cid PROVE TaskIsRight(u, m)'
  <2>1. CASE u = t /\ m = n
    BY <1>1, <1>3, <1>4, <1>s, <2>1, SessionsAssumption DEF TaskIsRight
  <2>2. CASE u # t \/ m # n
    BY <1>3, <1>4, <1>5, <2>2, TasksStayRight DEF Shrinks, sessionVars
  <2> QED
    BY <2>1, <2>2
<1>9. ASSUME NEW r \in Session \ {s} PROVE StaysAsItIs(r)
  BY <1>3, <1>4, <1>s DEF StaysAsItIs, sessionVars
<1> QED
  BY <1>1, <1>3, <1>5, <1>6, <1>7, <1>8, <1>9, ConsumerStepKeepsInv
     DEF TasksAreRight, sessionVars

\* source = nil: what it led to has been stopped, or is not known.
LEMMA ClearSourceKeepsInv ==
    ASSUME IInv, NEW t \in Stream, NEW n \in Cid, ClearSource(t, n)
    PROVE  IInv'
<1>s. PICK s : s = owner[t][n]
  OBVIOUS
<1>1. /\ s \in Session /\ consumer[s] \in Consumer
      /\ consumer[s].via = "tcp" /\ consumer[s].closed /\ feeds[s] = None
      /\ ~MayStart(s)
      /\ \A u \in Stream, m \in Cid : owner[u][m] = s => u = t /\ m = n
      /\ SessionIsConsistent(s)
  BY <1>s, ClosingTask DEF ClearSource
<1>2. StreamTypes /\ SessionTypes /\ None \notin Stream
  BY TypesAreThese, SessionsAssumption DEF IInv
<1>3. /\ consumer' = [consumer EXCEPT ![s].source = None]
      /\ UNCHANGED <<registry, open, lastCid, attached, ending, owner, kind, at, closed,
                     mode, transport, status, feeds, deaf, proxyVars>>
  BY <1>s DEF ClearSource
<1>4. /\ consumer' \in [Session -> Consumer]
      /\ consumer'[s].source = None /\ consumer'[s].via = consumer[s].via
      /\ consumer'[s].cid = consumer[s].cid /\ consumer'[s].closed = consumer[s].closed
      /\ \A r \in Session \ {s} : consumer'[r] = consumer[r]
  BY <1>1, <1>2, <1>3, SourceIsCleared
<1>5. /\ task[t][n] = "clear" /\ task'[t][n] = "run"
      /\ \A u \in Stream, m \in Cid : u # t \/ m # n => task'[u][m] = task[u][m]
  BY <1>2 DEF StreamTypes, ClearSource
<1>6. StreamTypes' /\ SessionTypes' /\ Shrinks
  BY <1>2, <1>3, <1>4 DEF StreamTypes, SessionTypes, ClearSource, TaskStates, Shrinks
<1>7. SessionIsConsistent(s)'
  BY <1>1, <1>3, <1>4 DEF SessionIsConsistent, MayStart
<1>8. ConsumptionIsHeld(s)'
  <2>1. n \notin attached[t] \/ deaf[s]
    BY <1>5, <1>s DEF IInv, TasksAreRight, TaskIsRight
  <2>2. ASSUME NEW u \in Stream, NEW m \in attached'[u], owner'[u][m] = s
        PROVE  m \in attached[u] /\ deaf'[s]
    <3>1. u = t /\ m = n /\ m \in attached[u]
      BY <1>1, <1>2, <1>3, <2>2 DEF StreamTypes
    <3> QED
      BY <1>3, <2>1, <3>1
  <2>3. \A u \in Stream : attached'[u] \subseteq Cid
    BY <1>6 DEF StreamTypes
  <2>4. MayStart(s)' => MayStart(s)
    BY <1>3 DEF MayStart
  <2> QED
    BY <1>1, <1>3, <1>4, <2>2, <2>3, <2>4, HeldStaysHeld
<1>9. ASSUME NEW u \in Stream, NEW m \in Cid PROVE TaskIsRight(u, m)'
  <2>1. CASE u = t /\ m = n
    BY <1>1, <1>3, <1>5, <1>s, <2>1, SessionsAssumption DEF TaskIsRight
  <2>2. CASE u # t \/ m # n
    <3>1. \A x \in Session : /\ consumer'[x].via = consumer[x].via
                             /\ consumer[x].closed => consumer'[x].closed
                             /\ deaf[x] => deaf'[x]
      BY <1>3, <1>4
    <3> QED
      BY <1>3, <1>5, <2>2, <3>1, TasksStayRight
  <2> QED
    BY <2>1, <2>2
<1>10. ASSUME NEW r \in Session \ {s} PROVE StaysAsItIs(r)
  BY <1>3, <1>4, <1>5, <1>s DEF StaysAsItIs
<1> QED
  BY <1>1, <1>3, <1>4, <1>6, <1>7, <1>8, <1>9, <1>10, ConsumerStepKeepsInv DEF TasksAreRight

\* PLAY sets the consumer of a session that has none and owns nothing.
LEMMA PlayKeepsInv ==
    ASSUME IInv, NEW s \in Session, Play(s)
    PROVE  IInv'
<1> DEFINE c == [NoConsumer EXCEPT !.via = transport[s].via, !.source = registry]
<1>1. /\ StreamTypes /\ SessionTypes /\ ProxyTypes /\ SessionsAreConsistent
      /\ SessionIsConsistent(s) /\ ConsumptionIsHeld(s)
  BY TypesAreThese DEF IInv, SessionsAreConsistent, ConsumptionsAreHeld
<1>2. /\ registry \in Stream /\ registry # None /\ open[registry] # "none"
      /\ transport[s].via \in Via /\ transport[s].via # "none" /\ mode[s] = "play"
      /\ at[s] = "run" /\ status[s] = "ready" /\ kind[s] = "rtsp"
  BY <1>1 DEF Play, CanPlay, Reads, IInv, Bookkept, StreamTypes, SessionTypes
<1>3. /\ c \in Consumer /\ c.via = transport[s].via /\ c.source = registry
      /\ c.cid = 0 /\ c.closed = FALSE
  <2>1. NoConsumer \in Consumer
    BY SessionsAssumption DEF NoConsumer, Consumer, Via
  <2>2. NoConsumer.cid = 0 /\ NoConsumer.closed = FALSE
    BY DEF NoConsumer
  <2> QED
    BY <1>2, <2>1, <2>2 DEF Consumer
<1>4. /\ consumer'[s] = c
      /\ at'[s] = IF transport[s].via = "multicast" THEN "join" ELSE "start"
      /\ \A r \in Session \ {s} : consumer'[r] = consumer[r] /\ at'[r] = at[r]
      /\ UNCHANGED <<streamVars, kind, closed, mode, transport, status, feeds, deaf, proxyVars>>
  BY <1>1 DEF Play, SessionTypes
<1>5. SessionTypes'
  <2>1. consumer' \in [Session -> Consumer]
    BY <1>1, <1>3 DEF Play, SessionTypes
  <2>2. at' \in [Session -> Progress]
    BY <1>1 DEF Play, SessionTypes, Progress
  <2> QED
    BY <1>1, <1>4, <2>1, <2>2 DEF SessionTypes
<1>6. Shrinks
  BY <1>4 DEF Shrinks, streamVars
<1>7. TypeOK'
  BY <1>1, <1>4, <1>5 DEF streamVars, proxyVars, TypeOK, StreamTypes, SessionTypes, ProxyTypes, Consumer,
     TaskStates, Progress
<1> HIDE DEF c
<1>8. Bookkept'
  BY <1>2, <1>3, <1>4 DEF IInv, Bookkept, StreamIsBookkept, streamVars, proxyVars
<1>9. SessionsAreConsistent'
  <2>1. SessionIsConsistent(s)'
    BY <1>1, <1>2, <1>3, <1>4 DEF SessionIsConsistent, Via
  <2>2. ASSUME NEW r \in Session \ {s} PROVE SessionIsConsistent(r)'
    BY <1>1, <1>4 DEF SessionsAreConsistent, SessionIsConsistent
  <2> QED
    BY <2>1, <2>2 DEF SessionsAreConsistent
<1>10. OwnsNothing(s) /\ OwnsNothing(s)'
  BY <1>1, <1>2, <1>4 DEF ConsumptionIsHeld, MayStart, OwnsNothing, streamVars
<1>11. ConsumptionsAreHeld'
  <2>1. ConsumptionIsHeld(s)'
    <3>1. \A t \in Stream : attached'[t] \subseteq Cid
      BY <1>7 DEF TypeOK
    <3> QED
      BY <1>3, <1>4, <1>10, <3>1 DEF ConsumptionIsHeld, OwnsOne, OwnsNothing
  <2>2. ASSUME NEW r \in Session \ {s} PROVE ConsumptionIsHeld(r)'
    <3>1. StaysAsItIs(r)
      BY <1>4 DEF StaysAsItIs, streamVars
    <3> QED
      BY <1>6, <3>1, HeldWhileShrinking DEF Shrinks
  <2> QED
    BY <2>1, <2>2 DEF ConsumptionsAreHeld
<1>12. ProxyKnowsItsOwn'
  BY <1>4, <1>6, ProxiesWhileShrinking DEF proxyVars
<1>13. TasksAreRight'
  <2>1. ASSUME NEW t \in Stream, NEW n \in Cid PROVE TaskIsRight(t, n)'
    <3>o. PICK o : o = owner[t][n]
      OBVIOUS
    <3>1. o # s /\ TaskIsRight(t, n)
      BY <1>10, <3>o DEF OwnsNothing, IInv, TasksAreRight
    <3>2. o \in Session => consumer'[o] = consumer[o]
      BY <1>4, <3>1
    <3> QED
      BY <1>4, <3>o, <3>1, <3>2 DEF TaskIsRight, streamVars
  <2> QED
    BY <2>1 DEF TasksAreRight
<1> QED
  BY <1>7, <1>8, <1>9, <1>11, <1>12, <1>13 DEF IInv

\* The numbers allow for a consumption on a stream that has been created.
LEMMA StartKeepsBooks ==
    ASSUME IInv, NEW t \in Stream, NEW o \in Session \cup Stream, StartConsume(t, o),
           open[t] # "none",
           \A u \in Stream : open[u] = "none" => pcid'[u] = pcid[u],
           \A s \in Session : consumer'[s].source # None => open[consumer'[s].source] # "none",
           \A s \in Session : /\ consumer'[s].via = consumer[s].via
                              /\ consumer[s].closed => consumer'[s].closed
                              /\ deaf[s] => deaf'[s]
    PROVE  Bookkept' /\ TasksAreRight'
<1> DEFINE n == lastCid[t] + 1
<1>1. /\ StreamTypes /\ Bookkept /\ n \in Cid /\ owner'[t][n] = o
      /\ \A u \in Stream, m \in Cid : u # t \/ m # n => owner'[u][m] = owner[u][m]
      /\ attached'[t] = attached[t] \cup {n}
      /\ \A u \in Stream \ {t} : attached'[u] = attached[u]
      /\ UNCHANGED <<registry, open, ending>>
  BY StartConsumeTakes, TypesAreThese DEF IInv, StartConsume
<1>2. /\ lastCid'[t] = n /\ lastCid[t] \in Nat
      /\ \A u \in Stream \ {t} : lastCid'[u] = lastCid[u]
  BY <1>1, SessionsAssumption DEF StartConsume, StreamTypes
<1>3. ASSUME NEW u \in Stream PROVE StreamIsBookkept(u)'
  <2>1. StreamIsBookkept(u)
    BY <1>1 DEF Bookkept
  <2>2. CASE u # t
    BY <1>1, <1>2, <2>1, <2>2 DEF StreamIsBookkept
  <2>3. CASE u = t
    <3>1. attached'[t] \subseteq 1..n /\ ending'[t] \subseteq 1..n
      BY <1>1, <1>2, <2>1, <2>3 DEF StreamIsBookkept
    <3>2. ASSUME NEW m \in Cid, m > n PROVE owner'[t][m] = None
      <4>1. m # n /\ m > lastCid[t]
        BY <1>2, <3>2 DEF Cid
      <4> QED
        BY <1>1, <2>1, <2>3, <4>1 DEF StreamIsBookkept
    <3> QED
      BY <1>1, <1>2, <2>3, <3>1, <3>2 DEF StreamIsBookkept
  <2> QED
    BY <2>2, <2>3
<1>4. registry' # None => open'[registry'] # "none"
  BY <1>1 DEF Bookkept
<1>5. ASSUME NEW u \in Stream, NEW m \in Cid PROVE TaskIsRight(u, m)'
  <2>1. CASE u = t /\ m = n
    <3>1. task'[u][m] = "run" /\ o # None
      BY <1>1, <2>1, SessionsAssumption DEF StartConsume, StreamTypes
    <3> QED
      BY <1>1, <2>1, <3>1 DEF TaskIsRight
  <2>2. CASE u # t \/ m # n
    <3>o. PICK k : k = owner[u][m]
      OBVIOUS
    <3>1. TaskIsRight(u, m) /\ owner'[u][m] = k /\ task'[u][m] = task[u][m]
      BY <1>1, <2>2, <3>o DEF IInv, TasksAreRight, StartConsume, StreamTypes
    <3>2. m \in attached'[u] => m \in attached[u]
      BY <1>1, <2>2
    <3>3. /\ task[u][m] # "none" => k # None
          /\ task[u][m] \in {"store", "stop", "clear"} => k \in Session /\ consumer[k].via = "tcp"
          /\ task[u][m] \in {"stop", "clear"} => consumer[k].closed
          /\ task[u][m] = "clear" => m \notin attached[u] \/ deaf[k]
      BY <3>o, <3>1 DEF TaskIsRight
    <3>4. /\ task'[u][m] # "none" => k # None
          /\ task'[u][m] \in {"store", "stop", "clear"} => k \in Session /\ consumer'[k].via = "tcp"
          /\ task'[u][m] \in {"stop", "clear"} => consumer'[k].closed
          /\ task'[u][m] = "clear" => m \notin attached'[u] \/ deaf'[k]
      BY <3>1, <3>2, <3>3
    <3> QED
      BY <3>1, <3>4 DEF TaskIsRight
  <2> QED
    BY <2>1, <2>2
<1> QED
  BY <1>1, <1>3, <1>4, <1>5 DEF Bookkept, TasksAreRight

\* The consumer that was set starts, and holds the one consumption.
LEMMA StartsKeepsInv ==
    ASSUME IInv, NEW s \in Session, Starts(s)
    PROVE  IInv'
<1>t. PICK t : t = consumer[s].source
  OBVIOUS
<1>n. PICK n : n = lastCid[t] + 1
  OBVIOUS
<1>1. /\ SessionTypes /\ ProxyTypes /\ SessionsAreConsistent /\ consumer[s] \in Consumer
      /\ SessionIsConsistent(s) /\ ConsumptionIsHeld(s)
  BY TypesAreThese DEF IInv, SessionsAreConsistent, ConsumptionsAreHeld, SessionTypes
<1>2. /\ at[s] = "start" /\ t \in Stream /\ open[t] # "none"
      /\ StartConsume(t, s)
      /\ UNCHANGED <<kind, closed, mode, transport, status, consumer, feeds, deaf, proxyVars>>
  BY <1>1, <1>t DEF Starts, SessionIsConsistent, Consumer, IInv, Bookkept
<1>3. /\ at'[s] = "started"
      /\ \A r \in Session \ {s} : at'[r] = at[r]
  BY <1>1 DEF Starts, SessionTypes
<1>4. /\ StreamTypes' /\ n \in Cid /\ owner'[t][n] = s
      /\ \A u \in Stream, m \in Cid : u # t \/ m # n => owner'[u][m] = owner[u][m]
      /\ attached'[t] = attached[t] \cup {n}
      /\ \A u \in Stream \ {t} : attached'[u] = attached[u]
  BY <1>2, <1>n, StartConsumeTakes
<1>5. SessionTypes' /\ ProxyTypes'
  <2>1. at' \in [Session -> Progress]
    BY <1>1 DEF Starts, SessionTypes, Progress
  <2> QED
    BY <1>1, <1>2, <2>1 DEF SessionTypes, ProxyTypes, proxyVars
<1>6. TypeOK'
  BY <1>4, <1>5 DEF TypeOK, StreamTypes, SessionTypes, ProxyTypes, Consumer,
     TaskStates, Progress
<1>7. Bookkept' /\ TasksAreRight'
  <2>1. \A x \in Session : /\ consumer'[x].via = consumer[x].via
                           /\ consumer[x].closed => consumer'[x].closed
                           /\ deaf[x] => deaf'[x]
    BY <1>2
  <2> QED
    BY <1>2, <2>1, StartKeepsBooks DEF proxyVars, IInv, Bookkept
<1>8. SessionsAreConsistent'
  BY <1>1, <1>2, <1>3 DEF SessionsAreConsistent, SessionIsConsistent
<1>9. ConsumptionsAreHeld'
  <2>1. ConsumptionIsHeld(s)'
    <3>1. \A u \in Stream, m \in Cid : owner'[u][m] = s => u = t /\ m = n
      BY <1>1, <1>2, <1>4 DEF ConsumptionIsHeld, MayStart, OwnsNothing
    <3>2. Holds(s, t, n)'
      BY <1>1, <1>2, <1>3, <1>t DEF SessionIsConsistent, Holds
    <3>3. ~MayStart(s)' /\ consumer'[s].cid = 0
      BY <1>1, <1>2, <1>3 DEF SessionIsConsistent, MayStart
    <3>4. OwnsOne(s)'
      BY <1>2, <1>t, <3>1, <3>3 DEF OwnsOne
    <3>5. \A u \in Stream : attached'[u] \subseteq Cid
      BY <1>4 DEF StreamTypes
    <3> QED
      BY <1>4, <3>1, <3>2, <3>3, <3>4, <3>5 DEF ConsumptionIsHeld
  <2>2. ASSUME NEW r \in Session \ {s} PROVE ConsumptionIsHeld(r)'
    <3>1. MayStart(r)' => MayStart(r)
      BY <1>2, <1>3 DEF MayStart
    <3> QED
      BY <1>2, <1>3, <3>1, HeldBesideStart
  <2> QED
    BY <2>1, <2>2 DEF ConsumptionsAreHeld
<1>10. ProxyKnowsItsOwn'
  BY <1>2, ProxiesBesideStart DEF proxyVars
<1> QED
  BY <1>6, <1>7, <1>8, <1>9, <1>10 DEF IInv

\* The result of StartConsume is the number of what the session owns.
LEMMA StartedKeepsInv ==
    ASSUME IInv, NEW s \in Session, Started(s)
    PROVE  IInv'
<1>1. /\ StreamTypes /\ SessionTypes /\ ProxyTypes /\ SessionsAreConsistent
      /\ consumer[s] \in Consumer /\ SessionIsConsistent(s) /\ ConsumptionIsHeld(s)
  BY TypesAreThese DEF IInv, SessionsAreConsistent, ConsumptionsAreHeld, SessionTypes
<1>2. PICK t \in Stream, n \in Cid : owner[t][n] = s /\ consumer' = [consumer EXCEPT ![s].cid = n]
  BY DEF Started
<1>3. /\ at[s] = "started" /\ consumer[s].source \in {t, None}
      /\ \A u \in Stream, m \in Cid : owner[u][m] = s => u = t /\ m = n
  BY <1>1, <1>2 DEF Started, ConsumptionIsHeld, OwnsOne
<1>4. /\ at'[s] = "run" /\ status'[s] = "playing"
      /\ \A r \in Session \ {s} : /\ at'[r] = at[r] /\ status'[r] = status[r]
                                  /\ consumer'[r] = consumer[r]
      /\ UNCHANGED <<streamVars, kind, closed, mode, transport, feeds, deaf, proxyVars>>
  BY <1>1, <1>2 DEF Started, SessionTypes
<1>5. n \in 0..MaxCid /\ n # 0
  BY SessionsAssumption DEF Cid
<1>6. /\ consumer'[s].cid = n /\ consumer'[s].via = consumer[s].via
      /\ consumer'[s].source = consumer[s].source /\ consumer'[s].closed = consumer[s].closed
  BY <1>1, <1>2 DEF Consumer, SessionTypes
<1>7. SessionTypes'
  <2>1. consumer' \in [Session -> Consumer]
    BY <1>1, <1>2, <1>5 DEF SessionTypes, Consumer
  <2>2. /\ at' \in [Session -> Progress]
        /\ status' \in [Session -> Status]
    BY <1>1 DEF Started, SessionTypes, Status, Progress
  <2> QED
    BY <1>1, <1>4, <2>1, <2>2 DEF SessionTypes
<1>8. TypeOK'
  BY <1>1, <1>4, <1>7 DEF streamVars, proxyVars, TypeOK, StreamTypes, SessionTypes, ProxyTypes, Consumer,
     TaskStates, Progress
<1>9. Shrinks
  BY <1>4 DEF Shrinks, streamVars
<1>10. Bookkept'
  BY <1>4, <1>6, <1>9, ShrinksKeepsBooks DEF proxyVars
<1>11. SessionsAreConsistent'
  <2>1. SessionIsConsistent(s)'
    BY <1>1, <1>3, <1>4, <1>5, <1>6 DEF SessionIsConsistent, NoConsumer
  <2>2. ASSUME NEW r \in Session \ {s} PROVE SessionIsConsistent(r)'
    BY <1>1, <1>4 DEF SessionsAreConsistent, SessionIsConsistent
  <2> QED
    BY <2>1, <2>2 DEF SessionsAreConsistent
<1>12. ConsumptionsAreHeld'
  <2>1. ConsumptionIsHeld(s)'
    <3>1. ~MayStart(s)'
      BY <1>4 DEF MayStart
    <3>2. ASSUME NEW u \in Stream, NEW m \in attached'[u], owner'[u][m] = s
          PROVE  Holds(s, u, m)' \/ deaf'[s]
      <4>1. m \in attached[u] /\ m \in Cid /\ owner[u][m] = s
        BY <1>1, <1>4, <3>2 DEF StreamTypes, streamVars
      <4>2. u = t /\ m = n
        BY <1>3, <4>1
      <4>3. Holds(s, u, m) \/ deaf[s]
        BY <1>1, <4>1 DEF ConsumptionIsHeld
      <4>4. Holds(s, u, m) => Holds(s, u, m)'
        BY <1>3, <1>4, <1>6, <4>2 DEF Holds, streamVars
      <4> QED
        BY <1>4, <4>3, <4>4
    <3>3. OwnsOne(s)'
      BY <1>2, <1>3, <1>4, <1>6 DEF OwnsOne, streamVars
    <3> QED
      BY <3>1, <3>2, <3>3 DEF ConsumptionIsHeld
  <2>2. ASSUME NEW r \in Session \ {s} PROVE ConsumptionIsHeld(r)'
    <3>1. StaysAsItIs(r)
      BY <1>4 DEF StaysAsItIs, streamVars
    <3> QED
      BY <1>9, <3>1, HeldWhileShrinking DEF Shrinks
  <2> QED
    BY <2>1, <2>2 DEF ConsumptionsAreHeld
<1>13. ProxyKnowsItsOwn'
  BY <1>4, <1>9, ProxiesWhileShrinking DEF proxyVars
<1>14. ASSUME NEW u \in Stream, NEW m \in Cid PROVE TaskIsRight(u, m)'
  <2>1. \A x \in Session : /\ consumer'[x].via = consumer[x].via
                           /\ consumer[x].closed => consumer'[x].closed
                           /\ deaf[x] => deaf'[x]
    BY <1>4, <1>6
  <2> QED
    BY <1>4, <2>1, TasksStayRight DEF streamVars
<1> QED
  BY <1>8, <1>10, <1>11, <1>12, <1>13, <1>14 DEF IInv, TasksAreRight

\* PLAY of a WSP session starts and notes the number at once.
LEMMA WspPlayKeepsInv ==
    ASSUME IInv, NEW s \in Session, WspPlay(s)
    PROVE  IInv'
<1>t. PICK t : t = registry
  OBVIOUS
<1>n. PICK n : n = lastCid[t] + 1
  OBVIOUS
<1> DEFINE c == [NoConsumer EXCEPT !.source = t, !.cid = n]
<1>1. /\ StreamTypes /\ SessionTypes /\ ProxyTypes /\ SessionsAreConsistent
      /\ SessionIsConsistent(s) /\ ConsumptionIsHeld(s)
  BY TypesAreThese DEF IInv, SessionsAreConsistent, ConsumptionsAreHeld
<1>2. /\ t \in Stream /\ t # None /\ open[t] # "none"
      /\ at[s] = "run" /\ status[s] = "ready" /\ kind[s] = "wsp"
      /\ StartConsume(t, s)
      /\ UNCHANGED <<kind, at, closed, mode, transport, feeds, deaf, proxyVars>>
  BY <1>1, <1>t DEF WspPlay, CanPlay, Reads, IInv, Bookkept, StreamTypes
<1>3. /\ StreamTypes' /\ n \in Cid /\ owner'[t][n] = s
      /\ \A u \in Stream, m \in Cid : u # t \/ m # n => owner'[u][m] = owner[u][m]
      /\ attached'[t] = attached[t] \cup {n}
      /\ \A u \in Stream \ {t} : attached'[u] = attached[u]
  BY <1>2, <1>n, StartConsumeTakes
<1>4. /\ c \in Consumer /\ c.via = "none" /\ c.source = t /\ c.cid = n /\ c.closed = FALSE
      /\ n # 0
  <2>1. NoConsumer \in Consumer
    BY SessionsAssumption DEF NoConsumer, Consumer, Via
  <2>2. NoConsumer.via = "none" /\ NoConsumer.closed = FALSE
    BY DEF NoConsumer
  <2>3. n \in 0..MaxCid /\ n # 0
    BY <1>3, SessionsAssumption DEF Cid
  <2> QED
    BY <1>2, <2>1, <2>2, <2>3 DEF Consumer
<1>5. /\ consumer'[s] = c /\ status'[s] = "playing"
      /\ \A r \in Session \ {s} : consumer'[r] = consumer[r] /\ status'[r] = status[r]
  BY <1>1, <1>n, <1>t DEF WspPlay, SessionTypes
<1>6. SessionTypes' /\ ProxyTypes'
  <2>1. consumer' \in [Session -> Consumer] /\ status' \in [Session -> Status]
    BY <1>1, <1>4, <1>n, <1>t DEF WspPlay, SessionTypes, Status
  <2> QED
    BY <1>1, <1>2, <2>1 DEF SessionTypes, ProxyTypes, proxyVars
<1> HIDE DEF c
<1>7. TypeOK'
  BY <1>3, <1>6 DEF TypeOK, StreamTypes, SessionTypes, ProxyTypes, Consumer,
     TaskStates, Progress
<1>8. Bookkept' /\ TasksAreRight'
  <2>1. ASSUME NEW r \in Session, consumer'[r].source # None
        PROVE  open[consumer'[r].source] # "none"
    BY <1>2, <1>4, <1>5, <2>1 DEF IInv, Bookkept
  <2>2. \A x \in Session : /\ consumer'[x].via = consumer[x].via
                           /\ consumer[x].closed => consumer'[x].closed
                           /\ deaf[x] => deaf'[x]
    BY <1>1, <1>2, <1>4, <1>5 DEF SessionIsConsistent, NoConsumer
  <2> QED
    BY <1>2, <2>1, <2>2, StartKeepsBooks DEF proxyVars
<1>9. SessionsAreConsistent'
  <2>1. mode[s] = "play" /\ feeds[s] = None /\ ~deaf[s]
    BY <1>1, <1>2 DEF SessionIsConsistent, SessionTypes, Modes
  <2>2. SessionIsConsistent(s)'
    BY <1>2, <1>4, <1>5, <2>1 DEF SessionIsConsistent
  <2>3. ASSUME NEW r \in Session \ {s} PROVE SessionIsConsistent(r)'
    BY <1>1, <1>2, <1>5 DEF SessionsAreConsistent, SessionIsConsistent
  <2> QED
    BY <2>2, <2>3 DEF SessionsAreConsistent
<1>10. ConsumptionsAreHeld'
  <2>1. ConsumptionIsHeld(s)'
    <3>1. \A u \in Stream, m \in Cid : owner'[u][m] = s => u = t /\ m = n
      BY <1>1, <1>2, <1>3 DEF ConsumptionIsHeld, MayStart, OwnsNothing
    <3>2. Holds(s, t, n)' /\ ~MayStart(s)'
      BY <1>2, <1>4, <1>5 DEF Holds, MayStart
    <3>3. \A u \in Stream : attached'[u] \subseteq Cid
      BY <1>3 DEF StreamTypes
    <3>4. OwnsOne(s)'
      BY <1>2, <1>3, <1>4, <1>5, <3>1 DEF OwnsOne
    <3> QED
      BY <1>3, <3>1, <3>2, <3>3, <3>4 DEF ConsumptionIsHeld
  <2>2. ASSUME NEW r \in Session \ {s} PROVE ConsumptionIsHeld(r)'
    <3>1. MayStart(r)' => MayStart(r)
      BY <1>2, <1>5 DEF MayStart
    <3> QED
      BY <1>2, <1>5, <3>1, HeldBesideStart
  <2> QED
    BY <2>1, <2>2 DEF ConsumptionsAreHeld
<1>11. ProxyKnowsItsOwn'
  BY <1>2, ProxiesBesideStart DEF proxyVars
<1> QED
  BY <1>7, <1>8, <1>9, <1>10, <1>11 DEF IInv

\* A proxy that starts for its first member consumes the registered stream.
LEMMA ProxyStarts ==
    ASSUME IInv, NEW t \in Stream, NEW s \in Session, registry # None, members[t] = {},
           open[t] # "none",
           StartConsume(registry, t),
           members' = [members EXCEPT ![t] = {s}],
           pcid' = [pcid EXCEPT ![t] = lastCid[registry] + 1],
           pclosed' = [pclosed EXCEPT ![t] = FALSE]
    PROVE  ProxyTypes' /\ ProxyKnowsItsOwn'
<1>g. PICK g : g = registry
  OBVIOUS
<1>n. PICK n : n = lastCid[g] + 1
  OBVIOUS
<1>1. StreamTypes /\ ProxyTypes /\ g \in Stream /\ MaxCid \in Nat
  BY <1>g, TypesAreThese, SessionsAssumption DEF IInv, StreamTypes
<1>2. /\ n \in Cid /\ owner[g][n] = None /\ owner'[g][n] = t
      /\ \A u \in Stream, m \in Cid : u # g \/ m # n => owner'[u][m] = owner[u][m]
      /\ attached'[g] = attached[g] \cup {n} /\ registry' = g
  <2>1. StartConsume(g, t) /\ t \in Session \cup Stream
    BY <1>g
  <2>2. registry' = g
    BY <1>g, <2>1 DEF StartConsume
  <2> QED
    BY <1>1, <1>n, <2>1, <2>2, StartConsumeTakes
<1>3. /\ members'[t] = {s} /\ pcid'[t] = n /\ ~pclosed'[t]
      /\ \A u \in Stream \ {t} : /\ members'[u] = members[u] /\ pcid'[u] = pcid[u]
                                 /\ pclosed'[u] = pclosed[u]
  BY <1>1, <1>g, <1>n DEF ProxyTypes
<1>4. ProxyTypes'
  BY <1>1, <1>2, <1>g, <1>n DEF ProxyTypes, Cid
<1>5. ~pclosed'[g] /\ pcid'[g] # 0 => owner'[g][pcid'[g]] = g
  <2>1. CASE g = t
    BY <1>2, <1>3, <2>1
  <2>2. ASSUME g # t, ~pclosed[g], pcid[g] # 0 PROVE owner'[g][pcid[g]] = g
    <3>1. owner[g][pcid[g]] = g /\ pcid[g] \in Cid
      BY <1>1, <1>g, <2>2 DEF IInv, ProxyKnowsItsOwn, ProxyTypes, Cid
    <3> QED
      BY <1>1, <1>2, <1>g, <3>1
  <2> QED
    BY <1>1, <1>3, <2>1, <2>2
<1>6. ASSUME NEW m \in attached'[g], owner'[g][m] \in Stream
      PROVE  LET u == owner'[g][m] IN members'[u] # {} /\ ~pclosed'[u] /\ pcid'[u] = m
  <2>1. CASE m = n
    BY <1>2, <1>3, <2>1
  <2>2. CASE m # n
    <3>1. m \in attached[g] /\ m \in Cid /\ owner'[g][m] = owner[g][m]
      BY <1>1, <1>2, <1>6, <2>2 DEF StreamTypes
    <3>2. LET u == owner[g][m] IN members[u] # {} /\ ~pclosed[u] /\ pcid[u] = m
      BY <1>6, <1>g, <3>1 DEF IInv, ProxyKnowsItsOwn
    <3> QED
      BY <1>3, <1>6, <3>1, <3>2
  <2> QED
    BY <2>1, <2>2
<1> QED
  BY <1>2, <1>4, <1>5, <1>6 DEF ProxyKnowsItsOwn

\* A player that joins a proxy owns nothing itself.
LEMMA JoinKeepsInv ==
    ASSUME IInv, NEW s \in Session, Join(s)
    PROVE  IInv'
<1>t. PICK t : t = consumer[s].source
  OBVIOUS
<1>1. /\ StreamTypes /\ SessionTypes /\ ProxyTypes /\ SessionsAreConsistent
      /\ SessionIsConsistent(s) /\ ConsumptionIsHeld(s) /\ consumer[s] \in Consumer
  BY TypesAreThese DEF IInv, SessionsAreConsistent, ConsumptionsAreHeld, SessionTypes
<1>2. /\ at[s] = "join" /\ t \in Stream /\ open[t] # "none" /\ AddMember(t, s)
      /\ UNCHANGED <<kind, closed, mode, transport, consumer, feeds, deaf>>
  BY <1>1, <1>t DEF Join, SessionIsConsistent, Consumer, IInv, Bookkept
<1>3. /\ at'[s] = "run" /\ status'[s] = "playing"
      /\ \A r \in Session \ {s} : at'[r] = at[r] /\ status'[r] = status[r]
  BY <1>1 DEF Join, SessionTypes
<1>4. SessionTypes'
  BY <1>1 DEF Join, SessionTypes, Status, Progress
<1>5. SessionsAreConsistent'
  <2>1. SessionIsConsistent(s)'
    BY <1>1, <1>2, <1>3 DEF SessionIsConsistent, NoConsumer
  <2>2. ASSUME NEW r \in Session \ {s} PROVE SessionIsConsistent(r)'
    BY <1>1, <1>2, <1>3 DEF SessionsAreConsistent, SessionIsConsistent
  <2> QED
    BY <2>1, <2>2 DEF SessionsAreConsistent
<1>6. ASSUME NEW r \in Session PROVE MayStart(r)' => MayStart(r)
  BY <1>2, <1>3 DEF MayStart
<1>7. CASE UNCHANGED <<streamVars, proxyVars>>
  <2>1. ASSUME NEW r \in Session PROVE GoesOn(r)
    BY <1>2, <1>3, <1>6, <1>7 DEF GoesOn, Holds, streamVars
  <2> QED
    BY <1>2, <1>4, <1>5, <1>7, <2>1, QuietKeepsInv
<1>8. CASE /\ members[t] = {} /\ registry # None
           /\ StartConsume(registry, t)
           /\ members' = [members EXCEPT ![t] = {s}]
           /\ pcid' = [pcid EXCEPT ![t] = lastCid[registry] + 1]
           /\ pclosed' = [pclosed EXCEPT ![t] = FALSE]
  <2>1. registry \in Stream /\ open[registry] # "none"
    BY <1>1, <1>8 DEF StreamTypes, IInv, Bookkept
  <2>2. ProxyTypes' /\ ProxyKnowsItsOwn'
    BY <1>2, <1>8, ProxyStarts
  <2>3. StreamTypes'
    BY <1>2, <1>8, <2>1, StartConsumeTakes
  <2>4. Bookkept' /\ TasksAreRight'
    <3>1. \A u \in Stream : open[u] = "none" => pcid'[u] = pcid[u]
      BY <1>1, <1>2, <1>8 DEF ProxyTypes
    <3>2. \A r \in Session : consumer'[r].source # None => open[consumer'[r].source] # "none"
      BY <1>2 DEF IInv, Bookkept
    <3>3. \A x \in Session : /\ consumer'[x].via = consumer[x].via
                             /\ consumer[x].closed => consumer'[x].closed
                             /\ deaf[x] => deaf'[x]
      BY <1>2
    <3> QED
      BY <1>2, <1>8, <2>1, <3>1, <3>2, <3>3, StartKeepsBooks
  <2>5. ASSUME NEW r \in Session PROVE ConsumptionIsHeld(r)'
    <3>1. t # r
      BY <1>2, SessionsAssumption
    <3>2. at'[r] = at[r] \/ at[r] = "join"
      BY <1>2, <1>3
    <3> QED
      BY <1>2, <1>6, <1>8, <2>1, <3>1, <3>2, HeldBesideStart
  <2>6. TypeOK'
    BY <1>4, <2>2, <2>3 DEF TypeOK, StreamTypes, SessionTypes, ProxyTypes, Consumer,
       TaskStates, Progress
  <2> QED
    BY <1>5, <2>2, <2>4, <2>5, <2>6 DEF IInv, ConsumptionsAreHeld
<1> QED
  BY <1>2, <1>7, <1>8 DEF AddMember

\* Closing a player's consumer: the session stores closed.
LEMMA StoresClosedKeepsInv ==
    ASSUME IInv, NEW s \in Session, StoresClosed(s)
    PROVE  IInv'
<1>1. /\ StreamTypes /\ SessionTypes /\ None \notin Stream
      /\ SessionIsConsistent(s) /\ ConsumptionIsHeld(s) /\ consumer[s] \in Consumer
  BY TypesAreThese, SessionsAssumption
     DEF IInv, SessionsAreConsistent, ConsumptionsAreHeld, SessionTypes
<1>2. /\ consumer' = [consumer EXCEPT ![s].closed = TRUE]
      /\ UNCHANGED <<streamVars, kind, closed, mode, transport, status, feeds, deaf, proxyVars>>
      /\ at[s] = "store" /\ at'[s] = "stop"
      /\ \A r \in Session \ {s} : at'[r] = at[r]
  BY <1>1 DEF StoresClosed, SessionTypes
<1>3. /\ consumer' \in [Session -> Consumer]
      /\ consumer'[s].closed /\ consumer'[s].via = consumer[s].via
      /\ consumer'[s].cid = consumer[s].cid /\ consumer'[s].source = consumer[s].source
      /\ \A r \in Session \ {s} : consumer'[r] = consumer[r]
  BY <1>1, <1>2, ClosedIsSet
<1>4. SessionTypes' /\ StreamTypes' /\ Shrinks
  BY <1>1, <1>2, <1>3 DEF SessionTypes, StreamTypes, StoresClosed, Progress, streamVars, Shrinks
<1>5. SessionIsConsistent(s)'
  BY <1>1, <1>2, <1>3 DEF SessionIsConsistent, NoConsumer
<1>6. ConsumptionIsHeld(s)'
  <2>1. ASSUME NEW u \in Stream, NEW m \in attached'[u], owner'[u][m] = s
        PROVE  m \in attached[u] /\ (Holds(s, u, m) => Holds(s, u, m)' \/ deaf'[s])
    BY <1>2, <1>3, <2>1 DEF Holds, streamVars
  <2>2. \A u \in Stream : attached'[u] \subseteq Cid
    BY <1>4 DEF StreamTypes
  <2>3. MayStart(s)' => MayStart(s)
    BY <1>2 DEF MayStart
  <2> QED
    BY <1>2, <1>3, <2>1, <2>2, <2>3, HeldStaysHeld DEF streamVars
<1>7. ASSUME NEW u \in Stream, NEW m \in Cid PROVE TaskIsRight(u, m)'
  <2>1. \A x \in Session : /\ consumer'[x].via = consumer[x].via
                           /\ consumer[x].closed => consumer'[x].closed
                           /\ deaf[x] => deaf'[x]
    BY <1>2, <1>3
  <2> QED
    BY <1>2, <2>1, TasksStayRight DEF streamVars
<1>8. ASSUME NEW r \in Session \ {s} PROVE StaysAsItIs(r)
  BY <1>2, <1>3 DEF StaysAsItIs, streamVars
<1> QED
  BY <1>2, <1>3, <1>4, <1>5, <1>6, <1>7, <1>8, ConsumerStepKeepsInv DEF TasksAreRight

\* It stops what it knows, and that is all it had to stop.
LEMMA StopsConsumerKeepsInv ==
    ASSUME IInv, NEW s \in Session, StopsConsumer(s)
    PROVE  IInv'
<1>1. /\ StreamTypes /\ SessionTypes /\ None \notin Stream
      /\ SessionIsConsistent(s) /\ consumer[s] \in Consumer
  BY TypesAreThese, SessionsAssumption DEF IInv, SessionsAreConsistent, SessionTypes
<1>2. /\ consumer[s].source \in Stream /\ Stops(consumer[s].source, consumer[s].cid)
      /\ UNCHANGED <<registry, open, lastCid, owner, task, kind, closed, mode, transport,
                     status, consumer, feeds, deaf, proxyVars>>
      /\ at[s] = "stop" /\ at'[s] = "clear"
      /\ \A r \in Session \ {s} : at'[r] = at[r]
  BY <1>1 DEF StopsConsumer, SessionTypes, Consumer
<1>3. Shrinks /\ StreamTypes' /\ consumer[s].cid \notin attached'[consumer[s].source]
  BY <1>1, <1>2, StopsShrinks DEF StreamTypes
<1>4. SessionTypes'
  BY <1>1, <1>2 DEF SessionTypes, StopsConsumer, Progress
<1>5. SessionIsConsistent(s)'
  BY <1>1, <1>2 DEF SessionIsConsistent
<1>6. ConsumptionIsHeld(s)'
  <2>1. ASSUME NEW u \in Stream, NEW m \in attached'[u], owner'[u][m] = s
        PROVE  m \in attached[u] /\ ~Holds(s, u, m)
    BY <1>2, <1>3, <2>1 DEF Holds, Shrinks
  <2>2. \A u \in Stream : attached'[u] \subseteq Cid
    BY <1>3 DEF StreamTypes
  <2>3. MayStart(s)' => MayStart(s)
    BY <1>2 DEF MayStart
  <2> QED
    BY <1>2, <2>1, <2>2, <2>3, HeldStaysHeld
<1>7. ASSUME NEW u \in Stream, NEW m \in Cid PROVE TaskIsRight(u, m)'
  BY <1>2, <1>3, TasksStayRight DEF Shrinks
<1>8. ASSUME NEW r \in Session \ {s} PROVE StaysAsItIs(r)
  BY <1>2 DEF StaysAsItIs
<1> QED
  BY <1>2, <1>3, <1>4, <1>5, <1>6, <1>7, <1>8, ConsumerStepKeepsInv DEF TasksAreRight

\* Its source goes when nothing is left of it to stop.
LEMMA ClearsSourceKeepsInv ==
    ASSUME IInv, NEW s \in Session, ClearsSource(s)
    PROVE  IInv'
<1>1. /\ StreamTypes /\ SessionTypes /\ None \notin Stream
      /\ SessionIsConsistent(s) /\ ConsumptionIsHeld(s) /\ consumer[s] \in Consumer
  BY TypesAreThese, SessionsAssumption
     DEF IInv, SessionsAreConsistent, ConsumptionsAreHeld, SessionTypes
<1>2. /\ consumer' = [consumer EXCEPT ![s].source = None]
      /\ UNCHANGED <<streamVars, kind, closed, mode, transport, status, feeds, deaf, proxyVars>>
      /\ at[s] = "clear" /\ at'[s] = "stream"
      /\ \A r \in Session \ {s} : at'[r] = at[r]
  BY <1>1 DEF ClearsSource, SessionTypes
<1>3. /\ consumer' \in [Session -> Consumer]
      /\ consumer'[s].source = None /\ consumer'[s].via = consumer[s].via
      /\ consumer'[s].cid = consumer[s].cid /\ consumer'[s].closed = consumer[s].closed
      /\ \A r \in Session \ {s} : consumer'[r] = consumer[r]
  BY <1>1, <1>2, SourceIsCleared
<1>4. SessionTypes' /\ StreamTypes' /\ Shrinks
  BY <1>1, <1>2, <1>3 DEF SessionTypes, StreamTypes, ClearsSource, Progress, streamVars, Shrinks
<1>5. SessionIsConsistent(s)'
  BY <1>1, <1>2, <1>3 DEF SessionIsConsistent, NoConsumer
<1>6. ConsumptionIsHeld(s)'
  <2>1. ASSUME NEW u \in Stream, NEW m \in attached'[u], owner'[u][m] = s
        PROVE  m \in attached[u] /\ ~Holds(s, u, m)
    BY <1>1, <1>2, <2>1 DEF Holds, streamVars, SessionIsConsistent
  <2>2. \A u \in Stream : attached'[u] \subseteq Cid
    BY <1>4 DEF StreamTypes
  <2>3. MayStart(s)' => MayStart(s)
    BY <1>2 DEF MayStart
  <2> QED
    BY <1>2, <1>3, <2>1, <2>2, <2>3, HeldStaysHeld DEF streamVars
<1>7. ASSUME NEW u \in Stream, NEW m \in Cid PROVE TaskIsRight(u, m)'
  <2>1. \A x \in Session : /\ consumer'[x].via = consumer[x].via
                           /\ consumer[x].closed => consumer'[x].closed
                           /\ deaf[x] => deaf'[x]
    BY <1>2, <1>3
  <2> QED
    BY <1>2, <2>1, TasksStayRight DEF streamVars
<1>8. ASSUME NEW r \in Session \ {s} PROVE StaysAsItIs(r)
  BY <1>2, <1>3 DEF StaysAsItIs, streamVars
<1> QED
  BY <1>2, <1>3, <1>4, <1>5, <1>6, <1>7, <1>8, ConsumerStepKeepsInv DEF TasksAreRight

\* What a session that closes its consumer in one go leaves behind is consistent.
LEMMA ConsumerClosed ==
    ASSUME IInv, NEW s \in Session, ToStream(s),
           consumer' = [consumer EXCEPT ![s].closed = TRUE, ![s].source = None],
           consumer[s].source # None,
           closed' \in [Session -> BOOLEAN],
           UNCHANGED <<kind, mode, transport, status, feeds, deaf>>
    PROVE  /\ SessionTypes' /\ SessionIsConsistent(s)'
           /\ at[s] = "consumer" /\ at'[s] = "stream"
           /\ consumer'[s].cid = consumer[s].cid /\ consumer'[s].source = None
           /\ \A x \in Session : /\ consumer'[x].via = consumer[x].via
                                 /\ consumer[x].closed => consumer'[x].closed
                                 /\ deaf[x] => deaf'[x]
           /\ \A r \in Session \ {s} : at'[r] = at[r] /\ consumer'[r] = consumer[r]
<1>1. SessionTypes /\ SessionIsConsistent(s) /\ consumer[s] \in Consumer
  BY TypesAreThese DEF IInv, SessionsAreConsistent, SessionTypes
<1>2. /\ at[s] = "consumer" /\ at'[s] = "stream"
      /\ \A r \in Session \ {s} : at'[r] = at[r] /\ consumer'[r] = consumer[r]
  BY <1>1 DEF ToStream, SessionTypes
<1>3. /\ consumer'[s].via = consumer[s].via /\ consumer'[s].closed
      /\ consumer'[s].cid = consumer[s].cid /\ consumer'[s].source = None
  BY <1>1 DEF SessionTypes, Consumer
<1>4. SessionTypes'
  <2>1. consumer' \in [Session -> Consumer]
    BY <1>1 DEF SessionTypes, Consumer
  <2>2. at' \in [Session -> Progress]
    BY <1>1 DEF ToStream, SessionTypes, Progress
  <2> QED
    BY <1>1, <2>1, <2>2 DEF SessionTypes
<1>5. feeds[s] = None
  BY <1>1 DEF SessionIsConsistent, NoConsumer
<1>6. SessionIsConsistent(s)'
  BY <1>1, <1>2, <1>3, <1>5 DEF SessionIsConsistent
<1> QED
  BY <1>2, <1>3, <1>4, <1>6

\* A WSP session stops what it has noted.
LEMMA StopsWspKeepsInv ==
    ASSUME IInv, NEW s \in Session, StopsWsp(s)
    PROVE  IInv'
<1>1. /\ StreamTypes /\ SessionTypes /\ None \notin Stream /\ consumer[s] \in Consumer
  BY TypesAreThese, SessionsAssumption DEF IInv, SessionTypes
<1>2. /\ consumer[s].source \in Stream /\ Stops(consumer[s].source, consumer[s].cid)
      /\ UNCHANGED <<registry, open, lastCid, owner, task, kind, closed, mode, transport,
                     status, feeds, deaf, proxyVars>>
  BY <1>1 DEF StopsWsp, Consumer
<1>3. Shrinks /\ StreamTypes' /\ consumer[s].cid \notin attached'[consumer[s].source]
  BY <1>1, <1>2, StopsShrinks DEF StreamTypes
<1>4. /\ SessionTypes' /\ SessionIsConsistent(s)'
      /\ at[s] = "consumer" /\ at'[s] = "stream"
      /\ consumer'[s].cid = consumer[s].cid /\ consumer'[s].source = None
      /\ \A x \in Session : /\ consumer'[x].via = consumer[x].via
                            /\ consumer[x].closed => consumer'[x].closed
                            /\ deaf[x] => deaf'[x]
      /\ \A r \in Session \ {s} : at'[r] = at[r] /\ consumer'[r] = consumer[r]
  <2>1. closed' \in [Session -> BOOLEAN]
    BY <1>1, <1>2 DEF SessionTypes
  <2> QED
    BY <1>2, <2>1, ConsumerClosed DEF StopsWsp
<1>5. ConsumptionIsHeld(s)'
  <2>1. ASSUME NEW u \in Stream, NEW m \in attached'[u], owner'[u][m] = s
        PROVE  m \in attached[u] /\ ~Holds(s, u, m)
    BY <1>2, <1>3, <1>4, <2>1 DEF Holds, Shrinks
  <2>2. \A u \in Stream : attached'[u] \subseteq Cid
    BY <1>3 DEF StreamTypes
  <2>3. MayStart(s)' => MayStart(s)
    BY <1>4 DEF MayStart
  <2> QED
    BY <1>2, <1>4, <2>1, <2>2, <2>3, HeldStaysHeld
<1>6. ASSUME NEW u \in Stream, NEW m \in Cid PROVE TaskIsRight(u, m)'
  BY <1>2, <1>3, <1>4, TasksStayRight DEF Shrinks
<1>7. ASSUME NEW r \in Session \ {s} PROVE StaysAsItIs(r)
  BY <1>2, <1>4 DEF StaysAsItIs
<1> QED
  BY <1>2, <1>3, <1>4, <1>5, <1>6, <1>7, ConsumerStepKeepsInv DEF TasksAreRight

\* The last member stops the proxy, another one only leaves it.
LEMMA CloseMemberKeepsInv ==
    ASSUME IInv, NEW s \in Session, CloseMember(s)
    PROVE  IInv'
<1>t. PICK t : t = consumer[s].source
  OBVIOUS
<1>1. /\ StreamTypes /\ SessionTypes /\ ProxyTypes
      /\ SessionIsConsistent(s) /\ consumer[s] \in Consumer
  BY TypesAreThese DEF IInv, SessionsAreConsistent, SessionTypes
<1>2. /\ consumer[s].via = "multicast" /\ consumer[s].source # None /\ t \in Stream
      /\ ReleaseMember(t, s)
      /\ UNCHANGED <<registry, open, lastCid, owner, task, kind, mode, transport, status,
                     feeds, deaf, pcid>>
  BY <1>1, <1>t DEF CloseMember, ToStream, SessionIsConsistent, Consumer
<1>3. /\ Shrinks /\ closed' \in [Session -> BOOLEAN]
      /\ attached' \in [Stream -> SUBSET Cid] /\ ending' \in [Stream -> SUBSET Cid]
      /\ \A u \in Stream : attached'[u] \cap ending'[u] = {}
      /\ members' \in [Stream -> SUBSET Session] /\ pclosed' \in [Stream -> BOOLEAN]
      /\ ProxyKnowsItsOwn'
  <2>1. CASE CloseProxy(t, {})
    BY <1>2, <2>1, CloseProxyShrinks, ProxiesBesideClose
  <2>2. CASE /\ members[t] \ {s} # {}
             /\ members' = [members EXCEPT ![t] = members[t] \ {s}]
             /\ UNCHANGED <<ending, attached, pclosed, closed>>
    <3>1. Shrinks
      BY <1>2, <2>2 DEF Shrinks
    <3>2. /\ members' \in [Stream -> SUBSET Session] /\ members'[t] # {}
          /\ \A u \in Stream \ {t} : members'[u] = members[u]
      BY <1>1, <1>2, <2>2 DEF ProxyTypes
    <3>3. ProxyKnowsItsOwn'
      BY <1>2, <2>2, <3>2 DEF IInv, ProxyKnowsItsOwn
    <3> QED
      BY <1>1, <2>2, <3>1, <3>2, <3>3 DEF StreamTypes, SessionTypes, ProxyTypes
  <2> QED
    BY <1>2, <2>1, <2>2 DEF ReleaseMember
<1>4. /\ SessionTypes' /\ SessionIsConsistent(s)'
      /\ at[s] = "consumer" /\ at'[s] = "stream"
      /\ consumer'[s].cid = consumer[s].cid /\ consumer'[s].source = None
      /\ \A x \in Session : /\ consumer'[x].via = consumer[x].via
                            /\ consumer[x].closed => consumer'[x].closed
                            /\ deaf[x] => deaf'[x]
      /\ \A r \in Session \ {s} : at'[r] = at[r] /\ consumer'[r] = consumer[r]
  BY <1>2, <1>3, ConsumerClosed DEF CloseMember
<1>5. StreamTypes' /\ ProxyTypes'
  BY <1>1, <1>2, <1>3 DEF StreamTypes, ProxyTypes
<1>6. TypeOK'
  BY <1>4, <1>5 DEF TypeOK, StreamTypes, SessionTypes, ProxyTypes, Consumer,
     TaskStates, Progress
<1>7. Bookkept'
  <2>1. \A x \in Session : consumer'[x].source \in {consumer[x].source, None}
    BY <1>4
  <2> QED
    BY <1>2, <1>3, <2>1, ShrinksKeepsBooks
<1>8. ConsumptionIsHeld(s)'
  <2>1. ASSUME NEW u \in Stream, NEW m \in attached'[u], owner'[u][m] = s
        PROVE  m \in attached[u] /\ ~Holds(s, u, m)
    BY <1>2, <1>3, <2>1 DEF Holds, Shrinks
  <2>2. \A u \in Stream : attached'[u] \subseteq Cid
    BY <1>5 DEF StreamTypes
  <2>3. MayStart(s)' => MayStart(s)
    BY <1>4 DEF MayStart
  <2> QED
    BY <1>2, <1>4, <2>1, <2>2, <2>3, HeldStaysHeld
<1>9. ASSUME NEW r \in Session \ {s} PROVE ConsumptionIsHeld(r)' /\ SessionIsConsistent(r)'
  <2>1. StaysAsItIs(r) /\ SessionIsConsistent(r)
    BY <1>2, <1>4 DEF StaysAsItIs, IInv, SessionsAreConsistent
  <2>2. SessionIsConsistent(r)'
    BY <1>2, <2>1 DEF SessionIsConsistent, StaysAsItIs
  <2> QED
    BY <1>3, <2>1, <2>2, HeldWhileShrinking DEF Shrinks
<1>10. SessionsAreConsistent' /\ ConsumptionsAreHeld'
  BY <1>4, <1>8, <1>9 DEF SessionsAreConsistent, ConsumptionsAreHeld
<1>11. ASSUME NEW u \in Stream, NEW m \in Cid PROVE TaskIsRight(u, m)'
  BY <1>2, <1>3, <1>4, TasksStayRight DEF Shrinks
<1> QED
  BY <1>3, <1>6, <1>7, <1>10, <1>11 DEF IInv, TasksAreRight

\* At the end a pusher's stream is closed, with everybody's consumptions of it.
LEMMA CloseFeedKeepsInv ==
    ASSUME IInv, NEW s \in Session, CloseFeed(s)
    PROVE  IInv'
<1>1. SessionTypes /\ SessionsAreConsistent /\ StreamTypes
  BY TypesAreThese DEF IInv
<1>2. /\ at[s] = "stream" /\ at'[s] = "ended"
      /\ feeds'[s] = None /\ status'[s] = "init"
      /\ \A r \in Session \ {s} : /\ at'[r] = at[r]
                                  /\ feeds'[r] = feeds[r] /\ status'[r] = status[r]
      /\ UNCHANGED <<kind, mode, transport, consumer, deaf, proxyVars>>
  BY <1>1 DEF CloseFeed, SessionTypes
<1>3. SessionTypes'
  BY <1>1 DEF CloseFeed, SessionTypes, Status, Progress
<1>4. SessionsAreConsistent'
  <2>1. SessionIsConsistent(s)'
    BY <1>1, <1>2 DEF SessionsAreConsistent, SessionIsConsistent
  <2>2. ASSUME NEW r \in Session \ {s} PROVE SessionIsConsistent(r)'
    BY <1>1, <1>2 DEF SessionsAreConsistent, SessionIsConsistent
  <2> QED
    BY <2>1, <2>2 DEF SessionsAreConsistent
<1>5. /\ StreamTypes' /\ Bookkept' /\ ProxyKnowsItsOwn' /\ UNCHANGED <<owner, task>>
      /\ \A t \in Stream : attached'[t] \subseteq attached[t]
  <2>1. CASE UNCHANGED streamVars
    <3>1. Shrinks /\ StreamTypes'
      BY <1>1, <2>1 DEF Shrinks, streamVars, StreamTypes
    <3> QED
      BY <1>2, <2>1, <3>1, ShrinksKeepsBooks, ProxiesWhileShrinking
         DEF proxyVars, streamVars, Shrinks
  <2>2. CASE feeds[s] # None /\ Unregist(feeds[s])
    <3>1. feeds[s] \in Stream
      BY <1>1, <2>2 DEF SessionTypes
    <3> QED
      BY <1>2, <2>2, <3>1, UnregistShrinks DEF Unregist
  <2> QED
    BY <2>1, <2>2 DEF CloseFeed
<1>6. ASSUME NEW r \in Session PROVE GoesOn(r)
  BY <1>2, <1>5 DEF GoesOn, MayStart, Holds
<1>7. ASSUME NEW u \in Stream, NEW m \in Cid PROVE TaskIsRight(u, m)'
  BY <1>2, <1>5, TasksStayRight
<1> QED
  BY <1>2, <1>3, <1>4, <1>5, <1>6, <1>7, StreamStepKeepsInv DEF proxyVars, TasksAreRight

\* No step breaks the invariant.
LEMMA NextKeepsInv == IInv /\ [Next]_vars => IInv'
<1> SUFFICES ASSUME IInv, [Next]_vars PROVE IInv'
  OBVIOUS
<1>1. ASSUME NEW t \in Stream, SourceStarts(t) \/ SourceEnds(t) PROVE IInv'
  BY <1>1, SourceStartsKeepsInv, SourceEndsKeepsInv
<1>2. ASSUME NEW t \in Stream, NEW n \in Cid,
             Goroutine(t, n)
      PROVE  IInv'
  BY <1>2, SendFailsKeepsInv, StoreClosedKeepsInv, StopFailedKeepsInv, StopPanicsKeepsInv,
     ClearSourceKeepsInv, WspSendFailsKeepsInv, TaskEndsKeepsInv, TaskReleasesKeepsInv
     DEF Goroutine
<1>3. ASSUME NEW s \in Session, Accept(s) \/ ClientLeaves(s) PROVE IInv'
  BY <1>3, AcceptKeepsInv, LeaveKeepsInv DEF ClientLeaves
<1>4. ASSUME NEW s \in Session, Request(s) PROVE IInv'
  <2>1. CASE Describe(s) \/ Announce(s)
    BY <2>1, DescribeKeepsInv, AnnounceKeepsInv
  <2>2. ASSUME NEW m \in {"play", "record"}, NEW v \in Via \ {"none"},
               Setup(s, [mode |-> m, via |-> v])
        PROVE  IInv'
    BY <2>2, SetupKeepsInv
  <2>3. ASSUME NEW t \in Stream, Record(s, t) PROVE IInv'
    BY <2>3, RecordKeepsInv
  <2>4. CASE Play(s) \/ PlayRefused(s) \/ WspPlay(s)
    BY <2>4, PlayKeepsInv, PlayRefusedKeepsInv, WspPlayKeepsInv
  <2> QED
    BY <1>4, <2>1, <2>2, <2>3, <2>4 DEF Request
<1>5. ASSUME NEW s \in Session, Proceeds(s) PROVE IInv'
  <2>1. CASE Starts(s) \/ Started(s) \/ Join(s)
    BY <2>1, StartsKeepsInv, StartedKeepsInv, JoinKeepsInv
  <2>2. CASE ClosedLeaves(s)
    BY <2>2, LeaveKeepsInv DEF ClosedLeaves
  <2>3. CASE TestClosed(s) \/ StoresClosed(s) \/ StopsConsumer(s) \/ Crashes(s) \/ ClearsSource(s)
    BY <2>3, TestClosedKeepsInv, StoresClosedKeepsInv, StopsConsumerKeepsInv, CrashesKeepsInv,
       ClearsSourceKeepsInv
  <2>4. CASE StopsWsp(s) \/ CloseMember(s) \/ CloseNothing(s) \/ CloseFeed(s)
    BY <2>4, StopsWspKeepsInv, CloseMemberKeepsInv, CloseNothingKeepsInv, CloseFeedKeepsInv
  <2> QED
    BY <1>5, <2>1, <2>2, <2>3, <2>4 DEF Proceeds
<1>6. CASE UNCHANGED vars
  <2>1. SessionTypes /\ SessionsAreConsistent
    BY TypesAreThese DEF IInv
  <2>2. SessionTypes' /\ SessionsAreConsistent'
    BY <1>6, <2>1 DEF vars, sessionVars, streamVars, SessionTypes, SessionsAreConsistent,
       SessionIsConsistent
  <2>3. \A s \in Session : GoesOn(s)
    BY <1>6 DEF vars, sessionVars, streamVars, GoesOn, MayStart, Holds
  <2> QED
    BY <1>6, <2>2, <2>3, QuietKeepsInv DEF vars, sessionVars
<1> QED
  BY <1>1, <1>2, <1>3, <1>4, <1>5, <1>6 DEF Next

\* Nothing has been published or accepted at first.
LEMMA InitHasInv == Init => IInv
<1> SUFFICES ASSUME Init PROVE IInv
  OBVIOUS
<1>1. NoConsumer \in Consumer /\ NoConsumer.source = None /\ NoConsumer.cid = 0
      /\ NoConsumer.via = "none"
  BY SessionsAssumption DEF NoConsumer, Consumer, Via
<1>2. StreamTypes
  BY SessionsAssumption DEF Init, StreamTypes, TaskStates
<1>3. SessionTypes
  <2>1. kind \in [Session -> {"rtsp", "wsp"}]
    BY SessionsAssumption DEF Init
  <2> QED
    BY <1>1, <2>1 DEF Init, SessionTypes, Progress, Modes, Via, Status
<1>4. ProxyTypes
  BY SessionsAssumption DEF Init, ProxyTypes
<1>5. TypeOK
  BY <1>2, <1>3, <1>4, TypesAreThese
<1>6. Bookkept /\ TasksAreRight
  BY <1>1, SessionsAssumption DEF Init, Bookkept, StreamIsBookkept, TasksAreRight, TaskIsRight
<1>7. SessionsAreConsistent
  BY <1>1 DEF Init, SessionsAreConsistent, SessionIsConsistent
<1>8. ConsumptionsAreHeld
  BY <1>1, SessionsAssumption DEF Init, ConsumptionsAreHeld, ConsumptionIsHeld,
     OwnsOne, OwnsNothing
<1>9. ProxyKnowsItsOwn
  BY DEF Init, ProxyKnowsItsOwn
<1> QED
  BY <1>5, <1>6, <1>7, <1>8, <1>9 DEF IInv

-----------------------------------------------------------------------------
(* The theorems.                                                           *)

\* IInv is inductive, for every order of requests, failures and ends
\* (session.go, session_roles.go, multicast_proxy.go, wsp/session.go).
THEOREM InvariantHolds == Spec => []IInv
  BY InitHasInv, NextKeepsInv, PTL DEF Spec

\* Every variable keeps its type; in particular the consumer that a goroutine
\* closes at its end (consumption.go) is a session or a proxy.
THEOREM TypeCorrect == Spec => []TypeOK
<1>1. IInv => TypeOK
  BY DEF IInv
<1> QED
  BY <1>1, InvariantHolds, PTL

\* RolesAgree: whatever SETUP has overwritten (onSetup of session.go), a session
\* is a pusher or a player and never both.
THEOREM RolesStayApart == Spec => []RolesAgree
<1>1. IInv => RolesAgree
  BY DEF IInv, SessionsAreConsistent, SessionIsConsistent, RolesAgree
<1> QED
  BY <1>1, InvariantHolds, PTL

\* EndedSessionIsDetached: when a session has ended (process of session.go) no
\* consumption of its own is left that nobody will stop, but for one whose number
\* its consumer did not know when a send failed; the goroutine whose failed send
\* closed the consumer (tcpConsumer.Close of session_roles.go) may be about to.
THEOREM EndedIsDetached == Spec => []EndedSessionIsDetached
<1>1. IInv => EndedSessionIsDetached
  BY DEF IInv, ConsumptionsAreHeld, ConsumptionIsHeld, Holds, EndedSessionIsDetached
<1> QED
  BY <1>1, InvariantHolds, PTL

\* ProxyRunsForMembers: a proxy does not consume the registered stream for
\* nobody (AddMember and ReleaseMember of multicast_proxy.go).
THEOREM ProxyHasMembers == Spec => []ProxyRunsForMembers
<1>1. IInv => ProxyRunsForMembers
  BY DEF IInv, ProxyKnowsItsOwn, ProxyRunsForMembers
<1> QED
  BY <1>1, InvariantHolds, PTL

\* What StopConsume takes for session s is its own.
LEMMA StopTakesItsOwn ==
    ASSUME IInv, NEW s \in Session, consumer[s].source \in Stream,
           Stops(consumer[s].source, consumer[s].cid),
           NEW t \in Stream, NEW n \in attached[t] \ attached'[t]
    PROVE  owner[t][n] = s
<1>1. StreamTypes /\ OwnsOne(s) /\ None \notin Stream
  BY TypesAreThese, SessionsAssumption DEF IInv, ConsumptionsAreHeld, ConsumptionIsHeld
<1>2. t = consumer[s].source /\ n = consumer[s].cid
  BY <1>1 DEF StreamTypes, Stops
<1>3. n # 0 /\ n \in Cid
  BY <1>1 DEF StreamTypes, Cid
<1>4. PICK u \in Stream : owner[u][n] = s
  BY <1>1, <1>2, <1>3 DEF OwnsOne
<1> QED
  BY <1>1, <1>2, <1>3, <1>4 DEF OwnsOne

\* What a proxy takes on its own stream is its own.
LEMMA CloseTakesItsOwn ==
    ASSUME IInv, NEW u \in Stream, NEW ms, CloseProxy(u, ms),
           NEW t \in Stream, NEW n \in attached[t] \ attached'[t], owner[t][n] \in Session
    PROVE  u # t /\ pclosed'[u] /\ ~pclosed[u]
<1>1. StreamTypes /\ ProxyTypes
  BY TypesAreThese DEF IInv
<1>2. /\ ~pclosed[u] /\ pclosed'[u] /\ registry # None
      /\ attached' = [attached EXCEPT ![registry] = @ \ ({pcid[u]} \cap attached[registry])]
  BY <1>1 DEF CloseProxy, ProxyTypes
<1>3. t = registry /\ n = pcid[u] /\ n # 0
  BY <1>1, <1>2 DEF StreamTypes, Cid
<1>4. u = t => owner[t][n] = t
  BY <1>2, <1>3 DEF IInv, ProxyKnowsItsOwn
<1> QED
  BY <1>2, <1>4, SessionsAssumption

\* A step stops a session's consumption on an open stream for the session, or
\* as the proxy of another stream.
LEMMA NextStopsItsOwn ==
    ASSUME IInv, [Next]_vars,
           NEW t \in Stream, open'[t] = "open", NEW n \in attached[t] \ attached'[t],
           owner[t][n] \in Session
    PROVE  \/ consumer'[owner[t][n]].closed
           \/ \E u \in Stream \ {t} : pclosed'[u] /\ ~pclosed[u]
<1>1. StreamTypes /\ SessionTypes /\ ProxyTypes
  BY TypesAreThese DEF IInv
<1>2. ASSUME NEW u \in Stream, Unregist(u) PROVE FALSE
  BY <1>1, <1>2 DEF Unregist, StreamTypes
<1>3. ASSUME NEW u \in Stream, NEW o, StartConsume(u, o) PROVE FALSE
  BY <1>1, <1>3 DEF StartConsume, StreamTypes
<1>4. attached' # attached
  OBVIOUS
<1>5. ASSUME NEW u \in Stream, NEW m \in Cid, StopFailed(u, m) \/ StopPanics(u, m)
      PROVE  consumer'[owner[t][n]].closed
  <2>s. PICK s : s = owner[u][m]
    OBVIOUS
  <2>1. /\ s \in Session /\ consumer[s] \in Consumer /\ consumer[s].closed
        /\ consumer' = consumer
    BY <1>5, <2>s, ClosingTask DEF StopFailed, StopPanics, sessionVars
  <2>2. CASE StopFailed(u, m)
    <3>1. consumer[s].source \in Stream /\ Stops(consumer[s].source, consumer[s].cid)
      BY <2>1, <2>2, <2>s DEF StopFailed, Consumer
    <3> QED
      BY <2>1, <3>1, StopTakesItsOwn
  <2>3. CASE StopPanics(u, m)
    <3>1. t = u /\ n = m
      BY <1>1, <2>3 DEF StopPanics, Stops, StreamTypes
    <3> QED
      BY <2>1, <2>s, <3>1
  <2> QED
    BY <1>5, <2>2, <2>3
<1>6. ASSUME NEW u \in Stream, NEW m \in Cid, TaskReleases(u, m)
      PROVE  \E v \in Stream \ {t} : pclosed'[v] /\ ~pclosed[v]
  <2>1. owner[u][m] \in Stream /\ CloseProxy(owner[u][m], members[owner[u][m]])
    BY <1>1, <1>4, <1>6 DEF TaskReleases, IInv, TasksAreRight, TaskIsRight, StreamTypes
  <2> QED
    BY <2>1, CloseTakesItsOwn
<1>7. ASSUME NEW s \in Session, StopsConsumer(s) \/ StopsWsp(s)
      PROVE  consumer'[owner[t][n]].closed
  <2>1. consumer[s] \in Consumer /\ SessionIsConsistent(s)
    BY <1>1 DEF IInv, SessionsAreConsistent, SessionTypes
  <2>2. consumer[s].source \in Stream /\ Stops(consumer[s].source, consumer[s].cid)
    BY <1>7, <2>1 DEF StopsConsumer, StopsWsp, Consumer
  <2>3. owner[t][n] = s
    BY <2>2, StopTakesItsOwn
  <2>4. CASE StopsConsumer(s)
    BY <2>1, <2>3, <2>4 DEF StopsConsumer, SessionIsConsistent
  <2>5. CASE StopsWsp(s)
    BY <1>1, <2>1, <2>3, <2>5 DEF StopsWsp, SessionTypes, Consumer
  <2> QED
    BY <1>7, <2>4, <2>5
<1>8. ASSUME NEW s \in Session, CloseMember(s)
      PROVE  \E v \in Stream \ {t} : pclosed'[v] /\ ~pclosed[v]
  <2>1. /\ SessionIsConsistent(s) /\ consumer[s] \in Consumer
        /\ consumer[s].via = "multicast" /\ ReleaseMember(consumer[s].source, s)
    BY <1>1, <1>8 DEF CloseMember, IInv, SessionsAreConsistent, SessionTypes
  <2>2. consumer[s].source \in Stream
    BY <1>8, <2>1 DEF CloseMember, ToStream, SessionIsConsistent, Consumer
  <2>3. CloseProxy(consumer[s].source, {})
    BY <1>4, <2>1 DEF ReleaseMember
  <2> QED
    BY <2>2, <2>3, CloseTakesItsOwn
<1>9. ASSUME NEW s \in Session, CloseFeed(s) PROVE FALSE
  <2>1. feeds[s] \in Stream /\ Unregist(feeds[s])
    BY <1>1, <1>4, <1>9 DEF CloseFeed, SessionTypes, streamVars
  <2> QED
    BY <1>2, <2>1
<1>10. ASSUME NEW s \in Session, Starts(s) \/ Join(s) \/ WspPlay(s) PROVE FALSE
  <2>1. SessionIsConsistent(s) /\ consumer[s] \in Consumer
    BY <1>1 DEF IInv, SessionsAreConsistent, SessionTypes
  <2>2. CASE Starts(s)
    <3>1. consumer[s].source \in Stream
      BY <2>1, <2>2 DEF Starts, SessionIsConsistent, Consumer
    <3> QED
      BY <1>3, <2>2, <3>1 DEF Starts
  <2>3. CASE Join(s)
    <3>1. registry \in Stream /\ StartConsume(registry, consumer[s].source)
      BY <1>1, <1>4, <2>3 DEF Join, AddMember, StreamTypes, streamVars
    <3> QED
      BY <1>3, <3>1
  <2>4. CASE WspPlay(s)
    <3>1. registry \in Stream
      BY <1>1, <2>4 DEF WspPlay, CanPlay, StreamTypes
    <3> QED
      BY <1>3, <2>4, <3>1 DEF WspPlay
  <2> QED
    BY <1>10, <2>2, <2>3, <2>4
<1>11. ASSUME NEW u \in Stream, SourceStarts(u) \/ SourceEnds(u) PROVE FALSE
  BY <1>2, <1>4, <1>11 DEF SourceStarts, SourceEnds
<1>12. ASSUME NEW u \in Stream, NEW m \in Cid,
              \/ SendFails(u, m) \/ StoreClosed(u, m) \/ ClearSource(u, m)
              \/ WspSendFails(u, m) \/ TaskEnds(u, m)
       PROVE  FALSE
  BY <1>4, <1>12 DEF SendFails, StoreClosed, ClearSource, WspSendFails, TaskEnds, streamVars
<1>13. ASSUME NEW s \in Session,
              \/ Accept(s) \/ Leave(s) \/ Describe(s) \/ Announce(s)
              \/ Play(s) \/ PlayRefused(s) \/ Started(s) \/ CloseNothing(s)
              \/ TestClosed(s) \/ StoresClosed(s) \/ Crashes(s) \/ ClearsSource(s)
       PROVE  FALSE
  BY <1>4, <1>13 DEF Accept, Leave, Describe, Announce, Play, PlayRefused, Started,
     CloseNothing, TestClosed, StoresClosed, Crashes, ClearsSource, streamVars
<1>14. ASSUME NEW s \in Session, NEW tr, Setup(s, tr) PROVE FALSE
  BY <1>4, <1>14 DEF Setup, streamVars
<1>15. ASSUME NEW s \in Session, NEW u \in Stream, Record(s, u) PROVE FALSE
  BY <1>4, <1>15 DEF Record
<1>16. CASE UNCHANGED vars
  BY <1>4, <1>16 DEF vars, streamVars
<1>17. ASSUME NEW s \in Session, Request(s) PROVE FALSE
  BY <1>10, <1>13, <1>14, <1>15, <1>17 DEF Request
<1>18. ASSUME NEW s \in Session, Proceeds(s)
       PROVE  \/ consumer'[owner[t][n]].closed
              \/ \E u \in Stream \ {t} : pclosed'[u] /\ ~pclosed[u]
  BY <1>7, <1>8, <1>9, <1>10, <1>13, <1>18 DEF Proceeds, ClosedLeaves
<1> QED
  BY <1>5, <1>6, <1>11, <1>12, <1>13, <1>16, <1>17, <1>18 DEF Next, Goroutine, ClientLeaves

\* StopsItsOwn: while a stream is open nobody but the session stops its
\* consumption of it (StopConsume of stream.go), except the proxy of another
\* stream (close of multicast_proxy.go).
THEOREM OthersAreLeftAlone == Spec => StopsItsOwn
<1>1. IInv /\ [Next]_vars =>
        \A t \in Stream : open'[t] = "open" =>
          \A n \in attached[t] \ attached'[t] : owner[t][n] \in Session =>
            \/ consumer'[owner[t][n]].closed
            \/ \E u \in Stream \ {t} : pclosed'[u] /\ ~pclosed[u]
  BY NextStopsItsOwn
<1> QED
  BY <1>1, InvariantHolds, PTL DEF Spec, StopsItsOwn

=============================================================================
