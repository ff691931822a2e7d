------------------------------ MODULE Sessions ------------------------------
(***************************************************************************)
(* The RTSP sessions (service/rtsp/session.go, session_roles.go), the      *)
(* multicast proxies of pushed streams (multicast_proxy.go) and the WSP    *)
(* sessions (service/wsp/session.go) around the streams of one path.       *)
(*                                                                         *)
(* A session's own goroutine reads its requests; the goroutine of a        *)
(* consumption sends it packs and closes it when the consumption ends.     *)
(* They share the session's fields without a lock.  A proxy has a lock.    *)
(*                                                                         *)
(* A stream is its registration, whether it is open, and its consumptions, *)
(* which have numbers of their own in each stream: starting, stopping and  *)
(* closing is one step each here, module MediaStream has them in detail.   *)
(* Authentication and permissions reject a request without a trace and are *)
(* left out, as are requests that change nothing.                          *)
(***************************************************************************)
EXTENDS Integers, FiniteSets

CONSTANTS
    Session,     \* the connections ever accepted
    Kind,        \* the services they may come to: "rtsp", "wsp"
    Stream,      \* the streams ever created on the path
    Multicast,   \* those with a multicast proxy
    MaxCid,      \* bound: consumptions of one stream
    None         \* no stream, no owner

ASSUME SessionsAssumption ==
    /\ Kind \subseteq {"rtsp", "wsp"}
    /\ Multicast \subseteq Stream
    /\ MaxCid \in Nat \ {0}
    /\ Session \cap Stream = {}
    /\ None \notin Session \cup Stream

Cid == 1..MaxCid

VARIABLES
    registry,  \* the stream the path leads to
    open,      \* open[t]: "none" before t is created
    lastCid,   \* lastCid[t]: the number of t's last consumption
    attached,  \* attached[t]: the consumptions in t's collection
    ending,    \* ending[t]: the consumptions whose closed flag is set
    owner,     \* owner[t][n]: the session, or the stream whose proxy consumes
    task,      \* task[t][n]: progress of the goroutine of the consumption
    kind,      \* kind[s]: the service of session s
    at,        \* at[s]: progress of the goroutine that reads the requests;
               \* "crashed" when it panics past its recover
    closed,    \* Session.closed
    mode,      \* Session.mode
    transport, \* Session.transport: its Mode and its Type
    status,    \* Session.status
    consumer,  \* the consumer made for PLAY; of a WSP session, source and cid
    feeds,     \* feeds[s]: the stream of a pusher
    deaf,      \* deaf[s]: a failed send stopped cid 0, the real one unknown
    members,   \* members[t]: multicastProxy.members of t's proxy
    pclosed,   \* multicastProxy.closed
    pcid       \* multicastProxy.cid

streamVars  == <<registry, open, lastCid, attached, ending, owner, task>>
sessionVars == <<kind, at, closed, mode, transport, status, consumer, feeds, deaf>>
proxyVars   == <<members, pclosed, pcid>>
vars == <<streamVars, sessionVars, proxyVars>>

Modes   == {"unknown", "play", "record"}
Via     == {"none", "tcp", "udp", "multicast"}
Status  == {"init", "ready", "playing", "recording"}
NoConsumer == [via |-> "none", closed |-> FALSE, source |-> None, cid |-> 0]

TypeOK ==
    /\ registry \in Stream \cup {None}
    /\ open \in [Stream -> {"none", "open", "closed"}]
    /\ lastCid \in [Stream -> 0..MaxCid]
    /\ attached \in [Stream -> SUBSET Cid] /\ ending \in [Stream -> SUBSET Cid]
    /\ \A t \in Stream : attached[t] \cap ending[t] = {}
    /\ owner \in [Stream -> [Cid -> Session \cup Stream \cup {None}]]
    /\ task \in [Stream -> [Cid -> {"none", "run", "store", "stop", "clear",
                                     "release", "done"}]]
    /\ kind \in [Session -> {"rtsp", "wsp"}]
    /\ at \in [Session -> {"none", "run", "start", "started", "join", "consumer",
                           "store", "stop", "clear", "stream", "ended", "crashed"}]
    /\ closed \in [Session -> BOOLEAN] /\ deaf \in [Session -> BOOLEAN]
    /\ mode \in [Session -> Modes]
    /\ transport \in [Session -> [mode : {"play", "record"}, via : Via]]
    /\ status \in [Session -> Status]
    /\ consumer \in [Session -> [via : Via, closed : BOOLEAN, cid : 0..MaxCid,
                                 source : Stream \cup {None}]]
    /\ feeds \in [Session -> Stream \cup {None}]
    /\ members \in [Stream -> SUBSET Session]
    /\ pclosed \in [Stream -> BOOLEAN] /\ pcid \in [Stream -> 0..MaxCid]

Init ==
    /\ registry = None
    /\ open = [t \in Stream |-> "none"]
    /\ lastCid = [t \in Stream |-> 0]
    /\ attached = [t \in Stream |-> {}] /\ ending = [t \in Stream |-> {}]
    /\ owner = [t \in Stream |-> [n \in Cid |-> None]]
    /\ task = [t \in Stream |-> [n \in Cid |-> "none"]]
    /\ kind \in [Session -> Kind]
    /\ at = [s \in Session |-> "none"]
    /\ closed = [s \in Session |-> FALSE] /\ deaf = [s \in Session |-> FALSE]
    /\ mode = [s \in Session |-> "unknown"]
    /\ transport = [s \in Session |-> [mode |-> "play", via |-> "none"]]
    /\ status = [s \in Session |-> "init"]
    /\ consumer = [s \in Session |-> NoConsumer]
    /\ feeds = [s \in Session |-> None]
    /\ members = [t \in Stream |-> {}]
    /\ pclosed = [t \in Stream |-> FALSE] /\ pcid = [t \in Stream |-> 0]

-----------------------------------------------------------------------------
(* Streams.                                                                *)

\* NewStream and Regist: whatever was registered stays open, left to its task.
Publish(t) ==
    /\ open[t] = "none"
    /\ open' = [open EXCEPT ![t] = "open"]
    /\ registry' = t

\* A source other than these sessions (a pull client, another server).
SourceStarts(t) ==
    /\ Publish(t)
    /\ UNCHANGED <<lastCid, attached, ending, owner, task, sessionVars, proxyVars>>

\* Mutant of Unregist: consumptions are closed and stay in the collection.
UnregistKeepsAll(t) ==
    /\ registry' = IF registry = t THEN None ELSE registry
    /\ open' = [open EXCEPT ![t] = "closed"]
    /\ ending' = [ending EXCEPT ![t] = @ \cup attached[t]]
    /\ UNCHANGED <<lastCid, attached, owner, task>>

\* Unregist: the stream closes all its consumptions.
Unregist(t) ==
    /\ registry' = IF registry = t THEN None ELSE registry
    /\ open' = [open EXCEPT ![t] = "closed"]
    /\ ending' = [ending EXCEPT ![t] = @ \cup attached[t]]
    /\ attached' = [attached EXCEPT ![t] = {}]
    /\ UNCHANGED <<lastCid, owner, task>>

SourceEnds(t) ==
    /\ open[t] = "open"
    /\ \A s \in Session : feeds[s] # t
    /\ Unregist(t)
    /\ UNCHANGED <<sessionVars, proxyVars>>

\* Stream.StartConsume, for owner o.
StartConsume(t, o) ==
    LET n == lastCid[t] + 1 IN
    /\ n \in Cid
    /\ lastCid' = [lastCid EXCEPT ![t] = n]
    /\ attached' = [attached EXCEPT ![t] = @ \cup {n}]
    /\ owner' = [owner EXCEPT ![t][n] = o]
    /\ task' = [task EXCEPT ![t][n] = "run"]
    /\ UNCHANGED <<registry, open, ending>>

\* Mutant of Stops: it takes the latest consumption for the one meant.
StopsLatest(t, n) ==
    /\ ending' = [ending EXCEPT ![t] = @ \cup ({lastCid[t]} \cap attached[t])]
    /\ attached' = [attached EXCEPT ![t] = @ \ {lastCid[t]}]

\* Stream.StopConsume: nothing happens unless the number is attached.
Stops(t, n) ==
    /\ ending' = [ending EXCEPT ![t] = @ \cup ({n} \cap attached[t])]
    /\ attached' = [attached EXCEPT ![t] = @ \ {n}]

-----------------------------------------------------------------------------
(* The proxy of stream t; each operation holds its lock.                   *)

\* Only the first member is recorded, and starts the proxy: on the stream that
\* is registered now, if there is one and a socket can be opened.
AddMember(t, s) ==
    \/ /\ members[t] = {} /\ registry # None
       /\ StartConsume(registry, t)
       /\ members' = [members EXCEPT ![t] = {s}]
       /\ pcid' = [pcid EXCEPT ![t] = lastCid[registry] + 1]
       /\ pclosed' = [pclosed EXCEPT ![t] = FALSE]
    \/ UNCHANGED <<streamVars, proxyVars>>

\* close, with members ms left: the consumption is looked for on the stream
\* that is registered now; the members' sessions are closed.
CloseProxy(t, ms) ==
    IF pclosed[t]
      THEN /\ members' = [members EXCEPT ![t] = ms]
           /\ UNCHANGED <<ending, attached, pclosed, closed>>
      ELSE /\ pclosed' = [pclosed EXCEPT ![t] = TRUE]
           /\ IF registry = None THEN UNCHANGED <<ending, attached>>
              ELSE LET stopped == {pcid[t]} \cap attached[registry] IN
                   /\ ending' = [ending EXCEPT ![registry] = @ \cup stopped]
                   /\ attached' = [attached EXCEPT ![registry] = @ \ stopped]
           /\ closed' = [s \in Session |-> closed[s] \/ s \in ms]
           /\ members' = [members EXCEPT ![t] = {}]

\* Mutant of ReleaseMember: the last one leaves the proxy running.
ReleaseOnly(t, s) ==
    /\ members' = [members EXCEPT ![t] = @ \ {s}]
    /\ UNCHANGED <<ending, attached, pclosed, closed>>

ReleaseMember(t, s) ==
    LET left == members[t] \ {s} IN
    IF left = {} THEN CloseProxy(t, {})
    ELSE /\ members' = [members EXCEPT ![t] = left]
         /\ UNCHANGED <<ending, attached, pclosed, closed>>

-----------------------------------------------------------------------------
(* The goroutine of consumption n of stream t.                             *)

(* A write to a TCP player fails: tcpConsumer.Close, one step after the     *)
(* other beside the session's own Close: the test of closed, the store, the *)
(* StopConsume and source = nil.                                            *)

SendFails(t, n) ==
    LET s == owner[t][n] IN
    /\ task[t][n] = "run"
    /\ s \in Session /\ kind[s] = "rtsp"
    /\ consumer[s].via = "tcp" /\ ~consumer[s].closed
    /\ task' = [task EXCEPT ![t][n] = "store"]
    /\ UNCHANGED <<registry, open, lastCid, attached, ending, owner, sessionVars, proxyVars>>

StoreClosed(t, n) ==
    /\ task[t][n] = "store"
    /\ task' = [task EXCEPT ![t][n] = "stop"]
    /\ consumer' = [consumer EXCEPT ![owner[t][n]].closed = TRUE]
    /\ UNCHANGED <<registry, open, lastCid, attached, ending, owner, kind, at, closed,
                   mode, transport, status, feeds, deaf, proxyVars>>

\* The cid is still 0 when StartConsume has not returned.
StopFailed(t, n) ==
    LET c == consumer[owner[t][n]] IN
    /\ task[t][n] = "stop"
    /\ c.source # None
    /\ Stops(c.source, c.cid)
    /\ deaf' = [deaf EXCEPT ![owner[t][n]] = @ \/ c.cid = 0]
    /\ task' = [task EXCEPT ![t][n] = "clear"]
    /\ UNCHANGED <<registry, open, lastCid, owner, kind, at, closed, mode, transport,
                   status, consumer, feeds, proxyVars>>

\* The session has set source to nil: the goroutine panics, recovers, and stops
\* its own consumption on its way out.
StopPanics(t, n) ==
    /\ task[t][n] = "stop"
    /\ consumer[owner[t][n]].source = None
    /\ Stops(t, n)
    /\ task' = [task EXCEPT ![t][n] = "release"]
    /\ UNCHANGED <<registry, open, lastCid, owner, sessionVars, proxyVars>>

ClearSource(t, n) ==
    /\ task[t][n] = "clear"
    /\ task' = [task EXCEPT ![t][n] = "run"]
    /\ consumer' = [consumer EXCEPT ![owner[t][n]].source = None]
    /\ UNCHANGED <<registry, open, lastCid, attached, ending, owner, kind, at, closed,
                   mode, transport, status, feeds, deaf, proxyVars>>

\* A write to the data channel fails: Session.Close.
WspSendFails(t, n) ==
    LET s == owner[t][n] IN
    /\ task[t][n] = "run"
    /\ s \in Session /\ kind[s] = "wsp"
    /\ ~closed[s]
    /\ closed' = [closed EXCEPT ![s] = TRUE]
    /\ UNCHANGED <<streamVars, kind, at, mode, transport, status, consumer, feeds, deaf, proxyVars>>

\* It finds its consumption closed and leaves the loop.
TaskEnds(t, n) ==
    /\ task[t][n] = "run"
    /\ n \in ending[t]
    /\ task' = [task EXCEPT ![t][n] = "release"]
    /\ UNCHANGED <<registry, open, lastCid, attached, ending, owner, sessionVars, proxyVars>>

\* consumer.Close(): Session.Close, or the proxy's Close, whatever the proxy
\* has been doing since.
TaskReleases(t, n) ==
    LET o == owner[t][n] IN
    /\ task[t][n] = "release"
    /\ task' = [task EXCEPT ![t][n] = "done"]
    /\ IF o \in Session
         THEN /\ closed' = [closed EXCEPT ![o] = TRUE]
              /\ UNCHANGED <<attached, ending, proxyVars>>
         ELSE CloseProxy(o, members[o]) /\ UNCHANGED pcid
    /\ UNCHANGED <<registry, open, lastCid, owner, kind, at, mode, transport, status,
                   consumer, feeds, deaf>>

-----------------------------------------------------------------------------
(* Requests, read by the session's goroutine.                              *)

Reads(s) == at[s] = "run" /\ ~closed[s]

Accept(s) ==
    /\ at[s] = "none"
    /\ at' = [at EXCEPT ![s] = "run"]
    /\ UNCHANGED <<streamVars, kind, closed, mode, transport, status, consumer, feeds,
                   deaf, proxyVars>>

\* DESCRIBE of a stream that is there; a WSP session plays whatever it says.
Describe(s) ==
    /\ Reads(s) /\ status[s] = "init"
    /\ registry # None
    /\ mode' = [mode EXCEPT ![s] = "play"]
    /\ UNCHANGED <<streamVars, kind, at, closed, transport, status, consumer, feeds, deaf, proxyVars>>

Announce(s) ==
    /\ Reads(s) /\ status[s] = "init" /\ kind[s] = "rtsp"
    /\ mode' = [mode EXCEPT ![s] = "record"]
    /\ UNCHANGED <<streamVars, kind, at, closed, transport, status, consumer, feeds, deaf, proxyVars>>

\* What onSetup asks of the new transport tr.
SetupAccepted(s, tr) ==
    /\ tr.mode = mode[s]
    /\ \/ tr.via = "tcp"
       \/ kind[s] = "rtsp" /\ mode[s] = "play" /\ tr.via = "udp"
       \/ kind[s] = "rtsp" /\ mode[s] = "play" /\ tr.via = "multicast" /\ registry \in Multicast

\* SETUP stores the transport whether or not it then accepts it.  The tracks it
\* names are known after DESCRIBE or ANNOUNCE.
Setup(s, tr) ==
    /\ Reads(s) /\ status[s] \in {"init", "ready"}
    /\ mode[s] # "unknown"
    /\ transport' = [transport EXCEPT ![s] = tr]
    /\ status' = [status EXCEPT ![s] = IF SetupAccepted(s, tr) THEN "ready" ELSE @]
    /\ UNCHANGED <<streamVars, kind, at, closed, mode, consumer, feeds, deaf, proxyVars>>

\* RECORD: asTCPPusher.
Record(s, t) ==
    /\ Reads(s) /\ status[s] = "ready" /\ kind[s] = "rtsp"
    /\ mode[s] = "record" /\ transport[s].via = "tcp"
    /\ t \in Multicast
    /\ Publish(t)
    /\ feeds' = [feeds EXCEPT ![s] = t]
    /\ status' = [status EXCEPT ![s] = "recording"]
    /\ UNCHANGED <<lastCid, attached, ending, owner, task, kind, at, closed, mode,
                   transport, consumer, deaf, proxyVars>>

\* Mutant of CanPlay: onPlay without its test of the mode.
CanPlayAnyMode(s) ==
    /\ Reads(s) /\ status[s] = "ready"
    /\ transport[s].via # "none"
    /\ registry # None

CanPlay(s) ==
    /\ Reads(s) /\ status[s] = "ready"
    /\ kind[s] = "rtsp" => mode[s] = "play" /\ transport[s].via # "none"
    /\ registry # None

\* PLAY over TCP, UDP or multicast: once the response is out the consumer is
\* set, which starts later.
Play(s) ==
    LET via == transport[s].via IN
    /\ CanPlay(s) /\ kind[s] = "rtsp"
    /\ via = "multicast" => registry \in Multicast
    /\ consumer' = [consumer EXCEPT ![s] = [NoConsumer EXCEPT !.via = via, !.source = registry]]
    /\ at' = [at EXCEPT ![s] = IF via = "multicast" THEN "join" ELSE "start"]
    /\ UNCHANGED <<streamVars, kind, closed, mode, transport, status, feeds, deaf, proxyVars>>

\* No UDP socket, or no multicast: an error response, and the session plays.
PlayRefused(s) ==
    /\ CanPlay(s) /\ kind[s] = "rtsp"
    /\ \/ transport[s].via = "udp"
       \/ transport[s].via = "multicast" /\ registry \notin Multicast
    /\ status' = [status EXCEPT ![s] = "playing"]
    /\ UNCHANGED <<streamVars, kind, at, closed, mode, transport, consumer, feeds, deaf, proxyVars>>

Starts(s) ==
    /\ at[s] = "start"
    /\ StartConsume(consumer[s].source, s)
    /\ at' = [at EXCEPT ![s] = "started"]
    /\ UNCHANGED <<kind, closed, mode, transport, status, consumer, feeds, deaf, proxyVars>>

\* c.cid = the result.
Started(s) ==
    /\ at[s] = "started"
    /\ \E t \in Stream, n \in Cid :
          owner[t][n] = s /\ consumer' = [consumer EXCEPT ![s].cid = n]
    /\ status' = [status EXCEPT ![s] = "playing"]
    /\ at' = [at EXCEPT ![s] = "run"]
    /\ UNCHANGED <<streamVars, kind, closed, mode, transport, feeds, deaf, proxyVars>>

Join(s) ==
    /\ at[s] = "join"
    /\ AddMember(consumer[s].source, s)
    /\ status' = [status EXCEPT ![s] = "playing"]
    /\ at' = [at EXCEPT ![s] = "run"]
    /\ UNCHANGED <<kind, closed, mode, transport, consumer, feeds, deaf>>

\* PLAY in a WSP session: only this goroutine reads source and cid.
WspPlay(s) ==
    /\ CanPlay(s) /\ kind[s] = "wsp"
    /\ StartConsume(registry, s)
    /\ consumer' = [consumer EXCEPT ![s] =
                       [NoConsumer EXCEPT !.source = registry, !.cid = lastCid[registry] + 1]]
    /\ status' = [status EXCEPT ![s] = "playing"]
    /\ UNCHANGED <<kind, at, closed, mode, transport, feeds, deaf, proxyVars>>

-----------------------------------------------------------------------------
(* The end of a session.                                                   *)

\* TEARDOWN, a read error, a response that cannot be written; or the goroutine
\* finds its session closed.  process closes an RTSP session first, a WSP
\* session at the end.
Leave(s) ==
    /\ at[s] = "run"
    /\ at' = [at EXCEPT ![s] = "consumer"]
    /\ closed' = [closed EXCEPT ![s] = closed[s] \/ kind[s] = "rtsp"]
    /\ UNCHANGED <<streamVars, kind, mode, transport, status, consumer, feeds, deaf, proxyVars>>

ClientLeaves(s)  == ~closed[s] /\ Leave(s)
ClosedLeaves(s)  == closed[s] /\ Leave(s)

\* s.consumer.Close() of a TCP or UDP player: its test of closed.
TestClosed(s) ==
    /\ at[s] = "consumer"
    /\ consumer[s].via \in {"tcp", "udp"}
    /\ at' = [at EXCEPT ![s] = IF consumer[s].closed THEN "stream" ELSE "store"]
    /\ UNCHANGED <<streamVars, kind, closed, mode, transport, status, consumer, feeds, deaf, proxyVars>>

StoresClosed(s) ==
    /\ at[s] = "store"
    /\ at' = [at EXCEPT ![s] = "stop"]
    /\ consumer' = [consumer EXCEPT ![s].closed = TRUE]
    /\ UNCHANGED <<streamVars, kind, closed, mode, transport, status, feeds, deaf, proxyVars>>

\* Mutant of StopsConsumer: closing the consumer does not stop it.
ForgetsConsumer(s) ==
    /\ at[s] = "stop"
    /\ consumer[s].source # None
    /\ at' = [at EXCEPT ![s] = "clear"]
    /\ UNCHANGED <<streamVars, kind, closed, mode, transport, status, consumer, feeds, deaf, proxyVars>>

StopsConsumer(s) ==
    /\ at[s] = "stop"
    /\ consumer[s].source # None
    /\ Stops(consumer[s].source, consumer[s].cid)
    /\ at' = [at EXCEPT ![s] = "clear"]
    /\ UNCHANGED <<registry, open, lastCid, owner, task, kind, closed, mode, transport,
                   status, consumer, feeds, deaf, proxyVars>>

\* The failed send has set source to nil.  The panic is in the deferred function
\* of process, past its recover, and ends the program.
Crashes(s) ==
    /\ at[s] = "stop"
    /\ consumer[s].source = None
    /\ at' = [at EXCEPT ![s] = "crashed"]
    /\ UNCHANGED <<streamVars, kind, closed, mode, transport, status, consumer, feeds, deaf, proxyVars>>

ClearsSource(s) ==
    /\ at[s] = "clear"
    /\ at' = [at EXCEPT ![s] = "stream"]
    /\ consumer' = [consumer EXCEPT ![s].source = None]
    /\ UNCHANGED <<streamVars, kind, closed, mode, transport, status, feeds, deaf, proxyVars>>

ToStream(s) == at[s] = "consumer" /\ at' = [at EXCEPT ![s] = "stream"]

\* The end of a WSP session: only its goroutine knows source and cid.
StopsWsp(s) ==
    /\ ToStream(s)
    /\ kind[s] = "wsp" /\ consumer[s].source # None
    /\ Stops(consumer[s].source, consumer[s].cid)
    /\ consumer' = [consumer EXCEPT ![s].closed = TRUE, ![s].source = None]
    /\ UNCHANGED <<registry, open, lastCid, owner, task, kind, closed, mode, transport,
                   status, feeds, deaf, proxyVars>>

\* of a multicast player.
CloseMember(s) ==
    /\ ToStream(s)
    /\ consumer[s].via = "multicast"
    /\ ReleaseMember(consumer[s].source, s)
    /\ consumer' = [consumer EXCEPT ![s].closed = TRUE, ![s].source = None]
    /\ UNCHANGED <<registry, open, lastCid, owner, task, kind, mode, transport, status,
                   feeds, deaf, pcid>>

\* of a session that does not play.
CloseNothing(s) ==
    /\ ToStream(s)
    /\ consumer[s] = NoConsumer
    /\ UNCHANGED <<streamVars, kind, closed, mode, transport, status, consumer, feeds, deaf, proxyVars>>

\* s.stream.Close(), the close of a WSP session, and the session is reset; what
\* its consumer was the goroutine of the consumption may still hold.
CloseFeed(s) ==
    /\ at[s] = "stream"
    /\ at' = [at EXCEPT ![s] = "ended"]
    /\ IF feeds[s] = None THEN UNCHANGED streamVars ELSE Unregist(feeds[s])
    /\ closed' = [closed EXCEPT ![s] = TRUE]
    /\ feeds' = [feeds EXCEPT ![s] = None]
    /\ status' = [status EXCEPT ![s] = "init"]
    /\ UNCHANGED <<kind, mode, transport, consumer, deaf, proxyVars>>

-----------------------------------------------------------------------------
Goroutine(t, n) ==
    \/ SendFails(t, n) \/ StoreClosed(t, n) \/ StopFailed(t, n) \/ StopPanics(t, n)
    \/ ClearSource(t, n) \/ WspSendFails(t, n) \/ TaskEnds(t, n) \/ TaskReleases(t, n)

Request(s) ==
    \/ Describe(s) \/ Announce(s)
    \/ \E m \in {"play", "record"}, v \in Via \ {"none"} : Setup(s, [mode |-> m, via |-> v])
    \/ \E t \in Stream : Record(s, t)
    \/ Play(s) \/ PlayRefused(s) \/ WspPlay(s)

Proceeds(s) ==
    \/ Starts(s) \/ Started(s) \/ Join(s)
    \/ ClosedLeaves(s) \/ TestClosed(s) \/ StoresClosed(s) \/ StopsConsumer(s) \/ Crashes(s)
    \/ ClearsSource(s) \/ StopsWsp(s) \/ CloseMember(s) \/ CloseNothing(s) \/ CloseFeed(s)

Next ==
    /\ \A s \in Session : at[s] # "crashed"
    /\ \/ \E t \in Stream :
            SourceStarts(t) \/ SourceEnds(t) \/ \E n \in Cid : Goroutine(t, n)
       \/ \E s \in Session : Accept(s) \/ Request(s) \/ ClientLeaves(s) \/ Proceeds(s)

Spec == Init /\ [][Next]_vars

-----------------------------------------------------------------------------
(* Properties.                                                             *)

\* What a session is never changes under its requests, whatever SETUP has
\* overwritten: a pusher announced itself, pushes over TCP and does not play; a
\* player described its stream and does not push.
RolesAgree ==
    \A s \in Session :
        /\ feeds[s] # None =>
             /\ mode[s] = "record" /\ transport[s].via = "tcp"
             /\ consumer[s] = NoConsumer
        /\ consumer[s].source # None => mode[s] = "play"

\* A session that has ended has no consumption of its own attached anywhere,
\* but for two cases.  Its failed send had closed the consumer and the goroutine
\* of the consumption is about to stop just that consumption; or that send came
\* before the consumer knew its cid, and the consumption stays until the stream
\* is closed (session_roles.go:245, :94).
EndedSessionIsDetached ==
    \A s \in Session : at[s] = "ended" =>
        \A t \in Stream : \A n \in attached[t] : owner[t][n] = s =>
            \/ deaf[s]
            \/ task[t][n] = "stop" /\ consumer[s].source = t /\ consumer[s].cid = n

\* While the path still leads to the stream it consumes, a proxy's consumption
\* is there for a member: the last one to leave stops it.
ProxyRunsForMembers ==
    registry # None =>
        \A n \in attached[registry] : owner[registry][n] \in Stream =>
            members[owner[registry][n]] # {}

\* Nobody's consumption is stopped by others while its stream is open, except
\* by a proxy that looks for its own on a stream that replaced its stream
\* (multicast_proxy.go:147): a session's consumption goes when the session, or
\* its failed send, closes the consumer.
StopsItsOwn ==
    [][\A t \in Stream : open'[t] = "open" =>
         \A n \in attached[t] \ attached'[t] : owner[t][n] \in Session =>
            \/ consumer'[owner[t][n]].closed
            \/ \E u \in Stream \ {t} : pclosed'[u] /\ ~pclosed[u]]_vars

\* multicast_proxy.go:157 "关闭所有的组播客户端" (close all multicast clients): when
\* a proxy has stopped, nobody who joined it is left playing.
ProxyCloseEndsClients ==
    \A s \in Session :
        /\ at[s] = "run" /\ status[s] = "playing" /\ consumer[s].via = "multicast"
        /\ pclosed[consumer[s].source]
        => closed[s]
=============================================================================
