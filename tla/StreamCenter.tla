---------------------------- MODULE StreamCenter ----------------------------
(***************************************************************************)
(* The registry of streams (media/global.go): which stream a path leads to,*)
(* who registers, replaces, removes and closes streams, and the task that  *)
(* closes a stream without consumers.                                      *)
(*                                                                         *)
(* Every stream has one source, a goroutine of its own: a pull client that *)
(* GetOrCreate opened (Pulled), or the RTSP session of a pusher.  The      *)
(* source registers its stream, writes packs until an error, then          *)
(* unregisters.  Regist and Unregist are a load and then a store or a      *)
(* delete of a sync.Map, with nothing that holds the two together.         *)
(* Viewers get a stream from GetOrCreate and attach to it later.           *)
(*                                                                         *)
(* One stream's close, its counters and consumptions are one step here;    *)
(* module MediaStream has them in detail.                                  *)
(***************************************************************************)
EXTENDS Integers, FiniteSets

CONSTANTS
    Stream,      \* the streams ever created
    Path, PathOf,\* the paths, and the path of each stream
    Pulled,      \* the streams a pull client may feed
    Pushed,      \* the streams an RTSP pusher may feed
    KeepAlive,   \* the pulled streams whose route says keepalive
    Hls,         \* the streams that have an HLS playlist (H264 video)
    Viewer,      \* the goroutines that serve viewers
    None         \* no stream

ASSUME CenterAssumption ==
    /\ PathOf \in [Stream -> Path]
    /\ KeepAlive \subseteq Pulled
    /\ Pulled \subseteq Stream /\ Pushed \subseteq Stream /\ Hls \subseteq Stream
    /\ None \notin Stream

\* Why a runZeroConsumersClose task was posted.
Reason == {"NoConsumer", "Replaced"}

VARIABLES
    registry,  \* registry[p]: the stream stored under path p
    status,    \* Stream.status, "none" before the stream is created
    source,    \* source[s]: progress of the goroutine that feeds s
    old,       \* old[s]: the stream Regist(s) found under the path of s
    task,      \* task[s][r]: the task posted for s with reason r
    fresh,     \* fresh[s]: the playlist of s was read in the last 5 minutes
    doing,     \* doing[v]: progress of viewer v
    of         \* of[v]: the stream v got

sourceVars == <<source, old>>
viewerVars == <<doing, of>>
vars == <<registry, status, sourceVars, task, fresh, viewerVars>>

TypeOK ==
    /\ registry \in [Path -> Stream \cup {None}]
    /\ status \in [Stream -> {"none", "OK", "Closed", "Replaced"}]
    /\ source \in [Stream -> {"none", "new", "loaded", "stored", "closeOld",
                              "running", "unregist", "delete", "close", "done"}]
    /\ old \in [Stream -> Stream \cup {None}]
    /\ task \in [Stream -> [Reason -> {"none", "armed", "closing"}]]
    /\ fresh \in [Stream -> BOOLEAN]
    /\ doing \in [Viewer -> {"idle", "creating", "got", "rtp", "flv"}]
    /\ of \in [Viewer -> Stream \cup {None}]
    /\ \A v \in Viewer : doing[v] = "idle" <=> of[v] = None

Init ==
    /\ registry = [p \in Path |-> None]
    /\ status = [s \in Stream |-> "none"]
    /\ source = [s \in Stream |-> "none"]
    /\ old = [s \in Stream |-> None]
    /\ task = [s \in Stream |-> [r \in Reason |-> "none"]]
    /\ fresh = [s \in Stream |-> FALSE]
    /\ doing = [v \in Viewer |-> "idle"]
    /\ of = [v \in Viewer |-> None]

Consumers(s, kind) == {v \in Viewer : of[v] = s /\ doing[v] = kind}
ConsumerCount(s)   == Cardinality(Consumers(s, "rtp") \cup Consumers(s, "flv"))

\* Stream.close: the first one wins, its consumers are disconnected.
CloseStream(s, st) ==
    IF status[s] # "OK" THEN UNCHANGED <<status, viewerVars>>
    ELSE LET gone == Consumers(s, "rtp") \cup Consumers(s, "flv") IN
         /\ status' = [status EXCEPT ![s] = st]
         /\ doing' = [v \in Viewer |-> IF v \in gone THEN "idle" ELSE doing[v]]
         /\ of' = [v \in Viewer |-> IF v \in gone THEN None ELSE of[v]]

PostTask(s, r) == task' = [task EXCEPT ![s][r] = IF @ = "none" THEN "armed" ELSE @]

\* NewStream: the playlist starts with a fresh access time.
Create(s) ==
    /\ status[s] = "none"
    /\ status' = [status EXCEPT ![s] = "OK"]
    /\ source' = [source EXCEPT ![s] = "new"]
    /\ fresh' = [fresh EXCEPT ![s] = s \in Hls]

-----------------------------------------------------------------------------
(* The source of stream s: Regist, the packs, Unregist.                    *)

\* asTCPPusher, on the RECORD request of a session.
StartPusher(s) ==
    /\ s \in Pushed
    /\ Create(s)
    /\ UNCHANGED <<registry, old, task, viewerVars>>

RegistLoad(s) ==
    /\ source[s] = "new"
    /\ source' = [source EXCEPT ![s] = "loaded"]
    /\ old' = [old EXCEPT ![s] = registry[PathOf[s]]]
    /\ UNCHANGED <<registry, status, task, fresh, viewerVars>>

RegistStore(s) ==
    /\ source[s] = "loaded"
    /\ source' = [source EXCEPT ![s] = IF old[s] = None THEN "running" ELSE "stored"]
    /\ registry' = [registry EXCEPT ![PathOf[s]] = s]
    /\ UNCHANGED <<status, old, task, fresh, viewerVars>>

\* Mutant of RegistCountOld: a stream with consumers is left to itself.
RegistForgetsOld(s) ==
    /\ source[s] = "stored"
    /\ source' = [source EXCEPT ![s] = IF ConsumerCount(old[s]) =< 0
                                         THEN "closeOld" ELSE "running"]
    /\ UNCHANGED <<registry, status, old, task, fresh, viewerVars>>

\* The stream found before is closed at once, or left to a task.
RegistCountOld(s) ==
    /\ source[s] = "stored"
    /\ IF ConsumerCount(old[s]) =< 0
         THEN /\ source' = [source EXCEPT ![s] = "closeOld"]
              /\ UNCHANGED task
         ELSE /\ source' = [source EXCEPT ![s] = "running"]
              /\ PostTask(old[s], "Replaced")
    /\ UNCHANGED <<registry, status, old, fresh, viewerVars>>

RegistCloseOld(s) ==
    /\ source[s] = "closeOld"
    /\ source' = [source EXCEPT ![s] = "running"]
    /\ CloseStream(old[s], "Replaced")
    /\ UNCHANGED <<registry, old, task, fresh>>

\* The remote end goes away, or a read times out.
SourceFails(s) ==
    /\ source[s] = "running"
    /\ source' = [source EXCEPT ![s] = "unregist"]
    /\ UNCHANGED <<registry, status, old, task, fresh, viewerVars>>

\* Mutant of SourceRefused: only a closed stream refuses packs.
RefusedIfClosed(s) ==
    /\ source[s] = "running"
    /\ status[s] = "Closed"
    /\ source' = [source EXCEPT ![s] = "unregist"]
    /\ UNCHANGED <<registry, status, old, task, fresh, viewerVars>>

\* WriteRtpPacket of the next pack returns the error of the status.
SourceRefused(s) ==
    /\ source[s] = "running"
    /\ status[s] # "OK"
    /\ source' = [source EXCEPT ![s] = "unregist"]
    /\ UNCHANGED <<registry, status, old, task, fresh, viewerVars>>

\* Mutant of UnregistLoad: only the close, no Delete.
UnregistOnlyCloses(s) ==
    /\ source[s] = "unregist"
    /\ source' = [source EXCEPT ![s] = "close"]
    /\ UNCHANGED <<registry, status, old, task, fresh, viewerVars>>

UnregistLoad(s) ==
    /\ source[s] = "unregist"
    /\ source' = [source EXCEPT ![s] = IF registry[PathOf[s]] = s THEN "delete" ELSE "close"]
    /\ UNCHANGED <<registry, status, old, task, fresh, viewerVars>>

\* streams.Delete(s.path), whatever the path leads to by now.
UnregistDelete(s) ==
    /\ source[s] = "delete"
    /\ source' = [source EXCEPT ![s] = "close"]
    /\ registry' = [registry EXCEPT ![PathOf[s]] = None]
    /\ UNCHANGED <<status, old, task, fresh, viewerVars>>

UnregistClose(s) ==
    /\ source[s] = "close"
    /\ source' = [source EXCEPT ![s] = "done"]
    /\ CloseStream(s, "Closed")
    /\ UNCHANGED <<registry, old, task, fresh>>

-----------------------------------------------------------------------------
(* Viewers.                                                                *)

\* GetOrCreate finds the stream.
Get(v, p) ==
    /\ doing[v] = "idle"
    /\ registry[p] # None
    /\ doing' = [doing EXCEPT ![v] = "got"]
    /\ of' = [of EXCEPT ![v] = registry[p]]
    /\ UNCHANGED <<registry, status, sourceVars, task, fresh>>

\* GetOrCreate finds none: a pull client opens s and starts its goroutine,
\* which registers s in its own time.
OpenPull(v, s) ==
    /\ doing[v] = "idle"
    /\ s \in Pulled
    /\ registry[PathOf[s]] = None
    /\ Create(s)
    /\ doing' = [doing EXCEPT ![v] = "creating"]
    /\ of' = [of EXCEPT ![v] = s]
    /\ UNCHANGED <<registry, old, task>>

\* Create returns; without keepalive the task is posted.
PullOpened(v) ==
    /\ doing[v] = "creating"
    /\ doing' = [doing EXCEPT ![v] = "got"]
    /\ IF of[v] \in KeepAlive THEN UNCHANGED task ELSE PostTask(of[v], "NoConsumer")
    /\ UNCHANGED <<registry, status, sourceVars, fresh, of>>

\* client.stream was set to nil by the goroutine that ended: no stream.
PullGone(v) ==
    /\ doing[v] = "creating"
    /\ source[of[v]] = "done"
    /\ doing' = [doing EXCEPT ![v] = "idle"]
    /\ of' = [of EXCEPT ![v] = None]
    /\ UNCHANGED <<registry, status, sourceVars, task, fresh>>

\* StartConsume, on whatever has become of the stream since.
Attach(v, kind) ==
    /\ doing[v] = "got"
    /\ doing' = [doing EXCEPT ![v] = kind]
    /\ UNCHANGED <<registry, status, sourceVars, task, fresh, of>>

\* StopConsume, or a request that reads a playlist and is over.
Leave(v) ==
    /\ doing[v] \in {"got", "rtp", "flv"}
    /\ doing' = [doing EXCEPT ![v] = "idle"]
    /\ of' = [of EXCEPT ![v] = None]
    /\ fresh' \in IF doing[v] = "got" /\ of[v] \in Hls
                    THEN {fresh, [fresh EXCEPT ![of[v]] = TRUE]} ELSE {fresh}
    /\ UNCHANGED <<registry, status, sourceVars, task>>

\* DELETE /api/v1/streams/{path}: closes the stream, leaves it registered.
StopStream(p) ==
    /\ registry[p] # None
    /\ CloseStream(registry[p], "Closed")
    /\ UNCHANGED <<registry, sourceVars, task, fresh>>

-----------------------------------------------------------------------------
(* The task.                                                               *)

FiveMinutesPass(s) ==
    /\ fresh[s]
    /\ fresh' = [fresh EXCEPT ![s] = FALSE]
    /\ UNCHANGED <<registry, status, sourceVars, task, viewerVars>>

\* Mutant of RunTask: the age of the last access compared the wrong way round.
RunTaskWhenFresh(s, r) ==
    /\ task[s][r] = "armed"
    /\ Consumers(s, "rtp") = {}
    /\ s \in Hls
    /\ fresh[s]
    /\ task' = [task EXCEPT ![s][r] = "closing"]
    /\ UNCHANGED <<registry, status, sourceVars, fresh, viewerVars>>

\* run: it looks at the RTP consumers and at the playlist.  Hlsable() of a
\* stream without a playlist is not nil (it holds a nil *Playlist), so
\* LastAccessTime panics: the run ends there and the task stays posted.
RunTask(s, r) ==
    /\ task[s][r] = "armed"
    /\ Consumers(s, "rtp") = {}
    /\ s \in Hls
    /\ ~fresh[s]
    /\ task' = [task EXCEPT ![s][r] = "closing"]
    /\ UNCHANGED <<registry, status, sourceVars, fresh, viewerVars>>

\* Mutant of TaskCloses: the reason is stored as the status.
TaskStoresReason(s, r) ==
    /\ task[s][r] = "closing"
    /\ task' = [task EXCEPT ![s][r] = "none"]
    /\ CloseStream(s, r)
    /\ UNCHANGED <<registry, sourceVars, fresh>>

TaskCloses(s, r) ==
    /\ task[s][r] = "closing"
    /\ task' = [task EXCEPT ![s][r] = "none"]
    /\ CloseStream(s, IF r = "Replaced" THEN "Replaced" ELSE "Closed")
    /\ UNCHANGED <<registry, sourceVars, fresh>>

-----------------------------------------------------------------------------
Sourcing(s) == \/ RegistLoad(s) \/ RegistStore(s) \/ RegistCountOld(s)
               \/ RegistCloseOld(s) \/ SourceRefused(s)
               \/ UnregistLoad(s) \/ UnregistDelete(s) \/ UnregistClose(s)

Next ==
    \/ \E s \in Stream :
          \/ StartPusher(s) \/ Sourcing(s) \/ SourceFails(s) \/ FiveMinutesPass(s)
          \/ \E r \in Reason : RunTask(s, r) \/ TaskCloses(s, r)
          \/ \E v \in Viewer : OpenPull(v, s)
    \/ \E v \in Viewer :
          \/ \E p \in Path : Get(v, p)
          \/ PullOpened(v) \/ PullGone(v) \/ Leave(v)
          \/ \E kind \in {"rtp", "flv"} : Attach(v, kind)
    \/ \E p \in Path : StopStream(p)

Spec == Init /\ [][Next]_vars

(***************************************************************************)
(* Fairness: goroutines run, the next pack of a running source comes (or   *)
(* its read times out), time passes and the scheduler runs posted tasks.   *)
(* No viewer is obliged to come or to leave.                               *)
(***************************************************************************)
Fairness ==
    \A s \in Stream :
        /\ WF_vars(Sourcing(s))
        /\ WF_vars(FiveMinutesPass(s))
        /\ \A r \in Reason : WF_vars(RunTask(s, r)) /\ WF_vars(TaskCloses(s, r))

FairSpec == Spec /\ Fairness

-----------------------------------------------------------------------------
(* Properties.                                                             *)

(* When a source has ended, its stream is closed and no path leads to it,  *)
(* whoever registers, replaces or unregisters on the same path meanwhile.  *)
EndedSourceLeavesNothing ==
    \A s \in Stream : source[s] = "done" =>
        status[s] # "OK" /\ registry[PathOf[s]] # s

\* A Regist found o under its path, and is done with it.
Superseded(o) ==
    \E s \in Stream : old[s] = o /\ source[s] \notin {"loaded", "stored", "closeOld"}

(* A stream that Regist found under its path and replaced is not forgotten:*)
(* as long as it is open its own source has not ended, and will close it;  *)
(* and when it has a playlist, the task that closes it once nobody uses it *)
(* stays posted.  Without a playlist the task is posted for nothing: its   *)
(* run panics, whether the stream is used or not.                          *)
ReplacedIsNotForgotten ==
    \A o \in Stream : Superseded(o) /\ status[o] = "OK" =>
        /\ source[o] # "done"
        /\ o \in Hls => task[o]["Replaced"] # "none"

(* A replaced stream with a playlist does not stay open for ever with      *)
(* nobody consuming it and nobody reading its playlist, though its source  *)
(* goes on; two pull clients that viewers of one path opened included.     *)
LeftOver(o) == /\ Superseded(o) /\ o \in Hls /\ status[o] = "OK"
               /\ ConsumerCount(o) = 0 /\ ~fresh[o]
ReplacedStreamCloses == \A o \in Stream : []<>~LeftOver(o)

(* The task decides to close a stream only when nobody consumes it.        *)
TaskSparesConsumers ==
    [][\A s \in Stream : \A r \in Reason :
          task[s][r] = "armed" /\ task'[s][r] = "closing" => ConsumerCount(s) = 0]_vars

(* Closing a stream reaches its source: it stops, and unregisters.         *)
ClosedStreamLosesSource ==
    \A s \in Stream : status[s] \in {"Closed", "Replaced"} ~> source[s] = "done"

(* A pulled stream without keepalive does not stay open for ever with      *)
(* nobody consuming it and nobody reading its playlist.                    *)
Abandoned(s) == /\ status[s] = "OK" /\ task[s]["NoConsumer"] # "none"
                /\ ConsumerCount(s) = 0 /\ ~fresh[s]
AbandonedStreamCloses == \A s \in Stream : []<>~Abandoned(s)
=============================================================================
