------------------------- MODULE StreamCenter_proofs -------------------------
(***************************************************************************)
(* Proofs about the registry, for any streams on any paths, with any       *)
(* sources and viewers: a source that has ended leaves nothing behind, and *)
(* a stream that was replaced is not forgotten.                            *)
(*                                                                         *)
(* Both rest on what the path's entry and the variable `old` of Regist can *)
(* be: only a stream's own Regist stores it (StoredIsAlive), and what      *)
(* Regist found was once stored, hence created (FoundIsCreated).           *)
(***************************************************************************)
EXTENDS StreamCenter, TLAPS

\* A stream exists as soon as it has a source.
CreatedHasSource == \A s \in Stream : status[s] = "none" <=> source[s] = "none"

\* What a path leads to is a stream of that path, whose source has stored it
\* and has not come past its Delete.
StoredIsAlive ==
    \A p \in Path : registry[p] # None =>
        /\ PathOf[registry[p]] = p
        /\ source[registry[p]] \in {"stored", "closeOld", "running", "unregist", "delete"}

\* What Regist(s) found, if it found something.
FoundIsCreated ==
    \A s \in Stream :
        /\ source[s] \in {"none", "new"} => old[s] = None
        /\ source[s] \in {"stored", "closeOld"} => old[s] # None
        /\ old[s] # None => status[old[s]] # "none"

\* What Regist replaced is closed, or the task for it is posted: of use only to a
\* stream with a playlist.
TaskIsPosted ==
    \A s \in Stream : LET o == old[s] IN
        o # None /\ source[s] \notin {"loaded", "stored", "closeOld"} =>
            status[o] # "OK" \/ task[o]["Replaced"] # "none"

IInv ==
    /\ TypeOK
    /\ CreatedHasSource
    /\ StoredIsAlive
    /\ FoundIsCreated
    /\ EndedSourceLeavesNothing
    /\ TaskIsPosted

\* A viewer always has a stream, except when it is idle.
ViewersType ==
    /\ doing \in [Viewer -> {"idle", "creating", "got", "rtp", "flv"}]
    /\ of \in [Viewer -> Stream \cup {None}]
    /\ \A v \in Viewer : doing[v] = "idle" <=> of[v] = None

-----------------------------------------------------------------------------
(* Changes that several actions make.                                      *)

\* After CloseStream the stream is not open, and nothing else happened to the
\* streams.
LEMMA CloseStreamCloses ==
    ASSUME TypeOK, NEW s \in Stream, NEW st \in {"Closed", "Replaced"}, CloseStream(s, st)
    PROVE  /\ status' \in [Stream -> {"none", "OK", "Closed", "Replaced"}]
           /\ status'[s] # "OK"
           /\ \A u \in Stream : status'[u] = "OK" => status[u] = "OK"
           /\ \A u \in Stream : status'[u] = "none" <=> status[u] = "none"
           /\ ViewersType'
<1>1. CASE status[s] # "OK"
  <2>1. UNCHANGED <<status, viewerVars>>
    BY <1>1 DEF CloseStream
  <2> QED
    BY <1>1, <2>1 DEF TypeOK, ViewersType, viewerVars
<1>2. CASE status[s] = "OK"
  <2>1. status' = [status EXCEPT ![s] = st]
    BY <1>2 DEF CloseStream
  <2>2. PICK gone : /\ doing' = [v \in Viewer |-> IF v \in gone THEN "idle" ELSE doing[v]]
                    /\ of' = [v \in Viewer |-> IF v \in gone THEN None ELSE of[v]]
    BY <1>2 DEF CloseStream
  <2>3. ViewersType'
    BY <2>2 DEF TypeOK, ViewersType
  <2> QED
    BY <1>2, <2>1, <2>3 DEF TypeOK
<1> QED
  BY <1>1, <1>2

\* What the invariant says of the streams holds when streams close, as long as
\* neither registry, sources nor tasks change.
LEMMA ClosingKeepsInv ==
    ASSUME IInv, NEW s \in Stream, NEW st \in {"Closed", "Replaced"}, CloseStream(s, st),
           UNCHANGED <<registry, sourceVars, task, fresh>>
    PROVE  IInv'
<1>1. /\ status' \in [Stream -> {"none", "OK", "Closed", "Replaced"}]
      /\ \A u \in Stream : status'[u] = "OK" => status[u] = "OK"
      /\ \A u \in Stream : status'[u] = "none" <=> status[u] = "none"
      /\ ViewersType'
  BY CloseStreamCloses DEF IInv
<1>2. TypeOK'
  BY <1>1 DEF IInv, TypeOK, ViewersType, sourceVars
<1>3. CreatedHasSource' /\ StoredIsAlive' /\ FoundIsCreated'
  BY <1>1 DEF IInv, TypeOK, CreatedHasSource, StoredIsAlive, FoundIsCreated, sourceVars
<1>4. EndedSourceLeavesNothing' /\ TaskIsPosted'
  BY <1>1 DEF IInv, TypeOK, EndedSourceLeavesNothing, TaskIsPosted, sourceVars
<1> QED
  BY <1>2, <1>3, <1>4 DEF IInv

\* So it does when only viewers move.
LEMMA ViewersKeepInv ==
    ASSUME IInv, ViewersType', fresh' \in [Stream -> BOOLEAN],
           UNCHANGED <<registry, status, sourceVars>>,
           task' \in [Stream -> [Reason -> {"none", "armed", "closing"}]],
           \A s \in Stream : task[s]["Replaced"] # "none" => task'[s]["Replaced"] # "none"
    PROVE  IInv'
<1>1. TypeOK'
  BY DEF IInv, TypeOK, ViewersType, sourceVars
<1>2. CreatedHasSource' /\ StoredIsAlive' /\ FoundIsCreated' /\ EndedSourceLeavesNothing'
  BY DEF IInv, CreatedHasSource, StoredIsAlive, FoundIsCreated, EndedSourceLeavesNothing,
     sourceVars
<1>3. TaskIsPosted'
  BY DEF IInv, TypeOK, TaskIsPosted, sourceVars
<1> QED
  BY <1>1, <1>2, <1>3 DEF IInv

\* A stream that is created was found by nobody.
LEMMA CreateKeepsInv ==
    ASSUME IInv, NEW s \in Stream, Create(s), ViewersType', UNCHANGED <<registry, old, task>>
    PROVE  IInv'
<1>1. /\ status[s] = "none" /\ source[s] = "none" /\ old[s] = None
      /\ status'[s] = "OK" /\ source'[s] = "new"
      /\ \A u \in Stream \ {s} : status'[u] = status[u] /\ source'[u] = source[u]
  BY DEF IInv, TypeOK, CreatedHasSource, FoundIsCreated, Create
<1>2. TypeOK'
  BY DEF IInv, TypeOK, ViewersType, Create
<1>3. CreatedHasSource'
  BY <1>1 DEF IInv, CreatedHasSource
<1>4. StoredIsAlive'
  BY <1>1 DEF IInv, TypeOK, StoredIsAlive
<1>5. FoundIsCreated'
  BY <1>1 DEF IInv, TypeOK, FoundIsCreated
<1>6. EndedSourceLeavesNothing'
  BY <1>1 DEF IInv, EndedSourceLeavesNothing
<1>7. TaskIsPosted'
  BY <1>1 DEF IInv, TypeOK, FoundIsCreated, TaskIsPosted
<1> QED
  BY <1>2, <1>3, <1>4, <1>5, <1>6, <1>7 DEF IInv

\* The task that PostTask posts.
LEMMA PostTaskPosts ==
    ASSUME TypeOK, NEW s \in Stream, NEW r \in Reason, PostTask(s, r)
    PROVE  /\ task' \in [Stream -> [Reason -> {"none", "armed", "closing"}]]
           /\ task'[s][r] # "none"
           /\ \A u \in Stream, q \in Reason : task[u][q] # "none" => task'[u][q] # "none"
BY DEF TypeOK, PostTask

-----------------------------------------------------------------------------
(* The source of a stream.                                                 *)

\* Regist looks its path up: what it finds exists, and is not the stream itself.
LEMMA RegistLoadKeepsInv ==
    ASSUME IInv, NEW s \in Stream, RegistLoad(s)
    PROVE  IInv'
<1>1. PathOf[s] \in Path
  BY CenterAssumption
<1>2. /\ source[s] = "new" /\ source'[s] = "loaded" /\ old'[s] = registry[PathOf[s]]
      /\ \A u \in Stream \ {s} : source'[u] = source[u] /\ old'[u] = old[u]
  BY DEF IInv, TypeOK, RegistLoad
<1>3. TypeOK'
  BY <1>1 DEF IInv, TypeOK, RegistLoad, viewerVars
<1>4. old'[s] # None => status[old'[s]] # "none"
  BY <1>1, <1>2, CenterAssumption DEF IInv, TypeOK, StoredIsAlive, CreatedHasSource
<1>5. CreatedHasSource'
  BY <1>2 DEF IInv, CreatedHasSource, RegistLoad
<1>6. StoredIsAlive'
  BY <1>2 DEF IInv, TypeOK, StoredIsAlive, RegistLoad
<1>7. FoundIsCreated'
  BY <1>2, <1>4 DEF IInv, FoundIsCreated, RegistLoad
<1>8. EndedSourceLeavesNothing'
  BY <1>2 DEF IInv, EndedSourceLeavesNothing, RegistLoad
<1>9. TaskIsPosted'
  BY <1>2 DEF IInv, TaskIsPosted, RegistLoad
<1> QED
  BY <1>3, <1>5, <1>6, <1>7, <1>8, <1>9 DEF IInv

\* Regist stores the stream: the entry of its path is a stream of that path.
LEMMA RegistStoreKeepsInv ==
    ASSUME IInv, NEW s \in Stream, RegistStore(s)
    PROVE  IInv'
<1>1. PathOf[s] \in Path
  BY CenterAssumption
<1>2. /\ source[s] = "loaded"
      /\ source'[s] = IF old[s] = None THEN "running" ELSE "stored"
      /\ \A u \in Stream \ {s} : source'[u] = source[u]
      /\ registry'[PathOf[s]] = s
      /\ \A p \in Path \ {PathOf[s]} : registry'[p] = registry[p]
  BY <1>1 DEF IInv, TypeOK, RegistStore
<1>3. TypeOK'
  BY <1>1 DEF IInv, TypeOK, RegistStore, viewerVars
<1>4. CreatedHasSource' /\ FoundIsCreated'
  BY <1>2 DEF IInv, CreatedHasSource, FoundIsCreated, RegistStore
<1>5. StoredIsAlive'
  BY <1>2 DEF IInv, TypeOK, StoredIsAlive
<1>6. EndedSourceLeavesNothing' /\ TaskIsPosted'
  BY <1>2, CenterAssumption
  DEF IInv, EndedSourceLeavesNothing, TaskIsPosted, RegistStore
<1> QED
  BY <1>3, <1>4, <1>5, <1>6 DEF IInv

\* Regist leaves the stream it found to a task, or closes it next.
LEMMA RegistCountOldKeepsInv ==
    ASSUME IInv, NEW s \in Stream, RegistCountOld(s)
    PROVE  IInv'
<1>1. old[s] \in Stream
  BY DEF IInv, TypeOK, FoundIsCreated, RegistCountOld
<1>2. /\ source[s] = "stored"
      /\ source'[s] \in {"closeOld", "running"}
      /\ source' \in [Stream -> {"none", "new", "loaded", "stored", "closeOld",
                                 "running", "unregist", "delete", "close", "done"}]
      /\ \A u \in Stream \ {s} : source'[u] = source[u]
      /\ UNCHANGED <<registry, status, old, fresh, viewerVars>>
  BY DEF IInv, TypeOK, RegistCountOld
<1>3. /\ task' \in [Stream -> [Reason -> {"none", "armed", "closing"}]]
      /\ \A u \in Stream, q \in Reason : task[u][q] # "none" => task'[u][q] # "none"
      /\ source'[s] = "running" => task'[old[s]]["Replaced"] # "none"
  <2>1. CASE source'[s] = "closeOld" /\ UNCHANGED task
    BY <2>1 DEF IInv, TypeOK
  <2>2. CASE source'[s] = "running" /\ PostTask(old[s], "Replaced")
    BY <1>1, <2>2, PostTaskPosts DEF IInv, Reason
  <2> QED
    BY <2>1, <2>2 DEF IInv, TypeOK, RegistCountOld
<1>4. TypeOK'
  BY <1>2, <1>3 DEF IInv, TypeOK, viewerVars
<1>5. CreatedHasSource' /\ FoundIsCreated'
  BY <1>2 DEF IInv, CreatedHasSource, FoundIsCreated
<1>6. StoredIsAlive'
  BY <1>2 DEF IInv, TypeOK, StoredIsAlive
<1>7. EndedSourceLeavesNothing'
  BY <1>2 DEF IInv, EndedSourceLeavesNothing
<1>8. TaskIsPosted'
  BY <1>2, <1>3 DEF IInv, TypeOK, TaskIsPosted, Reason
<1> QED
  BY <1>4, <1>5, <1>6, <1>7, <1>8 DEF IInv

\* Regist closes the stream it found: that one is open no longer.
LEMMA RegistCloseOldKeepsInv ==
    ASSUME IInv, NEW s \in Stream, RegistCloseOld(s)
    PROVE  IInv'
<1>1. old[s] \in Stream
  BY DEF IInv, TypeOK, FoundIsCreated, RegistCloseOld
<1>2. /\ status' \in [Stream -> {"none", "OK", "Closed", "Replaced"}]
      /\ status'[old[s]] # "OK"
      /\ \A u \in Stream : status'[u] = "OK" => status[u] = "OK"
      /\ \A u \in Stream : status'[u] = "none" <=> status[u] = "none"
      /\ ViewersType'
  BY <1>1, CloseStreamCloses DEF IInv, RegistCloseOld
<1>3. /\ source[s] = "closeOld" /\ source'[s] = "running"
      /\ \A u \in Stream \ {s} : source'[u] = source[u]
      /\ UNCHANGED <<registry, old, task, fresh>>
  BY DEF IInv, TypeOK, RegistCloseOld
<1>4. TypeOK'
  BY <1>2 DEF IInv, TypeOK, ViewersType, RegistCloseOld
<1>5. CreatedHasSource' /\ FoundIsCreated'
  BY <1>2, <1>3 DEF IInv, TypeOK, CreatedHasSource, FoundIsCreated
<1>6. StoredIsAlive'
  BY <1>3 DEF IInv, TypeOK, StoredIsAlive
<1>7. EndedSourceLeavesNothing'
  BY <1>2, <1>3 DEF IInv, EndedSourceLeavesNothing
<1>8. TaskIsPosted'
  BY <1>2, <1>3 DEF IInv, TypeOK, TaskIsPosted
<1> QED
  BY <1>4, <1>5, <1>6, <1>7, <1>8 DEF IInv

\* A source that goes from "running" to its Unregist, and its look at the path.
LEMMA SourceStepKeepsInv ==
    ASSUME IInv, NEW s \in Stream, SourceFails(s) \/ SourceRefused(s) \/ UnregistLoad(s)
    PROVE  IInv'
<1>1. PathOf[s] \in Path
  BY CenterAssumption
<1>2. /\ source[s] \in {"running", "unregist"}
      /\ source'[s] \in {"unregist", "delete", "close"}
      /\ source'[s] = "close" => registry[PathOf[s]] # s
      /\ source' \in [Stream -> {"none", "new", "loaded", "stored", "closeOld",
                                 "running", "unregist", "delete", "close", "done"}]
      /\ \A u \in Stream \ {s} : source'[u] = source[u]
      /\ UNCHANGED <<registry, status, old, task, fresh, viewerVars>>
  BY DEF IInv, TypeOK, SourceFails, SourceRefused, UnregistLoad
<1>3. TypeOK'
  BY <1>2 DEF IInv, TypeOK, viewerVars
<1>4. CreatedHasSource' /\ FoundIsCreated'
  BY <1>2 DEF IInv, CreatedHasSource, FoundIsCreated
<1>5. StoredIsAlive'
  BY <1>2 DEF IInv, TypeOK, StoredIsAlive
<1>6. EndedSourceLeavesNothing' /\ TaskIsPosted'
  BY <1>2 DEF IInv, EndedSourceLeavesNothing, TaskIsPosted
<1> QED
  BY <1>3, <1>4, <1>5, <1>6 DEF IInv

\* Delete clears the path, whoever is stored there by then.
LEMMA UnregistDeleteKeepsInv ==
    ASSUME IInv, NEW s \in Stream, UnregistDelete(s)
    PROVE  IInv'
<1>1. PathOf[s] \in Path
  BY CenterAssumption
<1>2. /\ source[s] = "delete" /\ source'[s] = "close"
      /\ \A u \in Stream \ {s} : source'[u] = source[u]
      /\ registry'[PathOf[s]] = None
      /\ \A p \in Path \ {PathOf[s]} : registry'[p] = registry[p]
  BY <1>1 DEF IInv, TypeOK, UnregistDelete
<1>3. TypeOK'
  BY <1>1 DEF IInv, TypeOK, UnregistDelete, viewerVars
<1>4. CreatedHasSource' /\ FoundIsCreated'
  BY <1>2 DEF IInv, CreatedHasSource, FoundIsCreated, UnregistDelete
<1>5. StoredIsAlive'
  BY <1>2 DEF IInv, TypeOK, StoredIsAlive
<1>6. \A u \in Stream : PathOf[u] \in Path /\ u # None
  BY CenterAssumption
<1>7. EndedSourceLeavesNothing' /\ TaskIsPosted'
  BY <1>2, <1>6 DEF IInv, EndedSourceLeavesNothing, TaskIsPosted, UnregistDelete
<1> QED
  BY <1>3, <1>4, <1>5, <1>7 DEF IInv

\* The stream of a source that ends is closed, and was not stored any more.
LEMMA UnregistCloseKeepsInv ==
    ASSUME IInv, NEW s \in Stream, UnregistClose(s)
    PROVE  IInv'
<1>1. PathOf[s] \in Path /\ s # None
  BY CenterAssumption
<1>2. /\ status' \in [Stream -> {"none", "OK", "Closed", "Replaced"}]
      /\ status'[s] # "OK"
      /\ \A u \in Stream : status'[u] = "OK" => status[u] = "OK"
      /\ \A u \in Stream : status'[u] = "none" <=> status[u] = "none"
      /\ ViewersType'
  BY CloseStreamCloses DEF IInv, UnregistClose
<1>3. /\ source[s] = "close" /\ source'[s] = "done"
      /\ \A u \in Stream \ {s} : source'[u] = source[u]
      /\ UNCHANGED <<registry, old, task, fresh>>
  BY DEF IInv, TypeOK, UnregistClose
<1>4. TypeOK'
  BY <1>2 DEF IInv, TypeOK, ViewersType, UnregistClose
<1>5. CreatedHasSource' /\ FoundIsCreated'
  BY <1>2, <1>3 DEF IInv, TypeOK, CreatedHasSource, FoundIsCreated
<1>6. StoredIsAlive'
  BY <1>3 DEF IInv, TypeOK, StoredIsAlive
<1>7. registry[PathOf[s]] # s
  BY <1>1, <1>3 DEF IInv, StoredIsAlive
<1>8. EndedSourceLeavesNothing'
  BY <1>2, <1>3, <1>7 DEF IInv, EndedSourceLeavesNothing
<1>9. TaskIsPosted'
  BY <1>2, <1>3 DEF IInv, TypeOK, TaskIsPosted
<1> QED
  BY <1>4, <1>5, <1>6, <1>8, <1>9 DEF IInv

-----------------------------------------------------------------------------
(* Viewers and the task.                                                   *)

\* A viewer gets a stream, attaches to it or leaves it, and a pull client's
\* Create returns.
LEMMA ViewerStepKeepsInv ==
    ASSUME IInv, NEW v \in Viewer,
           \/ \E p \in Path : Get(v, p)
           \/ PullOpened(v) \/ PullGone(v) \/ Leave(v)
           \/ \E kind \in {"rtp", "flv"} : Attach(v, kind)
    PROVE  IInv'
<1>1. CASE \E p \in Path : Get(v, p)
  <2>1. PICK p \in Path : Get(v, p)
    BY <1>1
  <2>2. registry[p] \in Stream
    BY <2>1 DEF IInv, TypeOK, Get
  <2>3. ViewersType'
    BY <2>1, <2>2, CenterAssumption DEF IInv, TypeOK, ViewersType, Get
  <2> QED
    BY <2>1, <2>3, ViewersKeepInv DEF IInv, TypeOK, Get
<1>2. CASE PullOpened(v)
  <2>1. of[v] \in Stream
    BY <1>2 DEF IInv, TypeOK, PullOpened
  <2>2. ViewersType'
    BY <1>2 DEF IInv, TypeOK, ViewersType, PullOpened
  <2>3. /\ task' \in [Stream -> [Reason -> {"none", "armed", "closing"}]]
        /\ \A u \in Stream : task[u]["Replaced"] # "none" => task'[u]["Replaced"] # "none"
    <3>1. CASE UNCHANGED task
      BY <3>1 DEF IInv, TypeOK
    <3>2. CASE PostTask(of[v], "NoConsumer")
      BY <2>1, <3>2, PostTaskPosts DEF IInv, Reason
    <3> QED
      BY <1>2, <3>1, <3>2 DEF PullOpened
  <2> QED
    BY <1>2, <2>2, <2>3, ViewersKeepInv DEF IInv, TypeOK, PullOpened
<1>3. CASE PullGone(v)
  <2>1. ViewersType'
    BY <1>3 DEF IInv, TypeOK, ViewersType, PullGone
  <2> QED
    BY <1>3, <2>1, ViewersKeepInv DEF IInv, TypeOK, PullGone
<1>4. CASE Leave(v)
  <2>1. ViewersType'
    BY <1>4 DEF IInv, TypeOK, ViewersType, Leave
  <2>2. fresh' \in [Stream -> BOOLEAN]
    BY <1>4 DEF IInv, TypeOK, Leave
  <2> QED
    BY <1>4, <2>1, <2>2, ViewersKeepInv DEF IInv, TypeOK, Leave
<1>5. CASE \E kind \in {"rtp", "flv"} : Attach(v, kind)
  <2>1. PICK kind \in {"rtp", "flv"} : Attach(v, kind)
    BY <1>5
  <2>2. ViewersType'
    BY <2>1 DEF IInv, TypeOK, ViewersType, Attach
  <2> QED
    BY <2>1, <2>2, ViewersKeepInv DEF IInv, TypeOK, Attach
<1> QED
  BY <1>1, <1>2, <1>3, <1>4, <1>5

\* A stream is created by a pusher, or by the pull client of a viewer.
LEMMA CreationKeepsInv ==
    ASSUME IInv, NEW s \in Stream, StartPusher(s) \/ \E v \in Viewer : OpenPull(v, s)
    PROVE  IInv'
<1>1. CASE StartPusher(s)
  <2>1. ViewersType'
    BY <1>1 DEF IInv, TypeOK, ViewersType, StartPusher, viewerVars
  <2> QED
    BY <1>1, <2>1, CreateKeepsInv DEF StartPusher
<1>2. CASE \E v \in Viewer : OpenPull(v, s)
  <2>1. PICK v \in Viewer : OpenPull(v, s)
    BY <1>2
  <2>2. ViewersType'
    BY <2>1, CenterAssumption DEF IInv, TypeOK, ViewersType, OpenPull
  <2> QED
    BY <2>1, <2>2, CreateKeepsInv DEF OpenPull
<1> QED
  BY <1>1, <1>2

\* Time passes, and a task decides.
LEMMA TaskDecisionKeepsInv ==
    ASSUME IInv, NEW s \in Stream, FiveMinutesPass(s) \/ \E r \in Reason : RunTask(s, r)
    PROVE  IInv'
<1>1. UNCHANGED <<registry, status, sourceVars>> /\ ViewersType'
  BY DEF IInv, TypeOK, ViewersType, FiveMinutesPass, RunTask, viewerVars
<1>2. fresh' \in [Stream -> BOOLEAN]
  BY DEF IInv, TypeOK, FiveMinutesPass, RunTask
<1>3. /\ task' \in [Stream -> [Reason -> {"none", "armed", "closing"}]]
      /\ \A u \in Stream : task[u]["Replaced"] # "none" => task'[u]["Replaced"] # "none"
  <2>1. CASE UNCHANGED task
    BY <2>1 DEF IInv, TypeOK
  <2>2. ASSUME NEW r \in Reason, task' = [task EXCEPT ![s][r] = "closing"]
        PROVE  <1>3
    <3>1. task' \in [Stream -> [Reason -> {"none", "armed", "closing"}]]
      BY <2>2 DEF IInv, TypeOK
    <3>2. ASSUME NEW u \in Stream PROVE task'[u]["Replaced"] \in {task[u]["Replaced"], "closing"}
      BY <2>2 DEF IInv, TypeOK, Reason
    <3> QED
      BY <3>1, <3>2
  <2> QED
    BY <2>1, <2>2 DEF FiveMinutesPass, RunTask
<1> QED
  BY <1>1, <1>2, <1>3, ViewersKeepInv

\* A task is over when its stream is closed.
LEMMA TaskClosesKeepsInv ==
    ASSUME IInv, NEW s \in Stream, NEW r \in Reason, TaskCloses(s, r)
    PROVE  IInv'
<1>1. /\ status' \in [Stream -> {"none", "OK", "Closed", "Replaced"}]
      /\ status'[s] # "OK"
      /\ \A u \in Stream : status'[u] = "OK" => status[u] = "OK"
      /\ \A u \in Stream : status'[u] = "none" <=> status[u] = "none"
      /\ ViewersType'
  BY CloseStreamCloses DEF IInv, TaskCloses
<1>2. /\ \A u \in Stream \ {s} : task'[u] = task[u]
      /\ task' \in [Stream -> [Reason -> {"none", "armed", "closing"}]]
      /\ UNCHANGED <<registry, source, old, fresh>>
  BY DEF IInv, TypeOK, TaskCloses, sourceVars
<1>3. TypeOK'
  BY <1>1, <1>2 DEF IInv, TypeOK, ViewersType
<1>4. CreatedHasSource' /\ StoredIsAlive' /\ FoundIsCreated'
  BY <1>1, <1>2 DEF IInv, TypeOK, CreatedHasSource, StoredIsAlive, FoundIsCreated
<1>5. EndedSourceLeavesNothing'
  BY <1>1, <1>2 DEF IInv, EndedSourceLeavesNothing
<1>6. TaskIsPosted'
  <2>1. ASSUME NEW u \in Stream, old'[u] # None,
               source'[u] \notin {"loaded", "stored", "closeOld"}
        PROVE  status'[old'[u]] # "OK" \/ task'[old'[u]]["Replaced"] # "none"
    <3>1. old[u] \in Stream /\ old'[u] = old[u] /\ source'[u] = source[u]
      BY <1>2, <2>1 DEF IInv, TypeOK
    <3>2. status[old[u]] # "OK" \/ task[old[u]]["Replaced"] # "none"
      BY <2>1, <3>1 DEF IInv, TaskIsPosted
    <3> QED
      BY <1>1, <1>2, <3>1, <3>2
  <2> QED
    BY <2>1 DEF TaskIsPosted
<1> QED
  BY <1>3, <1>4, <1>5, <1>6 DEF IInv

\* The API closes the stream of a path.
LEMMA StopStreamKeepsInv ==
    ASSUME IInv, NEW p \in Path, StopStream(p)
    PROVE  IInv'
<1>1. registry[p] \in Stream
  BY DEF IInv, TypeOK, StopStream
<1> QED
  BY <1>1, ClosingKeepsInv DEF StopStream

-----------------------------------------------------------------------------
\* At first there is no stream.
LEMMA InitHasInv == Init => IInv
BY CenterAssumption
DEF Init, IInv, TypeOK, CreatedHasSource, StoredIsAlive, FoundIsCreated,
    EndedSourceLeavesNothing, TaskIsPosted, Reason

\* Every step of a source, a viewer, the API or a task keeps the invariant.
LEMMA NextKeepsInv == IInv /\ [Next]_vars => IInv'
<1> SUFFICES ASSUME IInv, [Next]_vars PROVE IInv'
  OBVIOUS
<1>1. ASSUME NEW s \in Stream, StartPusher(s) \/ \E v \in Viewer : OpenPull(v, s)
      PROVE  IInv'
  BY <1>1, CreationKeepsInv
<1>2. ASSUME NEW s \in Stream, Sourcing(s) PROVE IInv'
  BY <1>2, RegistLoadKeepsInv, RegistStoreKeepsInv, RegistCountOldKeepsInv,
     RegistCloseOldKeepsInv, SourceStepKeepsInv, UnregistDeleteKeepsInv, UnregistCloseKeepsInv
  DEF Sourcing
<1>3. ASSUME NEW s \in Stream, SourceFails(s) PROVE IInv'
  BY <1>3, SourceStepKeepsInv
<1>4. ASSUME NEW s \in Stream, FiveMinutesPass(s) \/ \E r \in Reason : RunTask(s, r)
      PROVE  IInv'
  BY <1>4, TaskDecisionKeepsInv
<1>5. ASSUME NEW s \in Stream, NEW r \in Reason, TaskCloses(s, r) PROVE IInv'
  BY <1>5, TaskClosesKeepsInv
<1>6. ASSUME NEW v \in Viewer,
             \/ \E p \in Path : Get(v, p)
             \/ PullOpened(v) \/ PullGone(v) \/ Leave(v)
             \/ \E kind \in {"rtp", "flv"} : Attach(v, kind)
      PROVE  IInv'
  BY <1>6, ViewerStepKeepsInv
<1>7. ASSUME NEW p \in Path, StopStream(p) PROVE IInv'
  BY <1>7, StopStreamKeepsInv
<1>8. CASE UNCHANGED vars
  BY <1>8 DEF vars, sourceVars, viewerVars, IInv, TypeOK, CreatedHasSource, StoredIsAlive,
     FoundIsCreated, EndedSourceLeavesNothing, TaskIsPosted
<1> QED
  BY <1>1, <1>2, <1>3, <1>4, <1>5, <1>6, <1>7, <1>8 DEF Next

\* The invariant of the registry holds in every reachable state.
THEOREM InvariantHolds == Spec => []IInv
<1> QED
  BY InitHasInv, NextKeepsInv, PTL DEF Spec

\* Registry, streams, sources, tasks and viewers keep their types
\* (media/global.go), and a viewer holds a stream unless it is idle.
THEOREM TypeCorrect == Spec => []TypeOK
<1>1. IInv => TypeOK
  BY DEF IInv
<1> QED
  BY <1>1, InvariantHolds, PTL

\* When the goroutine of a source has come through Unregist (media/global.go),
\* its stream is closed and no path leads to it, although Regist and Unregist
\* are each two accesses to the map that others may come between.
THEOREM EndedSourcesLeaveNothing == Spec => []EndedSourceLeavesNothing
<1>1. IInv => EndedSourceLeavesNothing
  BY DEF IInv
<1> QED
  BY <1>1, InvariantHolds, PTL

\* As long as a stream that Regist (media/global.go) replaced is open, whatever
\* else happened to its path, its own source has not ended and will close it;
\* and if it has a playlist, the task that closes it once nobody uses it is
\* still posted, however often it ran while the stream was in use.
THEOREM ReplacedAreNotForgotten == Spec => []ReplacedIsNotForgotten
<1>1. IInv => ReplacedIsNotForgotten
  <2> SUFFICES ASSUME IInv, NEW o \in Stream, Superseded(o), status[o] = "OK"
               PROVE  source[o] # "done" /\ task[o]["Replaced"] # "none"
    BY DEF ReplacedIsNotForgotten
  <2>1. source[o] # "done"
    BY DEF IInv, EndedSourceLeavesNothing
  <2>2. PICK s \in Stream : old[s] = o /\ source[s] \notin {"loaded", "stored", "closeOld"}
    BY DEF Superseded
  <2>3. old[s] # None
    BY <2>2, CenterAssumption
  <2> QED
    BY <2>1, <2>2, <2>3 DEF IInv, TaskIsPosted
<1> QED
  BY <1>1, InvariantHolds, PTL
=============================================================================
