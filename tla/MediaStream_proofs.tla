------------------------ MODULE MediaStream_proofs ------------------------
(***************************************************************************)
(* Theorems about module MediaStream, for every number of consumptions,    *)
(* callers of StopConsume and callers of close.                            *)
(*                                                                         *)
(* The inductive invariant is TypeOK /\ DetachInv /\ NoLostConsumption /\  *)
(* ClosingIsDecided /\ CountCoversConsumers.  DetachInv ties the progress  *)
(* of a goroutine and of a removal to the collection; ClosingIsDecided     *)
(* says that a close reaches the collections on a closed stream only, so   *)
(* that it cannot disturb the count of an open one.                        *)
(***************************************************************************)
EXTENDS MediaStream, FiniteSetTheorems, TLAPS

(* A goroutine exists only for a consumption that was counted. *)
NotRunningIsOff ==
    \A c \in Consumption : starting[c] # "running" => consuming[c] = "off"

(* Only what was stored is registered. *)
RegisteredIsStored ==
    \A c \in registered : starting[c] \in {"stored", "running"}

(* A removal in progress is about a consumption that was stored; once past *)
(* the Delete, that consumption is in no collection.                       *)
RemovalsHaveTargets ==
    \A t \in Thread : removing[t] # "no" =>
        /\ target[t] \in Consumption
        /\ starting[target[t]] \in {"stored", "running"}
        /\ removing[t] \in {"decrement", "close"} => target[t] \notin registered

(* A goroutine removes its own consumption, and only in its cleanup. *)
OwnRemovalInCleanup ==
    \A c \in Consumption : removing[c] # "no" => target[c] = c /\ consuming[c] = "cleanup"

DetachInv ==
    /\ NotRunningIsOff
    /\ RegisteredIsStored
    /\ RemovalsHaveTargets
    /\ OwnRemovalInCleanup
    /\ ReleasedIsDetached

(* RemoveAndCloseAll runs only on a stream whose status was stored. *)
ClosingIsDecided ==
    \A x \in Closer :
        closing[x] \in {"range", "zero"} \/ held[x] # None => status # "OK"

(* Neither the status, the counter nor a set it is compared with changes.  *)
CountsKept ==
    /\ status' = status
    /\ count' = count
    /\ \A k \in Kind : /\ Registered(k)' = Registered(k)
                       /\ Uncounted(k)' = Uncounted(k)
                       /\ Removers(k)' = Removers(k)

-----------------------------------------------------------------------------
(* Types.                                                                  *)

(* Every step of every goroutine keeps the types.                          *)
LEMMA TypeStep == TypeOK /\ [Next]_vars => TypeOK'
<1> SUFFICES ASSUME TypeOK, [Next]_vars PROVE TypeOK'
  OBVIOUS
<1> USE ConstantsAssumption DEF TypeOK, Kind, Ranger, Thread
<1>1. ASSUME NEW c \in Consumption, NEW useGopCache \in BOOLEAN, StartConsume(c, useGopCache)
      PROVE  TypeOK'
  BY <1>1 DEF StartConsume, stopVars, closeVars, KindOf
<1>2. ASSUME NEW c \in Consumption, Store(c) PROVE TypeOK'
  BY <1>2 DEF Store, stopVars, closeVars, KindOf
<1>3. ASSUME NEW c \in Consumption, CountAndGo(c) PROVE TypeOK'
  BY <1>3 DEF CountAndGo, stopVars, closeVars, KindOf
<1>4. ASSUME NEW c \in Consumption, CheckClosed(c) PROVE TypeOK'
  BY <1>4 DEF CheckClosed, stopVars, closeVars
<1>5. ASSUME NEW c \in Consumption, PopPack(c) PROVE TypeOK'
  BY <1>5 DEF PopPack, stopVars, closeVars
<1>6. ASSUME NEW c \in Consumption, PopNil(c) PROVE TypeOK'
  BY <1>6 DEF PopNil, stopVars, closeVars
<1>7. ASSUME NEW c \in Consumption, PopWaits(c) PROVE TypeOK'
  BY <1>7 DEF PopWaits, stopVars, closeVars
<1>8. ASSUME NEW c \in Consumption, ConsumePack(c) PROVE TypeOK'
  BY <1>8 DEF ConsumePack, stopVars, closeVars
<1>9. ASSUME NEW c \in Consumption, ConsumePanics(c) PROVE TypeOK'
  BY <1>9 DEF ConsumePanics, stopVars, closeVars
<1>10. ASSUME NEW c \in Consumption, ReleaseConsumer(c) PROVE TypeOK'
  BY <1>10 DEF ReleaseConsumer, stopVars, closeVars
<1>11. ASSUME NEW t \in Thread, NEW c \in Consumption, FindConsumption(t, c)
      PROVE  TypeOK'
  BY <1>11 DEF FindConsumption, consumerVars, closeVars
<1>12. ASSUME NEW c \in Consumption, AlreadyRemoved(c) PROVE TypeOK'
  BY <1>12 DEF AlreadyRemoved, stopVars, closeVars
<1>13. ASSUME NEW t \in Thread, DeleteConsumption(t) PROVE TypeOK'
  BY <1>13 DEF DeleteConsumption, consumerVars, closeVars
<1>14. ASSUME NEW t \in Thread, DecrementCount(t) PROVE TypeOK'
  BY <1>14 DEF DecrementCount, consumerVars, closeVars, KindOf
<1>15. ASSUME NEW t \in Thread, CloseRemoved(t) PROVE TypeOK'
  BY <1>15 DEF CloseRemoved, closeVars, CloseConsumption
<1>16. ASSUME NEW k \in Kind, CheckStatus(k) PROVE TypeOK'
  BY <1>16 DEF CheckStatus, consumerVars, stopVars, closeVars
<1>17. ASSUME NEW k \in Kind, CachePack(k) PROVE TypeOK'
  BY <1>17 DEF CachePack, consumerVars, stopVars, closeVars, Registered, KindOf
<1>18. ASSUME NEW k \in Kind, NEW c \in Consumption, Send(k, c) PROVE TypeOK'
  BY <1>18 DEF Send, stopVars, closeVars
<1>19. ASSUME NEW r \in Ranger, NEW c \in Consumption, SkipDeleted(r, c)
      PROVE  TypeOK'
  BY <1>19 DEF SkipDeleted, consumerVars, stopVars, closeVars
<1>20. ASSUME NEW k \in Kind, EndWrite(k) PROVE TypeOK'
  BY <1>20 DEF EndWrite, consumerVars, stopVars, closeVars
<1>21. ASSUME NEW x \in Closer, BeginClose(x) PROVE TypeOK'
  BY <1>21 DEF BeginClose, consumerVars, stopVars
<1>22. ASSUME NEW x \in Closer, StoreStatus(x) PROVE TypeOK'
  BY <1>22 DEF StoreStatus, consumerVars, stopVars, Registered, KindOf
<1>23. ASSUME NEW x \in Closer, NEW c \in Consumption, DeleteInRange(x, c)
      PROVE  TypeOK'
  BY <1>23 DEF DeleteInRange, consumerVars, stopVars
<1>24. ASSUME NEW x \in Closer, CloseInRange(x) PROVE TypeOK'
  <2>1. closed' \in [Consumption -> BOOLEAN] /\ signalled' \in [Consumption -> BOOLEAN]
    <3>1. PICK c \in Consumption : c = held[x] /\ CloseConsumption(c)
      BY <1>24 DEF CloseInRange
    <3>2. closed' = [closed EXCEPT ![c] = TRUE]
      BY <3>1 DEF CloseConsumption
    <3>3. \/ signalled' = signalled
          \/ \E b \in BOOLEAN : signalled' = [signalled EXCEPT ![c] = b]
      BY <3>1 DEF CloseConsumption
    <3>4. QED
      BY <3>2, <3>3
  <2>2. held' \in [Closer -> Consumption \cup {None}]
    BY <1>24 DEF CloseInRange
  <2>3. QED
    BY <1>24, <2>1, <2>2 DEF CloseInRange, stopVars
<1>25. ASSUME NEW x \in Closer, ZeroCount(x) PROVE TypeOK'
  BY <1>25 DEF ZeroCount, consumerVars, stopVars
<1>26. ASSUME NEW x \in Closer, ResetCache(x) PROVE TypeOK'
  <2>1. CASE closingKind[x] = "flv"
    <3>1. /\ cached' = [cached EXCEPT !["flv"] = FALSE]
          /\ closing' = [closing EXCEPT ![x] = "range"]
          /\ closingKind' = [closingKind EXCEPT ![x] = "rtp"]
          /\ left' = [left EXCEPT ![x] = Registered("rtp")]
          /\ UNCHANGED <<status, registered, count, consumerVars, stopVars, writing, held>>
      BY <1>26, <2>1 DEF ResetCache
    <3>2. QED
      BY <3>1 DEF Registered, consumerVars, stopVars
  <2>2. CASE closingKind[x] # "flv"
    BY <1>26, <2>2 DEF ResetCache, consumerVars, stopVars
  <2>3. QED
    BY <2>1, <2>2
<1> HIDE DEF TypeOK
<1>27. ASSUME NEW c \in Consumption, Starting(c) PROVE TypeOK'
  BY <1>27, <1>2, <1>3 DEF Starting
<1>28. ASSUME NEW c \in Consumption, Goroutine(c) PROVE TypeOK'
  BY <1>28, <1>4, <1>5, <1>6, <1>7, <1>8, <1>10, <1>11, <1>12 DEF Goroutine, Thread
<1>29. ASSUME NEW t \in Thread, Stopping(t) PROVE TypeOK'
  BY <1>29, <1>13, <1>14, <1>15 DEF Stopping
<1>30. ASSUME NEW k \in Kind, Writing(k) PROVE TypeOK'
  BY <1>30, <1>17, <1>20, <1>18, <1>19 DEF Writing, Ranger
<1>31. ASSUME NEW x \in Closer, Closing(x) PROVE TypeOK'
  BY <1>31, <1>22, <1>24, <1>25, <1>26, <1>23, <1>19 DEF Closing, Ranger
<1>32. CASE UNCHANGED vars
  BY <1>32 DEF TypeOK, vars, consumerVars, stopVars, closeVars
<1>33. QED
  BY <1>1, <1>9, <1>11, <1>16, <1>21, <1>27, <1>28, <1>29, <1>30, <1>31, <1>32
    DEF Next, Thread

(* The variables of the model always have their types; for the code this   *)
(* says that stream and consumptions never leave the states listed there.  *)
THEOREM TypeCorrect == Spec => []TypeOK
<1>1. Init => TypeOK
  BY ConstantsAssumption DEF Init, TypeOK, Kind, Ranger, Thread
<1>2. QED
  BY <1>1, TypeStep, PTL DEF Spec

-----------------------------------------------------------------------------
(* Attachment: where a consumption is while its goroutine lives.           *)

(* A goroutine and a removal are where the collection says they can be,    *)
(* after every step.                                                       *)
LEMMA DetachStep == TypeOK /\ DetachInv /\ [Next]_vars => DetachInv'
<1> SUFFICES ASSUME TypeOK, DetachInv, [Next]_vars PROVE DetachInv'
  OBVIOUS
<1> USE ConstantsAssumption
    DEF TypeOK, DetachInv, NotRunningIsOff, RegisteredIsStored, RemovalsHaveTargets,
        OwnRemovalInCleanup, ReleasedIsDetached, Thread
<1>1. ASSUME NEW c \in Consumption, NEW useGopCache \in BOOLEAN, StartConsume(c, useGopCache)
      PROVE  DetachInv'
  BY <1>1 DEF StartConsume, stopVars, closeVars
\* c has no goroutine yet, so it is not released.
<1>2. ASSUME NEW c \in Consumption, Store(c) PROVE DetachInv'
  BY <1>2 DEF Store, stopVars, closeVars
<1>3. ASSUME NEW c \in Consumption, CountAndGo(c) PROVE DetachInv'
  BY <1>3 DEF CountAndGo, stopVars, closeVars
<1>4. ASSUME NEW c \in Consumption, CheckClosed(c) PROVE DetachInv'
  BY <1>4 DEF CheckClosed, stopVars, closeVars
<1>5. ASSUME NEW c \in Consumption, PopPack(c) PROVE DetachInv'
  BY <1>5 DEF PopPack, stopVars, closeVars
<1>6. ASSUME NEW c \in Consumption, PopNil(c) PROVE DetachInv'
  BY <1>6 DEF PopNil, stopVars, closeVars
<1>7. ASSUME NEW c \in Consumption, PopWaits(c) PROVE DetachInv'
  BY <1>7 DEF PopWaits, stopVars, closeVars
<1>8. ASSUME NEW c \in Consumption, ConsumePack(c) PROVE DetachInv'
  BY <1>8 DEF ConsumePack, stopVars, closeVars
<1>9. ASSUME NEW c \in Consumption, ConsumePanics(c) PROVE DetachInv'
  BY <1>9 DEF ConsumePanics, stopVars, closeVars
<1>10. ASSUME NEW c \in Consumption, ReleaseConsumer(c) PROVE DetachInv'
  BY <1>10 DEF ReleaseConsumer, stopVars, closeVars
\* The target is registered, so it was stored.
<1>11. ASSUME NEW t \in Thread, NEW c \in Consumption, FindConsumption(t, c)
      PROVE  DetachInv'
  BY <1>11 DEF FindConsumption, consumerVars, closeVars
\* The goroutine goes on to release c, which is not registered.
<1>12. ASSUME NEW c \in Consumption, AlreadyRemoved(c) PROVE DetachInv'
  BY <1>12 DEF AlreadyRemoved, stopVars, closeVars
\* From here on the target is not registered, as the next two steps need.
<1>13. ASSUME NEW t \in Thread, DeleteConsumption(t) PROVE DetachInv'
  BY <1>13 DEF DeleteConsumption, consumerVars, closeVars
<1>14. ASSUME NEW t \in Thread, DecrementCount(t) PROVE DetachInv'
  BY <1>14 DEF DecrementCount, consumerVars, closeVars
\* If t is a goroutine, its own consumption was deleted two steps ago.
<1>15. ASSUME NEW t \in Thread, CloseRemoved(t) PROVE DetachInv'
  BY <1>15 DEF CloseRemoved, closeVars, CloseConsumption
<1>16. ASSUME NEW k \in Kind, CheckStatus(k) PROVE DetachInv'
  BY <1>16 DEF CheckStatus, consumerVars, stopVars, closeVars
<1>17. ASSUME NEW k \in Kind, CachePack(k) PROVE DetachInv'
  BY <1>17 DEF CachePack, consumerVars, stopVars, closeVars
<1>18. ASSUME NEW k \in Kind, NEW c \in Consumption, Send(k, c)
      PROVE  DetachInv'
  BY <1>18 DEF Send, stopVars, closeVars
<1>19. ASSUME NEW r \in Ranger, NEW c \in Consumption, SkipDeleted(r, c)
      PROVE  DetachInv'
  BY <1>19 DEF SkipDeleted, consumerVars, stopVars, closeVars
<1>20. ASSUME NEW k \in Kind, EndWrite(k) PROVE DetachInv'
  BY <1>20 DEF EndWrite, consumerVars, stopVars, closeVars
<1>21. ASSUME NEW x \in Closer, BeginClose(x) PROVE DetachInv'
  BY <1>21 DEF BeginClose, consumerVars, stopVars
<1>22. ASSUME NEW x \in Closer, StoreStatus(x) PROVE DetachInv'
  BY <1>22 DEF StoreStatus, consumerVars, stopVars
<1>23. ASSUME NEW x \in Closer, NEW c \in Consumption, DeleteInRange(x, c)
      PROVE  DetachInv'
  BY <1>23 DEF DeleteInRange, consumerVars, stopVars
<1>24. ASSUME NEW x \in Closer, CloseInRange(x) PROVE DetachInv'
  BY <1>24 DEF CloseInRange, stopVars, CloseConsumption
<1>25. ASSUME NEW x \in Closer, ZeroCount(x) PROVE DetachInv'
  BY <1>25 DEF ZeroCount, consumerVars, stopVars
<1>26. ASSUME NEW x \in Closer, ResetCache(x) PROVE DetachInv'
  BY <1>26 DEF ResetCache, consumerVars, stopVars
<1>27. ASSUME NEW c \in Consumption, Starting(c) PROVE DetachInv'
  BY <1>27, <1>2, <1>3 DEF Starting
<1>28. ASSUME NEW c \in Consumption, Goroutine(c) PROVE DetachInv'
  BY <1>28, <1>4, <1>5, <1>6, <1>7, <1>8, <1>10, <1>11, <1>12 DEF Goroutine, Thread
<1>29. ASSUME NEW t \in Thread, Stopping(t) PROVE DetachInv'
  BY <1>29, <1>13, <1>14, <1>15 DEF Stopping
<1>30. ASSUME NEW k \in Kind, Writing(k) PROVE DetachInv'
  BY <1>30, <1>17, <1>20, <1>18, <1>19 DEF Writing, Ranger
<1>31. ASSUME NEW x \in Closer, Closing(x) PROVE DetachInv'
  BY <1>31, <1>22, <1>24, <1>25, <1>26, <1>23, <1>19 DEF Closing, Ranger
<1>32. CASE UNCHANGED vars
  BY <1>32 DEF vars, consumerVars, stopVars, closeVars
<1>33. QED
  BY <1>1, <1>9, <1>11, <1>16, <1>21, <1>27, <1>28, <1>29, <1>30, <1>31, <1>32
    DEF Next, Thread

(* No step loses a consumption: whoever takes it out of the collection     *)
(* holds it until it is closed.                                            *)
LEMMA NoLostStep ==
    TypeOK /\ DetachInv /\ NoLostConsumption /\ [Next]_vars => NoLostConsumption'
<1> SUFFICES ASSUME TypeOK, DetachInv, NoLostConsumption, [Next]_vars
             PROVE  NoLostConsumption'
  OBVIOUS
<1> USE ConstantsAssumption
    DEF NoLostConsumption, TypeOK, DetachInv, NotRunningIsOff, RemovalsHaveTargets,
        OwnRemovalInCleanup, ReleasedIsDetached, Thread
<1>1. ASSUME NEW c \in Consumption, NEW useGopCache \in BOOLEAN, StartConsume(c, useGopCache)
      PROVE  NoLostConsumption'
  BY <1>1 DEF StartConsume, stopVars, closeVars
<1>2. ASSUME NEW c \in Consumption, Store(c) PROVE NoLostConsumption'
  BY <1>2 DEF Store, stopVars, closeVars
<1>3. ASSUME NEW c \in Consumption, CountAndGo(c) PROVE NoLostConsumption'
  BY <1>3 DEF CountAndGo, stopVars, closeVars
<1>4. ASSUME NEW c \in Consumption, CheckClosed(c) PROVE NoLostConsumption'
  BY <1>4 DEF CheckClosed, stopVars, closeVars
<1>5. ASSUME NEW c \in Consumption, PopPack(c) PROVE NoLostConsumption'
  BY <1>5 DEF PopPack, stopVars, closeVars
<1>6. ASSUME NEW c \in Consumption, PopNil(c) PROVE NoLostConsumption'
  BY <1>6 DEF PopNil, stopVars, closeVars
<1>7. ASSUME NEW c \in Consumption, PopWaits(c) PROVE NoLostConsumption'
  BY <1>7 DEF PopWaits, stopVars, closeVars
<1>8. ASSUME NEW c \in Consumption, ConsumePack(c) PROVE NoLostConsumption'
  BY <1>8 DEF ConsumePack, stopVars, closeVars
\* A panic leaves c where it was; its cleanup comes later.
<1>9. ASSUME NEW c \in Consumption, ConsumePanics(c) PROVE NoLostConsumption'
  BY <1>9 DEF ConsumePanics, stopVars, closeVars
<1>10. ASSUME NEW c \in Consumption, ReleaseConsumer(c)
      PROVE  NoLostConsumption'
  BY <1>10 DEF ReleaseConsumer, stopVars, closeVars
<1>11. ASSUME NEW t \in Thread, NEW c \in Consumption, FindConsumption(t, c)
      PROVE  NoLostConsumption'
  BY <1>11 DEF FindConsumption, consumerVars, closeVars
\* c is past the loop.
<1>12. ASSUME NEW c \in Consumption, AlreadyRemoved(c)
      PROVE  NoLostConsumption'
  BY <1>12 DEF AlreadyRemoved, stopVars, closeVars
\* The remover now answers for its target.
<1>13. ASSUME NEW t \in Thread, DeleteConsumption(t) PROVE NoLostConsumption'
  BY <1>13 DEF DeleteConsumption, consumerVars, closeVars
<1>14. ASSUME NEW t \in Thread, DecrementCount(t) PROVE NoLostConsumption'
  BY <1>14 DEF DecrementCount, consumerVars, closeVars
\* The target is closed.
<1>15. ASSUME NEW t \in Thread, CloseRemoved(t) PROVE NoLostConsumption'
  BY <1>15 DEF CloseRemoved, closeVars, CloseConsumption
<1>16. ASSUME NEW k \in Kind, CheckStatus(k) PROVE NoLostConsumption'
  BY <1>16 DEF CheckStatus, consumerVars, stopVars, closeVars
<1>17. ASSUME NEW k \in Kind, CachePack(k) PROVE NoLostConsumption'
  BY <1>17 DEF CachePack, consumerVars, stopVars, closeVars
<1>18. ASSUME NEW k \in Kind, NEW c \in Consumption, Send(k, c)
      PROVE  NoLostConsumption'
  BY <1>18 DEF Send, stopVars, closeVars
<1>19. ASSUME NEW r \in Ranger, NEW c \in Consumption, SkipDeleted(r, c)
      PROVE  NoLostConsumption'
  BY <1>19 DEF SkipDeleted, consumerVars, stopVars, closeVars
<1>20. ASSUME NEW k \in Kind, EndWrite(k) PROVE NoLostConsumption'
  BY <1>20 DEF EndWrite, consumerVars, stopVars, closeVars
<1>21. ASSUME NEW x \in Closer, BeginClose(x) PROVE NoLostConsumption'
  BY <1>21 DEF BeginClose, consumerVars, stopVars
<1>22. ASSUME NEW x \in Closer, StoreStatus(x) PROVE NoLostConsumption'
  BY <1>22 DEF StoreStatus, consumerVars, stopVars
\* x now holds c.
<1>23. ASSUME NEW x \in Closer, NEW c \in Consumption, DeleteInRange(x, c)
      PROVE  NoLostConsumption'
  BY <1>23 DEF DeleteInRange, consumerVars, stopVars
\* What x held is closed.
<1>24. ASSUME NEW x \in Closer, CloseInRange(x) PROVE NoLostConsumption'
  BY <1>24 DEF CloseInRange, stopVars, CloseConsumption
<1>25. ASSUME NEW x \in Closer, ZeroCount(x) PROVE NoLostConsumption'
  BY <1>25 DEF ZeroCount, consumerVars, stopVars
<1>26. ASSUME NEW x \in Closer, ResetCache(x) PROVE NoLostConsumption'
  BY <1>26 DEF ResetCache, consumerVars, stopVars
<1>27. ASSUME NEW c \in Consumption, Starting(c) PROVE NoLostConsumption'
  BY <1>27, <1>2, <1>3 DEF Starting
<1>28. ASSUME NEW c \in Consumption, Goroutine(c) PROVE NoLostConsumption'
  BY <1>28, <1>4, <1>5, <1>6, <1>7, <1>8, <1>10, <1>11, <1>12 DEF Goroutine, Thread
<1>29. ASSUME NEW t \in Thread, Stopping(t) PROVE NoLostConsumption'
  BY <1>29, <1>13, <1>14, <1>15 DEF Stopping
<1>30. ASSUME NEW k \in Kind, Writing(k) PROVE NoLostConsumption'
  BY <1>30, <1>17, <1>20, <1>18, <1>19 DEF Writing, Ranger
<1>31. ASSUME NEW x \in Closer, Closing(x) PROVE NoLostConsumption'
  BY <1>31, <1>22, <1>24, <1>25, <1>26, <1>23, <1>19 DEF Closing, Ranger
<1>32. CASE UNCHANGED vars
  BY <1>32 DEF vars, consumerVars, stopVars, closeVars
<1>33. QED
  BY <1>1, <1>9, <1>11, <1>16, <1>21, <1>27, <1>28, <1>29, <1>30, <1>31, <1>32
    DEF Next, Thread

(* A consumption whose consumer was closed is attached to nothing: no      *)
(* SendToAll that starts later finds it.                                   *)
THEOREM ReleasedDetached == Spec => []ReleasedIsDetached
<1>1. Init => TypeOK /\ DetachInv
  BY ConstantsAssumption DEF Init, TypeOK, Kind, Ranger, Thread, DetachInv, NotRunningIsOff,
    RegisteredIsStored, RemovalsHaveTargets, OwnRemovalInCleanup, ReleasedIsDetached
<1>2. TypeOK /\ DetachInv /\ [Next]_vars => (TypeOK /\ DetachInv)'
  BY TypeStep, DetachStep
<1>3. DetachInv => ReleasedIsDetached
  BY DEF DetachInv
<1>4. QED
  BY <1>1, <1>2, <1>3, PTL DEF Spec

(* A consumption that StartConsume stored stays reachable until it ends:   *)
(* attached, closed, or in the hands of a removal that will close it.      *)
THEOREM NoConsumptionLost == Spec => []NoLostConsumption
<1>1. Init => TypeOK /\ DetachInv /\ NoLostConsumption
  BY ConstantsAssumption DEF Init, TypeOK, Kind, Ranger, Thread, DetachInv, NotRunningIsOff,
    RegisteredIsStored, RemovalsHaveTargets, OwnRemovalInCleanup, ReleasedIsDetached,
    NoLostConsumption
<1>2. TypeOK /\ DetachInv /\ NoLostConsumption /\ [Next]_vars
         => (TypeOK /\ DetachInv /\ NoLostConsumption)'
  BY TypeStep, DetachStep, NoLostStep
<1>3. QED
  BY <1>1, <1>2, PTL DEF Spec

-----------------------------------------------------------------------------
(* The counter.                                                            *)

(* The three sets whose sizes the counter is compared with are finite. *)
LEMMA FiniteCounts ==
    ASSUME TypeOK, NEW k \in Kind
    PROVE  /\ IsFiniteSet(Registered(k)) /\ Cardinality(Registered(k)) \in Nat
           /\ IsFiniteSet(Uncounted(k))  /\ Cardinality(Uncounted(k)) \in Nat
           /\ IsFiniteSet(Removers(k))   /\ Cardinality(Removers(k)) \in Nat
<1>1. IsFiniteSet(Thread)
  BY FiniteAssumption, FS_Union DEF Thread
<1>2. /\ Registered(k) \subseteq Consumption
      /\ Uncounted(k) \subseteq Consumption
      /\ Removers(k) \subseteq Thread
  BY DEF TypeOK, Registered, Uncounted, Removers
<1>3. QED
  BY <1>1, <1>2, FiniteAssumption, FS_Subset, FS_CardinalityType

(* A step that touches neither the counter nor those sets keeps the count. *)
LEMMA KeptCounts ==
    ASSUME CountsKept, CountCoversConsumers
    PROVE  CountCoversConsumers'
  BY DEF CountsKept, CountCoversConsumers

(* Store: the new consumption is registered and not counted yet. *)
LEMMA StoreCounts ==
    ASSUME TypeOK, DetachInv, CountCoversConsumers, NEW c \in Consumption, Store(c)
    PROVE  CountCoversConsumers'
<1> SUFFICES ASSUME status = "OK", NEW k \in Kind
             PROVE  count'[k] + Cardinality(Uncounted(k)')
                        =< Cardinality(Registered(k)') + Cardinality(Removers(k)')
  BY DEF CountCoversConsumers, Store
<1>1. /\ c \notin Registered(k) /\ c \notin Uncounted(k)
      /\ Removers(k)' = Removers(k) /\ count' = count
  BY DEF TypeOK, DetachInv, RegisteredIsStored, Store, Registered, Uncounted, Removers, stopVars
<1>2. CASE KindOf(c) = k
  <2>1. /\ Registered(k)' = Registered(k) \cup {c}
        /\ Uncounted(k)' = Uncounted(k) \cup {c}
    BY <1>2 DEF TypeOK, Store, Registered, Uncounted
  <2>2. Cardinality(Registered(k)') = Cardinality(Registered(k)) + 1
    BY <1>1, <2>1, FiniteCounts, FS_AddElement
  <2>3. Cardinality(Uncounted(k)') = Cardinality(Uncounted(k)) + 1
    BY <1>1, <2>1, FiniteCounts, FS_AddElement
  <2>4. QED
    BY <1>1, <2>2, <2>3, FiniteCounts DEF CountCoversConsumers, TypeOK
<1>3. CASE KindOf(c) # k
  <2>1. Registered(k)' = Registered(k) /\ Uncounted(k)' = Uncounted(k)
    BY <1>3 DEF TypeOK, Store, Registered, Uncounted
  <2>2. QED
    BY <1>1, <2>1 DEF CountCoversConsumers
<1>4. QED
  BY <1>2, <1>3

(* CountAndGo: the counter takes over from the uncounted consumption. *)
LEMMA CountAndGoCounts ==
    ASSUME TypeOK, CountCoversConsumers, NEW c \in Consumption, CountAndGo(c)
    PROVE  CountCoversConsumers'
<1> SUFFICES ASSUME status = "OK", NEW k \in Kind
             PROVE  count'[k] + Cardinality(Uncounted(k)')
                        =< Cardinality(Registered(k)') + Cardinality(Removers(k)')
  BY DEF CountCoversConsumers, CountAndGo
<1>1. Registered(k)' = Registered(k) /\ Removers(k)' = Removers(k)
  BY DEF CountAndGo, Registered, Removers, stopVars
<1>2. CASE KindOf(c) = k
  <2>1. /\ c \in Uncounted(k) /\ Uncounted(k)' = Uncounted(k) \ {c}
        /\ count'[k] = count[k] + 1
    BY <1>2 DEF TypeOK, CountAndGo, Uncounted
  <2>2. Cardinality(Uncounted(k)') = Cardinality(Uncounted(k)) - 1
    BY <2>1, FiniteCounts, FS_RemoveElement
  <2>3. QED
    BY <1>1, <2>1, <2>2, FiniteCounts DEF CountCoversConsumers, TypeOK
<1>3. CASE KindOf(c) # k
  <2>1. Uncounted(k)' = Uncounted(k) /\ count'[k] = count[k]
    BY <1>3 DEF TypeOK, CountAndGo, Uncounted
  <2>2. QED
    BY <1>1, <2>1 DEF CountCoversConsumers
<1>4. QED
  BY <1>2, <1>3

(* Delete: the consumption leaves the collection, unless another removal *)
(* took it out before; either way one more decrement is pending.         *)
LEMMA DeleteCounts ==
    ASSUME TypeOK, DetachInv, CountCoversConsumers, NEW t \in Thread, DeleteConsumption(t)
    PROVE  CountCoversConsumers'
<1> SUFFICES ASSUME status = "OK", NEW k \in Kind
             PROVE  count'[k] + Cardinality(Uncounted(k)')
                        =< Cardinality(Registered(k)') + Cardinality(Removers(k)')
  BY DEF CountCoversConsumers, DeleteConsumption
<1>1. /\ Uncounted(k)' = Uncounted(k) /\ count' = count
      /\ t \notin Removers(k)
  BY DEF TypeOK, DeleteConsumption, Uncounted, Removers, consumerVars
<1>2. CASE KindOf(target[t]) = k
  <2>1. /\ Registered(k)' = Registered(k) \ {target[t]}
        /\ Removers(k)' = Removers(k) \cup {t}
    BY <1>2 DEF TypeOK, DeleteConsumption, Registered, Removers
  <2>2. Cardinality(Registered(k)') >= Cardinality(Registered(k)) - 1
    <3>1. Cardinality(Registered(k) \ {target[t]}) =
              IF target[t] \in Registered(k) THEN Cardinality(Registered(k)) - 1
                                             ELSE Cardinality(Registered(k))
      BY FiniteCounts, FS_RemoveElement
    <3>2. QED
      BY <2>1, <3>1, FiniteCounts
  <2>3. Cardinality(Removers(k)') = Cardinality(Removers(k)) + 1
    BY <1>1, <2>1, FiniteCounts, FS_AddElement
  <2>4. Cardinality(Registered(k)') \in Nat
    BY <2>1, FiniteCounts, FS_RemoveElement, FS_CardinalityType
  <2>5. QED
    BY <1>1, <2>2, <2>3, <2>4, FiniteCounts DEF CountCoversConsumers, TypeOK
<1>3. CASE KindOf(target[t]) # k
  <2>1. Registered(k)' = Registered(k) /\ Removers(k)' = Removers(k)
    BY <1>3 DEF TypeOK, DeleteConsumption, Registered, Removers
  <2>2. QED
    BY <1>1, <2>1 DEF CountCoversConsumers
<1>4. QED
  BY <1>2, <1>3

(* The pending decrement is made. *)
LEMMA DecrementCounts ==
    ASSUME TypeOK, CountCoversConsumers, NEW t \in Thread, DecrementCount(t)
    PROVE  CountCoversConsumers'
<1> SUFFICES ASSUME status = "OK", NEW k \in Kind
             PROVE  count'[k] + Cardinality(Uncounted(k)')
                        =< Cardinality(Registered(k)') + Cardinality(Removers(k)')
  BY DEF CountCoversConsumers, DecrementCount
<1>1. Registered(k)' = Registered(k) /\ Uncounted(k)' = Uncounted(k)
  BY DEF DecrementCount, Registered, Uncounted, consumerVars
<1>2. CASE KindOf(target[t]) = k
  <2>1. /\ t \in Removers(k) /\ Removers(k)' = Removers(k) \ {t}
        /\ count'[k] = count[k] - 1
    BY <1>2 DEF TypeOK, DecrementCount, Removers
  <2>2. Cardinality(Removers(k)') = Cardinality(Removers(k)) - 1
    BY <2>1, FiniteCounts, FS_RemoveElement
  <2>3. QED
    BY <1>1, <2>1, <2>2, FiniteCounts DEF CountCoversConsumers, TypeOK
<1>3. CASE KindOf(target[t]) # k
  <2>1. Removers(k)' = Removers(k) /\ count'[k] = count[k]
    BY <1>3 DEF TypeOK, DecrementCount, Removers
  <2>2. QED
    BY <1>1, <2>1 DEF CountCoversConsumers
<1>4. QED
  BY <1>2, <1>3

(* RemoveAndCloseAll and the reset of the counter happen only after the    *)
(* status was stored, and a stored status never becomes StreamOK again.    *)
LEMMA ClosingStep == TypeOK /\ ClosingIsDecided /\ [Next]_vars => ClosingIsDecided'
<1> SUFFICES ASSUME TypeOK, ClosingIsDecided, [Next]_vars PROVE ClosingIsDecided'
  OBVIOUS
<1> USE DEF ClosingIsDecided, TypeOK
<1>1. ASSUME NEW c \in Consumption, NEW useGopCache \in BOOLEAN, StartConsume(c, useGopCache)
      PROVE  ClosingIsDecided'
  BY <1>1 DEF StartConsume, stopVars, closeVars
<1>2. ASSUME NEW c \in Consumption, Store(c) PROVE ClosingIsDecided'
  BY <1>2 DEF Store, stopVars, closeVars
<1>3. ASSUME NEW c \in Consumption, CountAndGo(c) PROVE ClosingIsDecided'
  BY <1>3 DEF CountAndGo, stopVars, closeVars
<1>4. ASSUME NEW c \in Consumption, CheckClosed(c) PROVE ClosingIsDecided'
  BY <1>4 DEF CheckClosed, stopVars, closeVars
<1>5. ASSUME NEW c \in Consumption, PopPack(c) PROVE ClosingIsDecided'
  BY <1>5 DEF PopPack, stopVars, closeVars
<1>6. ASSUME NEW c \in Consumption, PopNil(c) PROVE ClosingIsDecided'
  BY <1>6 DEF PopNil, stopVars, closeVars
<1>7. ASSUME NEW c \in Consumption, PopWaits(c) PROVE ClosingIsDecided'
  BY <1>7 DEF PopWaits, stopVars, closeVars
<1>8. ASSUME NEW c \in Consumption, ConsumePack(c) PROVE ClosingIsDecided'
  BY <1>8 DEF ConsumePack, stopVars, closeVars
<1>9. ASSUME NEW c \in Consumption, ConsumePanics(c) PROVE ClosingIsDecided'
  BY <1>9 DEF ConsumePanics, stopVars, closeVars
<1>10. ASSUME NEW c \in Consumption, ReleaseConsumer(c)
      PROVE  ClosingIsDecided'
  BY <1>10 DEF ReleaseConsumer, stopVars, closeVars
<1>11. ASSUME NEW t \in Thread, NEW c \in Consumption, FindConsumption(t, c)
      PROVE  ClosingIsDecided'
  BY <1>11 DEF FindConsumption, consumerVars, closeVars
<1>12. ASSUME NEW c \in Consumption, AlreadyRemoved(c)
      PROVE  ClosingIsDecided'
  BY <1>12 DEF AlreadyRemoved, stopVars, closeVars
<1>13. ASSUME NEW t \in Thread, DeleteConsumption(t) PROVE ClosingIsDecided'
  BY <1>13 DEF DeleteConsumption, consumerVars, closeVars
<1>14. ASSUME NEW t \in Thread, DecrementCount(t) PROVE ClosingIsDecided'
  BY <1>14 DEF DecrementCount, consumerVars, closeVars
<1>15. ASSUME NEW t \in Thread, CloseRemoved(t) PROVE ClosingIsDecided'
  BY <1>15 DEF CloseRemoved, closeVars
<1>16. ASSUME NEW k \in Kind, CheckStatus(k) PROVE ClosingIsDecided'
  BY <1>16 DEF CheckStatus, consumerVars, stopVars, closeVars
<1>17. ASSUME NEW k \in Kind, CachePack(k) PROVE ClosingIsDecided'
  BY <1>17 DEF CachePack, consumerVars, stopVars, closeVars
<1>18. ASSUME NEW k \in Kind, NEW c \in Consumption, Send(k, c)
      PROVE  ClosingIsDecided'
  BY <1>18 DEF Send, stopVars, closeVars
<1>19. ASSUME NEW r \in Ranger, NEW c \in Consumption, SkipDeleted(r, c)
      PROVE  ClosingIsDecided'
  BY <1>19 DEF SkipDeleted, consumerVars, stopVars, closeVars
<1>20. ASSUME NEW k \in Kind, EndWrite(k) PROVE ClosingIsDecided'
  BY <1>20 DEF EndWrite, consumerVars, stopVars, closeVars
<1>21. ASSUME NEW x \in Closer, BeginClose(x) PROVE ClosingIsDecided'
  BY <1>21 DEF BeginClose, consumerVars, stopVars
<1>22. ASSUME NEW x \in Closer, StoreStatus(x) PROVE ClosingIsDecided'
  BY <1>22 DEF StoreStatus, consumerVars, stopVars
<1>23. ASSUME NEW x \in Closer, NEW c \in Consumption, DeleteInRange(x, c)
      PROVE  ClosingIsDecided'
  BY <1>23 DEF DeleteInRange, consumerVars, stopVars
<1>24. ASSUME NEW x \in Closer, CloseInRange(x) PROVE ClosingIsDecided'
  BY <1>24 DEF CloseInRange, stopVars
<1>25. ASSUME NEW x \in Closer, ZeroCount(x) PROVE ClosingIsDecided'
  BY <1>25 DEF ZeroCount, consumerVars, stopVars
<1>26. ASSUME NEW x \in Closer, ResetCache(x) PROVE ClosingIsDecided'
  BY <1>26 DEF ResetCache, consumerVars, stopVars
<1>27. ASSUME NEW c \in Consumption, Starting(c) PROVE ClosingIsDecided'
  BY <1>27, <1>2, <1>3 DEF Starting
<1>28. ASSUME NEW c \in Consumption, Goroutine(c) PROVE ClosingIsDecided'
  BY <1>28, <1>4, <1>5, <1>6, <1>7, <1>8, <1>10, <1>11, <1>12 DEF Goroutine, Thread
<1>29. ASSUME NEW t \in Thread, Stopping(t) PROVE ClosingIsDecided'
  BY <1>29, <1>13, <1>14, <1>15 DEF Stopping
<1>30. ASSUME NEW k \in Kind, Writing(k) PROVE ClosingIsDecided'
  BY <1>30, <1>17, <1>20, <1>18, <1>19 DEF Writing, Ranger
<1>31. ASSUME NEW x \in Closer, Closing(x) PROVE ClosingIsDecided'
  BY <1>31, <1>22, <1>24, <1>25, <1>26, <1>23, <1>19 DEF Closing, Ranger
<1>32. CASE UNCHANGED vars
  BY <1>32 DEF vars, consumerVars, stopVars, closeVars
<1>33. QED
  BY <1>1, <1>9, <1>11, <1>16, <1>21, <1>27, <1>28, <1>29, <1>30, <1>31, <1>32
    DEF Next, Thread

(* Every step keeps the count of an open stream covered: the four steps    *)
(* that move the counter or a set it is compared with have lemmas above,   *)
(* the steps of close happen on a closed stream, the others touch neither. *)
LEMMA CountStep ==
    TypeOK /\ DetachInv /\ ClosingIsDecided /\ CountCoversConsumers /\ [Next]_vars
        => CountCoversConsumers'
<1> SUFFICES ASSUME TypeOK, DetachInv, ClosingIsDecided, CountCoversConsumers, [Next]_vars
             PROVE  CountCoversConsumers'
  OBVIOUS
<1> USE DEF CountsKept
<1>1. ASSUME NEW c \in Consumption, NEW useGopCache \in BOOLEAN, StartConsume(c, useGopCache)
      PROVE  CountCoversConsumers'
  BY <1>1, KeptCounts DEF StartConsume, Registered, Uncounted, Removers, stopVars, closeVars, TypeOK
<1>2. ASSUME NEW c \in Consumption, Store(c) PROVE CountCoversConsumers'
  BY <1>2, StoreCounts
<1>3. ASSUME NEW c \in Consumption, CountAndGo(c) PROVE CountCoversConsumers'
  BY <1>3, CountAndGoCounts
<1>4. ASSUME NEW c \in Consumption, CheckClosed(c)
      PROVE  CountCoversConsumers'
  BY <1>4, KeptCounts DEF CheckClosed, Registered, Uncounted, Removers, stopVars, closeVars
<1>5. ASSUME NEW c \in Consumption, PopPack(c) PROVE CountCoversConsumers'
  BY <1>5, KeptCounts DEF PopPack, Registered, Uncounted, Removers, stopVars, closeVars
<1>6. ASSUME NEW c \in Consumption, PopNil(c) PROVE CountCoversConsumers'
  BY <1>6, KeptCounts DEF PopNil, Registered, Uncounted, Removers, stopVars, closeVars
<1>7. ASSUME NEW c \in Consumption, PopWaits(c) PROVE CountCoversConsumers'
  BY <1>7, KeptCounts DEF PopWaits, Registered, Uncounted, Removers, stopVars, closeVars
<1>8. ASSUME NEW c \in Consumption, ConsumePack(c)
      PROVE  CountCoversConsumers'
  BY <1>8, KeptCounts DEF ConsumePack, Registered, Uncounted, Removers, stopVars, closeVars
<1>9. ASSUME NEW c \in Consumption, ConsumePanics(c)
      PROVE  CountCoversConsumers'
  BY <1>9, KeptCounts DEF ConsumePanics, Registered, Uncounted, Removers, stopVars, closeVars
<1>10. ASSUME NEW c \in Consumption, ReleaseConsumer(c)
      PROVE  CountCoversConsumers'
  BY <1>10, KeptCounts DEF ReleaseConsumer, Registered, Uncounted, Removers, stopVars, closeVars
<1>11. ASSUME NEW t \in Thread, NEW c \in Consumption, FindConsumption(t, c)
      PROVE  CountCoversConsumers'
  BY <1>11, KeptCounts DEF FindConsumption, Registered, Uncounted, Removers, consumerVars, closeVars, TypeOK
<1>12. ASSUME NEW c \in Consumption, AlreadyRemoved(c)
      PROVE  CountCoversConsumers'
  BY <1>12, KeptCounts DEF AlreadyRemoved, Registered, Uncounted, Removers, stopVars, closeVars
<1>13. ASSUME NEW t \in Thread, DeleteConsumption(t)
      PROVE  CountCoversConsumers'
  BY <1>13, DeleteCounts
<1>14. ASSUME NEW t \in Thread, DecrementCount(t) PROVE CountCoversConsumers'
  BY <1>14, DecrementCounts
<1>15. ASSUME NEW t \in Thread, CloseRemoved(t) PROVE CountCoversConsumers'
  BY <1>15, KeptCounts DEF CloseRemoved, Registered, Uncounted, Removers, closeVars, TypeOK, CloseConsumption
<1>16. ASSUME NEW k \in Kind, CheckStatus(k) PROVE CountCoversConsumers'
  BY <1>16, KeptCounts DEF CheckStatus, Registered, Uncounted, Removers, consumerVars, stopVars, closeVars
<1>17. ASSUME NEW k \in Kind, CachePack(k) PROVE CountCoversConsumers'
  BY <1>17, KeptCounts DEF CachePack, Registered, Uncounted, Removers, consumerVars, stopVars, closeVars
<1>18. ASSUME NEW k \in Kind, NEW c \in Consumption, Send(k, c)
      PROVE  CountCoversConsumers'
  BY <1>18, KeptCounts DEF Send, Registered, Uncounted, Removers, stopVars, closeVars
<1>19. ASSUME NEW r \in Ranger, NEW c \in Consumption, SkipDeleted(r, c)
      PROVE  CountCoversConsumers'
  BY <1>19, KeptCounts DEF SkipDeleted, Registered, Uncounted, Removers, consumerVars, stopVars, closeVars
<1>20. ASSUME NEW k \in Kind, EndWrite(k) PROVE CountCoversConsumers'
  BY <1>20, KeptCounts DEF EndWrite, Registered, Uncounted, Removers, consumerVars, stopVars, closeVars
<1>21. ASSUME NEW x \in Closer, BeginClose(x) PROVE CountCoversConsumers'
  BY <1>21, KeptCounts DEF BeginClose, Registered, Uncounted, Removers, consumerVars, stopVars
<1>22. ASSUME NEW x \in Closer, StoreStatus(x) PROVE CountCoversConsumers'
  BY <1>22 DEF StoreStatus, CountCoversConsumers
<1>23. ASSUME NEW x \in Closer, NEW c \in Consumption, DeleteInRange(x, c)
      PROVE  CountCoversConsumers'
  BY <1>23 DEF DeleteInRange, ClosingIsDecided, CountCoversConsumers
<1>24. ASSUME NEW x \in Closer, CloseInRange(x) PROVE CountCoversConsumers'
  BY <1>24, KeptCounts DEF CloseInRange, Registered, Uncounted, Removers, stopVars
<1>25. ASSUME NEW x \in Closer, ZeroCount(x) PROVE CountCoversConsumers'
  BY <1>25 DEF ZeroCount, ClosingIsDecided, CountCoversConsumers
<1>26. ASSUME NEW x \in Closer, ResetCache(x) PROVE CountCoversConsumers'
  BY <1>26, KeptCounts DEF ResetCache, Registered, Uncounted, Removers, consumerVars, stopVars
<1>27. ASSUME NEW c \in Consumption, Starting(c) PROVE CountCoversConsumers'
  BY <1>27, <1>2, <1>3 DEF Starting
<1>28. ASSUME NEW c \in Consumption, Goroutine(c) PROVE CountCoversConsumers'
  BY <1>28, <1>4, <1>5, <1>6, <1>7, <1>8, <1>10, <1>11, <1>12 DEF Goroutine, Thread
<1>29. ASSUME NEW t \in Thread, Stopping(t) PROVE CountCoversConsumers'
  BY <1>29, <1>13, <1>14, <1>15 DEF Stopping
<1>30. ASSUME NEW k \in Kind, Writing(k) PROVE CountCoversConsumers'
  BY <1>30, <1>17, <1>20, <1>18, <1>19 DEF Writing, Ranger
<1>31. ASSUME NEW x \in Closer, Closing(x) PROVE CountCoversConsumers'
  BY <1>31, <1>22, <1>24, <1>25, <1>26, <1>23, <1>19 DEF Closing, Ranger
<1>32. CASE UNCHANGED vars
  BY <1>32, KeptCounts DEF vars, Registered, Uncounted, Removers, consumerVars, stopVars, closeVars
<1>33. QED
  BY <1>1, <1>9, <1>11, <1>16, <1>21, <1>27, <1>28, <1>29, <1>30, <1>31, <1>32
    DEF Next, Thread

(* While the stream is open its counter is covered by consumers that are   *)
(* attached and by removals about to decrement it.                         *)
THEOREM CountCovered == Spec => []CountCoversConsumers
<1>1. Init => TypeOK /\ DetachInv /\ ClosingIsDecided
  BY ConstantsAssumption DEF Init, TypeOK, Kind, Ranger, Thread, DetachInv, NotRunningIsOff,
    RegisteredIsStored, RemovalsHaveTargets, OwnRemovalInCleanup, ReleasedIsDetached,
    ClosingIsDecided
<1>2. Init => CountCoversConsumers
  <2>1. SUFFICES ASSUME Init, NEW k \in Kind
                 PROVE  count[k] + Cardinality(Uncounted(k))
                            =< Cardinality(Registered(k)) + Cardinality(Removers(k))
    BY DEF CountCoversConsumers
  <2>2. Uncounted(k) = {} /\ Registered(k) = {} /\ Removers(k) = {}
    BY <2>1 DEF Init, Uncounted, Registered, Removers
  <2>3. QED
    BY <2>1, <2>2, FS_EmptySet DEF Init
<1>3. TypeOK /\ DetachInv /\ ClosingIsDecided /\ CountCoversConsumers /\ [Next]_vars
         => (TypeOK /\ DetachInv /\ ClosingIsDecided /\ CountCoversConsumers)'
  BY TypeStep, DetachStep, ClosingStep, CountStep
<1>4. QED
  BY <1>1, <1>2, <1>3, PTL DEF Spec
=============================================================================
