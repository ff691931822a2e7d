-------------------------- MODULE PackDelivery_proofs --------------------------
(***************************************************************************)
(* Proofs about the delivery of packs, for any number of consumers and of  *)
(* packs, any parameter kinds and shapes, any queue limit and any distance *)
(* of key frames: the cache holds the current GOP, a queue is bounded, and *)
(* delivery implements PackFeed.                                           *)
(*                                                                         *)
(* The packs that a consumer has been through are the packs up to          *)
(* Handled(c).  Between two key frames consumption.send changes nothing    *)
(* but the queue, so that both what was fed last (FeedGoesOn) and the      *)
(* length of the queue (QueueFollowsGop) follow from Handled(c) and the    *)
(* last key frame before it.                                               *)
(***************************************************************************)
EXTENDS PackDelivery, FiniteSetTheorems, SequenceTheorems, WellFoundedInduction, TLAPS

\* The writer numbers the packs, and a key frame comes among any MaxGop packs.
PacksAreNumbered == \A i \in 1..Len(published) : published[i].n = i

KeysAreFrequent ==
    \A a, b \in 1..Len(published) :
        a =< b /\ (\A j \in (a + 1)..b : ~IsKeyframe(published[j])) => b - a < MaxGop

WriterIsAt ==
    /\ writing # "no" => published # <<>>
    /\ writing # "range" => left = {}
    /\ \A c \in left : joined[c] \in {"stored", "removed"}

ParamsAreParams ==
    \A k \in ParamKind : params[k] # NoPack =>
        IsParam(params[k]) /\ params[k].n =< Len(published)

\* While the stream is open each is the newest of its kind that was seen.
ParamsAreNewest ==
    status = "OK" => \A k \in ParamKind : IsNewestParam(params[k], k, Seen)

\* Position k is that of the last key frame up to position h, or there is none.
LastKey(k, h) ==
    /\ k \in 1..h
    /\ IsKeyframe(published[k])
    /\ \A j \in (k + 1)..h : ~IsKeyframe(published[j])

NoKey(h) == \A j \in 1..h : ~IsKeyframe(published[j])

GopIsCurrent ==
    /\ gop # <<>> => CacheGop /\ \E k \in 1..Seen :
          /\ LastKey(k, Seen)
          /\ Promise!IsGopOf(gop, k, Seen)
          /\ Len(gop) =< Seen - k + 1
    /\ CacheGop /\ status = "OK" /\ gop = <<>> => NoKey(Seen)

\* What was pushed, popped and pushed by sendGop.
FeedIsCounted(c) ==
    /\ popped[c] =< Len(pushed[c])
    /\ prefix[c] =< Len(pushed[c])
    /\ \A i \in 1..Len(pushed[c]) : pushed[c][i].n =< Len(published)
    /\ joined[c] = "no" => pushed[c] = <<>>
    /\ joined[c] \in {"no", "gopSent"} =>
          Len(pushed[c]) = prefix[c] /\ ~discarding[c] /\ popped[c] = 0

\* The consumptions that the writer may still visit, and up to which pack it
\* has done so.
Active(c)  == joined[c] = "stored" \/ c \in left
Handled(c) == IF writing = "cache" \/ c \in left THEN Len(published) - 1 ELSE Len(published)

\* Once its live packs began, a consumer has all that was handled, or has
\* everything up to a key frame.
FeedGoesOn(c) ==
    Active(c) /\ Len(pushed[c]) > prefix[c] =>
        LET last == pushed[c][Len(pushed[c])].n IN
        IF discarding[c] THEN last + 1 \in 1..Handled(c) /\ IsKeyframe(published[last + 1])
                         ELSE last = Handled(c)

\* What sendGop pushed.
JoinIsBounded(c) ==
    joined[c] = "gopSent" => /\ QueueLen(c) =< Len(ParamOrder) + MaxGop
                             /\ NoKey(Seen) => QueueLen(c) =< Len(ParamOrder)

\* The queue q of a consumer that is not discarding, when h packs were handled.
Grown(h, q) ==
    \/ \E k \in 1..h : /\ LastKey(k, h)
                       /\ \/ q =< MaxQLen + 1 + (h - k)
                          \/ q =< Len(ParamOrder) + MaxGop + (h - k)
    \/ NoKey(h) /\ q =< Len(ParamOrder) + h
    \/ h < Len(published) /\ IsKeyframe(Newest) /\ q =< Len(ParamOrder) + MaxGop

QueueFollowsGop(c) == Active(c) /\ ~discarding[c] => Grown(Handled(c), QueueLen(c))

ConsumerIsServed(c) ==
    /\ FeedIsCounted(c)
    /\ FeedGoesOn(c)
    /\ JoinIsBounded(c)
    /\ QueueFollowsGop(c)
    /\ QueueLen(c) =< QueueBound

WriterInv ==
    /\ PacksAreNumbered
    /\ KeysAreFrequent
    /\ ParamsAreParams
    /\ ParamsAreNewest
    /\ GopIsCurrent

ConsumerInv == WriterIsAt /\ \A c \in Consumption : ConsumerIsServed(c)

IInv == TypeOK /\ WriterInv /\ ConsumerInv

-----------------------------------------------------------------------------
(* Lemmas.                                                                 *)

\* What the assumptions say of the constants.
LEMMA ConstantsAreNumbers ==
    /\ MaxQLen \in Nat /\ MaxGop \in Nat /\ MaxGop > 0 /\ Len(ParamOrder) \in Nat
    /\ NoPack \notin Pack
    /\ \A i \in 1..Len(ParamOrder) : ParamOrder[i] \in ParamKind
<1>1. MaxQLen \in Nat /\ MaxGop \in Nat \ {0} /\ ParamOrder \in Seq(ParamKind)
  BY DeliveryAssumption
<1> QED
  BY <1>1, NoPackAssumption

\* What the state's types say of the counters.
LEMMA CountsAreNumbers ==
    ASSUME TypeOK
    PROVE  /\ Len(published) \in Nat /\ Seen \in Int /\ Len(gop) \in Nat
           /\ published # <<>> => Len(published) >= 1 /\ Newest \in Pack
           /\ \A i \in 1..Len(published) : published[i] \in Pack
           /\ \A c \in Consumption :
                 /\ Len(pushed[c]) \in Nat /\ popped[c] \in Nat /\ prefix[c] \in Nat
                 /\ QueueLen(c) \in Int /\ Handled(c) \in Int
                 /\ pushed[c] \in Seq(Pack)
                 /\ \A i \in 1..Len(pushed[c]) : pushed[c][i] \in Pack /\ pushed[c][i].n \in Nat
<1>1. Len(published) \in Nat /\ Seen \in Int /\ Len(gop) \in Nat
  BY DEF TypeOK, Seen
<1>2. \A i \in 1..Len(published) : published[i] \in Pack
  BY DEF TypeOK
<1>3. published # <<>> => Len(published) >= 1 /\ Newest \in Pack
  BY <1>1, <1>2 DEF TypeOK, Newest
<1>4. ASSUME NEW c \in Consumption
      PROVE  /\ Len(pushed[c]) \in Nat /\ popped[c] \in Nat /\ prefix[c] \in Nat
             /\ QueueLen(c) \in Int /\ Handled(c) \in Int
             /\ pushed[c] \in Seq(Pack)
             /\ \A i \in 1..Len(pushed[c]) : pushed[c][i] \in Pack /\ pushed[c][i].n \in Nat
  <2>1. pushed[c] \in Seq(Pack) /\ popped[c] \in Nat /\ prefix[c] \in Nat
    BY DEF TypeOK
  <2>2. \A i \in 1..Len(pushed[c]) : pushed[c][i] \in Pack
    BY <2>1
  <2> QED
    BY <1>1, <2>1, <2>2 DEF QueueLen, Handled, Pack
<1> QED
  BY <1>1, <1>2, <1>3, <1>4

\* What is said of the packs up to position L depends on those packs only.
LEMMA PacksStay ==
    ASSUME NEW L \in Int, \A j \in 1..L : published'[j] = published[j]
    PROVE  /\ \A k : \A h \in Int : h =< L => (LastKey(k, h)' <=> LastKey(k, h))
           /\ \A h \in Int : h =< L => (NoKey(h)' <=> NoKey(h))
           /\ \A packs : \A k, h \in Int : k >= 1 /\ h =< L =>
                 (Promise!IsGopOf(packs, k, h)' <=> Promise!IsGopOf(packs, k, h))
<1>1. \A j \in 1..L : IsKeyframe(published[j])' <=> IsKeyframe(published[j])
  BY DEF IsKeyframe, InGop
<1>2. ASSUME NEW k, NEW h \in Int, h =< L
      PROVE  LastKey(k, h)' <=> LastKey(k, h)
  BY <1>1, <1>2 DEF LastKey
<1>3. ASSUME NEW h \in Int, h =< L
      PROVE  NoKey(h)' <=> NoKey(h)
  BY <1>1, <1>3 DEF NoKey
<1>4. ASSUME NEW packs, NEW k \in Int, NEW h \in Int, k >= 1, h =< L
      PROVE  Promise!IsGopOf(packs, k, h)' <=> Promise!IsGopOf(packs, k, h)
  <2>1. \A j \in k..h : published'[j] = published[j]
    BY <1>4
  <2>2. {published'[i] : i \in {j \in k..h : InGop(published'[j])}}
           = {published[i] : i \in {j \in k..h : InGop(published[j])}}
    BY <2>1
  <2> QED
    BY <2>2 DEF Promise!IsGopOf, InGop
<1> QED
  BY <1>2, <1>3, <1>4

\* What is said of a parameter pack depends on the packs up to h only.
LEMMA NewestParamStays ==
    ASSUME NEW h \in Int, NEW p, NEW k, \A i \in 1..h : published'[i] = published[i],
           IsNewestParam(p, k, h)
    PROVE  IsNewestParam(p, k, h)'
<1>1. \A i \in 1..h : IsParamOf(published[i], k)' <=> IsParamOf(published[i], k)
  BY DEF IsParamOf, IsParam, ParamOf
<1>2. CASE p = NoPack /\ \A i \in 1..h : ~IsParamOf(published[i], k)
  BY <1>1, <1>2 DEF IsNewestParam
<1>3. ASSUME NEW i \in 1..h, p = published[i], IsParamOf(published[i], k),
             \A j \in (i + 1)..h : ~IsParamOf(published[j], k)
      PROVE  IsNewestParam(p, k, h)'
  <2>1. p = published'[i] /\ IsParamOf(published[i], k)'
    BY <1>1, <1>3
  <2>2. \A j \in (i + 1)..h : j \in 1..h
    OBVIOUS
  <2>3. \A j \in (i + 1)..h : ~IsParamOf(published[j], k)'
    BY <1>1, <1>3, <2>2
  <2> QED
    BY <2>1, <2>3 DEF IsNewestParam
<1> QED
  BY <1>2, <1>3 DEF IsNewestParam

\* CachePack stores a parameter pack as the one of its kind.
LEMMA NewestParamGoesOn ==
    ASSUME NEW L \in Nat, L > 0, NEW p, NEW q, NEW k, IsNewestParam(p, k, L - 1),
           q = (IF IsParamOf(published[L], k) THEN published[L] ELSE p)
    PROVE  IsNewestParam(q, k, L)
<1>1. CASE IsParamOf(published[L], k)
  <2>1. q = published[L] /\ L \in 1..L /\ \A j \in (L + 1)..L : ~IsParamOf(published[j], k)
    BY <1>1
  <2> QED
    BY <1>1, <2>1 DEF IsNewestParam
<1>2. CASE ~IsParamOf(published[L], k) /\ p = NoPack
                /\ \A i \in 1..(L - 1) : ~IsParamOf(published[i], k)
  <2>1. \A i \in 1..L : ~IsParamOf(published[i], k)
    BY <1>2
  <2> QED
    BY <1>2, <2>1 DEF IsNewestParam
<1>3. ASSUME ~IsParamOf(published[L], k),
             NEW i \in 1..(L - 1), p = published[i], IsParamOf(published[i], k),
             \A j \in (i + 1)..(L - 1) : ~IsParamOf(published[j], k)
      PROVE  IsNewestParam(q, k, L)
  <2>1. i \in 1..L /\ \A j \in (i + 1)..L : ~IsParamOf(published[j], k)
    BY <1>3
  <2> QED
    BY <1>3, <2>1 DEF IsNewestParam
<1> QED
  BY <1>1, <1>2, <1>3 DEF IsNewestParam

\* A set of numbers that is not empty has a least one.
LEMMA LeastExists ==
    ASSUME NEW T \in SUBSET Nat, T # {}
    PROVE  \E x \in T : \A y \in T : x =< y
<1>1. PICK R : R = OpToRel(<, Nat)
  OBVIOUS
<1>2. IsWellFoundedOn(R, Nat)
  BY <1>1, NatLessThanWellFounded
<1>3. \A y, x \in Nat : y < x => <<y, x>> \in R
  BY <1>1 DEF OpToRel
<1>4. PICK x \in T : \A y \in T : ~ (<<y, x>> \in R)
  BY <1>2, WFMin
<1>5. ASSUME NEW y \in T
      PROVE  x =< y
  <2>1. x \in Nat /\ y \in Nat /\ ~(y < x)
    BY <1>3, <1>4
  <2> QED
    BY <2>1
<1> QED
  BY <1>5

\* When there is a key frame up to position h, there is a last one.
LEMMA LastKeyExists ==
    ASSUME NEW h \in Nat, ~NoKey(h)
    PROVE  \E k \in 1..h : LastKey(k, h)
<1>1. PICK j \in 1..h : IsKeyframe(published[j])
  BY DEF NoKey
<1>t. PICK T : T = {d \in 0..h : h - d \in 1..h /\ IsKeyframe(published[h - d])}
  OBVIOUS
<1>2. T \in SUBSET Nat /\ T # {}
  <2>1. h - j \in 0..h /\ h - (h - j) = j
    OBVIOUS
  <2>2. h - j \in T
    BY <1>1, <1>t, <2>1
  <2>3. \A d \in T : d \in Nat
    BY <1>t
  <2> QED
    BY <2>2, <2>3
<1>3. PICK d \in T : \A e \in T : d =< e
  BY <1>2, LeastExists
<1>4. LastKey(h - d, h)
  <2>1. d \in 0..h /\ h - d \in 1..h /\ IsKeyframe(published[h - d])
    BY <1>t, <1>3
  <2>2. ASSUME NEW i \in (h - d + 1)..h
        PROVE  ~IsKeyframe(published[i])
    <3>1. h - i \in 0..h /\ h - (h - i) = i /\ i \in 1..h /\ ~(d =< h - i)
      BY <2>1
    <3> QED
      BY <1>t, <1>3, <3>1
  <2> QED
    BY <2>1, <2>2 DEF LastKey
<1> QED
  BY <1>4 DEF LastKey

-----------------------------------------------------------------------------
(* The writer.                                                             *)

\* What the bound on the source says: the packs since the last key frame, the
\* new one included, are MaxGop at most.
LEMMA WriteKeepsKeysFrequent ==
    ASSUME TypeOK, KeysAreFrequent, NEW s \in Shape, Write(s)
    PROVE  KeysAreFrequent'
<1> DEFINE L == Len(published)
<1>p. PICK p : p = [n |-> L + 1, shape |-> s]
  OBVIOUS
<1>1. /\ published \in Seq(Pack) /\ L \in Nat /\ p \in Pack
      /\ published' = Append(published, p)
      /\ IsKeyframe(p) \/ SinceKey < MaxGop
  BY <1>p, CountsAreNumbers DEF Write, TypeOK, Pack
<1>2. /\ Len(published') = L + 1 /\ published'[L + 1] = p
      /\ \A j \in 1..L : published'[j] = published[j]
  BY <1>1
<1>3. /\ IsKeyframe(p)' <=> IsKeyframe(p)
      /\ \A j \in 1..L : IsKeyframe(published[j])' <=> IsKeyframe(published[j])
  BY <1>2 DEF IsKeyframe, InGop
<1> SUFFICES ASSUME NEW a \in 1..(L + 1), NEW b \in 1..(L + 1), a =< b,
                    \A j \in (a + 1)..b : ~IsKeyframe(published'[j])
             PROVE  b - a < MaxGop
  BY <1>2 DEF KeysAreFrequent, IsKeyframe, InGop
<1>4. CASE a = b
  BY <1>4, ConstantsAreNumbers
<1>5. CASE b < L + 1
  <2>1. \A j \in (a + 1)..b : ~IsKeyframe(published[j])
    BY <1>1, <1>2, <1>5
  <2> QED
    BY <1>1, <1>5, <2>1 DEF KeysAreFrequent
<1>6. CASE a < b /\ b = L + 1
  <2>1. SinceKey < MaxGop
    BY <1>1, <1>2, <1>6
  <2>2. \A j \in (a + 1)..L : ~IsKeyframe(published[j])
    BY <1>1, <1>2, <1>6
  <2> DEFINE Since == {i \in 1..L : \A j \in (i + 1)..L : ~IsKeyframe(published[j])}
  <2>3. a..L \in SUBSET Since /\ Since \in SUBSET (1..L)
    BY <1>1, <2>2
  <2>4. IsFiniteSet(Since)
    <3>1. IsFiniteSet(1..L)
      BY <1>1, FS_Interval
    <3> HIDE DEF Since
    <3> QED
      BY <2>3, <3>1, FS_Subset
  <2>5. Cardinality(a..L) =< Cardinality(Since) /\ Cardinality(Since) \in Nat
    <3> HIDE DEF Since
    <3> QED
      BY <2>3, <2>4, FS_Subset, FS_CardinalityType
  <2>6. Cardinality(a..L) = L - a + 1
    BY <1>1, <1>6, FS_Interval
  <2>7. SinceKey = Cardinality(Since)
    BY DEF SinceKey
  <2> QED
    BY <1>1, <1>6, <2>1, <2>5, <2>6, <2>7, ConstantsAreNumbers
<1> QED
  BY <1>1, <1>4, <1>5, <1>6

\* A new pack is not seen by the cache, nor handled for any consumer, yet.
LEMMA WriteKeepsInv ==
    ASSUME IInv, NEW s \in Shape, Write(s)
    PROVE  IInv'
<1>L. PICK L : L = Len(published)
  OBVIOUS
<1>p. PICK p : p = [n |-> L + 1, shape |-> s]
  OBVIOUS
<1>1. /\ published \in Seq(Pack) /\ L \in Nat /\ p \in Pack /\ p.n = L + 1
      /\ published' = Append(published, p)
      /\ writing = "no" /\ writing' = "cache"
      /\ UNCHANGED <<status, left, params, gop, joined, pushed, popped, prefix, discarding>>
  BY <1>L, <1>p, CountsAreNumbers DEF Write, IInv, TypeOK, Pack, cacheVars, queueVars
<1>2. /\ Len(published') = L + 1 /\ published'[L + 1] = p
      /\ \A j \in 1..L : published'[j] = published[j]
  BY <1>1, <1>L
<1>3. /\ \A k : \A h \in Int : h =< L => (LastKey(k, h)' <=> LastKey(k, h))
      /\ \A h \in Int : h =< L => (NoKey(h)' <=> NoKey(h))
      /\ \A packs : \A k, h \in Int : k >= 1 /\ h =< L =>
            (Promise!IsGopOf(packs, k, h)' <=> Promise!IsGopOf(packs, k, h))
  BY <1>1, <1>2, PacksStay
<1>k. \A j \in 1..L : IsKeyframe(published'[j]) <=> IsKeyframe(published[j])
  BY <1>2
<1>4. TypeOK'
  <2>1. published' \in Seq(Pack)
    BY <1>1
  <2> QED
    BY <1>1, <2>1 DEF IInv, TypeOK
<1>5. Seen' = L /\ Seen = L
  BY <1>1, <1>2, <1>L DEF Seen
<1>6. PacksAreNumbered'
  BY <1>1, <1>2, <1>L DEF IInv, WriterInv, PacksAreNumbered
<1>7. KeysAreFrequent'
  BY WriteKeepsKeysFrequent DEF IInv, WriterInv
<1>8. ParamsAreParams'
  <2>1. \A k \in ParamKind : params[k] # NoPack => params[k] \in Pack
    BY DEF IInv, TypeOK
  <2>2. \A k \in ParamKind : params[k] # NoPack => params[k].n \in Nat
    BY <2>1 DEF Pack
  <2> QED
    BY <1>1, <1>2, <1>L, <2>2 DEF IInv, WriterInv, ParamsAreParams, IsParam
<1>9. GopIsCurrent'
  <2>1. gop # <<>> => CacheGop /\ \E k \in 1..L :
            LastKey(k, L)' /\ Promise!IsGopOf(gop, k, L)' /\ Len(gop) =< L - k + 1
    BY <1>1, <1>3, <1>5 DEF IInv, WriterInv, GopIsCurrent
  <2>2. CacheGop /\ status = "OK" /\ gop = <<>> => NoKey(L)'
    BY <1>1, <1>3, <1>5 DEF IInv, WriterInv, GopIsCurrent
  <2> QED
    BY <1>1, <1>5, <2>1, <2>2 DEF GopIsCurrent, LastKey, NoKey, Promise!IsGopOf
<1>n. ParamsAreNewest'
  <2> SUFFICES ASSUME status = "OK", NEW k \in ParamKind
               PROVE  IsNewestParam(params[k], k, L)'
    BY <1>1, <1>5 DEF ParamsAreNewest, IsNewestParam
  <2>1. IsNewestParam(params[k], k, L)
    BY <1>5 DEF IInv, WriterInv, ParamsAreNewest
  <2>p. PICK q : q = params[k]
    OBVIOUS
  <2>2. IsNewestParam(q, k, L)'
    BY <1>1, <1>2, <2>1, <2>p, NewestParamStays
  <2> QED
    BY <1>1, <2>2, <2>p DEF IsNewestParam
<1>10. left = {} /\ left' = {} /\ WriterIsAt'
  BY <1>1, <1>2 DEF IInv, ConsumerInv, WriterIsAt
<1>11. SUFFICES ASSUME NEW c \in Consumption
                PROVE  ConsumerIsServed(c)'
  BY <1>4, <1>6, <1>7, <1>8, <1>9, <1>10, <1>n DEF IInv, WriterInv, ConsumerInv
<1>12. ConsumerIsServed(c)
  BY DEF IInv, ConsumerInv
<1>13. /\ Handled(c) = L /\ Handled(c)' = L /\ QueueLen(c)' = QueueLen(c)
       /\ Active(c)' <=> Active(c)
  BY <1>1, <1>2, <1>10, <1>L DEF Handled, QueueLen, Active
<1>14. FeedIsCounted(c)'
  BY <1>1, <1>2, <1>12, <1>L, CountsAreNumbers DEF IInv, ConsumerIsServed, FeedIsCounted
<1>15. FeedGoesOn(c)'
  <2> SUFFICES ASSUME Active(c), Len(pushed[c]) > prefix[c],
                      NEW last, last = pushed[c][Len(pushed[c])].n
               PROVE  IF discarding[c] THEN last + 1 \in 1..L /\ IsKeyframe(published'[last + 1])
                                       ELSE last = L
    BY <1>1, <1>13 DEF FeedGoesOn, IsKeyframe, InGop
  <2>1. IF discarding[c] THEN last + 1 \in 1..L /\ IsKeyframe(published[last + 1])
                         ELSE last = L
    BY <1>12, <1>13 DEF ConsumerIsServed, FeedGoesOn
  <2> QED
    BY <1>k, <2>1
<1>16. JoinIsBounded(c)'
  <2>1. NoKey(Seen)' <=> NoKey(L)'
    BY <1>5 DEF NoKey
  <2>2. NoKey(Seen)' <=> NoKey(Seen)
    BY <1>1, <1>3, <1>5, <2>1
  <2> QED
    BY <1>1, <1>12, <1>13, <2>2 DEF ConsumerIsServed, JoinIsBounded
<1>17. QueueFollowsGop(c)'
  <2> SUFFICES ASSUME Active(c), ~discarding[c], NEW q, q = QueueLen(c)
               PROVE  Grown(L, q)'
    BY <1>1, <1>13 DEF QueueFollowsGop, Grown, LastKey, NoKey
  <2>1. Grown(L, q)
    BY <1>12, <1>13 DEF ConsumerIsServed, QueueFollowsGop
  <2>2. \/ NoKey(L) /\ q =< Len(ParamOrder) + L
        \/ \E k \in 1..L : /\ LastKey(k, L)
                           /\ \/ q =< MaxQLen + 1 + (L - k)
                              \/ q =< Len(ParamOrder) + MaxGop + (L - k)
    BY <1>1, <1>L, <2>1 DEF Grown
  <2>3. (NoKey(L)' <=> NoKey(L)) /\ \A k : LastKey(k, L)' <=> LastKey(k, L)
    BY <1>1, <1>3
  <2> QED
    BY <2>2, <2>3 DEF Grown
<1>18. QueueLen(c)' =< QueueBound
  BY <1>12, <1>13 DEF ConsumerIsServed
<1> QED
  BY <1>14, <1>15, <1>16, <1>17, <1>18 DEF ConsumerIsServed, QueueBound

\* Without a new pack, what is said of the packs stays.
LEMMA PublishedStays ==
    ASSUME published' = published
    PROVE  /\ \A k, h : LastKey(k, h)' <=> LastKey(k, h)
           /\ \A h : NoKey(h)' <=> NoKey(h)
           /\ \A packs, k, h : Promise!IsGopOf(packs, k, h)' <=> Promise!IsGopOf(packs, k, h)
           /\ \A h, q : Grown(h, q)' <=> Grown(h, q)
<1>1. \A k, h : LastKey(k, h)' <=> LastKey(k, h)
  BY DEF LastKey, IsKeyframe, InGop
<1>2. \A h : NoKey(h)' <=> NoKey(h)
  BY DEF NoKey, IsKeyframe, InGop
<1>3. \A packs, k, h : Promise!IsGopOf(packs, k, h)' <=> Promise!IsGopOf(packs, k, h)
  BY DEF Promise!IsGopOf, InGop
<1>4. IsKeyframe(Newest)' <=> IsKeyframe(Newest)
  BY DEF IsKeyframe, InGop, Newest
<1>5. \A h, q : Grown(h, q)' <=> Grown(h, q)
  BY <1>1, <1>2, <1>4 DEF Grown
<1> QED
  BY <1>1, <1>2, <1>3, <1>5

\* A shorter queue is within the same bounds.
LEMMA ShorterIsGrown ==
    ASSUME TypeOK, NEW h \in Int, NEW q \in Int, NEW r \in Int, r =< q, Grown(h, q)
    PROVE  Grown(h, r)
<1>1. MaxQLen \in Nat /\ MaxGop \in Nat /\ Len(ParamOrder) \in Nat
  BY ConstantsAreNumbers
<1>2. CASE NoKey(h) /\ q =< Len(ParamOrder) + h
  BY <1>1, <1>2 DEF Grown
<1>3. CASE h < Len(published) /\ IsKeyframe(Newest) /\ q =< Len(ParamOrder) + MaxGop
  BY <1>1, <1>3 DEF Grown
<1>4. ASSUME NEW k \in 1..h, LastKey(k, h),
             \/ q =< MaxQLen + 1 + (h - k)
             \/ q =< Len(ParamOrder) + MaxGop + (h - k)
      PROVE  Grown(h, r)
  <2>1. \/ r =< MaxQLen + 1 + (h - k)
        \/ r =< Len(ParamOrder) + MaxGop + (h - k)
    BY <1>1, <1>4
  <2> QED
    BY <1>4, <2>1 DEF Grown
<1> QED
  BY <1>2, <1>3, <1>4 DEF Grown

\* Nothing is new for a consumer when nothing is pushed to its queue, it does
\* not join, and the writer has been through the same packs.
LEMMA ConsumerStays ==
    ASSUME TypeOK, NEW c \in Consumption, ConsumerIsServed(c), published' = published,
           pushed'[c] = pushed[c], prefix'[c] = prefix[c], discarding'[c] = discarding[c],
           popped'[c] \in popped[c]..Len(pushed[c]),
           joined'[c] \in {"no", "gopSent"} => joined'[c] = joined[c] /\ popped'[c] = popped[c],
           Active(c)' => Active(c) /\ Handled(c)' = Handled(c),
           NoKey(Seen)' => NoKey(Seen)
    PROVE  ConsumerIsServed(c)'
<1>1. /\ QueueLen(c) \in Int /\ QueueLen(c)' \in Int /\ Handled(c) \in Int
      /\ QueueLen(c)' =< QueueLen(c)
      /\ popped[c] \in Nat /\ Len(pushed[c]) \in Nat
  BY CountsAreNumbers DEF QueueLen
<1>2. FeedIsCounted(c)'
  BY <1>1 DEF ConsumerIsServed, FeedIsCounted
<1>3. FeedGoesOn(c)'
  <2> SUFFICES ASSUME Active(c)', Len(pushed[c]) > prefix[c],
                      NEW last, last = pushed[c][Len(pushed[c])].n
               PROVE  IF discarding[c] THEN /\ last + 1 \in 1..Handled(c)
                                            /\ IsKeyframe(published[last + 1])
                                       ELSE last = Handled(c)
    BY DEF FeedGoesOn, IsKeyframe, InGop
  <2> QED
    BY DEF ConsumerIsServed, FeedGoesOn
<1>4. JoinIsBounded(c)'
  BY <1>1, ConstantsAreNumbers DEF ConsumerIsServed, JoinIsBounded
<1>5. QueueFollowsGop(c)'
  <2> SUFFICES ASSUME Active(c)', ~discarding[c],
                      NEW h, h = Handled(c)', NEW q, q = QueueLen(c)'
               PROVE  Grown(h, q)'
    BY DEF QueueFollowsGop, Grown, LastKey, NoKey
  <2>1. Grown(Handled(c), QueueLen(c)) /\ h = Handled(c)
    BY DEF ConsumerIsServed, QueueFollowsGop
  <2>2. Grown(h, q)
    BY <1>1, <2>1, ShorterIsGrown
  <2> QED
    BY <2>2, PublishedStays
<1>6. QueueLen(c)' =< QueueBound
  BY <1>1, ConstantsAreNumbers DEF ConsumerIsServed, QueueBound
<1> QED
  BY <1>2, <1>3, <1>4, <1>5, <1>6 DEF ConsumerIsServed, QueueBound

\* How the GOP goes on with the next pack.
LEMMA GopGoesOn ==
    ASSUME TypeOK, PacksAreNumbered, NEW h \in Nat, h < Len(published), NEW k \in 1..h,
           Promise!IsGopOf(gop, k, h), NEW p, p = published[h + 1]
    PROVE  /\ ~InGop(p) => Promise!IsGopOf(gop, k, h + 1)
           /\ InGop(p) => Promise!IsGopOf(Append(gop, p), k, h + 1)
<1>1. /\ gop \in Seq(Pack) /\ Len(gop) \in Nat /\ p \in Pack /\ p.n = h + 1
      /\ Len(published) \in Nat /\ k \in Nat
  BY CountsAreNumbers DEF TypeOK, PacksAreNumbered
<1>2. k..(h + 1) = (k..h) \cup {h + 1}
  BY <1>1
<1> DEFINE Counted(b) == {published[i] : i \in {j \in k..b : InGop(published[j])}}
           Elems(s) == {s[i] : i \in 1..Len(s)}
<1>3. Elems(gop) = Counted(h) /\ \A i, j \in 1..Len(gop) : i < j => gop[i].n < gop[j].n
  BY DEF Promise!IsGopOf
<1>4. ASSUME ~InGop(p)
      PROVE  Promise!IsGopOf(gop, k, h + 1)
  <2>1. Counted(h + 1) = Counted(h)
    BY <1>2, <1>4
  <2> QED
    BY <1>3, <2>1 DEF Promise!IsGopOf
<1>5. ASSUME InGop(p)
      PROVE  Promise!IsGopOf(Append(gop, p), k, h + 1)
  <2>s. PICK s : s = Append(gop, p)
    OBVIOUS
  <2>1. Counted(h + 1) = Counted(h) \cup {p}
    BY <1>2, <1>5
  <2>2. /\ Len(s) = Len(gop) + 1 /\ s[Len(gop) + 1] = p
        /\ \A i \in 1..Len(gop) : s[i] = gop[i]
    BY <1>1, <2>s
  <2>3. Elems(s) = Elems(gop) \cup {p}
    BY <1>1, <2>2
  <2>4. \A i \in 1..Len(gop) : gop[i].n \in Nat /\ gop[i].n < p.n
    <3> SUFFICES ASSUME NEW i \in 1..Len(gop)
                 PROVE  gop[i].n \in Nat /\ gop[i].n < p.n
      OBVIOUS
    <3>1. gop[i] \in Counted(h)
      BY <1>3
    <3>2. PICK j \in k..h : gop[i] = published[j]
      BY <3>1
    <3>3. published[j].n = j
      BY <1>1 DEF PacksAreNumbered
    <3> QED
      BY <1>1, <3>2, <3>3
  <2>5. \A i, j \in 1..Len(s) : i < j => s[i].n < s[j].n
    <3> SUFFICES ASSUME NEW i \in 1..Len(s), NEW j \in 1..Len(s), i < j
                 PROVE  s[i].n < s[j].n
      OBVIOUS
    <3>1. i \in 1..Len(gop) /\ s[i] = gop[i]
      BY <1>1, <2>2
    <3>2. CASE j = Len(gop) + 1
      BY <2>2, <2>4, <3>1, <3>2
    <3>3. CASE j # Len(gop) + 1
      <4>1. j \in 1..Len(gop) /\ s[j] = gop[j]
        BY <1>1, <2>2, <3>3
      <4> QED
        BY <1>3, <3>1, <4>1
    <3> QED
      BY <3>2, <3>3
  <2>6. Elems(s) = Counted(h + 1)
    BY <1>3, <2>1, <2>3
  <2> QED
    BY <2>5, <2>6, <2>s DEF Promise!IsGopOf
<1> QED
  BY <1>4, <1>5

\* CachePack takes the newest pack in, and the cached GOP is current again.
LEMMA CachePackKeepsGop ==
    ASSUME IInv, CachePack
    PROVE  gop' \in Seq(Pack) /\ GopIsCurrent'
<1>L. PICK L : L = Len(published)
  OBVIOUS
<1>p. PICK p : p = published[L]
  OBVIOUS
<1>1. /\ L \in Nat /\ L >= 1 /\ p \in Pack /\ p = Newest
      /\ Seen = L - 1 /\ Seen' = L /\ gop \in Seq(Pack)
      /\ published' = published /\ status' = status
  BY <1>L, <1>p, CountsAreNumbers
  DEF IInv, ConsumerInv, WriterIsAt, CachePack, Seen, Newest, TypeOK
<1>2. gop' = IF ~CacheGop \/ ~InGop(p) THEN gop
             ELSE IF IsKeyframe(p) THEN <<p>>
             ELSE IF gop # <<>> THEN Append(gop, p)
             ELSE gop
  BY <1>1 DEF CachePack
<1>3. gop' \in Seq(Pack)
  BY <1>1, <1>2
<1>4. 1..L = (1..(L - 1)) \cup {L}
  BY <1>1
<1>5. ~IsKeyframe(p) => /\ NoKey(L - 1) => NoKey(L)
                        /\ \A k : LastKey(k, L - 1) => LastKey(k, L)
  <2> SUFFICES ASSUME ~IsKeyframe(p)
               PROVE  /\ NoKey(L - 1) => NoKey(L)
                      /\ \A k : LastKey(k, L - 1) => LastKey(k, L)
    OBVIOUS
  <2>1. NoKey(L - 1) => NoKey(L)
    BY <1>4, <1>p DEF NoKey
  <2>2. ASSUME NEW k, LastKey(k, L - 1)
        PROVE  LastKey(k, L)
    <3>1. k \in 1..(L - 1) /\ k \in 1..L
      BY <1>1, <2>2 DEF LastKey
    <3>2. (k + 1)..L = ((k + 1)..(L - 1)) \cup {L}
      BY <1>1, <3>1
    <3> QED
      BY <1>p, <2>2, <3>1, <3>2 DEF LastKey
  <2> QED
    BY <2>1, <2>2
\* What there is to show, without primes.
<1>g. SUFFICES ASSUME NEW g, g = gop'
               PROVE  /\ g # <<>> => CacheGop /\ \E k \in 1..L :
                            LastKey(k, L) /\ Promise!IsGopOf(g, k, L) /\ Len(g) =< L - k + 1
                      /\ CacheGop /\ status = "OK" /\ g = <<>> => NoKey(L)
  <2>1. PICK g : g = gop'
    OBVIOUS
  <2>2. /\ g # <<>> => CacheGop /\ \E k \in 1..L :
              LastKey(k, L) /\ Promise!IsGopOf(g, k, L) /\ Len(g) =< L - k + 1
        /\ CacheGop /\ status = "OK" /\ g = <<>> => NoKey(L)
    BY <1>g, <2>1
  <2>3. /\ \A k, h : LastKey(k, h)' <=> LastKey(k, h)
        /\ \A h : NoKey(h)' <=> NoKey(h)
        /\ \A packs, k, h : Promise!IsGopOf(packs, k, h)' <=> Promise!IsGopOf(packs, k, h)
    BY <1>1, PublishedStays
  <2>4. /\ g # <<>> => CacheGop /\ \E k \in 1..L :
              LastKey(k, L)' /\ Promise!IsGopOf(g, k, L)' /\ Len(g) =< L - k + 1
        /\ CacheGop /\ status = "OK" /\ g = <<>> => NoKey(L)'
    BY <2>2, <2>3
  <2>5. GopIsCurrent'
    BY <1>1, <2>1, <2>4 DEF GopIsCurrent, LastKey, NoKey, Promise!IsGopOf
  <2> QED
    BY <1>3, <2>5
<1>6. gop # <<>> => CacheGop /\ \E k \in 1..(L - 1) :
          LastKey(k, L - 1) /\ Promise!IsGopOf(gop, k, L - 1) /\ Len(gop) =< (L - 1) - k + 1
  BY <1>1 DEF IInv, WriterInv, GopIsCurrent
<1>7. CacheGop /\ status = "OK" /\ gop = <<>> => NoKey(L - 1)
  BY <1>1 DEF IInv, WriterInv, GopIsCurrent
<1>8. IsKeyframe(p) => InGop(p)
  BY DEF IsKeyframe
<1>9. CASE ~CacheGop
  BY <1>2, <1>6, <1>9, <1>g
<1>10. CASE CacheGop /\ IsKeyframe(p)
  <2>1. g = <<p>>
    BY <1>2, <1>8, <1>10, <1>g
  <2>2. LastKey(L, L)
    BY <1>1, <1>10, <1>p DEF LastKey
  <2>3. Promise!IsGopOf(<<p>>, L, L)
    <3>s. PICK s : s = <<p>>
      OBVIOUS
    <3>1. Len(s) = 1 /\ s[1] = p
      BY <3>s
    <3>2. \A i, j \in 1..Len(s) : i < j => s[i].n < s[j].n
      BY <3>1
    <3>3. {s[i] : i \in 1..Len(s)} = {p}
      BY <3>1
    <3>4. {j \in L..L : InGop(published[j])} = {L}
      BY <1>1, <1>8, <1>10, <1>p
    <3>5. {published[i] : i \in {j \in L..L : InGop(published[j])}} = {p}
      BY <1>p, <3>4
    <3> QED
      BY <3>s, <3>2, <3>3, <3>5 DEF Promise!IsGopOf
  <2>4. Len(g) =< L - L + 1 /\ L \in 1..L
    BY <1>1, <2>1
  <2> QED
    BY <1>10, <2>1, <2>2, <2>3, <2>4
<1>11. CASE CacheGop /\ ~IsKeyframe(p) /\ gop = <<>>
  BY <1>2, <1>5, <1>7, <1>11, <1>g
<1>12. CASE CacheGop /\ ~IsKeyframe(p) /\ gop # <<>>
  <2>1. PICK k \in 1..(L - 1) : /\ LastKey(k, L - 1) /\ Promise!IsGopOf(gop, k, L - 1)
                                /\ Len(gop) =< (L - 1) - k + 1
    BY <1>6, <1>12
  <2>2. LastKey(k, L) /\ k \in 1..L
    BY <1>1, <1>5, <1>12, <2>1
  <2>3. /\ ~InGop(p) => Promise!IsGopOf(gop, k, L)
        /\ InGop(p) => Promise!IsGopOf(Append(gop, p), k, L)
    <3>1. L - 1 \in Nat /\ L - 1 < Len(published) /\ (L - 1) + 1 = L
      BY <1>1, <1>L
    <3> QED
      BY <1>p, <2>1, <3>1, GopGoesOn DEF IInv, WriterInv
  <2>4. g = (IF InGop(p) THEN Append(gop, p) ELSE gop) /\ Len(g) =< L - k + 1
    BY <1>1, <1>2, <1>12, <1>g, <2>1
  <2>5. g # <<>>
    BY <1>1, <1>12, <2>4
  <2> QED
    BY <1>12, <2>2, <2>3, <2>4, <2>5
<1> QED
  BY <1>9, <1>10, <1>11, <1>12

\* CachePack leaves the queues alone, and leaves the Range the consumers stored.
LEMMA CachePackKeepsInv ==
    ASSUME IInv, CachePack
    PROVE  IInv'
<1>1. /\ published # <<>> /\ Newest \in Pack
      /\ writing = "cache" /\ writing' = "range" /\ left = {}
      /\ left' = {c \in Consumption : joined[c] = "stored"}
      /\ UNCHANGED <<published, status, joined, pushed, popped, prefix, discarding>>
  BY CountsAreNumbers DEF IInv, ConsumerInv, WriterIsAt, CachePack, queueVars
<1>2. gop' \in Seq(Pack) /\ GopIsCurrent'
  BY CachePackKeepsGop
<1>3. params' = IF IsParam(Newest) THEN [params EXCEPT ![ParamOf(Newest)] = Newest] ELSE params
  BY DEF CachePack
<1>4. params' \in [ParamKind -> Pack \cup {NoPack}]
  BY <1>1, <1>3 DEF IInv, TypeOK
<1>5. TypeOK'
  BY <1>1, <1>2, <1>4 DEF IInv, TypeOK
<1>6. ParamsAreParams'
  <2>1. Newest.n = Len(published)
    BY <1>1, CountsAreNumbers DEF IInv, WriterInv, PacksAreNumbered, Newest
  <2>2. \A k \in ParamKind : params'[k] = params[k] \/ (params'[k] = Newest /\ IsParam(Newest))
    BY <1>3 DEF IInv, TypeOK
  <2>3. Len(published) \in Nat
    BY CountsAreNumbers DEF IInv
  <2> QED
    BY <1>1, <2>1, <2>2, <2>3 DEF IInv, WriterInv, ParamsAreParams, IsParam
<1>n. ParamsAreNewest'
  <2>L. PICK L \in Nat : L = Len(published) /\ L > 0
    BY <1>1, CountsAreNumbers DEF IInv
  <2>1. Seen = L - 1 /\ Seen' = L /\ Newest = published[L]
    BY <1>1, <2>L DEF Seen, Newest
  <2> SUFFICES ASSUME status = "OK", NEW k \in ParamKind
               PROVE  IsNewestParam(params[k], k, L)'
    BY <1>1, <2>1 DEF ParamsAreNewest, IsNewestParam
  <2>2. IsNewestParam(params[k], k, L - 1)
    BY <2>1 DEF IInv, WriterInv, ParamsAreNewest
  <2>p. PICK q : q = params'[k]
    OBVIOUS
  <2>3. q = IF IsParamOf(published[L], k) THEN published[L] ELSE params[k]
    BY <1>3, <2>1, <2>p DEF IsParamOf, IInv, TypeOK
  <2>4. IsNewestParam(q, k, L)
    BY <2>L, <2>2, <2>3, NewestParamGoesOn
  <2>5. IsNewestParam(q, k, L)'
    BY <1>1, <2>4, NewestParamStays
  <2> QED
    BY <2>5, <2>p DEF IsNewestParam
<1>7. PacksAreNumbered' /\ KeysAreFrequent'
  BY <1>1 DEF IInv, WriterInv, PacksAreNumbered, KeysAreFrequent, IsKeyframe, InGop
<1>8. WriterIsAt'
  BY <1>1 DEF WriterIsAt
<1>9. \A c \in Consumption : Active(c)' => Active(c) /\ Handled(c)' = Handled(c)
  BY <1>1 DEF Active, Handled
<1>10. NoKey(Seen)' => NoKey(Seen)
  <2>1. Seen' = Len(published) /\ Seen = Len(published) - 1 /\ Len(published) \in Nat
    BY <1>1, CountsAreNumbers DEF Seen, IInv
  <2> QED
    BY <1>1, <2>1 DEF NoKey, IsKeyframe, InGop
<1>11. ASSUME NEW c \in Consumption
       PROVE  ConsumerIsServed(c)'
  <2>1. popped[c] \in popped[c]..Len(pushed[c])
    BY CountsAreNumbers DEF IInv, ConsumerInv, ConsumerIsServed, FeedIsCounted
  <2> QED
    BY <1>1, <1>9, <1>10, <2>1, ConsumerStays DEF IInv, ConsumerInv
<1> QED
  BY <1>2, <1>5, <1>6, <1>7, <1>8, <1>11, <1>n DEF IInv, WriterInv, ConsumerInv

\* What the packs say of the writer stays when the caches stay or are reset.
LEMMA CachesStayOrReset ==
    ASSUME WriterInv, published' = published, Seen' = Seen,
           \A k \in ParamKind : params'[k] \in {params[k], NoPack},
           \/ UNCHANGED <<params, gop, status>>
           \/ gop' \in {gop, <<>>} /\ status' = "Closed"
    PROVE  WriterInv'
<1>1. PacksAreNumbered' /\ KeysAreFrequent' /\ ParamsAreParams'
  BY DEF WriterInv, PacksAreNumbered, KeysAreFrequent, ParamsAreParams, IsKeyframe, InGop, IsParam
<1>2. GopIsCurrent'
  <2>1. /\ \A k, h : LastKey(k, h)' <=> LastKey(k, h)
        /\ \A h : NoKey(h)' <=> NoKey(h)
        /\ \A packs, k, h : Promise!IsGopOf(packs, k, h)' <=> Promise!IsGopOf(packs, k, h)
    BY PublishedStays
  <2>h. PICK h : h = Seen
    OBVIOUS
  <2>g. PICK g : g = gop
    OBVIOUS
  <2>2. /\ g # <<>> => CacheGop /\ \E k \in 1..h :
              LastKey(k, h)' /\ Promise!IsGopOf(g, k, h)' /\ Len(g) =< h - k + 1
        /\ CacheGop /\ status = "OK" /\ g = <<>> => NoKey(h)'
    BY <2>1, <2>h, <2>g DEF WriterInv, GopIsCurrent
  <2>3. CASE gop' = g /\ (status' = "OK" => status = "OK")
    <3>1. Seen' = h
      BY <2>h
    <3>2. /\ gop' # <<>> => CacheGop /\ \E k \in 1..Seen' :
                LastKey(k, h)' /\ Promise!IsGopOf(g, k, h)' /\ Len(gop') =< Seen' - k + 1
          /\ CacheGop /\ status' = "OK" /\ gop' = <<>> => NoKey(h)'
      BY <2>2, <2>3, <3>1
    <3>3. NoKey(h)' <=> NoKey(Seen)'
      BY <3>1 DEF NoKey
    <3>4. \A k : LastKey(k, h)' <=> LastKey(k, Seen)'
      BY <3>1 DEF LastKey
    <3>5. \A k : Promise!IsGopOf(g, k, h)' <=> Promise!IsGopOf(gop, k, Seen)'
      BY <2>3, <3>1 DEF Promise!IsGopOf
    <3> QED
      BY <3>2, <3>3, <3>4, <3>5 DEF GopIsCurrent
  <2>4. CASE gop' = <<>> /\ status' = "Closed"
    BY <2>4 DEF GopIsCurrent
  <2> QED
    BY <2>3, <2>4, <2>g
<1>3. ParamsAreNewest'
  <2> SUFFICES ASSUME status' = "OK", NEW k \in ParamKind, NEW h, h = Seen,
                      NEW p, p = params[k], params' = params
               PROVE  IsNewestParam(p, k, h)'
    <3>1. status' = "OK" => params' = params
      OBVIOUS
    <3>2. \A k \in ParamKind : \A h, p :
              h = Seen' /\ p = params'[k] /\ IsNewestParam(p, k, h)' =>
                  IsNewestParam(params[k], k, Seen)'
      BY DEF IsNewestParam
    <3> QED
      BY <3>1, <3>2 DEF ParamsAreNewest
  <2>1. IsNewestParam(p, k, h)
    BY DEF WriterInv, ParamsAreNewest
  <2>2. \A i : IsParamOf(published[i], k)' <=> IsParamOf(published[i], k)
    BY DEF IsParamOf, IsParam, ParamOf
  <2> QED
    BY <2>1, <2>2 DEF IsNewestParam
<1> QED
  BY <1>1, <1>2, <1>3 DEF WriterInv

\* EndWrite, SkipRemoved, Remove, CloseStream and ResetCache leave the queues
\* alone; a consumer they take from the writer's sight needs nothing more.
LEMMA QuietStepsKeepInv ==
    ASSUME IInv,
           \/ EndWrite
           \/ \E c \in Consumption : SkipRemoved(c) \/ Remove(c)
           \/ CloseStream
           \/ ResetCache
    PROVE  IInv'
<1>1. /\ UNCHANGED <<published, pushed, popped, prefix, discarding>>
      /\ \/ UNCHANGED <<params, gop, status>>
         \/ gop' \in {gop, <<>>} /\ status' = "Closed"
      /\ \A k \in ParamKind : params'[k] \in {params[k], NoPack}
      /\ writing' = writing \/ (writing = "range" /\ writing' = "no" /\ left = {})
      /\ \A c \in left' : c \in left
      /\ \A c \in Consumption : joined'[c] # joined[c] =>
            joined[c] = "stored" /\ joined'[c] = "removed"
      /\ \A c \in left \ left' : joined'[c] = "removed"
      /\ status' \in {"OK", "Closed"}
      /\ joined' \in [Consumption -> {"no", "gopSent", "stored", "removed"}]
      /\ params' \in [ParamKind -> Pack \cup {NoPack}]
  <2>t. /\ gop \in Seq(Pack) /\ params \in [ParamKind -> Pack \cup {NoPack}]
        /\ joined \in [Consumption -> {"no", "gopSent", "stored", "removed"}]
        /\ status \in {"OK", "Closed"} /\ left \in SUBSET Consumption
    BY DEF IInv, TypeOK
  <2>1. CASE EndWrite
    BY <2>t, <2>1 DEF EndWrite, cacheVars, queueVars
  <2>2. CASE \E c \in Consumption : SkipRemoved(c)
    BY <2>t, <2>2 DEF SkipRemoved, cacheVars, queueVars
  <2>3. CASE \E c \in Consumption : Remove(c)
    BY <2>t, <2>3 DEF Remove, cacheVars, queueVars
  <2>4. CASE CloseStream
    BY <2>t, <2>4 DEF CloseStream, cacheVars, queueVars
  <2>5. CASE ResetCache
    BY <2>t, <2>5 DEF ResetCache, cacheVars, queueVars
  <2> QED
    BY <2>1, <2>2, <2>3, <2>4, <2>5
<1>2. TypeOK'
  <2>1. gop' \in Seq(Pack)
    <3>1. gop \in Seq(Pack) /\ <<>> \in Seq(Pack) /\ gop' \in {gop, <<>>}
      BY <1>1 DEF IInv, TypeOK
    <3> QED
      BY <3>1
  <2>2. left' \in SUBSET Consumption
    <3>1. left \in SUBSET Consumption
      BY DEF IInv, TypeOK
    <3> QED
      BY <1>1, <3>1
  <2>3. /\ UNCHANGED <<published, pushed, popped, prefix, discarding>>
        /\ writing' \in {writing, "no"} /\ status' \in {"OK", "Closed"}
        /\ joined' \in [Consumption -> {"no", "gopSent", "stored", "removed"}]
        /\ params' \in [ParamKind -> Pack \cup {NoPack}]
    BY <1>1
  <2> QED
    BY <2>1, <2>2, <2>3 DEF IInv, TypeOK
<1>3. Seen' = Seen
  BY <1>1 DEF Seen
<1>4. WriterInv'
  BY <1>1, <1>3, CachesStayOrReset DEF IInv
<1>5. WriterIsAt'
  <2>1. WriterIsAt
    BY DEF IInv, ConsumerInv
  <2>2. left = {} => left' = {}
    BY <1>1
  <2>3. ASSUME NEW c \in left'
        PROVE  joined'[c] \in {"stored", "removed"}
    <3>1. c \in left /\ c \in Consumption /\ joined[c] \in {"stored", "removed"}
      BY <1>1, <2>1 DEF WriterIsAt, IInv, TypeOK
    <3> QED
      BY <1>1, <3>1
  <2>4. (writing' # "no" => published' # <<>>) /\ (writing' # "range" => left' = {})
    BY <1>1, <2>1, <2>2 DEF WriterIsAt
  <2> QED
    BY <2>3, <2>4 DEF WriterIsAt
<1>6. ASSUME NEW c \in Consumption
      PROVE  ConsumerIsServed(c)'
  <2>1. popped[c] \in popped[c]..Len(pushed[c])
    BY CountsAreNumbers DEF IInv, ConsumerInv, ConsumerIsServed, FeedIsCounted
  <2>2. Active(c)' => Active(c) /\ (c \in left' <=> c \in left)
    BY <1>1 DEF Active
  <2>4. Active(c)' => Handled(c)' = Handled(c)
    BY <1>1, <2>2 DEF Handled
  <2>3. NoKey(Seen)' => NoKey(Seen)
    BY <1>1, <1>3 DEF NoKey, IsKeyframe, InGop
  <2> QED
    BY <1>1, <2>1, <2>2, <2>3, <2>4, ConsumerStays DEF IInv, ConsumerInv
<1> QED
  BY <1>2, <1>4, <1>5, <1>6 DEF IInv, ConsumerInv

\* The goroutine of a consumption only shortens its queue.
LEMMA PopKeepsInv ==
    ASSUME IInv, NEW c \in Consumption, Pop(c)
    PROVE  IInv'
<1>1. /\ UNCHANGED <<status, published, writing, left, params, gop, joined, pushed, prefix, discarding>>
      /\ popped' = [popped EXCEPT ![c] = @ + 1]
      /\ joined[c] = "stored" /\ QueueLen(c) > 0
  BY DEF Pop, cacheVars
<1>2. TypeOK'
  BY <1>1 DEF IInv, TypeOK
<1>3. WriterInv' /\ WriterIsAt' /\ Seen' = Seen
  <2>1. Seen' = Seen
    BY <1>1 DEF Seen
  <2>2. WriterInv'
    BY <1>1, <2>1, CachesStayOrReset DEF IInv
  <2> QED
    BY <1>1, <2>1, <2>2 DEF IInv, ConsumerInv, WriterIsAt
<1>4. ASSUME NEW d \in Consumption
      PROVE  ConsumerIsServed(d)'
  <2>1. popped[d] \in Nat /\ Len(pushed[d]) \in Nat /\ popped[d] =< Len(pushed[d])
    BY CountsAreNumbers DEF IInv, ConsumerInv, ConsumerIsServed, FeedIsCounted
  <2>2. popped'[d] \in popped[d]..Len(pushed[d]) /\ (d # c => popped'[d] = popped[d])
    BY <1>1, <2>1 DEF IInv, TypeOK, QueueLen
  <2>3. NoKey(Seen)' => NoKey(Seen)
    BY <1>1, <1>3 DEF NoKey, IsKeyframe, InGop
  <2>4. (Active(d)' <=> Active(d)) /\ Handled(d)' = Handled(d)
    BY <1>1 DEF Active, Handled
  <2> QED
    BY <1>1, <2>2, <2>3, <2>4, ConsumerStays DEF IInv, ConsumerInv
<1> QED
  BY <1>2, <1>3, <1>4 DEF IInv, ConsumerInv

\* The queue of a consumer for which everything was handled is within the bound.
LEMMA GrownIsBounded ==
    ASSUME TypeOK, KeysAreFrequent, NEW L, L = Len(published), NEW q \in Int, Grown(L, q)
    PROVE  q =< QueueBound
<1>1. /\ MaxQLen \in Nat /\ MaxGop \in Nat /\ MaxGop > 0 /\ Len(ParamOrder) \in Nat /\ L \in Nat
      /\ L = Len(published)
  BY ConstantsAreNumbers, CountsAreNumbers
<1>2. CASE NoKey(L) /\ q =< Len(ParamOrder) + L
  <2>1. L > 0 => L - 1 < MaxGop
    BY <1>1, <1>2 DEF KeysAreFrequent, NoKey
  <2> QED
    BY <1>1, <1>2, <2>1 DEF QueueBound
<1>3. ASSUME NEW k \in 1..L, LastKey(k, L),
             \/ q =< MaxQLen + 1 + (L - k)
             \/ q =< Len(ParamOrder) + MaxGop + (L - k)
      PROVE  q =< QueueBound
  <2>1. L - k < MaxGop
    BY <1>1, <1>3 DEF KeysAreFrequent, LastKey
  <2> QED
    BY <1>1, <1>3, <2>1 DEF QueueBound
<1> QED
  BY <1>1, <1>2, <1>3 DEF Grown

\* A consumption that is stored before its first live pack has what sendGop
\* pushed, and goes on from what the cache has seen, or from the next key frame.
LEMMA StoreKeepsInv ==
    ASSUME IInv, NEW c \in Consumption, Store(c)
    PROVE  IInv'
<1>L. PICK L : L = Len(published)
  OBVIOUS
<1>1. /\ UNCHANGED <<status, published, writing, params, gop, pushed, popped, prefix, discarding>>
      /\ joined[c] = "gopSent" /\ joined' = [joined EXCEPT ![c] = "stored"]
      /\ left' = left \/ (writing = "range" /\ left' = left \cup {c})
      /\ L \in Nat
  BY <1>L, CountsAreNumbers DEF Store, cacheVars, queueVars, IInv
<1>2. TypeOK'
  BY <1>1 DEF IInv, TypeOK
<1>3. Seen' = Seen /\ WriterInv'
  <2>1. Seen' = Seen
    BY <1>1 DEF Seen
  <2> QED
    BY <1>1, <2>1, CachesStayOrReset DEF IInv
<1>4. WriterIsAt /\ c \notin left
  BY <1>1 DEF IInv, ConsumerInv, WriterIsAt
<1>5. joined'[c] = "stored" /\ \A d \in Consumption \ {c} : joined'[d] = joined[d]
  BY <1>1 DEF IInv, TypeOK
<1>6. WriterIsAt'
  <2>1. \A d \in left' : d \in left \/ d = c
    BY <1>1
  <2>2. left \in SUBSET Consumption
    BY DEF IInv, TypeOK
  <2>3. \A d \in left' : joined'[d] \in {"stored", "removed"}
    BY <1>4, <1>5, <2>1, <2>2 DEF WriterIsAt
  <2> QED
    BY <1>1, <1>4, <2>3 DEF WriterIsAt
<1>7. ASSUME NEW d \in Consumption, d # c
      PROVE  ConsumerIsServed(d)'
  <2>1. popped[d] \in popped[d]..Len(pushed[d])
    BY CountsAreNumbers DEF IInv, ConsumerInv, ConsumerIsServed, FeedIsCounted
  <2>2. (Active(d)' <=> Active(d)) /\ Handled(d)' = Handled(d)
    BY <1>1, <1>5, <1>7 DEF Active, Handled
  <2>3. NoKey(Seen)' => NoKey(Seen)
    BY <1>1, <1>3 DEF NoKey, IsKeyframe, InGop
  <2> QED
    BY <1>1, <1>5, <1>7, <2>1, <2>2, <2>3, ConsumerStays DEF IInv, ConsumerInv
<1>8. ConsumerIsServed(c)'
  <2>1. /\ FeedIsCounted(c) /\ JoinIsBounded(c) /\ QueueLen(c) =< QueueBound
        /\ Len(pushed[c]) = prefix[c] /\ ~discarding[c]
    BY <1>1 DEF IInv, ConsumerInv, ConsumerIsServed, FeedIsCounted
  <2>2. QueueLen(c)' = QueueLen(c) /\ QueueLen(c)' =< QueueBound'
    BY <1>1, <2>1 DEF QueueLen, QueueBound
  <2>3. FeedIsCounted(c)'
    BY <1>1, <1>5, <2>1 DEF FeedIsCounted
  <2>4. FeedGoesOn(c)' /\ JoinIsBounded(c)'
    <3>1. Len(pushed[c]) \in Nat /\ prefix'[c] = Len(pushed'[c])
      BY <1>1, <2>1, CountsAreNumbers DEF IInv
    <3> QED
      BY <1>1, <1>5, <2>1, <3>1 DEF FeedGoesOn, JoinIsBounded
  <2>5. QueueFollowsGop(c)'
    <3>h. PICK h : h = Handled(c)'
      OBVIOUS
    <3>q. PICK q : q = QueueLen(c)
      OBVIOUS
    <3>1. /\ h \in Nat /\ q \in Int
          /\ \/ h = Seen
             \/ h = L - 1 /\ Seen = L
      BY <1>1, <1>4, <1>L, <3>h, <3>q, CountsAreNumbers DEF Handled, Seen, IInv, WriterIsAt
    <3>2. /\ q =< Len(ParamOrder) + MaxGop
          /\ NoKey(Seen) => q =< Len(ParamOrder)
      BY <1>1, <2>1, <3>q DEF JoinIsBounded
    <3>3. MaxGop \in Nat /\ Len(ParamOrder) \in Nat
      BY ConstantsAreNumbers
    <3>4. Grown(h, q)
      <4>1. CASE ~NoKey(h)
        <5>1. PICK k \in 1..h : LastKey(k, h)
          BY <3>1, <4>1, LastKeyExists
        <5>2. q =< Len(ParamOrder) + MaxGop + (h - k)
          BY <3>1, <3>2, <3>3
        <5> QED
          BY <5>1, <5>2 DEF Grown
      <4>2. CASE NoKey(h) /\ h = Seen
        BY <3>1, <3>2, <3>3, <4>2 DEF Grown
      <4>3. CASE NoKey(h) /\ h = L - 1 /\ Seen = L
        <5>1. CASE IsKeyframe(Newest)
          BY <1>1, <1>L, <3>2, <4>3, <5>1 DEF Grown
        <5>2. CASE ~IsKeyframe(Newest)
          <6>1. L \in 1..L /\ L >= 1 /\ ~IsKeyframe(published[L])
            BY <1>1, <1>L, <3>1, <4>3, <5>2 DEF Newest
          <6>2. NoKey(L)
            BY <1>1, <4>3, <6>1 DEF NoKey
          <6>3. q =< Len(ParamOrder) + h
            BY <3>1, <3>2, <3>3, <4>3, <6>2
          <6> QED
            BY <4>3, <6>3 DEF Grown
        <5> QED
          BY <5>1, <5>2
      <4> QED
        BY <3>1, <4>1, <4>2, <4>3
    <3>5. Grown(h, q)'
      BY <1>1, <3>4, PublishedStays
    <3>6. Grown(h, q)' => Grown(Handled(c), QueueLen(c))'
      BY <3>h, <3>q, <2>2 DEF Grown, LastKey, NoKey
    <3> QED
      BY <3>5, <3>6 DEF QueueFollowsGop
  <2> QED
    BY <2>2, <2>3, <2>4, <2>5 DEF ConsumerIsServed
<1> QED
  BY <1>2, <1>3, <1>6, <1>7, <1>8 DEF IInv, ConsumerInv

\* One more pack that is not a key frame: the last key frame stays the last.
LEMMA KeysGoOn ==
    ASSUME NEW h \in Nat, ~IsKeyframe(published[h + 1])
    PROVE  /\ NoKey(h) => NoKey(h + 1)
           /\ \A k \in 1..h : LastKey(k, h) => LastKey(k, h + 1)
<1>1. NoKey(h) => NoKey(h + 1)
  <2>1. \A j \in 1..(h + 1) : j \in 1..h \/ j = h + 1
    OBVIOUS
  <2> QED
    BY <2>1 DEF NoKey
<1>2. ASSUME NEW k \in 1..h, LastKey(k, h)
      PROVE  LastKey(k, h + 1)
  <2>1. \A j \in (k + 1)..(h + 1) : j \in (k + 1)..h \/ j = h + 1
    OBVIOUS
  <2> QED
    BY <1>2, <2>1 DEF LastKey
<1> QED
  BY <1>1, <1>2

\* consumption.send keeps the queue within the bound, and drops packs only from
\* a key frame to the next.
LEMMA SendServes ==
    ASSUME IInv, NEW c \in Consumption, Send(c)
    PROVE  ConsumerIsServed(c)'
<1>L. PICK L : L = Len(published)
  OBVIOUS
<1>p. PICK p : p = Newest
  OBVIOUS
<1>1. /\ UNCHANGED <<published, writing, joined, popped, prefix>>
      /\ writing = "range" /\ c \in left /\ left' = left \ {c}
      /\ joined[c] \in {"stored", "removed"}
      /\ discarding'[c] = Discards(c)
      /\ pushed'[c] = IF Discards(c) THEN pushed[c] ELSE Append(pushed[c], p)
      /\ L \in Nat /\ L >= 1 /\ p \in Pack /\ p = published[L] /\ p.n = L
  <2>1. WriterIsAt /\ TypeOK /\ PacksAreNumbered
    BY DEF IInv, ConsumerInv, WriterInv
  <2>2. L \in Nat /\ L >= 1 /\ p \in Pack /\ p = published[L]
    BY <1>L, <1>p, <2>1, CountsAreNumbers DEF Send, WriterIsAt, Newest
  <2>3. p.n = L
    BY <1>L, <2>1, <2>2 DEF PacksAreNumbered
  <2> QED
    BY <1>p, <2>1, <2>2, <2>3 DEF Send, WriterIsAt, TypeOK
<1>2. /\ ConsumerIsServed(c) /\ Active(c) /\ Handled(c) = L - 1 /\ Handled(c)' = L
  BY <1>1, <1>L DEF IInv, ConsumerInv, Active, Handled
<1>3. /\ pushed[c] \in Seq(Pack) /\ Len(pushed[c]) \in Nat /\ QueueLen(c) \in Int
      /\ popped[c] \in Nat /\ prefix[c] \in Nat
      /\ \A i \in 1..Len(pushed[c]) : pushed[c][i].n \in Nat
      /\ discarding[c] \in BOOLEAN
  BY CountsAreNumbers DEF IInv, TypeOK
<1>4. MaxQLen \in Nat /\ MaxGop \in Nat /\ Len(ParamOrder) \in Nat
  BY ConstantsAreNumbers
<1>5. CASE Discards(c)
  <2>1. pushed'[c] = pushed[c] /\ discarding'[c] /\ QueueLen(c)' = QueueLen(c)
    BY <1>1, <1>5 DEF QueueLen
  <2>2. FeedIsCounted(c)'
    BY <1>1, <1>2, <2>1 DEF ConsumerIsServed, FeedIsCounted
  <2>3. JoinIsBounded(c)' /\ QueueFollowsGop(c)' /\ QueueLen(c)' =< QueueBound'
    BY <1>1, <1>2, <2>1 DEF ConsumerIsServed, JoinIsBounded, QueueFollowsGop, QueueBound
  <2>4. FeedGoesOn(c)'
    <3> SUFFICES ASSUME Len(pushed[c]) > prefix[c],
                        NEW last, last = pushed[c][Len(pushed[c])].n
                 PROVE  last + 1 \in 1..L /\ IsKeyframe(published[last + 1])
      BY <1>1, <1>2, <2>1 DEF FeedGoesOn, IsKeyframe, InGop
    <3>1. IF discarding[c] THEN last + 1 \in 1..(L - 1) /\ IsKeyframe(published[last + 1])
                           ELSE last = L - 1
      BY <1>2 DEF ConsumerIsServed, FeedGoesOn
    <3>2. CASE discarding[c]
      BY <1>1, <3>1, <3>2
    <3>3. CASE ~discarding[c]
      <4>1. IsKeyframe(published[L])
        BY <1>1, <1>5, <1>p, <3>3 DEF Discards
      <4>2. last = L - 1 /\ last + 1 = L
        BY <1>1, <3>1, <3>3
      <4>3. L \in 1..L
        BY <1>1
      <4> QED
        BY <4>1, <4>2, <4>3
    <3> QED
      BY <3>2, <3>3
  <2> QED
    BY <2>2, <2>3, <2>4 DEF ConsumerIsServed
<1>6. CASE ~Discards(c)
  <2>1. /\ pushed'[c] = Append(pushed[c], p) /\ ~discarding'[c]
        /\ Len(pushed'[c]) = Len(pushed[c]) + 1
        /\ pushed'[c][Len(pushed[c]) + 1] = p
        /\ \A i \in 1..Len(pushed[c]) : pushed'[c][i] = pushed[c][i]
        /\ QueueLen(c)' = QueueLen(c) + 1
    <3>1. pushed'[c] = Append(pushed[c], p) /\ ~discarding'[c]
      BY <1>1, <1>6
    <3>s. PICK s : s = pushed[c]
      OBVIOUS
    <3>2. /\ s \in Seq(Pack) /\ Len(Append(s, p)) = Len(s) + 1 /\ Append(s, p)[Len(s) + 1] = p
          /\ \A i \in 1..Len(s) : Append(s, p)[i] = s[i]
      BY <1>1, <1>3, <3>s
    <3> QED
      BY <1>1, <1>3, <3>1, <3>2, <3>s DEF QueueLen
  <2>2. FeedIsCounted(c)'
    <3>1. \A i \in 1..Len(pushed'[c]) : pushed'[c][i].n =< L
      BY <1>1, <1>2, <1>3, <1>L, <2>1 DEF ConsumerIsServed, FeedIsCounted
    <3>2. popped[c] =< Len(pushed[c]) /\ prefix[c] =< Len(pushed[c])
      BY <1>2 DEF ConsumerIsServed, FeedIsCounted
    <3> QED
      BY <1>1, <1>3, <1>L, <2>1, <3>1, <3>2 DEF FeedIsCounted
  <2>3. FeedGoesOn(c)' /\ JoinIsBounded(c)'
    BY <1>1, <1>2, <1>3, <2>1 DEF FeedGoesOn, JoinIsBounded
  <2>q. PICK q : q = QueueLen(c) + 1
    OBVIOUS
  <2>4. Grown(L, q)
    <3>1. CASE IsKeyframe(p)
      <4>1. LastKey(L, L) /\ L \in 1..L
        BY <1>1, <3>1 DEF LastKey
      <4>2. q =< MaxQLen + 1 + (L - L)
        BY <1>1, <1>3, <1>4, <1>6, <1>p, <2>q, <3>1 DEF Discards
      <4> QED
        BY <4>1, <4>2 DEF Grown
    <3>2. CASE ~IsKeyframe(p)
      <4>1. ~discarding[c] /\ Grown(L - 1, QueueLen(c))
        BY <1>2, <1>6, <1>p, <3>2 DEF Discards, ConsumerIsServed, QueueFollowsGop
      <4>2. /\ NoKey(L - 1) => NoKey(L)
            /\ \A k \in 1..(L - 1) : LastKey(k, L - 1) => LastKey(k, L)
        <5>1. L - 1 \in Nat /\ (L - 1) + 1 = L
          BY <1>1
        <5> QED
          BY <1>1, <3>2, <5>1, KeysGoOn
      <4>3. CASE NoKey(L - 1) /\ QueueLen(c) =< Len(ParamOrder) + (L - 1)
        BY <1>1, <1>3, <1>4, <2>q, <4>2, <4>3 DEF Grown
      <4>4. ASSUME NEW k \in 1..(L - 1), LastKey(k, L - 1),
                   \/ QueueLen(c) =< MaxQLen + 1 + ((L - 1) - k)
                   \/ QueueLen(c) =< Len(ParamOrder) + MaxGop + ((L - 1) - k)
            PROVE  Grown(L, q)
        <5>1. k \in 1..L /\ LastKey(k, L)
          BY <1>1, <4>2, <4>4
        <5>2. q =< MaxQLen + 1 + (L - k) \/ q =< Len(ParamOrder) + MaxGop + (L - k)
          BY <1>1, <1>3, <1>4, <2>q, <4>4
        <5> QED
          BY <5>1, <5>2 DEF Grown
      <4> QED
        BY <1>p, <3>2, <4>1, <4>3, <4>4 DEF Grown
    <3> QED
      BY <3>1, <3>2
  <2>5. q =< QueueBound
    BY <1>3, <1>L, <2>4, <2>q, GrownIsBounded DEF IInv, WriterInv
  <2>6. QueueFollowsGop(c)'
    <3>1. Grown(L, q)'
      BY <1>1, <2>4, PublishedStays
    <3>2. QueueLen(c)' = q
      BY <2>1, <2>q
    <3> QED
      BY <1>2, <3>1, <3>2 DEF QueueFollowsGop, Grown, LastKey, NoKey
  <2>7. QueueLen(c)' =< QueueBound'
    BY <2>1, <2>5, <2>q DEF QueueBound
  <2> QED
    BY <2>2, <2>3, <2>6, <2>7 DEF ConsumerIsServed
<1> QED
  BY <1>5, <1>6

\* The Range of SendToAll changes nothing for the consumers it does not visit.
LEMMA SendKeepsInv ==
    ASSUME IInv, NEW c \in Consumption, Send(c)
    PROVE  IInv'
<1>1. /\ UNCHANGED <<status, published, writing, params, gop, joined, popped, prefix>>
      /\ left' = left \ {c} /\ c \in left /\ writing = "range"
      /\ discarding' = [discarding EXCEPT ![c] = Discards(c)]
      /\ pushed' = IF Discards(c) THEN pushed ELSE [pushed EXCEPT ![c] = Append(@, Newest)]
      /\ Newest \in Pack
  <2>1. Newest \in Pack
    BY CountsAreNumbers DEF Send, IInv, ConsumerInv, WriterIsAt
  <2> QED
    BY <2>1 DEF Send, cacheVars
<1>2. TypeOK'
  <2>1. pushed' \in [Consumption -> Seq(Pack)]
    BY <1>1 DEF IInv, TypeOK
  <2>2. Discards(c) \in BOOLEAN
    <3>1. discarding[c] \in BOOLEAN
      BY DEF IInv, TypeOK
    <3>2. CASE ~IsKeyframe(Newest)
      BY <3>1, <3>2 DEF Discards
    <3>3. CASE IsKeyframe(Newest)
      <4>1. /\ (QueueLen(c) >= MaxQLen) \in BOOLEAN
            /\ (QueueLen(c) > MaxQLen) \in BOOLEAN
        OBVIOUS
      <4>2. CASE discarding[c]
        BY <3>3, <4>1, <4>2 DEF Discards
      <4>3. CASE ~discarding[c]
        BY <3>3, <4>1, <4>3 DEF Discards
      <4> QED
        BY <4>2, <4>3
    <3> QED
      BY <3>2, <3>3
  <2>3. discarding' \in [Consumption -> BOOLEAN]
    BY <1>1, <2>2 DEF IInv, TypeOK
  <2>4. left' \in SUBSET Consumption
    BY <1>1 DEF IInv, TypeOK
  <2> QED
    BY <1>1, <2>1, <2>3, <2>4 DEF IInv, TypeOK
<1>3. Seen' = Seen /\ WriterInv'
  <2>1. Seen' = Seen
    BY <1>1 DEF Seen
  <2> QED
    BY <1>1, <2>1, CachesStayOrReset DEF IInv
<1>4. WriterIsAt'
  BY <1>1 DEF IInv, ConsumerInv, WriterIsAt
<1>5. ASSUME NEW d \in Consumption, d # c
      PROVE  ConsumerIsServed(d)'
  <2>1. popped[d] \in popped[d]..Len(pushed[d])
    BY CountsAreNumbers DEF IInv, ConsumerInv, ConsumerIsServed, FeedIsCounted
  <2>2. (Active(d)' <=> Active(d)) /\ Handled(d)' = Handled(d)
    BY <1>1, <1>5 DEF Active, Handled
  <2>3. NoKey(Seen)' => NoKey(Seen)
    BY <1>1, <1>3 DEF NoKey, IsKeyframe, InGop
  <2>4. pushed'[d] = pushed[d] /\ discarding'[d] = discarding[d]
    BY <1>1, <1>5 DEF IInv, TypeOK
  <2> QED
    BY <1>1, <2>1, <2>2, <2>3, <2>4, ConsumerStays DEF IInv, ConsumerInv
<1> QED
  BY <1>2, <1>3, <1>4, <1>5, SendServes DEF IInv, ConsumerInv

\* What PushTo gives to a consumer that joins: parameter packs, then the GOP.
LEMMA PushToGives ==
    ASSUME TypeOK, ParamsAreParams, NEW c \in Consumption, PushTo(c)
    PROVE  \E head \in Seq(Pack) :
              /\ pushed' = [pushed EXCEPT ![c] = head \o gop]
              /\ prefix' = [prefix EXCEPT ![c] = Len(head) + Len(gop)]
              /\ Len(head) =< Len(ParamOrder)
              /\ \A i \in 1..Len(head) : IsParam(head[i]) /\ head[i].n =< Len(published)
<1>n. PICK n : n = Cardinality(CachedKinds)
  OBVIOUS
<1>1. PICK place \in [1..n -> CachedKinds] :
         /\ pushed' = [pushed EXCEPT ![c] = [i \in 1..n |-> params[ParamOrder[place[i]]]] \o gop]
         /\ prefix' = [prefix EXCEPT ![c] = n + Len(gop)]
  BY <1>n DEF PushTo
<1>2. n \in Nat /\ n =< Len(ParamOrder)
  <2>1. CachedKinds \in SUBSET (1..Len(ParamOrder))
    BY DEF CachedKinds
  <2>2. Len(ParamOrder) \in Nat
    BY ConstantsAreNumbers
  <2>3. IsFiniteSet(1..Len(ParamOrder)) /\ Cardinality(1..Len(ParamOrder)) = Len(ParamOrder)
    BY <2>2, FS_Interval
  <2>4. /\ IsFiniteSet(CachedKinds)
        /\ Cardinality(CachedKinds) =< Cardinality(1..Len(ParamOrder))
    BY <2>1, <2>3, FS_Subset
  <2>5. Cardinality(CachedKinds) \in Nat
    BY <2>4, FS_CardinalityType
  <2> QED
    BY <1>n, <2>3, <2>4, <2>5
<1>h. PICK head : head = [i \in 1..n |-> params[ParamOrder[place[i]]]]
  OBVIOUS
<1>3. ASSUME NEW i \in 1..n
      PROVE  head[i] \in Pack /\ IsParam(head[i]) /\ head[i].n =< Len(published)
  <2>1. place[i] \in 1..Len(ParamOrder) /\ params[ParamOrder[place[i]]] # NoPack
    BY DEF CachedKinds
  <2>2. ParamOrder[place[i]] \in ParamKind
    BY <2>1, ConstantsAreNumbers
  <2> QED
    BY <1>h, <2>1, <2>2 DEF TypeOK, ParamsAreParams
<1>4. head \in Seq(Pack) /\ Len(head) = n
  <2>1. head \in [1..n -> Pack]
    BY <1>h, <1>3
  <2> QED
    BY <1>2, <2>1
<1> QED
  BY <1>1, <1>2, <1>3, <1>4, <1>h

\* The cached GOP is short, of packs that were published, and empty without a
\* key frame.
LEMMA GopIsShort ==
    ASSUME TypeOK, PacksAreNumbered, KeysAreFrequent, GopIsCurrent, WriterIsAt
    PROVE  /\ Len(gop) =< MaxGop
           /\ NoKey(Seen) => gop = <<>>
           /\ \A i \in 1..Len(gop) : gop[i].n =< Len(published)
<1>L. PICK L : L = Len(published)
  OBVIOUS
<1>1. L \in Nat /\ Seen \in Nat /\ Seen =< L /\ MaxGop \in Nat
  BY <1>L, CountsAreNumbers, ConstantsAreNumbers DEF Seen, WriterIsAt
<1>2. CASE gop = <<>>
  <2>1. Len(gop) = 0
    BY <1>2
  <2> QED
    BY <1>1, <1>2, <2>1
<1>3. CASE gop # <<>>
  <2>1. PICK k \in 1..Seen : /\ LastKey(k, Seen)
                             /\ Promise!IsGopOf(gop, k, Seen)
                             /\ Len(gop) =< Seen - k + 1
    BY <1>3 DEF GopIsCurrent
  <2>2. Seen - k < MaxGop
    BY <1>1, <1>L, <2>1 DEF KeysAreFrequent, LastKey
  <2>3. ~NoKey(Seen)
    BY <2>1 DEF LastKey, NoKey
  <2>4. Len(gop) \in Nat
    BY DEF TypeOK
  <2>5. ASSUME NEW i \in 1..Len(gop)
        PROVE  gop[i].n =< L
    <3>1. gop[i] \in {published[j] : j \in {m \in k..Seen : InGop(published[m])}}
      BY <2>1 DEF Promise!IsGopOf
    <3>2. PICK j \in k..Seen : gop[i] = published[j]
      BY <3>1
    <3> QED
      BY <1>1, <1>L, <3>2 DEF PacksAreNumbered
  <2> QED
    BY <1>1, <1>L, <2>1, <2>2, <2>3, <2>4, <2>5
<1> QED
  BY <1>2, <1>3

\* A consumer that joins gets the parameter packs and a GOP, at most.
LEMMA JoinServes ==
    ASSUME IInv, NEW c \in Consumption, NEW useGopCache \in BOOLEAN, StartConsume(c, useGopCache)
    PROVE  ConsumerIsServed(c)' /\ pushed'[c] \in Seq(Pack)
<1>1. /\ UNCHANGED <<published, writing, left, popped, discarding>>
      /\ joined[c] = "no" /\ joined'[c] = "gopSent" /\ c \notin left
      /\ ConsumerIsServed(c) /\ pushed[c] = <<>> /\ ~discarding[c] /\ popped[c] = 0
      /\ Len(pushed[c]) = prefix[c] /\ QueueLen(c) =< QueueBound
  <2>1. ConsumerIsServed(c)
    BY DEF IInv, ConsumerInv
  <2> QED
    BY <2>1 DEF StartConsume, IInv, TypeOK, ConsumerInv, WriterIsAt, ConsumerIsServed, FeedIsCounted
<1>2. /\ MaxQLen \in Nat /\ MaxGop \in Nat /\ MaxGop > 0 /\ Len(ParamOrder) \in Nat
      /\ Len(gop) \in Nat /\ gop \in Seq(Pack)
  BY ConstantsAreNumbers, CountsAreNumbers DEF IInv, TypeOK
<1>3. NoKey(Seen)' => NoKey(Seen)
  <2>1. Seen' = Seen
    BY <1>1 DEF Seen
  <2> QED
    BY <1>1, <2>1 DEF NoKey, IsKeyframe, InGop
<1>4. /\ Len(pushed'[c]) \in Nat /\ pushed'[c] \in Seq(Pack) /\ prefix'[c] = Len(pushed'[c])
      /\ Len(pushed'[c]) =< Len(ParamOrder) + MaxGop
      /\ NoKey(Seen) => Len(pushed'[c]) =< Len(ParamOrder)
      /\ \A i \in 1..Len(pushed'[c]) : pushed'[c][i].n =< Len(published)
  <2>1. CASE ~useGopCache
    <3>1. pushed'[c] = <<>> /\ prefix'[c] = prefix[c] /\ Len(pushed'[c]) = 0
      BY <1>1, <2>1 DEF StartConsume
    <3> QED
      BY <1>1, <1>2, <3>1
  <2>2. CASE useGopCache
    <3>1. PICK head \in Seq(Pack) :
              /\ pushed' = [pushed EXCEPT ![c] = head \o gop]
              /\ prefix' = [prefix EXCEPT ![c] = Len(head) + Len(gop)]
              /\ Len(head) =< Len(ParamOrder)
              /\ \A i \in 1..Len(head) : IsParam(head[i]) /\ head[i].n =< Len(published)
      BY <2>2, PushToGives DEF StartConsume, IInv, WriterInv
    <3>2. pushed'[c] = head \o gop /\ prefix'[c] = Len(head) + Len(gop)
      BY <3>1 DEF IInv, TypeOK
    <3>3. /\ head \o gop \in Seq(Pack) /\ Len(head \o gop) = Len(head) + Len(gop)
          /\ \A i \in 1..Len(head) : (head \o gop)[i] = head[i]
          /\ \A i \in 1..Len(gop) : (head \o gop)[Len(head) + i] = gop[i]
      BY <1>2, ConcatProperties
    <3>4. /\ Len(gop) =< MaxGop /\ (NoKey(Seen) => gop = <<>>)
          /\ \A i \in 1..Len(gop) : gop[i].n =< Len(published)
      BY GopIsShort DEF IInv, WriterInv, ConsumerInv
    <3>5. Len(head) \in Nat /\ (gop = <<>> => Len(gop) = 0)
      OBVIOUS
    <3>6. ASSUME NEW i \in 1..Len(head \o gop)
          PROVE  (head \o gop)[i].n =< Len(published)
      <4>1. CASE i \in 1..Len(head)
        BY <3>1, <3>3, <4>1
      <4>2. CASE i \notin 1..Len(head)
        <5>1. i - Len(head) \in 1..Len(gop) /\ Len(head) + (i - Len(head)) = i
          BY <1>2, <3>3, <3>5, <4>2
        <5> QED
          BY <3>3, <3>4, <5>1
      <4> QED
        BY <4>1, <4>2
    <3>s. PICK s : s = head \o gop
      OBVIOUS
    <3>7. /\ s \in Seq(Pack) /\ Len(s) = Len(head) + Len(gop)
          /\ \A i \in 1..Len(s) : s[i].n =< Len(published)
      BY <3>3, <3>6, <3>s
    <3>8. /\ Len(s) \in Nat /\ Len(s) =< Len(ParamOrder) + MaxGop
          /\ NoKey(Seen) => Len(s) =< Len(ParamOrder)
      BY <1>2, <3>1, <3>4, <3>5, <3>7
    <3> QED
      BY <3>2, <3>7, <3>8, <3>s
  <2> QED
    BY <2>1, <2>2
<1>5. QueueLen(c)' = Len(pushed'[c])
  BY <1>1, <1>4 DEF QueueLen
<1>6. FeedIsCounted(c)'
  BY <1>1, <1>4, <1>5 DEF FeedIsCounted
<1>7. ~Active(c)'
  BY <1>1 DEF Active
<1>8. JoinIsBounded(c)'
  BY <1>3, <1>4, <1>5 DEF JoinIsBounded
<1>9. QueueLen(c)' =< QueueBound'
  BY <1>2, <1>4, <1>5 DEF QueueBound
<1> QED
  BY <1>4, <1>6, <1>7, <1>8, <1>9 DEF ConsumerIsServed, FeedGoesOn, QueueFollowsGop

\* StartConsume is about the consumption that starts only.
LEMMA StartConsumeKeepsInv ==
    ASSUME IInv, NEW c \in Consumption, NEW useGopCache \in BOOLEAN, StartConsume(c, useGopCache)
    PROVE  IInv'
<1>1. /\ UNCHANGED <<status, published, writing, left, params, gop, popped, discarding>>
      /\ joined[c] = "no" /\ joined' = [joined EXCEPT ![c] = "gopSent"]
  BY DEF StartConsume, cacheVars
<1>2. \/ UNCHANGED <<pushed, prefix>>
      \/ /\ pushed' = [pushed EXCEPT ![c] = pushed'[c]]
         /\ prefix' = [prefix EXCEPT ![c] = prefix'[c]]
         /\ prefix'[c] \in Nat
  <2>1. CASE ~useGopCache
    BY <2>1 DEF StartConsume
  <2>2. CASE useGopCache
    <3>1. PICK head \in Seq(Pack) :
              /\ pushed' = [pushed EXCEPT ![c] = head \o gop]
              /\ prefix' = [prefix EXCEPT ![c] = Len(head) + Len(gop)]
      BY <2>2, PushToGives DEF StartConsume, IInv, WriterInv
    <3>2. pushed'[c] = head \o gop /\ prefix'[c] = Len(head) + Len(gop)
      BY <3>1 DEF IInv, TypeOK
    <3>3. Len(head) + Len(gop) \in Nat
      BY CountsAreNumbers DEF IInv
    <3> QED
      BY <3>1, <3>2, <3>3
  <2> QED
    BY <2>1, <2>2
<1>3. TypeOK'
  <2>1. pushed'[c] \in Seq(Pack)
    BY JoinServes
  <2>2. pushed' \in [Consumption -> Seq(Pack)] /\ prefix' \in [Consumption -> Nat]
    BY <1>2, <2>1 DEF IInv, TypeOK
  <2>3. joined' \in [Consumption -> {"no", "gopSent", "stored", "removed"}]
    BY <1>1 DEF IInv, TypeOK
  <2> QED
    BY <1>1, <2>2, <2>3 DEF IInv, TypeOK
<1>4. Seen' = Seen /\ WriterInv'
  <2>1. Seen' = Seen
    BY <1>1 DEF Seen
  <2> QED
    BY <1>1, <2>1, CachesStayOrReset DEF IInv
<1>5. \A d \in Consumption \ {c} : /\ joined'[d] = joined[d] /\ pushed'[d] = pushed[d]
                                  /\ prefix'[d] = prefix[d]
  BY <1>1, <1>2 DEF IInv, TypeOK
<1>6. WriterIsAt'
  <2>1. WriterIsAt /\ c \notin left /\ left \in SUBSET Consumption
    BY <1>1 DEF IInv, TypeOK, ConsumerInv, WriterIsAt
  <2>2. \A d \in left : joined'[d] \in {"stored", "removed"}
    BY <1>5, <2>1 DEF WriterIsAt
  <2> QED
    BY <1>1, <2>1, <2>2 DEF WriterIsAt
<1>7. ASSUME NEW d \in Consumption, d # c
      PROVE  ConsumerIsServed(d)'
  <2>1. popped[d] \in popped[d]..Len(pushed[d])
    BY CountsAreNumbers DEF IInv, ConsumerInv, ConsumerIsServed, FeedIsCounted
  <2>2. (Active(d)' <=> Active(d)) /\ Handled(d)' = Handled(d)
    BY <1>1, <1>5, <1>7 DEF Active, Handled
  <2>3. NoKey(Seen)' => NoKey(Seen)
    BY <1>1, <1>4 DEF NoKey, IsKeyframe, InGop
  <2> QED
    BY <1>1, <1>5, <1>7, <2>1, <2>2, <2>3, ConsumerStays DEF IInv, ConsumerInv
<1> QED
  BY <1>3, <1>4, <1>6, <1>7, JoinServes DEF IInv, ConsumerInv

-----------------------------------------------------------------------------
(* The invariant and what follows from it.                                 *)

\* Nothing was written, and nobody has joined.
LEMMA InitHasInv == Init => IInv
<1> SUFFICES ASSUME Init
             PROVE  IInv
  OBVIOUS
<1>1. TypeOK
  BY DEF Init, TypeOK
<1>2. Len(published) = 0 /\ Seen = 0 /\ left = {} /\ writing = "no"
  BY DEF Init, Seen
<1>3. PacksAreNumbered /\ KeysAreFrequent /\ NoKey(Seen)
  BY <1>2 DEF PacksAreNumbered, KeysAreFrequent, NoKey
<1>4. ParamsAreParams /\ ParamsAreNewest /\ GopIsCurrent /\ WriterIsAt
  BY <1>2, <1>3 DEF Init, ParamsAreParams, ParamsAreNewest, IsNewestParam, GopIsCurrent,
                    WriterIsAt
<1>5. ASSUME NEW c \in Consumption
      PROVE  ConsumerIsServed(c)
  <2>1. /\ pushed[c] = <<>> /\ Len(pushed[c]) = 0 /\ popped[c] = 0 /\ prefix[c] = 0
        /\ joined[c] = "no" /\ ~discarding[c] /\ QueueLen(c) = 0
    BY DEF Init, QueueLen
  <2>2. FeedIsCounted(c)
    BY <2>1 DEF FeedIsCounted
  <2>3. ~Active(c)
    BY <1>2, <2>1 DEF Active
  <2>4. QueueLen(c) =< QueueBound /\ JoinIsBounded(c)
    BY <2>1, ConstantsAreNumbers DEF QueueBound, JoinIsBounded
  <2> QED
    BY <2>2, <2>3, <2>4 DEF ConsumerIsServed, FeedGoesOn, QueueFollowsGop
<1> QED
  BY <1>1, <1>3, <1>4, <1>5 DEF IInv, WriterInv, ConsumerInv

\* A step that changes nothing.
LEMMA StutterKeepsInv ==
    ASSUME IInv, UNCHANGED vars
    PROVE  IInv'
<1>1. /\ UNCHANGED <<status, published, writing, left, params, gop, joined>>
      /\ UNCHANGED <<pushed, popped, prefix, discarding>>
  BY DEF vars, cacheVars, queueVars
<1>2. TypeOK' /\ Seen' = Seen /\ WriterIsAt'
  BY <1>1 DEF IInv, TypeOK, Seen, ConsumerInv, WriterIsAt
<1>3. WriterInv'
  BY <1>1, <1>2, CachesStayOrReset DEF IInv
<1>4. ASSUME NEW c \in Consumption
      PROVE  ConsumerIsServed(c)'
  <2>1. popped[c] \in popped[c]..Len(pushed[c])
    BY CountsAreNumbers DEF IInv, ConsumerInv, ConsumerIsServed, FeedIsCounted
  <2>2. (Active(c)' <=> Active(c)) /\ Handled(c)' = Handled(c)
    BY <1>1 DEF Active, Handled
  <2>3. NoKey(Seen)' => NoKey(Seen)
    BY <1>1, <1>2 DEF NoKey, IsKeyframe, InGop
  <2> QED
    BY <1>1, <2>1, <2>2, <2>3, ConsumerStays DEF IInv, ConsumerInv
<1> QED
  BY <1>2, <1>3, <1>4 DEF IInv, ConsumerInv

\* Every step of the writer, the consumers and Stream.close keeps the invariant.
LEMMA NextKeepsInv == IInv /\ [Next]_vars => IInv'
<1> SUFFICES ASSUME IInv, [Next]_vars
             PROVE  IInv'
  OBVIOUS
<1>1. CASE \E s \in Shape : Write(s)
  BY <1>1, WriteKeepsInv
<1>2. CASE CachePack
  BY <1>2, CachePackKeepsInv
<1>3. CASE EndWrite \/ CloseStream \/ ResetCache
  BY <1>3, QuietStepsKeepInv
<1>4. ASSUME NEW c \in Consumption,
             \/ Send(c)
             \/ SkipRemoved(c)
             \/ \E useGopCache \in BOOLEAN : StartConsume(c, useGopCache)
             \/ Store(c)
             \/ Pop(c)
             \/ Remove(c)
      PROVE  IInv'
  <2>1. CASE Send(c)
    BY <2>1, SendKeepsInv
  <2>2. CASE SkipRemoved(c) \/ Remove(c)
    BY <2>2, QuietStepsKeepInv
  <2>3. CASE \E useGopCache \in BOOLEAN : StartConsume(c, useGopCache)
    BY <2>3, StartConsumeKeepsInv
  <2>4. CASE Store(c)
    BY <2>4, StoreKeepsInv
  <2>5. CASE Pop(c)
    BY <2>5, PopKeepsInv
  <2> QED
    BY <1>4, <2>1, <2>2, <2>3, <2>4, <2>5
<1>5. CASE UNCHANGED vars
  BY <1>5, StutterKeepsInv
<1> QED
  BY <1>1, <1>2, <1>3, <1>4, <1>5 DEF Next

\* The inductive invariant of the delivery of packs (src/media/stream.go,
\* consumption.go and the pack caches of src/media/cache).
THEOREM InvariantHolds == Spec => []IInv
<1>1. Init => IInv
  BY InitHasInv
<1>2. IInv /\ [Next]_vars => IInv'
  BY NextKeepsInv
<1> QED
  BY <1>1, <1>2, PTL DEF Spec

\* The variables keep their types.
THEOREM TypeCorrect == Spec => []TypeOK
<1>1. IInv => TypeOK
  BY DEF IInv
<1> QED
  BY <1>1, InvariantHolds, PTL

\* A consumer that is slower than the source never has more packs waiting than
\* the bound: consumption.send discards from a key frame on, so that the queue
\* overshoots maxQLen by one GOP, and sendGop and the packs up to the next key
\* frame add no more than the parameter packs and two GOPs less one pack.
THEOREM QueuesAreBounded == Spec => []QueueIsBounded
<1>1. IInv => QueueIsBounded
  BY DEF IInv, ConsumerInv, ConsumerIsServed, QueueIsBounded
<1> QED
  BY <1>1, InvariantHolds, PTL

\* While the stream is open and no parameter sets came since the last key frame,
\* a consumer that joins can begin at that key frame: the GOP that CachePack has
\* cached is complete from it on and has nothing else, and the parameter packs
\* are those that were in force when it was sent.
THEOREM CacheIsCurrent == Spec => []CacheHoldsCurrentGop
<1>1. IInv => CacheHoldsCurrentGop
  <2> SUFFICES ASSUME IInv, CacheGop, status = "OK",
                      NEW keys, keys = {i \in 1..Seen : IsKeyframe(published[i])}
               PROVE  /\ keys = {} => gop = <<>>
                      /\ \A last \in keys :
                           (\A i \in (last+1)..Seen :
                               ~IsKeyframe(published[i]) /\ ~IsParam(published[i])) =>
                           /\ Promise!IsGopOf(gop, last, Seen)
                           /\ \A k \in ParamKind : IsNewestParam(params[k], k, last)
    BY DEF CacheHoldsCurrentGop
  <2>1. GopIsCurrent /\ ParamsAreNewest /\ Seen \in Int
    BY CountsAreNumbers DEF IInv, WriterInv
  <2>2. ASSUME keys = {}
        PROVE  gop = <<>>
    BY <2>1, <2>2 DEF GopIsCurrent, LastKey
  <2>3. ASSUME NEW last \in keys,
               \A i \in (last+1)..Seen : ~IsKeyframe(published[i]) /\ ~IsParam(published[i])
        PROVE  /\ Promise!IsGopOf(gop, last, Seen)
               /\ \A k \in ParamKind : IsNewestParam(params[k], k, last)
    <3>1. last \in 1..Seen /\ IsKeyframe(published[last])
      OBVIOUS
    <3>2. gop # <<>>
      BY <2>1, <3>1 DEF GopIsCurrent, NoKey
    <3>3. PICK k \in 1..Seen : LastKey(k, Seen) /\ Promise!IsGopOf(gop, k, Seen)
      BY <2>1, <3>2 DEF GopIsCurrent
    <3>4. k = last
      BY <2>1, <2>3, <3>1, <3>3 DEF LastKey
    <3>5. ASSUME NEW kind \in ParamKind
          PROVE  IsNewestParam(params[kind], kind, last)
      <4>1. IsNewestParam(params[kind], kind, Seen)
        BY <2>1 DEF ParamsAreNewest
      <4>2. CASE params[kind] = NoPack /\ \A i \in 1..Seen : ~IsParamOf(published[i], kind)
        BY <2>1, <3>1, <4>2 DEF IsNewestParam
      <4>3. ASSUME NEW i \in 1..Seen, params[kind] = published[i],
                   IsParamOf(published[i], kind),
                   \A j \in (i + 1)..Seen : ~IsParamOf(published[j], kind)
            PROVE  IsNewestParam(params[kind], kind, last)
        <5>1. i \notin (last+1)..Seen
          BY <2>3, <4>3 DEF IsParamOf
        <5>2. i \in 1..last /\ \A j \in (i + 1)..last : j \in (i + 1)..Seen
          BY <2>1, <3>1, <5>1
        <5> QED
          BY <4>3, <5>2 DEF IsNewestParam
      <4> QED
        BY <4>1, <4>2, <4>3 DEF IsNewestParam
    <3> QED
      BY <3>3, <3>4, <3>5
  <2> QED
    BY <2>2, <2>3
<1> QED
  BY <1>1, InvariantHolds, PTL

-----------------------------------------------------------------------------
(* Delivery implements PackFeed.                                           *)

\* A pack that passed the status check is published.
LEMMA WriteIsPublish ==
    ASSUME NEW s \in Shape, Write(s)
    PROVE  Promise!Publish
BY DEF Write, queueVars, Promise!Publish

\* A pack that consumption.send queues is the next one of the feed, or the key
\* frame after what was discarded, which began with a key frame.
LEMMA SendIsFeed ==
    ASSUME IInv, NEW c \in Consumption, Send(c)
    PROVE  Promise!Feed(c) \/ UNCHANGED Promise!feedVars
<1>1. CASE Discards(c)
  BY <1>1 DEF Send, Promise!feedVars
<1>2. CASE ~Discards(c)
  <2>L. PICK L : L = Len(published)
    OBVIOUS
  <2>f. PICK f : f = pushed[c]
    OBVIOUS
  <2>1. /\ published # <<>> /\ L \in Nat /\ L >= 1 /\ Newest.n = L
        /\ writing = "range" /\ c \in left
        /\ Len(f) \in Nat /\ prefix[c] \in Nat
        /\ ConsumerIsServed(c)
    <3>1. published # <<>> /\ writing = "range" /\ c \in left
      BY DEF Send, IInv, ConsumerInv, WriterIsAt
    <3>2. L \in Nat /\ L >= 1 /\ Newest.n = L
      BY <2>L, <3>1, CountsAreNumbers DEF IInv, WriterInv, PacksAreNumbered, Newest
    <3> QED
      BY <2>f, <3>1, <3>2, CountsAreNumbers DEF IInv, ConsumerInv
  <2>2. /\ Handled(c) = L - 1 /\ Active(c)
        /\ prefix[c] =< Len(f)
        /\ \A i \in 1..Len(f) : f[i].n =< L
    BY <2>L, <2>f, <2>1 DEF Handled, Active, ConsumerIsServed, FeedIsCounted
  <2>3. Promise!Continues(c)
    <3>1. CASE Len(f) = prefix[c]
      BY <2>1, <2>2, <2>f, <3>1 DEF Promise!Continues, Promise!Newest, Newest
    <3>2. CASE Len(f) > prefix[c]
      <4>l. PICK last : last = f[Len(f)].n
        OBVIOUS
      <4>1. IF discarding[c] THEN last + 1 \in 1..(L - 1) /\ IsKeyframe(published[last + 1])
                             ELSE last = L - 1
        BY <2>1, <2>2, <2>f, <3>2, <4>l DEF ConsumerIsServed, FeedGoesOn
      <4>2. last \in Int
        BY <2>1, <2>f, <3>2, <4>l, CountsAreNumbers DEF IInv
      <4>3. discarding[c] => IsKeyframe(Newest)
        BY <1>2 DEF Discards
      <4>4. \/ L = last + 1
            \/ L > last + 1 /\ IsKeyframe(published[last + 1]) /\ IsKeyframe(Newest)
        BY <2>1, <4>1, <4>2, <4>3
      <4> QED
        BY <2>1, <2>f, <3>2, <4>l, <4>4 DEF Promise!Continues, Promise!Newest, Newest
    <3> QED
      BY <2>1, <2>2, <3>1, <3>2
  <2> QED
    BY <1>2, <2>1, <2>3 DEF Send, Promise!Feed, Promise!Newest, Newest
<1> QED
  BY <1>1, <1>2

\* The cached GOP is an unbroken run of packs from a key frame on.
LEMMA GopIsRun ==
    ASSUME TypeOK, GopIsCurrent
    PROVE  Promise!Run(gop)
<1>1. CASE gop = <<>>
  BY <1>1 DEF Promise!Run
<1>2. CASE gop # <<>>
  <2>1. PICK k \in 1..Seen : LastKey(k, Seen) /\ Promise!IsGopOf(gop, k, Seen)
    BY <1>2 DEF GopIsCurrent
  <2>2. Seen \in {Len(published), Len(published) - 1}
    BY DEF Seen
  <2> QED
    BY <2>1, <2>2 DEF Promise!Run, LastKey
<1> QED
  BY <1>1, <1>2

\* What sendGop pushes is parameter packs and an unbroken run of packs.
LEMMA StartConsumeIsJoin ==
    ASSUME IInv, NEW c \in Consumption, NEW useGopCache \in BOOLEAN, StartConsume(c, useGopCache)
    PROVE  Promise!Join(c) \/ UNCHANGED Promise!feedVars
<1>1. CASE ~useGopCache
  BY <1>1 DEF StartConsume, Promise!feedVars
<1>2. CASE useGopCache
  <2>1. PICK head \in Seq(Pack) :
            /\ pushed' = [pushed EXCEPT ![c] = head \o gop]
            /\ prefix' = [prefix EXCEPT ![c] = Len(head) + Len(gop)]
            /\ \A i \in 1..Len(head) : IsParam(head[i])
    BY <1>2, PushToGives DEF StartConsume, IInv, WriterInv
  <2>g. PICK g : g = gop
    OBVIOUS
  <2>s. PICK s : s = head \o g
    OBVIOUS
  <2>2. /\ pushed[c] = <<>> /\ prefix[c] = 0 /\ published' = published
        /\ pushed \in [Consumption -> Seq(Pack)] /\ prefix \in [Consumption -> Nat]
        /\ g \in Seq(Pack)
    <3>1. ConsumerIsServed(c) /\ joined[c] = "no"
      BY DEF StartConsume, IInv, ConsumerInv
    <3>2. pushed[c] = <<>> /\ Len(pushed[c]) = 0 /\ Len(pushed[c]) = prefix[c]
      BY <3>1 DEF ConsumerIsServed, FeedIsCounted
    <3> QED
      BY <2>g, <3>2 DEF StartConsume, IInv, TypeOK
  <2>3. /\ pushed' = [pushed EXCEPT ![c] = s] /\ pushed'[c] = s
        /\ prefix' = [prefix EXCEPT ![c] = Len(head) + Len(g)]
        /\ \A d \in Consumption \ {c} : pushed'[d] = pushed[d]
    BY <2>1, <2>2, <2>g, <2>s
  <2>4. /\ s \in Seq(Pack) /\ Len(s) = Len(head) + Len(g) /\ Len(head) \in Nat /\ Len(g) \in Nat
        /\ \A i \in 1..Len(head) : s[i] = head[i]
    BY <2>2, <2>s, ConcatProperties
  <2>5. SubSeq(s, Len(head) + 1, Len(s)) = g
    <3>1. CASE g = <<>>
      <4>1. Len(s) < Len(head) + 1 /\ Len(head) + 1 \in Int /\ Len(s) \in Int
        BY <2>4, <3>1
      <4> QED
        BY <3>1, <4>1, SubSeqEmpty
    <3>2. CASE g # <<>>
      <4>1. Len(g) >= 1
        BY <2>2, <3>2
      <4>2. /\ Len(head) + 1 \in (Len(head) + 1)..(Len(head) + Len(g))
            /\ Len(s) \in (Len(head) + 1)..(Len(head) + Len(g))
            /\ (Len(head) + 1) - Len(head) = 1 /\ Len(s) - Len(head) = Len(g)
        BY <2>4, <4>1
      <4>3. SubSeq(s, Len(head) + 1, Len(s)) = SubSeq(g, 1, Len(g))
        BY <2>2, <2>s, <4>2, SubSeqOfConcat2
      <4> QED
        BY <2>2, <4>3, SubSeqFull
    <3> QED
      BY <3>1, <3>2
  <2>6. Promise!Run(g)
    BY <2>g, GopIsRun DEF IInv, WriterInv
  <2>7. CASE s = <<>>
    <3>1. pushed' = pushed /\ prefix' = prefix
      BY <2>2, <2>3, <2>4, <2>7
    <3> QED
      BY <2>2, <3>1 DEF Promise!feedVars
  <2>8. CASE s # <<>>
    <3>1. Len(head) \in 0..Len(s) /\ \A i \in 1..Len(head) : IsParam(s[i])
      BY <2>1, <2>4
    <3>2. Promise!Run(SubSeq(s, Len(head) + 1, Len(s)))
      BY <2>5, <2>6
    <3> QED
      BY <2>2, <2>3, <2>4, <2>8, <3>1, <3>2 DEF Promise!Join
  <2> QED
    BY <2>7, <2>8
<1> QED
  BY <1>1, <1>2

\* Every step of the delivery is a step of the promise, or none.
LEMMA NextIsPromised == IInv /\ [Next]_vars => [Promise!Next]_Promise!feedVars
<1> SUFFICES ASSUME IInv, [Next]_vars
             PROVE  Promise!Next \/ UNCHANGED Promise!feedVars
  OBVIOUS
<1>1. CASE \E s \in Shape : Write(s)
  BY <1>1, WriteIsPublish DEF Promise!Next
<1>2. CASE CachePack \/ EndWrite \/ CloseStream \/ ResetCache \/ UNCHANGED vars
  BY <1>2 DEF CachePack, EndWrite, CloseStream, ResetCache, vars, queueVars, Promise!feedVars
<1>3. ASSUME NEW c \in Consumption,
             \/ Send(c)
             \/ SkipRemoved(c)
             \/ \E useGopCache \in BOOLEAN : StartConsume(c, useGopCache)
             \/ Store(c)
             \/ Pop(c)
             \/ Remove(c)
      PROVE  Promise!Next \/ UNCHANGED Promise!feedVars
  <2>1. CASE Send(c)
    BY <2>1, SendIsFeed DEF Promise!Next
  <2>2. CASE \E useGopCache \in BOOLEAN : StartConsume(c, useGopCache)
    BY <2>2, StartConsumeIsJoin DEF Promise!Next
  <2>3. CASE SkipRemoved(c) \/ Store(c) \/ Pop(c) \/ Remove(c)
    BY <2>3 DEF SkipRemoved, Store, Pop, Remove, queueVars, Promise!feedVars
  <2> QED
    BY <1>3, <2>1, <2>2, <2>3
<1> QED
  BY <1>1, <1>2, <1>3 DEF Next

\* Whatever the pace of its goroutine and however its StartConsume interleaves
\* with the writer, a consumer gets parameter packs and a GOP from a key frame
\* on, then the packs as they are written, with whole GOPs left out: the cache
\* (CachePack, PushTo) and consumption.send implement PackFeed.
THEOREM DeliveryIsProper == Spec => FeedIsProper
<1>1. Init => Promise!Init
  BY DEF Init, Promise!Init
<1>2. IInv /\ [Next]_vars => [Promise!Next]_Promise!feedVars
  BY NextIsPromised
<1> QED
  BY <1>1, <1>2, InvariantHolds, PTL DEF Spec, FeedIsProper, Promise!Spec
=============================================================================
