------------------------------ MODULE PackFeed ------------------------------
(***************************************************************************)
(* What the consumers of one kind of pack are promised, with no cache, no  *)
(* queue limit and no goroutine in sight.                                  *)
(*                                                                         *)
(* The feed of a consumer begins with a prefix: the parameter packs, then  *)
(* an unbroken part of the stream that starts at a key frame.  After it    *)
(* come packs as they are written, and once the first of them was fed the  *)
(* feed is broken only between groups of pictures: it leaves off right     *)
(* before a key frame and goes on with a key frame.                        *)
(***************************************************************************)
EXTENDS Naturals, Sequences

CONSTANTS
    Consumption,
    Shape,           \* what a pack can be
    IsParam(_),      \* a parameter pack (SPS, PPS, sequence header)
    IsKeyframe(_),   \* a pack that starts a key frame
    InGop(_)         \* a pack that counts as part of a group of pictures

VARIABLES
    published,  \* the packs written to the stream, in order
    feed,       \* feed[c]: what was handed to the queue of c, in order
    prefix      \* prefix[c]: how many of those are the prefix

feedVars == <<published, feed, prefix>>

Init ==
    /\ published = <<>>
    /\ feed = [c \in Consumption |-> <<>>]
    /\ prefix = [c \in Consumption |-> 0]

Newest == published[Len(published)]

\* packs is what a cache of groups of pictures holds of the stream from
\* position first to position last: the packs that count, in order.
IsGopOf(packs, first, last) ==
    /\ \A i, j \in 1..Len(packs) : i < j => packs[i].n < packs[j].n
    /\ {packs[i] : i \in 1..Len(packs)} =
          {published[i] : i \in {j \in first..last : InGop(published[j])}}

\* An unbroken run of packs that starts at a key frame and reaches the newest
\* pack, or the one before it when the newest is still being written.
Run(packs) ==
    \/ packs = <<>>
    \/ \E last \in {Len(published), Len(published) - 1} : \E first \in 1..last :
          IsKeyframe(published[first]) /\ IsGopOf(packs, first, last)

Publish ==
    /\ \E s \in Shape :
          published' = Append(published, [n |-> Len(published) + 1, shape |-> s])
    /\ UNCHANGED <<feed, prefix>>

Join(c) ==
    /\ feed[c] = <<>>
    /\ feed'[c] # <<>>
    /\ \E params \in 0..Len(feed'[c]) :
          /\ \A i \in 1..params : IsParam(feed'[c][i])
          /\ Run(SubSeq(feed'[c], params + 1, Len(feed'[c])))
    /\ \A d \in Consumption \ {c} : feed'[d] = feed[d]
    /\ prefix' = [prefix EXCEPT ![c] = Len(feed'[c])]
    /\ UNCHANGED published

\* The newest pack continues the feed.
Continues(c) ==
    LET last == feed[c][Len(feed[c])].n IN
    IF Len(feed[c]) = prefix[c]
      THEN \A i \in 1..Len(feed[c]) : feed[c][i].n =< Newest.n
      ELSE \/ Newest.n = last + 1
           \/ /\ Newest.n > last + 1
              /\ IsKeyframe(published[last + 1])
              /\ IsKeyframe(Newest)

Feed(c) ==
    /\ published # <<>>
    /\ Continues(c)
    /\ feed' = [feed EXCEPT ![c] = Append(@, Newest)]
    /\ UNCHANGED <<published, prefix>>

Next == Publish \/ \E c \in Consumption : Join(c) \/ Feed(c)

Spec == Init /\ [][Next]_feedVars
=============================================================================
