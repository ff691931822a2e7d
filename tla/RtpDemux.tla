------------------------------ MODULE RtpDemux ------------------------------
(***************************************************************************)
(* The RTP demuxer of a stream: rtp.Demuxer, whose goroutine takes the     *)
(* packets of Stream.WriteRtpPacket from its queue, and the H264 and H265  *)
(* depacketizers, which put the NAL units together again and hand them as  *)
(* frames to Stream.WriteFrame.                                            *)
(*                                                                         *)
(* An encoder cuts NAL units into packets.  A hub receives them over TCP,  *)
(* but from cameras and relays that may have dropped, repeated or swapped  *)
(* packets before: the road between the encoder and the hub is the         *)
(* variable way.  A NAL unit is the number of its first packet, its kind,  *)
(* and the parts it was cut into; the bytes are not modelled.              *)
(***************************************************************************)
EXTENDS Integers, Sequences, FiniteSets

CONSTANTS
    Codec,         \* the video codecs the stream may have: "H264", "H265"
    SeqMod,        \* RTP sequence numbers are below it (65536)
    Single,        \* the kinds of NAL units sent in packets of their own
    MaxUnderWay,   \* bound of the model: packets under way and in the queue
    MaxPart,       \* bound of the model: parts of a fragmented unit
    MaxPacket,     \* bound of the model: packets the encoder sends
    MaxFault       \* bound of the model: packets lost or repeated by the way

ParamKind == {"vps", "sps", "pps"}
Kind      == ParamKind \cup {"slice", "filler"}

ASSUME RtpAssumption ==
    /\ Codec \subseteq {"H264", "H265"}
    /\ SeqMod \in Nat /\ SeqMod > 2
    /\ Single \subseteq Kind
    /\ MaxUnderWay \in Nat
    /\ MaxPart \in Nat /\ MaxPart > 1
    /\ MaxPacket \in Nat
    /\ MaxFault \in Nat

Part      == [unit : Nat, kind : Kind, idx : Nat, first : BOOLEAN, last : BOOLEAN]
Packet    == [t : Nat, fu : BOOLEAN, parts : Seq(Part)]
Frame     == Seq(Part)

VARIABLES
    codec,      \* Stream.Video.Codec
    sent,       \* the newest packet of the encoder
    way,        \* the packets on their way to the hub
    faults,     \* how many packets the way has lost or repeated
    queue,      \* Demuxer.recvQueue
    closed,     \* Demuxer.closed
    pc,         \* the goroutine process: "check", "pop", "write", "ended"
    pending,    \* the frames of the packet in hand that are not written yet
    fragments,  \* fragments of the depacketizer
    meta,       \* the parameter sets that Stream.Video has
    metaReady,  \* metaReady of the depacketizer
    written,    \* the newest frame given to Stream.WriteFrame
    run         \* the newest popped packets as long as they are the parts
                \* of one unit from its start on (history)

sourceVars == <<codec, sent, way, faults>>
depVars    == <<fragments, meta, metaReady>>
vars == <<sourceVars, queue, closed, pc, pending, depVars, written, run>>

TypeOK ==
    /\ codec \in {"H264", "H265"}
    /\ sent \in Packet
    /\ way \in SUBSET Packet
    /\ faults \in Nat
    /\ queue \in Seq(Packet)
    /\ closed \in BOOLEAN
    /\ pc \in {"check", "pop", "write", "ended"}
    /\ pending \in Seq(Frame)
    /\ fragments \in Seq(Packet)
    /\ meta \in SUBSET ParamKind
    /\ metaReady \in BOOLEAN
    /\ written \in Frame
    /\ run \in Frame

\* The parameter sets MetadataIsReady asks for.
Needed(c) == IF c = "H264" THEN {"sps", "pps"} ELSE ParamKind

\* The session description brings all parameter sets, or none.
Init ==
    /\ codec \in Codec
    /\ sent = [t |-> 0, fu |-> FALSE, parts |-> <<>>]
    /\ way = {}
    /\ faults = 0
    /\ queue = <<>>
    /\ closed = FALSE
    /\ pc = "check"
    /\ pending = <<>>
    /\ fragments = <<>>
    /\ meta \in {{}, Needed(codec)}
    /\ metaReady = FALSE
    /\ written = <<>>
    /\ run = <<>>

Newest(s)   == s[Len(s)]
Elements(s) == {s[i] : i \in 1..Len(s)}

-----------------------------------------------------------------------------
(* The encoder and the way to the hub.                                     *)

Whole(t, k) == [unit |-> t, kind |-> k, idx |-> 1, first |-> TRUE, last |-> TRUE]

\* Is the encoder in the middle of a fragmented unit?
Cutting == sent.fu /\ ~sent.parts[1].last

\* A sequence number is not used again while a packet that bears it is on
\* its way, in the queue or held as a fragment.
NumberIsFree ==
    \A p \in way \cup Elements(queue) \cup Elements(fragments) :
        sent.t + 2 - p.t < SeqMod

Sends(p) ==
    /\ sent.t < MaxPacket
    /\ Cardinality(way) + Len(queue) < MaxUnderWay
    /\ NumberIsFree
    /\ sent' = p
    /\ way' = way \cup {p}
    /\ UNCHANGED <<codec, faults, queue, closed, pc, pending, depVars, written, run>>

\* A single NAL unit packet.
SendsUnit(k) ==
    /\ ~Cutting
    /\ k \in Needed(codec) \cup {"slice", "filler"}
    /\ Sends([t |-> sent.t + 1, fu |-> FALSE, parts |-> <<Whole(sent.t + 1, k)>>])

\* An aggregation packet with the parameter sets and a slice.
SendsAggregate ==
    LET t == sent.t + 1 IN
    /\ ~Cutting
    /\ Sends([t |-> t, fu |-> FALSE,
              parts |-> (IF codec = "H264" THEN <<>> ELSE <<Whole(t, "vps")>>)
                        \o <<Whole(t, "sps"), Whole(t, "pps"), Whole(t, "slice")>>])

\* The first fragment of a slice.
SendsFirst ==
    LET t == sent.t + 1 IN
    /\ ~Cutting
    /\ Sends([t |-> t, fu |-> TRUE,
              parts |-> <<[unit |-> t, kind |-> "slice", idx |-> 1,
                           first |-> TRUE, last |-> FALSE]>>])

\* The next fragment of it.
SendsNext(isLast) ==
    /\ Cutting
    /\ LET part == sent.parts[1] IN
         /\ isLast \/ part.idx + 1 < MaxPart
         /\ Sends([t |-> sent.t + 1, fu |-> TRUE,
                   parts |-> <<[unit |-> part.unit, kind |-> part.kind, idx |-> part.idx + 1,
                                first |-> FALSE, last |-> isLast]>>])

Encoder ==
    \/ \E k \in Single : SendsUnit(k)
    \/ SendsAggregate
    \/ SendsFirst
    \/ \E isLast \in BOOLEAN : SendsNext(isLast)

\* WriteRtpPacket pushes a packet, not always in the order they were sent.
WriteRtpPacket(p) ==
    /\ queue' = Append(queue, p)
    /\ way' = way \ {p}
    /\ UNCHANGED <<codec, sent, faults, closed, pc, pending, depVars, written, run>>

\* The same, and the packet will come once more.
Repeats(p) ==
    /\ faults < MaxFault
    /\ Cardinality(way) + Len(queue) < MaxUnderWay
    /\ queue' = Append(queue, p)
    /\ faults' = faults + 1
    /\ UNCHANGED <<codec, sent, way, closed, pc, pending, depVars, written, run>>

Loses(p) ==
    /\ faults < MaxFault
    /\ way' = way \ {p}
    /\ faults' = faults + 1
    /\ UNCHANGED <<codec, sent, queue, closed, pc, pending, depVars, written, run>>

-----------------------------------------------------------------------------
(* The depacketizers.  The operators yield what the packet p leaves as     *)
(* fragments and the frames it completes.                                  *)

SequenceNumber(p) == p.t % SeqMod

\* Is p the packet after the newest fragment?
Follows(p) ==
    /\ fragments # <<>>
    /\ SequenceNumber(fragments[Len(fragments)]) = (SequenceNumber(p) - 1) % SeqMod

Holds(held) == [fragments |-> held, frames |-> <<>>]

\* An end makes a frame of all that is held; any other fragment is held too.
Assembles(held) ==
    IF Newest(held).parts[1].last
      THEN [fragments |-> <<>>, frames |-> <<[i \in 1..Len(held) |-> held[i].parts[1]]>>]
      ELSE Holds(held)

\* Mutant of depacketizeFuA: the sequence numbers are not compared.
FuAWithoutCheck(p) ==
    IF p.parts[1].first THEN Assembles(<<p>>) ELSE Assembles(Append(fragments, p))

\* H264.  A fragment that does not follow drops what is held and is dropped;
\* but with nothing held any fragment is taken.
depacketizeFuA(p) ==
    CASE p.parts[1].first -> Assembles(<<p>>)
      [] ~p.parts[1].first /\ fragments # <<>> /\ ~Follows(p) -> Holds(<<>>)
      [] OTHER -> Assembles(Append(fragments, p))

\* Mutant of depacketizeFu: with nothing held any fragment is taken.
FuTakesAny(p) ==
    CASE p.parts[1].first -> Holds(<<p>>)
      [] ~p.parts[1].first /\ fragments # <<>> /\ ~Follows(p) -> Holds(<<>>)
      [] OTHER -> Assembles(Append(fragments, p))

\* Mutant of depacketizeFu: a start that finds fragments is dropped with them.
FuDropsStart(p) ==
    CASE p.parts[1].first /\ fragments = <<>> -> Holds(<<p>>)
      [] p.parts[1].first /\ fragments # <<>> -> Holds(<<>>)
      [] ~p.parts[1].first /\ ~Follows(p) -> Holds(<<>>)
      [] OTHER -> Assembles(Append(fragments, p))

\* H265.  The same, but a fragment without its start is dropped.
depacketizeFu(p) ==
    CASE p.parts[1].first -> Holds(<<p>>)
      [] ~p.parts[1].first /\ ~Follows(p) -> Holds(<<>>)
      [] OTHER -> Assembles(Append(fragments, p))

\* The units of a single or an aggregation packet, each a frame of its own.
EachUnit(p) ==
    [fragments |-> fragments, frames |-> [i \in 1..Len(p.parts) |-> <<p.parts[i]>>]]

Depacketized(p) ==
    IF ~p.fu THEN EachUnit(p)
    ELSE IF codec = "H264" THEN depacketizeFuA(p) ELSE depacketizeFu(p)

-----------------------------------------------------------------------------
(* The goroutine.                                                          *)

\* The condition of the loop, with Reset of the queue when it ends.
ChecksClosed ==
    /\ pc = "check"
    /\ \/ ~closed /\ pc' = "pop" /\ UNCHANGED queue
       \/ closed /\ pc' = "ended" /\ queue' = <<>>
    /\ UNCHANGED <<sourceVars, closed, pending, depVars, written, run>>

Extended(p) ==
    CASE p.fu /\ p.parts[1].first -> p.parts
      [] p.fu /\ ~p.parts[1].first /\ run # <<>>
              /\ p.parts[1].unit = Newest(run).unit
              /\ p.parts[1].idx = Newest(run).idx + 1 -> run \o p.parts
      [] OTHER -> <<>>

\* Pop waits for a packet.
Depacketize ==
    /\ pc = "pop"
    /\ queue # <<>>
    /\ LET p == Head(queue)
           d == Depacketized(p)
       IN /\ fragments' = d.fragments
          /\ pending' = d.frames
          /\ pc' = IF d.frames = <<>> THEN "check" ELSE "write"
          /\ run' = Extended(p)
    /\ queue' = Tail(queue)
    /\ UNCHANGED <<sourceVars, closed, meta, metaReady, written>>

\* The Signal of Close makes Pop return nil.
PopsNil ==
    /\ pc = "pop"
    /\ queue = <<>>
    /\ closed
    /\ pc' = "check"
    /\ UNCHANGED <<sourceVars, queue, closed, pending, depVars, written, run>>

\* Mutant of writeFrame: frames go out before the parameter sets are known.
WriteFrameAlways ==
    /\ pc = "write"
    /\ meta' = meta \cup ({Head(pending)[1].kind} \cap Needed(codec))
    /\ metaReady' = (Needed(codec) \subseteq meta')
    /\ written' = Head(pending)
    /\ pending' = Tail(pending)
    /\ pc' = IF pending' = <<>> THEN "check" ELSE "write"
    /\ UNCHANGED <<sourceVars, queue, closed, fragments, run>>

\* Mutant of writeFrame: any unit counts as a parameter set.
WriteFrameStoresAll ==
    /\ pc = "write"
    /\ meta' = meta \cup {Head(pending)[1].kind}
    /\ metaReady' = (Needed(codec) \subseteq meta')
    /\ written' = IF metaReady' THEN Head(pending) ELSE written
    /\ pending' = Tail(pending)
    /\ pc' = IF pending' = <<>> THEN "check" ELSE "write"
    /\ UNCHANGED <<sourceVars, queue, closed, fragments, run>>

\* writeFrame: a parameter set that was missing is kept in Stream.Video, and
\* until all are there no frame is written.  H264 filler data never is.
writeFrame ==
    /\ pc = "write"
    /\ LET f == Head(pending)
           k == f[1].kind
           skip == codec = "H264" /\ k = "filler"
       IN /\ meta' = meta \cup ({k} \cap Needed(codec))
          /\ metaReady' = (metaReady \/ (~skip /\ Needed(codec) \subseteq meta'))
          /\ written' = IF metaReady' /\ ~skip THEN f ELSE written
    /\ pending' = Tail(pending)
    /\ pc' = IF pending' = <<>> THEN "check" ELSE "write"
    /\ UNCHANGED <<sourceVars, queue, closed, fragments, run>>

\* An aggregation packet ends before its last unit: the index panics past its
\* payload, and the goroutine with it.  The queue is reset, what is pending is
\* not written, and the demuxer is not closed: WriteRtpPacket goes on pushing.
Panics ==
    /\ pc = "write"
    /\ Len(pending) > 1
    /\ pc' = "ended"
    /\ pending' = <<>> /\ queue' = <<>>
    /\ UNCHANGED <<sourceVars, closed, depVars, written, run>>

\* Stream.close closes the demuxer.
Close ==
    /\ ~closed
    /\ closed' = TRUE
    /\ UNCHANGED <<sourceVars, queue, pc, pending, depVars, written, run>>

process == ChecksClosed \/ Depacketize \/ PopsNil \/ writeFrame \/ Panics

\* Nothing happens any more: the goroutine has ended and the way is empty.
Rests ==
    /\ pc = "ended"
    /\ UNCHANGED vars

Next ==
    \/ Encoder
    \/ \E p \in way : WriteRtpPacket(p) \/ Repeats(p) \/ Loses(p)
    \/ process
    \/ Close
    \/ Rests

Spec == Init /\ [][Next]_vars

-----------------------------------------------------------------------------
(* Properties.                                                             *)

\* A frame is never put together from the fragments of two NAL units, and it
\* has no hole: its parts are consecutive parts of one unit up to the last,
\* whatever the way lost, repeated or swapped (the sequence number check of
\* depacketizeFuA and depacketizeFu).
FrameIsOfOneUnit ==
    written # <<>> =>
        /\ Newest(written).last
        /\ \A i \in 1..(Len(written) - 1) : /\ written[i+1].unit = written[i].unit
                                            /\ written[i+1].idx = written[i].idx + 1

\* The H265 depacketizer writes whole NAL units only.  (The H264 one writes
\* the end of a unit whose start was lost.)
HevcFrameIsWhole ==
    codec = "H265" /\ written # <<>> => written[1].first

\* The depacketizers recover: when the parts of a unit were popped one after
\* the other, from its start to its end, the unit is the newest frame,
\* whatever was held or lost before.
RecoversFromLoss ==
    (pc = "check" /\ metaReady /\ run # <<>> /\ Newest(run).last) => written = run

\* The consumers of the frames find the parameter sets in Stream.Video: a
\* muxer that builds a header from the first frame on has what it needs.
FramesHaveParams == written # <<>> => Needed(codec) \subseteq meta
=============================================================================
