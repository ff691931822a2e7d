--------------------------- MODULE RtpDemux_proofs ---------------------------
(***************************************************************************)
(* Proofs about the RTP demuxer, for sequence numbers of any width, any    *)
(* number of packets and of parts, and any number of faults of the way:    *)
(* the state is of its type, a frame is put together from consecutive      *)
(* parts of one NAL unit, an H265 frame begins with the start of its unit, *)
(* frames find their parameter sets, and a unit whose parts were popped    *)
(* one after the other is written, whatever happened before.               *)
(*                                                                         *)
(* The depacketizers compare sequence numbers, which wrap.  Two facts make *)
(* the comparison sound: packets that are on their way, queued or held are *)
(* close enough to the newest packet sent for their numbers to be their    *)
(* order (OutstandingIsNear), and among them the packet that comes after   *)
(* another, in the encoder's order, carries the next part of its unit      *)
(* (NextIsNextPart).                                                       *)
(***************************************************************************)
EXTENDS RtpDemux, SequenceTheorems, TLAPS

\* The packets that are still to be seen or compared with.
Outstanding == way \cup Elements(queue) \cup Elements(fragments) \cup {sent}

\* A fragment is one part; the units of other packets are whole.
IsShaped(p) ==
    /\ p.fu => Len(p.parts) = 1
    /\ ~p.fu => \A i \in 1..Len(p.parts) : p.parts[i].first /\ p.parts[i].last

PacketsAreShaped == \A p \in Outstanding : IsShaped(p)

OutstandingIsNear ==
    \A p \in Outstanding :
        /\ p.t <= sent.t
        /\ sent.t + 1 - p.t < SeqMod
        /\ p.t = sent.t => p = sent

IsNextPart(q, p) ==
    /\ p.fu
    /\ q.parts[1].unit = p.parts[1].unit
    /\ q.parts[1].idx = p.parts[1].idx + 1

NextIsNextPart ==
    \A p, q \in Outstanding :
        (q.t = p.t + 1 /\ q.fu /\ ~q.parts[1].first) => IsNextPart(q, p)

\* What a depacketizer holds is a run of fragments, one packet after another.
IsHeld(s) ==
    /\ \A i \in 1..Len(s) : s[i].fu
    /\ \A i \in 1..(Len(s) - 1) : s[i+1].t = s[i].t + 1 /\ ~s[i+1].parts[1].first
    /\ codec = "H265" /\ s # <<>> => s[1].parts[1].first

\* The parts of a frame are consecutive parts of one unit, up to its last.
IsOfOneUnit(f) ==
    /\ Newest(f).last
    /\ \A i \in 1..(Len(f) - 1) : f[i+1].unit = f[i].unit /\ f[i+1].idx = f[i].idx + 1

IsWritable(f) ==
    /\ f # <<>>
    /\ IsOfOneUnit(f)
    /\ codec = "H265" => f[1].first

FramesAreWritable ==
    /\ \A i \in 1..Len(pending) : IsWritable(pending[i])
    /\ written # <<>> => IsWritable(written)
    /\ pc = "write" => pending # <<>>

ReadyMeansKnown ==
    /\ metaReady => Needed(codec) \subseteq meta
    /\ written # <<>> => metaReady

IInv ==
    /\ TypeOK
    /\ PacketsAreShaped
    /\ OutstandingIsNear
    /\ NextIsNextPart
    /\ IsHeld(fragments)
    /\ FramesAreWritable
    /\ ReadyMeansKnown
-----------------------------------------------------------------------------
(* Sequence numbers.                                                       *)

\* A multiple of M between -M and M is 0.
LEMMA SmallMultiple ==
    ASSUME NEW M \in Nat, M > 0, NEW k \in Int, -M < M * k, M * k < M
    PROVE  k = 0
<1>1. CASE k >= 1
  <2>1. M * k = M + M * (k - 1)
    OBVIOUS
  <2>2. M * (k - 1) >= 0
    BY <1>1
  <2> QED
    BY <2>1, <2>2
<1>2. CASE k <= -1
  <2>1. M * k = (-M) + M * (k + 1)
    OBVIOUS
  <2>2. M * (k + 1) <= 0
    BY <1>2
  <2> QED
    BY <2>1, <2>2
<1> QED
  BY <1>1, <1>2

\* What div and mod of the sequence numbers are.
LEMMA Division ==
    ASSUME NEW M \in Nat, M > 0, NEW a \in Int
    PROVE  a \div M \in Int /\ a % M \in Nat /\ a = M * (a \div M) + (a % M)
  OBVIOUS

\* Numbers less than M apart are ordered by what is left of them modulo M.
LEMMA Successor ==
    ASSUME NEW M \in Nat, M > 1, NEW a \in Nat, NEW b \in Nat,
           -M < b - 1 - a, b - 1 - a < M,
           a % M = ((b % M) - 1) % M
    PROVE  b = a + 1
<1> DEFINE c == (b % M) - 1
           k == (b \div M) + (c \div M) - (a \div M)
<1>1. c \in Int /\ c \div M \in Int
  BY Division
<1>2. b = M * (b \div M) + c + 1 /\ a = M * (a \div M) + (a % M) /\ c = M * (c \div M) + (c % M)
  BY <1>1, Division
<1>3. b \div M \in Int /\ a \div M \in Int /\ k \in Int
  BY <1>1, Division
<1>4. b - 1 - a = M * k
  BY <1>1, <1>2, <1>3
<1>5. k = 0
  BY <1>3, <1>4, SmallMultiple
<1> QED
  BY <1>4, <1>5

-----------------------------------------------------------------------------
(* The elements of sequences.                                              *)

\* What Append and Tail do to the elements of a queue.
LEMMA ElementsOf ==
    ASSUME NEW S, NEW s \in Seq(S), NEW x \in S
    PROVE  /\ Elements(s) \subseteq S
           /\ Elements(Append(s, x)) = Elements(s) \cup {x}
           /\ s # <<>> => Head(s) \in Elements(s) /\ Elements(Tail(s)) \subseteq Elements(s)
<1>1. Elements(s) \subseteq S
  BY DEF Elements
<1>2. Elements(Append(s, x)) = Elements(s) \cup {x}
  BY DEF Elements
<1>3. ASSUME s # <<>>
      PROVE  Head(s) \in Elements(s) /\ Elements(Tail(s)) \subseteq Elements(s)
  <2>1. Len(s) \in Nat /\ Len(s) >= 1 /\ Head(s) = s[1]
    BY <1>3
  <2>2. \A i \in 1..Len(Tail(s)) : i + 1 \in 1..Len(s) /\ Tail(s)[i] = s[i+1]
    BY <1>3
  <2> QED
    BY <2>1, <2>2 DEF Elements
<1> QED
  BY <1>1, <1>2, <1>3

\* What Append makes of a sequence.
LEMMA AppendOf ==
    ASSUME NEW S, NEW s \in Seq(S), NEW x \in S
    PROVE  /\ Append(s, x) \in Seq(S) /\ Append(s, x) # <<>> /\ Len(Append(s, x)) = Len(s) + 1
           /\ \A i \in 1..Len(s) : Append(s, x)[i] = s[i]
           /\ Append(s, x)[Len(Append(s, x))] = x
  OBVIOUS

\* The packets outstanding are packets.
LEMMA OutstandingArePackets == TypeOK => Outstanding \subseteq Packet
  BY ElementsOf DEF TypeOK, Outstanding

\* Nothing is lost of what is known of the packets when some of them go.
LEMMA FewerOutstanding ==
    ASSUME PacketsAreShaped, OutstandingIsNear, NextIsNextPart,
           Outstanding' \subseteq Outstanding, sent' = sent
    PROVE  PacketsAreShaped' /\ OutstandingIsNear' /\ NextIsNextPart'
  BY DEF PacketsAreShaped, OutstandingIsNear, NextIsNextPart, IsShaped, IsNextPart

-----------------------------------------------------------------------------
(* The invariant holds at the start.                                       *)

\* The invariant holds before the first packet.
LEMMA InitImpliesInv == Init => IInv
<1> SUFFICES ASSUME Init PROVE IInv
  OBVIOUS
<1> USE RtpAssumption
<1>1. TypeOK
  <2>1. sent \in Packet
    <3>1. <<>> \in Seq(Part)
      OBVIOUS
    <3> QED
      BY <3>1 DEF Init, Packet
  <2>2. meta \in SUBSET ParamKind
    BY DEF Init, Needed, ParamKind
  <2>3. \A S : <<>> \in Seq(S)
    OBVIOUS
  <2>4. queue \in Seq(Packet) /\ fragments \in Seq(Packet) /\ pending \in Seq(Frame)
    BY <2>3 DEF Init
  <2>5. written \in Frame /\ run \in Frame
    BY <2>3 DEF Init, Frame
  <2> QED
    BY <2>1, <2>2, <2>4, <2>5, RtpAssumption DEF Init, TypeOK
<1>2. Outstanding = {sent} /\ sent.t = 0 /\ ~sent.fu /\ sent.parts = <<>>
  BY DEF Init, Outstanding, Elements
<1>3. PacketsAreShaped /\ OutstandingIsNear /\ NextIsNextPart
  BY <1>2 DEF PacketsAreShaped, OutstandingIsNear, NextIsNextPart, IsShaped
<1>4. IsHeld(fragments) /\ FramesAreWritable /\ ReadyMeansKnown
  BY DEF Init, IsHeld, FramesAreWritable, ReadyMeansKnown
<1> QED
  BY <1>1, <1>3, <1>4 DEF IInv

-----------------------------------------------------------------------------
(* The encoder.                                                            *)

\* What the encoder sends continues what it sent before.
Continues(p) ==
    /\ p \in Packet
    /\ p.t = sent.t + 1
    /\ IsShaped(p)
    /\ p.fu /\ ~p.parts[1].first => IsNextPart(p, sent)

\* A unit in one packet is its first and its last part.
LEMMA WholeIsPart ==
    ASSUME NEW t \in Nat, NEW k \in Kind
    PROVE  Whole(t, k) \in Part /\ Whole(t, k).first /\ Whole(t, k).last
  BY DEF Whole, Part

\* The units of an aggregation packet, for H264 and for H265.
LEMMA Aggregate ==
    ASSUME NEW S, NEW v \in S, NEW a \in S, NEW b \in S, NEW c \in S, NEW isShort \in BOOLEAN
    PROVE  (IF isShort THEN <<>> ELSE <<v>>) \o <<a, b, c>> \in Seq(S)
<1>1. <<>> \in Seq(S) /\ <<v>> \in Seq(S) /\ <<a, b, c>> \in Seq(S)
  OBVIOUS
<1> QED
  BY <1>1

\* The encoder goes on with the unit it has begun, or begins another.
LEMMA EncoderContinues ==
    ASSUME IInv, Encoder
    PROVE  \E p : Continues(p) /\ Sends(p)
<1>1. sent \in Packet /\ sent.t \in Nat /\ sent.t + 1 \in Nat /\ codec \in {"H264", "H265"}
  BY DEF IInv, TypeOK, Packet
<1> DEFINE t == sent.t + 1
<1>2. ASSUME NEW k \in Single, SendsUnit(k)
      PROVE  \E p : Continues(p) /\ Sends(p)
  <2> DEFINE p == [t |-> t, fu |-> FALSE, parts |-> <<Whole(t, k)>>]
  <2>1. k \in Kind
    BY RtpAssumption
  <2>2. p \in Packet /\ IsShaped(p)
    BY <1>1, <2>1, WholeIsPart DEF Packet, IsShaped
  <2> QED
    BY <1>2, <2>2 DEF SendsUnit, Continues
<1>3. ASSUME SendsAggregate
      PROVE  \E p : Continues(p) /\ Sends(p)
  <2> DEFINE before == IF codec = "H264" THEN <<>> ELSE <<Whole(t, "vps")>>
             parts  == before \o <<Whole(t, "sps"), Whole(t, "pps"), Whole(t, "slice")>>
             p == [t |-> t, fu |-> FALSE, parts |-> parts]
             W == {x \in Part : x.first /\ x.last}
  <2>1. /\ Whole(t, "vps") \in W /\ Whole(t, "sps") \in W
        /\ Whole(t, "pps") \in W /\ Whole(t, "slice") \in W
    BY <1>1, WholeIsPart DEF Kind, ParamKind
  <2>2. parts \in Seq(W)
    <3> HIDE DEF W
    <3> QED
      BY <2>1, Aggregate
  <2>3. \A i \in 1..Len(parts) : parts[i] \in W
    <3> HIDE DEF W, parts
    <3> QED
      BY <2>2
  <2>4. parts \in Seq(Part)
    <3>1. Seq(W) \subseteq Seq(Part)
      OBVIOUS
    <3> QED
      BY <2>2, <3>1
  <2>5. p \in Packet /\ IsShaped(p)
    BY <1>1, <2>3, <2>4 DEF Packet, IsShaped
  <2>6. Sends(p)
    BY <1>3 DEF SendsAggregate
  <2> QED
    BY <2>5, <2>6 DEF Continues
<1>4. ASSUME SendsFirst
      PROVE  \E p : Continues(p) /\ Sends(p)
  <2> DEFINE part == [unit |-> t, kind |-> "slice", idx |-> 1, first |-> TRUE, last |-> FALSE]
             p == [t |-> t, fu |-> TRUE, parts |-> <<part>>]
  <2>1. part \in Part
    BY <1>1 DEF Part, Kind
  <2>2. p \in Packet /\ IsShaped(p) /\ p.parts[1].first
    BY <1>1, <2>1 DEF Packet, IsShaped
  <2> QED
    BY <1>4, <2>2 DEF SendsFirst, Continues
<1>5. ASSUME NEW isLast \in BOOLEAN, SendsNext(isLast)
      PROVE  \E p : Continues(p) /\ Sends(p)
  <2> DEFINE old  == sent.parts[1]
             part == [unit |-> old.unit, kind |-> old.kind, idx |-> old.idx + 1,
                      first |-> FALSE, last |-> isLast]
             p == [t |-> t, fu |-> TRUE, parts |-> <<part>>]
  <2>1. sent.fu /\ Len(sent.parts) = 1
    BY <1>5 DEF SendsNext, Cutting, IInv, PacketsAreShaped, Outstanding, IsShaped
  <2>2. old \in Part
    BY <1>1, <2>1 DEF Packet
  <2>3. part \in Part
    BY <2>2 DEF Part
  <2>4. p \in Packet /\ IsShaped(p) /\ IsNextPart(p, sent)
    BY <1>1, <2>1, <2>3 DEF Packet, IsShaped, IsNextPart
  <2>5. Sends(p)
    BY <1>5 DEF SendsNext
  <2> QED
    BY <2>4, <2>5 DEF Continues
<1> QED
  BY <1>2, <1>3, <1>4, <1>5 DEF Encoder

\* What only the goroutine changes is as it was when none of it changes.
LEMMA GoroutineKeeps ==
    ASSUME IInv, UNCHANGED <<codec, pc, pending, fragments, meta, metaReady, written>>
    PROVE  IsHeld(fragments)' /\ FramesAreWritable' /\ ReadyMeansKnown'
<1>1. IsHeld(fragments)'
  BY DEF IInv, IsHeld
<1>2. \A f : IsWritable(f) => IsWritable(f)'
  BY DEF IsWritable, IsOfOneUnit, Newest
<1>3. FramesAreWritable'
  BY <1>2 DEF IInv, FramesAreWritable
<1>4. ReadyMeansKnown'
  BY DEF IInv, ReadyMeansKnown, Needed
<1> QED
  BY <1>1, <1>3, <1>4

\* Every number outstanding is old enough when a new packet takes the next.
LEMMA SendsKeepsInv ==
    ASSUME IInv, NEW p, Continues(p), Sends(p)
    PROVE  IInv'
<1>1. sent \in Packet /\ Outstanding \subseteq Packet /\ p \in Packet /\ SeqMod \in Nat
  BY OutstandingArePackets, RtpAssumption DEF IInv, TypeOK, Continues
<1> DEFINE Old == way \cup Elements(queue) \cup Elements(fragments)
<1>2. sent' = p /\ Outstanding' = Old \cup {p} /\ Old \subseteq Outstanding
  BY DEF Sends, Outstanding, Elements, depVars
<1>3. \A q \in Outstanding' : q = p \/ q \in Old
  BY <1>2
<1>4. TypeOK'
  BY <1>1 DEF IInv, TypeOK, Sends, depVars
<1>5. PacketsAreShaped'
  BY <1>2, <1>3 DEF IInv, PacketsAreShaped, Continues, IsShaped
<1>6. OutstandingIsNear'
  <2> SUFFICES ASSUME NEW q \in Outstanding'
               PROVE  q.t <= p.t /\ p.t + 1 - q.t < SeqMod /\ (q.t = p.t => q = p)
    BY <1>2 DEF OutstandingIsNear
  <2>1. p.t = sent.t + 1 /\ sent.t \in Nat
    BY <1>1 DEF Continues, Packet
  <2>2. CASE q = p
    BY <1>1, <2>1, <2>2, RtpAssumption
  <2>3. CASE q # p
    <3>1. q \in Outstanding /\ q.t \in Nat /\ q.t <= sent.t
      BY <1>1, <1>2, <1>3, <2>3 DEF IInv, OutstandingIsNear, Packet
    <3>2. sent.t + 2 - q.t < SeqMod
      BY <1>3, <2>3 DEF Sends, NumberIsFree
    <3> QED
      BY <1>1, <2>1, <3>1, <3>2
  <2> QED
    BY <2>2, <2>3
<1>7. NextIsNextPart'
  <2> SUFFICES ASSUME NEW r \in Outstanding', NEW q \in Outstanding',
                      q.t = r.t + 1, q.fu, ~q.parts[1].first
               PROVE  IsNextPart(q, r)
    BY DEF NextIsNextPart, IsNextPart
  <2>1. p.t = sent.t + 1 /\ sent.t \in Nat /\ r \in Packet /\ q \in Packet
    BY <1>1, <1>2, <1>3 DEF Continues, Packet
  <2>2. r.t \in Nat /\ q.t \in Nat
    BY <2>1 DEF Packet
  <2>3. \A x \in Old : x.t <= sent.t /\ (x.t = sent.t => x = sent)
    BY <1>2 DEF IInv, OutstandingIsNear
  <2>4. r \in Old
    BY <1>3, <2>1, <2>2, <2>3
  <2>5. CASE q = p
    BY <2>1, <2>2, <2>3, <2>4, <2>5 DEF Continues
  <2>6. CASE q \in Old
    BY <1>2, <2>4, <2>6 DEF IInv, NextIsNextPart
  <2> QED
    BY <1>3, <2>5, <2>6
<1>8. IsHeld(fragments)' /\ FramesAreWritable' /\ ReadyMeansKnown'
  <2>1. UNCHANGED <<codec, pc, pending, fragments, meta, metaReady, written>>
    BY DEF Sends, depVars
  <2> QED
    BY <2>1, GoroutineKeeps
<1> QED
  BY <1>4, <1>5, <1>6, <1>7, <1>8 DEF IInv

-----------------------------------------------------------------------------
(* The way to the hub.                                                     *)

\* What the way does moves packets, and leaves the goroutine alone.
LEMMA WayKeepsInv ==
    ASSUME IInv, NEW p \in way, WriteRtpPacket(p) \/ Repeats(p) \/ Loses(p)
    PROVE  IInv'
<1>1. p \in Packet /\ queue \in Seq(Packet)
  BY DEF IInv, TypeOK
<1>2. Elements(Append(queue, p)) = Elements(queue) \cup {p}
  BY <1>1, ElementsOf
<1>3. Elements(queue') \subseteq Elements(queue) \cup {p} /\ way' \subseteq way
  BY <1>2 DEF WriteRtpPacket, Repeats, Loses
<1>4. sent' = sent /\ fragments' = fragments
  BY DEF WriteRtpPacket, Repeats, Loses, depVars
<1>5. Outstanding' \subseteq Outstanding
  BY <1>3, <1>4 DEF Outstanding, Elements
<1>6. PacketsAreShaped' /\ OutstandingIsNear' /\ NextIsNextPart'
  BY <1>4, <1>5, FewerOutstanding DEF IInv
<1>7. TypeOK'
  <2>1. queue' \in Seq(Packet)
    BY <1>1 DEF WriteRtpPacket, Repeats, Loses
  <2>2. faults' \in Nat /\ way' \in SUBSET Packet
    BY <1>3 DEF IInv, TypeOK, WriteRtpPacket, Repeats, Loses
  <2>3. UNCHANGED <<codec, sent, closed, pc, pending, fragments, meta, metaReady, written, run>>
    BY DEF WriteRtpPacket, Repeats, Loses, depVars
  <2> QED
    BY <2>1, <2>2, <2>3 DEF IInv, TypeOK
<1>8. IsHeld(fragments)' /\ FramesAreWritable' /\ ReadyMeansKnown'
  <2>1. UNCHANGED <<codec, pc, pending, fragments, meta, metaReady, written>>
    BY DEF WriteRtpPacket, Repeats, Loses, depVars
  <2> QED
    BY <2>1, GoroutineKeeps
<1> QED
  BY <1>6, <1>7, <1>8 DEF IInv

-----------------------------------------------------------------------------
(* The depacketizers.                                                      *)

\* The check of the sequence numbers is exact: it lets the very next packet
\* pass and no other.
LEMMA FollowsMeansNext ==
    ASSUME IInv, NEW p \in Outstanding, Follows(p)
    PROVE  fragments # <<>> /\ p.t = Newest(fragments).t + 1
<1> DEFINE f == fragments[Len(fragments)]
<1>1. fragments # <<>> /\ fragments \in Seq(Packet) /\ f \in Outstanding
  BY DEF Follows, IInv, TypeOK, Outstanding, Elements
<1>2. f \in Packet /\ p \in Packet /\ sent \in Packet
  BY <1>1, OutstandingArePackets DEF IInv, TypeOK
<1>3. f.t \in Nat /\ p.t \in Nat /\ sent.t \in Nat /\ SeqMod \in Nat /\ SeqMod > 1
  BY <1>2, RtpAssumption DEF Packet
<1>4. /\ f.t <= sent.t /\ sent.t + 1 - f.t < SeqMod
      /\ p.t <= sent.t /\ sent.t + 1 - p.t < SeqMod
  BY <1>1 DEF IInv, OutstandingIsNear
<1>5. f.t % SeqMod = ((p.t % SeqMod) - 1) % SeqMod
  BY DEF Follows, SequenceNumber
<1>6. -SeqMod < p.t - 1 - f.t /\ p.t - 1 - f.t < SeqMod
  <2> DEFINE x == p.t
             y == f.t
             z == sent.t
  <2>1. x \in Nat /\ y \in Nat /\ z \in Nat /\ SeqMod \in Nat
    BY <1>3
  <2>2. y <= z /\ z + 1 - y < SeqMod /\ x <= z /\ z + 1 - x < SeqMod
    BY <1>4
  <2> HIDE DEF x, y, z
  <2>3. -SeqMod < x - 1 - y /\ x - 1 - y < SeqMod
    BY <2>1, <2>2
  <2> QED
    BY <2>3 DEF x, y
<1>7. p.t = f.t + 1
  BY <1>3, <1>5, <1>6, Successor
<1> QED
  BY <1>1, <1>7 DEF Newest

\* A packet in hand, and what may be held with it.
IsRun(s) == s \in Seq(Packet) /\ s # <<>> /\ IsHeld(s)

\* The parts of what is held are consecutive parts of one unit.
LEMMA AssemblesWhatIsWritable ==
    ASSUME IInv, NEW s, IsRun(s), Elements(s) \subseteq Outstanding
    PROVE  /\ Assembles(s).fragments \in Seq(Packet)
           /\ IsHeld(Assembles(s).fragments)
           /\ Elements(Assembles(s).fragments) \subseteq Outstanding
           /\ Assembles(s).frames \in Seq(Frame)
           /\ \A i \in 1..Len(Assembles(s).frames) : IsWritable(Assembles(s).frames[i])
<1>1. s \in Seq(Packet) /\ s # <<>> /\ Len(s) \in Nat /\ Len(s) >= 1
  BY DEF IsRun
<1>2. CASE ~Newest(s).parts[1].last
  <2>1. Assembles(s).fragments = s /\ Assembles(s).frames = <<>>
    BY <1>2 DEF Assembles, Holds
  <2> QED
    BY <1>1, <2>1 DEF IsRun
<1>3. CASE Newest(s).parts[1].last
  <2> DEFINE f == [i \in 1..Len(s) |-> s[i].parts[1]]
  <2>1. Assembles(s).fragments = <<>> /\ Assembles(s).frames = <<f>>
    BY <1>3 DEF Assembles
  <2>2. \A i \in 1..Len(s) : s[i] \in Packet /\ s[i].fu /\ s[i] \in Outstanding
    BY <1>1 DEF IsRun, IsHeld, Elements
  <2>3. \A i \in 1..Len(s) : s[i].parts[1] \in Part
    BY <2>2 DEF IInv, PacketsAreShaped, IsShaped, Packet
  <2>4. f \in Frame /\ f # <<>> /\ Len(f) = Len(s)
    BY <1>1, <2>3 DEF Frame
  <2>5. Newest(f).last
    BY <1>1, <1>3, <2>4 DEF Newest
  <2>6. ASSUME NEW i \in 1..(Len(f) - 1)
        PROVE  f[i+1].unit = f[i].unit /\ f[i+1].idx = f[i].idx + 1
    <3>1. i \in 1..Len(s) /\ i + 1 \in 1..Len(s)
      BY <1>1, <2>4
    <3>2. s[i+1].t = s[i].t + 1 /\ ~s[i+1].parts[1].first
      BY <1>1, <2>4 DEF IsRun, IsHeld
    <3>3. IsNextPart(s[i+1], s[i])
      BY <2>2, <3>1, <3>2 DEF IInv, NextIsNextPart
    <3> QED
      BY <3>1, <3>3 DEF IsNextPart
  <2>7. codec = "H265" => f[1].first
    BY <1>1 DEF IsRun, IsHeld
  <2>8. IsWritable(f)
    <3> HIDE DEF f
    <3> QED
      BY <2>4, <2>5, <2>6, <2>7 DEF IsWritable, IsOfOneUnit
  <2>9. /\ <<>> \in Seq(Packet) /\ IsHeld(<<>>) /\ Elements(<<>>) = {}
        /\ <<f>> \in Seq(Frame) /\ Len(<<f>>) = 1 /\ <<f>>[1] = f
    <3> HIDE DEF f
    <3> QED
      BY <2>4 DEF IsHeld, Elements
  <2> QED
    BY <2>1, <2>8, <2>9
<1> QED
  BY <1>2, <1>3

\* The next part of what is held is held with it.
LEMMA AppendKeepsRun ==
    ASSUME IInv, NEW p \in Outstanding, p.fu, ~p.parts[1].first,
           fragments = <<>> => codec # "H265",
           fragments # <<>> => p.t = Newest(fragments).t + 1
    PROVE  IsRun(Append(fragments, p)) /\ Elements(Append(fragments, p)) \subseteq Outstanding
<1> DEFINE s == Append(fragments, p)
<1>1. fragments \in Seq(Packet) /\ p \in Packet /\ Len(fragments) \in Nat
  BY OutstandingArePackets DEF IInv, TypeOK
<1>2. /\ s \in Seq(Packet) /\ s # <<>> /\ Len(s) = Len(fragments) + 1
      /\ \A i \in 1..Len(fragments) : s[i] = fragments[i]
      /\ s[Len(s)] = p
  BY <1>1, AppendOf
<1>3. Elements(s) \subseteq Outstanding
  BY <1>1, ElementsOf DEF Outstanding
<1>4. \A i \in 1..Len(s) : s[i].fu
  <2> HIDE DEF s
  <2> QED
    BY <1>1, <1>2 DEF IInv, IsHeld
<1>5. ASSUME NEW i \in 1..(Len(s) - 1)
      PROVE  s[i+1].t = s[i].t + 1 /\ ~s[i+1].parts[1].first
  <2>1. i \in 1..Len(fragments) /\ s[i] = fragments[i]
    BY <1>1, <1>2
  <2>2. CASE i = Len(fragments)
    BY <1>1, <1>2, <2>1, <2>2 DEF Newest
  <2>3. CASE i # Len(fragments)
    <3>1. i \in 1..(Len(fragments) - 1) /\ i + 1 \in 1..Len(fragments) /\ s[i+1] = fragments[i+1]
      BY <1>1, <1>2, <2>1, <2>3
    <3> QED
      BY <2>1, <3>1 DEF IInv, IsHeld
  <2> QED
    BY <2>2, <2>3
<1>6. codec = "H265" => s[1].parts[1].first
  BY <1>1, <1>2 DEF IInv, IsHeld
<1> QED
  BY <1>2, <1>3, <1>4, <1>5, <1>6 DEF IsRun, IsHeld

\* A first fragment begins a run of its own.
LEMMA StartIsRun ==
    ASSUME IInv, NEW p \in Outstanding, p.fu, p.parts[1].first
    PROVE  IsRun(<<p>>) /\ Elements(<<p>>) \subseteq Outstanding
<1>1. p \in Packet
  BY OutstandingArePackets DEF IInv
<1> QED
  BY <1>1 DEF IsRun, IsHeld, Elements

\* What a depacketizer yields for a packet outstanding.
IsGood(d) ==
    /\ d.fragments \in Seq(Packet)
    /\ IsHeld(d.fragments)
    /\ Elements(d.fragments) \subseteq Outstanding
    /\ d.frames \in Seq(Frame)
    /\ \A i \in 1..Len(d.frames) : IsWritable(d.frames[i])

\* To hold fragments back writes no frame.
LEMMA HoldsIsGood ==
    ASSUME NEW s, s \in Seq(Packet), IsHeld(s), Elements(s) \subseteq Outstanding
    PROVE  IsGood(Holds(s))
  BY DEF IsGood, Holds

\* A packet turns good fragments into good fragments and writable frames.
LEMMA DepacketizedIsGood ==
    ASSUME IInv, NEW p \in Outstanding
    PROVE  IsGood(Depacketized(p))
<1>1. p \in Packet /\ IsShaped(p) /\ codec \in {"H264", "H265"}
  BY OutstandingArePackets DEF IInv, TypeOK, PacketsAreShaped
<1>2. fragments \in Seq(Packet) /\ IsHeld(fragments) /\ Elements(fragments) \subseteq Outstanding
  BY DEF IInv, TypeOK, Outstanding
<1>3. IsGood(Holds(<<>>))
  <2>1. <<>> \in Seq(Packet) /\ IsHeld(<<>>) /\ Elements(<<>>) = {}
    BY DEF IsHeld, Elements
  <2> QED
    BY <2>1, HoldsIsGood
<1>4. CASE ~p.fu
  <2> DEFINE frames == [i \in 1..Len(p.parts) |-> <<p.parts[i]>>]
  <2>1. p.parts \in Seq(Part) /\ Len(p.parts) \in Nat
    BY <1>1 DEF Packet
  <2>2. \A i \in 1..Len(p.parts) : p.parts[i] \in Part /\ p.parts[i].first /\ p.parts[i].last
    BY <1>1, <1>4, <2>1 DEF IsShaped
  <2>3. ASSUME NEW x \in Part, x.first, x.last
        PROVE  <<x>> \in Frame /\ IsWritable(<<x>>)
    BY <2>3 DEF Frame, IsWritable, IsOfOneUnit, Newest
  <2>4. frames \in Seq(Frame) /\ Len(frames) = Len(p.parts)
    BY <2>1, <2>2, <2>3
  <2>5. \A i \in 1..Len(frames) : IsWritable(frames[i])
    BY <2>2, <2>3, <2>4
  <2>6. Depacketized(p) = [fragments |-> fragments, frames |-> frames]
    BY <1>4 DEF Depacketized, EachUnit
  <2> QED
    <3> HIDE DEF frames
    <3> QED
      BY <1>2, <2>4, <2>5, <2>6 DEF IsGood
<1>5. CASE p.fu /\ p.parts[1].first
  <2>1. IsGood(Assembles(<<p>>))
    BY <1>5, StartIsRun, AssemblesWhatIsWritable DEF IsGood
  <2>2. IsGood(Holds(<<p>>))
    BY <1>5, StartIsRun, HoldsIsGood DEF IsRun
  <2> QED
    BY <1>5, <2>1, <2>2 DEF Depacketized, depacketizeFuA, depacketizeFu
<1>6. CASE p.fu /\ ~p.parts[1].first /\ ~Follows(p) /\ (codec = "H265" \/ fragments # <<>>)
  <2>1. Depacketized(p) = Holds(<<>>)
    BY <1>1, <1>6 DEF Depacketized, depacketizeFuA, depacketizeFu
  <2> QED
    BY <1>3, <2>1
<1>7. CASE p.fu /\ ~p.parts[1].first /\ (Follows(p) \/ (codec = "H264" /\ fragments = <<>>))
  <2>1. Depacketized(p) = Assembles(Append(fragments, p))
    BY <1>1, <1>7 DEF Depacketized, depacketizeFuA, depacketizeFu
  <2>2. IsRun(Append(fragments, p)) /\ Elements(Append(fragments, p)) \subseteq Outstanding
    BY <1>7, FollowsMeansNext, AppendKeepsRun
  <2> QED
    BY <2>1, <2>2, AssemblesWhatIsWritable DEF IsGood
<1> QED
  BY <1>1, <1>4, <1>5, <1>6, <1>7

-----------------------------------------------------------------------------
(* The goroutine.                                                          *)

\* The history variable run is a sequence of parts.
LEMMA ExtendedIsFrame ==
    ASSUME TypeOK, NEW p \in Packet
    PROVE  Extended(p) \in Frame
<1>1. p.parts \in Frame /\ run \in Frame /\ <<>> \in Frame
  BY DEF TypeOK, Packet, Frame
<1>2. run \o p.parts \in Frame
  BY <1>1 DEF Frame
<1> QED
  BY <1>1, <1>2 DEF Extended

\* Taking one packet from the queue keeps the invariant.
LEMMA DepacketizeKeepsInv ==
    ASSUME IInv, Depacketize
    PROVE  IInv'
<1> DEFINE p == Head(queue)
           d == Depacketized(p)
<1>1. queue \in Seq(Packet) /\ queue # <<>> /\ sent \in Packet
  BY DEF IInv, TypeOK, Depacketize
<1>2. p \in Elements(queue) /\ Elements(Tail(queue)) \subseteq Elements(queue)
  BY <1>1, ElementsOf
<1>3. p \in Outstanding /\ p \in Packet
  BY <1>2, OutstandingArePackets DEF Outstanding, IInv
<1>4. IsGood(d)
  BY <1>3, DepacketizedIsGood
<1> HIDE DEF d
<1>5. /\ fragments' = d.fragments /\ pending' = d.frames /\ run' = Extended(p)
      /\ pc' = (IF d.frames = <<>> THEN "check" ELSE "write")
      /\ queue' = Tail(queue)
      /\ UNCHANGED <<codec, sent, way, faults, closed, meta, metaReady, written>>
  BY DEF Depacketize, sourceVars, d
<1>6. Outstanding' \subseteq Outstanding
  <2>1. Elements(fragments)' \subseteq Outstanding /\ Elements(queue)' \subseteq Elements(queue)
    BY <1>2, <1>4, <1>5 DEF IsGood, Elements
  <2> QED
    BY <1>5, <2>1 DEF Outstanding
<1>7. PacketsAreShaped' /\ OutstandingIsNear' /\ NextIsNextPart'
  BY <1>5, <1>6, FewerOutstanding DEF IInv
<1>8. TypeOK'
  <2>1. queue' \in Seq(Packet)
    BY <1>1, <1>5
  <2>2. run' \in Frame
    BY <1>3, <1>5, ExtendedIsFrame DEF IInv
  <2> QED
    BY <1>4, <1>5, <2>1, <2>2 DEF IInv, TypeOK, IsGood
<1>9. IsHeld(fragments)'
  BY <1>4, <1>5 DEF IsGood, IsHeld
<1>10. FramesAreWritable' /\ ReadyMeansKnown'
  BY <1>4, <1>5 DEF IInv, IsGood, FramesAreWritable, ReadyMeansKnown, Needed, IsWritable,
                    IsOfOneUnit, Newest
<1> QED
  BY <1>7, <1>8, <1>9, <1>10 DEF IInv

\* Writing the next frame, or storing its parameter set, keeps the invariant.
LEMMA WriteFrameKeepsInv ==
    ASSUME IInv, writeFrame
    PROVE  IInv'
<1>1. pending \in Seq(Frame) /\ pending # <<>> /\ Len(pending) \in Nat /\ Len(pending) >= 1
  BY DEF IInv, TypeOK, FramesAreWritable, writeFrame
<1>2. /\ Head(pending) \in Frame /\ IsWritable(Head(pending))
      /\ Tail(pending) \in Seq(Frame)
      /\ \A i \in 1..Len(Tail(pending)) : IsWritable(Tail(pending)[i])
  <2>1. Head(pending) = pending[1] /\ pending[1] \in Frame /\ Tail(pending) \in Seq(Frame)
    BY <1>1
  <2>2. \A i \in 1..Len(Tail(pending)) : i + 1 \in 1..Len(pending) /\ Tail(pending)[i] = pending[i+1]
    BY <1>1
  <2> QED
    BY <1>1, <2>1, <2>2 DEF IInv, FramesAreWritable
<1>3. /\ UNCHANGED <<codec, sent, way, faults, queue, closed, fragments, run>>
      /\ pending' = Tail(pending)
      /\ pc' = (IF pending' = <<>> THEN "check" ELSE "write")
      /\ written' \in {written, Head(pending)}
      /\ written' = Head(pending) \/ written' = written
  BY DEF writeFrame, sourceVars
<1>4. Needed(codec) \subseteq ParamKind /\ meta' = meta \cup ({Head(pending)[1].kind} \cap Needed(codec))
  BY DEF Needed, ParamKind, writeFrame
<1>5. metaReady' \in BOOLEAN /\ (metaReady => metaReady') /\ (written' = written \/ metaReady')
  BY DEF writeFrame, IInv, TypeOK
<1>6. metaReady' => Needed(codec) \subseteq meta'
  BY <1>4 DEF writeFrame, IInv, ReadyMeansKnown
<1>7. TypeOK'
  BY <1>2, <1>3, <1>4, <1>5 DEF IInv, TypeOK
<1>8. PacketsAreShaped' /\ OutstandingIsNear' /\ NextIsNextPart'
  <2>1. Outstanding' = Outstanding
    BY <1>3 DEF Outstanding, Elements
  <2> QED
    BY <1>3, <2>1, FewerOutstanding DEF IInv
<1>9. FramesAreWritable' /\ IsHeld(fragments)'
  BY <1>2, <1>3 DEF IInv, FramesAreWritable, IsHeld, IsWritable, IsOfOneUnit, Newest
<1>10. ReadyMeansKnown'
  BY <1>3, <1>5, <1>6 DEF IInv, ReadyMeansKnown, Needed
<1> QED
  BY <1>7, <1>8, <1>9, <1>10 DEF IInv

\* The other steps of the goroutine only empty the queue.
LEMMA OtherStepsKeepInv ==
    ASSUME IInv, ChecksClosed \/ PopsNil \/ Panics \/ Close \/ UNCHANGED vars
    PROVE  IInv'
<1>1. /\ UNCHANGED <<codec, sent, way, faults, fragments, meta, metaReady, written, run>>
      /\ pending' = pending \/ (pending' = <<>> /\ pc' = "ended")
      /\ queue' = queue \/ queue' = <<>>
      /\ pc' \in {"check", "pop", "ended"} \/ pc' = pc
      /\ closed' \in BOOLEAN
  BY DEF ChecksClosed, PopsNil, Panics, Close, vars, sourceVars, depVars, IInv, TypeOK
<1>2. queue' \in Seq(Packet) /\ Elements(queue)' \subseteq Elements(queue)
  <2>1. <<>> \in Seq(Packet) /\ Elements(<<>>) = {}
    BY DEF Elements
  <2> QED
    BY <1>1, <2>1 DEF IInv, TypeOK, Elements
<1>3. TypeOK'
  <2>1. pending' \in Seq(Frame)
    <3>1. pending \in Seq(Frame) /\ <<>> \in Seq(Frame)
      BY DEF IInv, TypeOK
    <3> QED
      BY <1>1, <3>1
  <2>2. pc' \in {"check", "pop", "write", "ended"}
    BY <1>1 DEF IInv, TypeOK
  <2> QED
    BY <1>1, <1>2, <2>1, <2>2 DEF IInv, TypeOK
<1>4. PacketsAreShaped' /\ OutstandingIsNear' /\ NextIsNextPart'
  <2>1. Outstanding' \subseteq Outstanding
    BY <1>1, <1>2 DEF Outstanding, Elements
  <2> QED
    BY <1>1, <2>1, FewerOutstanding DEF IInv
<1>5. IsHeld(fragments)' /\ FramesAreWritable' /\ ReadyMeansKnown'
  BY <1>1 DEF IInv, IsHeld, FramesAreWritable, IsWritable, IsOfOneUnit, Newest, ReadyMeansKnown,
              Needed
<1> QED
  BY <1>3, <1>4, <1>5 DEF IInv

-----------------------------------------------------------------------------
(* The theorems.                                                           *)

\* Every step keeps the invariant.
LEMMA NextKeepsInv == IInv /\ [Next]_vars => IInv'
<1> SUFFICES ASSUME IInv, [Next]_vars PROVE IInv'
  OBVIOUS
<1>1. CASE Encoder
  BY <1>1, EncoderContinues, SendsKeepsInv
<1>2. ASSUME NEW p \in way, WriteRtpPacket(p) \/ Repeats(p) \/ Loses(p)
      PROVE  IInv'
  BY <1>2, WayKeepsInv
<1>3. CASE process
  BY <1>3, DepacketizeKeepsInv, WriteFrameKeepsInv, OtherStepsKeepInv DEF process
<1>4. CASE Close \/ Rests \/ UNCHANGED vars
  BY <1>4, OtherStepsKeepInv DEF Rests
<1> QED
  BY <1>1, <1>2, <1>3, <1>4 DEF Next

\* IInv is inductive: what follows of it holds whatever the way to the hub
\* does and wherever the goroutine of Demuxer.process is.
THEOREM InvariantHolds == Spec => []IInv
  BY InitImpliesInv, NextKeepsInv, PTL DEF Spec

\* The state of the demuxer is of its type (rtp.Demuxer and the
\* depacketizers' fields), for every width of the sequence numbers.
THEOREM TypeCorrect == Spec => []TypeOK
<1>1. IInv => TypeOK
  BY DEF IInv
<1> QED
  BY <1>1, InvariantHolds, PTL

\* A frame is put together from consecutive parts of one NAL unit up to its
\* last (the checks of h264Depacketizer.depacketizeFuA and of
\* h265Depacketizer.depacketizeFu), whatever the way loses, repeats, swaps.
THEOREM FramesAreOfOneUnit == Spec => []FrameIsOfOneUnit
<1>1. IInv => FrameIsOfOneUnit
  BY DEF IInv, FramesAreWritable, IsWritable, IsOfOneUnit, FrameIsOfOneUnit
<1> QED
  BY <1>1, InvariantHolds, PTL

\* An H265 frame begins with the start of its unit, so that it is whole
\* (depacketizeFu drops a fragment whose start it does not hold).
THEOREM HevcFramesAreWhole == Spec => []HevcFrameIsWhole
<1>1. IInv => HevcFrameIsWhole
  BY DEF IInv, FramesAreWritable, IsWritable, HevcFrameIsWhole
<1> QED
  BY <1>1, InvariantHolds, PTL

\* A frame is written only when Stream.Video has the parameter sets
\* (metaReady in writeFrame of both depacketizers).
THEOREM FramesFindParams == Spec => []FramesHaveParams
<1>1. IInv => FramesHaveParams
  BY DEF IInv, ReadyMeansKnown, FramesHaveParams
<1> QED
  BY <1>1, InvariantHolds, PTL

-----------------------------------------------------------------------------
(* Recovery.  The variable run has the parts that were popped one after    *)
(* the other; the fragments held are those parts, because a part says how  *)
(* far it is from the first packet of its unit (FragmentsAreNumbered), and *)
(* nothing after the last part belongs to the unit (EndsAreEnds).          *)

\* The place of a part in the encoder's order.
PlaceOf(e) == e.unit + e.idx - 1

IsNumbered(p) ==
    p.fu => /\ p.t = PlaceOf(p.parts[1])
            /\ p.parts[1].kind = "slice"
            /\ p.parts[1].idx > 0
            /\ p.parts[1].first => ~p.parts[1].last

FragmentsAreNumbered == \A p \in Outstanding : IsNumbered(p)

\* What is outstanding and comes after e is of a later unit.
IsEndOf(e) ==
    \A q \in Outstanding : q.fu /\ q.t > PlaceOf(e) => q.parts[1].unit > PlaceOf(e)

EndsAreEnds == \A p \in Outstanding : p.fu /\ p.parts[1].last => IsEndOf(p.parts[1])

\* Part e was sent.
IsPast(e) ==
    /\ PlaceOf(e) <= sent.t
    /\ e.idx > 0
    /\ sent.t = PlaceOf(e) => sent.fu /\ sent.parts[1] = e
    /\ e.last => IsEndOf(e)

RunIsPast ==
    run # <<>> => IsPast(Newest(run)) /\ \A i \in 1..Len(run) : run[i].kind = "slice"

\* As long as its last part is missing, the run is what is held ...
RunIsHeld ==
    run # <<>> /\ ~Newest(run).last =>
        /\ Len(fragments) = Len(run)
        /\ \A i \in 1..Len(run) : fragments[i].parts[1] = run[i]

\* ... and then it is the frame to write, until it is written.
RunIsWritten ==
    run # <<>> /\ Newest(run).last =>
        /\ pc = "write" => pending = <<run>>
        /\ pc \in {"check", "pop"} /\ metaReady => written = run

RInv ==
    /\ FragmentsAreNumbered
    /\ EndsAreEnds
    /\ RunIsPast
    /\ RunIsHeld
    /\ RunIsWritten

\* Of a fragment outstanding, the one part.
LEMMA FragmentHasPart ==
    ASSUME IInv, NEW p \in Outstanding, p.fu
    PROVE  /\ p \in Packet /\ Len(p.parts) = 1 /\ p.parts[1] \in Part
           /\ p.parts \in Seq(Part) /\ p.t \in Nat
           /\ p.parts[1].unit \in Nat /\ p.parts[1].idx \in Nat
           /\ p.parts[1].last \in BOOLEAN
<1>1. p \in Packet /\ Len(p.parts) = 1
  BY OutstandingArePackets DEF IInv, PacketsAreShaped, IsShaped
<1>2. p.parts \in Seq(Part) /\ p.t \in Nat
  BY <1>1 DEF Packet
<1>3. p.parts[1] \in Part
  BY <1>1, <1>2
<1> QED
  BY <1>1, <1>2, <1>3 DEF Part

\* Of the run, the newest part.
LEMMA RunHasParts ==
    ASSUME TypeOK, run # <<>>
    PROVE  /\ run \in Seq(Part) /\ Len(run) \in Nat /\ Len(run) >= 1
           /\ Newest(run) \in Part
           /\ Newest(run).unit \in Nat /\ Newest(run).idx \in Nat
<1>1. run \in Seq(Part) /\ Len(run) \in Nat /\ Len(run) >= 1
  BY DEF TypeOK, Frame
<1>2. Newest(run) \in Part
  BY <1>1 DEF Newest
<1> QED
  BY <1>1, <1>2 DEF Part

\* What the encoder sends next is the first packet of a unit, or the next part
\* of the unit that it is cutting.
LEMMA EncoderNumbers ==
    ASSUME IInv, FragmentsAreNumbered, Encoder
    PROVE  /\ IsNumbered(sent')
           /\ sent'.fu => \/ sent'.parts[1].unit = sent'.t
                          \/ /\ sent.fu /\ ~sent.parts[1].last
                             /\ sent'.parts[1].unit = sent.parts[1].unit
<1>1. sent \in Packet /\ sent.t \in Nat
  BY DEF IInv, TypeOK, Packet
<1>2. ASSUME NEW k \in Single, SendsUnit(k) PROVE ~sent'.fu
  BY <1>2 DEF SendsUnit, Sends
<1>3. ASSUME SendsAggregate PROVE ~sent'.fu
  BY <1>3 DEF SendsAggregate, Sends
<1>4. ASSUME SendsFirst
      PROVE  IsNumbered(sent') /\ sent'.parts[1].unit = sent'.t
  BY <1>1, <1>4 DEF SendsFirst, Sends, IsNumbered, PlaceOf
<1>5. ASSUME NEW isLast \in BOOLEAN, SendsNext(isLast)
      PROVE  /\ IsNumbered(sent')
             /\ sent.fu /\ ~sent.parts[1].last
             /\ sent'.parts[1].unit = sent.parts[1].unit
  <2>1. sent.fu /\ ~sent.parts[1].last /\ sent \in Outstanding
    BY <1>5 DEF SendsNext, Cutting, Outstanding
  <2>2. sent.parts[1].unit \in Nat /\ sent.parts[1].idx \in Nat /\ IsNumbered(sent)
    BY <2>1, FragmentHasPart DEF FragmentsAreNumbered
  <2>3. /\ sent'.fu /\ sent'.t = sent.t + 1
        /\ sent'.parts[1].unit = sent.parts[1].unit
        /\ sent'.parts[1].idx = sent.parts[1].idx + 1
        /\ sent'.parts[1].kind = sent.parts[1].kind
        /\ ~sent'.parts[1].first
    BY <1>5 DEF SendsNext, Sends
  <2> QED
    BY <1>1, <2>1, <2>2, <2>3 DEF IsNumbered, PlaceOf
<1> QED
  BY <1>2, <1>3, <1>4, <1>5 DEF Encoder, IsNumbered

\* The encoder sends nothing more of a unit whose end it has sent.
LEMMA EncoderKeepsEnds ==
    ASSUME IInv, FragmentsAreNumbered, Encoder,
           NEW e, e.unit \in Nat, e.idx \in Nat, e.last, IsPast(e)
    PROVE  IsEndOf(e)'
<1>1. PICK p : Continues(p) /\ Sends(p)
  BY EncoderContinues
<1>2. sent' = p /\ p.t = sent.t + 1 /\ sent.t \in Nat /\ sent \in Outstanding
  BY <1>1 DEF Continues, Sends, IInv, TypeOK, Packet, Outstanding
<1>3. \A q \in Outstanding' : q = p \/ q \in Outstanding
  BY <1>1, <1>2 DEF Sends, Outstanding, Elements, depVars
<1>4. PlaceOf(e) \in Int
  BY DEF PlaceOf
<1>5. p.fu /\ p.t > PlaceOf(e) => p.parts[1].unit > PlaceOf(e)
  <2>1. CASE p.parts[1].unit = p.t
    BY <2>1
  <2>2. CASE sent.fu /\ ~sent.parts[1].last /\ p.parts[1].unit = sent.parts[1].unit
    <3>1. sent.t > PlaceOf(e)
      BY <1>2, <1>4, <2>2 DEF IsPast
    <3> QED
      BY <1>2, <2>2, <3>1 DEF IsPast, IsEndOf
  <2> QED
    BY <1>2, <2>1, <2>2, EncoderNumbers
<1> QED
  BY <1>3, <1>5 DEF IsPast, IsEndOf, PlaceOf

\* A fragment outstanding is past.
LEMMA OutstandingIsPast ==
    ASSUME IInv, FragmentsAreNumbered, EndsAreEnds, NEW p \in Outstanding, p.fu
    PROVE  IsPast(p.parts[1])
<1>1. IsNumbered(p) /\ p.t <= sent.t /\ (p.t = sent.t => p = sent)
  BY DEF FragmentsAreNumbered, IInv, OutstandingIsNear
<1> QED
  BY <1>1 DEF IsNumbered, IsPast, EndsAreEnds

\* The encoder sends packets that are behind no part of the run: the run stays
\* past, held and written.
LEMMA EncoderKeepsRecovery ==
    ASSUME IInv, RInv, Encoder
    PROVE  RInv'
<1>1. PICK p : Continues(p) /\ Sends(p)
  BY EncoderContinues
<1>2. sent' = p /\ p.t = sent.t + 1 /\ sent.t \in Nat /\ sent \in Outstanding
  BY <1>1 DEF Continues, Sends, IInv, TypeOK, Packet, Outstanding
<1>3. \A q \in Outstanding' : q = p \/ q \in Outstanding
  BY <1>1, <1>2 DEF Sends, Outstanding, Elements, depVars
<1>4. UNCHANGED <<run, fragments, pc, pending, metaReady, written>>
  BY <1>1 DEF Sends, depVars
<1>5. FragmentsAreNumbered'
  BY <1>2, <1>3, EncoderNumbers DEF RInv, FragmentsAreNumbered, IsNumbered, PlaceOf
<1>6. EndsAreEnds'
  <2> SUFFICES ASSUME NEW q \in Outstanding', q.fu, q.parts[1].last
               PROVE  IsEndOf(q.parts[1])'
    BY DEF EndsAreEnds
  <2>1. CASE q \in Outstanding
    <3>1. IsPast(q.parts[1])
      BY <2>1, OutstandingIsPast DEF RInv
    <3>2. q.parts[1].unit \in Nat /\ q.parts[1].idx \in Nat
      BY <2>1, FragmentHasPart
    <3> QED
      BY <3>1, <3>2, EncoderKeepsEnds DEF RInv
  <2>2. CASE q = p
    <3>1. PlaceOf(p.parts[1]) = p.t
      BY <1>2, <2>2, EncoderNumbers DEF RInv, IsNumbered
    <3>2. \A x \in Outstanding : x.t \in Nat /\ x.t <= sent.t
      BY OutstandingArePackets DEF IInv, OutstandingIsNear, Packet
    <3>3. \A x \in Outstanding' : ~(x.t > p.t)
      BY <1>2, <1>3, <3>2
    <3> QED
      BY <2>2, <3>1, <3>3 DEF IsEndOf, PlaceOf
  <2> QED
    BY <1>3, <2>1, <2>2
<1>7. RunIsPast'
  <2> SUFFICES ASSUME run # <<>>
               PROVE  /\ IsPast(Newest(run))'
                      /\ \A i \in 1..Len(run) : run[i].kind = "slice"
    BY <1>4 DEF RunIsPast
  <2>e. PICK e : e = Newest(run)
    OBVIOUS
  <2>1. IsPast(e) /\ e.unit \in Nat /\ e.idx \in Nat /\ Newest(run)' = e
    BY <1>4, <2>e, RunHasParts DEF RInv, RunIsPast, IInv, Newest
  <2>2. e.last => IsEndOf(e)'
    BY <2>1, EncoderKeepsEnds DEF RInv
  <2>3. PlaceOf(e) < sent'.t
    BY <1>2, <2>1 DEF IsPast, PlaceOf
  <2>4. IsPast(Newest(run))'
    BY <1>2, <2>1, <2>2, <2>3 DEF IsPast, IsEndOf, PlaceOf
  <2> QED
    BY <2>4 DEF RInv, RunIsPast
<1>8. RunIsHeld' /\ RunIsWritten'
  BY <1>4 DEF RInv, RunIsHeld, RunIsWritten, Newest
<1> QED
  BY <1>5, <1>6, <1>7, <1>8 DEF RInv

\* What is known of the packets is not lost when some of them go.
LEMMA FewerKeepEnds ==
    ASSUME RInv, Outstanding' \subseteq Outstanding, sent' = sent
    PROVE  /\ FragmentsAreNumbered' /\ EndsAreEnds'
           /\ \A e : IsPast(e) => IsPast(e)'
<1>1. FragmentsAreNumbered' /\ \A e : IsEndOf(e) => IsEndOf(e)'
  BY DEF RInv, FragmentsAreNumbered, IsNumbered, IsEndOf, PlaceOf
<1> QED
  BY <1>1 DEF RInv, EndsAreEnds, IsPast, PlaceOf

\* What only takes packets away, and leaves the depacketizer as it is, keeps
\* the recovery.
LEMMA FewerKeepRecovery ==
    ASSUME RInv, Outstanding' \subseteq Outstanding,
           UNCHANGED <<sent, run, fragments, metaReady, written>>,
           \/ pc' = "ended"
           \/ pending' = pending /\ (pc' = pc \/ {pc, pc'} \subseteq {"check", "pop"})
    PROVE  RInv'
<1>1. FragmentsAreNumbered' /\ EndsAreEnds' /\ \A e : IsPast(e) => IsPast(e)'
  BY FewerKeepEnds
<1>2. RunIsPast'
  BY <1>1 DEF RInv, RunIsPast, Newest
<1>3. RunIsHeld' /\ RunIsWritten'
  BY DEF RInv, RunIsHeld, RunIsWritten, Newest
<1> QED
  BY <1>1, <1>2, <1>3 DEF RInv

\* A packet that arrives, is repeated or is lost was outstanding before:
\* nothing new can follow the run.
LEMMA WayKeepsRecovery ==
    ASSUME IInv, RInv, NEW p \in way, WriteRtpPacket(p) \/ Repeats(p) \/ Loses(p)
    PROVE  RInv'
<1>1. Elements(Append(queue, p)) = Elements(queue) \cup {p}
  BY ElementsOf DEF IInv, TypeOK
<1>2. Elements(queue') \subseteq Elements(queue) \cup {p} /\ way' \subseteq way
  BY <1>1 DEF WriteRtpPacket, Repeats, Loses
<1>3. UNCHANGED <<sent, run, fragments, pending, metaReady, written, pc>>
  BY DEF WriteRtpPacket, Repeats, Loses, depVars
<1>4. Outstanding' \subseteq Outstanding
  BY <1>2, <1>3 DEF Outstanding, Elements
<1> QED
  BY <1>3, <1>4, FewerKeepRecovery

\* Looking at the closed flag, popping nil, panicking and closing keep the
\* recovery: they leave the run and what the depacketizer holds alone.
LEMMA OtherStepsKeepRecovery ==
    ASSUME RInv, ChecksClosed \/ PopsNil \/ Panics \/ Close \/ UNCHANGED vars
    PROVE  RInv'
<1>1. /\ UNCHANGED <<sent, way, run, fragments, metaReady, written>>
      /\ queue' = queue \/ queue' = <<>>
      /\ \/ pc' = "ended"
         \/ pending' = pending /\ (pc' = pc \/ {pc, pc'} \subseteq {"check", "pop"})
  BY DEF ChecksClosed, PopsNil, Panics, Close, vars, sourceVars, depVars
<1>2. Elements(<<>>) = {}
  BY DEF Elements
<1>3. Outstanding' \subseteq Outstanding
  BY <1>1, <1>2 DEF Outstanding, Elements
<1> QED
  BY <1>1, <1>3, FewerKeepRecovery

\* Writing a pending frame moves it into written, so that the unit of the run
\* stays written or pending.
LEMMA WriteFrameKeepsRecovery ==
    ASSUME IInv, RInv, writeFrame
    PROVE  RInv'
<1>1. /\ UNCHANGED <<sent, way, queue, fragments, run>>
      /\ pending' = Tail(pending)
      /\ pc' = (IF pending' = <<>> THEN "check" ELSE "write")
  BY DEF writeFrame, sourceVars
<1>2. Outstanding' \subseteq Outstanding
  BY <1>1 DEF Outstanding, Elements
<1>3. FragmentsAreNumbered' /\ EndsAreEnds' /\ \A e : IsPast(e) => IsPast(e)'
  BY <1>1, <1>2, FewerKeepEnds
<1>4. RunIsPast' /\ RunIsHeld'
  BY <1>1, <1>3 DEF RInv, RunIsPast, RunIsHeld, Newest
<1>5. RunIsWritten'
  <2> SUFFICES ASSUME run # <<>>, Newest(run).last
               PROVE  pc' = "check" /\ (metaReady' => written' = run)
    BY <1>1 DEF RunIsWritten, Newest
  <2>1. pending = <<run>>
    BY DEF RInv, RunIsWritten, writeFrame
  <2>2. Head(pending) = run /\ pending' = <<>>
    BY <1>1, <2>1
  <2>3. run[1].kind = "slice"
    BY RunHasParts DEF RInv, RunIsPast, IInv
  <2>4. metaReady' => written' = Head(pending)
    BY <2>2, <2>3 DEF writeFrame
  <2> QED
    BY <1>1, <2>2, <2>4
<1> QED
  BY <1>3, <1>4, <1>5 DEF RInv

\* A number is one less than its successor, also when that one wraps.
LEMMA NextNumber ==
    ASSUME NEW M \in Nat, M > 1, NEW a \in Nat
    PROVE  a % M = (((a + 1) % M) - 1) % M
<1> DEFINE c == ((a + 1) % M) - 1
           k == ((a + 1) \div M) + (c \div M) - (a \div M)
<1>1. c \in Int /\ (a + 1) % M \in Nat
  BY Division
<1>2. /\ a + 1 = M * ((a + 1) \div M) + c + 1
      /\ a = M * (a \div M) + (a % M) /\ c = M * (c \div M) + (c % M)
  BY <1>1, Division
<1>3. (a + 1) \div M \in Int /\ a \div M \in Int /\ c \div M \in Int /\ k \in Int
  BY <1>1, Division
<1>4. a % M \in 0..(M - 1) /\ c % M \in 0..(M - 1)
  BY <1>1
<1>5. (a % M) - (c % M) = M * k
  BY <1>1, <1>2, <1>3, <1>4
<1>6. k = 0
  <2>1. -M < M * k /\ M * k < M
    BY <1>4, <1>5
  <2> QED
    BY <1>3, <2>1, SmallMultiple
<1> QED
  BY <1>4, <1>5, <1>6

\* The number after that of the newest fragment follows it, wrapped or not.
LEMMA NextMeansFollows ==
    ASSUME IInv, NEW p, fragments # <<>>, p.t = Newest(fragments).t + 1
    PROVE  Follows(p)
<1>1. SeqMod \in Nat /\ SeqMod > 2 /\ Newest(fragments).t \in Nat
  <2>1. Newest(fragments) \in Packet
    BY DEF IInv, TypeOK, Newest
  <2> QED
    BY <2>1, RtpAssumption DEF Packet
<1>2. Newest(fragments).t % SeqMod = ((p.t % SeqMod) - 1) % SeqMod
  <2> DEFINE a == Newest(fragments).t
  <2>1. a \in Nat /\ p.t = a + 1 /\ SeqMod > 1
    BY <1>1
  <2> HIDE DEF a
  <2>2. a % SeqMod = (((a + 1) % SeqMod) - 1) % SeqMod
    BY <1>1, <2>1, NextNumber
  <2>3. a % SeqMod = ((p.t % SeqMod) - 1) % SeqMod
    BY <2>1, <2>2
  <2> QED
    BY <2>3 DEF a
<1> QED
  BY <1>2 DEF Follows, SequenceNumber, Newest

\* The sequence with one more element, as a concatenation.
LEMMA AppendOne ==
    ASSUME NEW S, NEW s \in Seq(S), NEW x \in S, NEW u, u \in Seq(S), Len(u) = 1, u[1] = x
    PROVE  /\ s \o u \in Seq(S) /\ Len(s \o u) = Len(s) + 1 /\ s \o u # <<>>
           /\ \A i \in 1..Len(s) : (s \o u)[i] = s[i]
           /\ (s \o u)[Len(s \o u)] = x
<1>0. /\ s \o u \in Seq(S) /\ Len(s \o u) = Len(s) + Len(u)
      /\ \A i \in 1..Len(s) + Len(u) :
            (s \o u)[i] = IF i <= Len(s) THEN s[i] ELSE u[i - Len(s)]
  BY ConcatProperties, Zenon
<1>1. Len(s) \in Nat /\ s \o u \in Seq(S) /\ Len(s \o u) = Len(s) + 1
  BY <1>0
<1>2. ASSUME NEW i \in 1..(Len(s) + 1)
      PROVE  (s \o u)[i] = IF i <= Len(s) THEN s[i] ELSE u[i - Len(s)]
  BY <1>0
<1>3. ~(Len(s) + 1 <= Len(s)) /\ (Len(s) + 1) - Len(s) = 1 /\ Len(s) + 1 \in 1..(Len(s) + 1)
  BY <1>1
<1>4. (s \o u)[Len(s) + 1] = u[(Len(s) + 1) - Len(s)]
  BY <1>2, <1>3
<1> QED
  BY <1>1, <1>2, <1>3, <1>4

\* The packet that the run goes on with is held with the rest of it, or makes
\* a frame of it.
LEMMA ExtendsTheRun ==
    ASSUME IInv, RInv, NEW p \in Outstanding,
           p.fu, ~p.parts[1].first, run # <<>>,
           p.parts[1].unit = Newest(run).unit, p.parts[1].idx = Newest(run).idx + 1
    PROVE  /\ Len(fragments) = Len(run)
           /\ \A i \in 1..Len(run) : fragments[i].parts[1] = run[i]
           /\ Depacketized(p) = Assembles(Append(fragments, p))
<1> DEFINE e == Newest(run)
<1>1. /\ p.t \in Nat /\ p.t = PlaceOf(p.parts[1])
      /\ e.unit \in Nat /\ e.idx \in Nat /\ e.idx > 0
      /\ Len(run) \in Nat /\ Len(run) >= 1
  BY FragmentHasPart, RunHasParts
  DEF RInv, FragmentsAreNumbered, IsNumbered, IInv, RunIsPast, IsPast
<1>2. ~e.last
  BY <1>1 DEF RInv, RunIsPast, IsPast, IsEndOf, PlaceOf
<1>3. Len(fragments) = Len(run) /\ \A i \in 1..Len(run) : fragments[i].parts[1] = run[i]
  BY <1>2 DEF RInv, RunIsHeld
<1>4. fragments # <<>> /\ Newest(fragments).parts[1] = e /\ Newest(fragments) \in Outstanding
  BY <1>1, <1>3 DEF Newest, Outstanding, Elements
<1>5. Newest(fragments).fu
  BY <1>1, <1>3 DEF IInv, IsHeld, Newest
<1>6. p.t = Newest(fragments).t + 1
  BY <1>1, <1>4, <1>5 DEF RInv, FragmentsAreNumbered, IsNumbered, PlaceOf
<1>7. Follows(p)
  BY <1>4, <1>6, NextMeansFollows
<1>8. Depacketized(p) = Assembles(Append(fragments, p))
  BY <1>7 DEF Depacketized, depacketizeFu, depacketizeFuA
<1> QED
  BY <1>3, <1>8

\* Popping a packet begins, extends or ends the run, and the fragments that are
\* held follow it: the case that matters is the end of the unit, which is put
\* together from the fragments of the run and goes to pending.
LEMMA DepacketizeKeepsRecovery ==
    ASSUME IInv, RInv, Depacketize
    PROVE  RInv'
<1>p. PICK p : p = Head(queue)
  OBVIOUS
<1>1. /\ p \in Outstanding /\ p \in Packet
      /\ Elements(Tail(queue)) \subseteq Elements(queue)
  <2>1. queue \in Seq(Packet) /\ queue # <<>> /\ sent \in Packet
    BY DEF IInv, TypeOK, Depacketize
  <2>2. p \in Elements(queue) /\ Elements(Tail(queue)) \subseteq Elements(queue)
    BY <1>p, <2>1, ElementsOf
  <2> QED
    BY <2>2, OutstandingArePackets DEF Outstanding, IInv
<1>2. /\ fragments' = Depacketized(p).fragments /\ pending' = Depacketized(p).frames
      /\ pc' = (IF Depacketized(p).frames = <<>> THEN "check" ELSE "write")
      /\ run' = Extended(p)
      /\ queue' = Tail(queue)
      /\ UNCHANGED <<sent, way, metaReady, written>>
  BY <1>p DEF Depacketize, sourceVars
<1>3. Outstanding' \subseteq Outstanding
  <2>1. Elements(fragments)' \subseteq Outstanding
    BY <1>1, <1>2, DepacketizedIsGood DEF IsGood, Elements
  <2>2. Elements(queue)' \subseteq Elements(queue)
    BY <1>1, <1>2 DEF Elements
  <2> QED
    BY <1>2, <2>1, <2>2 DEF Outstanding
<1>4. FragmentsAreNumbered' /\ EndsAreEnds' /\ \A e : IsPast(e) => IsPast(e)'
  BY <1>2, <1>3, FewerKeepEnds
<1>5. SUFFICES ASSUME run' # <<>>
               PROVE  RunIsPast' /\ RunIsHeld' /\ RunIsWritten'
  BY <1>4 DEF RInv, RunIsPast, RunIsHeld, RunIsWritten
<1>6. p.fu
  BY <1>2, <1>5 DEF Extended
<1>e. PICK e : e = p.parts[1]
  OBVIOUS
<1>7. /\ p.parts \in Seq(Part) /\ Len(p.parts) = 1 /\ e \in Part
      /\ e.kind = "slice" /\ IsPast(e)' /\ (e.first => ~e.last)
  BY <1>1, <1>4, <1>6, <1>e, FragmentHasPart, OutstandingIsPast
  DEF RInv, FragmentsAreNumbered, IsNumbered
<1>8. CASE e.first
  <2>1. run' = p.parts /\ run' # <<>> /\ Len(run') = 1 /\ run'[1] = e /\ Newest(run)' = e
    <3>1. run' = p.parts
      BY <1>2, <1>6, <1>8, <1>e DEF Extended
    <3> QED
      BY <1>5, <1>7, <1>e, <3>1 DEF Newest
  <2>2. Len(<<p>>) = 1 /\ <<p>>[1] = p /\ Newest(<<p>>) = p
    BY DEF Newest
  <2>3. fragments' = <<p>>
    BY <1>2, <1>6, <1>7, <1>8, <1>e, <2>2
    DEF Depacketized, depacketizeFu, depacketizeFuA, Assembles, Holds
  <2>4. RunIsPast'
    BY <1>7, <2>1 DEF RunIsPast
  <2>5. RunIsHeld' /\ RunIsWritten'
    BY <1>7, <1>8, <1>e, <2>1, <2>2, <2>3 DEF RunIsHeld, RunIsWritten
  <2> QED
    BY <2>4, <2>5
<1>9. CASE ~e.first
  <2>1. /\ run # <<>> /\ e.unit = Newest(run).unit /\ e.idx = Newest(run).idx + 1
        /\ run' = run \o p.parts
    BY <1>2, <1>5, <1>6, <1>9, <1>e DEF Extended
  <2>s. PICK s : s = Append(fragments, p)
    OBVIOUS
  <2>2. /\ Len(fragments) = Len(run)
        /\ \A i \in 1..Len(run) : fragments[i].parts[1] = run[i]
        /\ Depacketized(p) = Assembles(s)
    BY <1>1, <1>6, <1>9, <1>e, <2>1, <2>s, ExtendsTheRun
  <2>3. /\ run \in Seq(Part) /\ Len(run) \in Nat /\ Len(run) >= 1
        /\ Len(run') = Len(run) + 1 /\ run' \in Seq(Part)
        /\ \A i \in 1..Len(run) : run'[i] = run[i]
        /\ run'[Len(run')] = e
    BY <1>7, <1>e, <2>1, AppendOne, RunHasParts DEF IInv
  <2>4. /\ Len(s) = Len(run') /\ s \in Seq(Packet)
        /\ \A i \in 1..Len(run) : s[i] = fragments[i]
        /\ s[Len(s)] = p
    BY <1>1, <2>2, <2>3, <2>s, AppendOf DEF IInv, TypeOK
  <2>5. \A i \in 1..Len(run') : s[i].parts[1] = run'[i]
    BY <1>e, <2>2, <2>3, <2>4
  <2>6. Newest(run)' = e /\ Newest(s) = p
    BY <2>3, <2>4 DEF Newest
  <2>7. RunIsPast'
    <3>1. \A i \in 1..Len(run') : run'[i].kind = "slice"
      BY <1>7, <2>1, <2>3 DEF RInv, RunIsPast
    <3> QED
      BY <1>7, <2>6, <3>1 DEF RunIsPast
  <2>8. CASE ~e.last
    <3>1. fragments' = s
      BY <1>2, <1>e, <2>2, <2>6, <2>8 DEF Assembles, Holds
    <3> QED
      BY <2>4, <2>5, <2>6, <2>7, <2>8, <3>1 DEF RunIsHeld, RunIsWritten
  <2>9. CASE e.last
    <3>1. pending' = <<[i \in 1..Len(s) |-> s[i].parts[1]]>>
      <4>1. Assembles(s).frames = <<[i \in 1..Len(s) |-> s[i].parts[1]]>>
        BY <1>e, <2>6, <2>9 DEF Assembles
      <4> QED
        BY <1>2, <2>2, <4>1
    <3>2. [i \in 1..Len(s) |-> s[i].parts[1]] = run'
      BY <2>3, <2>4, <2>5
    <3>3. pending' = <<run'>> /\ pc' = "write"
      BY <1>2, <3>1, <3>2
    <3> QED
      BY <2>6, <2>7, <2>9, <3>3 DEF RunIsHeld, RunIsWritten
  <2> QED
    BY <2>8, <2>9
<1> QED
  BY <1>7, <1>8, <1>9

\* Every step of the encoder, the way and the goroutine keeps what recovery
\* rests on.
LEMMA NextKeepsRecovery == IInv /\ RInv /\ [Next]_vars => RInv'
<1> SUFFICES ASSUME IInv, RInv, [Next]_vars PROVE RInv'
  OBVIOUS
<1>1. CASE Encoder
  BY <1>1, EncoderKeepsRecovery
<1>2. ASSUME NEW p \in way, WriteRtpPacket(p) \/ Repeats(p) \/ Loses(p)
      PROVE  RInv'
  BY <1>2, WayKeepsRecovery
<1>3. CASE process
  BY <1>3, DepacketizeKeepsRecovery, WriteFrameKeepsRecovery, OtherStepsKeepRecovery DEF process
<1>4. CASE Close \/ Rests \/ UNCHANGED vars
  BY <1>4, OtherStepsKeepRecovery DEF Rests
<1> QED
  BY <1>1, <1>2, <1>3, <1>4 DEF Next

\* Nothing was sent yet that a run could be made of.
LEMMA InitHasRecovery == Init => RInv
<1> SUFFICES ASSUME Init PROVE RInv
  OBVIOUS
<1>1. Outstanding = {sent} /\ ~sent.fu
  BY DEF Init, Outstanding, Elements
<1>2. FragmentsAreNumbered /\ EndsAreEnds
  BY <1>1 DEF FragmentsAreNumbered, IsNumbered, EndsAreEnds
<1> QED
  BY <1>2 DEF Init, RInv, RunIsPast, RunIsHeld, RunIsWritten

\* When the parts of a unit were popped one after the other, from its start to
\* its end, the depacketizers have written the unit (depacketizeFuA and
\* depacketizeFu), whatever they held and whatever the way lost, repeated or
\* swapped before, and wherever the sequence numbers wrap.
THEOREM Recovers == Spec => []RecoversFromLoss
<1>1. RInv => RecoversFromLoss
  BY DEF RInv, RunIsWritten, RecoversFromLoss
<1> QED
  BY <1>1, InvariantHolds, InitHasRecovery, NextKeepsRecovery, PTL DEF Spec
=============================================================================
