-------------------------- MODULE RedirectionProofs --------------------------
(***************************************************************************)
(* Machine-checked proofs about Redirection, for every configuration of    *)
(* the target, every modulus and every number of packets.                  *)
(***************************************************************************)
EXTENDS Redirection, ModularArithmetic, SequenceTheorems

(* Sequence numbers stay below the modulus. *)
LEMMA SeqRange ==
  ASSUME NEW a \in Int, NEW b \in Int
  PROVE  SeqAdd(a, b) \in 0 .. SeqMod - 1 /\ SeqSub(a, b) \in 0 .. SeqMod - 1
  BY BoundsAssumption, DivMod DEF SeqAdd, SeqSub

(* Translating an acknowledgment from the LIH's numbers to the HIH's.      *)
LEMMA AckShift ==
  ASSUME NEW a \in Int
  PROVE  SeqSub(SeqAdd(LihIsn, a), SeqSub(LihIsn, HihIsn)) = SeqAdd(HihIsn, a)
<1> DEFINE x == LihIsn + a
           y == LihIsn - HihIsn
<1>0. SeqMod \in Nat \ {0} /\ LihIsn \in Int /\ HihIsn \in Int
  BY BoundsAssumption
<1>1. x \in Int /\ y \in Int /\ x - y = HihIsn + a
  BY <1>0
<1>2. x % SeqMod \in Int /\ y % SeqMod \in Int
  BY <1>0, <1>1, DivMod
<1> HIDE DEF x, y
<1>3. ((x % SeqMod) - (y % SeqMod)) % SeqMod = ((x % SeqMod) - y) % SeqMod
  BY <1>0, <1>1, <1>2, ModAddRight
<1>4. ((x % SeqMod) + (0 - y)) % SeqMod = (x + (0 - y)) % SeqMod
  <2> DEFINE z == 0 - y
  <2>1. z \in Int
    BY <1>1
  <2> HIDE DEF z
  <2>2. ((x % SeqMod) + z) % SeqMod = (x + z) % SeqMod
    BY <1>0, <1>1, <2>1, ModAddLeft
  <2> QED BY <2>2 DEF z
<1>5. (x % SeqMod) + (0 - y) = (x % SeqMod) - y /\ x + (0 - y) = x - y
  BY <1>1, <1>2
<1>6. ((x % SeqMod) - (y % SeqMod)) % SeqMod = (x - y) % SeqMod
  BY <1>3, <1>4, <1>5
<1>7. SeqSub(SeqAdd(LihIsn, a), SeqSub(LihIsn, HihIsn)) = ((x % SeqMod) - (y % SeqMod)) % SeqMod
  BY DEF SeqAdd, SeqSub, x, y
<1> QED BY <1>1, <1>6, <1>7 DEF SeqAdd

(* Translating a sequence number of the HIH to the LIH's numbers.          *)
LEMMA SeqShift ==
  ASSUME NEW p \in Int
  PROVE  SeqAdd(SeqAdd(HihIsn, p), SeqSub(LihIsn, HihIsn)) = SeqAdd(LihIsn, p)
<1> DEFINE x == HihIsn + p
           y == LihIsn - HihIsn
<1>0. SeqMod \in Nat \ {0} /\ LihIsn \in Int /\ HihIsn \in Int
  BY BoundsAssumption
<1>1. x \in Int /\ y \in Int /\ x + y = LihIsn + p
  BY <1>0
<1>2. x % SeqMod \in Int
  BY <1>0, <1>1, DivMod
<1> HIDE DEF x, y
<1>3. ((x % SeqMod) + (y % SeqMod)) % SeqMod = ((x % SeqMod) + y) % SeqMod
  BY <1>0, <1>1, <1>2, ModAddRight
<1>4. ((x % SeqMod) + y) % SeqMod = (x + y) % SeqMod
  BY <1>0, <1>1, ModAddLeft
<1>5. SeqAdd(SeqAdd(HihIsn, p), SeqSub(LihIsn, HihIsn)) = ((x % SeqMod) + (y % SeqMod)) % SeqMod
  BY DEF SeqAdd, SeqSub, x, y
<1> QED BY <1>1, <1>3, <1>4, <1>5 DEF SeqAdd

-----------------------------------------------------------------------------
(* What the steps use of their parts.                                      *)

Frames == [id : Nat, pos : Nat, len : {0, 1}, ackpos : Nat, ack : Nat]

(* A packet EXT may send is one process_packet() can hand over. *)
LEMMA ExtPacketType ==
  ASSUME TypeOK, NEW p \in ExtPackets
  PROVE  /\ p \in Packets /\ p.origin = "EXT" /\ p.id = extPkts + 1
         /\ p.ack = SeqAdd(LihIsn, p.ackpos)
<1>1. PICK pos \in 0 .. MaxExtPkts, len \in {0, 1}, a \in 0 .. MaxUnits :
        p = ExtPkt(extPkts + 1, pos, len, a)
  BY DEF ExtPackets
<1>2. SeqAdd(LihIsn, a) \in Nat
  BY BoundsAssumption, SeqRange
<1> QED BY <1>1, <1>2, BoundsAssumption DEF ExtPkt, Packets, TypeOK

(* So is a packet of the LIH; its numbers are below the modulus. *)
LEMMA LihPacketType ==
  ASSUME NEW p \in LihPackets
  PROVE  /\ p \in Packets /\ p.origin = "LIH" /\ p.seq = SeqAdd(LihIsn, p.pos)
         /\ p.ackpos # 0
<1>1. PICK pos \in 0 .. MaxUnits, len \in {0, 1}, a \in 1 .. MaxExtPkts :
        p = PotPkt("LIH", LihIsn, pos, len, a)
  BY DEF LihPackets
<1>2. SeqAdd(LihIsn, pos) \in Nat
  BY BoundsAssumption, SeqRange
<1> QED BY <1>1, <1>2, BoundsAssumption DEF PotPkt, Packets

(* The fields of a packet of the HIH. *)
LEMMA HihPacketType ==
  ASSUME NEW p \in HihPackets
  PROVE  /\ p.pos \in Nat /\ p.len \in {0, 1} /\ p.ackpos \in Nat \ {0}
         /\ p.seq = SeqAdd(HihIsn, p.pos) /\ p.seq \in Nat
<1>1. PICK pos \in 0 .. MaxUnits, len \in {0, 1}, a \in 1 .. MaxExtPkts :
        p = PotPkt("HIH", HihIsn, pos, len, a)
  BY DEF HihPackets
<1>2. SeqAdd(HihIsn, pos) \in Nat
  BY BoundsAssumption, SeqRange
<1> QED BY <1>1, <1>2, BoundsAssumption DEF PotPkt

(* A verdict is a crash only if the back_picker names no backend. *)
LEMMA VerdictType ==
  ASSUME NEW v \in BackDecisions
  PROVE  v.crash \in BOOLEAN /\ (PickerIsSound => ~v.crash)
<1>1. CASE BackPicker
  <2>1. PICK r \in Results, use \in PickerIds, o \in [BackRules -> Results] :
          v = PickedBackend(r, use, o)
    BY <1>1 DEF BackDecisions
  <2> QED BY <2>1 DEF PickedBackend, Verdict, PickerIsSound
<1>2. CASE ~BackPicker
  <2>1. PICK o \in [BackRules -> Results] : v = EachBackend(o)
    BY <1>2 DEF BackDecisions
  <2> QED BY <2>1 DEF EachBackend, Verdict
<1> QED BY <1>1, <1>2

(* store_pkt() leaves the buffer as it is or appends the packet. *)
LEMMA StoredType ==
  ASSUME TypeOK, NEW p \in Packets
  PROVE  /\ Stored(p) \in Seq(Packets)
         /\ Len(Stored(p)) \in {Len(BUFFER), Len(BUFFER) + 1}
         /\ Stored(p) # BUFFER => Stored(p) = Append(BUFFER, p)
  BY DEF Stored, TypeOK

(* Shifting an acknowledgment keeps the rest of the packet. *)
LEMMA ForwardType ==
  ASSUME NEW p \in Packets, NEW d \in 0 .. SeqMod - 1
  PROVE  ForwardExt2Hih(p, d) \in Frames
<1>0. p.ack \in Int /\ d \in Int
  BY BoundsAssumption DEF Packets
<1>1. SeqSub(p.ack, d) \in 0 .. SeqMod - 1
  BY <1>0, SeqRange
<1>2. SeqSub(p.ack, d) \in Nat
  BY <1>1
<1> QED BY <1>2 DEF ForwardExt2Hih, Packets, Frames

(* What the forwarding loops send to the HIH is a sequence of segments. *)
LEMMA RunType ==
  ASSUME TypeOK, NEW from \in 0 .. Len(BUFFER), NEW stop \in from .. Len(BUFFER),
         NEW d \in 0 .. SeqMod - 1
  PROVE  /\ Run(from, stop, d) \in Seq(Frames)
         /\ Len(Run(from, stop, d)) = stop - from
         /\ \A i \in 1 .. stop - from : Run(from, stop, d)[i] = ForwardExt2Hih(BUFFER[from + i], d)
<1>1. \A i \in 1 .. stop - from : BUFFER[from + i] \in Packets
  BY DEF TypeOK
<1>2. \A i \in 1 .. stop - from : ForwardExt2Hih(BUFFER[from + i], d) \in Frames
  BY <1>1, ForwardType
<1>3. stop - from \in Nat
  BY DEF TypeOK
<1>4. Run(from, stop, d) \in [1 .. stop - from -> Frames]
  BY <1>2 DEF Run
<1> QED BY <1>3, <1>4 DEF Run

(* The offset stays below the modulus. *)
LEMMA DeltaType ==
  ASSUME TypeOK, NEW p \in HihPackets
  PROVE  DeltaAfter(p) \in 0 .. SeqMod - 1
<1>0. lih_syn_seq \in Int /\ p.seq \in Int
  BY HihPacketType, BoundsAssumption DEF TypeOK
<1>1. SeqSub(lih_syn_seq, p.seq) \in 0 .. SeqMod - 1
  BY <1>0, SeqRange
<1> QED BY <1>1 DEF DeltaAfter, TypeOK

(* define_expected_data() keeps the type of expected_data. *)
LEMMA ExpectedType ==
  ASSUME NEW p \in Packets, NEW d \in 0 .. SeqMod - 1
  PROVE  DefineExpectedData(p, d) \in [set : BOOLEAN, seq : 0 .. SeqMod - 1, ack : Nat]
<1>0. p.seq \in Int /\ d \in Int
  BY BoundsAssumption DEF Packets
<1>1. SeqSub(p.seq, d) \in 0 .. SeqMod - 1
  BY <1>0, SeqRange
<1> QED BY <1>1 DEF DefineExpectedData, Packets

-----------------------------------------------------------------------------
(* Type correctness.                                                       *)

(* A new connection is well typed. *)
LEMMA TypeInit == Init => TypeOK
<1> SUFFICES ASSUME Init PROVE TypeOK
  OBVIOUS
<1>1. 0 \in 0 .. SeqMod - 1
  BY BoundsAssumption
<1>2. BUFFER \in Seq(Packets) /\ replay_id \in 0 .. Len(BUFFER)
  BY DEF Init
<1>3. toHih \in Seq(Frames)
  BY DEF Init
<1> QED BY <1>1, <1>2, <1>3 DEF Init, TypeOK, States, Frames

(* Every case of de_thread() for a packet of EXT keeps the types. *)
LEMMA ExtType ==
  ASSUME TypeOK, NEW p \in ExtPackets, ExtStep(p)
  PROVE  TypeOK'
<1>0. p \in Packets
  BY ExtPacketType
<1>1. extPkts' \in Nat /\ extSent' \in Nat
  <2>1. p.pos \in Nat /\ p.len \in {0, 1}
    BY <1>0 DEF Packets
  <2>2. extPkts \in Nat /\ extSent \in Nat /\ p.pos + p.len \in Nat
    BY <2>1 DEF TypeOK
  <2>3. ExtSends(p)
    BY DEF ExtStep, ExtInit, ExtDecision, ExtRedirect, ExtForward, ExtProxy, ExtDiscard
  <2> QED BY <2>2, <2>3 DEF ExtSends
<1>2. ProxyExt2Int(p) \subseteq [id : Nat, pos : Nat, len : {0, 1}, ackpos : Nat]
  BY <1>0 DEF ProxyExt2Int, TypeOK, Packets
<1>3. /\ Stored(p) \in Seq(Packets)
      /\ replay_id \in 0 .. Len(Stored(p))
      /\ Len(Stored(p)) \in Nat /\ Len(Stored(p)) >= Len(BUFFER)
  BY <1>0, StoredType DEF TypeOK
<1>4. ASSUME NEW r \in Results, ExtInit(p, r)
      PROVE  TypeOK'
  <2>1. state' \in States
    BY <1>4 DEF ExtInit, FrontDecision, Results, States
  <2>2. /\ BUFFER' = Stored(p)
        /\ toLih' = toLih \/ toLih' = ProxyExt2Int(p)
        /\ UNCHANGED <<replay_id, expected_data, delta, lih_syn_seq, crashed,
                       lihPkts, lihSent, hihSent, toExt, toHih, peer, rst>>
    BY <1>4 DEF ExtInit
  <2> QED BY <1>1, <1>2, <1>3, <2>1, <2>2 DEF TypeOK
<1>5. ASSUME NEW v \in BackDecisions, NEW pinned \in Pinned, ExtDecision(p, v, pinned)
      PROVE  TypeOK'
  <2>1. state' \in States /\ crashed' \in BOOLEAN
    BY <1>5, VerdictType DEF ExtDecision, States
  <2>2. /\ BUFFER' = Stored(p) \/ BUFFER' = BUFFER
        /\ toLih' = toLih \/ toLih' = ProxyExt2Int(p)
        /\ UNCHANGED <<replay_id, expected_data, delta, lih_syn_seq,
                       lihPkts, lihSent, hihSent, toExt, toHih, peer, rst>>
    BY <1>5 DEF ExtDecision
  <2> QED BY <1>1, <1>2, <1>3, <2>1, <2>2 DEF TypeOK
<1>6. ASSUME NEW v \in BackDecisions, NEW pinned \in Pinned, ExtRedirect(p, v, pinned)
      PROVE  TypeOK'
  <2>1. PICK stop \in replay_id .. Len(BUFFER) :
          /\ toHih' = toHih \o Run(replay_id, stop, delta)
          /\ IF stop < Len(BUFFER)
             THEN /\ expected_data' = DefineExpectedData(BUFFER[stop + 1], delta)
                  /\ replay_id' = stop + 1
             ELSE /\ UNCHANGED expected_data
                  /\ replay_id' = stop
    BY <1>6 DEF ExtRedirect
  <2>2. toHih' \in Seq(Frames)
    <3>0. replay_id \in 0 .. Len(BUFFER) /\ delta \in 0 .. SeqMod - 1
      BY DEF TypeOK
    <3>1. Run(replay_id, stop, delta) \in Seq(Frames)
      BY <2>1, <3>0, RunType
    <3>2. toHih \in Seq(Frames)
      BY DEF TypeOK, Frames
    <3> QED BY <2>1, <3>1, <3>2
  <2>3. expected_data' \in [set : BOOLEAN, seq : 0 .. SeqMod - 1, ack : Nat]
    <3>1. stop < Len(BUFFER) => BUFFER[stop + 1] \in Packets
      BY <2>1 DEF TypeOK
    <3> QED BY <2>1, <3>1, ExpectedType DEF TypeOK
  <2>4. replay_id' \in 0 .. Len(Stored(p))
    BY <1>3, <2>1 DEF TypeOK
  <2>5. rst' \subseteq {"EXT", "LIH"}
    <3>1. BUFFER \in Seq(Packets)
      BY DEF TypeOK
    <3>2. DOMAIN BUFFER # {} => BUFFER[Len(BUFFER)] \in Packets
      BY <3>1
    <3>3. DOMAIN BUFFER # {} => BUFFER[Len(BUFFER)].origin \in {"EXT", "LIH"}
      BY <3>2 DEF Packets
    <3>4. ResetLih \subseteq {"EXT", "LIH"}
      BY <3>3 DEF ResetLih
    <3> QED BY <1>6, <3>4 DEF ExtRedirect, TypeOK
  <2>6. /\ state' = "REPLAY" /\ BUFFER' = Stored(p)
        /\ UNCHANGED <<delta, lih_syn_seq, crashed, lihPkts, lihSent, hihSent, toExt, toLih, peer>>
    BY <1>6 DEF ExtRedirect
  <2> QED BY <1>1, <1>3, <2>2, <2>3, <2>4, <2>5, <2>6 DEF TypeOK, States, Frames
<1>7. CASE ExtForward(p)
  <2>1. ForwardExt2Hih(p, delta) \in Frames
    BY <1>0, ForwardType DEF TypeOK
  <2>2. toHih' \in Seq(Frames)
    BY <1>7, <2>1 DEF ExtForward, TypeOK, Frames
  <2> QED BY <1>1, <1>7, <2>2 DEF ExtForward, TypeOK, Frames, conn
<1>8. CASE ExtProxy(p)
  BY <1>1, <1>2, <1>8 DEF ExtProxy, TypeOK, conn
<1>9. CASE ExtDiscard(p)
  <2>1. rst' \subseteq {"EXT", "LIH"}
    BY <1>9 DEF ExtDiscard, TypeOK
  <2> QED BY <1>1, <1>9, <2>1 DEF ExtDiscard, TypeOK, conn
<1> QED BY <1>4, <1>5, <1>6, <1>7, <1>8, <1>9 DEF ExtStep

(* Every case of de_thread() for a packet of the LIH keeps the types. *)
LEMMA LihType ==
  ASSUME TypeOK, NEW p \in LihPackets, LihStep(p)
  PROVE  TypeOK'
<1>0. p \in Packets
  BY LihPacketType
<1>1. lihPkts' \in Nat /\ lihSent' \in Nat
  <2>1. p.pos \in Nat /\ p.len \in {0, 1}
    BY <1>0 DEF Packets
  <2>2. lihPkts \in Nat /\ lihSent \in Nat /\ p.pos + p.len \in Nat
    BY <2>1 DEF TypeOK
  <2>3. LihSends(p)
    BY DEF LihStep, LihRecord, LihProxy, LihDiscard
  <2> QED BY <2>2, <2>3 DEF LihSends
<1>2. ProxyInt2Ext(p) \subseteq [from : {"LIH", "HIH"}, pos : Nat, len : {0, 1}, seq : Nat]
  BY <1>0 DEF ProxyInt2Ext, TypeOK, Packets
<1>3. CASE LihRecord(p)
  <2>1. Stored(p) \in Seq(Packets) /\ replay_id \in 0 .. Len(Stored(p))
    BY <1>0, StoredType DEF TypeOK
  <2>2. lih_syn_seq' \in 0 .. SeqMod - 1
    <3>1. p.pos \in Int /\ LihIsn \in Int
      BY <1>0, BoundsAssumption DEF Packets
    <3>2. p.seq \in 0 .. SeqMod - 1
      BY <3>1, LihPacketType, SeqRange
    <3> QED BY <1>3, <3>2 DEF LihRecord, TypeOK
  <2> QED BY <1>1, <1>2, <1>3, <2>1, <2>2 DEF LihRecord, TypeOK
<1>4. CASE LihProxy(p)
  BY <1>1, <1>2, <1>4 DEF LihProxy, TypeOK, conn
<1>5. CASE LihDiscard(p)
  <2>1. rst' \subseteq {"EXT", "LIH"}
    BY <1>5 DEF LihDiscard, TypeOK
  <2> QED BY <1>1, <1>5, <2>1 DEF LihDiscard, TypeOK, conn
<1> QED BY <1>3, <1>4, <1>5 DEF LihStep

(* Every case of de_thread() for a packet of the HIH keeps the types. *)
LEMMA HihType ==
  ASSUME TypeOK, NEW p \in HihPackets, HihStep(p)
  PROVE  TypeOK'
<1>1. hihSent' \in Nat
  <2>1. hihSent \in Nat /\ p.pos + p.len \in Nat
    BY HihPacketType DEF TypeOK
  <2>2. HihSends(p)
    BY DEF HihStep, HihUnexpected, HihExpected, HihOverrun, HihForward
  <2> QED BY <2>1, <2>2 DEF HihSends
<1>2. DeltaAfter(p) \in 0 .. SeqMod - 1
  BY DeltaType
<1>3. CASE HihUnexpected(p)
  BY <1>1, <1>2, <1>3 DEF HihUnexpected, TypeOK
<1>4. CASE HihExpected(p)
  <2>1. PICK stop \in replay_id .. Len(BUFFER) :
          /\ toHih' = toHih \o Run(replay_id, stop, DeltaAfter(p))
          /\ IF stop < Len(BUFFER)
             THEN /\ expected_data' = DefineExpectedData(BUFFER[stop + 1], DeltaAfter(p))
                  /\ replay_id' = stop + 1
                  /\ UNCHANGED state
             ELSE /\ state' = "FORWARD"
                  /\ replay_id' = stop - 1
                  /\ UNCHANGED expected_data
    BY <1>4 DEF HihExpected
  <2>2. toHih' \in Seq(Frames)
    <3>0. replay_id \in 0 .. Len(BUFFER)
      BY DEF TypeOK
    <3>1. Run(replay_id, stop, DeltaAfter(p)) \in Seq(Frames)
      BY <1>2, <2>1, <3>0, RunType
    <3>2. toHih \in Seq(Frames)
      BY DEF TypeOK, Frames
    <3> QED BY <2>1, <3>1, <3>2
  <2>3. expected_data' \in [set : BOOLEAN, seq : 0 .. SeqMod - 1, ack : Nat]
    <3>1. stop < Len(BUFFER) => BUFFER[stop + 1] \in Packets
      BY <2>1 DEF TypeOK
    <3> QED BY <1>2, <2>1, <3>1, ExpectedType DEF TypeOK
  <2>4. replay_id' \in 0 .. Len(BUFFER) /\ state' \in States
    BY <1>4, <2>1 DEF HihExpected, TypeOK, States
  <2>5. /\ delta' = DeltaAfter(p)
        /\ UNCHANGED <<BUFFER, lih_syn_seq, crashed,
                       extPkts, extSent, lihPkts, lihSent, toExt, toLih, peer, rst>>
    BY <1>4 DEF HihExpected
  <2> QED BY <1>1, <1>2, <2>2, <2>3, <2>4, <2>5 DEF TypeOK, Frames
<1>5. CASE HihOverrun(p)
  BY <1>1, <1>2, <1>5 DEF HihOverrun, TypeOK
<1>6. CASE HihForward(p)
  <2>0. p.seq \in Int /\ delta \in Int
    BY HihPacketType, BoundsAssumption DEF TypeOK
  <2>a. SeqAdd(p.seq, delta) \in 0 .. SeqMod - 1
    BY <2>0, SeqRange
  <2>1. SeqAdd(p.seq, delta) \in Nat
    BY <2>a
  <2>2. ForwardHih2Ext(p) \subseteq [from : {"LIH", "HIH"}, pos : Nat, len : {0, 1}, seq : Nat]
    BY <2>1, HihPacketType DEF ForwardHih2Ext, TypeOK
  <2> QED BY <1>1, <1>6, <2>2 DEF HihForward, TypeOK, conn
<1> QED BY <1>3, <1>4, <1>5, <1>6 DEF HihStep

(* A step of any host keeps the types. *)
LEMMA TypeNext == TypeOK /\ [Next]_vars => TypeOK'
<1> SUFFICES ASSUME TypeOK, [Next]_vars
             PROVE  TypeOK'
  OBVIOUS
<1>1. CASE UNCHANGED vars
  BY <1>1 DEF vars, conn, hosts, TypeOK
<1>2. CASE Next
  BY <1>2, ExtType, LihType, HihType DEF Next
<1> QED BY <1>1, <1>2

(* Every connection stays well typed: de_thread() leaves conn->state in    *)
(* the six states of an EXT-initiated connection, replay_id within the     *)
(* buffer and the translated numbers below 2^32, whatever the hosts send   *)
(* and the rules decide.                                                   *)
THEOREM TypeCorrect == Spec => []TypeOK
  BY TypeInit, TypeNext, PTL DEF Spec


-----------------------------------------------------------------------------
(* The inductive invariant.  Each action has a lemma; under it one step    *)
(* per part of IInv that the action can disturb.                           *)

(* A host that acknowledges something has received something. *)
LEMMA AckNeedsSegment ==
  ASSUME NEW a \in Nat \ {0}, NEW S, MayAck(a, S)
  PROVE  S # {}
<1>1. 0 \in 0 .. a - 1
  OBVIOUS
<1>2. 0 \in Units(S)
  BY <1>1 DEF MayAck
<1> QED BY <1>2 DEF Units

(* What recording a packet does to the buffer. *)
LEMMA AppendFacts ==
  ASSUME NEW B \in Seq(Packets), NEW p \in Packets
  PROVE  /\ Append(B, p) \in Seq(Packets)
         /\ Len(Append(B, p)) = Len(B) + 1
         /\ DOMAIN B = 1 .. Len(B)
         /\ DOMAIN Append(B, p) = 1 .. Len(B) + 1
         /\ \A i \in 1 .. Len(B) : Append(B, p)[i] = B[i]
         /\ Append(B, p)[Len(B) + 1] = p
         /\ Len(B) \in Nat
  OBVIOUS

(* A new connection satisfies the inductive invariant. *)
LEMMA InitInv == Init => IInv
<1> SUFFICES ASSUME Init PROVE IInv
  OBVIOUS
<1>1. TypeOK
  BY TypeInit
<1>2. DOMAIN BUFFER = {} /\ DOMAIN toHih = {}
  BY DEF Init
<1>3. InvIds /\ HihInOrder /\ AckTranslated
  BY <1>2 DEF InvIds, HihInOrder, AckTranslated
<1>4. InvStates
  BY DEF Init, InvStates, Redirected
<1>5. InvGiven
  BY <1>2 DEF Init, InvGiven
<1>6. InvNumbers
  BY <1>2 DEF Init, InvNumbers, Redirected, LihSpoke
<1> QED BY <1>1, <1>3, <1>4, <1>5, <1>6 DEF Init, IInv, NoCrash, SeqContinuous

(* The first packet of EXT: nothing was acknowledged, nothing recorded.    *)
LEMMA InvExtInit ==
  ASSUME UnlimitedBuffer, IInv, TypeOK', NEW p \in ExtPackets, ExtMaySend(p),
         NEW r \in Results, ExtInit(p, r)
  PROVE  IInv'
<1>0. /\ p \in Packets /\ p.origin = "EXT" /\ p.id = extPkts + 1
      /\ p.ack = SeqAdd(LihIsn, p.ackpos)
  BY ExtPacketType DEF IInv
<1>1. /\ BUFFER = <<>> /\ toExt = {} /\ lihSent = 0
      /\ toHih = <<>> /\ replay_id = 0 /\ ~expected_data.set /\ hihSent = 0
  BY DEF ExtInit, IInv, InvStates, Redirected
<1>2. /\ state' \in {"PROXY", "DECISION", "DROP"}
      /\ state' = "DECISION" => Backends
  BY DEF ExtInit, FrontDecision, Results, Backends
<1>3. /\ UNCHANGED <<replay_id, expected_data, delta, lih_syn_seq, crashed,
                     lihPkts, lihSent, hihSent, toExt, toHih, peer, rst>>
      /\ extPkts' = extPkts + 1
  BY DEF ExtInit, ExtSends
<1>4. BUFFER' = <<p>> \/ BUFFER' = <<>>
  BY <1>1 DEF ExtInit, Stored
<1>5. \A i \in DOMAIN BUFFER' : i = 1 /\ BUFFER'[i] = p
  BY <1>4
<1>6. p.ackpos = 0
  <2>1. p.ackpos \in Nat
    BY <1>0 DEF Packets
  <2> QED BY <1>1, <2>1, AckNeedsSegment DEF ExtMaySend
<1>7. extPkts \in Nat /\ DOMAIN toHih = {}
  BY <1>1 DEF IInv, TypeOK
<1>8. InvIds'
  BY <1>0, <1>3, <1>5, <1>7 DEF InvIds, IsExt
<1>9. InvStates'
  BY <1>1, <1>2, <1>3 DEF InvStates, Redirected
<1>10. HihInOrder' /\ InvGiven' /\ AckTranslated'
  BY <1>2, <1>3, <1>7 DEF HihInOrder, InvGiven, AckTranslated
<1>11. InvNumbers'
  <2>1. ~LihSpoke'
    BY <1>0, <1>5 DEF LihSpoke
  <2> QED BY <1>0, <1>1, <1>2, <1>3, <1>5, <1>6, <2>1 DEF InvNumbers, IsExt, Redirected
<1>12. NoCrash' /\ SeqContinuous'
  BY <1>3 DEF IInv, NoCrash, SeqContinuous
<1> QED BY <1>8, <1>9, <1>10, <1>11, <1>12 DEF IInv

(* A recorded packet of EXT that is not (yet) redirected. *)
LEMMA InvExtDecision ==
  ASSUME UnlimitedBuffer, PickerIsSound, IInv, TypeOK', NEW p \in ExtPackets, ExtMaySend(p),
         NEW v \in BackDecisions, NEW pinned \in Pinned, ExtDecision(p, v, pinned)
  PROVE  IInv'
<1>0. /\ p \in Packets /\ p.origin = "EXT" /\ p.id = extPkts + 1
      /\ p.ack = SeqAdd(LihIsn, p.ackpos) /\ p.ackpos \in Nat
  BY ExtPacketType DEF IInv, Packets
<1>1. /\ Backends /\ (toExt # {} \/ lihSent > 0 => LihSpoke)
      /\ toHih = <<>> /\ replay_id = 0 /\ ~expected_data.set /\ hihSent = 0
  BY DEF ExtDecision, IInv, InvStates, Redirected
<1>2. state' \in {"PROXY", "DECISION"} /\ ~crashed'
  BY VerdictType DEF ExtDecision
<1>3. /\ UNCHANGED <<replay_id, expected_data, delta, lih_syn_seq,
                     lihPkts, lihSent, hihSent, toExt, toHih, peer, rst>>
      /\ extPkts' = extPkts + 1
  BY DEF ExtDecision, ExtSends
<1>4. BUFFER' = Append(BUFFER, p)
  BY <1>1, VerdictType DEF ExtDecision, Stored, UnlimitedBuffer
<1>5. BUFFER \in Seq(Packets) /\ extPkts \in Nat
  BY DEF IInv, TypeOK
<1>6. /\ Len(BUFFER) \in Nat /\ DOMAIN BUFFER = 1 .. Len(BUFFER)
      /\ DOMAIN BUFFER' = 1 .. Len(BUFFER) + 1
      /\ \A i \in 1 .. Len(BUFFER) : BUFFER'[i] = BUFFER[i]
      /\ BUFFER'[Len(BUFFER) + 1] = p
  BY <1>0, <1>4, <1>5, AppendFacts
<1>7. InvIds'
  <2>1. \A i \in DOMAIN BUFFER : IsExt(i) => BUFFER[i].id \in 1 .. extPkts
    BY DEF IInv, InvIds
  <2>2. \A i, j \in DOMAIN BUFFER : i < j /\ IsExt(i) /\ IsExt(j) => BUFFER[i].id < BUFFER[j].id
    BY DEF IInv, InvIds
  <2>3. \A i \in DOMAIN BUFFER' : IsExt(i)' => BUFFER'[i].id \in 1 .. extPkts'
    BY <1>0, <1>3, <1>5, <1>6, <2>1 DEF IsExt
  <2>4. \A i, j \in DOMAIN BUFFER' :
          i < j /\ IsExt(i)' /\ IsExt(j)' => BUFFER'[i].id < BUFFER'[j].id
    BY <1>0, <1>5, <1>6, <2>1, <2>2 DEF IsExt
  <2>5. \A i \in DOMAIN toHih' : toHih'[i].id \in 1 .. extPkts'
    BY <1>1, <1>3
  <2> QED BY <2>3, <2>4, <2>5 DEF InvIds
<1>8. LihSpoke' <=> LihSpoke
  BY <1>0, <1>6 DEF LihSpoke
<1>9. InvStates'
  BY <1>1, <1>2, <1>3, <1>8 DEF InvStates, Redirected
<1>10. HihInOrder' /\ InvGiven' /\ AckTranslated'
  BY <1>1, <1>2, <1>3 DEF HihInOrder, InvGiven, AckTranslated
<1>11. InvNumbers'
  <2>1. ASSUME Tcp, NEW i \in DOMAIN BUFFER', IsExt(i)'
        PROVE  /\ BUFFER'[i].ack = SeqAdd(LihIsn, BUFFER'[i].ackpos)
               /\ BUFFER'[i].ackpos # 0 => \E j \in 1 .. i - 1 : BUFFER'[j].origin = "LIH"
    <3>1. CASE i \in 1 .. Len(BUFFER)
      <4>1. /\ BUFFER[i].ack = SeqAdd(LihIsn, BUFFER[i].ackpos)
            /\ BUFFER[i].ackpos # 0 => \E j \in 1 .. i - 1 : BUFFER[j].origin = "LIH"
        BY <1>6, <2>1, <3>1 DEF IInv, InvNumbers, IsExt
      <4>2. \A j \in 1 .. i - 1 : BUFFER'[j] = BUFFER[j]
        BY <1>6, <3>1
      <4> QED BY <1>6, <3>1, <4>1, <4>2
    <3>2. CASE i = Len(BUFFER) + 1
      <4>1. p.ackpos # 0 => LihSpoke
        BY <1>0, <1>1, AckNeedsSegment DEF ExtMaySend
      <4>2. LihSpoke => \E j \in 1 .. i - 1 : BUFFER'[j].origin = "LIH"
        BY <1>6, <3>2 DEF LihSpoke
      <4> QED BY <1>0, <1>6, <3>2, <4>1, <4>2
    <3> QED BY <1>6, <3>1, <3>2
  <2>2. Tcp => (LihSpoke' => lih_syn_seq' = LihIsn)
    BY <1>3, <1>8 DEF IInv, InvNumbers
  <2> QED BY <1>1, <1>2, <1>3, <2>1, <2>2 DEF InvNumbers, Redirected
<1>12. NoCrash' /\ SeqContinuous'
  BY <1>2, <1>3 DEF IInv, NoCrash, SeqContinuous
<1> QED BY <1>7, <1>9, <1>10, <1>11, <1>12 DEF IInv

(* A step that leaves the connection, the HIH and what EXT heard alone. *)
LEMMA InvAside ==
  ASSUME IInv, TypeOK', UNCHANGED <<conn, hihSent, toHih>>, extPkts' >= extPkts,
         state \notin {"INIT", "DECISION"},
         toExt' = toExt \/ SeqContinuous'
  PROVE  IInv'
<1>0. extPkts \in Nat /\ extPkts' \in Nat
  BY DEF IInv, TypeOK
<1>1. UNCHANGED <<state, BUFFER, replay_id, expected_data, delta, lih_syn_seq, crashed, hihSent, toHih>>
  BY DEF conn
<1>2. InvIds'
  <2>1. \A n : n \in 1 .. extPkts => n \in 1 .. extPkts'
    BY <1>0
  <2> QED BY <1>1, <2>1 DEF IInv, InvIds, IsExt
<1>3. InvStates'
  BY <1>1 DEF IInv, InvStates, Redirected, IsExt
<1>4. HihInOrder' /\ InvGiven' /\ AckTranslated' /\ NoCrash'
  BY <1>1 DEF IInv, HihInOrder, InvGiven, AckTranslated, IsExt, NoCrash
<1>5. InvNumbers'
  BY <1>1 DEF IInv, InvNumbers, Redirected, IsExt, LihSpoke
<1>6. SeqContinuous'
  BY DEF IInv, SeqContinuous
<1> QED BY <1>2, <1>3, <1>4, <1>5, <1>6 DEF IInv

(* EXT in PROXY, REPLAY or DROP: nothing of the replay is touched. *)
LEMMA InvExtAside ==
  ASSUME IInv, TypeOK', NEW p \in ExtPackets, ExtProxy(p) \/ ExtDiscard(p)
  PROVE  IInv'
<1>1. extPkts' >= extPkts
  BY DEF IInv, TypeOK, ExtProxy, ExtDiscard, ExtSends
<1> QED BY <1>1, InvAside DEF ExtProxy, ExtDiscard

(* The LIH in PROXY, or after the handover. *)
LEMMA InvLihAside ==
  ASSUME IInv, TypeOK', NEW p \in LihPackets, LihProxy(p) \/ LihDiscard(p)
  PROVE  IInv'
<1>1. extPkts' >= extPkts
  BY DEF IInv, TypeOK, LihProxy, LihDiscard
<1>2. CASE LihProxy(p)
  <2>1. SeqContinuous'
    BY <1>2, LihPacketType DEF IInv, SeqContinuous, LihProxy, ProxyInt2Ext
  <2> QED BY <1>1, <1>2, <2>1, InvAside DEF LihProxy
<1>3. CASE LihDiscard(p)
  BY <1>1, <1>3, InvAside DEF LihDiscard
<1> QED BY <1>2, <1>3

(* The packets of a run are EXT's, and their identities are the buffer's.  *)
LEMMA RunIds ==
  ASSUME TypeOK, InvIds, NEW from \in 0 .. Len(BUFFER), NEW stop \in from .. Len(BUFFER),
         NEW d \in 0 .. SeqMod - 1, IsRun(from, stop)
  PROVE  /\ Run(from, stop, d) \in Seq(Frames)
         /\ Len(Run(from, stop, d)) = stop - from
         /\ stop - from \in Nat
         /\ \A k \in 1 .. stop - from :
              /\ from + k \in DOMAIN BUFFER /\ IsExt(from + k)
              /\ Run(from, stop, d)[k].id = BUFFER[from + k].id
              /\ Run(from, stop, d)[k].ackpos = BUFFER[from + k].ackpos
              /\ Tcp /\ BUFFER[from + k].ackpos # 0
                   => Run(from, stop, d)[k].ack = SeqSub(BUFFER[from + k].ack, d)
<1>1. /\ Run(from, stop, d) \in Seq(Frames)
      /\ Len(Run(from, stop, d)) = stop - from
      /\ \A i \in 1 .. stop - from : Run(from, stop, d)[i] = ForwardExt2Hih(BUFFER[from + i], d)
  BY RunType
<1>2. Len(BUFFER) \in Nat /\ DOMAIN BUFFER = 1 .. Len(BUFFER)
  BY DEF TypeOK
<1>3. from \in Nat /\ stop \in Nat /\ stop - from \in Nat
  BY <1>2
<1>4. ASSUME NEW k \in 1 .. stop - from
      PROVE  from + k \in DOMAIN BUFFER /\ IsExt(from + k)
  <2>1. from + k \in 1 .. Len(BUFFER) /\ from + k - 1 \in from .. stop - 1
    BY <1>2, <1>3
  <2>2. BUFFER[(from + k - 1) + 1].origin = "EXT"
    BY <2>1 DEF IsRun
  <2>3. (from + k - 1) + 1 = from + k
    BY <1>3
  <2> QED BY <1>2, <2>1, <2>2, <2>3 DEF IsExt
<1>5. ASSUME NEW k \in 1 .. stop - from
      PROVE  /\ Run(from, stop, d)[k].id = BUFFER[from + k].id
             /\ Run(from, stop, d)[k].ackpos = BUFFER[from + k].ackpos
             /\ Tcp /\ BUFFER[from + k].ackpos # 0
                  => Run(from, stop, d)[k].ack = SeqSub(BUFFER[from + k].ack, d)
  <2>1. Run(from, stop, d)[k] = ForwardExt2Hih(BUFFER[from + k], d)
    BY <1>1
  <2> QED BY <2>1 DEF ForwardExt2Hih
<1> QED BY <1>1, <1>3, <1>4, <1>5

(* The HIH's packets h are EXT's share of the first n packets recorded.    *)
GivenUpTo(h, n) ==
  /\ \A j \in DOMAIN h : \E i \in 1 .. n : IsExt(i) /\ BUFFER[i].id = h[j].id
  /\ \A i \in 1 .. n : IsExt(i) => \E j \in DOMAIN h : h[j].id = BUFFER[i].id

(* A run that begins where toHih ended keeps the order and the account:    *)
(* what the HIH was given is EXT's share of the buffer up to the run's end. *)
LEMMA RunExtends ==
  ASSUME TypeOK, InvIds, HihInOrder, NEW from \in 0 .. Len(BUFFER),
         NEW stop \in from .. Len(BUFFER), NEW d \in 0 .. SeqMod - 1, IsRun(from, stop),
         GivenUpTo(toHih, from),
         NEW h, h = toHih \o Run(from, stop, d)
  PROVE  /\ \A i, j \in DOMAIN h : i < j => h[i].id < h[j].id
         /\ GivenUpTo(h, stop)
         /\ \A j \in DOMAIN h : h[j].id \in 1 .. extPkts
<1> DEFINE R == Run(from, stop, d)
           n == Len(toHih)
           m == stop - from
<1>1. /\ R \in Seq(Frames) /\ Len(R) = m /\ m \in Nat
      /\ \A k \in 1 .. m : /\ from + k \in DOMAIN BUFFER /\ IsExt(from + k)
                           /\ R[k].id = BUFFER[from + k].id
  BY RunIds
<1>2. toHih \in Seq(Frames) /\ n \in Nat /\ DOMAIN toHih = 1 .. n
  BY DEF TypeOK, Frames
<1> HIDE DEF R
<1>3. /\ DOMAIN h = 1 .. n + m
      /\ \A i \in 1 .. n : h[i] = toHih[i]
      /\ \A i \in n + 1 .. n + m : h[i] = R[i - n]
  BY <1>1, <1>2 DEF R
<1>4. Len(BUFFER) \in Nat /\ DOMAIN BUFFER = 1 .. Len(BUFFER) /\ from \in Nat /\ stop \in Nat
  BY DEF TypeOK
<1> HIDE DEF m, n
<1>5. \A i \in n + 1 .. n + m : /\ from + (i - n) \in 1 .. stop
                                /\ IsExt(from + (i - n)) /\ h[i].id = BUFFER[from + (i - n)].id
  <2> TAKE i \in n + 1 .. n + m
  <2>1. i - n \in 1 .. m
    BY <1>1, <1>2
  <2>2. from + (i - n) \in 1 .. stop
    BY <1>1, <1>4, <2>1 DEF m
  <2> QED BY <1>1, <1>3, <2>1, <2>2
<1>6. \A j \in DOMAIN h : \E i \in 1 .. stop : IsExt(i) /\ BUFFER[i].id = h[j].id
  <2> TAKE j \in DOMAIN h
  <2>1. CASE j \in 1 .. n
    <3>1. PICK i \in 1 .. from : IsExt(i) /\ BUFFER[i].id = toHih[j].id
      BY <1>2, <2>1 DEF GivenUpTo
    <3>2. i \in 1 .. stop
      BY <1>4
    <3> QED BY <1>3, <2>1, <3>1, <3>2
  <2>2. CASE j \in n + 1 .. n + m
    BY <1>5, <2>2
  <2>3. j \in 1 .. n \/ j \in n + 1 .. n + m
    BY <1>1, <1>2, <1>3
  <2> QED BY <2>1, <2>2, <2>3
<1>7. \A i, j \in DOMAIN h : i < j => h[i].id < h[j].id
  <2> SUFFICES ASSUME NEW i \in DOMAIN h, NEW j \in DOMAIN h, i < j
               PROVE  h[i].id < h[j].id
    OBVIOUS
  <2>1. CASE j \in 1 .. n
    <3>1. i \in 1 .. n
      BY <1>1, <1>2, <1>3, <2>1
    <3> QED BY <1>2, <1>3, <2>1, <3>1 DEF HihInOrder
  <2>2. CASE i \in 1 .. n /\ j \in n + 1 .. n + m
    <3>1. PICK k \in 1 .. from : IsExt(k) /\ BUFFER[k].id = toHih[i].id
      BY <1>2, <2>2 DEF GivenUpTo
    <3> DEFINE l == from + (j - n)
    <3>2. l \in 1 .. stop /\ IsExt(l) /\ h[j].id = BUFFER[l].id
      BY <1>5, <2>2
    <3>3. k < l
      BY <1>1, <1>2, <1>4, <2>2
    <3> HIDE DEF l
    <3>4. k \in DOMAIN BUFFER /\ l \in DOMAIN BUFFER
      BY <1>4, <3>2
    <3>5. BUFFER[k].id < BUFFER[l].id
      BY <3>1, <3>2, <3>3, <3>4 DEF InvIds
    <3> QED BY <1>3, <2>2, <3>1, <3>2, <3>5
  <2>3. CASE i \in n + 1 .. n + m /\ j \in n + 1 .. n + m
    <3>1. /\ from + (i - n) < from + (j - n)
          /\ from + (i - n) \in DOMAIN BUFFER /\ from + (j - n) \in DOMAIN BUFFER
      <4>1. i - n \in 1 .. m /\ j - n \in 1 .. m /\ i - n < j - n
        <5>1. n \in Nat /\ m \in Nat
          BY <1>1, <1>2
        <5> QED BY <2>3, <5>1
      <4>2. from + (i - n) \in DOMAIN BUFFER /\ from + (j - n) \in DOMAIN BUFFER
        BY <1>1, <4>1
      <4> QED BY <1>4, <4>1, <4>2
    <3> QED BY <1>5, <2>3, <3>1 DEF InvIds
  <2>4. \/ j \in 1 .. n
        \/ i \in 1 .. n /\ j \in n + 1 .. n + m
        \/ i \in n + 1 .. n + m /\ j \in n + 1 .. n + m
    BY <1>1, <1>2, <1>3
  <2> QED BY <2>1, <2>2, <2>3, <2>4
<1>8. \A i \in 1 .. stop : IsExt(i) => \E j \in DOMAIN h : h[j].id = BUFFER[i].id
  <2> SUFFICES ASSUME NEW i \in 1 .. stop, IsExt(i)
               PROVE  \E j \in DOMAIN h : h[j].id = BUFFER[i].id
    OBVIOUS
  <2>1. CASE i \in 1 .. from
    <3>1. PICK j \in DOMAIN toHih : toHih[j].id = BUFFER[i].id
      BY <2>1 DEF GivenUpTo
    <3>2. j \in 1 .. n /\ j \in DOMAIN h
      BY <1>1, <1>2, <1>3
    <3> QED BY <1>3, <3>1, <3>2
  <2>2. CASE i \notin 1 .. from
    <3>1. n + (i - from) \in n + 1 .. n + m /\ n + (i - from) \in DOMAIN h
      BY <1>1, <1>2, <1>3, <1>4, <2>2 DEF m
    <3>2. from + ((n + (i - from)) - n) = i
      BY <1>2, <1>4
    <3> QED BY <1>5, <3>1, <3>2
  <2> QED BY <2>1, <2>2
<1>9. \A j \in DOMAIN h : h[j].id \in 1 .. extPkts
  <2> TAKE j \in DOMAIN h
  <2>1. PICK i \in 1 .. stop : IsExt(i) /\ BUFFER[i].id = h[j].id
    BY <1>6
  <2>2. i \in DOMAIN BUFFER
    BY <1>4
  <2> QED BY <2>1, <2>2 DEF InvIds
<1> QED BY <1>6, <1>7, <1>8, <1>9 DEF GivenUpTo

(* setup_redirection(): the EXT packets at the head of the buffer were     *)
(* recorded before the LIH spoke, so none of them acknowledges anything.   *)
LEMMA InvExtRedirect ==
  ASSUME UnlimitedBuffer, IInv, TypeOK', NEW p \in ExtPackets, ExtMaySend(p),
         NEW v \in BackDecisions, NEW pinned \in Pinned, ExtRedirect(p, v, pinned)
  PROVE  IInv'
<1>0. /\ p \in Packets /\ p.origin = "EXT" /\ p.id = extPkts + 1
      /\ p.ack = SeqAdd(LihIsn, p.ackpos) /\ p.ackpos \in Nat
  BY ExtPacketType DEF IInv, Packets
<1>1. /\ Backends /\ (toExt # {} \/ lihSent > 0 => LihSpoke)
      /\ toHih = <<>> /\ replay_id = 0 /\ ~expected_data.set /\ hihSent = 0
  BY DEF ExtRedirect, IInv, InvStates, Redirected
<1>2. /\ state' = "REPLAY" /\ extPkts' = extPkts + 1
      /\ UNCHANGED <<delta, lih_syn_seq, crashed, lihPkts, lihSent, hihSent, toExt, toLih, peer>>
  BY DEF ExtRedirect, ExtSends
<1>3. PICK stop \in 0 .. Len(BUFFER) :
        /\ IsRun(0, stop)
        /\ toHih' = toHih \o Run(0, stop, delta)
        /\ IF stop < Len(BUFFER)
           THEN /\ expected_data' = DefineExpectedData(BUFFER[stop + 1], delta)
                /\ replay_id' = stop + 1
           ELSE /\ UNCHANGED expected_data
                /\ replay_id' = stop
  BY <1>1 DEF ExtRedirect
<1>4. BUFFER' = Append(BUFFER, p)
  BY <1>1 DEF ExtRedirect, Stored, UnlimitedBuffer
<1>5. BUFFER \in Seq(Packets) /\ extPkts \in Nat /\ delta \in 0 .. SeqMod - 1
  BY DEF IInv, TypeOK
<1>6. /\ Len(BUFFER) \in Nat /\ DOMAIN BUFFER = 1 .. Len(BUFFER)
      /\ DOMAIN BUFFER' = 1 .. Len(BUFFER) + 1 /\ Len(BUFFER') = Len(BUFFER) + 1
      /\ \A i \in 1 .. Len(BUFFER) : BUFFER'[i] = BUFFER[i]
      /\ BUFFER'[Len(BUFFER) + 1] = p
  BY <1>0, <1>4, <1>5, AppendFacts
<1>7. TypeOK /\ InvIds /\ HihInOrder
  BY DEF IInv
<1>8. /\ \A i, j \in DOMAIN toHih' : i < j => toHih'[i].id < toHih'[j].id
      /\ \A j \in DOMAIN toHih' : \E i \in 1 .. stop : IsExt(i) /\ BUFFER[i].id = toHih'[j].id
      /\ \A i \in 1 .. stop : IsExt(i) => \E j \in DOMAIN toHih' : toHih'[j].id = BUFFER[i].id
      /\ \A j \in DOMAIN toHih' : toHih'[j].id \in 1 .. extPkts
  <2>1. 0 \in 0 .. Len(BUFFER) /\ stop \in 0 .. Len(BUFFER)
    BY <1>6
  <2>2. GivenUpTo(toHih, 0)
    BY <1>1 DEF GivenUpTo
  <2> DEFINE h == toHih'
  <2>3. h = toHih \o Run(0, stop, delta)
    BY <1>3
  <2> HIDE DEF h
  <2>4. /\ \A i, j \in DOMAIN h : i < j => h[i].id < h[j].id
        /\ GivenUpTo(h, stop)
        /\ \A j \in DOMAIN h : h[j].id \in 1 .. extPkts
    BY <1>3, <1>5, <1>7, <2>1, <2>2, <2>3, RunExtends
  <2> QED BY <2>4 DEF h, GivenUpTo
<1>9. InvIds'
  <2>1. \A i \in DOMAIN BUFFER : IsExt(i) => BUFFER[i].id \in 1 .. extPkts
    BY <1>7 DEF InvIds
  <2>2. \A i, j \in DOMAIN BUFFER : i < j /\ IsExt(i) /\ IsExt(j) => BUFFER[i].id < BUFFER[j].id
    BY <1>7 DEF InvIds
  <2>3. \A i \in DOMAIN BUFFER' : IsExt(i)' => BUFFER'[i].id \in 1 .. extPkts'
    BY <1>0, <1>2, <1>5, <1>6, <2>1 DEF IsExt
  <2>4. \A i, j \in DOMAIN BUFFER' :
          i < j /\ IsExt(i)' /\ IsExt(j)' => BUFFER'[i].id < BUFFER'[j].id
    BY <1>0, <1>5, <1>6, <2>1, <2>2 DEF IsExt
  <2>5. \A i \in DOMAIN toHih' : toHih'[i].id \in 1 .. extPkts'
    BY <1>2, <1>5, <1>8
  <2> QED BY <2>3, <2>4, <2>5 DEF InvIds
<1>10. HihInOrder'
  BY <1>8 DEF HihInOrder
<1>11. InvStates'
  <2>1. replay_id' < Len(BUFFER') /\ IsExt(Len(BUFFER))'
    BY <1>0, <1>3, <1>6 DEF IsExt
  <2> QED BY <1>2, <2>1 DEF InvStates, Redirected
<1>12. stop < Len(BUFFER) => BUFFER[stop + 1].origin = "LIH"
  <2>1. stop < Len(BUFFER) => BUFFER[stop + 1] \in Packets
    BY <1>5, <1>6
  <2> QED BY <1>3, <2>1 DEF IsRun, Packets
<1>13. InvGiven'
  <2>1. ASSUME NEW j \in DOMAIN toHih'
        PROVE  \E i \in 1 .. replay_id' : IsExt(i)' /\ BUFFER'[i].id = toHih'[j].id
    <3>1. PICK i \in 1 .. stop : IsExt(i) /\ BUFFER[i].id = toHih'[j].id
      BY <1>8
    <3>2. i \in 1 .. replay_id' /\ i \in 1 .. Len(BUFFER)
      BY <1>3, <1>6
    <3> QED BY <1>6, <3>1, <3>2 DEF IsExt
  <2>2. ASSUME NEW i \in DOMAIN BUFFER', IsExt(i)', i <= replay_id'
        PROVE  \E j \in DOMAIN toHih' : toHih'[j].id = BUFFER'[i].id
    <3>1. i \in 1 .. Len(BUFFER) /\ BUFFER'[i] = BUFFER[i] /\ IsExt(i)
      BY <1>3, <1>6, <2>2 DEF IsExt
    <3>2. i \in 1 .. stop
      BY <1>3, <1>6, <1>12, <2>2, <3>1 DEF IsExt
    <3> QED BY <1>8, <3>1, <3>2
  <2> QED BY <1>2, <2>1, <2>2 DEF InvGiven
<1>14. InvNumbers'
  <2>1. ASSUME Tcp, NEW i \in DOMAIN BUFFER', IsExt(i)'
        PROVE  /\ BUFFER'[i].ack = SeqAdd(LihIsn, BUFFER'[i].ackpos)
               /\ BUFFER'[i].ackpos # 0 => \E j \in 1 .. i - 1 : BUFFER'[j].origin = "LIH"
    <3>1. CASE i \in 1 .. Len(BUFFER)
      <4>1. /\ BUFFER[i].ack = SeqAdd(LihIsn, BUFFER[i].ackpos)
            /\ BUFFER[i].ackpos # 0 => \E j \in 1 .. i - 1 : BUFFER[j].origin = "LIH"
        BY <1>6, <2>1, <3>1 DEF IInv, InvNumbers, IsExt
      <4>2. \A j \in 1 .. i - 1 : BUFFER'[j] = BUFFER[j]
        BY <1>6, <3>1
      <4> QED BY <1>6, <3>1, <4>1, <4>2
    <3>2. CASE i = Len(BUFFER) + 1
      <4>1. p.ackpos # 0 => LihSpoke
        BY <1>0, <1>1, AckNeedsSegment DEF ExtMaySend
      <4>2. LihSpoke => \E j \in 1 .. i - 1 : BUFFER'[j].origin = "LIH"
        BY <1>6, <3>2 DEF LihSpoke
      <4> QED BY <1>0, <1>6, <3>2, <4>1, <4>2
    <3> QED BY <1>6, <3>1, <3>2
  <2>2. LihSpoke' <=> LihSpoke
    BY <1>0, <1>6 DEF LihSpoke
  <2>3. Tcp => (LihSpoke' => lih_syn_seq' = LihIsn)
    BY <1>2, <2>2 DEF IInv, InvNumbers
  <2>4. expected_data'.set => LihSpoke
    <3>1. CASE stop < Len(BUFFER)
      <4>1. stop + 1 \in DOMAIN BUFFER
        BY <1>6, <3>1
      <4> QED BY <1>12, <3>1, <4>1 DEF LihSpoke
    <3>2. CASE ~(stop < Len(BUFFER))
      BY <1>1, <1>3, <3>2
    <3> QED BY <3>1, <3>2
  <2>5. hihSent' = 0
    BY <1>1, <1>2
  <2> QED BY <1>2, <2>1, <2>2, <2>3, <2>4, <2>5 DEF InvNumbers
<1>15. AckTranslated'
  <2> SUFFICES ASSUME Tcp, NEW i \in DOMAIN toHih'
               PROVE  toHih'[i].ackpos = 0
    BY DEF AckTranslated
  <2>0. 0 \in 0 .. Len(BUFFER) /\ stop \in 0 .. Len(BUFFER) /\ stop - 0 = stop
    BY <1>6
  <2>1. /\ Run(0, stop, delta) \in Seq(Frames) /\ Len(Run(0, stop, delta)) = stop
        /\ \A k \in 1 .. stop : /\ 0 + k \in DOMAIN BUFFER /\ IsExt(0 + k)
                                /\ Run(0, stop, delta)[k].ackpos = BUFFER[0 + k].ackpos
    BY <1>3, <1>5, <1>7, <2>0, RunIds
  <2>2. toHih' = Run(0, stop, delta)
    BY <1>1, <1>3, <2>1
  <2>3. i \in 1 .. stop /\ 0 + i = i
    BY <2>0, <2>1, <2>2
  <2>4. IsExt(i) /\ i \in DOMAIN BUFFER /\ toHih'[i].ackpos = BUFFER[i].ackpos
    BY <2>1, <2>2, <2>3
  <2>5. \A j \in 1 .. i - 1 : BUFFER[j].origin # "LIH"
    <3> TAKE j \in 1 .. i - 1
    <3>1. j \in 1 .. stop /\ 0 + j = j
      BY <2>0, <2>3
    <3> QED BY <2>1, <3>1 DEF IsExt
  <2> QED BY <2>4, <2>5 DEF IInv, InvNumbers
<1>16. NoCrash' /\ SeqContinuous'
  BY <1>2 DEF IInv, NoCrash, SeqContinuous
<1> QED BY <1>9, <1>10, <1>11, <1>13, <1>14, <1>15, <1>16 DEF IInv

(* Forwarding to the HIH after the handover. *)
LEMMA InvExtForward ==
  ASSUME IInv, TypeOK', NEW p \in ExtPackets, ExtForward(p)
  PROVE  IInv'
<1>0. /\ p \in Packets /\ p.origin = "EXT" /\ p.id = extPkts + 1
      /\ p.ack = SeqAdd(LihIsn, p.ackpos) /\ p.ackpos \in Nat
  BY ExtPacketType DEF IInv, Packets
<1> DEFINE f == ForwardExt2Hih(p, delta)
           n == Len(toHih)
<1>1. /\ state = "FORWARD" /\ toHih' = Append(toHih, f) /\ extPkts' = extPkts + 1
      /\ UNCHANGED <<state, BUFFER, replay_id, expected_data, delta, lih_syn_seq, crashed,
                     hihSent, toExt>>
  BY DEF ExtForward, ExtSends, conn
<1>2. f.id = p.id /\ f.ackpos = p.ackpos /\ (Tcp /\ p.ackpos # 0 => f.ack = SeqSub(p.ack, delta))
  BY DEF ForwardExt2Hih
<1>3. f \in Frames /\ toHih \in Seq(Frames) /\ extPkts \in Nat
  BY <1>0, ForwardType DEF IInv, TypeOK, Frames
<1> HIDE DEF f
<1>4. /\ n \in Nat /\ DOMAIN toHih = 1 .. n /\ DOMAIN toHih' = 1 .. n + 1
      /\ \A i \in 1 .. n : toHih'[i] = toHih[i]
      /\ toHih'[n + 1] = f
  BY <1>1, <1>3
<1> HIDE DEF n
<1>5. \A i \in DOMAIN toHih : toHih[i].id \in 1 .. extPkts
  BY DEF IInv, InvIds
<1>6. InvIds'
  <2>1. \A i \in DOMAIN toHih' : toHih'[i].id \in 1 .. extPkts'
    BY <1>0, <1>1, <1>2, <1>3, <1>4, <1>5
  <2>2. \A k : k \in 1 .. extPkts => k \in 1 .. extPkts'
    BY <1>1, <1>3
  <2> QED BY <1>1, <2>1, <2>2 DEF IInv, InvIds, IsExt
<1>7. HihInOrder'
  <2> SUFFICES ASSUME NEW i \in DOMAIN toHih', NEW j \in DOMAIN toHih', i < j
               PROVE  toHih'[i].id < toHih'[j].id
    BY DEF HihInOrder
  <2>1. CASE j \in 1 .. n
    <3>1. i \in 1 .. n
      BY <1>4, <2>1
    <3> QED BY <1>4, <2>1, <3>1 DEF IInv, HihInOrder
  <2>2. CASE j = n + 1
    <3>1. i \in 1 .. n
      BY <1>4, <2>2
    <3>2. toHih[i].id \in 1 .. extPkts
      BY <1>4, <1>5, <3>1
    <3> QED BY <1>0, <1>2, <1>3, <1>4, <2>2, <3>1, <3>2
  <2> QED BY <1>4, <2>1, <2>2
<1>8. InvStates'
  BY <1>1 DEF IInv, InvStates, Redirected
<1>9. InvGiven'
  <2> SUFFICES ASSUME NEW i \in DOMAIN BUFFER, IsExt(i)
               PROVE  \E j \in DOMAIN toHih' : toHih'[j].id = BUFFER[i].id
    BY <1>1 DEF InvGiven, IsExt
  <2>1. PICK j \in DOMAIN toHih : toHih[j].id = BUFFER[i].id
    BY <1>1 DEF IInv, InvGiven
  <2>2. j \in 1 .. n /\ j \in DOMAIN toHih'
    BY <1>4
  <2> QED BY <1>4, <2>1, <2>2
<1>10. InvNumbers'
  BY <1>1 DEF IInv, InvNumbers, Redirected, IsExt, LihSpoke
<1>11. AckTranslated'
  <2> SUFFICES ASSUME Tcp, NEW i \in DOMAIN toHih', toHih'[i].ackpos # 0
               PROVE  toHih'[i].ack = SeqAdd(HihIsn, toHih'[i].ackpos)
    BY DEF AckTranslated
  <2>1. CASE i \in 1 .. n
    BY <1>4, <2>1 DEF IInv, AckTranslated
  <2>2. CASE i = n + 1
    <3>1. delta = SeqSub(LihIsn, HihIsn)
      BY <1>1 DEF IInv, InvNumbers, Redirected, Offset
    <3>2. f.ack = SeqSub(SeqAdd(LihIsn, p.ackpos), SeqSub(LihIsn, HihIsn))
      BY <1>0, <1>2, <1>4, <2>2, <3>1
    <3>3. p.ackpos \in Int
      BY <1>0
    <3> QED BY <1>2, <1>4, <2>2, <3>2, <3>3, AckShift
  <2> QED BY <1>4, <2>1, <2>2
<1>12. NoCrash' /\ SeqContinuous'
  BY <1>1 DEF IInv, NoCrash, SeqContinuous
<1> QED BY <1>6, <1>7, <1>8, <1>9, <1>10, <1>11, <1>12 DEF IInv

(* The initial sequence numbers are below the modulus. *)
LEMMA IsnMod == SeqAdd(LihIsn, 0) = LihIsn /\ SeqAdd(HihIsn, 0) = HihIsn
<1>1. SeqMod \in Nat \ {0} /\ LihIsn \in 0 .. SeqMod - 1 /\ HihIsn \in 0 .. SeqMod - 1
  BY BoundsAssumption
<1>2. LihIsn + 0 = LihIsn /\ HihIsn + 0 = HihIsn
  BY <1>1
<1>3. LihIsn % SeqMod = LihIsn /\ HihIsn % SeqMod = HihIsn
  BY <1>1
<1> QED BY <1>2, <1>3 DEF SeqAdd

(* A recorded packet of the LIH: its SYN comes before anything else.       *)
LEMMA InvLihRecord ==
  ASSUME UnlimitedBuffer, IInv, TypeOK', NEW p \in LihPackets, PotMaySend(p, lihSent, toLih),
         LihRecord(p)
  PROVE  IInv'
<1>0. /\ p \in Packets /\ p.origin = "LIH" /\ p.seq = SeqAdd(LihIsn, p.pos)
      /\ p.ackpos \in Nat \ {0} /\ p.pos \in Nat /\ p.len \in {0, 1}
  BY LihPacketType DEF Packets
<1>1. state = "DECISION"
  <2>1. toLih # {}
    BY <1>0, AckNeedsSegment DEF PotMaySend
  <2> QED BY <2>1 DEF LihRecord, IInv, InvStates
<1>2. /\ Backends /\ (toExt # {} \/ lihSent > 0 => LihSpoke)
      /\ toHih = <<>> /\ replay_id = 0 /\ ~expected_data.set /\ hihSent = 0
  BY <1>1 DEF IInv, InvStates, Redirected
<1>3. UNCHANGED <<state, replay_id, expected_data, delta, crashed, extPkts, hihSent, toHih>>
  BY DEF LihRecord
<1>4. BUFFER' = Append(BUFFER, p)
  BY <1>2 DEF LihRecord, Stored, UnlimitedBuffer
<1>5. BUFFER \in Seq(Packets)
  BY DEF IInv, TypeOK
<1>6. /\ Len(BUFFER) \in Nat /\ DOMAIN BUFFER = 1 .. Len(BUFFER)
      /\ DOMAIN BUFFER' = 1 .. Len(BUFFER) + 1
      /\ \A i \in 1 .. Len(BUFFER) : BUFFER'[i] = BUFFER[i]
      /\ BUFFER'[Len(BUFFER) + 1] = p
  BY <1>0, <1>4, <1>5, AppendFacts
<1>7. LihSpoke'
  BY <1>0, <1>6 DEF LihSpoke
<1>8. \A i \in DOMAIN BUFFER' :
        IsExt(i)' => i \in DOMAIN BUFFER /\ IsExt(i) /\ BUFFER'[i] = BUFFER[i]
  BY <1>0, <1>6 DEF IsExt
<1>9. InvIds'
  BY <1>2, <1>3, <1>8 DEF IInv, InvIds
<1>10. InvStates'
  BY <1>1, <1>2, <1>3, <1>7 DEF InvStates, Redirected
<1>11. HihInOrder' /\ InvGiven' /\ AckTranslated'
  BY <1>1, <1>2, <1>3 DEF HihInOrder, InvGiven, AckTranslated
<1>12. InvNumbers'
  <2>1. ASSUME Tcp, NEW i \in DOMAIN BUFFER', IsExt(i)'
        PROVE  /\ BUFFER'[i].ack = SeqAdd(LihIsn, BUFFER'[i].ackpos)
               /\ BUFFER'[i].ackpos # 0 => \E j \in 1 .. i - 1 : BUFFER'[j].origin = "LIH"
    <3>1. i \in DOMAIN BUFFER /\ IsExt(i) /\ BUFFER'[i] = BUFFER[i]
      BY <1>8, <2>1
    <3>2. /\ BUFFER[i].ack = SeqAdd(LihIsn, BUFFER[i].ackpos)
          /\ BUFFER[i].ackpos # 0 => \E j \in 1 .. i - 1 : BUFFER[j].origin = "LIH"
      BY <2>1, <3>1 DEF IInv, InvNumbers
    <3>3. \A j \in 1 .. i - 1 : BUFFER'[j] = BUFFER[j]
      BY <1>6, <3>1
    <3> QED BY <3>1, <3>2, <3>3
  <2>2. ASSUME Tcp PROVE lih_syn_seq' = LihIsn
    <3>1. CASE p.pos = 0
      BY <1>0, <2>2, <3>1, IsnMod DEF LihRecord, Syn
    <3>2. CASE p.pos # 0
      <4>1. lihSent \in Nat /\ p.pos \in 0 .. lihSent
        BY DEF IInv, TypeOK, PotMaySend, MaySend
      <4>2. lihSent > 0
        BY <3>2, <4>1
      <4> QED BY <1>2, <2>2, <3>2, <4>2 DEF IInv, InvNumbers, LihRecord, Syn
    <3> QED BY <3>1, <3>2
  <2> QED BY <1>1, <1>2, <1>3, <2>1, <2>2 DEF InvNumbers, Redirected
<1>13. NoCrash' /\ SeqContinuous'
  BY <1>0, <1>3 DEF IInv, NoCrash, SeqContinuous, LihRecord, ProxyInt2Ext
<1> QED BY <1>9, <1>10, <1>11, <1>12, <1>13 DEF IInv

(* What a segment of the HIH does to the offset: after the HIH's SYN it is *)
(* the difference of the two initial sequence numbers, and no other        *)
(* segment comes before the SYN.                                           *)
LEMMA OffsetKnown ==
  ASSUME IInv, NEW p \in HihPackets, PotMaySend(p, hihSent, Received(toHih)), HihSends(p),
         state \in {"REPLAY", "FORWARD"}
  PROVE  /\ hihSent' > 0 /\ hihSent' >= hihSent /\ hihSent \in Nat
         /\ Tcp /\ LihSpoke => DeltaAfter(p) = Offset
<1>1. p.pos \in Nat /\ p.len \in {0, 1} /\ p.seq = SeqAdd(HihIsn, p.pos)
  BY HihPacketType
<1>2. /\ hihSent \in Nat /\ p.pos \in 0 .. hihSent
      /\ p.len = 0 => p.pos > 0
  BY DEF IInv, TypeOK, PotMaySend, MaySend
<1>3. hihSent' > 0 /\ hihSent' >= hihSent
  BY <1>1, <1>2 DEF HihSends
<1>4. ASSUME Tcp, LihSpoke PROVE DeltaAfter(p) = Offset
  <2>1. lih_syn_seq = LihIsn
    BY <1>4 DEF IInv, InvNumbers
  <2>2. CASE p.pos = 0
    BY <1>1, <1>4, <2>1, <2>2, IsnMod DEF DeltaAfter, Syn, Offset
  <2>3. CASE p.pos # 0
    <3>1. hihSent > 0
      BY <1>2, <2>3
    <3> QED BY <1>4, <2>3, <3>1 DEF IInv, InvNumbers, Redirected, DeltaAfter, Syn
  <2> QED BY <2>2, <2>3
<1> QED BY <1>2, <1>3, <1>4

(* replay() on a packet it does not expect. *)
LEMMA InvHihUnexpected ==
  ASSUME IInv, TypeOK', NEW p \in HihPackets, PotMaySend(p, hihSent, Received(toHih)),
         HihUnexpected(p)
  PROVE  IInv'
<1>1. /\ state = "REPLAY" /\ HihSends(p) /\ delta' = DeltaAfter(p)
      /\ UNCHANGED <<state, BUFFER, replay_id, expected_data, lih_syn_seq, crashed,
                     extPkts, extSent, lihPkts, lihSent, toExt, toLih, toHih, peer, rst>>
  BY DEF HihUnexpected
<1>2. hihSent' > 0 /\ (Tcp /\ LihSpoke => delta' = Offset)
  BY <1>1, OffsetKnown
<1>3. InvIds'
  BY <1>1 DEF IInv, InvIds, IsExt
<1>4. InvStates'
  BY <1>1 DEF IInv, InvStates, Redirected, IsExt
<1>5. HihInOrder' /\ InvGiven' /\ AckTranslated' /\ NoCrash' /\ SeqContinuous'
  BY <1>1 DEF IInv, HihInOrder, InvGiven, AckTranslated, IsExt, NoCrash, SeqContinuous
<1>6. InvNumbers'
  BY <1>1, <1>2 DEF IInv, InvNumbers, Redirected, IsExt, LihSpoke, Offset
<1> QED BY <1>3, <1>4, <1>5, <1>6 DEF IInv

(* replay() on the packet it expects. *)
LEMMA InvHihExpected ==
  ASSUME IInv, TypeOK', NEW p \in HihPackets, PotMaySend(p, hihSent, Received(toHih)),
         HihExpected(p)
  PROVE  IInv'
<1> DEFINE d == DeltaAfter(p)
<1>1. /\ state = "REPLAY" /\ HihSends(p) /\ delta' = d /\ expected_data.set
      /\ UNCHANGED <<BUFFER, lih_syn_seq, crashed,
                     extPkts, extSent, lihPkts, lihSent, toExt, toLih, peer, rst>>
  BY DEF HihExpected, TestExpected
<1>2. hihSent' > 0 /\ (Tcp /\ LihSpoke => d = Offset)
  BY <1>1, OffsetKnown
<1>3. Tcp => LihSpoke
  BY <1>1 DEF IInv, InvNumbers
<1>4. TypeOK /\ InvIds /\ HihInOrder
  BY DEF IInv
<1>5. d \in 0 .. SeqMod - 1
  BY <1>4, DeltaType
<1> HIDE DEF d
<1>6. /\ BUFFER \in Seq(Packets) /\ Len(BUFFER) \in Nat /\ DOMAIN BUFFER = 1 .. Len(BUFFER)
      /\ replay_id \in 0 .. Len(BUFFER)
  <2>1. BUFFER \in Seq(Packets) /\ replay_id \in 0 .. Len(BUFFER)
    BY <1>4 DEF TypeOK
  <2> QED BY <2>1
<1>7. IsExt(Len(BUFFER)) /\ replay_id < Len(BUFFER)
  BY <1>1 DEF IInv, InvStates
<1>8. PICK stop \in replay_id .. Len(BUFFER) :
        /\ IsRun(replay_id, stop)
        /\ toHih' = toHih \o Run(replay_id, stop, d)
        /\ IF stop < Len(BUFFER)
           THEN /\ expected_data' = DefineExpectedData(BUFFER[stop + 1], d)
                /\ replay_id' = stop + 1
                /\ UNCHANGED state
           ELSE /\ state' = "FORWARD"
                /\ replay_id' = stop - 1
                /\ UNCHANGED expected_data
  BY DEF HihExpected, d
<1>9. /\ \A i, j \in DOMAIN toHih' : i < j => toHih'[i].id < toHih'[j].id
      /\ \A j \in DOMAIN toHih' : \E i \in 1 .. stop : IsExt(i) /\ BUFFER[i].id = toHih'[j].id
      /\ \A i \in 1 .. stop : IsExt(i) => \E j \in DOMAIN toHih' : toHih'[j].id = BUFFER[i].id
      /\ \A j \in DOMAIN toHih' : toHih'[j].id \in 1 .. extPkts
  <2>1. \A i \in 1 .. replay_id : i \in DOMAIN BUFFER /\ i <= replay_id
    BY <1>6
  <2>2. GivenUpTo(toHih, replay_id)
    BY <1>1, <2>1 DEF IInv, InvGiven, GivenUpTo
  <2> DEFINE h == toHih'
  <2>3. h = toHih \o Run(replay_id, stop, d)
    BY <1>8
  <2> HIDE DEF h
  <2>4. /\ \A i, j \in DOMAIN h : i < j => h[i].id < h[j].id
        /\ GivenUpTo(h, stop)
        /\ \A j \in DOMAIN h : h[j].id \in 1 .. extPkts
    BY <1>4, <1>5, <1>6, <1>8, <2>2, <2>3, RunExtends
  <2> QED BY <2>4 DEF h, GivenUpTo
<1>10. stop < Len(BUFFER) => stop + 1 < Len(BUFFER) /\ BUFFER[stop + 1].origin # "EXT"
  BY <1>6, <1>7, <1>8 DEF IsRun, IsExt
<1>11. InvIds'
  BY <1>1, <1>4, <1>9 DEF InvIds, IsExt
<1>12. HihInOrder'
  BY <1>9 DEF HihInOrder
<1>13. InvStates'
  BY <1>1, <1>7, <1>8, <1>10 DEF InvStates, Redirected, IsExt
<1>14. InvGiven'
  <2>1. CASE stop < Len(BUFFER)
    <3>1. state' = "REPLAY" /\ replay_id' = stop + 1
      BY <1>1, <1>8, <2>1
    <3>2. \A j \in DOMAIN toHih' : \E i \in 1 .. replay_id' : IsExt(i) /\ BUFFER[i].id = toHih'[j].id
      <4> TAKE j \in DOMAIN toHih'
      <4>1. PICK i \in 1 .. stop : IsExt(i) /\ BUFFER[i].id = toHih'[j].id
        BY <1>9
      <4>2. i \in 1 .. replay_id'
        BY <1>6, <3>1
      <4> QED BY <4>1, <4>2
    <3>3. ASSUME NEW i \in DOMAIN BUFFER, IsExt(i), i <= replay_id'
          PROVE  \E j \in DOMAIN toHih' : toHih'[j].id = BUFFER[i].id
      <4>1. i # stop + 1
        BY <1>10, <2>1, <3>3 DEF IsExt
      <4>2. i \in 1 .. stop
        BY <1>6, <3>1, <3>3, <4>1
      <4> QED BY <1>9, <3>3, <4>2
    <3> QED BY <1>1, <3>1, <3>2, <3>3 DEF InvGiven, IsExt
  <2>2. CASE ~(stop < Len(BUFFER))
    <3>1. state' = "FORWARD" /\ \A i \in DOMAIN BUFFER : i \in 1 .. stop
      BY <1>6, <1>8, <2>2
    <3> QED BY <1>1, <1>9, <3>1 DEF InvGiven, IsExt
  <2> QED BY <2>1, <2>2
<1>15. InvNumbers'
  <2>1. LihSpoke' <=> LihSpoke
    BY <1>1 DEF LihSpoke
  <2> QED BY <1>1, <1>2, <1>3, <2>1 DEF IInv, InvNumbers, IsExt, Redirected, Offset
<1>16. AckTranslated'
  <2> SUFFICES ASSUME Tcp, NEW i \in DOMAIN toHih', toHih'[i].ackpos # 0
               PROVE  toHih'[i].ack = SeqAdd(HihIsn, toHih'[i].ackpos)
    BY DEF AckTranslated
  <2> DEFINE R == Run(replay_id, stop, d)
             n == Len(toHih)
             m == stop - replay_id
  <2>1. /\ R \in Seq(Frames) /\ Len(R) = m /\ m \in Nat
        /\ \A k \in 1 .. m :
             /\ replay_id + k \in DOMAIN BUFFER /\ IsExt(replay_id + k)
             /\ R[k].ackpos = BUFFER[replay_id + k].ackpos
             /\ Tcp /\ BUFFER[replay_id + k].ackpos # 0
                  => R[k].ack = SeqSub(BUFFER[replay_id + k].ack, d)
    BY <1>4, <1>5, <1>6, <1>8, RunIds
  <2>a. toHih \in Seq(Frames)
    BY <1>4 DEF TypeOK, Frames
  <2>2. toHih \in Seq(Frames) /\ n \in Nat /\ DOMAIN toHih = 1 .. n /\ toHih' = toHih \o R
    BY <1>8, <2>a
  <2> HIDE DEF R
  <2>3. /\ DOMAIN toHih' = 1 .. n + m
        /\ \A j \in 1 .. n : toHih'[j] = toHih[j]
        /\ \A j \in n + 1 .. n + m : toHih'[j] = R[j - n]
    BY <2>1, <2>2
  <2> HIDE DEF n, m
  <2>4. CASE i \in 1 .. n
    BY <2>2, <2>3, <2>4 DEF IInv, AckTranslated
  <2>5. CASE i \in n + 1 .. n + m
    <3> DEFINE k == i - n
               l == replay_id + k
    <3>1. k \in 1 .. m /\ toHih'[i] = R[k]
      BY <2>1, <2>2, <2>3, <2>5
    <3> HIDE DEF k
    <3>2. /\ l \in DOMAIN BUFFER /\ IsExt(l) /\ R[k].ackpos = BUFFER[l].ackpos
          /\ R[k].ack = SeqSub(BUFFER[l].ack, d)
      BY <2>1, <3>1
    <3> HIDE DEF l
    <3>3. BUFFER[l].ack = SeqAdd(LihIsn, BUFFER[l].ackpos)
      BY <3>2 DEF IInv, InvNumbers
    <3>4. BUFFER[l] \in Packets
      BY <1>6, <3>2
    <3>5. BUFFER[l].ackpos \in Int
      BY <3>4 DEF Packets
    <3>6. R[k].ack = SeqAdd(HihIsn, BUFFER[l].ackpos)
      BY <1>2, <1>3, <3>2, <3>3, <3>5, AckShift DEF Offset
    <3> QED BY <3>1, <3>2, <3>6
  <2>6. i \in 1 .. n \/ i \in n + 1 .. n + m
    BY <2>1, <2>2, <2>3
  <2> QED BY <2>4, <2>5, <2>6
<1>17. NoCrash' /\ SeqContinuous'
  BY <1>1 DEF IInv, NoCrash, SeqContinuous
<1> QED BY <1>11, <1>12, <1>13, <1>14, <1>15, <1>16, <1>17 DEF IInv

(* The HIH's segments after the handover. *)
LEMMA InvHihForward ==
  ASSUME IInv, TypeOK', NEW p \in HihPackets, PotMaySend(p, hihSent, Received(toHih)),
         HihForward(p)
  PROVE  IInv'
<1>1. /\ state = "FORWARD" /\ HihSends(p) /\ toExt' = ForwardHih2Ext(p)
      /\ UNCHANGED <<state, BUFFER, replay_id, expected_data, delta, lih_syn_seq, crashed,
                     extPkts, extSent, lihPkts, lihSent, toLih, toHih, rst>>
  BY DEF HihForward, conn
<1>2. hihSent' > 0
  BY <1>1, OffsetKnown
<1>3. InvIds'
  BY <1>1 DEF IInv, InvIds, IsExt
<1>4. InvStates'
  BY <1>1 DEF IInv, InvStates, Redirected, IsExt
<1>5. HihInOrder' /\ InvGiven' /\ AckTranslated' /\ NoCrash'
  BY <1>1 DEF IInv, HihInOrder, InvGiven, AckTranslated, IsExt, NoCrash
<1>6. Tcp => LihSpoke /\ delta = SeqSub(LihIsn, HihIsn)
  BY <1>1 DEF IInv, InvNumbers, Redirected, Offset
<1>7. InvNumbers'
  BY <1>1, <1>2, <1>6 DEF IInv, InvNumbers, Redirected, IsExt, LihSpoke, Offset
<1>8. SeqContinuous'
  <2>1. p.pos \in Int /\ p.seq = SeqAdd(HihIsn, p.pos)
    BY HihPacketType
  <2>2. Tcp => SeqAdd(p.seq, delta) = SeqAdd(LihIsn, p.pos)
    BY <1>6, <2>1, SeqShift
  <2> QED BY <1>1, <2>2 DEF IInv, SeqContinuous, ForwardHih2Ext
<1> QED BY <1>3, <1>4, <1>5, <1>7, <1>8 DEF IInv

(* Every step keeps the inductive invariant. *)
LEMMA InvNext ==
  ASSUME UnlimitedBuffer, PickerIsSound
  PROVE  IInv /\ [Next]_vars => IInv'
<1> SUFFICES ASSUME IInv, [Next]_vars PROVE IInv'
  OBVIOUS
<1>0. TypeOK'
  BY TypeNext DEF IInv
<1>1. CASE UNCHANGED vars
  <2>1. UNCHANGED <<state, BUFFER, replay_id, expected_data, delta, lih_syn_seq, crashed, hihSent,
                    toHih, toExt, toLih, lihSent, extPkts>>
    BY <1>1 DEF vars, conn, hosts
  <2>2. InvIds' /\ InvStates' /\ InvGiven'
    BY <2>1 DEF IInv, InvIds, InvStates, InvGiven, IsExt, Redirected, LihSpoke
  <2>3. InvNumbers' /\ HihInOrder' /\ AckTranslated' /\ SeqContinuous' /\ NoCrash'
    BY <2>1 DEF IInv, InvNumbers, HihInOrder, AckTranslated, SeqContinuous, NoCrash,
                IsExt, Redirected, LihSpoke, Offset
  <2> QED BY <1>0, <2>2, <2>3 DEF IInv
<1>2. ASSUME NEW p \in ExtPackets, ExtStep(p) PROVE IInv'
  BY <1>0, <1>2, InvExtInit, InvExtDecision, InvExtRedirect, InvExtForward, InvExtAside DEF ExtStep
<1>3. ASSUME NEW p \in LihPackets, LihStep(p) PROVE IInv'
  BY <1>0, <1>3, InvLihRecord, InvLihAside DEF LihStep
<1>4. ASSUME NEW p \in HihPackets, HihStep(p) PROVE IInv'
  <2>1. CASE HihOverrun(p)
    <3>1. replay_id < Len(BUFFER) /\ replay_id >= Len(BUFFER)
      BY <2>1 DEF HihOverrun, IInv, InvStates
    <3>2. replay_id \in Int /\ Len(BUFFER) \in Int
      BY DEF IInv, TypeOK
    <3> QED BY <3>1, <3>2
  <2> QED BY <1>0, <1>4, <2>1, InvHihUnexpected, InvHihExpected, InvHihForward DEF HihStep
<1> QED BY <1>1, <1>2, <1>3, <1>4 DEF Next

(* The inductive invariant holds throughout. *)
LEMMA Invariance ==
  ASSUME UnlimitedBuffer, PickerIsSound
  PROVE  Spec => []IInv
<1>1. IInv /\ [Next]_vars => IInv'
  BY InvNext
<1> QED BY <1>1, InitInv, PTL DEF Spec

-----------------------------------------------------------------------------
(* With an unlimited buffer and a back_picker that names only backends of  *)
(* the target, replay() always finds a packet at replay_id when the HIH    *)
(* says what is expected, and no verdict names a missing backend: neither  *)
(* NULL dereference happens, in any interleaving of the hosts' packets.    *)
THEOREM NeverCrashes ==
  ASSUME UnlimitedBuffer, PickerIsSound
  PROVE  Spec => []NoCrash
<1>1. IInv => NoCrash
  BY DEF IInv
<1> QED BY <1>1, Invariance, PTL

(* forward_ext2hih() sends EXT's packets to the HIH in the order EXT sent  *)
(* them and none twice, over setup_redirection(), all turns of replay()    *)
(* and the direct forwarding in FORWARD.                                   *)
THEOREM ReplayInOrder ==
  ASSUME UnlimitedBuffer, PickerIsSound
  PROVE  Spec => []HihInOrder
<1>1. IInv => HihInOrder
  BY DEF IInv
<1> QED BY <1>1, Invariance, PTL

(* While replay() waits, the HIH has exactly the EXT packets recorded      *)
(* before the awaited one; when the connection is handed over, all of them. *)
THEOREM ReplayIsExact ==
  ASSUME UnlimitedBuffer, PickerIsSound
  PROVE  Spec => []ReplayExact
<1>1. IInv => ReplayExact
  <2> SUFFICES ASSUME IInv PROVE ReplayExact
    OBVIOUS
  <2>1. Len(BUFFER) \in Nat /\ DOMAIN BUFFER = 1 .. Len(BUFFER) /\ replay_id \in 0 .. Len(BUFFER)
    BY DEF IInv, TypeOK
  <2>2. CASE state = "REPLAY"
    <3>1. \A i \in 1 .. replay_id : i \in DOMAIN BUFFER /\ i <= replay_id
      BY <2>1
    <3>2. \A j \in DOMAIN toHih : \E i \in 1 .. replay_id : IsExt(i) /\ BUFFER[i].id = toHih[j].id
      BY <2>2 DEF IInv, InvGiven
    <3>3. \A i \in 1 .. replay_id : IsExt(i) => \E j \in DOMAIN toHih : toHih[j].id = BUFFER[i].id
      BY <2>2, <3>1 DEF IInv, InvGiven
    <3> QED BY <2>2, <3>2, <3>3 DEF ReplayExact, IsExt
  <2>3. CASE state = "FORWARD"
    <3>1. \A i \in 1 .. Len(BUFFER) : IsExt(i) => \E j \in DOMAIN toHih : toHih[j].id = BUFFER[i].id
      BY <2>1, <2>3 DEF IInv, InvGiven
    <3> QED BY <2>3, <3>1 DEF ReplayExact, IsExt
  <2>4. CASE state \notin {"REPLAY", "FORWARD"}
    BY <2>4 DEF ReplayExact
  <2> QED BY <2>2, <2>3, <2>4
<1> QED BY <1>1, Invariance, PTL

(* For every modulus and every pair of initial sequence numbers, an        *)
(* acknowledgment of the LIH's numbers that forward_ext2hih() shifts by    *)
(* hih.delta is the right acknowledgment in the HIH's numbers.             *)
THEOREM AcksAreTranslated ==
  ASSUME UnlimitedBuffer, PickerIsSound
  PROVE  Spec => []AckTranslated
<1>1. IInv => AckTranslated
  BY DEF IInv
<1> QED BY <1>1, Invariance, PTL

(* For every modulus and every pair of initial sequence numbers, EXT sees  *)
(* one numbering before and after forward_hih2ext() takes over.            *)
THEOREM SequenceContinuous ==
  ASSUME UnlimitedBuffer, PickerIsSound
  PROVE  Spec => []SeqContinuous
<1>1. IInv => SeqContinuous
  BY DEF IInv
<1> QED BY <1>1, Invariance, PTL

(* The HIH is heard only in FORWARD, and FORWARD is never left. *)
HeardInForward == peer = "HIH" => state = "FORWARD"

(* Once EXT has heard the HIH no packet of the LIH is relayed to it: the   *)
(* LIH's packets are relayed in INIT, DECISION and PROXY only, and no case *)
(* of de_thread() leaves FORWARD.  This needs no assumption at all.        *)
THEOREM PeerNeverReturns == Spec => OnePeer
<1>1. Init => HeardInForward
  BY DEF Init, HeardInForward
<1>2. HeardInForward /\ [Next]_vars => HeardInForward' /\ (peer = "HIH" => peer' = "HIH")
  <2> SUFFICES ASSUME HeardInForward, [Next]_vars
               PROVE  HeardInForward' /\ (peer = "HIH" => peer' = "HIH")
    OBVIOUS
  <2>1. CASE UNCHANGED vars
    BY <2>1 DEF vars, conn, hosts, HeardInForward
  <2>2. ASSUME NEW p \in ExtPackets, ExtStep(p)
        PROVE  peer' = peer /\ (state = "FORWARD" => state' = "FORWARD")
    BY <2>2 DEF ExtStep, ExtInit, ExtDecision, ExtRedirect, ExtForward, ExtProxy, ExtDiscard, conn
  <2>3. ASSUME NEW p \in LihPackets, LihStep(p)
        PROVE  state' = state /\ (peer' = peer \/ (peer' = "LIH" /\ state # "FORWARD"))
    BY <2>3 DEF LihStep, LihRecord, LihProxy, LihDiscard, conn
  <2>4. ASSUME NEW p \in HihPackets, HihStep(p)
        PROVE  /\ state = "FORWARD" => state' = "FORWARD"
               /\ peer' = peer \/ (peer' = "HIH" /\ state' = "FORWARD")
    BY <2>4 DEF HihStep, HihUnexpected, HihExpected, HihOverrun, HihForward, conn
  <2> QED BY <2>1, <2>2, <2>3, <2>4 DEF Next, HeardInForward
<1> QED BY <1>1, <1>2, PTL DEF Spec, OnePeer

=============================================================================
