--------------------------- MODULE HandoverProofs ---------------------------
(***************************************************************************)
(* Module Redirection implements module Handover, for all constants: every *)
(* step is a step of the handover or leaves its variables alone.           *)
(***************************************************************************)
EXTENDS RedirectionHandover, RedirectionProofs

Given == H!Ids(GivenHih)

(* A packet appended to the buffer is recorded if EXT sent it. *)
LEMMA RecordedAppend ==
  ASSUME TypeOK, NEW p \in Packets, BUFFER' = Append(BUFFER, p)
  PROVE  Recorded' = IF p.origin = "EXT" THEN Recorded \cup {p.id} ELSE Recorded
<1>1. BUFFER \in Seq(Packets)
  BY DEF TypeOK
<1>2. /\ DOMAIN BUFFER = 1 .. Len(BUFFER) /\ Len(BUFFER) \in Nat
      /\ DOMAIN BUFFER' = 1 .. Len(BUFFER) + 1
      /\ \A i \in 1 .. Len(BUFFER) : BUFFER'[i] = BUFFER[i]
      /\ BUFFER'[Len(BUFFER) + 1] = p
  BY <1>1, AppendFacts
<1>3. \A i : i \in DOMAIN BUFFER' <=> i \in DOMAIN BUFFER \/ i = Len(BUFFER) + 1
  BY <1>2
<1>4. ASSUME NEW x PROVE x \in Recorded' <=> x \in Recorded \/ (p.origin = "EXT" /\ x = p.id)
  BY <1>2, <1>3 DEF Recorded
<1> QED BY <1>4

(* What store_pkt() does to the set of recorded packets. *)
LEMMA RecordedStored ==
  ASSUME TypeOK, NEW p \in Packets, BUFFER' = Stored(p)
  PROVE  Recorded' = Recorded \/ (p.origin = "EXT" /\ Recorded' = Recorded \cup {p.id})
<1>1. CASE BUFFER' = BUFFER
  BY <1>1 DEF Recorded
<1>2. CASE BUFFER' = Append(BUFFER, p)
  BY <1>2, RecordedAppend
<1> QED BY <1>1, <1>2 DEF Stored

(* One more frame adds its packet to those a set of frames stands for. *)
LEMMA IdsOfOneMore ==
  ASSUME NEW S, NEW f
  PROVE  {e.id : e \in S \cup {f}} = {e.id : e \in S} \cup {f.id}
OBVIOUS

LEMMA HeardOfOneMore ==
  ASSUME NEW S, NEW f
  PROVE  {<<e.from, e.pos>> : e \in S \cup {f}}
           = {<<e.from, e.pos>> : e \in S} \cup {<<f.from, f.pos>>}
OBVIOUS

(* proxy_ext2int() gives the LIH one more packet. *)
LEMMA LihGets ==
  ASSUME NEW p, toLih' = ProxyExt2Int(p)
  PROVE  GivenLih' = GivenLih \cup {p.id}
<1> DEFINE f == [id |-> p.id, pos |-> p.pos, len |-> p.len, ackpos |-> p.ackpos]
<1>1. toLih' = toLih \cup {f} /\ f.id = p.id
  BY DEF ProxyExt2Int
<1> HIDE DEF f
<1> QED BY <1>1, IdsOfOneMore DEF GivenLih

(* The elements of a concatenation. *)
LEMMA ConcatIs ==
  ASSUME NEW S, NEW s \in Seq(S), NEW t \in Seq(S)
  PROVE  /\ Len(s \o t) = Len(s) + Len(t)
         /\ \A i \in 1 .. Len(s) : (s \o t)[i] = s[i]
         /\ \A i \in 1 .. Len(s) + Len(t) :
              \/ i \in 1 .. Len(s)
              \/ i - Len(s) \in 1 .. Len(t) /\ (s \o t)[i] = t[i - Len(s)]
<1>1. Len(s) \in Nat /\ Len(t) \in Nat /\ Len(s \o t) = Len(s) + Len(t)
  BY SMT
<1>2. \A i \in 1 .. Len(s) : (s \o t)[i] = s[i]
  BY <1>1
<1>3. ASSUME NEW i \in 1 .. Len(s) + Len(t), i \notin 1 .. Len(s)
      PROVE  i - Len(s) \in 1 .. Len(t) /\ (s \o t)[i] = t[i - Len(s)]
  BY <1>1, <1>3
<1> QED BY <1>1, <1>2, <1>3

(* What the HIH was given, as a set. *)
LEMMA GivenIs ==
  ASSUME TypeOK
  PROVE  /\ DOMAIN toHih = 1 .. Len(toHih) /\ DOMAIN GivenHih = 1 .. Len(toHih)
         /\ \A x : x \in Given <=> \E j \in DOMAIN toHih : toHih[j].id = x
<1>1. toHih \in Seq(Frames)
  BY DEF TypeOK, Frames
<1>2. DOMAIN toHih = 1 .. Len(toHih)
  BY <1>1
<1> QED BY <1>2 DEF Given, GivenHih, H!Ids

(* Recorded packets of EXT were counted. *)
LEMMA RecordedSeen == IInv => \A x \in Recorded : x \in 1 .. extPkts
BY DEF IInv, InvIds, Recorded, IsExt

(* The HIH was given packets in order. *)
LEMMA GivenInOrder == IInv => H!InOrder(GivenHih)
<1> SUFFICES ASSUME IInv PROVE H!InOrder(GivenHih)
  OBVIOUS
<1>1. TypeOK /\ HihInOrder
  BY DEF IInv
<1> QED BY <1>1, GivenIs DEF H!InOrder, GivenHih, HihInOrder

(* During the replay it has a beginning of the recorded packets, and not   *)
(* all of them.                                                            *)
LEMMA GivenInitial ==
  IInv => (state = "REPLAY" => H!Initial(Given, Recorded) /\ Given # Recorded)
<1> SUFFICES ASSUME IInv, state = "REPLAY"
             PROVE  H!Initial(Given, Recorded) /\ Given # Recorded
  OBVIOUS
<1>1. TypeOK /\ InvIds
  BY DEF IInv
<1>2. /\ Len(BUFFER) \in Nat /\ DOMAIN BUFFER = 1 .. Len(BUFFER)
      /\ replay_id \in 0 .. Len(BUFFER) /\ replay_id < Len(BUFFER) /\ IsExt(Len(BUFFER))
  BY DEF IInv, TypeOK, InvStates
<1>3. \A x \in Given : \E i \in 1 .. replay_id : IsExt(i) /\ BUFFER[i].id = x
  BY <1>1, GivenIs DEF IInv, InvGiven
<1>4. \A i \in 1 .. replay_id : IsExt(i) => BUFFER[i].id \in Given
  <2>1. \A i \in 1 .. replay_id : i \in DOMAIN BUFFER /\ i <= replay_id
    BY <1>2
  <2> QED BY <2>1, <1>1, GivenIs DEF IInv, InvGiven
<1>5. \A i, j \in DOMAIN BUFFER : IsExt(i) /\ IsExt(j) /\ i < j => BUFFER[i].id < BUFFER[j].id
  BY <1>1 DEF InvIds
<1>6. \A i \in DOMAIN BUFFER : IsExt(i) => BUFFER[i].id \in Int
  BY <1>1 DEF InvIds
<1>7. \A i, j \in DOMAIN BUFFER :
        IsExt(i) /\ IsExt(j) /\ BUFFER[j].id <= BUFFER[i].id => j <= i
  <2> SUFFICES ASSUME NEW i \in DOMAIN BUFFER, NEW j \in DOMAIN BUFFER, IsExt(i), IsExt(j),
                      BUFFER[j].id <= BUFFER[i].id, ~(j <= i)
               PROVE  FALSE
    OBVIOUS
  <2>1. i \in Int /\ j \in Int
    BY <1>2
  <2>2. i < j
    BY <2>1
  <2>3. BUFFER[i].id < BUFFER[j].id
    BY <2>2, <1>5
  <2> QED BY <2>3, <1>6
<1>8. ASSUME NEW x \in Given PROVE x \in Recorded
  BY <1>2, <1>3 DEF Recorded, IsExt
<1>9. ASSUME NEW x \in Given, NEW y \in Recorded, y < x PROVE y \in Given
  <2>1. PICK i \in 1 .. replay_id : IsExt(i) /\ BUFFER[i].id = x
    BY <1>3
  <2>2. PICK j \in DOMAIN BUFFER : IsExt(j) /\ BUFFER[j].id = y
    BY DEF Recorded, IsExt
  <2>3. i \in DOMAIN BUFFER
    BY <1>2
  <2>4. j <= i
    <3>1. BUFFER[j].id <= BUFFER[i].id
      BY <2>1, <2>2, <2>3, <1>6, <1>9
    <3> QED BY <3>1, <2>1, <2>2, <2>3, <1>7
  <2>5. j \in 1 .. replay_id
    BY <2>4, <2>1, <2>2, <1>2
  <2> QED BY <2>2, <2>5, <1>4
<1>10. BUFFER[Len(BUFFER)].id \in Recorded /\ BUFFER[Len(BUFFER)].id \notin Given
  <2>1. Len(BUFFER) \in DOMAIN BUFFER
    BY <1>2
  <2>2. BUFFER[Len(BUFFER)].id \in Recorded
    BY <2>1, <1>2 DEF Recorded, IsExt
  <2>3. ASSUME BUFFER[Len(BUFFER)].id \in Given PROVE FALSE
    <3>1. PICK i \in 1 .. replay_id : IsExt(i) /\ BUFFER[i].id = BUFFER[Len(BUFFER)].id
      BY <2>3, <1>3
    <3>2. i \in DOMAIN BUFFER /\ i < Len(BUFFER)
      BY <1>2
    <3> QED BY <3>1, <3>2, <2>1, <1>2, <1>5, <1>6
  <2> QED BY <2>2, <2>3
<1> QED BY <1>8, <1>9, <1>10 DEF H!Initial

-----------------------------------------------------------------------------
(* One lemma per origin of a packet.                                       *)

(* A packet of EXT. *)
LEMMA ExtRefines ==
  ASSUME UnlimitedBuffer, PickerIsSound, IInv, IInv', NEW p \in ExtPackets, ExtStep(p)
  PROVE  H!Next \/ UNCHANGED H!vars
<1>1. p \in Packets /\ p.origin = "EXT" /\ p.id = extPkts + 1
  BY ExtPacketType DEF IInv
<1>2. TypeOK
  BY DEF IInv
<1>3. ASSUME NEW r \in Results, ExtInit(p, r) PROVE H!Serve
  <2>1. /\ state = "INIT" /\ state' \in {"PROXY", "DECISION", "DROP"}
        /\ extPkts' = extPkts + 1 /\ BUFFER' = Stored(p)
        /\ toLih' = toLih \/ toLih' = ProxyExt2Int(p)
        /\ toHih' = toHih /\ toExt' = toExt
    BY <1>3 DEF ExtInit, ExtSends, FrontDecision, Results
  <2>2. GivenLih' = GivenLih \/ GivenLih' = GivenLih \cup {p.id}
    BY <2>1, LihGets DEF GivenLih
  <2>3. Recorded' = Recorded \/ Recorded' = Recorded \cup {p.id}
    BY <1>1, <1>2, <2>1, RecordedStored
  <2> QED BY <1>1, <2>1, <2>2, <2>3 DEF H!Serve, H!Arrive, Phase, GivenHih, Heard
<1>4. ASSUME NEW v \in BackDecisions, NEW pinned \in Pinned, ExtDecision(p, v, pinned)
      PROVE  H!Serve
  <2>1. /\ state = "DECISION" /\ state' \in {"PROXY", "DECISION"}
        /\ extPkts' = extPkts + 1
        /\ BUFFER' = BUFFER \/ BUFFER' = Stored(p)
        /\ toLih' = toLih \/ toLih' = ProxyExt2Int(p)
        /\ toHih' = toHih /\ toExt' = toExt
    BY <1>4 DEF ExtDecision, ExtSends
  <2>2. GivenLih' = GivenLih \/ GivenLih' = GivenLih \cup {p.id}
    BY <2>1, LihGets DEF GivenLih
  <2>3. Recorded' = Recorded \/ Recorded' = Recorded \cup {p.id}
    <3>1. CASE BUFFER' = BUFFER
      BY <3>1 DEF Recorded
    <3>2. CASE BUFFER' = Stored(p)
      BY <3>2, <1>1, <1>2, RecordedStored
    <3> QED BY <2>1, <3>1, <3>2
  <2>4. Phase = "front" /\ Phase' \in {"front", "kept"}
    BY <2>1 DEF Phase
  <2>5. UNCHANGED <<GivenHih, Heard>>
    BY <2>1 DEF GivenHih, Heard
  <2> QED BY <1>1, <2>1, <2>2, <2>3, <2>4, <2>5 DEF H!Serve, H!Arrive
<1>5. ASSUME NEW v \in BackDecisions, NEW pinned \in Pinned, ExtRedirect(p, v, pinned)
      PROVE  H!Begin
  <2>1. /\ state = "DECISION" /\ state' = "REPLAY"
        /\ extPkts' = extPkts + 1 /\ BUFFER' = Stored(p)
        /\ toLih' = toLih /\ toExt' = toExt
    BY <1>5 DEF ExtRedirect, ExtSends
  <2>2. Recorded' = Recorded \cup {extPkts'}
    <3>1. Backends
      BY <2>1 DEF IInv, InvStates
    <3>2. BUFFER' = Append(BUFFER, p)
      BY <2>1, <3>1 DEF Stored, UnlimitedBuffer
    <3> QED BY <1>1, <1>2, <2>1, <3>2, RecordedAppend
  <2>3. H!InOrder(GivenHih)'
    BY GivenInOrder, PTL
  <2>4. H!Initial(Given, Recorded)' /\ (Given # Recorded)'
    <3>1. (state = "REPLAY" => H!Initial(Given, Recorded) /\ Given # Recorded)'
      BY GivenInitial, PTL
    <3> QED BY <2>1, <3>1
  <2>5. H!Initial(Given', Recorded)
    <3>1. \A x \in Recorded : x \in 1 .. extPkts
      BY RecordedSeen
    <3>2. extPkts \in Nat
      BY <1>2 DEF TypeOK
    <3>3. extPkts' \notin Given'
      <4> SUFFICES ASSUME extPkts' \in Given' PROVE FALSE
        OBVIOUS
      <4>1. \A y \in Recorded : y \in Given'
        BY <2>1, <2>2, <2>4, <3>1, <3>2 DEF H!Initial
      <4>2. Given' = Recorded'
        BY <4>1, <2>2, <2>4 DEF H!Initial
      <4> QED BY <4>2, <2>4
    <3> QED BY <2>2, <2>4, <3>3 DEF H!Initial
  <2> QED BY <2>1, <2>2, <2>3, <2>5 DEF H!Begin, H!Arrive, Phase, GivenLih, Heard, Given
<1>6. ASSUME ExtForward(p) PROVE H!Pass
  <2>1. /\ state = "FORWARD" /\ state' = state /\ BUFFER' = BUFFER /\ extPkts' = extPkts + 1
        /\ toHih' = Append(toHih, ForwardExt2Hih(p, delta))
        /\ toLih' = toLih /\ toExt' = toExt
    BY <1>6 DEF ExtForward, ExtSends, conn
  <2>2. toHih \in Seq(Frames)
    BY <1>2 DEF TypeOK, Frames
  <2>3. ForwardExt2Hih(p, delta).id = extPkts'
    BY <1>1, <2>1 DEF ForwardExt2Hih
  <2>4. GivenHih' = Append(GivenHih, extPkts')
    <3> DEFINE f == ForwardExt2Hih(p, delta)
    <3>1. f \in Frames
      BY <1>1, <1>2, ForwardType DEF TypeOK
    <3>2. toHih' = Append(toHih, f) /\ f.id = extPkts'
      BY <2>1, <2>3
    <3> HIDE DEF f
    <3>3. /\ Len(toHih) \in Nat /\ Len(toHih') = Len(toHih) + 1
          /\ \A i \in 1 .. Len(toHih) : toHih'[i] = toHih[i]
          /\ toHih'[Len(toHih) + 1] = f
      BY <2>2, <3>1, <3>2
    <3>4. Len(GivenHih) = Len(toHih)
      BY <3>3 DEF GivenHih
    <3>5. Append(GivenHih, extPkts') = [i \in 1 .. Len(toHih) + 1 |->
            IF i = Len(toHih) + 1 THEN extPkts' ELSE GivenHih[i]]
      BY <3>3, <3>4 DEF GivenHih
    <3>6. GivenHih' = [i \in 1 .. Len(toHih) + 1 |-> toHih'[i].id]
      BY <3>3 DEF GivenHih
    <3>7. \A i \in 1 .. Len(toHih) + 1 :
            toHih'[i].id = IF i = Len(toHih) + 1 THEN extPkts' ELSE GivenHih[i]
      BY <3>2, <3>3 DEF GivenHih
    <3> QED BY <3>5, <3>6, <3>7
  <2> QED BY <2>1, <2>4 DEF H!Pass, H!Arrive, Phase, GivenLih, Heard, Recorded
<1>7. ASSUME ExtProxy(p) PROVE H!Keep
  <2>1. /\ state = "PROXY" /\ state' = state /\ BUFFER' = BUFFER /\ extPkts' = extPkts + 1
        /\ toHih' = toHih /\ toLih' = ProxyExt2Int(p) /\ toExt' = toExt
    BY <1>7 DEF ExtProxy, ExtSends, conn
  <2>2. GivenLih' = GivenLih \cup {p.id}
    BY <2>1, LihGets
  <2> QED BY <1>1, <2>1, <2>2 DEF H!Keep, H!Arrive, Phase, GivenHih, Heard, Recorded
<1>8. ASSUME ExtDiscard(p) PROVE H!Lose
  <2>1. /\ state \in {"REPLAY", "DROP"} /\ state' = state /\ BUFFER' = BUFFER
        /\ extPkts' = extPkts + 1 /\ toHih' = toHih /\ toLih' = toLih /\ toExt' = toExt
    BY <1>8 DEF ExtDiscard, ExtSends, conn
  <2> QED BY <2>1 DEF H!Lose, H!Arrive, Phase, GivenLih, GivenHih, Heard, Recorded
<1> QED BY <1>3, <1>4, <1>5, <1>6, <1>7, <1>8 DEF ExtStep, H!Next

(* A packet of the LIH. *)
LEMMA LihRefines ==
  ASSUME IInv, NEW p \in LihPackets, LihStep(p)
  PROVE  H!Next \/ UNCHANGED H!vars
<1>1. p \in Packets /\ p.origin = "LIH"
  BY LihPacketType
<1>2. /\ extPkts' = extPkts /\ toHih' = toHih /\ toLih' = toLih /\ state' = state
  BY DEF LihStep, LihRecord, LihProxy, LihDiscard, conn
<1>3. Recorded' = Recorded
  <2>1. CASE BUFFER' = BUFFER
    BY <2>1 DEF Recorded
  <2>2. CASE BUFFER' = Stored(p)
    BY <2>2, <1>1, RecordedStored DEF IInv
  <2> QED BY <2>1, <2>2 DEF LihStep, LihRecord, LihProxy, LihDiscard, conn
<1>4. /\ Heard \subseteq Heard'
      /\ \A h \in Heard' \ Heard : h[1] = "LIH" /\ Phase \in {"front", "kept"}
  <2>1. \/ toExt' = toExt
        \/ toExt' = ProxyInt2Ext(p) /\ state \in {"INIT", "DECISION", "PROXY"}
    BY DEF LihStep, LihRecord, LihProxy, LihDiscard
  <2>2. CASE toExt' = toExt
    BY <2>2 DEF Heard
  <2>3. CASE toExt' = ProxyInt2Ext(p) /\ state \in {"INIT", "DECISION", "PROXY"}
    <3>1. Heard' = Heard \cup {<<"LIH", p.pos>>}
      <4> DEFINE f == [from |-> "LIH", pos |-> p.pos, len |-> p.len, seq |-> p.seq]
      <4>1. toExt' = toExt \cup {f} /\ f.from = "LIH" /\ f.pos = p.pos
        BY <2>3 DEF ProxyInt2Ext
      <4> HIDE DEF f
      <4> QED BY <4>1, HeardOfOneMore DEF Heard
    <3>2. Phase \in {"front", "kept"}
      BY <2>3 DEF Phase
    <3> QED BY <3>1, <3>2
  <2> QED BY <2>1, <2>2, <2>3
<1> QED BY <1>2, <1>3, <1>4 DEF H!Hear, H!Next, Phase, GivenHih, GivenLih

(* A packet of the HIH. *)
LEMMA HihRefines ==
  ASSUME IInv, IInv', NEW p \in HihPackets, HihStep(p)
  PROVE  H!Next \/ UNCHANGED H!vars
<1>1. TypeOK /\ InvIds
  BY DEF IInv
<1>2. CASE HihUnexpected(p) \/ HihOverrun(p)
  <2>1. UNCHANGED <<state, BUFFER, extPkts, toExt, toLih, toHih>>
    BY <1>2 DEF HihUnexpected, HihOverrun
  <2> QED BY <2>1 DEF H!vars, Phase, Recorded, GivenLih, GivenHih, Heard
<1>3. CASE HihForward(p)
  <2>1. /\ UNCHANGED <<state, BUFFER, extPkts, toLih, toHih>>
        /\ state = "FORWARD" /\ toExt' = ForwardHih2Ext(p)
    BY <1>3 DEF HihForward, conn
  <2>2. Heard' = Heard \cup {<<"HIH", p.pos>>}
    <3> DEFINE f == [from |-> "HIH", pos |-> p.pos, len |-> p.len,
                     seq |-> IF Tcp THEN SeqAdd(p.seq, delta) ELSE p.seq]
    <3>1. toExt' = toExt \cup {f} /\ f.from = "HIH" /\ f.pos = p.pos
      BY <2>1 DEF ForwardHih2Ext
    <3> HIDE DEF f
    <3> QED BY <3>1, HeardOfOneMore DEF Heard
  <2>3. Phase = "back" /\ UNCHANGED <<Phase, extPkts, Recorded, GivenLih, GivenHih>>
    BY <2>1 DEF Phase, Recorded, GivenLih, GivenHih
  <2> QED BY <2>2, <2>3 DEF H!Hear, H!Next
<1>4. CASE HihExpected(p)
  <2> DEFINE d == DeltaAfter(p)
  <2>1. state = "REPLAY" /\ UNCHANGED <<BUFFER, extPkts, toExt, toLih>>
    BY <1>4 DEF HihExpected
  <2>2. d \in 0 .. SeqMod - 1
    BY <1>1, DeltaType
  <2> HIDE DEF d
  <2>3. PICK stop \in replay_id .. Len(BUFFER) :
          /\ IsRun(replay_id, stop)
          /\ toHih' = toHih \o Run(replay_id, stop, d)
          /\ state' = IF stop < Len(BUFFER) THEN "REPLAY" ELSE "FORWARD"
    BY <1>4, <2>1 DEF HihExpected, d
  <2>4. replay_id \in 0 .. Len(BUFFER)
    BY <1>1 DEF TypeOK
  <2> DEFINE R == Run(replay_id, stop, d)
             n == Len(toHih)
             m == stop - replay_id
  <2>5. /\ R \in Seq(Frames) /\ Len(R) = m /\ m \in Nat
        /\ \A k \in 1 .. m : /\ replay_id + k \in DOMAIN BUFFER /\ IsExt(replay_id + k)
                             /\ R[k].id = BUFFER[replay_id + k].id
    BY <1>1, <2>2, <2>3, <2>4, RunIds
  <2> HIDE DEF R, m
  <2>6. /\ toHih \in Seq(Frames) /\ n \in Nat /\ toHih' = toHih \o R
    BY <1>1, <2>3 DEF TypeOK, Frames, R
  <2>7. /\ Len(toHih') = n + m
        /\ \A i \in 1 .. n : toHih'[i] = toHih[i]
        /\ \A i \in 1 .. n + m : i \in 1 .. n \/ (i - n \in 1 .. m /\ toHih'[i] = R[i - n])
    <3> HIDE DEF n
    <3>1. n = Len(toHih)
      BY DEF n
    <3>2. toHih \in Seq(Frames) /\ R \in Seq(Frames) /\ Len(R) = m /\ toHih' = toHih \o R
      BY <2>5, <2>6
    <3> QED BY <3>1, <3>2, ConcatIs
  <2>8. H!Extends(GivenHih, GivenHih')
    BY <2>5, <2>6, <2>7 DEF H!Extends, GivenHih
  <2>9. H!InOrder(GivenHih)'
    BY GivenInOrder, PTL
  <2>10. H!Initial(Given', Recorded) /\ (Given' = Recorded <=> state' = "FORWARD")
    <3>1. CASE state' = "REPLAY"
      <4>1. (state = "REPLAY" => H!Initial(Given, Recorded) /\ Given # Recorded)'
        BY GivenInitial, PTL
      <4>2. Recorded' = Recorded
        BY <2>1 DEF Recorded
      <4> QED BY <3>1, <4>1, <4>2
    <3>2. CASE state' = "FORWARD"
      <4>1. TypeOK' /\ InvGiven'
        BY DEF IInv
      <4>2. \A x : x \in Given' <=> \E j \in DOMAIN toHih' : toHih'[j].id = x
        <5>1. DOMAIN toHih' = 1 .. Len(toHih')
          BY <2>5, <2>6
        <5> QED BY <5>1 DEF Given, GivenHih, H!Ids
      <4>3. ASSUME NEW x \in Recorded PROVE x \in Given'
        BY <2>1, <3>2, <4>1, <4>2 DEF InvGiven, Recorded, IsExt
      <4>4. ASSUME NEW x \in Given' PROVE x \in Recorded
        <5>1. PICK j \in DOMAIN toHih' : toHih'[j].id = x
          BY <4>2
        <5>2. j \in 1 .. n + m
          BY <2>5, <2>6, <2>7, <5>1
        <5>3. CASE j \in 1 .. n
          <6>1. x \in Given
            BY <1>1, <2>7, <5>1, <5>3, GivenIs
          <6> QED BY <6>1, <2>1, GivenInitial DEF H!Initial
        <5>4. CASE j - n \in 1 .. m /\ toHih'[j] = R[j - n]
          BY <2>5, <5>1, <5>4 DEF Recorded, IsExt
        <5> QED BY <2>7, <5>2, <5>3, <5>4
      <4>5. Given' = Recorded
        BY <4>3, <4>4
      <4> QED BY <3>2, <4>5 DEF H!Initial
    <3> QED BY <2>3, <3>1, <3>2
  <2>11. /\ Phase = "replay" /\ Phase' = IF Given' = Recorded THEN "back" ELSE "replay"
         /\ UNCHANGED <<extPkts, Recorded, GivenLih, Heard>>
    BY <2>1, <2>3, <2>10 DEF Phase, Recorded, GivenLih, Heard
  <2>12. H!CatchUp
    BY <2>8, <2>9, <2>10, <2>11 DEF H!CatchUp, Given
  <2> QED BY <2>12 DEF H!Next
<1> QED BY <1>2, <1>3, <1>4 DEF HihStep

-----------------------------------------------------------------------------
(* With an unlimited buffer and a back_picker that names backends of the   *)
(* target, the connection keeps the promise of module Handover for all     *)
(* constants: initial states map to initial states, and every turn of      *)
(* de_thread() to a step of the handover or to none.                       *)
THEOREM Implements ==
  ASSUME UnlimitedBuffer, PickerIsSound
  PROVE  Spec => HandsOver
<1>1. Init => H!Init
  BY DEF Init, H!Init, Phase, Recorded, GivenLih, GivenHih, Heard
<1>2. IInv /\ IInv' /\ [Next]_vars => [H!Next]_(H!vars)
  <2> SUFFICES ASSUME IInv, IInv', [Next]_vars PROVE H!Next \/ UNCHANGED H!vars
    OBVIOUS
  <2>1. CASE UNCHANGED vars
    BY <2>1 DEF vars, conn, hosts, H!vars, Phase, Recorded, GivenLih, GivenHih, Heard
  <2> QED BY <2>1, ExtRefines, LihRefines, HihRefines DEF Next
<1> QED BY <1>1, <1>2, Invariance, PTL DEF Spec, HandsOver, H!Spec

=============================================================================
