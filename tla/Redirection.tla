----------------------------- MODULE Redirection -----------------------------
(***************************************************************************)
(* One connection that an external host (EXT) opened, from its first       *)
(* packet on the low-interaction honeypot (LIH) to its handover to a       *)
(* high-interaction honeypot (HIH): the states of conn_struct, the packet  *)
(* buffer, the decision engine's verdicts and the replay that brings the   *)
(* HIH to the point the LIH had reached.  Each action is one turn of       *)
(* de_thread(): it takes one captured packet and runs the whole case of    *)
(* its origin and of the connection's state, under conn->lock.             *)
(*                                                                         *)
(* Payloads are abstracted to positions in the two byte streams: a         *)
(* segment carries len units (0 or 1) from position pos, and the SYN is    *)
(* the unit at position 0.  The sequence numbers on the wire are kept,     *)
(* modulo SeqMod, because redirection translates them.                     *)
(***************************************************************************)
EXTENDS Integers, Sequences

CONSTANTS
  Tcp,             \* TRUE: the connection is TCP; FALSE: it is UDP
  FrontRule,       \* the target's frontend has a decision rule
  BackHandlers,    \* IDs of the target's backends (target->back_handlers)
  BackRules,       \* those of them that have a decision rule
  PickerIds,       \* what the back_picker may store in backend_use (0: nothing);
                   \* empty when the target has no back_picker
  ExclusiveHih,    \* the exclusive_hih setting
  ResetExt,        \* the reset_ext setting
  MaxPacketBuffer, \* the max_packet_buffer setting, or NoLimit
  SeqMod,          \* 2^32 in the program
  LihIsn, HihIsn,  \* initial sequence numbers the honeypots choose
  MaxExtPkts,      \* bound: packets EXT sends
  MaxLihPkts,      \* bound: packets the LIH sends
  MaxUnits         \* bound: units each honeypot sends

(* ULLONG_MAX, what init_variables() sets when no limit is configured. *)
NoLimit == -1

ASSUME ConfigAssumption ==
  /\ Tcp \in BOOLEAN /\ FrontRule \in BOOLEAN
  /\ ExclusiveHih \in BOOLEAN /\ ResetExt \in BOOLEAN
  /\ BackHandlers \subseteq Nat \ {0}
  /\ BackRules \subseteq BackHandlers
  /\ PickerIds \subseteq Nat
  /\ MaxPacketBuffer \in (Nat \ {0}) \cup {NoLimit}

ASSUME BoundsAssumption ==
  /\ SeqMod \in Nat \ {0}
  /\ LihIsn \in 0 .. SeqMod - 1
  /\ HihIsn \in 0 .. SeqMod - 1
  /\ MaxExtPkts \in Nat
  /\ MaxLihPkts \in Nat
  /\ MaxUnits \in Nat

States == {"INIT", "DECISION", "REPLAY", "FORWARD", "PROXY", "DROP"}
Results == {"ACCEPT", "REJECT", "DEFER"}

VARIABLES
  \* the connection (conn_struct)
  state,          \* conn->state
  BUFFER,         \* conn->BUFFER, the recorded packets
  replay_id,      \* conn->replay_id, an index from 0 into BUFFER
  expected_data,  \* conn->expected_data; set is FALSE while ip_proto is 0
  delta,          \* conn->hih.delta
  lih_syn_seq,    \* conn->hih.lih_syn_seq
  crashed,        \* the process dereferenced NULL
  \* the hosts around the gateway
  extPkts,        \* packets EXT has sent
  extSent,        \* units EXT has sent
  lihPkts,        \* packets the LIH has sent
  lihSent,        \* units the LIH has sent
  hihSent,        \* units the HIH has sent
  toExt,          \* segments injected towards EXT
  toLih,          \* segments injected towards the LIH
  toHih,          \* segments injected towards the HIH, in order
  peer,           \* the honeypot EXT heard last
  rst             \* hosts a reset was injected to

conn == <<state, BUFFER, replay_id, expected_data, delta, lih_syn_seq, crashed>>
hosts == <<extPkts, extSent, lihPkts, lihSent, hihSent, toExt, toLih, toHih, peer, rst>>
vars == <<conn, hosts>>

-----------------------------------------------------------------------------
(* Sequence-number arithmetic, uint32_t in the program.  The source writes *)
(* a - b as a + ~b + 1.                                                    *)

SeqAdd(a, b) == (a + b) % SeqMod
(* Slip: the result is not cut to 32 bits. *)
SeqSubWide(a, b) == a - b
SeqSub(a, b) == (a - b) % SeqMod

(* A packet as process_packet() hands it over.  A honeypot numbers its own *)
(* stream from its ISN and acknowledges EXT's; EXT numbers its stream from *)
(* 0 and acknowledges what it saw, in the LIH's numbers.  ackpos is 0 when *)
(* the ACK flag is clear.                                                  *)
ExtPkt(id, pos, len, ackpos) ==
  [origin |-> "EXT", id |-> id, pos |-> pos, len |-> len, ackpos |-> ackpos,
   seq |-> pos, ack |-> SeqAdd(LihIsn, ackpos)]

PotPkt(pot, isn, pos, len, ackpos) ==
  [origin |-> pot, id |-> 0, pos |-> pos, len |-> len, ackpos |-> ackpos,
   seq |-> SeqAdd(isn, pos), ack |-> ackpos]

Syn(p) == Tcp /\ p.pos = 0

(* The units of a stream among the segments f in S. *)
Units(S) == {f.pos : f \in {g \in S : g.len = 1}}
Received(f) == {f[i] : i \in DOMAIN f}
(* A host may acknowledge a units once it holds all of them (or fewer: the *)
(* segment may have been in flight for a while).                           *)
MayAck(a, S) == (0 .. a - 1) \subseteq Units(S)

(* What a TCP stack (or a UDP application) with these counters may send:   *)
(* the SYN first, then new data, a retransmission, or a bare ACK.          *)
MaySend(pos, len, sent) ==
  /\ pos \in 0 .. sent
  /\ len = 0 => Tcp /\ pos = sent /\ pos > 0

-----------------------------------------------------------------------------
(* The decision engine's verdicts.  A rule's own outcome is a free choice; *)
(* module Rules looks into it.  Each definition marked "Slip" is a wrong   *)
(* variant of the one after it; no specification uses it.                  *)

BackPicker == PickerIds # {}
Backends == BackHandlers # {} \/ BackPicker

Verdict(result, use, crash) == [result |-> result, use |-> use, crash |-> crash]

(* DE_process_packet() in INIT: a deferral of the frontend is a rejection. *)
FrontDecision(r) ==
  IF ~FrontRule THEN "NO_RULE" ELSE IF r = "DEFER" THEN "REJECT" ELSE r

(* DE_process_packet() in DECISION without back_picker: g_tree_foreach     *)
(* visits the backends from the highest ID down (intcmp), stops at the     *)
(* first that accepts, and otherwise keeps the result of the last backend  *)
(* that has a rule.  o[b] is the outcome of backend b's rule.              *)
EachBackend(o) ==
  LET accepting == {b \in BackRules : o[b] = "ACCEPT"}
      first == CHOOSE b \in accepting : \A c \in accepting : c <= b
      last  == CHOOSE b \in BackRules : \A c \in BackRules : b <= c
  IN IF accepting # {} THEN Verdict("ACCEPT", first, FALSE)
     ELSE Verdict(IF BackRules = {} THEN "NO_RULE" ELSE o[last], 0, FALSE)

(* Slip: an accepting picker that names no backend is not caught. *)
PickedBackendUnchecked(r, use, o) ==
  IF r # "ACCEPT" THEN Verdict(r, 0, FALSE)
  ELSE IF use \notin BackHandlers THEN Verdict(r, use, TRUE)
  ELSE Verdict(IF use \in BackRules THEN o[use] ELSE "ACCEPT", use, FALSE)

(* DE_process_packet() in DECISION with a back_picker: the picker's rule   *)
(* yields r and, when it accepts, the ID use; that backend's own rule, if  *)
(* any, has the last word.  An ID no backend has is dereferenced.          *)
PickedBackend(r, use, o) ==
  IF r # "ACCEPT" \/ use = 0 THEN Verdict(r, 0, FALSE)
  ELSE IF use \notin BackHandlers THEN Verdict(r, use, TRUE)
  ELSE Verdict(IF use \in BackRules THEN o[use] ELSE "ACCEPT", use, FALSE)

BackDecisions ==
  LET outcomes == [BackRules -> Results]
  IN IF BackPicker
     THEN {PickedBackend(r, use, o) : r \in Results, use \in PickerIds, o \in outcomes}
     ELSE {EachBackend(o) : o \in outcomes}

-----------------------------------------------------------------------------
(* The packet buffer.                                                      *)

(* Slip: the packet a backend decided upon is not recorded. *)
StoredUndecided(p) ==
  IF Backends /\ ~(state = "DECISION" /\ p.origin = "EXT")
  THEN Append(BUFFER, p) ELSE BUFFER

(* store_pkt(), called only when the target has backends. *)
Stored(p) ==
  IF /\ Backends
     /\ MaxPacketBuffer = NoLimit \/ Len(BUFFER) < MaxPacketBuffer
  THEN Append(BUFFER, p) ELSE BUFFER

(* Slip: the loop forwards one packet and stops. *)
IsRunOfOne(from, stop) ==
  stop = IF from < Len(BUFFER) /\ BUFFER[from + 1].origin = "EXT" THEN from + 1 ELSE from

(* The forwarding loops of setup_redirection() and replay(): from index    *)
(* from on, the packets before index stop are EXT's, and stop is the end   *)
(* of BUFFER or the place of a packet of the LIH.                          *)
IsRun(from, stop) ==
  /\ \A i \in from .. stop - 1 : BUFFER[i + 1].origin = "EXT"
  /\ stop < Len(BUFFER) => BUFFER[stop + 1].origin # "EXT"

(* Slip: the acknowledgment is left in the LIH's numbers. *)
ForwardExt2HihUnshifted(p, d) ==
  [id |-> p.id, pos |-> p.pos, len |-> p.len, ackpos |-> p.ackpos, ack |-> p.ack]

(* forward_ext2hih(): an acknowledgment of the LIH's numbers becomes one   *)
(* of the HIH's.                                                           *)
ForwardExt2Hih(p, d) ==
  [id |-> p.id, pos |-> p.pos, len |-> p.len, ackpos |-> p.ackpos,
   ack |-> IF Tcp /\ p.ackpos # 0 THEN SeqSub(p.ack, d) ELSE p.ack]

(* Slip: every turn starts again at the head of the buffer. *)
RunFromHead(from, stop, d) ==
  [i \in 1 .. stop |-> ForwardExt2Hih(BUFFER[i], d)]

Run(from, stop, d) ==
  [i \in 1 .. stop - from |-> ForwardExt2Hih(BUFFER[from + i], d)]

(* Slip: the LIH's own sequence number is expected. *)
DefineExpectedDataUnshifted(p, d) == [set |-> TRUE, seq |-> p.seq, ack |-> p.ack]

(* define_expected_data(): what the HIH must say at the point where the    *)
(* LIH said p.                                                             *)
DefineExpectedData(p, d) == [set |-> TRUE, seq |-> SeqSub(p.seq, d), ack |-> p.ack]

(* Slip: the numbers are compared whatever the protocol. *)
TestExpectedAlways(p) ==
  /\ expected_data.set
  /\ p.seq = expected_data.seq /\ p.ack = expected_data.ack

(* test_expected(): protocol, sequence number (unless SYN) and             *)
(* acknowledgment decide; timestamps and payload only leave a mark in      *)
(* replay_problem.                                                         *)
TestExpected(p) ==
  /\ expected_data.set
  /\ Tcp => (Syn(p) \/ p.seq = expected_data.seq) /\ p.ack = expected_data.ack

(* reset_lih(): if some packet of the LIH is recorded, the reset answers   *)
(* the LAST recorded packet, so it is addressed to that packet's sender.   *)
ResetLih ==
  IF Tcp /\ \E i \in DOMAIN BUFFER : BUFFER[i].origin = "LIH"
  THEN {BUFFER[Len(BUFFER)].origin} ELSE {}

-----------------------------------------------------------------------------
(* proxy_ext2int(), proxy_int2ext() and forward_hih2ext() as seen by the   *)
(* receiving host.                                                         *)

ProxyExt2Int(p) == toLih \cup {[id |-> p.id, pos |-> p.pos, len |-> p.len, ackpos |-> p.ackpos]}
ProxyInt2Ext(p) == toExt \cup {[from |-> "LIH", pos |-> p.pos, len |-> p.len, seq |-> p.seq]}
ForwardHih2Ext(p) ==
  toExt \cup {[from |-> "HIH", pos |-> p.pos, len |-> p.len,
               seq |-> IF Tcp THEN SeqAdd(p.seq, delta) ELSE p.seq]}

(* EXT sends p: the counters of the host, common to every case. *)
ExtSends(p) ==
  /\ ~crashed
  /\ extPkts' = extPkts + 1
  /\ extSent' = IF p.pos + p.len > extSent THEN p.pos + p.len ELSE extSent

(* de_thread(), origin EXT, state INIT. *)
ExtInit(p, r) ==
  LET d == FrontDecision(r) IN
  /\ state = "INIT"
  /\ ExtSends(p)
  /\ state' = CASE d = "NO_RULE" -> IF BackHandlers = {} THEN "PROXY" ELSE "DECISION"
                [] d = "ACCEPT" -> IF Backends THEN "DECISION" ELSE "PROXY"
                [] d = "REJECT" -> "DROP"
  /\ toLih' = IF d = "REJECT" THEN toLih ELSE ProxyExt2Int(p)
  /\ BUFFER' = Stored(p)
  /\ UNCHANGED <<replay_id, expected_data, delta, lih_syn_seq, crashed,
                 lihPkts, lihSent, hihSent, toExt, toHih, peer, rst>>

(* de_thread(), origin EXT, state DECISION, unless the connection is       *)
(* redirected: no rule or a deferral lets the packet through, a rejection  *)
(* keeps the connection on the LIH but not the packet, an acceptance that  *)
(* setup_redirection() refuses (no backend named, or an exclusive HIH that *)
(* serves another target address) leaves everything as it is.              *)
ExtDecision(p, v, pinned) ==
  LET lets == v.result \in {"NO_RULE", "DEFER"} IN
  /\ state = "DECISION"
  /\ v.result = "ACCEPT" => v.use = 0 \/ v.crash \/ pinned
  /\ ExtSends(p)
  /\ crashed' = v.crash
  /\ state' = IF v.result = "REJECT" THEN "PROXY" ELSE "DECISION"
  /\ toLih' = IF lets THEN ProxyExt2Int(p) ELSE toLih
  /\ BUFFER' = IF v.crash THEN BUFFER ELSE Stored(p)
  /\ UNCHANGED <<replay_id, expected_data, delta, lih_syn_seq,
                 lihPkts, lihSent, hihSent, toExt, toHih, peer, rst>>

(* de_thread(), origin EXT, state DECISION, redirected: setup_redirection() *)
(* resets the LIH and forwards the EXT packets at the head of the buffer;  *)
(* the packet that triggered it is recorded afterwards.                    *)
ExtRedirect(p, v, pinned) ==
  /\ state = "DECISION"
  /\ v.result = "ACCEPT" /\ v.use # 0 /\ ~v.crash /\ ~pinned
  /\ ExtSends(p)
  /\ state' = "REPLAY"
  /\ rst' = rst \cup ResetLih
  /\ \E stop \in replay_id .. Len(BUFFER) :
       /\ IsRun(replay_id, stop)
       /\ toHih' = toHih \o Run(replay_id, stop, delta)
       /\ IF stop < Len(BUFFER)
          THEN /\ expected_data' = DefineExpectedData(BUFFER[stop + 1], delta)
               /\ replay_id' = stop + 1
          ELSE /\ UNCHANGED expected_data
               /\ replay_id' = stop
  /\ BUFFER' = Stored(p)
  /\ UNCHANGED <<delta, lih_syn_seq, crashed, lihPkts, lihSent, hihSent, toExt, toLih, peer>>

(* de_thread(), origin EXT, state FORWARD. *)
ExtForward(p) ==
  /\ state = "FORWARD"
  /\ ExtSends(p)
  /\ toHih' = Append(toHih, ForwardExt2Hih(p, delta))
  /\ UNCHANGED <<conn, lihPkts, lihSent, hihSent, toExt, toLih, peer, rst>>

(* de_thread(), origin EXT, state PROXY. *)
ExtProxy(p) ==
  /\ state = "PROXY"
  /\ ExtSends(p)
  /\ toLih' = ProxyExt2Int(p)
  /\ UNCHANGED <<conn, lihPkts, lihSent, hihSent, toExt, toHih, peer, rst>>

(* de_thread(), origin EXT: the packet is freed in REPLAY (the default     *)
(* case) and in DROP, where EXT may be reset.                              *)
ExtDiscard(p) ==
  /\ state \in {"REPLAY", "DROP"}
  /\ ExtSends(p)
  /\ rst' = IF state = "DROP" /\ Tcp /\ ResetExt THEN rst \cup {"EXT"} ELSE rst
  /\ UNCHANGED <<conn, lihPkts, lihSent, hihSent, toExt, toLih, toHih, peer>>

-----------------------------------------------------------------------------
(* The LIH sends p. *)
LihSends(p) ==
  /\ ~crashed
  /\ lihPkts' = lihPkts + 1
  /\ lihSent' = IF p.pos + p.len > lihSent THEN p.pos + p.len ELSE lihSent

(* de_thread(), origin LIH, states INIT and DECISION. *)
LihRecord(p) ==
  /\ state \in {"INIT", "DECISION"}
  /\ LihSends(p)
  /\ lih_syn_seq' = IF Syn(p) THEN p.seq ELSE lih_syn_seq
  /\ toExt' = ProxyInt2Ext(p)
  /\ peer' = "LIH"
  /\ BUFFER' = Stored(p)
  /\ UNCHANGED <<state, replay_id, expected_data, delta, crashed,
                 extPkts, extSent, hihSent, toLih, toHih, rst>>

(* Slip: the LIH is still relayed after the handover. *)
LihProxyForward(p) ==
  /\ state \in {"PROXY", "FORWARD"}
  /\ LihSends(p)
  /\ toExt' = ProxyInt2Ext(p)
  /\ peer' = "LIH"
  /\ UNCHANGED <<conn, extPkts, extSent, hihSent, toLih, toHih, rst>>

(* Slip: the LIH is still relayed during the replay. *)
LihProxyReplay(p) ==
  /\ state \in {"PROXY", "REPLAY"}
  /\ LihSends(p)
  /\ toExt' = ProxyInt2Ext(p)
  /\ peer' = "LIH"
  /\ UNCHANGED <<conn, extPkts, extSent, hihSent, toLih, toHih, rst>>

(* de_thread(), origin LIH, state PROXY. *)
LihProxy(p) ==
  /\ state = "PROXY"
  /\ LihSends(p)
  /\ toExt' = ProxyInt2Ext(p)
  /\ peer' = "LIH"
  /\ UNCHANGED <<conn, extPkts, extSent, hihSent, toLih, toHih, rst>>

(* de_thread(), origin LIH: dropped in DROP, answered by a reset in REPLAY *)
(* and FORWARD (the default case).                                         *)
LihDiscard(p) ==
  /\ state \in {"DROP", "REPLAY", "FORWARD"}
  /\ LihSends(p)
  /\ rst' = IF Tcp /\ state # "DROP" THEN rst \cup {"LIH"} ELSE rst
  /\ UNCHANGED <<conn, extPkts, extSent, hihSent, toExt, toLih, toHih, peer>>

-----------------------------------------------------------------------------
(* The HIH sends p. *)
HihSends(p) ==
  /\ ~crashed
  /\ hihSent' = IF p.pos + p.len > hihSent THEN p.pos + p.len ELSE hihSent

(* Slip: the difference is taken the wrong way round. *)
DeltaAfterReversed(p) == IF Syn(p) THEN SeqSub(p.seq, lih_syn_seq) ELSE delta

(* de_thread(), origin HIH, state REPLAY: a SYN fixes the offset between   *)
(* the two numberings.                                                     *)
DeltaAfter(p) == IF Syn(p) THEN SeqSub(lih_syn_seq, p.seq) ELSE delta

(* replay() when the packet is not the expected one. *)
HihUnexpected(p) ==
  /\ state = "REPLAY"
  /\ ~TestExpected(p)
  /\ HihSends(p)
  /\ delta' = DeltaAfter(p)
  /\ UNCHANGED <<state, BUFFER, replay_id, expected_data, lih_syn_seq, crashed,
                 extPkts, extSent, lihPkts, lihSent, toExt, toLih, toHih, peer, rst>>

(* replay() when the packet is the expected one: the EXT packets up to the *)
(* LIH's next one are forwarded; at the end of the buffer the HIH takes    *)
(* the connection over, with replay_id left on the last packet.            *)
HihExpected(p) ==
  /\ state = "REPLAY"
  /\ TestExpected(p)
  /\ replay_id < Len(BUFFER)
  /\ HihSends(p)
  /\ delta' = DeltaAfter(p)
  /\ \E stop \in replay_id .. Len(BUFFER) :
       /\ IsRun(replay_id, stop)
       /\ toHih' = toHih \o Run(replay_id, stop, DeltaAfter(p))
       /\ IF stop < Len(BUFFER)
          THEN /\ expected_data' = DefineExpectedData(BUFFER[stop + 1], DeltaAfter(p))
               /\ replay_id' = stop + 1
               /\ UNCHANGED state
          ELSE /\ state' = "FORWARD"
               /\ replay_id' = stop - 1
               /\ UNCHANGED expected_data
  /\ UNCHANGED <<BUFFER, lih_syn_seq, crashed,
                 extPkts, extSent, lihPkts, lihSent, toExt, toLih, peer, rst>>

(* replay() when nothing is left to replay: g_slist_nth_data() returns     *)
(* NULL and current->DE is read through it.                                *)
HihOverrun(p) ==
  /\ state = "REPLAY"
  /\ TestExpected(p)
  /\ replay_id >= Len(BUFFER)
  /\ HihSends(p)
  /\ delta' = DeltaAfter(p)
  /\ crashed' = TRUE
  /\ UNCHANGED <<state, BUFFER, replay_id, expected_data, lih_syn_seq,
                 extPkts, extSent, lihPkts, lihSent, toExt, toLih, toHih, peer, rst>>

(* de_thread(), origin HIH, state FORWARD. *)
HihForward(p) ==
  /\ state = "FORWARD"
  /\ HihSends(p)
  /\ toExt' = ForwardHih2Ext(p)
  /\ peer' = "HIH"
  /\ UNCHANGED <<conn, extPkts, extSent, lihPkts, lihSent, toLih, toHih, rst>>

-----------------------------------------------------------------------------
(* The packets the hosts may send now.  conn_lookup() finds the connection *)
(* for a packet of the HIH only once setup_redirection() has entered its   *)
(* key, so the HIH's packets matter from REPLAY on.                        *)

ExtMaySend(p) ==
  /\ extPkts < MaxExtPkts
  /\ MaySend(p.pos, p.len, extSent)
  /\ MayAck(p.ackpos, toExt)
  /\ IF Tcp THEN (p.pos = 0) <=> (p.ackpos = 0) ELSE p.ackpos = 0

(* A honeypot repeats its SYN until it is acknowledged, and says nothing   *)
(* else before.                                                            *)
Established(S) == \E f \in S : f.ackpos > 0

PotMaySend(p, sent, S) ==
  /\ p.pos + p.len <= MaxUnits
  /\ MaySend(p.pos, p.len, sent)
  /\ MayAck(p.ackpos, S)
  /\ Tcp => (p.pos > 0) = Established(S)

ExtPackets ==
  {ExtPkt(extPkts + 1, pos, len, a) :
     pos \in 0 .. MaxExtPkts, len \in {0, 1}, a \in 0 .. MaxUnits}
LihPackets ==
  {PotPkt("LIH", LihIsn, pos, len, a) :
     pos \in 0 .. MaxUnits, len \in {0, 1}, a \in 1 .. MaxExtPkts}
HihPackets ==
  {PotPkt("HIH", HihIsn, pos, len, a) :
     pos \in 0 .. MaxUnits, len \in {0, 1}, a \in 1 .. MaxExtPkts}

Pinned == IF ExclusiveHih THEN BOOLEAN ELSE {FALSE}

ExtStep(p) ==
  /\ ExtMaySend(p)
  /\ \/ \E r \in Results : ExtInit(p, r)
     \/ \E v \in BackDecisions, pinned \in Pinned : ExtDecision(p, v, pinned)
     \/ \E v \in BackDecisions, pinned \in Pinned : ExtRedirect(p, v, pinned)
     \/ ExtForward(p)
     \/ ExtProxy(p)
     \/ ExtDiscard(p)

LihStep(p) ==
  /\ lihPkts < MaxLihPkts
  /\ PotMaySend(p, lihSent, toLih)
  /\ \/ LihRecord(p)
     \/ LihProxy(p)
     \/ LihDiscard(p)

HihStep(p) ==
  /\ PotMaySend(p, hihSent, Received(toHih))
  /\ \/ HihUnexpected(p)
     \/ HihExpected(p)
     \/ HihOverrun(p)
     \/ HihForward(p)

Init ==
  /\ state = "INIT"
  /\ BUFFER = <<>>
  /\ replay_id = 0
  /\ expected_data = [set |-> FALSE, seq |-> 0, ack |-> 0]
  /\ delta = 0
  /\ lih_syn_seq = 0
  /\ crashed = FALSE
  /\ extPkts = 0 /\ extSent = 0 /\ lihPkts = 0 /\ lihSent = 0 /\ hihSent = 0
  /\ toExt = {} /\ toLih = {} /\ toHih = <<>>
  /\ peer = "none"
  /\ rst = {}

Next ==
  \/ \E p \in ExtPackets : ExtStep(p)
  \/ \E p \in LihPackets : LihStep(p)
  \/ \E p \in HihPackets : HihStep(p)

Spec == Init /\ [][Next]_vars

(* The HIH runs the service the LIH imitates: it keeps offering the        *)
(* segment the replay is waiting for, as a TCP stack retransmits until it  *)
(* is acknowledged.  EXT, the LIH and the rule modules owe nothing.        *)
HihMirrors == \E p \in HihPackets : state = "REPLAY" /\ TestExpected(p) /\ HihStep(p)

HihCatchesUp == \E p \in HihPackets : p.pos = hihSent /\ p.len = 1 /\ HihStep(p)

FairSpec == Spec /\ WF_vars(HihMirrors) /\ WF_vars(HihCatchesUp)

-----------------------------------------------------------------------------
(* Properties.                                                             *)

Packets ==
  [origin : {"EXT", "LIH"}, id : Nat, pos : Nat, len : {0, 1}, ackpos : Nat,
   seq : Nat, ack : Nat]

(* Every variable keeps its type: conn->state stays one of the six states  *)
(* an EXT-initiated connection can have, the sequence-number fields stay   *)
(* below 2^32 and replay_id stays within the buffer.                       *)
TypeOK ==
  /\ state \in States
  /\ BUFFER \in Seq(Packets)
  /\ replay_id \in 0 .. Len(BUFFER)
  /\ expected_data \in [set : BOOLEAN, seq : 0 .. SeqMod - 1, ack : Nat]
  /\ delta \in 0 .. SeqMod - 1
  /\ lih_syn_seq \in 0 .. SeqMod - 1
  /\ crashed \in BOOLEAN
  /\ extPkts \in Nat /\ extSent \in Nat /\ lihPkts \in Nat /\ lihSent \in Nat /\ hihSent \in Nat
  /\ toExt \subseteq [from : {"LIH", "HIH"}, pos : Nat, len : {0, 1}, seq : Nat]
  /\ toLih \subseteq [id : Nat, pos : Nat, len : {0, 1}, ackpos : Nat]
  /\ toHih \in Seq([id : Nat, pos : Nat, len : {0, 1}, ackpos : Nat, ack : Nat])
  /\ peer \in {"none", "LIH", "HIH"}
  /\ rst \subseteq {"EXT", "LIH"}

(* replay() and the back_picker never dereference NULL: whenever the HIH   *)
(* says what is expected there is a packet left at replay_id, because the  *)
(* packet that triggered the redirection was recorded after the others.    *)
NoCrash == ~crashed

(* The HIH sees EXT's packets in the order EXT sent them and none twice,   *)
(* across the loop of setup_redirection(), the turns of replay() and the   *)
(* direct forwarding afterwards.  (A second forward_ext2hih() of the same  *)
(* packet would also shift its acknowledgment twice, in place.)            *)
HihInOrder ==
  \A i, j \in DOMAIN toHih : i < j => toHih[i].id < toHih[j].id

(* Replay neither skips a recorded packet of EXT nor runs ahead: until the *)
(* HIH has said what the LIH had said, it has exactly EXT's packets from   *)
(* before that point, and when the connection is handed over it has them   *)
(* all.                                                                    *)
ReplayExact ==
  LET given == {toHih[j].id : j \in DOMAIN toHih}
      upto == IF state = "REPLAY" THEN replay_id ELSE Len(BUFFER)
      due == {BUFFER[i].id : i \in {k \in 1 .. upto : BUFFER[k].origin = "EXT"}}
  IN /\ state = "REPLAY" => given = due
     /\ state = "FORWARD" => due \subseteq given

(* Every acknowledgment that reaches the HIH is in the HIH's own numbers:  *)
(* it names the position in the stream that EXT meant when it acknowledged *)
(* the LIH.                                                                *)
AckTranslated ==
  Tcp => \A i \in DOMAIN toHih :
           toHih[i].ackpos # 0 => toHih[i].ack = SeqAdd(HihIsn, toHih[i].ackpos)

(* EXT sees one numbering for the whole session: whichever honeypot a      *)
(* segment comes from, its sequence number is the LIH's ISN plus its       *)
(* position.                                                               *)
SeqContinuous ==
  Tcp => \A f \in toExt : f.seq = SeqAdd(LihIsn, f.pos)

(* Once EXT has heard the HIH it never hears the LIH again, although the   *)
(* LIH may still be sending.                                               *)
OnePeer == [][peer = "HIH" => peer' = "HIH"]_vars

(* When the replay waits for a packet and the HIH keeps offering what the  *)
(* LIH had said, the connection is handed over: replay() never waits for a *)
(* packet the LIH did not send, nor stops short of the end of the buffer.  *)
ReplayCompletes == (state = "REPLAY" /\ expected_data.set) ~> (state = "FORWARD")

-----------------------------------------------------------------------------
(* The inductive invariant behind the properties.  It holds when the       *)
(* buffer is unlimited and the back_picker names existing backends.        *)

UnlimitedBuffer == MaxPacketBuffer = NoLimit
PickerIsSound == PickerIds \subseteq BackHandlers \cup {0}

IsExt(i) == BUFFER[i].origin = "EXT"
LihSpoke == \E i \in DOMAIN BUFFER : BUFFER[i].origin = "LIH"
Redirected == state \in {"REPLAY", "FORWARD"}
Offset == SeqSub(LihIsn, HihIsn)

(* Recorded packets of EXT are numbered in order, and the HIH has only     *)
(* packets that EXT sent.                                                  *)
InvIds ==
  /\ \A i \in DOMAIN BUFFER : IsExt(i) => BUFFER[i].id \in 1 .. extPkts
  /\ \A i, j \in DOMAIN BUFFER : i < j /\ IsExt(i) /\ IsExt(j) => BUFFER[i].id < BUFFER[j].id
  /\ \A i \in DOMAIN toHih : toHih[i].id \in 1 .. extPkts

(* Each state's share of the rest of the connection. *)
InvStates ==
  /\ state = "INIT" => BUFFER = <<>> /\ toLih = {} /\ toExt = {} /\ lihSent = 0
  /\ state = "DECISION" => Backends /\ (toExt # {} \/ lihSent > 0 => LihSpoke)
  /\ ~Redirected => toHih = <<>> /\ replay_id = 0 /\ ~expected_data.set /\ hihSent = 0
  /\ state = "REPLAY" => replay_id < Len(BUFFER) /\ IsExt(Len(BUFFER))

(* What the HIH was given, against replay_id. *)
InvGiven ==
  /\ state = "REPLAY" =>
       \A j \in DOMAIN toHih : \E i \in 1 .. replay_id : IsExt(i) /\ BUFFER[i].id = toHih[j].id
  /\ \A i \in DOMAIN BUFFER :
       IsExt(i) /\ (state = "FORWARD" \/ (state = "REPLAY" /\ i <= replay_id))
         => \E j \in DOMAIN toHih : toHih[j].id = BUFFER[i].id

(* The numbers: what EXT acknowledges it has heard from the LIH, the LIH's *)
(* SYN was seen before anything else it said, and the offset is right as   *)
(* soon as the HIH's SYN came.                                             *)
InvNumbers ==
  Tcp =>
  /\ \A i \in DOMAIN BUFFER : IsExt(i) =>
       /\ BUFFER[i].ack = SeqAdd(LihIsn, BUFFER[i].ackpos)
       /\ BUFFER[i].ackpos # 0 => \E j \in 1 .. i - 1 : BUFFER[j].origin = "LIH"
  /\ LihSpoke => lih_syn_seq = LihIsn
  /\ expected_data.set => LihSpoke
  /\ Redirected /\ LihSpoke /\ hihSent > 0 => delta = Offset
  /\ state = "FORWARD" => LihSpoke /\ hihSent > 0

IInv ==
  /\ TypeOK
  /\ NoCrash
  /\ InvIds
  /\ InvStates
  /\ HihInOrder
  /\ InvGiven
  /\ InvNumbers
  /\ AckTranslated
  /\ SeqContinuous

=============================================================================
