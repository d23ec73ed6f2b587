---------------------------- MODULE OutboundProofs ----------------------------
(***************************************************************************)
(* Proofs about the connections that honeypots open: the types, that a     *)
(* rejected connection stays silent, that one which mod_dns_control() has  *)
(* moved inside talks to the internal server only, that nothing freed is   *)
(* reached, and that both sides' packets find a connection.                *)
(***************************************************************************)
EXTENDS Outbound, FiniteSetTheorems, TLAPS

DnsHandlers ==
  {[ip |-> DnsServer, rule |-> FALSE, exclusive |-> FALSE, iface |-> b] : b \in BOOLEAN}
Handlers == {NoHandler} \cup DnsHandlers \cup {Internal[a] : a \in DOMAIN Internal}
States == {"INIT", "CONTROL", "PROXY", "DROP"}
Records ==
  [initiator : {"LIH", "HIH"}, first : Flows, state : States, destination : {"EXT", "INTRA"},
   intra_handler : Handlers, fresh : BOOLEAN, rejected : BOOLEAN]
Places == {"idle", "wait", "create", "process", "switch"}
Packets == [key : Flows \cup {NoKey}, query : BOOLEAN]

(* Ids are given in order, and every id in a tree or a list was given. *)
InvType ==
  /\ cfg \in Configs
  /\ \E n \in 0 .. MaxConns : conns \in [1 .. n -> Records]
  /\ live \subseteq DOMAIN conns
  /\ Values(int_tree1) \cup Values(int_tree2) \subseteq DOMAIN conns
  /\ Values(intra_tree1) \cup Values(intra_tree2) \subseteq DOMAIN conns
  /\ \A a \in DOMAIN intra_handlers : intra_handlers[a] \in Handlers \ {NoHandler}
  /\ locked \in [Ids -> Threads \cup {None}]
  /\ connlock \in Threads \cup {None, "clean"}
  /\ pc \in [Threads -> Places] /\ pkt \in [Threads -> Packets]
  /\ cur \in [Threads -> 0 .. MaxConns]
  /\ todo \subseteq DOMAIN conns
  /\ wire.conn \in 0 .. MaxConns /\ crashed \in BOOLEAN

(* A thread handles the packets that IP2QUEUEID sends to it, waits with    *)
(* connlock in its hand, and works on a connection that it holds.          *)
InvThreads ==
  /\ \A t \in Threads :
       /\ pc[t] # "idle" => pkt[t].key \in Flows /\ HandledBy(pkt[t].key) = t
       /\ pkt[t].query => pkt[t].key \in Queries
       /\ pc[t] \in {"idle", "create"} <=> cur[t] = 0
       /\ cur[t] # 0 => cur[t] \in DOMAIN conns
       /\ pc[t] = "wait" <=> connlock = t
       /\ pc[t] \in {"process", "switch"} => locked[cur[t]] = t
  /\ \A c \in Ids :
       locked[c] # None => cur[locked[c]] = c /\ pc[locked[c]] \in {"process", "switch"}

(* The states of a connection.  INIT lasts for the first packet's turn. *)
InvStates ==
  \A c \in DOMAIN conns :
    LET conn == conns[c] IN
    /\ conn.first.src \in Pots /\ (conn.initiator = "LIH" <=> conn.first.src = Lih)
    /\ conn.rejected => conn.state = "DROP"
    /\ cfg.deny_hih_init /\ conn.initiator = "HIH" => conn.state \in {"INIT", "DROP"}
    /\ conn.state = "INIT" =>
         /\ conn.initiator = "HIH"
         /\ \E t \in Threads : cur[t] = c /\ pc[t] = "process" /\ pkt[t].key = conn.first

Switching(c) == \E t \in Threads : cur[t] = c /\ pc[t] = "switch"

(* The trees that a connection belongs to: those of the outside until      *)
(* switch_conn_to_intra() has moved it, those of the inside after that.    *)
Out(c) == conns[c].destination = "EXT" \/ Switching(c)
In(c) == conns[c].destination = "INTRA" /\ ~InLan(conns[c]) /\ ~Switching(c)

(* What a tree finds belongs to that tree, under that key. *)
InvFiled ==
  \A c \in DOMAIN conns :
    /\ \A k \in DOMAIN int_tree1 : int_tree1[k] = c => Out(c) /\ k = IntKey(conns[c])
    /\ \A k \in DOMAIN int_tree2 : int_tree2[k] = c => Out(c) /\ k = ExtKey(conns[c])
    /\ \A k \in DOMAIN intra_tree1 : intra_tree1[k] = c => In(c) /\ k = IntKey(conns[c])
    /\ \A k \in DOMAIN intra_tree2 : intra_tree2[k] = c => In(c) /\ k = IntraKey(conns[c])

(* The packet of a thread belongs to the connection: it is the initiator's *)
(* or the answer of the side the connection has.                           *)
InvKeys ==
  \A t \in Threads : cur[t] # 0 =>
    LET k == pkt[t].key
        conn == conns[cur[t]]
    IN \/ k = IntKey(conn) /\ (pc[t] = "switch" => ~InLan(conn))
       \/ pc[t] # "switch" /\ FromExt(k) /\ k = ExtKey(conn) /\ conn.destination = "EXT"
       \/ /\ pc[t] # "switch" /\ ~FromExt(k) /\ k = IntraKey(conn)
          /\ conn.destination = "INTRA" /\ ~InLan(conn)

(* Only mod_dns_control() leads from INTRA to PROXY. *)
InvSwitch == \A t \in Threads : pc[t] = "switch" => conns[cur[t]].destination = "INTRA"

(* Nobody has a connection in hand that was freed. *)
InvLive ==
  /\ NoDangling
  /\ todo # {} => connlock = "clean"
  /\ \A c \in DOMAIN conns : conns[c].destination = "INTRA" => conns[c].initiator = "HIH"

(* A connection is in its trees, is the only one that was opened with its  *)
(* first packet's key, and a thread that found none opens the first.       *)
InvFound ==
  /\ \A c \in live : Out(c) =>
       /\ IntKey(conns[c]) \in DOMAIN int_tree1 /\ int_tree1[IntKey(conns[c])] = c
       /\ ExtKey(conns[c]) \in DOMAIN int_tree2 /\ int_tree2[ExtKey(conns[c])] = c
  /\ \A c \in live : In(c) =>
       /\ IntKey(conns[c]) \in DOMAIN intra_tree1 /\ intra_tree1[IntKey(conns[c])] = c
       /\ IntraKey(conns[c]) \in DOMAIN intra_tree2 /\ intra_tree2[IntraKey(conns[c])] = c
  /\ \A c, d \in live :
       ~InLan(conns[c]) /\ ~InLan(conns[d]) /\ conns[c].first = conns[d].first => c = d
  /\ \A t \in Threads, c \in live :
       pc[t] = "create" /\ ~InLan(conns[c]) => conns[c].first # pkt[t].key
  /\ \A c \in todo : ~InLan(conns[c])

IInv ==
  /\ InvType
  /\ InvThreads
  /\ InvStates
  /\ InvFiled
  /\ InvKeys
  /\ InvSwitch

(* DNS queries come from HIHs. *)
QueriesOfHihs == \A k \in Queries : k.src # Lih

(* Two honeypots do not talk to one address under one pair of ports, and a *)
(* honeypot does not use one pair of ports for two addresses.              *)
PortsApart ==
  \A k, l \in Flows :
    /\ k.src \in Pots /\ l.src \in Pots /\ k.port = l.port
    /\ k.src = l.src \/ k.dst = l.dst
    => k = l

-----------------------------------------------------------------------------
(* Connections and threads.                                                *)

LEMMA ConnFacts ==
  ASSUME InvType
  PROVE  /\ DOMAIN conns \subseteq Ids /\ conns \in [DOMAIN conns -> Records]
         /\ \A c \in DOMAIN conns : c \in Nat /\ c # 0 /\ c \in 0 .. MaxConns
<1>1. PICK n \in 0 .. MaxConns : conns \in [1 .. n -> Records]
  BY DEF InvType
<1>2. MaxConns \in Nat
  BY OutboundAssumption
<1> QED BY <1>1, <1>2 DEF Ids

(* The fields of a record. *)
LEMMA RecordFacts ==
  ASSUME NEW r \in Records
  PROVE  /\ r.initiator \in {"LIH", "HIH"} /\ r.first \in Flows /\ r.state \in States
         /\ r.destination \in {"EXT", "INTRA"} /\ r.intra_handler \in Handlers
         /\ r.fresh \in BOOLEAN /\ r.rejected \in BOOLEAN
BY DEF Records

(* What is left of a connection by every step but mod_dns_control()'s. *)
Kept(r, conn) ==
  /\ r \in Records
  /\ r.initiator = conn.initiator /\ r.first = conn.first
  /\ r.destination = conn.destination /\ r.intra_handler = conn.intra_handler

LEMMA TouchFacts ==
  ASSUME NEW conn \in Records, NEW b \in BOOLEAN
  PROVE  LET r == [conn EXCEPT !.fresh = b]
         IN Kept(r, conn) /\ r.state = conn.state /\ r.rejected = conn.rejected
BY DEF Records, Kept

LEMMA DropFacts ==
  ASSUME NEW conn \in Records, NEW s \in States
  PROVE  LET r == [conn EXCEPT !.state = s]
         IN Kept(r, conn) /\ r.state = s /\ r.rejected = conn.rejected
BY DEF Records, Kept

LEMMA MoveFacts ==
  ASSUME NEW conn \in Records, NEW h \in Handlers
  PROVE  LET r == [conn EXCEPT !.state = "PROXY", !.destination = "INTRA", !.intra_handler = h]
         IN /\ r \in Records /\ r.state = "PROXY" /\ r.destination = "INTRA"
            /\ r.intra_handler = h /\ r.rejected = conn.rejected
            /\ r.initiator = conn.initiator /\ r.first = conn.first
BY DEF Records, States

(* One connection gets a new record. *)
LEMMA UpdateFacts ==
  ASSUME InvType, NEW c \in DOMAIN conns, NEW r \in Records, conns' = [conns EXCEPT ![c] = r]
  PROVE  /\ DOMAIN conns' = DOMAIN conns /\ conns'[c] = r
         /\ \A d \in DOMAIN conns : d # c => conns'[d] = conns[d]
         /\ \E n \in 0 .. MaxConns : conns' \in [1 .. n -> Records]
<1>1. PICK n \in 0 .. MaxConns : conns \in [1 .. n -> Records]
  BY DEF InvType
<1> QED BY <1>1

(* A thread moves. *)
LEMMA MovedFacts ==
  ASSUME InvType, NEW t \in Threads, NEW p \in Places, NEW k \in Packets, NEW c \in 0 .. MaxConns,
         pc' = [pc EXCEPT ![t] = p], pkt' = [pkt EXCEPT ![t] = k], cur' = [cur EXCEPT ![t] = c]
  PROVE  /\ pc' \in [Threads -> Places] /\ pkt' \in [Threads -> Packets]
         /\ cur' \in [Threads -> 0 .. MaxConns]
         /\ pc'[t] = p /\ pkt'[t] = k /\ cur'[t] = c
         /\ \A u \in Threads : u # t => pc'[u] = pc[u] /\ pkt'[u] = pkt[u] /\ cur'[u] = cur[u]
BY DEF InvType

LEMMA PktFacts ==
  ASSUME InvType, NEW t \in Threads
  PROVE  pkt[t] \in Packets /\ pkt[t].key \in Flows \cup {NoKey} /\ pkt[t].query \in BOOLEAN
BY DEF InvType, Packets

LEMMA NoPktFacts == NoPkt \in Packets /\ ~NoPkt.query
BY DEF NoPkt, Packets

LEMMA OriginFacts ==
  ASSUME NEW k
  PROVE  /\ Origin(k) = "EXT" <=> FromExt(k)
         /\ k.src \in Pots => /\ ~FromExt(k)
                              /\ Origin(k) = IF k.src = Lih THEN "LIH" ELSE "HIH"
         /\ Origin(k) \in {"LIH", "HIH"} => k.src \in Pots
         /\ Origin(k) = "LIH" => k.src = Lih
BY OutboundAssumption DEF Origin, FromExt, Pots
-----------------------------------------------------------------------------
(* Steps that leave the kind of every connection alone.                    *)

Same(c) ==
  /\ conns'[c].initiator = conns[c].initiator /\ conns'[c].first = conns[c].first
  /\ conns'[c].destination = conns[c].destination
  /\ conns'[c].intra_handler = conns[c].intra_handler

Part(tree, of) == \A k \in DOMAIN tree : k \in DOMAIN of /\ tree[k] = of[k]

(* No id is given. *)
LEMMA TypeKeeps ==
  ASSUME InvType, UNCHANGED <<cfg, intra_handlers>>, crashed' \in BOOLEAN,
         wire'.conn \in 0 .. MaxConns,
         \E n \in 0 .. MaxConns : conns' \in [1 .. n -> Records], DOMAIN conns' = DOMAIN conns,
         live' \subseteq live, todo' \subseteq DOMAIN conns,
         Part(int_tree1', int_tree1), Part(int_tree2', int_tree2),
         Part(intra_tree1', intra_tree1), Part(intra_tree2', intra_tree2),
         locked' \in [Ids -> Threads \cup {None}], connlock' \in Threads \cup {None, "clean"},
         pc' \in [Threads -> Places], pkt' \in [Threads -> Packets],
         cur' \in [Threads -> 0 .. MaxConns]
  PROVE  InvType'
<1>1. /\ Values(int_tree1') \subseteq DOMAIN conns /\ Values(int_tree2') \subseteq DOMAIN conns
      /\ Values(intra_tree1') \subseteq DOMAIN conns /\ Values(intra_tree2') \subseteq DOMAIN conns
  BY DEF InvType, Values, Part
<1>2. (Values(int_tree1) \cup Values(int_tree2))' \subseteq DOMAIN conns
  BY <1>1 DEF Values
<1>3. (Values(intra_tree1) \cup Values(intra_tree2))' \subseteq DOMAIN conns
  BY <1>1 DEF Values
<1>4. live' \subseteq DOMAIN conns /\ cfg' \in Configs
  BY DEF InvType
<1>5. \A a \in DOMAIN intra_handlers' : intra_handlers'[a] \in Handlers \ {NoHandler}
  BY DEF InvType
<1> QED BY <1>2, <1>3, <1>4, <1>5, Zenon DEF InvType

(* No connection is moved and nothing enters a tree. *)
LEMMA FiledKeeps ==
  ASSUME InvFiled, DOMAIN conns' = DOMAIN conns, \A c \in DOMAIN conns : Same(c),
         Part(int_tree1', int_tree1), Part(int_tree2', int_tree2),
         Part(intra_tree1', intra_tree1), Part(intra_tree2', intra_tree2),
         \A t \in Threads : pc'[t] = "switch" <=> pc[t] = "switch",
         \A t \in Threads : pc[t] = "switch" => cur'[t] = cur[t]
  PROVE  InvFiled'
<1> SUFFICES ASSUME NEW c \in DOMAIN conns
             PROVE
      /\ \A k \in DOMAIN int_tree1' : int_tree1'[k] = c => Out(c)' /\ k = IntKey(conns'[c])
      /\ \A k \in DOMAIN int_tree2' : int_tree2'[k] = c => Out(c)' /\ k = ExtKey(conns'[c])
      /\ \A k \in DOMAIN intra_tree1' : intra_tree1'[k] = c => In(c)' /\ k = IntKey(conns'[c])
      /\ \A k \in DOMAIN intra_tree2' : intra_tree2'[k] = c => In(c)' /\ k = IntraKey(conns'[c])
  BY DEF InvFiled, IntKey, ExtKey, IntraKey
<1>1. /\ IntKey(conns'[c]) = IntKey(conns[c]) /\ ExtKey(conns'[c]) = ExtKey(conns[c])
      /\ IntraKey(conns'[c]) = IntraKey(conns[c])
  BY DEF Same, IntKey, ExtKey, IntraKey
<1>2. Switching(c)' <=> Switching(c)
  BY DEF Switching
<1>3. (Out(c)' <=> Out(c)) /\ (In(c)' <=> In(c))
  BY <1>2 DEF Same, Out, In, InLan
<1>4. /\ \A k \in DOMAIN int_tree1 : int_tree1[k] = c => Out(c) /\ k = IntKey(conns[c])
      /\ \A k \in DOMAIN int_tree2 : int_tree2[k] = c => Out(c) /\ k = ExtKey(conns[c])
      /\ \A k \in DOMAIN intra_tree1 : intra_tree1[k] = c => In(c) /\ k = IntKey(conns[c])
      /\ \A k \in DOMAIN intra_tree2 : intra_tree2[k] = c => In(c) /\ k = IntraKey(conns[c])
  BY DEF InvFiled
<1> QED BY <1>1, <1>3, <1>4 DEF Part

(* No thread finds or creates a connection, or starts to move it. *)
LEMMA KeysKeep ==
  ASSUME InvThreads, InvKeys, InvSwitch, \A c \in DOMAIN conns : Same(c),
         \A t \in Threads :
           /\ pc'[t] = "switch" <=> (pc[t] = "switch" /\ cur'[t] # 0)
           /\ cur'[t] = 0 \/ (cur'[t] = cur[t] /\ pkt'[t] = pkt[t])
  PROVE  InvKeys' /\ InvSwitch'
<1>1. ASSUME NEW t \in Threads, cur'[t] # 0
      PROVE  LET k == pkt'[t].key
                 conn == conns'[cur'[t]]
             IN \/ k = IntKey(conn) /\ (pc'[t] = "switch" => ~InLan(conn))
                \/ pc'[t] # "switch" /\ FromExt(k) /\ k = ExtKey(conn) /\ conn.destination = "EXT"
                \/ /\ pc'[t] # "switch" /\ ~FromExt(k) /\ k = IntraKey(conn)
                   /\ conn.destination = "INTRA" /\ ~InLan(conn)
  <2>1. cur'[t] = cur[t] /\ pkt'[t] = pkt[t] /\ (pc'[t] = "switch" <=> pc[t] = "switch")
    BY <1>1
  <2>2. cur[t] # 0 /\ cur[t] \in DOMAIN conns
    BY <1>1, <2>1 DEF InvThreads
  <2> DEFINE c == cur[t]
             k == pkt[t].key
  <2>3. /\ IntKey(conns'[c]) = IntKey(conns[c]) /\ ExtKey(conns'[c]) = ExtKey(conns[c])
        /\ IntraKey(conns'[c]) = IntraKey(conns[c]) /\ (InLan(conns'[c]) <=> InLan(conns[c]))
        /\ conns'[c].destination = conns[c].destination
    BY <2>2 DEF Same, IntKey, ExtKey, IntraKey, InLan
  <2>4. \/ k = IntKey(conns[c]) /\ (pc[t] = "switch" => ~InLan(conns[c]))
        \/ /\ pc[t] # "switch" /\ FromExt(k) /\ k = ExtKey(conns[c])
           /\ conns[c].destination = "EXT"
        \/ /\ pc[t] # "switch" /\ ~FromExt(k) /\ k = IntraKey(conns[c])
           /\ conns[c].destination = "INTRA" /\ ~InLan(conns[c])
    BY <2>2 DEF InvKeys
  <2> QED BY <2>1, <2>3, <2>4
<1>2. InvKeys'
  BY <1>1 DEF InvKeys, IntKey, ExtKey, IntraKey, InLan, FromExt
<1>3. InvSwitch'
  BY DEF InvThreads, InvSwitch, Same
<1> QED BY <1>2, <1>3

(* The states that a connection may have between two turns. *)
Settled(r) ==
  /\ r.state # "INIT"
  /\ r.rejected => r.state = "DROP"
  /\ cfg.deny_hih_init /\ r.initiator = "HIH" => r.state = "DROP"

(* A connection that changes its state is settled after that. *)
LEMMA StatesKeep ==
  ASSUME InvStates, cfg' = cfg, DOMAIN conns' = DOMAIN conns, \A c \in DOMAIN conns : Same(c),
         \A c \in DOMAIN conns :
           \/ Settled(conns'[c])
           \/ /\ conns'[c].state = conns[c].state /\ conns'[c].rejected = conns[c].rejected
              /\ \A t \in Threads : cur[t] = c /\ pc[t] = "process" =>
                   cur'[t] = c /\ pc'[t] = "process" /\ pkt'[t] = pkt[t]
  PROVE  InvStates'
<1> SUFFICES ASSUME NEW c \in DOMAIN conns
             PROVE
      /\ conns'[c].first.src \in Pots /\ (conns'[c].initiator = "LIH" <=> conns'[c].first.src = Lih)
      /\ conns'[c].rejected => conns'[c].state = "DROP"
      /\ cfg.deny_hih_init /\ conns'[c].initiator = "HIH" => conns'[c].state \in {"INIT", "DROP"}
      /\ conns'[c].state = "INIT" =>
           /\ conns'[c].initiator = "HIH"
           /\ \E t \in Threads : cur'[t] = c /\ pc'[t] = "process" /\ pkt'[t].key = conns'[c].first
  BY DEF InvStates
<1>1. Same(c)
  OBVIOUS
<1>2. CASE Settled(conns'[c])
  BY <1>1, <1>2 DEF Settled, Same, InvStates
<1>3. CASE /\ conns'[c].state = conns[c].state /\ conns'[c].rejected = conns[c].rejected
           /\ \A t \in Threads : cur[t] = c /\ pc[t] = "process" =>
                cur'[t] = c /\ pc'[t] = "process" /\ pkt'[t] = pkt[t]
  BY <1>1, <1>3 DEF Same, InvStates
<1> QED BY <1>2, <1>3
-----------------------------------------------------------------------------
(* The steps.                                                              *)

(* conn_lookup() returns a connection to which the packet belongs.  A      *)
(* packet from outside finds none that is being moved: the thread that     *)
(* moves it would be the one that looks it up.                             *)
LEMMA FoundFacts ==
  ASSUME IInv, NEW t \in Threads, NEW k, pc[t] = "idle", HandledBy(k) = t, Found(k) # 0
  PROVE  LET c == Found(k)
             conn == conns[c]
         IN /\ c \in DOMAIN conns
            /\ \/ k = IntKey(conn)
               \/ FromExt(k) /\ k = ExtKey(conn) /\ conn.destination = "EXT"
               \/ /\ ~FromExt(k) /\ k = IntraKey(conn)
                  /\ conn.destination = "INTRA" /\ ~InLan(conn)
<1> USE DEF IInv
<1> DEFINE c == Found(k)
           conn == conns[c]
<1>1. CASE FromExt(k)
  <2>1. k \in DOMAIN int_tree2 /\ c = int_tree2[k]
    BY <1>1 DEF Found
  <2>2. c \in DOMAIN conns
    BY <2>1 DEF InvType, Values
  <2> HIDE DEF c
  <2>3. Out(c) /\ k = ExtKey(conn)
    BY <2>1, <2>2 DEF InvFiled
  <2>4. ASSUME NEW u \in Threads, cur[u] = c, pc[u] = "switch" PROVE FALSE
    <3>1. pkt[u].key = IntKey(conn) /\ HandledBy(pkt[u].key) = u
      BY <2>2, <2>4, ConnFacts DEF InvKeys, InvThreads
    <3>2. ~FromExt(IntKey(conn))
      BY <2>2, OriginFacts DEF InvStates, IntKey
    <3>3. HandledBy(IntKey(conn)) = HandledBy(ExtKey(conn))
      BY <1>1, <2>3, <3>2 DEF HandledBy, IntKey, ExtKey, Key
    <3> QED BY <2>3, <2>4, <3>1, <3>3
  <2>5. conn.destination = "EXT"
    BY <2>3, <2>4 DEF Out, Switching
  <2> QED BY <1>1, <2>2, <2>3, <2>5 DEF c
<1>2. CASE ~FromExt(k) /\ k \in DOMAIN int_tree1
  <2>1. c = int_tree1[k]
    BY <1>2 DEF Found
  <2>2. c \in DOMAIN conns
    BY <1>2, <2>1 DEF InvType, Values
  <2> QED BY <1>2, <2>1, <2>2 DEF InvFiled
<1>3. CASE ~FromExt(k) /\ k \notin DOMAIN int_tree1 /\ k \in DOMAIN intra_tree1
  <2>1. c = intra_tree1[k]
    BY <1>3 DEF Found
  <2>2. c \in DOMAIN conns
    BY <1>3, <2>1 DEF InvType, Values
  <2> QED BY <1>3, <2>1, <2>2 DEF InvFiled
<1>4. CASE ~FromExt(k) /\ k \notin DOMAIN int_tree1 /\ k \notin DOMAIN intra_tree1
  <2>1. k \in DOMAIN intra_tree2 /\ c = intra_tree2[k]
    BY <1>4 DEF Found
  <2>2. c \in DOMAIN conns
    BY <2>1 DEF InvType, Values
  <2> QED BY <1>4, <2>1, <2>2 DEF InvFiled, In
<1> QED BY <1>1, <1>2, <1>3, <1>4

LEMMA NoWireFacts == NoWire.conn = 0 /\ (MaxConns \in Nat) /\ 0 \in 0 .. MaxConns
BY OutboundAssumption DEF NoWire

LEMMA LookupStep ==
  ASSUME IInv, NEW t \in Threads, NEW k \in Flows, NEW query \in BOOLEAN, Lookup(t, k, query)
  PROVE  IInv'
<1> USE DEF IInv
<1> DEFINE c == Found(k)
           p == IF c = 0 THEN "create" ELSE "wait"
           q == [key |-> k, query |-> query]
<1>1. /\ pc[t] = "idle" /\ HandledBy(k) = t /\ (query => k \in Queries) /\ connlock = None
      /\ pkt' = [pkt EXCEPT ![t] = q] /\ cur' = [cur EXCEPT ![t] = c]
      /\ connlock' = (IF c = 0 THEN None ELSE t) /\ pc' = [pc EXCEPT ![t] = p]
      /\ wire' = NoWire
      /\ UNCHANGED <<cfg, conns, live, locked, int_tree1, int_tree2, intra_tree1, intra_tree2,
                     intra_handlers, todo, crashed>>
  BY DEF Lookup, trees
<1>2. q \in Packets /\ p \in Places /\ q.key = k /\ (q.query <=> query)
  BY DEF Packets, Places
<1>3. c # 0 => c \in DOMAIN conns
  BY <1>1, FoundFacts
<1>4. c \in 0 .. MaxConns
  BY <1>3, ConnFacts, NoWireFacts
<1> HIDE DEF c, q
<1>5. /\ pc' \in [Threads -> Places] /\ pkt' \in [Threads -> Packets]
      /\ cur' \in [Threads -> 0 .. MaxConns]
      /\ pc'[t] = p /\ pkt'[t] = q /\ cur'[t] = c
      /\ \A u \in Threads : u # t => pc'[u] = pc[u] /\ pkt'[u] = pkt[u] /\ cur'[u] = cur[u]
  BY <1>1, <1>2, <1>4, MovedFacts
<1>6. InvType'
  <2>1. connlock' \in Threads \cup {None, "clean"} /\ wire'.conn \in 0 .. MaxConns
    BY <1>1, NoWireFacts
  <2> QED BY <1>1, <1>5, <2>1, TypeKeeps DEF InvType, Part
<1>7. cur[t] = 0 /\ (\A u \in Threads : pc[u] # "wait")
  BY <1>1, OutboundAssumption DEF InvThreads
<1>8. InvThreads'
  <2>1. ASSUME NEW u \in Threads
        PROVE  /\ pc'[u] # "idle" => pkt'[u].key \in Flows /\ HandledBy(pkt'[u].key) = u
               /\ pkt'[u].query => pkt'[u].key \in Queries
               /\ pc'[u] \in {"idle", "create"} <=> cur'[u] = 0
               /\ cur'[u] # 0 => cur'[u] \in DOMAIN conns'
               /\ pc'[u] = "wait" <=> connlock' = u
               /\ pc'[u] \in {"process", "switch"} => locked'[cur'[u]] = u
    <3>1. CASE u = t
      BY <1>1, <1>2, <1>3, <1>5, <3>1, OutboundAssumption
    <3>2. CASE u # t
      BY <1>1, <1>5, <1>7, <3>2, OutboundAssumption DEF InvThreads
    <3> QED BY <3>1, <3>2
  <2>2. ASSUME NEW d \in Ids, locked'[d] # None
        PROVE  cur'[locked'[d]] = d /\ pc'[locked'[d]] \in {"process", "switch"}
    <3>1. locked[d] \in Threads /\ locked[d] # t
      BY <1>1, <2>2 DEF InvThreads, InvType
    <3> QED BY <1>1, <1>5, <2>2, <3>1 DEF InvThreads
  <2> QED BY <2>1, <2>2 DEF InvThreads, HandledBy, FromExt
<1>9. \A d \in DOMAIN conns : Same(d)
  BY <1>1 DEF Same
<1>10. InvStates'
  BY <1>1, <1>5, <1>9, StatesKeep
<1>11. InvFiled'
  <2>1. \A u \in Threads : pc'[u] = "switch" <=> pc[u] = "switch"
    BY <1>1, <1>5
  <2>2. \A u \in Threads : pc[u] = "switch" => cur'[u] = cur[u]
    BY <1>1, <1>5
  <2> QED BY <1>1, <1>9, <2>1, <2>2, FiledKeeps DEF Part
<1>12. InvSwitch'
  BY <1>1, <1>5 DEF InvSwitch
<1>13. InvKeys'
  <2>1. ASSUME NEW u \in Threads, cur'[u] # 0
        PROVE LET l == pkt'[u].key
                  conn == conns'[cur'[u]]
              IN \/ l = IntKey(conn) /\ (pc'[u] = "switch" => ~InLan(conn))
                 \/ pc'[u] # "switch" /\ FromExt(l) /\ l = ExtKey(conn) /\ conn.destination = "EXT"
                 \/ /\ pc'[u] # "switch" /\ ~FromExt(l) /\ l = IntraKey(conn)
                    /\ conn.destination = "INTRA" /\ ~InLan(conn)
    <3>1. CASE u = t
      <4>1. c # 0 /\ pkt'[u].key = k /\ conns' = conns /\ pc'[u] = "wait" /\ cur'[u] = c
        BY <1>1, <1>2, <1>5, <2>1, <3>1
      <4>2. \/ k = IntKey(conns[c])
            \/ FromExt(k) /\ k = ExtKey(conns[c]) /\ conns[c].destination = "EXT"
            \/ /\ ~FromExt(k) /\ k = IntraKey(conns[c])
               /\ conns[c].destination = "INTRA" /\ ~InLan(conns[c])
        BY <1>1, <4>1, FoundFacts DEF c
      <4> QED BY <4>1, <4>2
    <3>2. CASE u # t
      BY <1>1, <1>5, <2>1, <3>2 DEF InvKeys
    <3> QED BY <3>1, <3>2
  <2> QED BY <2>1 DEF InvKeys, IntKey, ExtKey, IntraKey, InLan, FromExt
<1> QED BY <1>6, <1>8, <1>10, <1>11, <1>12, <1>13

LEMMA HoldStep ==
  ASSUME IInv, NEW t \in Threads, Hold(t)
  PROVE  IInv'
<1> USE DEF IInv
<1> DEFINE c == cur[t]
           r == [conns[c] EXCEPT !.fresh = TRUE]
<1>1. /\ pc[t] = "wait" /\ locked[c] = None
      /\ locked' = [locked EXCEPT ![c] = t] /\ connlock' = None
      /\ conns' = [conns EXCEPT ![c] = r]
      /\ pc' = [pc EXCEPT ![t] = "process"] /\ wire' = NoWire
      /\ UNCHANGED <<cfg, live, int_tree1, int_tree2, intra_tree1, intra_tree2, intra_handlers,
                     pkt, cur, todo, crashed>>
  BY DEF Hold, trees
<1>2. c \in DOMAIN conns /\ c \in Ids /\ conns[c] \in Records
  BY <1>1, ConnFacts DEF InvThreads
<1>3. Kept(r, conns[c]) /\ r.state = conns[c].state /\ r.rejected = conns[c].rejected
  BY <1>2, TouchFacts
<1> HIDE DEF c, r
<1>4. /\ DOMAIN conns' = DOMAIN conns /\ conns'[c] = r
      /\ \A d \in DOMAIN conns : d # c => conns'[d] = conns[d]
      /\ \E n \in 0 .. MaxConns : conns' \in [1 .. n -> Records]
  BY <1>1, <1>2, <1>3, UpdateFacts DEF Kept
<1>5. \A d \in DOMAIN conns : /\ Same(d) /\ conns'[d].state = conns[d].state
                              /\ conns'[d].rejected = conns[d].rejected
  BY <1>3, <1>4 DEF Same, Kept
<1>6. /\ pc' \in [Threads -> Places] /\ pc'[t] = "process"
      /\ \A u \in Threads : u # t => pc'[u] = pc[u]
  BY <1>1 DEF InvType, Places
<1>7. /\ locked' \in [Ids -> Threads \cup {None}] /\ locked'[c] = t
      /\ \A d \in Ids : d # c => locked'[d] = locked[d]
  BY <1>1, <1>2 DEF InvType
<1>8. InvType'
  <2>1. connlock' \in Threads \cup {None, "clean"} /\ wire'.conn \in 0 .. MaxConns
    BY <1>1, NoWireFacts
  <2> QED BY <1>1, <1>4, <1>6, <1>7, <2>1, TypeKeeps DEF InvType, Part
<1>9. InvThreads'
  <2>1. connlock = t
    BY <1>1 DEF InvThreads
  <2>2. ASSUME NEW u \in Threads
        PROVE  /\ pc'[u] # "idle" => pkt'[u].key \in Flows /\ HandledBy(pkt'[u].key) = u
               /\ pkt'[u].query => pkt'[u].key \in Queries
               /\ pc'[u] \in {"idle", "create"} <=> cur'[u] = 0
               /\ cur'[u] # 0 => cur'[u] \in DOMAIN conns'
               /\ pc'[u] = "wait" <=> connlock' = u
               /\ pc'[u] \in {"process", "switch"} => locked'[cur'[u]] = u
    <3>1. CASE u = t
      BY <1>1, <1>4, <1>6, <1>7, <3>1, OutboundAssumption DEF InvThreads, c
    <3>2. CASE u # t
      <4>1. pc[u] \in {"process", "switch"} => locked[cur[u]] = u /\ cur[u] \in Ids /\ cur[u] # c
        BY <1>1, ConnFacts, OutboundAssumption DEF InvThreads
      <4> QED BY <1>1, <1>4, <1>6, <1>7, <2>1, <3>2, <4>1, OutboundAssumption DEF InvThreads
    <3> QED BY <3>1, <3>2
  <2>3. ASSUME NEW d \in Ids, locked'[d] # None
        PROVE  cur'[locked'[d]] = d /\ pc'[locked'[d]] \in {"process", "switch"}
    <3>1. CASE d = c
      BY <1>1, <1>6, <1>7, <3>1 DEF c
    <3>2. CASE d # c
      <4>1. locked'[d] = locked[d] /\ locked[d] \in Threads /\ locked[d] # t
        BY <1>1, <1>7, <2>3, <3>2 DEF InvThreads, InvType
      <4> QED BY <1>1, <1>6, <2>3, <4>1 DEF InvThreads
    <3> QED BY <3>1, <3>2
  <2> QED BY <2>2, <2>3 DEF InvThreads, HandledBy, FromExt
<1>10. InvStates'
  BY <1>1, <1>4, <1>5, <1>6, StatesKeep
<1>11. \A u \in Threads : pc'[u] = "switch" <=> pc[u] = "switch"
  BY <1>1, <1>6
<1>12. InvFiled'
  BY <1>1, <1>4, <1>5, <1>11, FiledKeeps DEF Part
<1>13. InvKeys' /\ InvSwitch'
  BY <1>1, <1>5, <1>11, KeysKeep DEF InvThreads
<1> QED BY <1>8, <1>9, <1>10, <1>12, <1>13

(* The steps of the cleaner and of the clock move no thread, and take      *)
(* nothing but connlock.                                                   *)
LEMMA CleanerKeeps ==
  ASSUME IInv, UNCHANGED <<cfg, intra_handlers, locked, pc, pkt, cur>>, wire' = NoWire,
         crashed' \in {crashed, TRUE},
         connlock' = connlock \/ (connlock \notin Threads /\ connlock' \in {None, "clean"}),
         \E n \in 0 .. MaxConns : conns' \in [1 .. n -> Records], DOMAIN conns' = DOMAIN conns,
         \A c \in DOMAIN conns : /\ Same(c) /\ conns'[c].state = conns[c].state
                                 /\ conns'[c].rejected = conns[c].rejected,
         live' \subseteq live, todo' \subseteq DOMAIN conns,
         Part(int_tree1', int_tree1), Part(int_tree2', int_tree2),
         Part(intra_tree1', intra_tree1), Part(intra_tree2', intra_tree2)
  PROVE  IInv'
<1> USE DEF IInv
<1>1. connlock' \in Threads \cup {None, "clean"} /\ wire'.conn \in 0 .. MaxConns
  BY NoWireFacts DEF InvType
<1>2. InvType'
  <2>1. /\ locked' \in [Ids -> Threads \cup {None}] /\ pc' \in [Threads -> Places]
        /\ pkt' \in [Threads -> Packets] /\ cur' \in [Threads -> 0 .. MaxConns]
        /\ crashed' \in BOOLEAN
    BY DEF InvType
  <2> QED BY <1>1, <2>1, TypeKeeps
<1>3. \A t \in Threads : connlock' = t <=> connlock = t
  BY OutboundAssumption
<1>4. InvThreads'
  BY <1>3 DEF InvThreads, HandledBy, FromExt
<1>5. InvStates'
  BY StatesKeep
<1>6. InvFiled'
  BY FiledKeeps
<1>7. InvKeys' /\ InvSwitch'
  BY KeysKeep DEF InvThreads
<1> QED BY <1>2, <1>4, <1>5, <1>6, <1>7

LEMMA AgeStep ==
  ASSUME IInv, NEW c \in DOMAIN conns, Age(c)
  PROVE  IInv'
<1> USE DEF IInv
<1> DEFINE r == [conns[c] EXCEPT !.fresh = FALSE]
<1>1. /\ conns' = [conns EXCEPT ![c] = r] /\ wire' = NoWire
      /\ UNCHANGED <<cfg, live, locked, int_tree1, int_tree2, intra_tree1, intra_tree2,
                     intra_handlers, connlock, pc, pkt, cur, todo, crashed>>
  BY DEF Age, trees, thread
<1>2. conns[c] \in Records
  BY ConnFacts
<1>3. Kept(r, conns[c]) /\ r.state = conns[c].state /\ r.rejected = conns[c].rejected
  BY <1>2, TouchFacts
<1> HIDE DEF r
<1>4. /\ DOMAIN conns' = DOMAIN conns /\ conns'[c] = r
      /\ \A d \in DOMAIN conns : d # c => conns'[d] = conns[d]
      /\ \E n \in 0 .. MaxConns : conns' \in [1 .. n -> Records]
  BY <1>1, <1>3, UpdateFacts DEF Kept
<1>5. \A d \in DOMAIN conns : /\ Same(d) /\ conns'[d].state = conns[d].state
                              /\ conns'[d].rejected = conns[d].rejected
  BY <1>3, <1>4 DEF Same, Kept
<1>6. todo' \subseteq DOMAIN conns
  BY <1>1 DEF InvType
<1> QED BY <1>1, <1>4, <1>5, <1>6, CleanerKeeps DEF Part

(* The cleaner's other steps, and the end of the process. *)
Aside ==
  \/ CleanStart \/ (\E c \in todo : CleanSkip(c)) \/ CleanEnd
  \/ \E t \in Threads : FromPotNoLink(t)

LEMMA AsideStep ==
  ASSUME IInv, Aside
  PROVE  IInv'
<1> USE DEF IInv
<1>1. /\ wire' = NoWire
      /\ UNCHANGED <<cfg, conns, live, locked, int_tree1, int_tree2, intra_tree1, intra_tree2,
                     intra_handlers, pc, pkt, cur>>
      /\ crashed' \in {crashed, TRUE}
  BY DEF Aside, CleanStart, CleanSkip, CleanEnd, FromPotNoLink, trees, thread
<1>2. connlock' = connlock \/ (connlock \notin Threads /\ connlock' \in {None, "clean"})
  BY OutboundAssumption DEF Aside, CleanStart, CleanSkip, CleanEnd, FromPotNoLink
<1>3. todo' \subseteq DOMAIN conns
  BY DEF Aside, CleanStart, CleanSkip, CleanEnd, FromPotNoLink, Expired, InvType
<1>4. \E n \in 0 .. MaxConns : conns' \in [1 .. n -> Records]
  BY <1>1 DEF InvType
<1>5. \A d \in DOMAIN conns : Same(d)
  BY <1>1 DEF Same
<1> QED BY <1>1, <1>2, <1>3, <1>4, <1>5, CleanerKeeps DEF Part

LEMMA RemovedPart ==
  ASSUME NEW tree, NEW k
  PROVE  Part(Remove(tree, k), tree)
BY DEF Part, Remove

(* remove_conn() by destination and initiator. *)
LEMMA RemovedFacts ==
  ASSUME IInv, NEW c \in todo, CleanOne(c)
  PROVE  LET conn == conns[c]
         IN /\ c \in DOMAIN conns /\ connlock = "clean" /\ locked[c] = None
            /\ todo' = todo \ {c} /\ live' = live \ {c} /\ wire' = NoWire
            /\ UNCHANGED <<cfg, conns, locked, intra_handlers, connlock, pc, pkt, cur, crashed>>
            /\ \/ /\ conn.destination = "EXT"
                  /\ int_tree1' = Remove(int_tree1, IntKey(conn))
                  /\ int_tree2' = Remove(int_tree2, ExtKey(conn))
                  /\ UNCHANGED <<intra_tree1, intra_tree2>>
               \/ /\ conn.destination = "INTRA" /\ conn.initiator = "HIH"
                  /\ intra_tree1' = Remove(intra_tree1, IntKey(conn))
                  /\ intra_tree2' = Remove(intra_tree2, IntraKey(conn))
                  /\ UNCHANGED <<int_tree1, int_tree2>>
               \/ /\ conn.destination = "INTRA" /\ conn.initiator = "LIH"
                  /\ UNCHANGED <<int_tree1, int_tree2, intra_tree1, intra_tree2>>
<1>1. c \in DOMAIN conns /\ conns[c] \in Records
  BY ConnFacts DEF IInv, InvType
<1>2. conns[c].destination \in {"EXT", "INTRA"} /\ conns[c].initiator \in {"LIH", "HIH"}
  BY <1>1, RecordFacts
<1> QED BY <1>1, <1>2 DEF CleanOne, RemovedIntra, trees, thread

LEMMA CleanOneStep ==
  ASSUME IInv, NEW c \in todo, CleanOne(c)
  PROVE  IInv'
<1> USE DEF IInv
<1>1. /\ todo' = todo \ {c} /\ live' = live \ {c} /\ wire' = NoWire
      /\ UNCHANGED <<cfg, conns, locked, intra_handlers, connlock, pc, pkt, cur, crashed>>
  BY RemovedFacts
<1>2. /\ Part(int_tree1', int_tree1) /\ Part(int_tree2', int_tree2)
      /\ Part(intra_tree1', intra_tree1) /\ Part(intra_tree2', intra_tree2)
  <2>1. /\ Part(int_tree1, int_tree1) /\ Part(int_tree2, int_tree2)
        /\ Part(intra_tree1, intra_tree1) /\ Part(intra_tree2, intra_tree2)
    BY DEF Part
  <2> QED BY <2>1, RemovedFacts, RemovedPart
<1>3. \E n \in 0 .. MaxConns : conns' \in [1 .. n -> Records]
  BY <1>1 DEF InvType
<1>4. todo' \subseteq DOMAIN conns /\ live' \subseteq live
  BY <1>1 DEF InvType
<1>5. \A d \in DOMAIN conns : Same(d)
  BY <1>1 DEF Same
<1> QED BY <1>1, <1>2, <1>3, <1>4, <1>5, CleanerKeeps
-----------------------------------------------------------------------------
(* The end of a turn.                                                      *)

(* The thread is idle again and holds nothing. *)
Ends(t) ==
  /\ pc[t] \in {"create", "process", "switch"}
  /\ pc' = [pc EXCEPT ![t] = "idle"] /\ pkt' = [pkt EXCEPT ![t] = NoPkt]
  /\ cur' = [cur EXCEPT ![t] = 0] /\ connlock' = connlock
  /\ locked' = IF pc[t] = "create" THEN locked ELSE [locked EXCEPT ![cur[t]] = None]

LEMMA EndFacts ==
  ASSUME IInv, NEW t \in Threads, Ends(t), DOMAIN conns' = DOMAIN conns
  PROVE  /\ InvThreads'
         /\ pc' \in [Threads -> Places] /\ pkt' \in [Threads -> Packets]
         /\ cur' \in [Threads -> 0 .. MaxConns] /\ locked' \in [Ids -> Threads \cup {None}]
         /\ pc'[t] = "idle" /\ cur'[t] = 0
         /\ \A u \in Threads : u # t => pc'[u] = pc[u] /\ pkt'[u] = pkt[u] /\ cur'[u] = cur[u]
<1> USE DEF IInv
<1>1. /\ pc' \in [Threads -> Places] /\ pkt' \in [Threads -> Packets]
      /\ cur' \in [Threads -> 0 .. MaxConns]
      /\ pc'[t] = "idle" /\ pkt'[t] = NoPkt /\ cur'[t] = 0
      /\ \A u \in Threads : u # t => pc'[u] = pc[u] /\ pkt'[u] = pkt[u] /\ cur'[u] = cur[u]
  <2>1. /\ pc \in [Threads -> Places] /\ pkt \in [Threads -> Packets]
        /\ cur \in [Threads -> 0 .. MaxConns] /\ "idle" \in Places
        /\ NoPkt \in Packets /\ 0 \in 0 .. MaxConns
    BY OutboundAssumption, NoPktFacts DEF InvType, Places
  <2>2. /\ pc' = [pc EXCEPT ![t] = "idle"] /\ pkt' = [pkt EXCEPT ![t] = NoPkt]
        /\ cur' = [cur EXCEPT ![t] = 0]
    BY DEF Ends
  <2> QED BY <2>1, <2>2
<1>2. /\ locked' \in [Ids -> Threads \cup {None}]
      /\ \A c \in Ids : locked'[c] = IF locked[c] = t THEN None ELSE locked[c]
  <2>1. locked \in [Ids -> Threads \cup {None}] /\ None \notin Threads
    BY OutboundAssumption DEF InvType
  <2>2. CASE pc[t] = "create"
    <3>1. ASSUME NEW c \in Ids PROVE locked[c] # t
      BY <2>1, <2>2 DEF InvThreads
    <3> QED BY <2>1, <2>2, <3>1 DEF Ends
  <2>3. CASE pc[t] # "create"
    <3>1. cur[t] \in Ids /\ locked[cur[t]] = t
      BY <2>3, ConnFacts DEF Ends, InvThreads
    <3>2. ASSUME NEW c \in Ids, locked[c] = t PROVE c = cur[t]
      BY <2>1, <3>2 DEF InvThreads
    <3> QED BY <2>1, <2>3, <3>1, <3>2 DEF Ends
  <2> QED BY <2>2, <2>3
<1>3. connlock # t
  BY DEF Ends, InvThreads
<1>4. InvThreads'
  <2>1. ASSUME NEW u \in Threads
        PROVE  /\ pc'[u] # "idle" => pkt'[u].key \in Flows /\ HandledBy(pkt'[u].key) = u
               /\ pkt'[u].query => pkt'[u].key \in Queries
               /\ pc'[u] \in {"idle", "create"} <=> cur'[u] = 0
               /\ cur'[u] # 0 => cur'[u] \in DOMAIN conns'
               /\ pc'[u] = "wait" <=> connlock' = u
               /\ pc'[u] \in {"process", "switch"} => locked'[cur'[u]] = u
    <3>1. CASE u = t
      BY <1>1, <1>3, <3>1, NoPktFacts DEF Ends
    <3>2. CASE u # t
      <4>1. pc[u] \in {"process", "switch"} => locked[cur[u]] = u /\ cur[u] \in Ids
        BY ConnFacts, OutboundAssumption DEF InvThreads
      <4> QED BY <1>1, <1>2, <3>2, <4>1 DEF InvThreads, Ends
    <3> QED BY <3>1, <3>2
  <2>2. ASSUME NEW d \in Ids, locked'[d] # None
        PROVE  cur'[locked'[d]] = d /\ pc'[locked'[d]] \in {"process", "switch"}
    <3>1. locked'[d] = locked[d] /\ locked[d] \in Threads /\ locked[d] # t
      BY <1>2, <2>2 DEF InvType
    <3> QED BY <1>1, <2>2, <3>1 DEF InvThreads
  <2> QED BY <2>1, <2>2 DEF InvThreads, HandledBy, FromExt
<1> QED BY <1>1, <1>2, <1>4

(* Steps that end a turn and move no connection. *)
LEMMA EndKeeps ==
  ASSUME IInv, NEW t \in Threads, Ends(t), pc[t] # "switch",
         UNCHANGED <<cfg, live, int_tree1, int_tree2, intra_tree1, intra_tree2, intra_handlers,
                     todo>>,
         wire'.conn \in 0 .. MaxConns, crashed' \in BOOLEAN,
         \E n \in 0 .. MaxConns : conns' \in [1 .. n -> Records], DOMAIN conns' = DOMAIN conns,
         \A c \in DOMAIN conns : Same(c),
         \A c \in DOMAIN conns : conns'[c] = conns[c] \/ Settled(conns'[c]),
         pc[t] = "process" => Settled(conns'[cur[t]])
  PROVE  IInv'
<1> USE DEF IInv
<1>1. /\ InvThreads'
      /\ pc' \in [Threads -> Places] /\ pkt' \in [Threads -> Packets]
      /\ cur' \in [Threads -> 0 .. MaxConns] /\ locked' \in [Ids -> Threads \cup {None}]
      /\ pc'[t] = "idle" /\ cur'[t] = 0
      /\ \A u \in Threads : u # t => pc'[u] = pc[u] /\ pkt'[u] = pkt[u] /\ cur'[u] = cur[u]
  BY EndFacts
<1>2. InvType'
  <2>1. connlock' \in Threads \cup {None, "clean"} /\ todo' \subseteq DOMAIN conns
    BY DEF Ends, InvType
  <2> QED BY <1>1, <2>1, TypeKeeps DEF Part
<1>3. InvStates'
  <2>1. ASSUME NEW c \in DOMAIN conns, ~Settled(conns'[c])
        PROVE  /\ conns'[c] = conns[c]
               /\ \A u \in Threads : cur[u] = c /\ pc[u] = "process" =>
                    cur'[u] = c /\ pc'[u] = "process" /\ pkt'[u] = pkt[u]
    BY <1>1, <2>1
  <2> QED BY <2>1, StatesKeep
<1>4. InvFiled'
  BY <1>1, FiledKeeps DEF Part
<1>5. InvKeys' /\ InvSwitch'
  BY <1>1, KeysKeep DEF InvThreads
<1> QED BY <1>1, <1>2, <1>3, <1>4, <1>5

GivesUp(t) == Skip(t) \/ Refuse(t) \/ RefuseIntra(t)

LEMMA GiveUpFacts ==
  ASSUME IInv, NEW t \in Threads, GivesUp(t)
  PROVE  /\ pc[t] = "create" /\ Ends(t) /\ wire' = NoWire /\ crashed' \in BOOLEAN
         /\ UNCHANGED <<cfg, conns, live, int_tree1, int_tree2, intra_tree1, intra_tree2,
                        intra_handlers, connlock, cur, todo>>
<1> USE DEF IInv
<1>1. pc[t] = "create" /\ GiveUp(t)
  BY DEF GivesUp, Skip, Refuse, RefuseIntra
<1>2. crashed' \in BOOLEAN
  <2>1. CASE Skip(t) \/ Refuse(t)
    BY <2>1 DEF Skip, Refuse, InvType
  <2>2. CASE RefuseIntra(t)
    BY <2>2 DEF RefuseIntra
  <2> QED BY <2>1, <2>2 DEF GivesUp
<1>3. cur[t] = 0 /\ cur \in [Threads -> 0 .. MaxConns]
  BY <1>1 DEF InvThreads, InvType
<1>4. cur = [cur EXCEPT ![t] = 0]
  BY <1>3
<1> QED BY <1>1, <1>2, <1>4 DEF GiveUp, Ends, trees

LEMMA GiveUpStep ==
  ASSUME IInv, NEW t \in Threads, GivesUp(t)
  PROVE  IInv'
<1>1. /\ pc[t] = "create" /\ Ends(t) /\ wire' = NoWire /\ crashed' \in BOOLEAN
      /\ UNCHANGED <<cfg, conns, live, int_tree1, int_tree2, intra_tree1, intra_tree2,
                     intra_handlers, todo>>
  BY GiveUpFacts
<1>2. \E n \in 0 .. MaxConns : conns' \in [1 .. n -> Records]
  BY <1>1 DEF IInv, InvType
<1>3. \A c \in DOMAIN conns : Same(c)
  BY <1>1 DEF Same
<1> QED BY <1>1, <1>2, <1>3, NoWireFacts, EndKeeps
-----------------------------------------------------------------------------
(* The turns of de_thread() that relay a packet or free it.                *)

Relay(t) ==
  \/ Dropped(t) \/ Discard(t) \/ FromOutside(t) \/ FromInside(t) \/ FromPot(t) \/ Deny(t)
  \/ \E v \in Results \cup {"NO_RULE", "DROP"} : Control(t, v)

Sides == {"EXT", "LIH", "HIH", "INTRA", None}

(* The connection is left as r, and the packet goes to the side to. *)
Relayed(t, r, to) ==
  /\ pc[t] = "process" /\ Finish(t, r, to) /\ UNCHANGED <<trees, intra_handlers>>
  /\ Kept(r, conns[cur[t]]) /\ Settled(r)
  /\ to # None =>
       /\ ~r.rejected /\ ~(cfg.deny_hih_init /\ r.initiator = "HIH")
       /\ r.initiator = "HIH" /\ r.destination = "INTRA" /\ r.state = "PROXY" =>
            \/ Origin(pkt[t].key) \in {"LIH", "HIH"} /\ to = "INTRA"
            \/ Origin(pkt[t].key) = "INTRA" /\ to = "HIH"
            \/ Origin(pkt[t].key) = "EXT"

LEMMA TurnFacts ==
  ASSUME IInv, NEW t \in Threads, pc[t] = "process"
  PROVE  LET conn == conns[cur[t]]
         IN /\ cur[t] \in DOMAIN conns /\ conn \in Records /\ Kept(conn, conn)
            /\ conn.rejected => conn.state = "DROP"
            /\ cfg.deny_hih_init /\ conn.initiator = "HIH" => conn.state \in {"INIT", "DROP"}
            /\ conn.state = "INIT" =>
                 conn.initiator = "HIH" /\ Origin(pkt[t].key) = "HIH" /\ pkt[t].key = conn.first
<1> USE DEF IInv
<1> DEFINE c == cur[t]
           conn == conns[c]
<1>1. c \in DOMAIN conns /\ conn \in Records /\ locked[c] = t
  BY ConnFacts DEF InvThreads
<1>2. conn.state = "INIT" => conn.initiator = "HIH" /\ pkt[t].key = conn.first
  BY <1>1 DEF InvStates, InvThreads
<1>3. conn.state = "INIT" => Origin(pkt[t].key) = "HIH"
  BY <1>1, <1>2, OriginFacts DEF InvStates
<1> QED BY <1>1, <1>2, <1>3 DEF InvStates, Kept

LEMMA ControlFacts ==
  ASSUME IInv, NEW t \in Threads, NEW v \in Results \cup {"NO_RULE", "DROP"}, Control(t, v)
  PROVE  \E r \in Records, to \in Sides : Relayed(t, r, to)
<1> DEFINE conn == conns[cur[t]]
           s == StateAfter(conn.state, v)
           to == IF Let(v) THEN Way(conn) ELSE None
<1>0. PICK b \in BOOLEAN : b = (conn.rejected \/ ~Let(v))
  OBVIOUS
<1> DEFINE r == [conn EXCEPT !.state = s, !.rejected = b]
<1>1. /\ pc[t] = "process" /\ v \in Verdicts(conn) /\ Finish(t, r, to)
      /\ UNCHANGED <<trees, intra_handlers>>
      /\ conn.state = "CONTROL" \/ (conn.state = "INIT" /\ ~cfg.deny_hih_init)
  BY <1>0 DEF Control, InControl, Turn
<1>2. /\ conn \in Records
      /\ conn.rejected => conn.state = "DROP"
      /\ cfg.deny_hih_init /\ conn.initiator = "HIH" => conn.state \in {"INIT", "DROP"}
  BY <1>1, TurnFacts
<1>3. s \in {"PROXY", "DROP", "CONTROL"} /\ s \in States
  BY DEF StateAfter, States
<1>5. ~conn.rejected /\ (b <=> ~Let(v))
  BY <1>0, <1>1, <1>2
<1>6. ~(cfg.deny_hih_init /\ conn.initiator = "HIH")
  BY <1>1, <1>2
<1>7. ~Let(v) => s = "DROP"
  BY DEF Let, StateAfter, Results
<1>8. s = "PROXY" => conn.destination = "EXT"
  BY <1>1 DEF StateAfter, Verdicts
<1>9. to \in Sides
  BY DEF Way, Sides
<1> HIDE DEF s, to
<1>10. Kept(r, conn) /\ r.state = s /\ r.rejected = b
  <2> HIDE DEF conn
  <2>1. s \in States /\ conn \in Records
    BY <1>2, <1>3
  <2> HIDE DEF s
  <2> QED BY <2>1 DEF Records, Kept
<1> HIDE DEF r
<1>11. r.initiator = conn.initiator /\ r.destination = conn.destination /\ r \in Records
  BY <1>10 DEF Kept
<1>12. Settled(r)
  BY <1>3, <1>5, <1>6, <1>7, <1>10, <1>11 DEF Settled
<1>13. to # None => ~r.rejected
  BY <1>5, <1>10 DEF to
<1>14. Relayed(t, r, to)
  BY <1>1, <1>6, <1>8, <1>10, <1>11, <1>12, <1>13 DEF Relayed
<1> QED BY <1>9, <1>11, <1>14

LEMMA RelayFacts ==
  ASSUME IInv, NEW t \in Threads, Relay(t)
  PROVE  \E r \in Records, to \in Sides : Relayed(t, r, to)
<1> DEFINE conn == conns[cur[t]]
<1>1. ASSUME pc[t] = "process"
      PROVE  /\ conn \in Records /\ Kept(conn, conn)
             /\ conn.rejected => conn.state = "DROP"
             /\ cfg.deny_hih_init /\ conn.initiator = "HIH" => conn.state \in {"INIT", "DROP"}
             /\ conn.state = "INIT" => conn.initiator = "HIH" /\ Origin(pkt[t].key) = "HIH"
  BY <1>1, TurnFacts
<1>2. CASE Dropped(t) \/ Discard(t)
  <2>1. /\ pc[t] = "process" /\ Finish(t, conn, None) /\ UNCHANGED <<trees, intra_handlers>>
        /\ conn.state = "DROP" \/ Origin(pkt[t].key) = "INTRA"
        /\ conn.state \in {"DROP", "INIT", "CONTROL"}
    BY <1>2 DEF Dropped, Discard, Turn
  <2>2. Settled(conn)
    BY <1>1, <2>1 DEF Settled
  <2>3. Relayed(t, conn, None) /\ conn \in Records
    BY <1>1, <2>1, <2>2 DEF Relayed
  <2> QED BY <2>3 DEF Sides
<1>3. CASE FromOutside(t)
  <2>1. /\ pc[t] = "process" /\ Finish(t, conn, conn.initiator)
        /\ UNCHANGED <<trees, intra_handlers>>
        /\ conn.state \in {"CONTROL", "PROXY"} /\ Origin(pkt[t].key) = "EXT"
    BY <1>3 DEF FromOutside, Turn
  <2>2. Settled(conn) /\ ~conn.rejected /\ ~(cfg.deny_hih_init /\ conn.initiator = "HIH")
    BY <1>1, <2>1 DEF Settled
  <2>3. Relayed(t, conn, conn.initiator) /\ conn \in Records
    BY <1>1, <2>1, <2>2 DEF Relayed
  <2>4. conn.initiator \in Sides
    BY <2>3, RecordFacts DEF Sides
  <2> QED BY <2>3, <2>4
<1>4. CASE FromInside(t)
  <2> DEFINE to == IF conn.initiator = "HIH" THEN "HIH" ELSE None
  <2>1. /\ pc[t] = "process" /\ Finish(t, conn, to)
        /\ UNCHANGED <<trees, intra_handlers>>
        /\ conn.state = "PROXY" /\ Origin(pkt[t].key) = "INTRA"
    BY <1>4 DEF FromInside, Turn
  <2>2. Settled(conn) /\ ~conn.rejected /\ ~(cfg.deny_hih_init /\ conn.initiator = "HIH")
    BY <1>1, <2>1 DEF Settled
  <2>3. Relayed(t, conn, to) /\ conn \in Records
    BY <1>1, <2>1, <2>2 DEF Relayed
  <2>4. to \in Sides
    BY DEF Sides
  <2> QED BY <2>3, <2>4
<1>5. CASE FromPot(t)
  <2>1. /\ pc[t] = "process" /\ Finish(t, conn, Proxy(conn))
        /\ UNCHANGED <<trees, intra_handlers>>
        /\ conn.state = "PROXY" /\ Origin(pkt[t].key) \in {"LIH", "HIH"}
    BY <1>5 DEF FromPot, Turn
  <2>2. Settled(conn) /\ ~conn.rejected /\ ~(cfg.deny_hih_init /\ conn.initiator = "HIH")
    BY <1>1, <2>1 DEF Settled
  <2>3. conn.initiator = "HIH" /\ conn.destination = "INTRA" => Proxy(conn) = "INTRA"
    BY DEF Proxy
  <2>4. Relayed(t, conn, Proxy(conn)) /\ conn \in Records
    BY <1>1, <2>1, <2>2, <2>3 DEF Relayed
  <2>5. Proxy(conn) \in Sides
    BY DEF Sides, Proxy
  <2> QED BY <2>4, <2>5
<1>6. CASE Deny(t)
  <2> DEFINE r == [conn EXCEPT !.state = "DROP"]
  <2>1. /\ pc[t] = "process" /\ Finish(t, r, None) /\ UNCHANGED <<trees, intra_handlers>>
    BY <1>6 DEF Deny, Turn
  <2>2. Kept(r, conn) /\ r.state = "DROP"
    BY <1>1, <2>1, DropFacts DEF States
  <2> HIDE DEF r
  <2>3. Settled(r) /\ r \in Records
    BY <2>2 DEF Settled, Kept
  <2>4. Relayed(t, r, None)
    BY <2>1, <2>2, <2>3 DEF Relayed
  <2> QED BY <2>3, <2>4 DEF Sides
<1> QED BY <1>2, <1>3, <1>4, <1>5, <1>6, ControlFacts DEF Relay

LEMMA RelayStep ==
  ASSUME IInv, NEW t \in Threads, Relay(t)
  PROVE  IInv'
<1> USE DEF IInv
<1>1. PICK r \in Records, to \in Sides : Relayed(t, r, to)
  BY RelayFacts
<1> DEFINE c == cur[t]
<1>2. /\ pc[t] = "process" /\ conns' = [conns EXCEPT ![c] = r]
      /\ Kept(r, conns[c]) /\ Settled(r)
      /\ wire' = NoWire \/ wire'.conn = c
      /\ UNCHANGED <<cfg, live, int_tree1, int_tree2, intra_tree1, intra_tree2, intra_handlers,
                     todo, crashed>>
  BY <1>1 DEF Relayed, Finish, trees
<1>3. Ends(t)
  BY <1>1 DEF Relayed, Finish, Ends
<1>4. c \in DOMAIN conns /\ c \in 0 .. MaxConns
  BY <1>2, ConnFacts DEF InvThreads
<1>5. /\ DOMAIN conns' = DOMAIN conns /\ conns'[c] = r
      /\ \A d \in DOMAIN conns : d # c => conns'[d] = conns[d]
      /\ \E n \in 0 .. MaxConns : conns' \in [1 .. n -> Records]
  BY <1>2, <1>4, UpdateFacts
<1>6. \A d \in DOMAIN conns : Same(d)
  BY <1>2, <1>5 DEF Same, Kept
<1>7. wire'.conn \in 0 .. MaxConns /\ crashed' \in BOOLEAN
  BY <1>2, <1>4, NoWireFacts DEF InvType
<1> QED BY <1>2, <1>3, <1>5, <1>6, <1>7, EndKeeps
-----------------------------------------------------------------------------
(* create_conn().                                                          *)

(* The entries of a tree are those of another and perhaps a new one. *)
Grown(tree, of, new, k, c) ==
  \A x \in DOMAIN tree : \/ x \in DOMAIN of /\ tree[x] = of[x]
                         \/ new /\ x = k /\ tree[x] = c

LEMMA InsertGrows ==
  ASSUME NEW tree, NEW k, NEW c
  PROVE  Grown(Insert(tree, k, c), tree, TRUE, k, c)
BY DEF Grown, Insert

(* A connection that thread t creates as the record conn under the id c. *)
Created(t, conn, c) ==
  /\ c \in Ids /\ c \notin DOMAIN conns /\ c \in 0 .. MaxConns /\ c # 0
  /\ DOMAIN conns' = DOMAIN conns \cup {c} /\ conns'[c] = conn
  /\ \A d \in DOMAIN conns : conns'[d] = conns[d]
  /\ \E n \in 0 .. MaxConns : conns' \in [1 .. n -> Records]
  /\ live' = live \cup {c}
  /\ locked' \in [Ids -> Threads \cup {None}] /\ locked'[c] = t
  /\ \A d \in Ids : d # c => locked'[d] = locked[d]
  /\ pc' \in [Threads -> Places] /\ pkt' = pkt /\ cur' \in [Threads -> 0 .. MaxConns]
  /\ pc[t] = "create" /\ pc'[t] = "process" /\ cur'[t] = c
  /\ \A u \in Threads : u # t => pc'[u] = pc[u] /\ cur'[u] = cur[u]
  /\ wire' = NoWire
  /\ UNCHANGED <<cfg, intra_handlers, connlock, todo, crashed>>

LEMMA AllocateFacts ==
  ASSUME IInv, NEW t \in Threads, NEW conn \in Records, Allocate(t, conn), pc[t] = "create"
  PROVE  Created(t, conn, Cardinality(DOMAIN conns) + 1)
<1> USE DEF IInv
<1>1. PICK n \in 0 .. MaxConns : conns \in [1 .. n -> Records]
  BY DEF InvType
<1>2. MaxConns \in Nat /\ n \in Nat /\ DOMAIN conns = 1 .. n
  BY <1>1, OutboundAssumption
<1>3. Cardinality(DOMAIN conns) = n
  BY <1>2, FS_Interval
<1> DEFINE c == n + 1
<1>4. /\ c <= MaxConns /\ conns' = Insert(conns, c, conn) /\ live' = live \cup {c}
      /\ locked' = [locked EXCEPT ![c] = t] /\ cur' = [cur EXCEPT ![t] = c]
      /\ pc' = [pc EXCEPT ![t] = "process"] /\ wire' = NoWire
      /\ UNCHANGED <<cfg, intra_handlers, connlock, pkt, todo, crashed>>
  BY <1>3 DEF Allocate
<1>5. c \in Ids /\ c \notin DOMAIN conns /\ c \in 0 .. MaxConns /\ c # 0
  BY <1>2, <1>4 DEF Ids
<1>6. 1 .. c = DOMAIN conns \cup {c}
  BY <1>2
<1> HIDE DEF c
<1>7. /\ DOMAIN conns' = DOMAIN conns \cup {c} /\ conns'[c] = conn
      /\ \A d \in DOMAIN conns : conns'[d] = conns[d]
      /\ conns' \in [1 .. c -> Records]
  BY <1>1, <1>4, <1>5, <1>6 DEF Insert
<1>8. /\ locked' \in [Ids -> Threads \cup {None}] /\ locked'[c] = t
      /\ \A d \in Ids : d # c => locked'[d] = locked[d]
  BY <1>4, <1>5 DEF InvType
<1>9. /\ pc' \in [Threads -> Places] /\ cur' \in [Threads -> 0 .. MaxConns]
      /\ pc'[t] = "process" /\ cur'[t] = c
      /\ \A u \in Threads : u # t => pc'[u] = pc[u] /\ cur'[u] = cur[u]
  BY <1>4, <1>5 DEF InvType, Places
<1>10. Created(t, conn, c)
  BY <1>4, <1>5, <1>7, <1>8, <1>9 DEF Created
<1> QED BY <1>3, <1>10 DEF c

(* The record of a new connection. *)
LEMMA ConnRecord ==
  ASSUME NEW k \in Flows, k.src \in Pots, NEW destination \in {"EXT", "INTRA"},
         NEW handler \in Handlers
  PROVE  LET conn == Conn(k, destination, handler)
         IN /\ conn \in Records /\ conn.first = k
            /\ conn.initiator = IF k.src = Lih THEN "LIH" ELSE "HIH"
            /\ conn.state = IF k.src = Lih THEN "CONTROL" ELSE "INIT"
            /\ conn.destination = destination /\ conn.intra_handler = handler
            /\ ~conn.rejected
BY DEF Conn, Records, States

(* The new connection enters the trees of its destination, or none. *)
Filed(t, destination, handler) ==
  LET k == pkt[t].key
      conn == Conn(k, destination, handler)
      c == Cardinality(DOMAIN conns) + 1
      out == destination = "EXT"
      in == destination = "INTRA" /\ handler # NoHandler
  IN /\ pc[t] = "create" /\ k.src \in Pots /\ Allocate(t, conn)
     /\ destination \in {"EXT", "INTRA"} /\ handler \in Handlers
     /\ destination = "INTRA" => k.src # Lih
     /\ Grown(int_tree1', int_tree1, out, IntKey(conn), c)
     /\ Grown(int_tree2', int_tree2, out, ExtKey(conn), c)
     /\ Grown(intra_tree1', intra_tree1, in, IntKey(conn), c)
     /\ Grown(intra_tree2', intra_tree2, in, IntraKey(conn), c)

LEMMA UnchangedGrows ==
  ASSUME NEW tree, NEW new, NEW k, NEW c
  PROVE  Grown(tree, tree, new, k, c)
BY DEF Grown

LEMMA OpenFacts ==
  ASSUME IInv, NEW t \in Threads
  PROVE  /\ OpenExt(t) => Filed(t, "EXT", NoHandler)
         /\ OpenIntra(t) => Filed(t, "INTRA", intra_handlers[pkt[t].key.dst])
         /\ OpenLan(t) => Filed(t, "INTRA", NoHandler)
<1> DEFINE k == pkt[t].key
           c == Cardinality(DOMAIN conns) + 1
<1>1. NoHandler \in Handlers
  BY DEF Handlers
<1>2. ASSUME NEW conn, Allocate(t, conn) PROVE cur'[t] = c
  BY <1>2 DEF Allocate, IInv, InvType
<1>3. ASSUME OpenExt(t) PROVE Filed(t, "EXT", NoHandler)
  <2> DEFINE conn == Conn(k, "EXT", NoHandler)
  <2>1. /\ pc[t] = "create" /\ k.src \in Pots /\ Allocate(t, conn)
        /\ int_tree1' = Insert(int_tree1, IntKey(conn), c)
        /\ int_tree2' = Insert(int_tree2, ExtKey(conn), c)
        /\ UNCHANGED <<intra_tree1, intra_tree2>>
    BY <1>2, <1>3 DEF OpenExt
  <2>2. /\ Grown(int_tree1', int_tree1, TRUE, IntKey(conn), c)
        /\ Grown(int_tree2', int_tree2, TRUE, ExtKey(conn), c)
    BY <2>1, InsertGrows
  <2>3. /\ Grown(intra_tree1', intra_tree1, FALSE, IntKey(conn), c)
        /\ Grown(intra_tree2', intra_tree2, FALSE, IntraKey(conn), c)
    BY <2>1, UnchangedGrows
  <2> HIDE DEF c
  <2>4. Filed(t, "EXT", NoHandler)
    BY <1>1, <2>1, <2>2, <2>3 DEF Filed, Grown, c
  <2> QED BY <2>4
<1>4. ASSUME OpenIntra(t) PROVE Filed(t, "INTRA", intra_handlers[k.dst])
  <2> DEFINE h == intra_handlers[k.dst]
             conn == Conn(k, "INTRA", h)
  <2>1. /\ pc[t] = "create" /\ k.src \in Pots /\ Allocate(t, conn)
        /\ intra_tree1' = Insert(intra_tree1, IntKey(conn), c)
        /\ intra_tree2' = Insert(intra_tree2, IntraKey(conn), c)
        /\ UNCHANGED <<int_tree1, int_tree2>> /\ Destination(k) = "INTRA"
    BY <1>2, <1>4 DEF OpenIntra
  <2>2. /\ Grown(intra_tree1', intra_tree1, TRUE, IntKey(conn), c)
        /\ Grown(intra_tree2', intra_tree2, TRUE, IntraKey(conn), c)
    BY <2>1, InsertGrows
  <2>3. /\ Grown(int_tree1', int_tree1, FALSE, IntKey(conn), c)
        /\ Grown(int_tree2', int_tree2, FALSE, ExtKey(conn), c)
    BY <2>1, UnchangedGrows
  <2>4. k.dst \in DOMAIN intra_handlers /\ k.src # Lih
    BY <2>1 DEF Destination
  <2>5. h \in Handlers /\ h # NoHandler
    BY <2>4 DEF IInv, InvType
  <2> HIDE DEF c, h
  <2>6. Filed(t, "INTRA", h)
    BY <2>1, <2>2, <2>3, <2>4, <2>5 DEF Filed, Grown, c
  <2> QED BY <2>6 DEF h
<1>5. ASSUME OpenLan(t) PROVE Filed(t, "INTRA", NoHandler)
  <2> DEFINE conn == Conn(k, "INTRA", NoHandler)
  <2>1. /\ pc[t] = "create" /\ k.src \in Pots /\ Allocate(t, conn)
        /\ UNCHANGED <<int_tree1, int_tree2, intra_tree1, intra_tree2>>
        /\ Destination(k) = "LAN"
    BY <1>5 DEF OpenLan, trees
  <2>2. /\ Grown(int_tree1', int_tree1, FALSE, IntKey(conn), c)
        /\ Grown(int_tree2', int_tree2, FALSE, ExtKey(conn), c)
        /\ Grown(intra_tree1', intra_tree1, FALSE, IntKey(conn), c)
        /\ Grown(intra_tree2', intra_tree2, FALSE, IntraKey(conn), c)
    BY <2>1, UnchangedGrows
  <2>3. k.src # Lih
    BY <2>1 DEF Destination
  <2> HIDE DEF c
  <2>4. Filed(t, "INTRA", NoHandler)
    BY <1>1, <2>1, <2>2, <2>3 DEF Filed, Grown, c
  <2> QED BY <2>4
<1> QED BY <1>3, <1>4, <1>5

LEMMA OpenStep ==
  ASSUME IInv, NEW t \in Threads, NEW destination, NEW handler, Filed(t, destination, handler)
  PROVE  IInv'
<1> USE DEF IInv
<1> DEFINE k == pkt[t].key
           conn == Conn(k, destination, handler)
           c == Cardinality(DOMAIN conns) + 1
           out == destination = "EXT"
           in == destination = "INTRA" /\ handler # NoHandler
<1>1. /\ pc[t] = "create" /\ k.src \in Pots /\ Allocate(t, conn)
      /\ destination \in {"EXT", "INTRA"} /\ handler \in Handlers
      /\ Grown(int_tree1', int_tree1, out, IntKey(conn), c)
      /\ Grown(int_tree2', int_tree2, out, ExtKey(conn), c)
      /\ Grown(intra_tree1', intra_tree1, in, IntKey(conn), c)
      /\ Grown(intra_tree2', intra_tree2, in, IntraKey(conn), c)
  BY DEF Filed
<1>2. k \in Flows /\ HandledBy(k) = t
  BY <1>1 DEF InvThreads
<1>3. /\ conn \in Records /\ conn.first = k
      /\ conn.initiator = (IF k.src = Lih THEN "LIH" ELSE "HIH")
      /\ conn.state = (IF k.src = Lih THEN "CONTROL" ELSE "INIT")
      /\ conn.destination = destination /\ conn.intra_handler = handler /\ ~conn.rejected
  BY <1>1, <1>2, ConnRecord
<1>4. Created(t, conn, c)
  BY <1>1, <1>3, AllocateFacts
<1> HIDE DEF c, conn, k
<1>5. /\ c \in Ids /\ c \notin DOMAIN conns /\ c \in 0 .. MaxConns /\ c # 0
      /\ DOMAIN conns' = DOMAIN conns \cup {c} /\ conns'[c] = conn
      /\ \A d \in DOMAIN conns : conns'[d] = conns[d]
      /\ \E n \in 0 .. MaxConns : conns' \in [1 .. n -> Records]
      /\ live' = live \cup {c}
  BY <1>4 DEF Created
<1>6. /\ locked' \in [Ids -> Threads \cup {None}] /\ locked'[c] = t
      /\ \A d \in Ids : d # c => locked'[d] = locked[d]
      /\ pc' \in [Threads -> Places] /\ pkt' = pkt /\ cur' \in [Threads -> 0 .. MaxConns]
      /\ pc'[t] = "process" /\ cur'[t] = c
      /\ \A u \in Threads : u # t => pc'[u] = pc[u] /\ cur'[u] = cur[u]
      /\ wire' = NoWire
      /\ UNCHANGED <<cfg, intra_handlers, connlock, todo, crashed>>
  BY <1>4 DEF Created
<1>7. \A u \in Threads : cur[u] # c
  BY <1>5 DEF InvThreads
<1>8. InvType'
  <2>1. /\ Values(int_tree1') \subseteq DOMAIN conns' /\ Values(int_tree2') \subseteq DOMAIN conns'
        /\ Values(intra_tree1') \subseteq DOMAIN conns'
        /\ Values(intra_tree2') \subseteq DOMAIN conns'
    BY <1>1, <1>5 DEF InvType, Values, Grown
  <2>2. (Values(int_tree1) \cup Values(int_tree2))' \subseteq DOMAIN conns'
    BY <2>1 DEF Values
  <2>3. (Values(intra_tree1) \cup Values(intra_tree2))' \subseteq DOMAIN conns'
    BY <2>1 DEF Values
  <2>4. live' \subseteq DOMAIN conns' /\ cfg' \in Configs /\ todo' \subseteq DOMAIN conns'
    BY <1>5, <1>6 DEF InvType
  <2>5. /\ \A a \in DOMAIN intra_handlers' : intra_handlers'[a] \in Handlers \ {NoHandler}
        /\ connlock' \in Threads \cup {None, "clean"} /\ pkt' \in [Threads -> Packets]
        /\ crashed' \in BOOLEAN /\ wire'.conn \in 0 .. MaxConns
    BY <1>6, NoWireFacts DEF InvType
  <2> QED BY <1>5, <1>6, <2>2, <2>3, <2>4, <2>5, Zenon DEF InvType
<1>9. InvThreads'
  <2>1. ASSUME NEW u \in Threads
        PROVE  /\ pc'[u] # "idle" => pkt'[u].key \in Flows /\ HandledBy(pkt'[u].key) = u
               /\ pkt'[u].query => pkt'[u].key \in Queries
               /\ pc'[u] \in {"idle", "create"} <=> cur'[u] = 0
               /\ cur'[u] # 0 => cur'[u] \in DOMAIN conns'
               /\ pc'[u] = "wait" <=> connlock' = u
               /\ pc'[u] \in {"process", "switch"} => locked'[cur'[u]] = u
    <3>1. CASE u = t
      BY <1>1, <1>5, <1>6, <3>1 DEF InvThreads
    <3>2. CASE u # t
      <4>1. pc[u] \in {"process", "switch"} => locked[cur[u]] = u /\ cur[u] \in Ids
        BY ConnFacts, OutboundAssumption DEF InvThreads
      <4> QED BY <1>5, <1>6, <1>7, <3>2, <4>1 DEF InvThreads
    <3> QED BY <3>1, <3>2
  <2>2. ASSUME NEW d \in Ids, locked'[d] # None
        PROVE  cur'[locked'[d]] = d /\ pc'[locked'[d]] \in {"process", "switch"}
    <3>1. CASE d = c
      BY <1>6, <3>1
    <3>2. CASE d # c
      <4>1. locked'[d] = locked[d] /\ locked[d] \in Threads /\ locked[d] # t
        BY <1>1, <1>6, <2>2, <3>2 DEF InvThreads, InvType
      <4> QED BY <1>6, <2>2, <4>1 DEF InvThreads
    <3> QED BY <3>1, <3>2
  <2> QED BY <2>1, <2>2 DEF InvThreads, HandledBy, FromExt
<1>10. InvStates'
  <2>1. ASSUME NEW d \in DOMAIN conns'
        PROVE
          /\ conns'[d].first.src \in Pots
          /\ conns'[d].initiator = "LIH" <=> conns'[d].first.src = Lih
          /\ conns'[d].rejected => conns'[d].state = "DROP"
          /\ cfg.deny_hih_init /\ conns'[d].initiator = "HIH" => conns'[d].state \in {"INIT", "DROP"}
          /\ conns'[d].state = "INIT" =>
               /\ conns'[d].initiator = "HIH"
               /\ \E u \in Threads : cur'[u] = d /\ pc'[u] = "process" /\ pkt'[u].key = conns'[d].first
    <3>1. CASE d = c
      BY <1>1, <1>3, <1>5, <1>6, <3>1 DEF k
    <3>2. CASE d # c
      <4>1. d \in DOMAIN conns /\ conns'[d] = conns[d]
        BY <1>5, <2>1, <3>2
      <4>2. \A u \in Threads : pc[u] = "process" => pc'[u] = "process" /\ cur'[u] = cur[u]
        BY <1>1, <1>6
      <4> QED BY <1>6, <4>1, <4>2 DEF InvStates
    <3> QED BY <3>1, <3>2
  <2> QED BY <1>6, <2>1 DEF InvStates
<1>11. InvSwitch'
  BY <1>5, <1>6 DEF InvSwitch, InvThreads
<1>12. InvKeys'
  <2>1. ASSUME NEW u \in Threads, cur'[u] # 0
        PROVE LET l == pkt'[u].key
                  r == conns'[cur'[u]]
              IN \/ l = IntKey(r) /\ (pc'[u] = "switch" => ~InLan(r))
                 \/ pc'[u] # "switch" /\ FromExt(l) /\ l = ExtKey(r) /\ r.destination = "EXT"
                 \/ /\ pc'[u] # "switch" /\ ~FromExt(l) /\ l = IntraKey(r)
                    /\ r.destination = "INTRA" /\ ~InLan(r)
    <3>1. CASE u = t
      BY <1>3, <1>5, <1>6, <3>1 DEF IntKey, k
    <3>2. CASE u # t
      <4>1. cur'[u] = cur[u] /\ cur[u] \in DOMAIN conns /\ pc'[u] = pc[u]
        BY <1>6, <2>1, <3>2 DEF InvThreads
      <4> QED BY <1>5, <1>6, <2>1, <4>1 DEF InvKeys
    <3> QED BY <3>1, <3>2
  <2> QED BY <2>1 DEF InvKeys, IntKey, ExtKey, IntraKey, InLan, FromExt
<1>13. InvFiled'
  <2>1. ASSUME NEW d \in DOMAIN conns'
        PROVE
      /\ \A x \in DOMAIN int_tree1' : int_tree1'[x] = d => Out(d)' /\ x = IntKey(conns'[d])
      /\ \A x \in DOMAIN int_tree2' : int_tree2'[x] = d => Out(d)' /\ x = ExtKey(conns'[d])
      /\ \A x \in DOMAIN intra_tree1' : intra_tree1'[x] = d => In(d)' /\ x = IntKey(conns'[d])
      /\ \A x \in DOMAIN intra_tree2' : intra_tree2'[x] = d => In(d)' /\ x = IntraKey(conns'[d])
    <3>1. CASE d = c
      <4>1. out => Out(d)'
        BY <1>3, <1>5, <3>1 DEF Out
      <4>2. in => In(d)'
        <5>1. ~Switching(d)'
          BY <1>6, <1>7, <3>1 DEF Switching
        <5> QED BY <1>3, <1>5, <3>1, <5>1 DEF In, InLan
      <4>3. /\ \A x \in DOMAIN int_tree1 : int_tree1[x] # c
            /\ \A x \in DOMAIN int_tree2 : int_tree2[x] # c
            /\ \A x \in DOMAIN intra_tree1 : intra_tree1[x] # c
            /\ \A x \in DOMAIN intra_tree2 : intra_tree2[x] # c
        BY <1>5 DEF InvType, Values
      <4> QED BY <1>1, <1>5, <3>1, <4>1, <4>2, <4>3 DEF Grown
    <3>2. CASE d # c
      <4>1. d \in DOMAIN conns /\ conns'[d] = conns[d]
        BY <1>5, <2>1, <3>2
      <4>2. Switching(d)' <=> Switching(d)
        BY <1>1, <1>6, <3>2 DEF Switching
      <4>3. (Out(d)' <=> Out(d)) /\ (In(d)' <=> In(d))
        BY <4>1, <4>2 DEF Out, In, InLan
      <4>4. /\ \A x \in DOMAIN int_tree1 : int_tree1[x] = d => Out(d) /\ x = IntKey(conns[d])
            /\ \A x \in DOMAIN int_tree2 : int_tree2[x] = d => Out(d) /\ x = ExtKey(conns[d])
            /\ \A x \in DOMAIN intra_tree1 : intra_tree1[x] = d => In(d) /\ x = IntKey(conns[d])
            /\ \A x \in DOMAIN intra_tree2 : intra_tree2[x] = d => In(d) /\ x = IntraKey(conns[d])
        BY <4>1 DEF InvFiled
      <4> QED BY <1>1, <3>2, <4>1, <4>3, <4>4 DEF Grown
    <3> QED BY <3>1, <3>2
  <2> QED BY <2>1 DEF InvFiled, IntKey, ExtKey, IntraKey
<1> QED BY <1>8, <1>9, <1>10, <1>11, <1>12, <1>13
-----------------------------------------------------------------------------
(* mod_dns_control() and switch_conn_to_intra().                           *)

LEMMA DnsHandlersFacts == \A h \in DnsHandlers : h.ip = DnsServer
BY DEF DnsHandlers

(* The handler for an address: the one it has, or a new one. *)
HandlerFor(a) == IF a \in DOMAIN intra_handlers THEN intra_handlers[a] ELSE DnsHandler

(* A thread that is about to move a connection has the packet that opened  *)
(* it, and the connection is settled.                                      *)
LEMMA DnsFacts ==
  ASSUME IInv, NEW t \in Threads, ControlDns(t)
  PROVE  LET c == cur[t]
             conn == conns[c]
             h == HandlerFor(pkt[t].key.dst)
             r == [conn EXCEPT !.state = "PROXY", !.destination = "INTRA", !.intra_handler = h]
         IN /\ pc[t] = "process" /\ c \in DOMAIN conns /\ conn \in Records
            /\ conn.destination = "EXT" /\ pkt[t].key = IntKey(conn)
            /\ ~conn.rejected /\ ~(cfg.deny_hih_init /\ conn.initiator = "HIH")
            /\ pkt[t].query /\ h \in Handlers \ {NoHandler} /\ conns' = [conns EXCEPT ![c] = r]
            /\ pc' = [pc EXCEPT ![t] = "switch"] /\ wire' = NoWire
            /\ intra_handlers' = AddIntraHandler(pkt[t].key.dst, HandlerFor(pkt[t].key.dst))
            /\ UNCHANGED <<cfg, live, locked, int_tree1, int_tree2, intra_tree1, intra_tree2,
                           connlock, pkt, cur, todo, crashed>>
            /\ \A a \in DOMAIN intra_handlers' : intra_handlers'[a] \in Handlers \ {NoHandler}
<1> USE DEF IInv
<1> DEFINE c == cur[t]
           conn == conns[c]
           a == pkt[t].key.dst
<1>1. /\ InControl(t) /\ SwitchesDns(t)
      /\ intra_handlers' = AddIntraHandler(a, HandlerFor(a))
      /\ conns' = [conns EXCEPT ![c] =
                     [conn EXCEPT !.state = "PROXY", !.destination = "INTRA",
                                  !.intra_handler = HandlerFor(a)]]
      /\ pc' = [pc EXCEPT ![t] = "switch"] /\ wire' = NoWire
      /\ UNCHANGED <<cfg, live, locked, int_tree1, int_tree2, intra_tree1, intra_tree2,
                     connlock, pkt, cur, todo, crashed>>
  BY DEF ControlDns, HandlerFor, trees
<1>2. /\ pc[t] = "process" /\ Origin(pkt[t].key) \in {"LIH", "HIH"}
      /\ conn.state = "CONTROL" \/ (conn.state = "INIT" /\ ~cfg.deny_hih_init)
      /\ conn.destination = "EXT" /\ pkt[t].query
  BY <1>1 DEF InControl, Turn, SwitchesDns
<1>3. c \in DOMAIN conns /\ conn \in Records /\ c # 0
  BY <1>2, ConnFacts DEF InvThreads
<1>4. ~conn.rejected /\ ~(cfg.deny_hih_init /\ conn.initiator = "HIH")
  BY <1>2, TurnFacts
<1>5. pkt[t].key = IntKey(conn)
  BY <1>2, <1>3, OriginFacts DEF InvKeys
<1>6. DnsHandler \in Handlers \ {NoHandler}
  <2>1. cfg.dns_iface \in BOOLEAN /\ DnsServer # None
    BY HandlersAssumption DEF InvType
  <2>2. DnsHandler \in DnsHandlers /\ DnsHandler.ip = DnsServer
    BY <2>1 DEF DnsHandlers, DnsHandler
  <2>3. NoHandler.ip = None
    BY DEF NoHandler
  <2> QED BY <2>1, <2>2, <2>3 DEF Handlers
<1>7. HandlerFor(a) \in Handlers \ {NoHandler}
  BY <1>6 DEF HandlerFor, InvType
<1>8. \A x \in DOMAIN intra_handlers' : intra_handlers'[x] \in Handlers \ {NoHandler}
  BY <1>1, <1>7 DEF AddIntraHandler, Insert, InvType
<1> QED BY <1>1, <1>2, <1>3, <1>4, <1>5, <1>7, <1>8

(* What mod_dns_control() leaves of a connection. *)
Moved(r, conn) ==
  /\ r \in Records /\ r.state = "PROXY" /\ r.destination = "INTRA"
  /\ r.intra_handler # NoHandler /\ r.rejected = conn.rejected
  /\ r.initiator = conn.initiator /\ r.first = conn.first

LEMMA MovedConn ==
  ASSUME IInv, NEW t \in Threads, ControlDns(t)
  PROVE  LET c == cur[t]
         IN /\ DOMAIN conns' = DOMAIN conns /\ Moved(conns'[c], conns[c])
            /\ \A d \in DOMAIN conns : d # c => conns'[d] = conns[d]
            /\ \E n \in 0 .. MaxConns : conns' \in [1 .. n -> Records]
<1> DEFINE c == cur[t]
           conn == conns[c]
           h == HandlerFor(pkt[t].key.dst)
           r == [conn EXCEPT !.state = "PROXY", !.destination = "INTRA", !.intra_handler = h]
<1>1. /\ c \in DOMAIN conns /\ conn \in Records /\ h \in Handlers /\ h # NoHandler
      /\ conns' = [conns EXCEPT ![c] = r]
  BY DnsFacts
<1> HIDE DEF h
<1>2. Moved(r, conn) /\ r \in Records
  <2> HIDE DEF conn, c
  <2>1. /\ r \in Records /\ r.state = "PROXY" /\ r.destination = "INTRA"
        /\ r.intra_handler = h /\ r.rejected = conn.rejected
        /\ r.initiator = conn.initiator /\ r.first = conn.first
    BY <1>1, MoveFacts
  <2> HIDE DEF r
  <2> QED BY <1>1, <2>1 DEF Moved
<1> HIDE DEF r
<1> QED BY <1>1, <1>2, UpdateFacts DEF IInv

LEMMA DnsStep ==
  ASSUME IInv, NEW t \in Threads, ControlDns(t)
  PROVE  IInv'
<1> USE DEF IInv
<1> DEFINE c == cur[t]
           conn == conns[c]
<1>1. /\ pc[t] = "process" /\ c \in DOMAIN conns /\ conn \in Records
      /\ conn.destination = "EXT" /\ pkt[t].key = IntKey(conn)
      /\ ~conn.rejected /\ ~(cfg.deny_hih_init /\ conn.initiator = "HIH")
      /\ pc' = [pc EXCEPT ![t] = "switch"] /\ wire' = NoWire
      /\ UNCHANGED <<cfg, live, locked, int_tree1, int_tree2, intra_tree1, intra_tree2,
                     connlock, pkt, cur, todo, crashed>>
      /\ \A a \in DOMAIN intra_handlers' : intra_handlers'[a] \in Handlers \ {NoHandler}
  BY DnsFacts
<1>2. /\ DOMAIN conns' = DOMAIN conns /\ Moved(conns'[c], conn)
      /\ \A d \in DOMAIN conns : d # c => conns'[d] = conns[d]
      /\ \E n \in 0 .. MaxConns : conns' \in [1 .. n -> Records]
  BY MovedConn
<1>3. /\ pc' \in [Threads -> Places] /\ pc'[t] = "switch"
      /\ \A u \in Threads : u # t => pc'[u] = pc[u]
  BY <1>1 DEF InvType, Places
<1>4. InvType'
  <2>1. /\ (Values(int_tree1) \cup Values(int_tree2))' \subseteq DOMAIN conns'
        /\ (Values(intra_tree1) \cup Values(intra_tree2))' \subseteq DOMAIN conns'
    BY <1>1, <1>2 DEF InvType, Values
  <2>2. /\ cfg' \in Configs /\ live' \subseteq DOMAIN conns' /\ todo' \subseteq DOMAIN conns'
        /\ locked' \in [Ids -> Threads \cup {None}] /\ connlock' \in Threads \cup {None, "clean"}
        /\ pkt' \in [Threads -> Packets] /\ cur' \in [Threads -> 0 .. MaxConns]
        /\ wire'.conn \in 0 .. MaxConns /\ crashed' \in BOOLEAN
    BY <1>1, <1>2, NoWireFacts DEF InvType
  <2> QED BY <1>1, <1>2, <1>3, <2>1, <2>2, Zenon DEF InvType
<1>5. InvThreads'
  <2>1. ASSUME NEW u \in Threads
        PROVE  /\ pc'[u] # "idle" => pkt'[u].key \in Flows /\ HandledBy(pkt'[u].key) = u
               /\ pkt'[u].query => pkt'[u].key \in Queries
               /\ pc'[u] \in {"idle", "create"} <=> cur'[u] = 0
               /\ cur'[u] # 0 => cur'[u] \in DOMAIN conns'
               /\ pc'[u] = "wait" <=> connlock' = u
               /\ pc'[u] \in {"process", "switch"} => locked'[cur'[u]] = u
    BY <1>1, <1>2, <1>3 DEF InvThreads
  <2>2. ASSUME NEW d \in Ids, locked'[d] # None
        PROVE  cur'[locked'[d]] = d /\ pc'[locked'[d]] \in {"process", "switch"}
    BY <1>1, <1>3, <2>2 DEF InvThreads, InvType
  <2> QED BY <2>1, <2>2 DEF InvThreads, HandledBy, FromExt
<1>6. \A u \in Threads : cur[u] = c /\ pc[u] \in {"process", "switch"} => u = t
  BY <1>1 DEF InvThreads
<1>7. InvStates'
  <2>1. ASSUME NEW d \in DOMAIN conns
        PROVE
          /\ conns'[d].first.src \in Pots
          /\ conns'[d].initiator = "LIH" <=> conns'[d].first.src = Lih
          /\ conns'[d].rejected => conns'[d].state = "DROP"
          /\ cfg.deny_hih_init /\ conns'[d].initiator = "HIH" => conns'[d].state \in {"INIT", "DROP"}
          /\ conns'[d].state = "INIT" =>
               /\ conns'[d].initiator = "HIH"
               /\ \E u \in Threads : cur'[u] = d /\ pc'[u] = "process" /\ pkt'[u].key = conns'[d].first
    <3>1. CASE d = c
      BY <1>1, <1>2, <3>1 DEF Moved, InvStates
    <3>2. CASE d # c
      <4>1. \A u \in Threads : cur[u] = d /\ pc[u] = "process" => pc'[u] = "process"
        BY <1>3, <3>2
      <4> QED BY <1>1, <1>2, <3>2, <4>1 DEF InvStates
    <3> QED BY <3>1, <3>2
  <2> QED BY <1>1, <1>2, <2>1 DEF InvStates
<1>8. InvSwitch'
  <2>1. ASSUME NEW u \in Threads, pc'[u] = "switch" PROVE conns'[cur'[u]].destination = "INTRA"
    <3>1. CASE u = t
      BY <1>1, <1>2, <3>1 DEF Moved
    <3>2. CASE u # t
      <4>1. pc[u] = "switch" /\ cur[u] # c /\ cur[u] \in DOMAIN conns
        BY <1>3, <1>6, <2>1, <3>2 DEF InvThreads
      <4> QED BY <1>1, <1>2, <4>1 DEF InvSwitch
    <3> QED BY <3>1, <3>2
  <2> QED BY <2>1 DEF InvSwitch
<1>9. InvKeys'
  <2>1. ASSUME NEW u \in Threads, cur'[u] # 0
        PROVE LET l == pkt'[u].key
                  r == conns'[cur'[u]]
              IN \/ l = IntKey(r) /\ (pc'[u] = "switch" => ~InLan(r))
                 \/ pc'[u] # "switch" /\ FromExt(l) /\ l = ExtKey(r) /\ r.destination = "EXT"
                 \/ /\ pc'[u] # "switch" /\ ~FromExt(l) /\ l = IntraKey(r)
                    /\ r.destination = "INTRA" /\ ~InLan(r)
    <3>0. cur'[u] = cur[u] /\ pkt'[u] = pkt[u] /\ cur[u] \in DOMAIN conns
      BY <1>1, <2>1 DEF InvThreads
    <3>1. CASE cur[u] # c
      <4>1. u # t /\ pc'[u] = pc[u] /\ conns'[cur[u]] = conns[cur[u]]
        BY <1>2, <1>3, <3>0, <3>1
      <4> QED BY <2>1, <3>0, <4>1 DEF InvKeys
    <3>2. CASE cur[u] = c
      <4>1. IntKey(conns'[c]) = IntKey(conn) /\ ~InLan(conns'[c])
        BY <1>2 DEF Moved, IntKey, InLan
      <4>2. pkt[u].key = IntKey(conn)
        <5>1. CASE u = t
          BY <1>1, <5>1
        <5>2. CASE u # t
          <6>1. HandledBy(pkt[u].key) = u /\ HandledBy(pkt[t].key) = t
            BY <1>1, <2>1, <3>0 DEF InvThreads
          <6>2. ASSUME FromExt(pkt[u].key), pkt[u].key = ExtKey(conn) PROVE FALSE
            <7>1. ~FromExt(IntKey(conn))
              BY <1>1, OriginFacts DEF InvStates, IntKey
            <7>2. HandledBy(IntKey(conn)) = HandledBy(ExtKey(conn))
              BY <6>2, <7>1 DEF HandledBy, IntKey, ExtKey, Key
            <7> QED BY <1>1, <5>2, <6>1, <6>2, <7>2
          <6> QED BY <1>1, <2>1, <3>0, <3>2, <6>2 DEF InvKeys
        <5> QED BY <5>1, <5>2
      <4> QED BY <3>0, <3>2, <4>1, <4>2
    <3> QED BY <3>1, <3>2
  <2> QED BY <2>1 DEF InvKeys, IntKey, ExtKey, IntraKey, InLan, FromExt
<1>10. InvFiled'
  <2>1. ASSUME NEW d \in DOMAIN conns
        PROVE
      /\ \A x \in DOMAIN int_tree1 : int_tree1[x] = d => Out(d)' /\ x = IntKey(conns'[d])
      /\ \A x \in DOMAIN int_tree2 : int_tree2[x] = d => Out(d)' /\ x = ExtKey(conns'[d])
      /\ \A x \in DOMAIN intra_tree1 : intra_tree1[x] = d => In(d)' /\ x = IntKey(conns'[d])
      /\ \A x \in DOMAIN intra_tree2 : intra_tree2[x] = d => In(d)' /\ x = IntraKey(conns'[d])
    <3>1. CASE d = c
      <4>1. Out(c)' /\ IntKey(conns'[c]) = IntKey(conn) /\ ExtKey(conns'[c]) = ExtKey(conn)
        BY <1>1, <1>2, <1>3 DEF Out, Switching, Moved, IntKey, ExtKey
      <4>2. ~In(c)
        BY <1>1 DEF In
      <4> QED BY <1>1, <3>1, <4>1, <4>2 DEF InvFiled
    <3>2. CASE d # c
      <4>1. Switching(d)' <=> Switching(d)
        BY <1>1, <1>3, <3>2 DEF Switching
      <4>2. (Out(d)' <=> Out(d)) /\ (In(d)' <=> In(d))
        BY <1>2, <3>2, <4>1 DEF Out, In, InLan
      <4> QED BY <1>2, <3>2, <4>2 DEF InvFiled
    <3> QED BY <3>1, <3>2
  <2> QED BY <1>1, <1>2, <2>1 DEF InvFiled, IntKey, ExtKey, IntraKey
<1> QED BY <1>4, <1>5, <1>7, <1>8, <1>9, <1>10

LEMMA SwitchFacts ==
  ASSUME IInv, NEW t \in Threads, SwitchToIntra(t)
  PROVE  LET c == cur[t]
             conn == conns[c]
         IN /\ pc[t] = "switch" /\ connlock = None /\ c \in DOMAIN conns /\ conn \in Records
            /\ conn.destination = "INTRA" /\ ~InLan(conn) /\ conns' = conns /\ Ends(t)
            /\ int_tree1' = Remove(int_tree1, IntKey(conn))
            /\ int_tree2' = Remove(int_tree2, ExtKey(conn))
            /\ intra_tree1' = Insert(intra_tree1, IntKey(conn), c)
            /\ intra_tree2' = Insert(intra_tree2, IntraKey(conn), c)
            /\ wire' = NoWire
            /\ UNCHANGED <<cfg, live, connlock, todo, crashed, intra_handlers>>
            /\ \A u \in Threads : cur[u] = c /\ pc[u] \in {"process", "switch"} => u = t
<1> USE DEF IInv
<1> DEFINE c == cur[t]
           conn == conns[c]
<1>1. /\ pc[t] = "switch" /\ connlock = None /\ Finish(t, conn, None)
      /\ int_tree1' = Remove(int_tree1, IntKey(conn))
      /\ int_tree2' = Remove(int_tree2, ExtKey(conn))
      /\ intra_tree1' = Insert(intra_tree1, IntKey(conn), c)
      /\ intra_tree2' = Insert(intra_tree2, IntraKey(conn), c)
      /\ UNCHANGED intra_handlers
  BY DEF SwitchToIntra, ReplyTreeWithout
<1>2. c \in DOMAIN conns /\ conn \in Records /\ c # 0
  BY <1>1, ConnFacts DEF InvThreads
<1>3. conns' = conns
  <2>1. conns' = [conns EXCEPT ![c] = conns[c]]
    BY <1>1 DEF Finish
  <2>2. conns \in [DOMAIN conns -> Records]
    BY ConnFacts
  <2> QED BY <1>2, <2>1, <2>2
<1>4. conn.destination = "INTRA" /\ ~InLan(conn)
  BY <1>1, <1>2 DEF InvSwitch, InvKeys
<1>5. Ends(t) /\ wire' = NoWire /\ UNCHANGED <<cfg, live, connlock, todo, crashed>>
  BY <1>1 DEF Finish, Ends
<1>6. \A u \in Threads : cur[u] = c /\ pc[u] \in {"process", "switch"} => u = t
  BY <1>1 DEF InvThreads
<1> QED BY <1>1, <1>2, <1>3, <1>4, <1>5, <1>6

LEMMA SwitchStep ==
  ASSUME IInv, NEW t \in Threads, SwitchToIntra(t)
  PROVE  IInv'
<1> USE DEF IInv
<1> DEFINE c == cur[t]
           conn == conns[c]
<1>1. /\ pc[t] = "switch" /\ c \in DOMAIN conns /\ conn \in Records
      /\ conn.destination = "INTRA" /\ ~InLan(conn) /\ conns' = conns /\ Ends(t)
      /\ int_tree1' = Remove(int_tree1, IntKey(conn))
      /\ int_tree2' = Remove(int_tree2, ExtKey(conn))
      /\ intra_tree1' = Insert(intra_tree1, IntKey(conn), c)
      /\ intra_tree2' = Insert(intra_tree2, IntraKey(conn), c)
      /\ wire' = NoWire
      /\ UNCHANGED <<cfg, live, connlock, todo, crashed, intra_handlers>>
      /\ \A u \in Threads : cur[u] = c /\ pc[u] \in {"process", "switch"} => u = t
  BY SwitchFacts
<1>2. /\ InvThreads'
      /\ pc' \in [Threads -> Places] /\ pkt' \in [Threads -> Packets]
      /\ cur' \in [Threads -> 0 .. MaxConns] /\ locked' \in [Ids -> Threads \cup {None}]
      /\ pc'[t] = "idle" /\ cur'[t] = 0
      /\ \A u \in Threads : u # t => pc'[u] = pc[u] /\ pkt'[u] = pkt[u] /\ cur'[u] = cur[u]
  BY <1>1, EndFacts
<1>3. /\ Part(int_tree1', int_tree1) /\ Part(int_tree2', int_tree2)
      /\ Grown(intra_tree1', intra_tree1, TRUE, IntKey(conn), c)
      /\ Grown(intra_tree2', intra_tree2, TRUE, IntraKey(conn), c)
      /\ IntKey(conn) \notin DOMAIN int_tree1' /\ ExtKey(conn) \notin DOMAIN int_tree2'
  <2>1. IntKey(conn) \notin DOMAIN int_tree1' /\ ExtKey(conn) \notin DOMAIN int_tree2'
    BY <1>1 DEF Remove
  <2> QED BY <1>1, <2>1, RemovedPart, InsertGrows
<1>4. InvType'
  <2>0. /\ \A k \in DOMAIN int_tree1' : int_tree1'[k] \in DOMAIN conns
        /\ \A k \in DOMAIN int_tree2' : int_tree2'[k] \in DOMAIN conns
        /\ \A k \in DOMAIN intra_tree1' : intra_tree1'[k] \in DOMAIN conns
        /\ \A k \in DOMAIN intra_tree2' : intra_tree2'[k] \in DOMAIN conns
    <3> HIDE DEF conn, c
    <3>1. c \in DOMAIN conns
      BY <1>1
    <3>2. /\ \A k \in DOMAIN int_tree1 : int_tree1[k] \in DOMAIN conns
          /\ \A k \in DOMAIN int_tree2 : int_tree2[k] \in DOMAIN conns
          /\ \A k \in DOMAIN intra_tree1 : intra_tree1[k] \in DOMAIN conns
          /\ \A k \in DOMAIN intra_tree2 : intra_tree2[k] \in DOMAIN conns
      BY DEF InvType, Values
    <3>3. \A k \in DOMAIN int_tree1' : int_tree1'[k] \in DOMAIN conns
      BY <1>3, <3>2 DEF Part
    <3>4. \A k \in DOMAIN int_tree2' : int_tree2'[k] \in DOMAIN conns
      BY <1>3, <3>2 DEF Part
    <3>5. \A k \in DOMAIN intra_tree1' : intra_tree1'[k] \in DOMAIN conns
      BY <1>3, <3>1, <3>2 DEF Grown
    <3>6. \A k \in DOMAIN intra_tree2' : intra_tree2'[k] \in DOMAIN conns
      BY <1>3, <3>1, <3>2 DEF Grown
    <3> QED BY <3>3, <3>4, <3>5, <3>6
  <2>1. /\ Values(int_tree1') \subseteq DOMAIN conns /\ Values(int_tree2') \subseteq DOMAIN conns
        /\ Values(intra_tree1') \subseteq DOMAIN conns
        /\ Values(intra_tree2') \subseteq DOMAIN conns
    BY <2>0 DEF Values
  <2>2. (Values(int_tree1) \cup Values(int_tree2))' \subseteq DOMAIN conns'
    BY <1>1, <2>1 DEF Values
  <2>3. (Values(intra_tree1) \cup Values(intra_tree2))' \subseteq DOMAIN conns'
    BY <1>1, <2>1 DEF Values
  <2>4. /\ cfg' \in Configs /\ live' \subseteq DOMAIN conns' /\ todo' \subseteq DOMAIN conns'
        /\ connlock' \in Threads \cup {None, "clean"}
        /\ wire'.conn \in 0 .. MaxConns /\ crashed' \in BOOLEAN
        /\ \E n \in 0 .. MaxConns : conns' \in [1 .. n -> Records]
        /\ \A a \in DOMAIN intra_handlers' : intra_handlers'[a] \in Handlers \ {NoHandler}
    BY <1>1, NoWireFacts DEF InvType
  <2> QED BY <1>2, <2>2, <2>3, <2>4, Zenon DEF InvType
<1>5. \A d \in DOMAIN conns : Same(d)
  BY <1>1 DEF Same
<1>6. InvStates'
  <2>1. \A d \in DOMAIN conns, u \in Threads : cur[u] = d /\ pc[u] = "process" =>
          cur'[u] = d /\ pc'[u] = "process" /\ pkt'[u] = pkt[u]
    BY <1>1, <1>2
  <2> QED BY <1>1, <1>5, <2>1, StatesKeep
<1>7. InvKeys' /\ InvSwitch'
  <2>1. \A u \in Threads :
          /\ pc'[u] = "switch" <=> (pc[u] = "switch" /\ cur'[u] # 0)
          /\ cur'[u] = 0 \/ (cur'[u] = cur[u] /\ pkt'[u] = pkt[u])
    BY <1>2 DEF InvThreads
  <2> QED BY <1>5, <2>1, KeysKeep
<1>8. InvFiled'
  <2>1. ASSUME NEW d \in DOMAIN conns
        PROVE
      /\ \A x \in DOMAIN int_tree1' : int_tree1'[x] = d => Out(d)' /\ x = IntKey(conns[d])
      /\ \A x \in DOMAIN int_tree2' : int_tree2'[x] = d => Out(d)' /\ x = ExtKey(conns[d])
      /\ \A x \in DOMAIN intra_tree1' : intra_tree1'[x] = d => In(d)' /\ x = IntKey(conns[d])
      /\ \A x \in DOMAIN intra_tree2' : intra_tree2'[x] = d => In(d)' /\ x = IntraKey(conns[d])
    <3>1. CASE d = c
      <4>1. ~Switching(d)'
        BY <1>1, <1>2, <3>1 DEF Switching, InvThreads
      <4>2. In(d)'
        BY <1>1, <3>1, <4>1 DEF In, InLan
      <4>3. ~In(c)
        BY <1>1 DEF In, Switching
      <4>4. /\ \A x \in DOMAIN int_tree1' : int_tree1'[x] # c
            /\ \A x \in DOMAIN int_tree2' : int_tree2'[x] # c
        BY <1>1, <1>3 DEF InvFiled, Part
      <4>5. /\ \A x \in DOMAIN intra_tree1 : intra_tree1[x] # c
            /\ \A x \in DOMAIN intra_tree2 : intra_tree2[x] # c
        BY <1>1, <4>3 DEF InvFiled
      <4> QED BY <1>3, <3>1, <4>2, <4>4, <4>5 DEF Grown
    <3>2. CASE d # c
      <4>1. Switching(d)' <=> Switching(d)
        BY <1>1, <1>2, <3>2, ConnFacts DEF Switching
      <4>2. (Out(d)' <=> Out(d)) /\ (In(d)' <=> In(d))
        BY <1>1, <4>1 DEF Out, In, InLan
      <4>3. /\ \A x \in DOMAIN int_tree1 : int_tree1[x] = d => Out(d) /\ x = IntKey(conns[d])
            /\ \A x \in DOMAIN int_tree2 : int_tree2[x] = d => Out(d) /\ x = ExtKey(conns[d])
            /\ \A x \in DOMAIN intra_tree1 : intra_tree1[x] = d => In(d) /\ x = IntKey(conns[d])
            /\ \A x \in DOMAIN intra_tree2 : intra_tree2[x] = d => In(d) /\ x = IntraKey(conns[d])
        BY DEF InvFiled
      <4> QED BY <1>3, <3>2, <4>2, <4>3 DEF Grown, Part
    <3> QED BY <3>1, <3>2
  <2> QED BY <1>1, <2>1 DEF InvFiled, IntKey, ExtKey, IntraKey
<1> QED BY <1>2, <1>4, <1>6, <1>7, <1>8
-----------------------------------------------------------------------------
(* Every step keeps the invariant.                                         *)

LEMMA InitHolds ==
  ASSUME Init
  PROVE  IInv
<1>1. conns = Empty /\ DOMAIN conns = {} /\ conns \in [1 .. 0 -> Records]
  BY DEF Init, Empty
<1>2. /\ DOMAIN int_tree1 = {} /\ DOMAIN int_tree2 = {}
      /\ DOMAIN intra_tree1 = {} /\ DOMAIN intra_tree2 = {}
  BY DEF Init, Empty
<1>3. /\ Values(int_tree1) = {} /\ Values(int_tree2) = {}
      /\ Values(intra_tree1) = {} /\ Values(intra_tree2) = {}
  BY <1>2 DEF Values
<1>4. \A a \in DOMAIN intra_handlers : intra_handlers[a] \in Handlers \ {NoHandler}
  <2>1. \A a \in DOMAIN Internal : Internal[a].ip # None /\ Internal[a] \in Handlers
    BY HandlersAssumption DEF Handlers
  <2>2. NoHandler.ip = None
    BY DEF NoHandler
  <2> QED BY <2>1, <2>2 DEF Init
<1>5. InvType
  <2>1. \E n \in 0 .. MaxConns : conns \in [1 .. n -> Records]
    BY <1>1, NoWireFacts
  <2>2. /\ locked \in [Ids -> Threads \cup {None}] /\ pc \in [Threads -> Places]
        /\ pkt \in [Threads -> Packets] /\ cur \in [Threads -> 0 .. MaxConns]
    BY NoPktFacts, NoWireFacts DEF Init, Places
  <2>3. /\ cfg \in Configs /\ live \subseteq DOMAIN conns /\ todo \subseteq DOMAIN conns
        /\ connlock \in Threads \cup {None, "clean"}
        /\ wire.conn \in 0 .. MaxConns /\ crashed \in BOOLEAN
    BY NoWireFacts DEF Init
  <2>4. /\ Values(int_tree1) \cup Values(int_tree2) \subseteq DOMAIN conns
        /\ Values(intra_tree1) \cup Values(intra_tree2) \subseteq DOMAIN conns
    BY <1>3
  <2> QED BY <1>4, <2>1, <2>2, <2>3, <2>4, Zenon DEF InvType
<1>6. InvThreads
  BY NoPktFacts, OutboundAssumption DEF Init, InvThreads
<1>7. InvStates /\ InvFiled
  BY <1>1 DEF InvStates, InvFiled
<1>8. InvKeys /\ InvSwitch
  BY DEF Init, InvKeys, InvSwitch
<1> QED BY <1>5, <1>6, <1>7, <1>8 DEF IInv

(* The steps, one by one. *)
LEMMA StepCases ==
  ASSUME Next
  PROVE  \/ \E t \in Threads, k \in Flows, query \in BOOLEAN : Lookup(t, k, query)
         \/ \E t \in Threads : \/ Hold(t) \/ GivesUp(t) \/ OpenExt(t) \/ OpenIntra(t) \/ OpenLan(t)
                               \/ Relay(t) \/ ControlDns(t) \/ SwitchToIntra(t)
         \/ \E c \in DOMAIN conns : Age(c)
         \/ Aside
         \/ \E c \in todo : CleanOne(c)
<1>1. ASSUME NEW t \in Threads, ThreadStep(t)
      PROVE  \/ Hold(t) \/ GivesUp(t) \/ OpenExt(t) \/ OpenIntra(t) \/ OpenLan(t)
             \/ Relay(t) \/ ControlDns(t) \/ SwitchToIntra(t) \/ Aside
  BY <1>1, Zenon DEF ThreadStep, CreateStep, ProcessStep, GivesUp, Relay, Aside
<1>2. CleanStep => Aside \/ \E c \in todo : CleanOne(c)
  BY Zenon DEF CleanStep, Aside
<1> QED BY <1>1, <1>2, Zenon DEF Next

LEMMA StutterStep ==
  ASSUME IInv, UNCHANGED vars
  PROVE  IInv'
<1>1. UNCHANGED <<cfg, conns, live, locked, int_tree1, int_tree2, intra_tree1, intra_tree2,
                  intra_handlers, connlock, pc, pkt, cur, todo, wire, crashed>>
  BY DEF vars, trees, thread
<1>2. InvType'
  BY <1>1, Zenon DEF IInv, InvType, Values
<1>5. InvThreads'
  BY <1>1 DEF IInv, InvThreads, HandledBy, FromExt
<1>3. InvStates' /\ InvKeys' /\ InvSwitch'
  BY <1>1 DEF IInv, InvStates, InvKeys, InvSwitch, IntKey, ExtKey, IntraKey, InLan, FromExt
<1>4. InvFiled'
  BY <1>1 DEF IInv, InvFiled, Out, In, Switching, IntKey, ExtKey, IntraKey, InLan
<1> QED BY <1>2, <1>3, <1>4, <1>5 DEF IInv

LEMMA Inductive ==
  ASSUME IInv, [Next]_vars
  PROVE  IInv'
<1>1. ASSUME NEW t \in Threads, OpenExt(t) \/ OpenIntra(t) \/ OpenLan(t) PROVE IInv'
  <2>1. \E destination, handler : Filed(t, destination, handler)
    BY <1>1, OpenFacts
  <2> QED BY <2>1, OpenStep
<1>2. ASSUME Next PROVE IInv'
  BY <1>1, <1>2, StepCases, LookupStep, HoldStep, GiveUpStep, RelayStep, DnsStep, SwitchStep,
     AgeStep, AsideStep, CleanOneStep, Zenon
<1> QED BY <1>2, StutterStep

LEMMA Invariance == Spec => []IInv
<1>1. Init => IInv
  BY InitHolds
<1>2. IInv /\ [Next]_vars => IInv'
  BY Inductive
<1> QED BY <1>1, <1>2, PTL DEF Spec

(* Every variable has its type, and INIT does not outlive the first        *)
(* packet's turn.                                                          *)
THEOREM TypeCorrect == Spec => []TypeOK
<1>1. IInv => TypeOK
  <2> SUFFICES ASSUME IInv PROVE TypeOK
    OBVIOUS
  <2> USE DEF IInv
  <2>1. DOMAIN conns \subseteq Ids /\ conns \in [DOMAIN conns -> Records]
    BY ConnFacts
  <2>2. ASSUME NEW c \in DOMAIN conns
        PROVE
          /\ conns[c].state \in {"CONTROL", "PROXY", "DROP"} \cup (IF Held(c) THEN {"INIT"} ELSE {})
          /\ conns[c].destination \in {"EXT", "INTRA"} /\ conns[c].initiator \in {"LIH", "HIH"}
          /\ conns[c].fresh \in BOOLEAN /\ conns[c].rejected \in BOOLEAN
    <3>1. conns[c] \in Records
      BY <2>1
    <3>2. conns[c].state = "INIT" => Held(c)
      BY DEF InvStates, Held
    <3>3. conns[c].state \in {"CONTROL", "PROXY", "DROP"} \cup (IF Held(c) THEN {"INIT"} ELSE {})
      BY <3>1, <3>2, RecordFacts DEF States
    <3> QED BY <3>1, <3>3, RecordFacts
  <2>3. ASSUME NEW t \in Threads
        PROVE  /\ pc[t] \in {"idle", "wait", "create", "process", "switch"}
               /\ pkt[t].key \in Flows \cup {NoKey} /\ pkt[t].query \in BOOLEAN
               /\ cur[t] \in 0 .. MaxConns
    BY PktFacts DEF InvType, Places
  <2>4. /\ cfg \in Configs /\ live \subseteq DOMAIN conns
        /\ locked \in [Ids -> Threads \cup {None}] /\ connlock \in Threads \cup {None, "clean"}
        /\ todo \subseteq Ids /\ wire.conn \in 0 .. MaxConns /\ crashed \in BOOLEAN
    BY <2>1 DEF InvType
  <2> QED BY <2>1, <2>2, <2>3, <2>4, Zenon DEF TypeOK
<1> QED BY <1>1, Invariance, PTL
-----------------------------------------------------------------------------
(* What is injected.                                                       *)

(* The packet that a step injects. *)
Injected(t, r, to) ==
  /\ Relayed(t, r, to) /\ to # None
  /\ cfg' = cfg /\ cur[t] \in DOMAIN conns /\ conns'[cur[t]] = r
  /\ wire' = [conn |-> cur[t], from |-> Origin(pkt[t].key), to |-> to]

(* Only a turn that relays injects a packet. *)
LEMMA WireStep ==
  ASSUME IInv, Next
  PROVE  wire' = NoWire \/ \E t \in Threads, r \in Records, to \in Sides : Injected(t, r, to)
<1>1. ASSUME NEW t \in Threads, Relay(t)
      PROVE  wire' = NoWire \/ \E r \in Records, to \in Sides : Injected(t, r, to)
  <2>1. PICK r \in Records, to \in Sides : Relayed(t, r, to)
    BY <1>1, RelayFacts
  <2>2. /\ conns' = [conns EXCEPT ![cur[t]] = r] /\ cfg' = cfg /\ pc[t] = "process"
        /\ wire' = IF to = None THEN NoWire
                   ELSE [conn |-> cur[t], from |-> Origin(pkt[t].key), to |-> to]
    BY <2>1 DEF Relayed, Finish
  <2>3. cur[t] \in DOMAIN conns
    BY <2>2, TurnFacts
  <2>4. conns'[cur[t]] = r
    BY <2>2, <2>3
  <2> QED BY <2>1, <2>2, <2>3, <2>4 DEF Injected
<1>2. ASSUME NEW t \in Threads, \/ Hold(t) \/ GivesUp(t) \/ OpenExt(t) \/ OpenIntra(t) \/ OpenLan(t)
                                \/ ControlDns(t) \/ SwitchToIntra(t)
      PROVE  wire' = NoWire
  <2>1. CASE Hold(t)
    BY <2>1 DEF Hold
  <2>2. CASE GivesUp(t)
    BY <2>2, GiveUpFacts
  <2>3. CASE OpenExt(t) \/ OpenIntra(t) \/ OpenLan(t)
    BY <2>3 DEF OpenExt, OpenIntra, OpenLan, Allocate
  <2>4. CASE ControlDns(t)
    BY <2>4 DEF ControlDns
  <2>5. CASE SwitchToIntra(t)
    BY <2>5, SwitchFacts
  <2> QED BY <1>2, <2>1, <2>2, <2>3, <2>4, <2>5
<1>3. ASSUME NEW t \in Threads, NEW k, NEW query, Lookup(t, k, query) PROVE wire' = NoWire
  BY <1>3 DEF Lookup
<1>4. ASSUME NEW c, Age(c) \/ CleanOne(c) PROVE wire' = NoWire
  BY <1>4 DEF Age, CleanOne
<1>5. Aside => wire' = NoWire
  BY DEF Aside, CleanStart, CleanSkip, CleanEnd, FromPotNoLink
<1> QED BY <1>1, <1>2, <1>3, <1>4, <1>5, StepCases, Zenon

(* The fields of what is injected. *)
LEMMA WireFacts ==
  ASSUME NEW t, NEW r, NEW to, Injected(t, r, to)
  PROVE  wire'.conn = cur[t] /\ wire'.from = Origin(pkt[t].key) /\ wire'.to = to
BY DEF Injected

(* Once a rule has rejected a packet of a connection, or deny_hih_init     *)
(* forbids it, de_thread() injects no packet of that connection, whatever  *)
(* the other threads do.                                                   *)
THEOREM RejectedIsSilent == Spec => []RejectedStays
<1>1. Init => RejectedStays
  BY DEF Init, RejectedStays
<1>2. ASSUME IInv, RejectedStays, [Next]_vars PROVE RejectedStays'
  <2>1. CASE UNCHANGED vars
    BY <1>2, <2>1 DEF vars, RejectedStays
  <2>2. CASE Next
    <3>1. CASE wire' = NoWire
      BY <3>1 DEF RejectedStays
    <3>2. ASSUME NEW t \in Threads, NEW r \in Records, NEW to \in Sides, Injected(t, r, to)
          PROVE  RejectedStays'
      <4>1. wire'.conn = cur[t] /\ conns'[cur[t]] = r /\ cfg' = cfg
        BY <3>2, WireFacts DEF Injected
      <4>2. ~r.rejected /\ ~(cfg.deny_hih_init /\ r.initiator = "HIH")
        BY <3>2 DEF Injected, Relayed
      <4> QED BY <4>1, <4>2 DEF RejectedStays
    <3> QED BY <1>2, <2>2, <3>1, <3>2, WireStep
  <2> QED BY <1>2, <2>1, <2>2
<1> QED BY <1>1, <1>2, Invariance, PTL DEF Spec

(* A HIH's connection that mod_dns_control() has moved inside exchanges    *)
(* packets with the internal server only: switch_conn_to_intra() takes it  *)
(* from the trees of the outside before another packet can find it.        *)
THEOREM MovedStaysInside == Spec => []MovedInside
<1>1. Init => MovedInside
  BY DEF Init, MovedInside
<1>2. ASSUME IInv, MovedInside, [Next]_vars PROVE MovedInside'
  <2> USE <1>2 DEF IInv
  <2>1. CASE UNCHANGED vars
    BY <2>1 DEF vars, MovedInside
  <2>2. CASE Next
    <3>1. CASE wire' = NoWire
      BY <3>1 DEF MovedInside
    <3>2. ASSUME NEW t \in Threads, NEW r \in Records, NEW to \in Sides, Injected(t, r, to)
          PROVE  MovedInside'
      <4> DEFINE conn == conns[cur[t]]
                 k == pkt[t].key
      <4>1. /\ wire'.conn = cur[t] /\ wire'.from = Origin(k) /\ wire'.to = to
            /\ conns'[cur[t]] = r /\ cur[t] \in DOMAIN conns
        BY <3>2, WireFacts DEF Injected
      <4>2. SUFFICES ASSUME r.initiator = "HIH", r.destination = "INTRA", r.state = "PROXY"
                     PROVE  <<Origin(k), to>> \in {<<"HIH", "INTRA">>, <<"INTRA", "HIH">>}
        BY <4>1 DEF MovedInside
      <4>3. /\ \/ Origin(k) \in {"LIH", "HIH"} /\ to = "INTRA"
               \/ Origin(k) = "INTRA" /\ to = "HIH"
               \/ Origin(k) = "EXT"
            /\ conn.initiator = "HIH" /\ conn.destination = "INTRA" /\ pc[t] = "process"
        BY <3>2, <4>2 DEF Injected, Relayed, Kept
      <4>4. cur[t] # 0 /\ conn \in Records
        BY <4>1, ConnFacts
      <4>5. Origin(k) # "EXT" /\ Origin(k) # "LIH"
        <5>1. CASE k = IntKey(conn)
          <6>1. conn.first.src \in Pots /\ conn.first.src # Lih
            BY <4>1, <4>3 DEF InvStates
          <6> QED BY <5>1, <6>1, OriginFacts DEF IntKey
        <5>2. CASE ~FromExt(k) /\ k = IntraKey(conn) /\ ~InLan(conn)
          <6>1. conn.intra_handler \in Handlers \ {NoHandler}
            BY <4>3, <4>4, <5>2, RecordFacts DEF InLan
          <6>2. conn.intra_handler.ip # Lih
            <7>1. CASE conn.intra_handler \in DnsHandlers
              <8>1. conn.intra_handler.ip = DnsServer
                BY <7>1, DnsHandlersFacts
              <8> QED BY <8>1, HandlersAssumption DEF Pots
            <7>2. ASSUME NEW a \in DOMAIN Internal, conn.intra_handler = Internal[a]
                  PROVE  conn.intra_handler.ip # Lih
              BY <7>2, HandlersAssumption DEF Pots
            <7> QED BY <6>1, <7>1, <7>2 DEF Handlers
          <6>3. k.src = conn.intra_handler.ip
            BY <5>2 DEF IntraKey, Key
          <6> QED BY <5>2, <6>2, <6>3, OriginFacts
        <5> QED BY <4>3, <4>4, <5>1, <5>2 DEF InvKeys
      <4> QED BY <4>3, <4>5
    <3> QED BY <2>2, <3>1, <3>2, WireStep
  <2> QED BY <2>1, <2>2
<1> QED BY <1>1, <1>2, Invariance, PTL DEF Spec
-----------------------------------------------------------------------------
(* What is freed, and what is found.                                       *)

Quiet ==
  \/ \E t \in Threads, k \in Flows, query \in BOOLEAN : Lookup(t, k, query)
  \/ \E t \in Threads : Hold(t) \/ GivesUp(t) \/ Relay(t)
  \/ \E c \in DOMAIN conns : Age(c)
  \/ Aside
  \/ UNCHANGED vars

(* These steps create, move and free nothing. *)
LEMMA QuietFacts ==
  ASSUME IInv, Quiet
  PROVE  /\ UNCHANGED <<live, int_tree1, int_tree2, intra_tree1, intra_tree2>>
         /\ DOMAIN conns' = DOMAIN conns /\ \A c \in DOMAIN conns : Same(c)
         /\ \A u \in Threads : /\ pc'[u] = "switch" <=> pc[u] = "switch"
                               /\ pc[u] = "switch" => cur'[u] = cur[u]
<1> USE DEF IInv
<1>1. ASSUME NEW t \in Threads, NEW k \in Flows, NEW query \in BOOLEAN, Lookup(t, k, query)
      PROVE  /\ UNCHANGED <<conns, live, int_tree1, int_tree2, intra_tree1, intra_tree2>>
             /\ \A u \in Threads : /\ pc'[u] = "switch" <=> pc[u] = "switch"
                                   /\ pc[u] = "switch" => cur'[u] = cur[u]
  BY <1>1 DEF Lookup, trees, InvType
<1>2. ASSUME NEW t \in Threads, Hold(t)
      PROVE  /\ UNCHANGED <<live, int_tree1, int_tree2, intra_tree1, intra_tree2>>
             /\ DOMAIN conns' = DOMAIN conns /\ \A c \in DOMAIN conns : Same(c)
             /\ \A u \in Threads : /\ pc'[u] = "switch" <=> pc[u] = "switch"
                                   /\ pc[u] = "switch" => cur'[u] = cur[u]
  <2> DEFINE c == cur[t]
             r == [conns[c] EXCEPT !.fresh = TRUE]
  <2>1. /\ pc[t] = "wait" /\ conns' = [conns EXCEPT ![c] = r] /\ pc' = [pc EXCEPT ![t] = "process"]
        /\ UNCHANGED <<live, int_tree1, int_tree2, intra_tree1, intra_tree2, cur>>
    BY <1>2 DEF Hold, trees
  <2>2. c \in DOMAIN conns /\ conns[c] \in Records
    BY <2>1, ConnFacts DEF InvThreads
  <2>3. Kept(r, conns[c])
    BY <2>2, TouchFacts
  <2> HIDE DEF r, c
  <2>4. \A d \in DOMAIN conns : Same(d)
    BY <2>1, <2>2, <2>3 DEF Same, Kept
  <2>5. \A u \in Threads : pc'[u] = "switch" <=> pc[u] = "switch"
    BY <2>1 DEF InvType
  <2> QED BY <2>1, <2>4, <2>5
<1>3. ASSUME NEW t \in Threads, GivesUp(t) \/ Relay(t)
      PROVE  /\ UNCHANGED <<live, int_tree1, int_tree2, intra_tree1, intra_tree2>>
             /\ DOMAIN conns' = DOMAIN conns /\ \A c \in DOMAIN conns : Same(c)
             /\ \A u \in Threads : /\ pc'[u] = "switch" <=> pc[u] = "switch"
                                   /\ pc[u] = "switch" => cur'[u] = cur[u]
  <2>1. /\ UNCHANGED <<live, int_tree1, int_tree2, intra_tree1, intra_tree2>>
        /\ DOMAIN conns' = DOMAIN conns /\ \A c \in DOMAIN conns : Same(c)
        /\ Ends(t) /\ pc[t] # "switch"
    <3>1. CASE GivesUp(t)
      BY <3>1, GiveUpFacts DEF Same
    <3>2. CASE Relay(t)
      <4>1. PICK r \in Records, to \in Sides : Relayed(t, r, to)
        BY <3>2, RelayFacts
      <4>2. /\ pc[t] = "process" /\ conns' = [conns EXCEPT ![cur[t]] = r]
            /\ Kept(r, conns[cur[t]]) /\ Ends(t)
            /\ UNCHANGED <<live, int_tree1, int_tree2, intra_tree1, intra_tree2>>
        BY <4>1 DEF Relayed, Finish, Ends, trees
      <4>3. \A d \in DOMAIN conns : Same(d)
        BY <4>2 DEF Same, Kept
      <4> QED BY <4>2, <4>3
    <3> QED BY <1>3, <3>1, <3>2
  <2> QED BY <2>1, EndFacts
<1>4. ASSUME NEW c \in DOMAIN conns, Age(c)
      PROVE  /\ UNCHANGED <<live, int_tree1, int_tree2, intra_tree1, intra_tree2, pc, cur>>
             /\ DOMAIN conns' = DOMAIN conns /\ \A d \in DOMAIN conns : Same(d)
  <2> DEFINE r == [conns[c] EXCEPT !.fresh = FALSE]
  <2>1. /\ conns' = [conns EXCEPT ![c] = r]
        /\ UNCHANGED <<live, int_tree1, int_tree2, intra_tree1, intra_tree2, pc, cur>>
    BY <1>4 DEF Age, trees, thread
  <2>2. Kept(r, conns[c])
    BY ConnFacts, TouchFacts
  <2> HIDE DEF r
  <2>3. \A d \in DOMAIN conns : Same(d)
    BY <2>1, <2>2 DEF Same, Kept
  <2> QED BY <2>1, <2>3
<1>5. ASSUME Aside \/ UNCHANGED vars
      PROVE  UNCHANGED <<conns, live, int_tree1, int_tree2, intra_tree1, intra_tree2, pc, cur>>
  BY <1>5 DEF Aside, CleanStart, CleanSkip, CleanEnd, FromPotNoLink, vars, trees, thread
<1>6. conns' = conns => DOMAIN conns' = DOMAIN conns /\ \A c \in DOMAIN conns : Same(c)
  BY DEF Same
<1>7. CASE Aside \/ UNCHANGED vars
  BY <1>5, <1>6, <1>7
<1> QED BY <1>1, <1>2, <1>3, <1>4, <1>6, <1>7 DEF Quiet

LEMMA OtherSteps ==
  ASSUME [Next]_vars
  PROVE  \/ Quiet
         \/ \E t \in Threads : OpenExt(t) \/ OpenIntra(t) \/ OpenLan(t)
         \/ \E t \in Threads : ControlDns(t)
         \/ \E t \in Threads : SwitchToIntra(t)
         \/ \E c \in todo : CleanOne(c)
BY StepCases, Zenon DEF Quiet

(* Quiet steps: what a thread works on, and who waits for connlock. *)
LEMMA QuietLive ==
  ASSUME IInv, InvLive, Quiet
  PROVE  /\ \A u \in Threads : cur'[u] # 0 => cur'[u] \in live
         /\ todo' \subseteq live
         /\ todo' # {} => connlock' = "clean"
<1> USE DEF IInv
<1>0. /\ \A u \in Threads : cur[u] # 0 => cur[u] \in live
      /\ Values(int_tree1) \cup Values(int_tree2) \subseteq live
      /\ Values(intra_tree1) \cup Values(intra_tree2) \subseteq live
      /\ todo \subseteq live /\ (todo # {} => connlock = "clean")
  BY DEF InvLive, NoDangling
<1>1. ASSUME NEW t \in Threads, NEW k \in Flows, NEW query \in BOOLEAN, Lookup(t, k, query)
      PROVE  /\ \A u \in Threads : cur'[u] # 0 => cur'[u] \in live
             /\ todo' = {}
  <2>1. cur' = [cur EXCEPT ![t] = Found(k)] /\ todo' = todo /\ connlock = None
    BY <1>1 DEF Lookup
  <2>2. Found(k) # 0 => Found(k) \in live
    BY <1>0 DEF Found, Values
  <2>3. todo = {}
    BY <1>0, <2>1 DEF None
  <2> QED BY <1>0, <2>1, <2>2, <2>3 DEF InvType
<1>2. ASSUME NEW t \in Threads, Hold(t) PROVE cur' = cur /\ todo' = {}
  <2>1. pc[t] = "wait" /\ todo' = todo /\ cur' = cur
    BY <1>2 DEF Hold
  <2>2. connlock # "clean"
    BY <2>1, OutboundAssumption DEF InvThreads
  <2> QED BY <1>0, <2>1, <2>2
<1>3. ASSUME NEW t \in Threads, GivesUp(t) \/ Relay(t)
      PROVE  /\ \A u \in Threads : cur'[u] # 0 => cur'[u] \in live
             /\ todo' = todo /\ connlock' = connlock
  <2>1. Ends(t) /\ todo' = todo
    <3>1. CASE GivesUp(t)
      BY <3>1, GiveUpFacts
    <3>2. CASE Relay(t)
      <4>1. PICK r \in Records, to \in Sides : Relayed(t, r, to)
        BY <3>2, RelayFacts
      <4> QED BY <4>1 DEF Relayed, Finish, Ends
    <3> QED BY <1>3, <3>1, <3>2
  <2> QED BY <1>0, <2>1 DEF Ends, InvType
<1>4. ASSUME NEW c \in DOMAIN conns, Age(c) PROVE UNCHANGED <<cur, todo, connlock>>
  BY <1>4 DEF Age, thread
<1>5. ASSUME Aside
      PROVE  cur' = cur /\ todo' \subseteq live /\ (todo' # {} => connlock' = "clean")
  BY <1>0, <1>5 DEF Aside, CleanStart, CleanSkip, CleanEnd, FromPotNoLink, thread, Expired
<1>6. UNCHANGED vars => UNCHANGED <<cur, todo, connlock>>
  BY DEF vars, thread
<1> QED BY <1>0, <1>1, <1>2, <1>3, <1>4, <1>5, <1>6 DEF Quiet

(* remove_conn() takes a connection out of every tree, and nobody has it   *)
(* in hand: who waits for it has connlock, and who works on it its lock.   *)
LEMMA FreedFacts ==
  ASSUME IInv, InvLive, NEW c \in todo, CleanOne(c)
  PROVE  /\ \A k \in DOMAIN int_tree1' : k \in DOMAIN int_tree1 /\ int_tree1'[k] = int_tree1[k]
                                         /\ int_tree1'[k] # c
         /\ \A k \in DOMAIN int_tree2' : k \in DOMAIN int_tree2 /\ int_tree2'[k] = int_tree2[k]
                                         /\ int_tree2'[k] # c
         /\ \A k \in DOMAIN intra_tree1' : k \in DOMAIN intra_tree1 /\ intra_tree1'[k] = intra_tree1[k]
                                           /\ intra_tree1'[k] # c
         /\ \A k \in DOMAIN intra_tree2' : k \in DOMAIN intra_tree2 /\ intra_tree2'[k] = intra_tree2[k]
                                           /\ intra_tree2'[k] # c
         /\ \A u \in Threads : cur[u] # c
<1> USE DEF IInv
<1> DEFINE conn == conns[c]
<1>1. /\ c \in DOMAIN conns /\ connlock = "clean" /\ locked[c] = None
      /\ \/ /\ conn.destination = "EXT"
            /\ int_tree1' = Remove(int_tree1, IntKey(conn))
            /\ int_tree2' = Remove(int_tree2, ExtKey(conn))
            /\ UNCHANGED <<intra_tree1, intra_tree2>>
         \/ /\ conn.destination = "INTRA"
            /\ intra_tree1' = Remove(intra_tree1, IntKey(conn))
            /\ intra_tree2' = Remove(intra_tree2, IntraKey(conn))
            /\ UNCHANGED <<int_tree1, int_tree2>>
  <2>1. c \in DOMAIN conns /\ (conn.destination = "INTRA" => conn.initiator = "HIH")
    BY RemovedFacts DEF InvLive
  <2> QED BY <2>1, RemovedFacts
<1>2. ASSUME NEW u \in Threads, cur[u] = c PROVE FALSE
  <2>1. c # 0 /\ c \in Ids
    BY <1>1, ConnFacts
  <2>2. pc[u] \in {"wait", "process", "switch"}
    BY <1>2, <2>1 DEF InvThreads, InvType, Places
  <2> QED BY <1>1, <1>2, <2>2, OutboundAssumption DEF InvThreads
<1>3. ~Switching(c)
  BY <1>2 DEF Switching
<1>4. /\ \A k \in DOMAIN int_tree1 : int_tree1[k] = c => Out(c) /\ k = IntKey(conn)
      /\ \A k \in DOMAIN int_tree2 : int_tree2[k] = c => Out(c) /\ k = ExtKey(conn)
      /\ \A k \in DOMAIN intra_tree1 : intra_tree1[k] = c => In(c) /\ k = IntKey(conn)
      /\ \A k \in DOMAIN intra_tree2 : intra_tree2[k] = c => In(c) /\ k = IntraKey(conn)
  BY <1>1 DEF InvFiled
<1>5. CASE conn.destination = "EXT"
  <2>1. /\ ~In(c)
        /\ int_tree1' = Remove(int_tree1, IntKey(conn))
        /\ int_tree2' = Remove(int_tree2, ExtKey(conn))
        /\ UNCHANGED <<intra_tree1, intra_tree2>>
    BY <1>1, <1>5 DEF In
  <2> QED BY <1>2, <1>4, <2>1 DEF Remove
<1>6. CASE conn.destination = "INTRA"
  <2>1. /\ ~Out(c)
        /\ intra_tree1' = Remove(intra_tree1, IntKey(conn))
        /\ intra_tree2' = Remove(intra_tree2, IntraKey(conn))
        /\ UNCHANGED <<int_tree1, int_tree2>>
    BY <1>1, <1>3, <1>6 DEF Out
  <2> QED BY <1>2, <1>4, <2>1 DEF Remove
<1> QED BY <1>1, <1>5, <1>6

LEMMA LiveInductive ==
  ASSUME QueriesOfHihs, IInv, InvLive, [Next]_vars
  PROVE  InvLive'
<1> USE DEF IInv
<1>0. /\ \A u \in Threads : cur[u] # 0 => cur[u] \in live
      /\ \A k \in DOMAIN int_tree1 : int_tree1[k] \in live
      /\ \A k \in DOMAIN int_tree2 : int_tree2[k] \in live
      /\ \A k \in DOMAIN intra_tree1 : intra_tree1[k] \in live
      /\ \A k \in DOMAIN intra_tree2 : intra_tree2[k] \in live
      /\ todo \subseteq live /\ (todo # {} => connlock = "clean")
      /\ \A c \in DOMAIN conns : conns[c].destination = "INTRA" => conns[c].initiator = "HIH"
  BY DEF InvLive, NoDangling, Values
<1>1. SUFFICES
      /\ \A u \in Threads : cur'[u] # 0 => cur'[u] \in live'
      /\ \A k \in DOMAIN int_tree1' : int_tree1'[k] \in live'
      /\ \A k \in DOMAIN int_tree2' : int_tree2'[k] \in live'
      /\ \A k \in DOMAIN intra_tree1' : intra_tree1'[k] \in live'
      /\ \A k \in DOMAIN intra_tree2' : intra_tree2'[k] \in live'
      /\ todo' \subseteq live' /\ (todo' # {} => connlock' = "clean")
      /\ \A c \in DOMAIN conns' : conns'[c].destination = "INTRA" => conns'[c].initiator = "HIH"
  BY DEF InvLive, NoDangling, Values
<1>2. CASE Quiet
  BY <1>0, <1>2, QuietFacts, QuietLive DEF Same
<1>3. ASSUME NEW t \in Threads, NEW destination, NEW handler, Filed(t, destination, handler)
      PROVE
      /\ \A u \in Threads : cur'[u] # 0 => cur'[u] \in live'
      /\ \A k \in DOMAIN int_tree1' : int_tree1'[k] \in live'
      /\ \A k \in DOMAIN int_tree2' : int_tree2'[k] \in live'
      /\ \A k \in DOMAIN intra_tree1' : intra_tree1'[k] \in live'
      /\ \A k \in DOMAIN intra_tree2' : intra_tree2'[k] \in live'
      /\ todo' \subseteq live' /\ (todo' # {} => connlock' = "clean")
      /\ \A c \in DOMAIN conns' : conns'[c].destination = "INTRA" => conns'[c].initiator = "HIH"
  <2> DEFINE k == pkt[t].key
             conn == Conn(k, destination, handler)
             c == Cardinality(DOMAIN conns) + 1
             out == destination = "EXT"
             in == destination = "INTRA" /\ handler # NoHandler
  <2>1. /\ pc[t] = "create" /\ k.src \in Pots /\ Allocate(t, conn)
        /\ destination \in {"EXT", "INTRA"} /\ handler \in Handlers
        /\ destination = "INTRA" => k.src # Lih
        /\ Grown(int_tree1', int_tree1, out, IntKey(conn), c)
        /\ Grown(int_tree2', int_tree2, out, ExtKey(conn), c)
        /\ Grown(intra_tree1', intra_tree1, in, IntKey(conn), c)
        /\ Grown(intra_tree2', intra_tree2, in, IntraKey(conn), c)
    BY <1>3 DEF Filed
  <2>2. k \in Flows
    BY <2>1 DEF InvThreads
  <2>3. /\ conn \in Records /\ conn.destination = destination
        /\ conn.initiator = IF k.src = Lih THEN "LIH" ELSE "HIH"
    BY <2>1, <2>2, ConnRecord
  <2>4. Created(t, conn, c)
    BY <2>1, <2>3, AllocateFacts
  <2> HIDE DEF c, conn, k
  <2>5. /\ DOMAIN conns' = DOMAIN conns \cup {c} /\ conns'[c] = conn
        /\ \A d \in DOMAIN conns : conns'[d] = conns[d]
        /\ live' = live \cup {c} /\ cur'[t] = c
        /\ \A u \in Threads : u # t => cur'[u] = cur[u]
        /\ UNCHANGED <<connlock, todo>>
    BY <2>4 DEF Created
  <2> QED BY <1>0, <2>1, <2>3, <2>5 DEF Grown
<1>4. ASSUME NEW t \in Threads, OpenExt(t) \/ OpenIntra(t) \/ OpenLan(t)
      PROVE  \E destination, handler : Filed(t, destination, handler)
  BY <1>4, OpenFacts
<1>5. ASSUME NEW t \in Threads, ControlDns(t)
      PROVE
      /\ UNCHANGED <<cur, live, int_tree1, int_tree2, intra_tree1, intra_tree2, todo, connlock>>
      /\ \A c \in DOMAIN conns' : conns'[c].destination = "INTRA" => conns'[c].initiator = "HIH"
  <2>1. /\ UNCHANGED <<cur, live, int_tree1, int_tree2, intra_tree1, intra_tree2, todo, connlock>>
        /\ pkt[t].query /\ pkt[t].key = IntKey(conns[cur[t]]) /\ cur[t] \in DOMAIN conns
        /\ conns[cur[t]] \in Records
    BY <1>5, DnsFacts
  <2>2. conns[cur[t]].initiator = "HIH"
    <3>1. pkt[t].key \in Queries
      BY <2>1 DEF InvThreads
    <3>2. conns[cur[t]].first.src # Lih
      BY <2>1, <3>1 DEF QueriesOfHihs, IntKey
    <3> QED BY <2>1, <3>2, RecordFacts DEF InvStates
  <2>3. /\ DOMAIN conns' = DOMAIN conns /\ conns'[cur[t]].initiator = conns[cur[t]].initiator
        /\ \A d \in DOMAIN conns : d # cur[t] => conns'[d] = conns[d]
    BY <1>5, MovedConn DEF Moved
  <2> QED BY <1>0, <2>1, <2>2, <2>3
<1>6. ASSUME NEW t \in Threads, SwitchToIntra(t)
      PROVE
      /\ \A u \in Threads : cur'[u] # 0 => cur'[u] \in live'
      /\ \A k \in DOMAIN int_tree1' : int_tree1'[k] \in live'
      /\ \A k \in DOMAIN int_tree2' : int_tree2'[k] \in live'
      /\ \A k \in DOMAIN intra_tree1' : intra_tree1'[k] \in live'
      /\ \A k \in DOMAIN intra_tree2' : intra_tree2'[k] \in live'
      /\ UNCHANGED <<conns, live, todo, connlock>>
  <2> DEFINE c == cur[t]
             conn == conns[c]
  <2>1. /\ c \in DOMAIN conns /\ conns' = conns /\ Ends(t)
        /\ int_tree1' = Remove(int_tree1, IntKey(conn))
        /\ int_tree2' = Remove(int_tree2, ExtKey(conn))
        /\ intra_tree1' = Insert(intra_tree1, IntKey(conn), c)
        /\ intra_tree2' = Insert(intra_tree2, IntraKey(conn), c)
        /\ UNCHANGED <<live, connlock, todo>>
    BY <1>6, SwitchFacts
  <2>2. c \in live
    BY <1>0, <2>1, ConnFacts
  <2>3. \A u \in Threads : cur'[u] # 0 => cur'[u] = cur[u]
    BY <2>1, EndFacts
  <2> HIDE DEF c, conn
  <2> QED BY <1>0, <2>1, <2>2, <2>3 DEF Remove, Insert
<1>7. ASSUME NEW c \in todo, CleanOne(c)
      PROVE
      /\ \A u \in Threads : cur'[u] # 0 => cur'[u] \in live'
      /\ \A k \in DOMAIN int_tree1' : int_tree1'[k] \in live'
      /\ \A k \in DOMAIN int_tree2' : int_tree2'[k] \in live'
      /\ \A k \in DOMAIN intra_tree1' : intra_tree1'[k] \in live'
      /\ \A k \in DOMAIN intra_tree2' : intra_tree2'[k] \in live'
      /\ todo' \subseteq live' /\ UNCHANGED <<conns, connlock>> /\ connlock = "clean"
  <2>1. /\ todo' = todo \ {c} /\ live' = live \ {c} /\ connlock = "clean"
        /\ UNCHANGED <<conns, connlock, cur>>
    BY <1>7, RemovedFacts
  <2> QED BY <1>0, <1>7, <2>1, FreedFacts
<1>8. CASE \E t \in Threads : OpenExt(t) \/ OpenIntra(t) \/ OpenLan(t)
  BY <1>3, <1>4, <1>8
<1>9. CASE \E t \in Threads : ControlDns(t)
  BY <1>0, <1>5, <1>9
<1>10. CASE \E t \in Threads : SwitchToIntra(t)
  BY <1>0, <1>6, <1>10
<1>11. CASE \E c \in todo : CleanOne(c)
  BY <1>0, <1>7, <1>11
<1> QED BY <1>2, <1>8, <1>9, <1>10, <1>11, OtherSteps

LEMMA InitLive ==
  ASSUME Init
  PROVE  InvLive
<1>1. /\ DOMAIN conns = {} /\ DOMAIN int_tree1 = {} /\ DOMAIN int_tree2 = {}
      /\ DOMAIN intra_tree1 = {} /\ DOMAIN intra_tree2 = {}
  BY DEF Init, Empty
<1> QED BY <1>1 DEF Init, InvLive, NoDangling, Values

(* What a tree finds, a thread works on or the cleaner will remove is not  *)
(* freed, wherever mod_dns_control() moved the connection in the           *)
(* meantime.  A DNS query of the LIH is excluded: remove_conn() has no     *)
(* case for a connection of the LIH to an internal host.                   *)
THEOREM NothingDangles ==
  ASSUME QueriesOfHihs
  PROVE  Spec => []NoDangling
<1>1. Init => InvLive
  BY InitLive
<1>2. IInv /\ InvLive /\ [Next]_vars => InvLive'
  BY LiveInductive
<1>3. InvLive => NoDangling
  BY DEF InvLive
<1> QED BY <1>1, <1>2, <1>3, Invariance, PTL DEF Spec

(* Two connections with different first packets share no key. *)
LEMMA KeysApart ==
  ASSUME PortsApart, NEW r \in Records, NEW q \in Records, r.first.src \in Pots,
         q.first.src \in Pots, r.first # q.first
  PROVE  IntKey(r) # IntKey(q) /\ ExtKey(r) # ExtKey(q) /\ IntraKey(r) # IntraKey(q)
<1>1. r.first \in Flows /\ q.first \in Flows
  BY RecordFacts
<1>2. r.first.port = q.first.port => r.first.src # q.first.src /\ r.first.dst # q.first.dst
  BY <1>1 DEF PortsApart
<1> QED BY <1>2 DEF IntKey, ExtKey, IntraKey, Key

(* The parts of InvFound, for the steps. *)
FoundOut(c) ==
  /\ IntKey(conns[c]) \in DOMAIN int_tree1 /\ int_tree1[IntKey(conns[c])] = c
  /\ ExtKey(conns[c]) \in DOMAIN int_tree2 /\ int_tree2[ExtKey(conns[c])] = c
FoundIn(c) ==
  /\ IntKey(conns[c]) \in DOMAIN intra_tree1 /\ intra_tree1[IntKey(conns[c])] = c
  /\ IntraKey(conns[c]) \in DOMAIN intra_tree2 /\ intra_tree2[IntraKey(conns[c])] = c

LEMMA LiveRecords ==
  ASSUME IInv, NEW c \in live
  PROVE  c \in DOMAIN conns /\ conns[c] \in Records /\ conns[c].first.src \in Pots /\ c # 0
<1>1. c \in DOMAIN conns
  BY DEF IInv, InvType
<1>2. conns[c] \in Records /\ c # 0
  BY <1>1, ConnFacts DEF IInv
<1> QED BY <1>1, <1>2 DEF IInv, InvStates

LEMMA LiveApart ==
  ASSUME PortsApart, IInv, InvFound, NEW c \in live, NEW d \in live, c # d,
         ~InLan(conns[c]), ~InLan(conns[d])
  PROVE  /\ IntKey(conns[c]) # IntKey(conns[d]) /\ ExtKey(conns[c]) # ExtKey(conns[d])
         /\ IntraKey(conns[c]) # IntraKey(conns[d]) /\ conns[c].first # conns[d].first
<1>1. conns[c].first # conns[d].first
  BY DEF InvFound
<1> QED BY <1>1, LiveRecords, KeysApart

(* A connection to an unknown host of the net is in no tree. *)
LEMMA OutIn ==
  ASSUME IInv, NEW c \in DOMAIN conns
  PROVE  /\ ~InLan(conns[c]) <=> (Out(c) \/ In(c))
         /\ ~(Out(c) /\ In(c))
<1> USE DEF IInv
<1>1. conns[c] \in Records /\ c # 0
  BY ConnFacts
<1>2. conns[c].destination \in {"EXT", "INTRA"}
  BY <1>1, RecordFacts
<1>3. Switching(c) => ~InLan(conns[c])
  BY <1>1 DEF Switching, InvKeys
<1>4. Switching(c) => conns[c].destination = "INTRA"
  BY DEF Switching, InvSwitch
<1> QED BY <1>2, <1>3, <1>4 DEF Out, In, InLan

(* A thread that found nothing has a packet which no connection was opened *)
(* with.                                                                   *)
LEMMA NotFound ==
  ASSUME IInv, InvFound, NEW k, Found(k) = 0, NEW c \in live, ~InLan(conns[c])
  PROVE  conns[c].first # k
<1> SUFFICES ASSUME conns[c].first = k PROVE FALSE
  OBVIOUS
<1>1. c \in DOMAIN conns /\ c # 0 /\ ~FromExt(k)
  BY LiveRecords, OriginFacts
<1>2. k = IntKey(conns[c])
  BY DEF IntKey
<1>3. \A x \in DOMAIN int_tree1 : int_tree1[x] # 0
  <2>1. ASSUME NEW x \in DOMAIN int_tree1 PROVE int_tree1[x] \in DOMAIN conns
    BY DEF IInv, InvType, Values
  <2> QED BY <2>1, ConnFacts DEF IInv
<1>4. CASE Out(c)
  BY <1>1, <1>2, <1>3, <1>4 DEF InvFound, Found
<1>5. CASE In(c)
  BY <1>1, <1>2, <1>3, <1>5 DEF InvFound, Found
<1> QED BY <1>1, <1>4, <1>5, OutIn

LEMMA QuietFound ==
  ASSUME IInv, InvFound, InvLive, Quiet
  PROVE  InvFound'
<1> USE DEF IInv
<1>1. /\ UNCHANGED <<live, int_tree1, int_tree2, intra_tree1, intra_tree2>>
      /\ DOMAIN conns' = DOMAIN conns /\ \A c \in DOMAIN conns : Same(c)
      /\ \A u \in Threads : /\ pc'[u] = "switch" <=> pc[u] = "switch"
                            /\ pc[u] = "switch" => cur'[u] = cur[u]
  BY QuietFacts
<1>2. live \subseteq DOMAIN conns
  BY DEF InvType
<1>3. ASSUME NEW c \in DOMAIN conns
      PROVE  /\ IntKey(conns'[c]) = IntKey(conns[c]) /\ ExtKey(conns'[c]) = ExtKey(conns[c])
             /\ IntraKey(conns'[c]) = IntraKey(conns[c]) /\ conns'[c].first = conns[c].first
             /\ (InLan(conns'[c]) <=> InLan(conns[c])) /\ (Out(c)' <=> Out(c)) /\ (In(c)' <=> In(c))
  <2>1. Same(c)
    BY <1>1
  <2>2. Switching(c)' <=> Switching(c)
    BY <1>1 DEF Switching
  <2>3. /\ IntKey(conns'[c]) = IntKey(conns[c]) /\ ExtKey(conns'[c]) = ExtKey(conns[c])
        /\ IntraKey(conns'[c]) = IntraKey(conns[c]) /\ conns'[c].first = conns[c].first
        /\ InLan(conns'[c]) <=> InLan(conns[c])
    BY <2>1 DEF Same, IntKey, ExtKey, IntraKey, InLan
  <2> QED BY <2>1, <2>2, <2>3 DEF Same, Out, In, InLan
<1>4. ASSUME NEW t \in Threads, NEW c \in live, pc'[t] = "create", ~InLan(conns[c])
      PROVE  conns[c].first # pkt'[t].key
  <2>1. CASE \E u \in Threads, k \in Flows, query \in BOOLEAN : Lookup(u, k, query)
    <3>1. PICK u \in Threads, k \in Flows, query \in BOOLEAN : Lookup(u, k, query)
      BY <2>1
    <3> DEFINE q == [key |-> k, query |-> query]
    <3>2. /\ pkt' = [pkt EXCEPT ![u] = q] /\ q.key = k
          /\ pc' = [pc EXCEPT ![u] = IF Found(k) = 0 THEN "create" ELSE "wait"]
      BY <3>1 DEF Lookup
    <3> HIDE DEF q
    <3>3. CASE t = u
      <4>1. pkt'[t].key = k /\ Found(k) = 0
        BY <1>4, <3>2, <3>3 DEF InvType
      <4> QED BY <1>4, <4>1, NotFound
    <3>4. CASE t # u
      <4>1. pkt'[t] = pkt[t] /\ pc[t] = "create"
        BY <1>4, <3>2, <3>4 DEF InvType
      <4> QED BY <1>4, <4>1 DEF InvFound
    <3> QED BY <3>3, <3>4
  <2>2. CASE \E u \in Threads : Hold(u)
    BY <1>4, <2>2 DEF Hold, InvType, InvFound
  <2>3. CASE \E u \in Threads : GivesUp(u) \/ Relay(u)
    <3>1. PICK u \in Threads : GivesUp(u) \/ Relay(u)
      BY <2>3
    <3>2. Ends(u)
      <4>1. CASE GivesUp(u)
        BY <4>1, GiveUpFacts
      <4>2. CASE Relay(u)
        <5>1. PICK r \in Records, to \in Sides : Relayed(u, r, to)
          BY <4>2, RelayFacts
        <5> QED BY <5>1 DEF Relayed, Finish, Ends
      <4> QED BY <3>1, <4>1, <4>2
    <3> QED BY <1>1, <1>4, <3>2, EndFacts DEF InvFound
  <2>4. CASE (\E d \in DOMAIN conns : Age(d)) \/ Aside \/ UNCHANGED vars
    <3>1. UNCHANGED <<pc, pkt>>
      BY <2>4 DEF Age, Aside, CleanStart, CleanSkip, CleanEnd, FromPotNoLink, vars, thread
    <3> QED BY <1>4, <3>1 DEF InvFound
  <2> QED BY <2>1, <2>2, <2>3, <2>4 DEF Quiet
<1>5. ASSUME NEW c \in todo' PROVE c \in DOMAIN conns /\ ~InLan(conns[c])
  <2>1. CASE c \in todo
    BY <2>1 DEF InvType, InvFound
  <2>2. CASE CleanStart
    <3>1. c \in Values(int_tree2) \/ c \in Values(intra_tree1)
      BY <1>5, <2>2 DEF CleanStart, Expired
    <3>2. c \in DOMAIN conns
      BY <3>1 DEF InvType
    <3>3. Out(c) \/ In(c)
      BY <3>1, <3>2 DEF Values, InvFiled
    <3> QED BY <3>2, <3>3, OutIn
  <2>3. ASSUME ~CleanStart PROVE todo' \subseteq todo
    <3>1. ASSUME NEW t \in Threads, GivesUp(t) PROVE todo' \subseteq todo
      BY <3>1, GiveUpFacts
    <3>2. ASSUME NEW t \in Threads, Relay(t) PROVE todo' \subseteq todo
      <4>1. PICK r \in Records, to \in Sides : Relayed(t, r, to)
        BY <3>2, RelayFacts
      <4> QED BY <4>1 DEF Relayed, Finish
    <3>3. ASSUME NEW t \in Threads, Hold(t) PROVE todo' \subseteq todo
      BY <3>3 DEF Hold
    <3>4. ASSUME NEW t, NEW k, NEW query, Lookup(t, k, query) PROVE todo' \subseteq todo
      BY <3>4 DEF Lookup
    <3>5. ASSUME NEW d, Age(d) PROVE todo' \subseteq todo
      BY <3>5 DEF Age
    <3>6. ASSUME Aside \/ UNCHANGED vars PROVE todo' \subseteq todo
      BY <2>3, <3>6 DEF Aside, CleanSkip, CleanEnd, FromPotNoLink, vars
    <3> QED BY <3>1, <3>2, <3>3, <3>4, <3>5, <3>6, Zenon DEF Quiet
  <2> QED BY <1>5, <2>1, <2>2, <2>3
<1>6. \A c \in live : Out(c)' => FoundOut(c)'
  BY <1>1, <1>2, <1>3 DEF InvFound, FoundOut
<1>7. \A c \in live : In(c)' => FoundIn(c)'
  BY <1>1, <1>2, <1>3 DEF InvFound, FoundIn
<1>8. \A c, d \in live :
        ~InLan(conns'[c]) /\ ~InLan(conns'[d]) /\ conns'[c].first = conns'[d].first => c = d
  BY <1>2, <1>3 DEF InvFound
<1>9. \A t \in Threads, c \in live :
        pc'[t] = "create" /\ ~InLan(conns'[c]) => conns'[c].first # pkt'[t].key
  BY <1>2, <1>3, <1>4
<1>10. \A c \in todo' : ~InLan(conns'[c])
  BY <1>3, <1>5
<1> QED BY <1>1, <1>6, <1>7, <1>8, <1>9, <1>10 DEF InvFound, FoundOut, FoundIn, InLan

(* The entries of a new connection. *)
Entered(t, destination, handler) ==
  LET conn == Conn(pkt[t].key, destination, handler)
      c == Cardinality(DOMAIN conns) + 1
  IN /\ IF destination = "EXT"
        THEN /\ int_tree1' = Insert(int_tree1, IntKey(conn), c)
             /\ int_tree2' = Insert(int_tree2, ExtKey(conn), c)
        ELSE UNCHANGED <<int_tree1, int_tree2>>
     /\ IF destination = "INTRA" /\ handler # NoHandler
        THEN /\ intra_tree1' = Insert(intra_tree1, IntKey(conn), c)
             /\ intra_tree2' = Insert(intra_tree2, IntraKey(conn), c)
        ELSE UNCHANGED <<intra_tree1, intra_tree2>>

LEMMA EnteredFacts ==
  ASSUME IInv, NEW t \in Threads, OpenExt(t) \/ OpenIntra(t) \/ OpenLan(t)
  PROVE  \E destination, handler :
           Filed(t, destination, handler) /\ Entered(t, destination, handler)
<1> USE DEF IInv
<1> DEFINE k == pkt[t].key
           c == Cardinality(DOMAIN conns) + 1
<1>1. ASSUME NEW conn, Allocate(t, conn) PROVE cur'[t] = c
  BY <1>1 DEF Allocate, InvType
<1>2. CASE OpenExt(t)
  <2>1. Entered(t, "EXT", NoHandler)
    BY <1>1, <1>2 DEF OpenExt, Entered
  <2> QED BY <1>2, <2>1, OpenFacts
<1>3. CASE OpenIntra(t)
  <2> DEFINE h == intra_handlers[k.dst]
             conn == Conn(k, "INTRA", h)
  <2>1. /\ intra_tree1' = Insert(intra_tree1, IntKey(conn), c)
        /\ intra_tree2' = Insert(intra_tree2, IntraKey(conn), c)
        /\ UNCHANGED <<int_tree1, int_tree2>> /\ Destination(k) = "INTRA"
    BY <1>1, <1>3 DEF OpenIntra
  <2>2. h # NoHandler
    BY <2>1 DEF Destination, InvType
  <2> HIDE DEF h
  <2>3. Entered(t, "INTRA", h)
    BY <2>1, <2>2 DEF Entered
  <2> QED BY <1>3, <2>3, OpenFacts DEF h
<1>4. CASE OpenLan(t)
  <2>1. Entered(t, "INTRA", NoHandler)
    BY <1>4 DEF OpenLan, Entered, trees
  <2> QED BY <1>4, <2>1, OpenFacts
<1> QED BY <1>2, <1>3, <1>4

LEMMA OpenFound ==
  ASSUME PortsApart, IInv, InvLive, InvFound, NEW t \in Threads, NEW destination, NEW handler,
         Filed(t, destination, handler), Entered(t, destination, handler)
  PROVE  InvFound'
<1> USE DEF IInv
<1> DEFINE k == pkt[t].key
           conn == Conn(k, destination, handler)
           c == Cardinality(DOMAIN conns) + 1
           out == destination = "EXT"
           in == destination = "INTRA" /\ handler # NoHandler
<1>1. /\ pc[t] = "create" /\ k.src \in Pots /\ Allocate(t, conn)
      /\ destination \in {"EXT", "INTRA"} /\ handler \in Handlers
  BY DEF Filed
<1>2. k \in Flows /\ HandledBy(k) = t
  BY <1>1 DEF InvThreads
<1>3. /\ conn \in Records /\ conn.first = k
      /\ conn.destination = destination /\ conn.intra_handler = handler
  BY <1>1, <1>2, ConnRecord
<1>4. Created(t, conn, c)
  BY <1>1, <1>3, AllocateFacts
<1>5. /\ IF out THEN /\ int_tree1' = Insert(int_tree1, IntKey(conn), c)
                     /\ int_tree2' = Insert(int_tree2, ExtKey(conn), c)
         ELSE UNCHANGED <<int_tree1, int_tree2>>
      /\ IF in THEN /\ intra_tree1' = Insert(intra_tree1, IntKey(conn), c)
                    /\ intra_tree2' = Insert(intra_tree2, IntraKey(conn), c)
         ELSE UNCHANGED <<intra_tree1, intra_tree2>>
  BY DEF Entered
<1> HIDE DEF c, conn
<1>6. /\ c \notin DOMAIN conns /\ conns'[c] = conn /\ DOMAIN conns' = DOMAIN conns \cup {c}
      /\ \A d \in DOMAIN conns : conns'[d] = conns[d]
      /\ live' = live \cup {c} /\ pkt' = pkt /\ todo' = todo
      /\ pc'[t] = "process" /\ cur'[t] = c
      /\ \A u \in Threads : u # t => pc'[u] = pc[u] /\ cur'[u] = cur[u]
  BY <1>4 DEF Created
<1>7. ASSUME NEW d \in live
      PROVE  /\ d \in DOMAIN conns /\ d # c /\ conns'[d] = conns[d]
             /\ (Out(d)' <=> Out(d)) /\ (In(d)' <=> In(d))
  <2>1. d \in DOMAIN conns /\ d # c /\ conns'[d] = conns[d]
    BY <1>6 DEF InvType
  <2>2. Switching(d)' <=> Switching(d)
    BY <1>1, <1>6, <2>1 DEF Switching
  <2> QED BY <2>1, <2>2 DEF Out, In, InLan
<1>8. ASSUME NEW d \in live, ~InLan(conns[d])
      PROVE  /\ conns[d].first # k /\ IntKey(conns[d]) # IntKey(conn)
             /\ ExtKey(conns[d]) # ExtKey(conn) /\ IntraKey(conns[d]) # IntraKey(conn)
  <2>1. conns[d].first # k
    BY <1>1, <1>8 DEF InvFound
  <2> QED BY <1>1, <1>3, <2>1, LiveRecords, KeysApart
<1>9. ASSUME NEW d, d = c PROVE ~Switching(d)'
  <2>1. \A u \in Threads : cur[u] # c
    BY <1>4, <1>6 DEF InvThreads, Created
  <2> QED BY <1>6, <1>9, <2>1 DEF Switching
<1>10. ASSUME NEW d, d = c
       PROVE  (Out(d)' <=> out) /\ (In(d)' <=> in) /\ (InLan(conns'[d]) <=> (~out /\ ~in))
  <2>1. ~Switching(d)' /\ conns'[d] = conn
    BY <1>6, <1>9, <1>10
  <2> QED BY <1>1, <1>3, <2>1 DEF Out, In, InLan
<1>11. ASSUME NEW d \in live', Out(d)' PROVE FoundOut(d)'
  <2>1. CASE d = c
    <3>1. out /\ conns'[d] = conn
      BY <1>6, <1>10, <1>11, <2>1
    <3> QED BY <1>5, <2>1, <3>1 DEF FoundOut, Insert
  <2>2. CASE d # c
    <3>1. d \in live /\ Out(d) /\ conns'[d] = conns[d] /\ ~InLan(conns[d])
      BY <1>6, <1>7, <1>11, <2>2, OutIn
    <3>2. FoundOut(d)
      BY <3>1 DEF InvFound, FoundOut
    <3>3. IntKey(conns[d]) # IntKey(conn) /\ ExtKey(conns[d]) # ExtKey(conn)
      BY <1>8, <3>1
    <3> QED BY <1>5, <3>1, <3>2, <3>3 DEF FoundOut, Insert
  <2> QED BY <2>1, <2>2
<1>12. ASSUME NEW d \in live', In(d)' PROVE FoundIn(d)'
  <2>1. CASE d = c
    <3>1. in /\ conns'[d] = conn
      BY <1>6, <1>10, <1>12, <2>1
    <3> QED BY <1>5, <2>1, <3>1 DEF FoundIn, Insert
  <2>2. CASE d # c
    <3>1. d \in live /\ In(d) /\ conns'[d] = conns[d] /\ ~InLan(conns[d])
      BY <1>6, <1>7, <1>12, <2>2, OutIn
    <3>2. FoundIn(d)
      BY <3>1 DEF InvFound, FoundIn
    <3>3. IntKey(conns[d]) # IntKey(conn) /\ IntraKey(conns[d]) # IntraKey(conn)
      BY <1>8, <3>1
    <3> QED BY <1>5, <3>1, <3>2, <3>3 DEF FoundIn, Insert
  <2> QED BY <2>1, <2>2
<1>13. ASSUME NEW d \in live', NEW e \in live', ~InLan(conns'[d]), ~InLan(conns'[e]),
              conns'[d].first = conns'[e].first
       PROVE  d = e
  <2>1. CASE d \in live /\ e \in live
    BY <1>7, <1>13, <2>1 DEF InvFound
  <2>2. ASSUME NEW x \in live, ~InLan(conns'[x]) PROVE conns'[x].first # conns'[c].first
    BY <1>3, <1>6, <1>7, <1>8, <2>2
  <2> QED BY <1>6, <1>13, <2>1, <2>2
<1>14. ASSUME NEW u \in Threads, NEW d \in live', pc'[u] = "create", ~InLan(conns'[d])
       PROVE  conns'[d].first # pkt'[u].key
  <2>1. u # t /\ pc[u] = "create" /\ pkt'[u] = pkt[u]
    BY <1>6, <1>14
  <2>2. CASE d = c
    <3>1. HandledBy(pkt[u].key) = u
      BY <2>1 DEF InvThreads
    <3> QED BY <1>2, <1>3, <1>6, <2>1, <2>2, <3>1
  <2>3. CASE d # c
    BY <1>6, <1>7, <1>14, <2>1, <2>3 DEF InvFound
  <2> QED BY <2>2, <2>3
<1>15. \A d \in todo' : ~InLan(conns'[d])
  BY <1>6 DEF InvFound, InvType
<1> QED BY <1>11, <1>12, <1>13, <1>14, <1>15 DEF InvFound, FoundOut, FoundIn, InLan

LEMMA DnsFound ==
  ASSUME IInv, InvLive, InvFound, NEW t \in Threads, ControlDns(t)
  PROVE  InvFound'
<1> USE DEF IInv
<1> DEFINE c == cur[t]
<1>1. /\ pc[t] = "process" /\ c \in DOMAIN conns /\ conns[c].destination = "EXT"
      /\ pc' = [pc EXCEPT ![t] = "switch"]
      /\ UNCHANGED <<live, int_tree1, int_tree2, intra_tree1, intra_tree2, pkt, cur, todo>>
  BY DnsFacts
<1>2. /\ DOMAIN conns' = DOMAIN conns /\ Moved(conns'[c], conns[c])
      /\ \A d \in DOMAIN conns : d # c => conns'[d] = conns[d]
  BY MovedConn
<1>3. /\ pc'[t] = "switch" /\ \A u \in Threads : u # t => pc'[u] = pc[u]
  BY <1>1 DEF InvType
<1>4. live \subseteq DOMAIN conns /\ todo \subseteq DOMAIN conns
  BY DEF InvType
<1>5. ASSUME NEW d \in DOMAIN conns
      PROVE  /\ IntKey(conns'[d]) = IntKey(conns[d]) /\ ExtKey(conns'[d]) = ExtKey(conns[d])
             /\ conns'[d].first = conns[d].first
             /\ (InLan(conns'[d]) <=> InLan(conns[d])) /\ (Out(d)' <=> Out(d)) /\ (In(d)' <=> In(d))
             /\ In(d)' => IntraKey(conns'[d]) = IntraKey(conns[d])
  <2>1. CASE d = c
    <3>1. /\ IntKey(conns'[c]) = IntKey(conns[c]) /\ ExtKey(conns'[c]) = ExtKey(conns[c])
          /\ conns'[c].first = conns[c].first /\ ~InLan(conns'[c]) /\ ~InLan(conns[c])
      BY <1>1, <1>2 DEF Moved, IntKey, ExtKey, InLan
    <3>2. Switching(d)' /\ Out(d) /\ ~In(d)
      BY <1>1, <1>3, <2>1 DEF Switching, Out, In
    <3> QED BY <2>1, <3>1, <3>2 DEF Out, In
  <2>2. CASE d # c
    <3>1. Switching(d)' <=> Switching(d)
      BY <1>1, <1>3, <2>2 DEF Switching
    <3>2. conns'[d] = conns[d]
      BY <1>2, <2>2
    <3> QED BY <3>1, <3>2 DEF Out, In, InLan
  <2> QED BY <2>1, <2>2
<1>6. \A d \in live : Out(d)' => FoundOut(d)'
  BY <1>1, <1>4, <1>5 DEF InvFound, FoundOut
<1>7. \A d \in live : In(d)' => FoundIn(d)'
  BY <1>1, <1>4, <1>5 DEF InvFound, FoundIn
<1>8. \A d, e \in live :
        ~InLan(conns'[d]) /\ ~InLan(conns'[e]) /\ conns'[d].first = conns'[e].first => d = e
  BY <1>4, <1>5 DEF InvFound
<1>9. \A u \in Threads, d \in live :
        pc'[u] = "create" /\ ~InLan(conns'[d]) => conns'[d].first # pkt'[u].key
  <2>1. \A u \in Threads : pc'[u] = "create" => pc[u] = "create" /\ pkt'[u] = pkt[u]
    BY <1>1, <1>3
  <2> QED BY <1>4, <1>5, <2>1 DEF InvFound
<1>10. \A d \in todo' : ~InLan(conns'[d])
  BY <1>1, <1>4, <1>5 DEF InvFound
<1> QED BY <1>1, <1>6, <1>7, <1>8, <1>9, <1>10 DEF InvFound, FoundOut, FoundIn, InLan

LEMMA SwitchFound ==
  ASSUME PortsApart, IInv, InvLive, InvFound, NEW t \in Threads, SwitchToIntra(t)
  PROVE  InvFound'
<1> USE DEF IInv
<1> DEFINE c == cur[t]
           conn == conns[c]
<1>1. /\ pc[t] = "switch" /\ c \in DOMAIN conns
      /\ conn.destination = "INTRA" /\ ~InLan(conn) /\ conns' = conns /\ Ends(t)
      /\ int_tree1' = Remove(int_tree1, IntKey(conn))
      /\ int_tree2' = Remove(int_tree2, ExtKey(conn))
      /\ intra_tree1' = Insert(intra_tree1, IntKey(conn), c)
      /\ intra_tree2' = Insert(intra_tree2, IntraKey(conn), c)
      /\ UNCHANGED <<live, todo>>
      /\ \A u \in Threads : cur[u] = c /\ pc[u] \in {"process", "switch"} => u = t
  BY SwitchFacts
<1>2. /\ pc'[t] = "idle" /\ cur'[t] = 0
      /\ \A u \in Threads : u # t => pc'[u] = pc[u] /\ pkt'[u] = pkt[u] /\ cur'[u] = cur[u]
  BY <1>1, EndFacts
<1>3. c \in live
  BY <1>1, ConnFacts DEF InvLive, NoDangling
<1>4. ASSUME NEW d \in live, d = c PROVE In(d)' /\ ~Out(d)'
  <2>1. ~Switching(d)'
    BY <1>1, <1>2, <1>4, LiveRecords DEF Switching
  <2> QED BY <1>1, <1>4, <2>1 DEF In, Out, InLan
<1>5. ASSUME NEW d \in live, d # c PROVE (Out(d)' <=> Out(d)) /\ (In(d)' <=> In(d))
  <2>1. Switching(d)' <=> Switching(d)
    BY <1>1, <1>2, <1>5, LiveRecords DEF Switching
  <2> QED BY <1>1, <2>1 DEF Out, In, InLan
<1>6. ASSUME NEW d \in live, d # c, ~InLan(conns[d])
      PROVE  /\ IntKey(conns[d]) # IntKey(conn) /\ ExtKey(conns[d]) # ExtKey(conn)
             /\ IntraKey(conns[d]) # IntraKey(conn)
  BY <1>1, <1>3, <1>6, LiveApart
<1> HIDE DEF c, conn
<1>7. ASSUME NEW d \in live, Out(d)' PROVE FoundOut(d)'
  <2>1. d # c /\ Out(d)
    BY <1>4, <1>5, <1>7
  <2>2. FoundOut(d) /\ ~InLan(conns[d])
    BY <2>1, LiveRecords, OutIn DEF InvFound, FoundOut
  <2>3. IntKey(conns[d]) # IntKey(conn) /\ ExtKey(conns[d]) # ExtKey(conn)
    BY <1>6, <2>1, <2>2
  <2> QED BY <1>1, <2>2, <2>3 DEF FoundOut, Remove
<1>8. ASSUME NEW d \in live, In(d)' PROVE FoundIn(d)'
  <2>1. CASE d = c
    BY <1>1, <2>1 DEF FoundIn, Insert, conn
  <2>2. CASE d # c
    <3>1. In(d)
      BY <1>5, <1>8, <2>2
    <3>2. FoundIn(d) /\ ~InLan(conns[d])
      BY <3>1, LiveRecords, OutIn DEF InvFound, FoundIn
    <3>3. IntKey(conns[d]) # IntKey(conn) /\ IntraKey(conns[d]) # IntraKey(conn)
      BY <1>6, <2>2, <3>2
    <3> QED BY <1>1, <3>2, <3>3 DEF FoundIn, Insert
  <2> QED BY <2>1, <2>2
<1>9. \A u \in Threads, d \in live :
        pc'[u] = "create" /\ ~InLan(conns[d]) => conns[d].first # pkt'[u].key
  BY <1>2 DEF InvFound
<1>10. \A d, e \in live :
         ~InLan(conns[d]) /\ ~InLan(conns[e]) /\ conns[d].first = conns[e].first => d = e
  BY DEF InvFound
<1>11. \A d \in todo : ~InLan(conns[d])
  BY DEF InvFound
<1> QED BY <1>1, <1>7, <1>8, <1>9, <1>10, <1>11 DEF InvFound, FoundOut, FoundIn, InLan

LEMMA FreeFound ==
  ASSUME PortsApart, IInv, InvLive, InvFound, NEW c \in todo, CleanOne(c)
  PROVE  InvFound'
<1> USE DEF IInv
<1> DEFINE conn == conns[c]
<1>1. /\ c \in DOMAIN conns /\ todo' = todo \ {c} /\ live' = live \ {c}
      /\ UNCHANGED <<conns, pc, pkt, cur>>
      /\ int_tree1' = int_tree1 \/ int_tree1' = Remove(int_tree1, IntKey(conn))
      /\ int_tree2' = int_tree2 \/ int_tree2' = Remove(int_tree2, ExtKey(conn))
      /\ intra_tree1' = intra_tree1 \/ intra_tree1' = Remove(intra_tree1, IntKey(conn))
      /\ intra_tree2' = intra_tree2 \/ intra_tree2' = Remove(intra_tree2, IntraKey(conn))
  BY RemovedFacts
<1>2. c \in live /\ ~InLan(conn)
  BY DEF InvLive, NoDangling, InvFound
<1>3. ASSUME NEW d \in live', ~InLan(conns[d])
      PROVE  /\ d \in live
             /\ IntKey(conns[d]) # IntKey(conn) /\ ExtKey(conns[d]) # ExtKey(conn)
             /\ IntraKey(conns[d]) # IntraKey(conn)
  BY <1>1, <1>2, <1>3, LiveApart
<1>4. ASSUME NEW d \in live' PROVE (Out(d)' <=> Out(d)) /\ (In(d)' <=> In(d))
  BY <1>1 DEF Out, In, Switching, InLan
<1> HIDE DEF conn
<1>5. ASSUME NEW d \in live', Out(d)' PROVE FoundOut(d)'
  <2>1. d \in live /\ Out(d)
    BY <1>1, <1>4, <1>5
  <2>2. FoundOut(d) /\ ~InLan(conns[d])
    BY <2>1, LiveRecords, OutIn DEF InvFound, FoundOut
  <2>3. IntKey(conns[d]) # IntKey(conn) /\ ExtKey(conns[d]) # ExtKey(conn)
    BY <1>3, <2>2
  <2> QED BY <1>1, <2>2, <2>3 DEF FoundOut, Remove
<1>6. ASSUME NEW d \in live', In(d)' PROVE FoundIn(d)'
  <2>1. d \in live /\ In(d)
    BY <1>1, <1>4, <1>6
  <2>2. FoundIn(d) /\ ~InLan(conns[d])
    BY <2>1, LiveRecords, OutIn DEF InvFound, FoundIn
  <2>3. IntKey(conns[d]) # IntKey(conn) /\ IntraKey(conns[d]) # IntraKey(conn)
    BY <1>3, <2>2
  <2> QED BY <1>1, <2>2, <2>3 DEF FoundIn, Remove
<1>7. /\ \A d, e \in live' :
           ~InLan(conns[d]) /\ ~InLan(conns[e]) /\ conns[d].first = conns[e].first => d = e
      /\ \A u \in Threads, d \in live' :
           pc[u] = "create" /\ ~InLan(conns[d]) => conns[d].first # pkt[u].key
      /\ \A d \in todo' : ~InLan(conns[d])
  BY <1>1 DEF InvFound
<1> QED BY <1>1, <1>5, <1>6, <1>7 DEF InvFound, FoundOut, FoundIn, InLan

(* A connection that no thread holds is in the two trees of its            *)
(* destination and in no other, also after switch_conn_to_intra(): both    *)
(* sides' packets find it.  The keys are without one of the two addresses, *)
(* so the ports have to tell the connections of a honeypot, and of an      *)
(* address, apart; the query of the LIH is excluded as above.              *)
THEOREM BothSidesFind ==
  ASSUME QueriesOfHihs, PortsApart
  PROVE  Spec => []InItsTrees
<1>1. Init => InvLive /\ InvFound
  <2>1. Init => InvLive
    BY InitLive
  <2>2. Init => InvFound
    BY DEF Init, InvFound
  <2> QED BY <2>1, <2>2
<1>2. IInv /\ InvLive /\ [Next]_vars => InvLive'
  BY LiveInductive
<1>3. IInv /\ InvLive /\ InvFound /\ [Next]_vars => InvFound'
  <2> SUFFICES ASSUME IInv, InvLive, InvFound, [Next]_vars PROVE InvFound'
    OBVIOUS
  <2>1. ASSUME NEW t \in Threads, OpenExt(t) \/ OpenIntra(t) \/ OpenLan(t) PROVE InvFound'
    <3>1. \E destination, handler :
            Filed(t, destination, handler) /\ Entered(t, destination, handler)
      BY <2>1, EnteredFacts
    <3> QED BY <3>1, OpenFound
  <2> QED BY <2>1, OtherSteps, QuietFound, DnsFound, SwitchFound, FreeFound
<1>4. IInv /\ InvFound => InItsTrees
  <2> SUFFICES ASSUME IInv, InvFound, NEW c \in live, ~Held(c)
               PROVE  LET conn == conns[c]
                          out == conn.destination = "EXT"
                          in == ~out /\ ~InLan(conn)
                      IN /\ IF out THEN FoundOut(c)
                            ELSE c \notin Values(int_tree1) \cup Values(int_tree2)
                         /\ IF in THEN FoundIn(c)
                            ELSE c \notin Values(intra_tree1) \cup Values(intra_tree2)
    BY DEF InItsTrees, FoundOut, FoundIn
  <2>1. c \in DOMAIN conns /\ conns[c].destination \in {"EXT", "INTRA"}
    BY LiveRecords, RecordFacts
  <2>2. ~Switching(c)
    BY DEF Switching, Held
  <2>3. /\ Out(c) <=> conns[c].destination = "EXT"
        /\ In(c) <=> (conns[c].destination # "EXT" /\ ~InLan(conns[c]))
    BY <2>1, <2>2 DEF Out, In
  <2>4. (Out(c) => FoundOut(c)) /\ (In(c) => FoundIn(c))
    BY DEF InvFound, FoundOut, FoundIn
  <2>5. /\ ~Out(c) => c \notin Values(int_tree1) \cup Values(int_tree2)
        /\ ~In(c) => c \notin Values(intra_tree1) \cup Values(intra_tree2)
    BY <2>1 DEF IInv, InvFiled, Values
  <2> QED BY <2>3, <2>4, <2>5
<1> QED BY <1>1, <1>2, <1>3, <1>4, Invariance, PTL DEF Spec

=============================================================================
