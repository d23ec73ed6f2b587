-------------------------- MODULE ConnectionsProofs --------------------------
(***************************************************************************)
(* Proofs about the connection table: what the trees find is alive, a      *)
(* decision thread works on a live connection that it holds, conn_lookup() *)
(* never waits for conn->lock, and the count of a frontend pin is right    *)
(* unless the pin changed in somebody's hand; and, where ports keep        *)
(* sessions apart, no two connections share a key and every reply is       *)
(* found.                                                                  *)
(***************************************************************************)
EXTENDS Connections, FiniteSetTheorems, TLAPS

Flows == ExtFlows \cup PotFlows
Pins == [handler : Pots, target : Addresses \cup {None}] \cup {NoPin}
Records ==
  [initiator : {"EXT", "LIH", "HIH"}, ext_key : Keys, int_key : Keys,
   redirected_int_key : Keys, pin_key : Pins, pin_ip : Nat, target_pin_key : Pins,
   fresh : BOOLEAN]

(* The thread that every packet of a connection comes to. *)
Owner(conn) == Home[conn.ext_key.src]

RedirectionKeys(conn) == {Key(h, conn.ext_key.src, conn.ext_key.port) : h \in Hihs}

(* A connection from EXT, under the names create_conn() and                *)
(* setup_redirection() give it.                                            *)
Outside(conn) ==
  /\ conn.ext_key \in Flows \cap Opening /\ conn.ext_key.src \in Hosts
  /\ conn.int_key = Key(Lih, conn.ext_key.src, conn.ext_key.port)
  /\ conn.redirected_int_key \in RedirectionKeys(conn) \cup {NoKey}
  /\ conn.pin_key.handler = Lih

(* A connection that a honeypot opened. *)
Inside(conn) ==
  /\ conn.int_key \in Flows \cap Opening /\ conn.int_key.src \notin Hosts
  /\ conn.ext_key.src = conn.int_key.dst /\ conn.ext_key.port = conn.int_key.port
  /\ conn.int_key.dst \in Hosts
  /\ conn.pin_key = NoPin \/ conn.pin_key.handler = Lih
     \/ (ExclusiveHih /\ conn.pin_key.handler \in Hihs)

(* Ids are given in order, and the keys of a connection fit each other. *)
InvConns ==
  /\ \E n \in 0 .. MaxConns : conns \in [1 .. n -> Records]
  /\ live \subseteq DOMAIN conns
  /\ \A c \in DOMAIN conns :
       IF conns[c].initiator = "EXT" THEN Outside(conns[c]) ELSE Inside(conns[c])

(* Where a thread has no connection yet. *)
Seeking == {"idle", "lookup", "create", "pinned"}

(* A thread handles the packets of its own hosts, and holds the one        *)
(* connection it works on.                                                 *)
InvThreads ==
  /\ locked \in [Ids -> Threads \cup {None}]
  /\ pc \in [Threads -> Places] /\ pkt \in [Threads -> Flows \cup {NoKey}]
  /\ cur \in [Threads -> 0 .. MaxConns]
  /\ \A t \in Threads : pc[t] # "idle" => pkt[t] \in Flows /\ HandledBy(pkt[t]) = t
  /\ \A t \in Threads : cur[t] = 0 <=> pc[t] \in Seeking
  /\ \A t \in Threads :
       cur[t] # 0 => cur[t] \in live /\ locked[cur[t]] = t /\ Owner(conns[cur[t]]) = t
  /\ \A c \in Ids : locked[c] # None => cur[locked[c]] = c

(* What a tree finds is alive and is known under the key. *)
InvTrees ==
  /\ \A k \in DOMAIN ext_tree1 :
       /\ ext_tree1[k] \in live
       /\ conns[ext_tree1[k]].initiator = "EXT" /\ k = conns[ext_tree1[k]].ext_key
  /\ \A k \in DOMAIN ext_tree2 :
       /\ ext_tree2[k] \in live
       /\ conns[ext_tree2[k]].initiator = "EXT" /\ k # NoKey
       /\ k \in {conns[ext_tree2[k]].int_key, conns[ext_tree2[k]].redirected_int_key}
  /\ \A k \in DOMAIN int_tree1 :
       /\ int_tree1[k] \in live
       /\ conns[int_tree1[k]].initiator # "EXT" /\ k = conns[int_tree1[k]].int_key
  /\ \A k \in DOMAIN int_tree2 :
       /\ int_tree2[k] \in live
       /\ conns[int_tree2[k]].initiator # "EXT" /\ k = conns[int_tree2[k]].ext_key

(* The cleaner has connlock between two steps, and collects what is alive. *)
InvTodo == connlock \in {None, "clean"} /\ todo \subseteq live

(* A connection from outside is in its tree from its creation on.  One     *)
(* from inside is so once its thread has inserted it: until then the key   *)
(* that the lookup did not find is still free.                             *)
InvFiled ==
  /\ \A c \in live :
       conns[c].initiator = "EXT" =>
         conns[c].ext_key \in DOMAIN ext_tree1 /\ ext_tree1[conns[c].ext_key] = c
  /\ \A c \in live :
       conns[c].initiator # "EXT" /\ (\A t \in Threads : cur[t] = c => pc[t] # "insert") =>
         conns[c].int_key \in DOMAIN int_tree1 /\ int_tree1[conns[c].int_key] = c
  /\ \A t \in Threads :
       pc[t] \in {"create", "pinned"} =>
         IF FromExt(pkt[t]) THEN pkt[t] \notin DOMAIN ext_tree1
                            ELSE pkt[t] \notin DOMAIN int_tree1
  /\ \A t \in Threads :
       pc[t] = "insert" =>
         /\ conns[cur[t]].initiator # "EXT" /\ conns[cur[t]].int_key = pkt[t]
         /\ pkt[t] \notin DOMAIN int_tree1

(* The connections that use the pin p, of those in l with the records r. *)
Users(l, r, p) == {c \in l : r[c].pin_key = p}

(* A pin remembers an address. *)
PinRecords == [ip : Addresses, count : Int, by : Nat, writes : Nat, freed : BOOLEAN]

InvAddresses ==
  \A tree \in {comm_pin_tree, target_pin_tree} : \A p \in DOMAIN tree : tree[p] \in PinRecords

(* What a thread has in its hand: the pin that its packet asked for, or    *)
(* that of the HIH to which its connection is about to be redirected.      *)
InvHand ==
  /\ DOMAIN hand = Threads
  /\ \A t \in Threads : pc[t] = "pinned" =>
       /\ pkt[t] \in Opening /\ ~FromExt(pkt[t]) /\ hand[t].key = OutPin(pkt[t])
       /\ hand[t].pin \in PinRecords
       /\ UsesTargetPin(pkt[t]) \/ hand[t].pin.count >= 1
  /\ \A t \in Threads : pc[t] = "target" => hand[t].pin \in PinRecords
  /\ \A t \in Threads : pc[t] \in {"target", "new_target", "redirect"} =>
       /\ \E h \in Hihs : hand[t].key = PinKey(h, None)
       /\ conns[cur[t]].initiator = "EXT" /\ conns[cur[t]].redirected_int_key = NoKey

(* A frontend pin has a user.  One that never changed in a thread's hand   *)
(* is there as long as someone uses it, and counts them.                   *)
InvPins ==
  /\ \A p \in DOMAIN comm_pin_tree :
       /\ p.handler = Lih /\ ~comm_pin_tree[p].freed /\ comm_pin_tree[p].count >= 1
       /\ p \notin raced => comm_pin_tree[p].count = Cardinality(Users(live, conns, p))
  /\ \A c \in live :
       conns[c].pin_key.handler = Lih /\ conns[c].pin_key \notin raced =>
         conns[c].pin_key \in DOMAIN comm_pin_tree

IInv ==
  /\ InvConns
  /\ InvThreads
  /\ InvTrees
  /\ InvTodo
  /\ InvFiled
  /\ InvAddresses
  /\ InvHand
  /\ InvPins

(* Where the code and its sites keep sessions apart by their ports.  A     *)
(* host does not open two sessions to different addresses from one port.   *)
OneAttack ==
  \A k, l \in Flows \cap Opening :
    FromExt(k) /\ FromExt(l) /\ k.src = l.src /\ k.port = l.port => k = l

(* Two honeypots do not open sessions with one host under one pair of      *)
(* ports.                                                                  *)
PortsApart ==
  \A k, l \in Flows \cap Opening :
    ~FromExt(k) /\ ~FromExt(l) /\ k.dst = l.dst /\ k.port = l.port => k = l

-----------------------------------------------------------------------------
(* Keys, flows and ids.                                                    *)

(* A packet comes from a host or, to a host, from a honeypot. *)
LEMMA FlowFacts ==
  ASSUME NEW k \in Flows
  PROVE  /\ k \in Keys /\ k # NoKey
         /\ FromExt(k) => k.src \in Hosts /\ k \in ExtFlows
         /\ ~FromExt(k) => k.src \in Pots /\ k.dst \in Hosts
         /\ HandledBy(k) \in Threads
<1>1. k = Key(k.src, k.dst, k.port) /\ k.port \in Ports
  BY ConnectionsAssumption DEF Flows, Ports
<1>2. k \in ExtFlows => k.src \in Hosts /\ k.dst \in Addresses
  BY ConnectionsAssumption DEF Addresses
<1>3. k \in PotFlows => k.src \in Pots /\ k.dst \in Hosts /\ k.dst \in Addresses
  BY ConnectionsAssumption DEF Addresses
<1>4. k.src \in Pots \cup Hosts /\ k.dst \in Addresses /\ k.src # None
  BY <1>2, <1>3, ConnectionsAssumption DEF Flows
<1>5. k \in Keys
  BY <1>1, <1>4 DEF Keys, Key
<1>6. k # NoKey
  BY <1>4 DEF NoKey, Key
<1> QED BY <1>2, <1>3, <1>5, <1>6, ConnectionsAssumption DEF Flows, FromExt, HandledBy

(* The keys that the code derives are keys. *)
LEMMA KeyFacts ==
  ASSUME NEW s \in Pots \cup Hosts, NEW d \in Addresses, NEW p \in Ports
  PROVE  /\ Key(s, d, p) \in Keys /\ Key(s, d, p) # NoKey
         /\ Key(s, d, p).src = s /\ Key(s, d, p).dst = d /\ Key(s, d, p).port = p
BY ConnectionsAssumption DEF Key, Keys, NoKey

(* Ids are given in order: the next one is new. *)
LEMMA NewIdFacts ==
  ASSUME InvConns
  PROVE  /\ NewId \in Nat /\ NewId # 0
         /\ DOMAIN conns = 1 .. (NewId - 1) /\ NewId \notin DOMAIN conns
         /\ conns \in [1 .. (NewId - 1) -> Records]
<1>1. PICK n \in 0 .. MaxConns : conns \in [1 .. n -> Records]
  BY DEF InvConns
<1>2. n \in Nat /\ DOMAIN conns = 1 .. n
  BY <1>1, ConnectionsAssumption
<1>3. Cardinality(1 .. n) = n
  BY <1>2, FS_Interval
<1> QED BY <1>1, <1>2, <1>3 DEF NewId

(* What every step keeps of a connection: all but its access time and,     *)
(* once, its redirection.                                                  *)
Same(c) ==
  /\ c \in DOMAIN conns'
  /\ conns'[c].initiator = conns[c].initiator
  /\ conns'[c].ext_key = conns[c].ext_key
  /\ conns'[c].int_key = conns[c].int_key
  /\ conns'[c].pin_key = conns[c].pin_key
  /\ conns[c].redirected_int_key = NoKey \/ conns'[c].redirected_int_key = conns[c].redirected_int_key

(* The steps that create no connection, remove none and leave the trees    *)
(* alone.                                                                  *)
SetTarget(t) == CountTarget(t) \/ NewTarget(t)
Quiet(t) ==
  \/ \E k \in Flows : Receive(t, k)
  \/ Lookup(t) \/ Update(t) \/ Skip(t) \/ LookupPin(t)
  \/ \E h \in Hihs : LookupTarget(t, h)
  \/ RefuseTarget(t) \/ SetTarget(t) \/ Finish(t)

CleanQuiet == CleanStart \/ (\E c \in todo : CleanSkip(c)) \/ CleanEnd

CreateOut(t) == CreateUnpinned(t) \/ CreatePinned(t)

(* The steps, sorted by what they do to the table. *)
LEMMA StepCases ==
  ASSUME Next
  PROVE  \/ \E t \in Threads : \/ Quiet(t) \/ CreateExt(t) \/ CreateOut(t) \/ InsertOut(t)
                               \/ Redirect(t)
         \/ \E c \in DOMAIN conns : Age(c)
         \/ CleanQuiet
         \/ \E c \in todo : CleanOne(c)
BY DEF Next, ThreadStep, CleanStep, Quiet, CleanQuiet, CreateOut, SetTarget, Flows

(* A connection that exists has its record. *)
LEMMA RecordFacts ==
  ASSUME InvConns, NEW c \in DOMAIN conns
  PROVE  conns[c] \in Records
BY NewIdFacts

-----------------------------------------------------------------------------
(* InvConns.                                                               *)

(* A step that only sets the access time or the target pin. *)
LEMMA RecordKeeps ==
  ASSUME InvConns, NEW c \in DOMAIN conns, NEW r \in Records,
         r.initiator = conns[c].initiator, r.ext_key = conns[c].ext_key,
         r.int_key = conns[c].int_key, r.pin_key = conns[c].pin_key,
         r.redirected_int_key = conns[c].redirected_int_key,
         conns' = [conns EXCEPT ![c] = r], UNCHANGED live
  PROVE  /\ InvConns' /\ DOMAIN conns' = DOMAIN conns /\ (\A d \in DOMAIN conns : Same(d))
         /\ \A d \in DOMAIN conns : conns'[d].redirected_int_key = conns[d].redirected_int_key
<1>1. PICK n \in 0 .. MaxConns : conns \in [1 .. n -> Records]
  BY DEF InvConns
<1>2. /\ conns' \in [1 .. n -> Records] /\ DOMAIN conns' = DOMAIN conns
      /\ conns'[c] = r /\ \A d \in DOMAIN conns : d # c => conns'[d] = conns[d]
  BY <1>1
<1>3. \A d \in DOMAIN conns :
        /\ conns'[d].initiator = conns[d].initiator /\ conns'[d].ext_key = conns[d].ext_key
        /\ conns'[d].int_key = conns[d].int_key /\ conns'[d].pin_key = conns[d].pin_key
        /\ conns'[d].redirected_int_key = conns[d].redirected_int_key
  BY <1>2
<1>4. ASSUME NEW d \in DOMAIN conns'
      PROVE  IF conns'[d].initiator = "EXT" THEN Outside(conns'[d]) ELSE Inside(conns'[d])
  <2>1. d \in DOMAIN conns
    BY <1>2
  <2> QED BY <1>3, <2>1 DEF InvConns, Outside, Inside, RedirectionKeys
<1>5. InvConns'
  BY <1>2, <1>4 DEF InvConns
<1> QED BY <1>2, <1>3, <1>5 DEF Same

LEMMA FreshKeeps ==
  ASSUME InvConns, NEW c \in DOMAIN conns, NEW b \in BOOLEAN,
         conns' = [conns EXCEPT ![c].fresh = b], UNCHANGED live
  PROVE  /\ InvConns' /\ DOMAIN conns' = DOMAIN conns /\ (\A d \in DOMAIN conns : Same(d))
         /\ \A d \in DOMAIN conns : conns'[d].redirected_int_key = conns[d].redirected_int_key
<1> DEFINE r == [conns[c] EXCEPT !.fresh = b]
<1>1. conns[c] \in Records
  BY RecordFacts
<1>2. /\ r \in Records /\ r.initiator = conns[c].initiator /\ r.ext_key = conns[c].ext_key
      /\ r.int_key = conns[c].int_key /\ r.pin_key = conns[c].pin_key
      /\ r.redirected_int_key = conns[c].redirected_int_key
  BY <1>1 DEF Records
<1>3. conns' = [conns EXCEPT ![c] = r]
  OBVIOUS
<1> HIDE DEF r
<1> QED BY <1>2, <1>3, RecordKeeps

LEMMA TargetKeeps ==
  ASSUME InvConns, NEW c \in DOMAIN conns, NEW q \in Pins,
         conns' = [conns EXCEPT ![c].target_pin_key = q], UNCHANGED live
  PROVE  /\ InvConns' /\ DOMAIN conns' = DOMAIN conns /\ (\A d \in DOMAIN conns : Same(d))
         /\ \A d \in DOMAIN conns : conns'[d].redirected_int_key = conns[d].redirected_int_key
<1> DEFINE r == [conns[c] EXCEPT !.target_pin_key = q]
<1>1. conns[c] \in Records
  BY RecordFacts
<1>2. /\ r \in Records /\ r.initiator = conns[c].initiator /\ r.ext_key = conns[c].ext_key
      /\ r.int_key = conns[c].int_key /\ r.pin_key = conns[c].pin_key
      /\ r.redirected_int_key = conns[c].redirected_int_key
  BY <1>1 DEF Records
<1>3. conns' = [conns EXCEPT ![c] = r]
  OBVIOUS
<1> HIDE DEF r
<1> QED BY <1>2, <1>3, RecordKeeps

(* A new connection. *)
LEMMA AllocateKeeps ==
  ASSUME InvConns, InvThreads, NEW t \in Threads, NEW conn \in Records, Allocate(t, conn),
         IF conn.initiator = "EXT" THEN Outside(conn) ELSE Inside(conn)
  PROVE  /\ InvConns' /\ NewId \in Ids /\ NewId \notin DOMAIN conns
         /\ DOMAIN conns' = DOMAIN conns \cup {NewId} /\ conns'[NewId] = conn
         /\ live' = live \cup {NewId}
         /\ \A d \in DOMAIN conns : conns'[d] = conns[d] /\ d # NewId
<1>1. /\ NewId \in Nat /\ NewId # 0 /\ NewId <= MaxConns
      /\ DOMAIN conns = 1 .. (NewId - 1) /\ NewId \notin DOMAIN conns
      /\ conns \in [1 .. (NewId - 1) -> Records]
  BY NewIdFacts DEF Allocate
<1> DEFINE n == NewId
<1>2. /\ n \in Nat /\ n # 0 /\ n <= MaxConns /\ MaxConns \in Nat
      /\ DOMAIN conns = 1 .. (n - 1) /\ n \notin DOMAIN conns
      /\ conns \in [1 .. (n - 1) -> Records]
      /\ conns' = [x \in DOMAIN conns \cup {n} |-> IF x = n THEN conn ELSE conns[x]]
      /\ live' = live \cup {n}
  BY <1>1, ConnectionsAssumption DEF Allocate, Insert
<1> HIDE DEF n
<1>3. 1 .. n = 1 .. (n - 1) \cup {n} /\ n \in 0 .. MaxConns /\ n \in Ids
  BY <1>2 DEF Ids
<1>4. /\ DOMAIN conns' = DOMAIN conns \cup {n} /\ conns'[n] = conn
      /\ \A d \in DOMAIN conns : conns'[d] = conns[d] /\ d # n
  BY <1>2
<1>5. conns' \in [1 .. n -> Records]
  BY <1>2, <1>3
<1>6. live' \subseteq DOMAIN conns'
  BY <1>2, <1>4 DEF InvConns
<1>7. \A d \in DOMAIN conns' :
        IF conns'[d].initiator = "EXT" THEN Outside(conns'[d]) ELSE Inside(conns'[d])
  BY <1>4 DEF InvConns
<1>8. InvConns'
  BY <1>3, <1>5, <1>6, <1>7 DEF InvConns
<1> QED BY <1>2, <1>3, <1>4, <1>8 DEF n

(* The connection that CreateExt creates. *)
NewExt(k) == Conn(k, k, Key(Lih, k.src, k.port), PinKey(Lih, k.dst), 0)

LEMMA NewExtFacts ==
  ASSUME NEW k \in Flows \cap Opening, FromExt(k)
  PROVE  /\ NewExt(k) \in Records /\ Outside(NewExt(k)) /\ Owner(NewExt(k)) = HandledBy(k)
         /\ NewExt(k).initiator = "EXT" /\ NewExt(k).ext_key = k
         /\ NewExt(k).int_key = Key(Lih, k.src, k.port)
         /\ NewExt(k).redirected_int_key = NoKey
         /\ NewExt(k).pin_key = PinKey(Lih, k.dst)
<1>1. /\ k \in Keys /\ k # NoKey /\ k.src \in Hosts /\ k.dst \in Addresses /\ k.port \in Ports
  BY FlowFacts DEF Keys, Flows, Ports, Addresses
<1>2. Lih \in Pots /\ k.src \in Addresses
  BY <1>1 DEF Pots, Addresses
<1>3. Key(Lih, k.src, k.port) \in Keys
  BY <1>1, <1>2, KeyFacts
<1>4. PinKey(Lih, k.dst) \in Pins /\ PinKey(Lih, k.dst).handler = Lih /\ NoPin \in Pins
  BY <1>1, <1>2 DEF Pins, PinKey
<1>5. NoKey \in Keys
  BY DEF Keys
<1>6. Initiator(k) = "EXT"
  BY DEF Initiator
<1>7. /\ NewExt(k) \in Records
      /\ NewExt(k).initiator = "EXT" /\ NewExt(k).ext_key = k
      /\ NewExt(k).int_key = Key(Lih, k.src, k.port)
      /\ NewExt(k).redirected_int_key = NoKey
      /\ NewExt(k).pin_key = PinKey(Lih, k.dst)
  BY <1>1, <1>3, <1>4, <1>5, <1>6 DEF NewExt, Conn, Records
<1>8. Outside(NewExt(k))
  BY <1>1, <1>4, <1>7 DEF Outside
<1> QED BY <1>1, <1>7, <1>8 DEF Owner, HandledBy

LEMMA CreateExtFacts ==
  ASSUME NEW t \in Threads, InvThreads, CreateExt(t)
  PROVE  /\ pkt[t] \in Flows \cap Opening /\ FromExt(pkt[t]) /\ HandledBy(pkt[t]) = t
         /\ Allocate(t, NewExt(pkt[t]))
         /\ ext_tree1' = Insert(ext_tree1, pkt[t], NewId)
         /\ ext_tree2' = Insert(ext_tree2, Key(Lih, pkt[t].src, pkt[t].port), NewId)
         /\ comm_pin_tree' = Pinned(comm_pin_tree, PinKey(Lih, pkt[t].dst), pkt[t].dst)
         /\ pc[t] = "create" /\ pc' = [pc EXCEPT ![t] = "done"]
         /\ UNCHANGED <<int_tree1, int_tree2, target_pin_tree, raced, connlock, pkt, hand, todo>>
<1>1. pkt[t] \in Flows /\ HandledBy(pkt[t]) = t /\ pkt[t] \in Opening
  BY DEF CreateExt, InvThreads
<1> QED BY <1>1 DEF CreateExt, NewExt, Conn

(* The connection that a honeypot opens. *)
NewOut(k, ip, p, by) == Conn(k, Key(k.dst, ip, k.port), k, p, by)

LEMMA NewOutFacts ==
  ASSUME NEW k \in Flows \cap Opening, ~FromExt(k), NEW ip \in Addresses,
         NEW p \in {NoPin, OutPin(k)}, NEW by \in Nat
  PROVE  LET conn == NewOut(k, ip, p, by)
         IN /\ conn \in Records /\ Inside(conn) /\ Owner(conn) = HandledBy(k)
            /\ conn.initiator # "EXT" /\ conn.int_key = k /\ conn.pin_key = p
<1>1. /\ k \in Keys /\ k # NoKey /\ k.src \in Pots /\ k.dst \in Hosts
      /\ k.src \notin Hosts /\ k.port \in Ports
  BY FlowFacts DEF Flows, Ports, FromExt
<1>2. k.dst \in Addresses
  BY <1>1 DEF Addresses
<1> DEFINE ek == Key(k.dst, ip, k.port)
           conn == NewOut(k, ip, p, by)
<1>3. ek \in Keys /\ ek.src = k.dst /\ ek.port = k.port
  BY <1>1, KeyFacts
<1>4. /\ OutPin(k) \in Pins /\ NoPin \in Pins
      /\ OutPin(k).handler = Lih \/ (ExclusiveHih /\ OutPin(k).handler \in Hihs)
  BY <1>1, <1>2 DEF OutPin, UsesTargetPin, PinKey, Pins, Pots
<1>5. Initiator(k) \in {"LIH", "HIH"} /\ NoKey \in Keys
  BY DEF Initiator, Keys
<1>6. p \in Pins /\ (p = NoPin \/ p.handler = Lih \/ (ExclusiveHih /\ p.handler \in Hihs))
  BY <1>4
<1> HIDE DEF ek
<1>7. /\ conn \in Records
      /\ conn.initiator # "EXT" /\ conn.int_key = k /\ conn.ext_key = ek /\ conn.pin_key = p
  BY <1>1, <1>3, <1>4, <1>5, <1>6 DEF NewOut, Conn, Records, ek
<1> HIDE DEF conn
<1>8. Inside(conn)
  BY <1>1, <1>3, <1>6, <1>7 DEF Inside
<1>9. Owner(conn) = HandledBy(k)
  BY <1>3, <1>7 DEF Owner, HandledBy
<1> QED BY <1>7, <1>8, <1>9 DEF conn

(* pin->ip is an address, whatever happened to the pin. *)
LEMMA PinIpFacts ==
  ASSUME NEW t \in Threads, hand[t].pin \in PinRecords, NEW tree
  PROVE  PinIp(t, tree) \subseteq Addresses
BY DEF PinIp, PinRecords

(* It is not in a tree yet, and has the pin that was looked up. *)
LEMMA CreateOutFacts ==
  ASSUME NEW t \in Threads, InvThreads, InvHand, CreateOut(t)
  PROVE  /\ pkt[t] \in Flows \cap Opening /\ ~FromExt(pkt[t]) /\ HandledBy(pkt[t]) = t
         /\ \E conn \in Records :
              /\ Allocate(t, conn) /\ Inside(conn) /\ Owner(conn) = t
              /\ conn.initiator # "EXT" /\ conn.int_key = pkt[t]
              /\ conn.pin_key = IF CreatePinned(t) THEN OutPin(pkt[t]) ELSE NoPin
         /\ pc[t] \in {"create", "pinned"} /\ pc' = [pc EXCEPT ![t] = "insert"]
         /\ UNCHANGED <<trees, connlock, pkt, todo>>
<1>1. /\ pc[t] \in {"create", "pinned"} /\ pc' = [pc EXCEPT ![t] = "insert"]
      /\ UNCHANGED <<trees, connlock, pkt, todo>>
  BY DEF CreateOut, CreateUnpinned, CreatePinned
<1>2. pkt[t] \in Flows /\ HandledBy(pkt[t]) = t
  BY <1>1 DEF InvThreads
<1>3. pkt[t] \in Opening /\ ~FromExt(pkt[t])
  BY DEF CreateOut, CreateUnpinned, CreatePinned, InvHand
<1>4. CASE CreatePinned(t)
  <2>1. hand[t].pin \in PinRecords /\ hand[t].key = OutPin(pkt[t])
    BY <1>4 DEF CreatePinned, InvHand
  <2>2. PICK ip \in PinIp(t, OutPinTree(pkt[t])) :
          Allocate(t, NewOut(pkt[t], ip, hand[t].key, hand[t].pin.by))
    BY <1>4 DEF CreatePinned, NewOut
  <2>3. ip \in Addresses /\ hand[t].pin.by \in Nat
    BY <2>1, PinIpFacts DEF PinRecords
  <2> QED BY <1>1, <1>2, <1>3, <1>4, <2>1, <2>2, <2>3, NewOutFacts
<1>5. CASE ~CreatePinned(t)
  <2>1. Allocate(t, NewOut(pkt[t], DefaultIp, NoPin, 0))
    BY <1>5 DEF CreateOut, CreateUnpinned, NewOut
  <2>2. DefaultIp \in Addresses
    BY DEF Addresses
  <2> QED BY <1>1, <1>2, <1>3, <1>5, <2>1, <2>2, NewOutFacts
<1> QED BY <1>4, <1>5

(* The pin of a HIH. *)
LEMMA TargetKeyFacts ==
  ASSUME NEW h \in Hihs
  PROVE  PinKey(h, None) \in Pins /\ PinKey(h, None).handler = h
BY DEF Pins, PinKey, Pots

(* The connection that Redirect redirects. *)
LEMMA RedirectFacts ==
  ASSUME NEW t \in Threads, InvConns, InvThreads, InvHand, Redirect(t)
  PROVE  LET c == cur[t]
             h == hand[t].key.handler
             k == Key(h, conns[c].ext_key.src, conns[c].ext_key.port)
         IN /\ c \in live /\ c \in DOMAIN conns /\ c # 0 /\ k # NoKey /\ h \in Hihs
            /\ conns[c].initiator = "EXT" /\ conns[c].redirected_int_key = NoKey
            /\ Owner(conns[c]) = t
            /\ conns[c].ext_key.src \in Hosts
            /\ DOMAIN conns' = DOMAIN conns /\ InvConns'
            /\ conns'[c].redirected_int_key = k
            /\ \A d \in DOMAIN conns : Same(d) /\ (d # c => conns'[d] = conns[d])
            /\ ext_tree2' = Insert(ext_tree2, k, c)
<1> DEFINE c == cur[t]
           h == hand[t].key.handler
           k == Key(h, conns[c].ext_key.src, conns[c].ext_key.port)
<1>1. /\ pc[t] = "redirect"
      /\ conns' = [conns EXCEPT ![c].redirected_int_key = k]
      /\ ext_tree2' = Insert(ext_tree2, k, c) /\ live' = live
  BY DEF Redirect, RedirectedTree
<1>2. /\ conns[c].initiator = "EXT" /\ conns[c].redirected_int_key = NoKey /\ h \in Hihs
  BY <1>1, TargetKeyFacts DEF InvHand
<1>3. c \in live /\ c \in DOMAIN conns /\ c # 0 /\ Owner(conns[c]) = t
  BY <1>1 DEF InvConns, InvThreads, Seeking
<1>4. conns[c] \in Records /\ Outside(conns[c])
  BY <1>2, <1>3, RecordFacts DEF InvConns
<1>5. conns[c].ext_key \in Flows /\ conns[c].ext_key.src \in Hosts
  BY <1>4 DEF Outside
<1>6. conns[c].ext_key.port \in Ports /\ conns[c].ext_key.src \in Addresses /\ h \in Pots
  BY <1>2, <1>5 DEF Flows, Ports, Addresses, Pots
<1>7. k \in Keys /\ k # NoKey /\ k \in RedirectionKeys(conns[c])
  BY <1>2, <1>6, KeyFacts DEF RedirectionKeys
<1>8. PICK n \in 0 .. MaxConns : conns \in [1 .. n -> Records]
  BY DEF InvConns
<1> HIDE DEF k, h, c
<1> DEFINE r == [conns[c] EXCEPT !.redirected_int_key = k]
<1>9. /\ r \in Records /\ r.initiator = conns[c].initiator /\ r.ext_key = conns[c].ext_key
      /\ r.int_key = conns[c].int_key /\ r.pin_key = conns[c].pin_key
      /\ r.redirected_int_key = k
  BY <1>4, <1>7 DEF Records
<1>10. conns' = [conns EXCEPT ![c] = r]
  BY <1>1
<1> HIDE DEF r
<1>11. /\ conns' \in [1 .. n -> Records] /\ DOMAIN conns' = DOMAIN conns
       /\ \A d \in DOMAIN conns : d # c => conns'[d] = conns[d]
       /\ conns'[c] = r
  BY <1>3, <1>8, <1>9, <1>10
<1>12. /\ conns'[c].initiator = conns[c].initiator /\ conns'[c].ext_key = conns[c].ext_key
       /\ conns'[c].int_key = conns[c].int_key /\ conns'[c].pin_key = conns[c].pin_key
       /\ conns'[c].redirected_int_key = k
  BY <1>9, <1>11
<1>13. \A d \in DOMAIN conns : Same(d) /\ (d # c => conns'[d] = conns[d])
  BY <1>2, <1>11, <1>12 DEF Same
<1>14. Outside(conns'[c])
  BY <1>4, <1>7, <1>12 DEF Outside, RedirectionKeys
<1>15. InvConns'
  BY <1>1, <1>2, <1>11, <1>12, <1>14 DEF InvConns
<1> QED BY <1>1, <1>2, <1>3, <1>5, <1>7, <1>11, <1>12, <1>13, <1>15 DEF c, h, k

(* What the quiet steps leave alone. *)
LEMMA QuietFacts ==
  ASSUME InvConns, InvThreads, InvHand,
         (\E t \in Threads : Quiet(t)) \/ (\E c \in DOMAIN conns : Age(c)) \/ CleanQuiet
  PROVE  /\ InvConns' /\ DOMAIN conns' = DOMAIN conns /\ (\A d \in DOMAIN conns : Same(d))
         /\ \A d \in DOMAIN conns : conns'[d].redirected_int_key = conns[d].redirected_int_key
         /\ UNCHANGED <<live, trees, comm_pin_tree, raced>>
<1>1. ASSUME NEW t \in Threads, Quiet(t)
      PROVE  /\ UNCHANGED <<live, trees, comm_pin_tree, raced>>
             /\ \/ conns' = conns
                \/ \E c \in DOMAIN conns, b \in BOOLEAN : conns' = [conns EXCEPT ![c].fresh = b]
                \/ \E c \in DOMAIN conns, q \in Pins : conns' = [conns EXCEPT ![c].target_pin_key = q]
  <2>1. CASE Update(t)
    <3>1. cur[t] \in DOMAIN conns
      BY <2>1 DEF Update, InvThreads, InvConns, Seeking
    <3> QED BY <2>1, <3>1 DEF Update, pins
  <2>2. CASE SetTarget(t)
    <3>1. pc[t] \in {"target", "new_target"}
      BY <2>2 DEF SetTarget, CountTarget, NewTarget
    <3>2. cur[t] \in DOMAIN conns
      BY <3>1 DEF InvThreads, InvConns, Seeking
    <3>3. hand[t].key \in Pins
      BY <3>1, TargetKeyFacts DEF InvHand
    <3>4. /\ conns' = [conns EXCEPT ![cur[t]].target_pin_key = hand[t].key]
          /\ UNCHANGED <<live, trees, comm_pin_tree, raced>>
      BY <2>2 DEF SetTarget, CountTarget, NewTarget
    <3> QED BY <3>2, <3>3, <3>4
  <2>3. CASE ~Update(t) /\ ~SetTarget(t)
    BY <1>1, <2>3 DEF Quiet, Receive, Lookup, Skip, LookupPin, LookupTarget, RefuseTarget, Finish, pins
  <2> QED BY <2>1, <2>2, <2>3
<1>2. ASSUME NEW c \in DOMAIN conns, Age(c)
      PROVE  /\ UNCHANGED <<live, trees, comm_pin_tree, raced>>
             /\ conns' = [conns EXCEPT ![c].fresh = FALSE]
  BY <1>2 DEF Age, pins
<1>3. ASSUME CleanQuiet
      PROVE  UNCHANGED <<live, trees, comm_pin_tree, raced, conns>>
  BY <1>3 DEF CleanQuiet, CleanStart, CleanSkip, CleanEnd, pins
<1>4. /\ UNCHANGED <<live, trees, comm_pin_tree, raced>>
      /\ \/ conns' = conns
         \/ \E c \in DOMAIN conns, b \in BOOLEAN : conns' = [conns EXCEPT ![c].fresh = b]
         \/ \E c \in DOMAIN conns, q \in Pins : conns' = [conns EXCEPT ![c].target_pin_key = q]
  BY <1>1, <1>2, <1>3
<1>5. CASE conns' = conns
  BY <1>4, <1>5 DEF InvConns, Same
<1>6. CASE \E c \in DOMAIN conns, b \in BOOLEAN : conns' = [conns EXCEPT ![c].fresh = b]
  BY <1>4, <1>6, FreshKeeps
<1>7. CASE \E c \in DOMAIN conns, q \in Pins : conns' = [conns EXCEPT ![c].target_pin_key = q]
  BY <1>4, <1>7, TargetKeeps
<1> QED BY <1>4, <1>5, <1>6, <1>7

LEMMA CleanOneFacts ==
  ASSUME InvConns, InvThreads, InvTodo, NEW c \in todo, CleanOne(c)
  PROVE  /\ InvConns' /\ conns' = conns /\ (\A d \in DOMAIN conns : Same(d))
         /\ c \in live /\ live' = live \ {c} /\ (\A t \in Threads : cur[t] # c)
         /\ UNCHANGED <<locked, connlock, pc, pkt, cur, hand, raced>>
<1>1. /\ conns' = conns /\ live' = live \ {c} /\ UNCHANGED <<locked, raced, connlock, thread>>
      /\ locked[c] = None
  BY DEF CleanOne, MayRemove
<1>2. c \in live /\ c \in DOMAIN conns
  BY DEF InvTodo, InvConns
<1>3. c # 0
  BY <1>2, NewIdFacts
<1>4. ASSUME NEW t \in Threads, cur[t] = c PROVE FALSE
  <2>1. locked[c] = t
    BY <1>3, <1>4 DEF InvThreads
  <2> QED BY <1>1, <2>1, ConnectionsAssumption
<1> QED BY <1>1, <1>2, <1>4 DEF InvConns, Same, thread

LEMMA ConnsStep ==
  ASSUME IInv, Next
  PROVE  InvConns' /\ DOMAIN conns \subseteq DOMAIN conns' /\ (\A d \in DOMAIN conns : Same(d))
<1> USE DEF IInv
<1>1. ASSUME NEW t \in Threads, CreateExt(t)
      PROVE  InvConns' /\ DOMAIN conns \subseteq DOMAIN conns' /\ (\A d \in DOMAIN conns : Same(d))
  BY <1>1, CreateExtFacts, NewExtFacts, AllocateKeeps DEF Same
<1>2. ASSUME NEW t \in Threads, CreateOut(t)
      PROVE  InvConns' /\ DOMAIN conns \subseteq DOMAIN conns' /\ (\A d \in DOMAIN conns : Same(d))
  BY <1>2, CreateOutFacts, AllocateKeeps DEF Same
<1>3. ASSUME NEW t \in Threads, InsertOut(t)
      PROVE  InvConns' /\ DOMAIN conns \subseteq DOMAIN conns' /\ (\A d \in DOMAIN conns : Same(d))
  BY <1>3 DEF InsertOut, InvConns, Same
<1>4. ASSUME NEW t \in Threads, Redirect(t)
      PROVE  InvConns' /\ DOMAIN conns \subseteq DOMAIN conns' /\ (\A d \in DOMAIN conns : Same(d))
  BY <1>4, RedirectFacts
<1>5. ASSUME NEW c \in todo, CleanOne(c)
      PROVE  InvConns' /\ DOMAIN conns \subseteq DOMAIN conns' /\ (\A d \in DOMAIN conns : Same(d))
  BY <1>5, CleanOneFacts
<1> QED BY <1>1, <1>2, <1>3, <1>4, <1>5, StepCases, QuietFacts

-----------------------------------------------------------------------------
(* InvThreads and InvTodo.                                                 *)

(* A tree finds only connections of the thread that the packet comes to. *)
LEMMA FoundFacts ==
  ASSUME InvConns, InvTrees, NEW k \in Flows, Found(k) # 0
  PROVE  Found(k) \in live /\ Found(k) \in Ids /\ Owner(conns[Found(k)]) = HandledBy(k)
<1> DEFINE c == Found(k)
<1>1. c \in live /\ c \in DOMAIN conns
  BY DEF InvTrees, InvConns, Found
<1>2. c \in Ids
  <2>1. PICK n \in 0 .. MaxConns : conns \in [1 .. n -> Records]
    BY DEF InvConns
  <2> QED BY <1>1, <2>1, ConnectionsAssumption DEF Ids
<1>3. \/ k \in DOMAIN ext_tree1 /\ c = ext_tree1[k] /\ FromExt(k)
      \/ k \in DOMAIN int_tree2 /\ c = int_tree2[k] /\ FromExt(k)
      \/ k \in DOMAIN ext_tree2 /\ c = ext_tree2[k] /\ ~FromExt(k)
      \/ k \in DOMAIN int_tree1 /\ c = int_tree1[k] /\ ~FromExt(k)
  <2>1. CASE FromExt(k)
    BY <2>1 DEF Found
  <2>2. CASE ~FromExt(k)
    BY <2>2 DEF Found
  <2> QED BY <2>1, <2>2
<1>4. conns[c].initiator = "EXT" => Outside(conns[c])
  BY <1>1 DEF InvConns
<1>5. conns[c].initiator # "EXT" => Inside(conns[c])
  BY <1>1 DEF InvConns
<1> HIDE DEF c
<1>6. CASE FromExt(k)
  <2>1. k = conns[c].ext_key
    BY <1>3, <1>6 DEF InvTrees
  <2> QED BY <1>1, <1>2, <1>6, <2>1 DEF Owner, HandledBy, c
<1>7. CASE k \in DOMAIN int_tree1 /\ c = int_tree1[k] /\ ~FromExt(k)
  <2>1. k = conns[c].int_key /\ Inside(conns[c])
    BY <1>5, <1>7 DEF InvTrees
  <2> QED BY <1>1, <1>2, <1>7, <2>1 DEF Owner, HandledBy, Inside, c
<1>8. CASE k \in DOMAIN ext_tree2 /\ c = ext_tree2[k] /\ ~FromExt(k)
  <2>1. k # NoKey /\ k \in {conns[c].int_key, conns[c].redirected_int_key} /\ Outside(conns[c])
    BY <1>4, <1>8 DEF InvTrees
  <2>2. k.dst = conns[c].ext_key.src
    BY <2>1 DEF Outside, RedirectionKeys, Key
  <2> QED BY <1>1, <1>2, <1>8, <2>2 DEF Owner, HandledBy, c
<1> QED BY <1>3, <1>6, <1>7, <1>8

(* conn_lookup() finds the connection free: the only thread that could     *)
(* hold it is the one that looks it up.                                    *)
LEMMA FoundFree ==
  ASSUME InvConns, InvTrees, InvThreads, NEW t \in Threads, pc[t] = "lookup", Found(pkt[t]) # 0
  PROVE  locked[Found(pkt[t])] = None
<1> DEFINE c == Found(pkt[t])
<1>1. pkt[t] \in Flows /\ HandledBy(pkt[t]) = t /\ cur[t] = 0
  BY DEF InvThreads, Seeking
<1>2. c \in live /\ c \in Ids /\ Owner(conns[c]) = t
  BY <1>1, FoundFacts
<1>3. SUFFICES ASSUME locked[c] # None PROVE FALSE
  OBVIOUS
<1> HIDE DEF c
<1>4. locked[c] \in Threads /\ cur[locked[c]] = c /\ c # 0
  BY <1>2, <1>3, ConnectionsAssumption DEF InvThreads, Ids
<1>5. Owner(conns[c]) = locked[c]
  BY <1>4 DEF InvThreads
<1> QED BY <1>1, <1>2, <1>4, <1>5

(* The move of one thread: it may take a packet, take a connection that    *)
(* nobody holds, or let go of its own; the others keep theirs.             *)
LEMMA ThreadMove ==
  ASSUME InvConns, InvThreads, NEW t \in Threads,
         NEW p \in Places, NEW k \in Flows \cup {NoKey}, NEW c \in 0 .. MaxConns,
         pc' = [pc EXCEPT ![t] = p], pkt' = [pkt EXCEPT ![t] = k], cur' = [cur EXCEPT ![t] = c],
         p # "idle" => k \in Flows /\ HandledBy(k) = t,
         c = 0 <=> p \in Seeking,
         c # 0 => c \in live' /\ Owner(conns'[c]) = t,
         \A d \in live : d \in live' /\ Owner(conns'[d]) = Owner(conns[d]),
         \/ c = cur[t] /\ locked' = locked
         \/ c # 0 /\ cur[t] = 0 /\ locked[c] = None /\ locked' = [locked EXCEPT ![c] = t]
         \/ c = 0 /\ cur[t] # 0 /\ locked' = [locked EXCEPT ![cur[t]] = None]
  PROVE  InvThreads'
<1> None \notin Threads
  BY ConnectionsAssumption
<1>1. /\ locked \in [Ids -> Threads \cup {None}] /\ cur \in [Threads -> 0 .. MaxConns]
      /\ pc \in [Threads -> Places] /\ pkt \in [Threads -> Flows \cup {NoKey}]
  BY DEF InvThreads
<1>2. \A d \in 0 .. MaxConns : d # 0 => d \in Ids
  BY ConnectionsAssumption DEF Ids
<1>3. /\ pc' \in [Threads -> Places] /\ pkt' \in [Threads -> Flows \cup {NoKey}]
      /\ cur' \in [Threads -> 0 .. MaxConns]
  BY <1>1
<1>4. locked' \in [Ids -> Threads \cup {None}]
  BY <1>1
<1>5. /\ pc'[t] = p /\ pkt'[t] = k /\ cur'[t] = c
      /\ \A u \in Threads \ {t} : pc'[u] = pc[u] /\ pkt'[u] = pkt[u] /\ cur'[u] = cur[u]
  BY <1>1
<1>6. /\ \A u \in Threads : pc'[u] # "idle" => pkt'[u] \in Flows /\ HandledBy(pkt'[u]) = u
      /\ \A u \in Threads : cur'[u] = 0 <=> pc'[u] \in Seeking
  BY <1>5 DEF InvThreads
<1>7. ASSUME NEW u \in Threads, cur'[u] # 0
      PROVE  cur'[u] \in live' /\ locked'[cur'[u]] = u /\ Owner(conns'[cur'[u]]) = u
  <2>1. CASE u = t
    <3>1. cur'[u] = c /\ c \in Ids
      BY <1>2, <1>5, <1>7, <2>1
    <3>2. cur[t] = c => locked[c] = t
      BY <1>7, <2>1, <3>1 DEF InvThreads
    <3>3. locked'[c] = t
      BY <1>1, <1>7, <2>1, <3>1, <3>2
    <3> QED BY <1>7, <2>1, <3>1, <3>3
  <2>2. CASE u # t
    <3>1. cur'[u] = cur[u] /\ cur[u] \in live /\ locked[cur[u]] = u /\ Owner(conns[cur[u]]) = u
      BY <1>5, <1>7, <2>2 DEF InvThreads
    <3>2. cur[u] # cur[t]
      BY <1>7, <2>2, <3>1 DEF InvThreads
    <3>3. cur[u] \in Ids
      BY <1>1, <1>2, <1>7, <3>1
    <3>4. locked'[cur[u]] = u
      BY <1>1, <3>1, <3>2, <3>3
    <3> QED BY <3>1, <3>4
  <2> QED BY <2>1, <2>2
<1>8. ASSUME NEW d \in Ids, locked'[d] # None
      PROVE  cur'[locked'[d]] = d
  <2>1. CASE c = cur[t] /\ locked' = locked
    <3>1. cur' = cur
      BY <1>1, <2>1
    <3> QED BY <1>8, <2>1, <3>1 DEF InvThreads
  <2>2. CASE c # 0 /\ cur[t] = 0 /\ locked[c] = None /\ locked' = [locked EXCEPT ![c] = t]
    <3>1. CASE d = c
      BY <1>1, <1>5, <2>2, <3>1
    <3>2. CASE d # c
      <4>1. locked'[d] = locked[d] /\ locked[d] \in Threads
        BY <1>1, <1>8, <2>2, <3>2
      <4>2. cur[locked[d]] = d
        BY <1>8, <4>1 DEF InvThreads
      <4>3. d # 0
        BY <1>8, ConnectionsAssumption DEF Ids
      <4> QED BY <1>5, <2>2, <4>1, <4>2, <4>3
    <3> QED BY <3>1, <3>2
  <2>3. CASE c = 0 /\ cur[t] # 0 /\ locked' = [locked EXCEPT ![cur[t]] = None]
    <3>1. d # cur[t]
      BY <1>1, <1>8, <2>3
    <3>2. locked'[d] = locked[d] /\ locked[d] \in Threads
      BY <1>1, <1>8, <2>3, <3>1
    <3>3. cur[locked[d]] = d
      BY <1>8, <3>2 DEF InvThreads
    <3> QED BY <1>5, <3>1, <3>2, <3>3
  <2> QED BY <2>1, <2>2, <2>3
<1> QED BY <1>3, <1>4, <1>6, <1>7, <1>8 DEF InvThreads

LEMMA ThreadsStep ==
  ASSUME IInv, Next
  PROVE  InvThreads'
<1> USE DEF IInv
<1>1. /\ locked \in [Ids -> Threads \cup {None}] /\ cur \in [Threads -> 0 .. MaxConns]
      /\ pc \in [Threads -> Places] /\ pkt \in [Threads -> Flows \cup {NoKey}]
  BY DEF InvThreads
<1>2. \A d \in DOMAIN conns : Owner(conns'[d]) = Owner(conns[d])
  BY ConnsStep DEF Same, Owner
<1>3. live \subseteq DOMAIN conns
  BY DEF InvConns
<1>4. 0 \in 0 .. MaxConns /\ (\A c \in Ids : c \in 0 .. MaxConns /\ c # 0)
  BY ConnectionsAssumption DEF Ids
<1>5. ASSUME NEW t \in Threads, Quiet(t) PROVE InvThreads'
  <2>1. UNCHANGED live
    BY <1>5, QuietFacts
  <2>2. \A d \in live : d \in live' /\ Owner(conns'[d]) = Owner(conns[d])
    BY <1>2, <1>3, <2>1
  <2>3. cur[t] # 0 => cur[t] \in live' /\ Owner(conns'[cur[t]]) = t
    BY <1>2, <1>3, <2>1 DEF InvThreads
  <2>4. ASSUME NEW k \in Flows, Receive(t, k) PROVE InvThreads'
    <3>1. /\ pc' = [pc EXCEPT ![t] = "lookup"] /\ pkt' = [pkt EXCEPT ![t] = k]
          /\ cur' = [cur EXCEPT ![t] = cur[t]] /\ locked' = locked
          /\ HandledBy(k) = t /\ pc[t] = "idle"
      BY <1>1, <2>4 DEF Receive
    <3>2. cur[t] = 0
      BY <3>1 DEF InvThreads, Seeking
    <3> QED BY <1>4, <2>2, <3>1, <3>2, ThreadMove DEF Places, Seeking
  <2>5. ASSUME Lookup(t) PROVE InvThreads'
    <3> DEFINE c == Found(pkt[t])
    <3>1. /\ pc[t] = "lookup"
          /\ pc' = [pc EXCEPT ![t] = IF c = 0 THEN "create" ELSE "update"]
          /\ pkt' = [pkt EXCEPT ![t] = pkt[t]] /\ cur' = [cur EXCEPT ![t] = c]
          /\ locked' = IF c = 0 THEN locked ELSE [locked EXCEPT ![c] = t]
      BY <1>1, <2>5 DEF Lookup
    <3>2. cur[t] = 0 /\ pkt[t] \in Flows /\ HandledBy(pkt[t]) = t
      BY <3>1 DEF InvThreads, Seeking
    <3>3. c # 0 => c \in live /\ c \in Ids /\ Owner(conns[c]) = t /\ locked[c] = None
      BY <3>1, <3>2, FoundFacts, FoundFree
    <3>4. c # 0 => c \in live' /\ Owner(conns'[c]) = t
      BY <2>2, <3>3
    <3> HIDE DEF c
    <3>5. c \in 0 .. MaxConns
      BY <1>4, <3>3
    <3>6. CASE c = 0
      BY <1>4, <2>2, <3>1, <3>2, <3>6, ThreadMove DEF Places, Seeking
    <3>7. CASE c # 0
      <4>1. pc' = [pc EXCEPT ![t] = "update"] /\ locked' = [locked EXCEPT ![c] = t]
        BY <3>1, <3>7
      <4> QED BY <2>2, <3>1, <3>2, <3>3, <3>4, <3>5, <3>7, <4>1, ThreadMove DEF Places, Seeking
    <3> QED BY <3>6, <3>7
  <2>6. ASSUME Update(t) PROVE InvThreads'
    <3>1. /\ pc' = [pc EXCEPT ![t] = "process"] /\ pkt' = [pkt EXCEPT ![t] = pkt[t]]
          /\ cur' = [cur EXCEPT ![t] = cur[t]] /\ locked' = locked /\ pc[t] = "update"
      BY <1>1, <2>6 DEF Update
    <3>2. cur[t] # 0 /\ pkt[t] \in Flows /\ HandledBy(pkt[t]) = t /\ cur[t] \in 0 .. MaxConns
      BY <3>1 DEF InvThreads, Seeking
    <3> QED BY <2>2, <2>3, <3>1, <3>2, ThreadMove DEF Places, Seeking
  <2>7. ASSUME Skip(t) PROVE InvThreads'
    <3>1. /\ pc' = [pc EXCEPT ![t] = "idle"] /\ pkt' = [pkt EXCEPT ![t] = NoKey]
          /\ cur' = [cur EXCEPT ![t] = cur[t]] /\ locked' = locked /\ pc[t] = "create"
      BY <1>1, <2>7 DEF Skip
    <3>2. cur[t] = 0
      BY <3>1 DEF InvThreads, Seeking
    <3> QED BY <1>4, <2>2, <3>1, <3>2, ThreadMove DEF Places, Seeking
  <2>8. ASSUME LookupPin(t) PROVE InvThreads'
    <3>1. /\ pc' = [pc EXCEPT ![t] = "pinned"] /\ pkt' = [pkt EXCEPT ![t] = pkt[t]]
          /\ cur' = [cur EXCEPT ![t] = cur[t]] /\ locked' = locked /\ pc[t] = "create"
      BY <1>1, <2>8 DEF LookupPin
    <3>2. cur[t] = 0 /\ pkt[t] \in Flows /\ HandledBy(pkt[t]) = t
      BY <3>1 DEF InvThreads, Seeking
    <3> QED BY <1>4, <2>2, <3>1, <3>2, ThreadMove DEF Places, Seeking
  <2>9. ASSUME (\E h \in Hihs : LookupTarget(t, h)) \/ RefuseTarget(t) \/ SetTarget(t)
        PROVE  InvThreads'
    <3>1. PICK p \in {"target", "new_target", "redirect", "done"} : pc' = [pc EXCEPT ![t] = p]
      BY <2>9 DEF LookupTarget, RefuseTarget, SetTarget, CountTarget, NewTarget
    <3>2. /\ pkt' = [pkt EXCEPT ![t] = pkt[t]] /\ cur' = [cur EXCEPT ![t] = cur[t]]
          /\ locked' = locked /\ pc[t] \in {"process", "target", "new_target"}
      BY <1>1, <2>9 DEF LookupTarget, RefuseTarget, SetTarget, CountTarget, NewTarget
    <3>3. cur[t] # 0 /\ pkt[t] \in Flows /\ HandledBy(pkt[t]) = t /\ cur[t] \in 0 .. MaxConns
      BY <3>2 DEF InvThreads, Seeking
    <3> QED BY <2>2, <2>3, <3>1, <3>2, <3>3, ThreadMove DEF Places, Seeking
  <2>10. ASSUME Finish(t) PROVE InvThreads'
    <3>1. /\ pc' = [pc EXCEPT ![t] = "idle"] /\ pkt' = [pkt EXCEPT ![t] = NoKey]
          /\ cur' = [cur EXCEPT ![t] = 0] /\ locked' = [locked EXCEPT ![cur[t]] = None]
          /\ pc[t] \in {"process", "done"}
      BY <2>10 DEF Finish
    <3>2. cur[t] # 0
      BY <3>1 DEF InvThreads, Seeking
    <3> QED BY <1>4, <2>2, <3>1, <3>2, ThreadMove DEF Places, Seeking
  <2> QED BY <1>5, <2>4, <2>5, <2>6, <2>7, <2>8, <2>9, <2>10 DEF Quiet
<1>6. ASSUME NEW t \in Threads, NEW conn \in Records, NEW p \in {"insert", "done"},
             Allocate(t, conn), Owner(conn) = t, pc[t] \in {"create", "pinned"},
             IF conn.initiator = "EXT" THEN Outside(conn) ELSE Inside(conn),
             pc' = [pc EXCEPT ![t] = p], pkt' = pkt
      PROVE  InvThreads'
  <2> DEFINE n == NewId
  <2>1. /\ n \in Ids /\ n \notin DOMAIN conns /\ live' = live \cup {n} /\ conns'[n] = conn
        /\ \A d \in DOMAIN conns : conns'[d] = conns[d]
    BY <1>6, AllocateKeeps
  <2>2. locked' = [locked EXCEPT ![n] = t] /\ cur' = [cur EXCEPT ![t] = n]
    BY <1>6 DEF Allocate
  <2> HIDE DEF n
  <2>3. n # 0 /\ n \in 0 .. MaxConns
    BY <1>4, <2>1
  <2>4. cur[t] = 0 /\ pkt[t] \in Flows /\ HandledBy(pkt[t]) = t
    BY <1>6 DEF InvThreads, Seeking
  <2>5. locked[n] = None
    <3>1. SUFFICES ASSUME locked[n] # None PROVE FALSE
      OBVIOUS
    <3>2. locked[n] \in Threads /\ cur[locked[n]] = n
      BY <1>1, <2>1, <3>1 DEF InvThreads
    <3>3. n \in live
      BY <2>3, <3>2 DEF InvThreads
    <3> QED BY <1>3, <2>1, <3>3
  <2>6. \A d \in live : d \in live' /\ Owner(conns'[d]) = Owner(conns[d])
    BY <1>2, <1>3, <2>1
  <2>7. n \in live' /\ Owner(conns'[n]) = t /\ pkt' = [pkt EXCEPT ![t] = pkt[t]]
    BY <1>1, <1>6, <2>1
  <2> QED BY <1>6, <2>2, <2>3, <2>4, <2>5, <2>6, <2>7, ThreadMove DEF Places, Seeking
<1>7. ASSUME NEW t \in Threads, CreateExt(t) PROVE InvThreads'
  BY <1>6, <1>7, CreateExtFacts, NewExtFacts
<1>8. ASSUME NEW t \in Threads, CreateOut(t) PROVE InvThreads'
  BY <1>6, <1>8, CreateOutFacts
<1>9. ASSUME NEW t \in Threads, InsertOut(t) \/ Redirect(t) PROVE InvThreads'
  <2>1. /\ pc' = [pc EXCEPT ![t] = "done"] /\ pkt' = [pkt EXCEPT ![t] = pkt[t]]
        /\ cur' = [cur EXCEPT ![t] = cur[t]] /\ locked' = locked /\ pc[t] \in {"insert", "redirect"}
        /\ live' = live
    BY <1>1, <1>9 DEF InsertOut, Redirect
  <2>2. cur[t] # 0 /\ pkt[t] \in Flows /\ HandledBy(pkt[t]) = t /\ cur[t] \in 0 .. MaxConns
        /\ cur[t] \in live /\ Owner(conns[cur[t]]) = t
    BY <2>1 DEF InvThreads, Seeking
  <2>3. \A d \in live : d \in live' /\ Owner(conns'[d]) = Owner(conns[d])
    BY <1>2, <1>3, <2>1
  <2> QED BY <2>1, <2>2, <2>3, ThreadMove DEF Places, Seeking
<1>10. ASSUME (\E c \in DOMAIN conns : Age(c)) \/ CleanQuiet PROVE InvThreads'
  <2>1. UNCHANGED <<live, locked, pc, pkt, cur>>
    BY <1>10 DEF Age, CleanQuiet, CleanStart, CleanSkip, CleanEnd, thread
  <2> QED BY <1>2, <1>3, <2>1 DEF InvThreads
<1>11. ASSUME NEW c \in todo, CleanOne(c) PROVE InvThreads'
  <2>1. /\ live' = live \ {c} /\ (\A t \in Threads : cur[t] # c)
        /\ UNCHANGED <<locked, pc, pkt, cur>>
    BY <1>11, CleanOneFacts
  <2> QED BY <1>2, <1>3, <2>1 DEF InvThreads
<1> QED BY <1>5, <1>7, <1>8, <1>9, <1>10, <1>11, StepCases

LEMMA TodoStep ==
  ASSUME IInv, Next
  PROVE  InvTodo'
<1> USE DEF IInv
<1>1. ASSUME NEW t \in Threads, \/ Quiet(t) \/ CreateExt(t) \/ CreateOut(t) \/ InsertOut(t)
                                \/ Redirect(t)
      PROVE  InvTodo'
  <2>1. todo' = todo /\ connlock' = connlock /\ live \subseteq live'
    BY <1>1 DEF Quiet, CreateExt, CreateOut, CreateUnpinned, CreatePinned, InsertOut, Redirect,
                Allocate, Receive, Lookup, Update, Skip, LookupPin, LookupTarget, RefuseTarget,
                SetTarget, CountTarget, NewTarget, Finish
  <2> QED BY <2>1 DEF InvTodo
<1>2. ASSUME \/ \E c \in DOMAIN conns : Age(c)
             \/ \E c \in todo : CleanSkip(c)
             \/ CleanEnd
      PROVE  InvTodo'
  BY <1>2 DEF InvTodo, Age, CleanSkip, CleanEnd
<1>3. ASSUME CleanStart PROVE InvTodo'
  <2>1. Expired \subseteq live
    BY DEF Expired, Values, InvTrees
  <2> QED BY <1>3, <2>1 DEF InvTodo, CleanStart
<1>4. ASSUME NEW c \in todo, CleanOne(c) PROVE InvTodo'
  BY <1>4 DEF InvTodo, CleanOne
<1> QED BY <1>1, <1>2, <1>3, <1>4, StepCases DEF CleanQuiet

-----------------------------------------------------------------------------
(* InvTrees.                                                               *)

(* What each tree must hold: its entries, for the connections l alive and  *)
(* the records r.                                                          *)
Ext1Entry(l, r, k, c) == c \in l /\ r[c].initiator = "EXT" /\ k = r[c].ext_key
Ext2Entry(l, r, k, c) ==
  /\ c \in l /\ r[c].initiator = "EXT" /\ k # NoKey
  /\ k \in {r[c].int_key, r[c].redirected_int_key}
Int1Entry(l, r, k, c) == c \in l /\ r[c].initiator # "EXT" /\ k = r[c].int_key
Int2Entry(l, r, k, c) == c \in l /\ r[c].initiator # "EXT" /\ k = r[c].ext_key

LEMMA TreesByEntry ==
  /\ InvTrees <=> /\ \A k \in DOMAIN ext_tree1 : Ext1Entry(live, conns, k, ext_tree1[k])
                  /\ \A k \in DOMAIN ext_tree2 : Ext2Entry(live, conns, k, ext_tree2[k])
                  /\ \A k \in DOMAIN int_tree1 : Int1Entry(live, conns, k, int_tree1[k])
                  /\ \A k \in DOMAIN int_tree2 : Int2Entry(live, conns, k, int_tree2[k])
  /\ InvTrees' <=> /\ \A k \in DOMAIN ext_tree1' : Ext1Entry(live', conns', k, ext_tree1'[k])
                   /\ \A k \in DOMAIN ext_tree2' : Ext2Entry(live', conns', k, ext_tree2'[k])
                   /\ \A k \in DOMAIN int_tree1' : Int1Entry(live', conns', k, int_tree1'[k])
                   /\ \A k \in DOMAIN int_tree2' : Int2Entry(live', conns', k, int_tree2'[k])
BY DEF InvTrees, Ext1Entry, Ext2Entry, Int1Entry, Int2Entry

(* An entry stays right as long as its connection lives. *)
LEMMA EntriesStay ==
  ASSUME InvConns, \A d \in DOMAIN conns : Same(d), NEW k, NEW c \in live'
  PROVE  /\ Ext1Entry(live, conns, k, c) => Ext1Entry(live', conns', k, c)
         /\ Ext2Entry(live, conns, k, c) => Ext2Entry(live', conns', k, c)
         /\ Int1Entry(live, conns, k, c) => Int1Entry(live', conns', k, c)
         /\ Int2Entry(live, conns, k, c) => Int2Entry(live', conns', k, c)
BY DEF InvConns, Same, Ext1Entry, Ext2Entry, Int1Entry, Int2Entry

LEMMA TreesStep ==
  ASSUME IInv, Next
  PROVE  InvTrees'
<1> USE DEF IInv
<1>1. \A d \in DOMAIN conns : Same(d)
  BY ConnsStep
<1>2. live \subseteq DOMAIN conns
  BY DEF InvConns
<1>3. ASSUME \/ \E t \in Threads : Quiet(t)
             \/ \E c \in DOMAIN conns : Age(c)
             \/ CleanQuiet
      PROVE  InvTrees'
  <2>1. UNCHANGED <<live, ext_tree1, ext_tree2, int_tree1, int_tree2>>
    BY <1>3, QuietFacts DEF trees
  <2> QED BY <1>1, <2>1, TreesByEntry, EntriesStay DEF InvTrees
<1>4. ASSUME NEW t \in Threads, CreateExt(t) PROVE InvTrees'
  <2> DEFINE n == NewId
             k == pkt[t]
             r == Key(Lih, k.src, k.port)
  <2>1. /\ k \in Flows \cap Opening /\ FromExt(k)
        /\ ext_tree1' = Insert(ext_tree1, k, n) /\ ext_tree2' = Insert(ext_tree2, r, n)
        /\ UNCHANGED <<int_tree1, int_tree2>>
    BY <1>4, CreateExtFacts
  <2>2. /\ live' = live \cup {n} /\ conns'[n] = NewExt(k)
    BY <1>4, <2>1, CreateExtFacts, NewExtFacts, AllocateKeeps
  <2>3. r # NoKey
    BY ConnectionsAssumption DEF Key, NoKey, Pots
  <2> HIDE DEF n, k, r
  <2>4. Ext1Entry(live', conns', k, n) /\ Ext2Entry(live', conns', r, n)
    BY <2>1, <2>2, <2>3, NewExtFacts DEF Ext1Entry, Ext2Entry, r
  <2>5. \A x \in DOMAIN ext_tree1' : Ext1Entry(live', conns', x, ext_tree1'[x])
    BY <1>1, <2>1, <2>2, <2>4, TreesByEntry, EntriesStay DEF Insert, InvTrees
  <2>6. \A x \in DOMAIN ext_tree2' : Ext2Entry(live', conns', x, ext_tree2'[x])
    BY <1>1, <2>1, <2>2, <2>4, TreesByEntry, EntriesStay DEF Insert, InvTrees
  <2>7. /\ \A x \in DOMAIN int_tree1' : Int1Entry(live', conns', x, int_tree1'[x])
        /\ \A x \in DOMAIN int_tree2' : Int2Entry(live', conns', x, int_tree2'[x])
    BY <1>1, <2>1, <2>2, TreesByEntry, EntriesStay DEF InvTrees
  <2> QED BY <2>5, <2>6, <2>7, TreesByEntry
<1>5. ASSUME NEW t \in Threads, CreateOut(t) PROVE InvTrees'
  <2>1. UNCHANGED <<ext_tree1, ext_tree2, int_tree1, int_tree2>> /\ live \subseteq live'
    BY <1>5 DEF CreateOut, CreateUnpinned, CreatePinned, Allocate, trees
  <2> QED BY <1>1, <2>1, TreesByEntry, EntriesStay DEF InvTrees
<1>6. ASSUME NEW t \in Threads, InsertOut(t) PROVE InvTrees'
  <2> DEFINE c == cur[t]
  <2>1. /\ int_tree1' = Insert(int_tree1, conns[c].int_key, c)
        /\ int_tree2' = Insert(int_tree2, conns[c].ext_key, c)
        /\ UNCHANGED <<ext_tree1, ext_tree2, live, conns>> /\ pc[t] = "insert"
    BY <1>6 DEF InsertOut
  <2>2. c \in live /\ conns[c].initiator # "EXT"
    BY <2>1 DEF InvThreads, Seeking, InvFiled
  <2> HIDE DEF c
  <2> QED BY <2>1, <2>2 DEF Insert, InvTrees
<1>7. ASSUME NEW t \in Threads, Redirect(t) PROVE InvTrees'
  <2> DEFINE c == cur[t]
             h == hand[t].key.handler
             k == Key(h, conns[c].ext_key.src, conns[c].ext_key.port)
  <2>1. UNCHANGED <<ext_tree1, int_tree1, int_tree2, live>>
    BY <1>7 DEF Redirect
  <2>2. /\ c \in live /\ conns[c].initiator = "EXT" /\ k # NoKey
        /\ conns'[c].redirected_int_key = k /\ ext_tree2' = Insert(ext_tree2, k, c)
    BY <1>7, RedirectFacts
  <2> HIDE DEF c, k
  <2>3. Ext2Entry(live', conns', k, c)
    BY <1>1, <1>2, <2>1, <2>2 DEF Same, Ext2Entry
  <2>4. \A x \in DOMAIN ext_tree2' : Ext2Entry(live', conns', x, ext_tree2'[x])
    BY <1>1, <2>1, <2>2, <2>3, TreesByEntry, EntriesStay DEF Insert, InvTrees
  <2>5. /\ \A x \in DOMAIN ext_tree1' : Ext1Entry(live', conns', x, ext_tree1'[x])
        /\ \A x \in DOMAIN int_tree1' : Int1Entry(live', conns', x, int_tree1'[x])
        /\ \A x \in DOMAIN int_tree2' : Int2Entry(live', conns', x, int_tree2'[x])
    BY <1>1, <2>1, TreesByEntry, EntriesStay DEF InvTrees
  <2> QED BY <2>4, <2>5, TreesByEntry
<1>8. ASSUME NEW c \in todo, CleanOne(c) PROVE InvTrees'
  <2>1. conns' = conns /\ live' = live \ {c} /\ c \in live
    BY <1>8, CleanOneFacts
  <2>2. CASE conns[c].initiator = "EXT"
    <3>1. /\ ext_tree1' = Remove(ext_tree1, conns[c].ext_key)
          /\ ext_tree2' = Remove(Remove(ext_tree2, conns[c].int_key), conns[c].redirected_int_key)
          /\ int_tree1' = int_tree1 /\ int_tree2' = int_tree2
      BY <1>8, <2>2 DEF CleanOne, ReplyTreeWithout
    <3>2. \A x \in DOMAIN ext_tree1' : Ext1Entry(live', conns', x, ext_tree1'[x])
      BY <2>1, <3>1, TreesByEntry DEF Remove, Ext1Entry
    <3>3. \A x \in DOMAIN ext_tree2' : Ext2Entry(live', conns', x, ext_tree2'[x])
      BY <2>1, <3>1, TreesByEntry DEF Remove, Ext2Entry
    <3>4. /\ \A x \in DOMAIN int_tree1' : Int1Entry(live', conns', x, int_tree1'[x])
          /\ \A x \in DOMAIN int_tree2' : Int2Entry(live', conns', x, int_tree2'[x])
      BY <2>1, <2>2, <3>1, TreesByEntry DEF Int1Entry, Int2Entry
    <3> QED BY <3>2, <3>3, <3>4, TreesByEntry
  <2>3. CASE conns[c].initiator # "EXT"
    <3>1. /\ int_tree1' = Remove(int_tree1, conns[c].int_key)
          /\ int_tree2' = Remove(int_tree2, conns[c].ext_key)
          /\ ext_tree1' = ext_tree1 /\ ext_tree2' = ext_tree2
      BY <1>8, <2>3 DEF CleanOne, ReplyTreeWithout
    <3>2. /\ \A x \in DOMAIN ext_tree1' : Ext1Entry(live', conns', x, ext_tree1'[x])
          /\ \A x \in DOMAIN ext_tree2' : Ext2Entry(live', conns', x, ext_tree2'[x])
      BY <2>1, <2>3, <3>1, TreesByEntry DEF Ext1Entry, Ext2Entry
    <3>3. /\ \A x \in DOMAIN int_tree1' : Int1Entry(live', conns', x, int_tree1'[x])
          /\ \A x \in DOMAIN int_tree2' : Int2Entry(live', conns', x, int_tree2'[x])
      BY <2>1, <3>1, TreesByEntry DEF Remove, Int1Entry, Int2Entry
    <3> QED BY <3>2, <3>3, TreesByEntry
  <2> QED BY <2>2, <2>3
<1> QED BY <1>3, <1>4, <1>5, <1>6, <1>7, <1>8, StepCases

-----------------------------------------------------------------------------
(* InvFiled.                                                               *)

(* A failed lookup: the key is in neither tree of its origin. *)
LEMMA NotFound ==
  ASSUME InvConns, InvTrees, NEW k, Found(k) = 0
  PROVE  /\ FromExt(k) => k \notin DOMAIN ext_tree1 /\ k \notin DOMAIN int_tree2
         /\ ~FromExt(k) => k \notin DOMAIN ext_tree2 /\ k \notin DOMAIN int_tree1
<1>1. 0 \notin live
  BY NewIdFacts DEF InvConns
<1>2. CASE FromExt(k)
  BY <1>1, <1>2 DEF Found, InvTrees
<1>3. CASE ~FromExt(k)
  BY <1>1, <1>3 DEF Found, InvTrees
<1> QED BY <1>2, <1>3

(* A step that leaves ext_tree1, int_tree1 and the live connections alone, *)
(* and starts or ends no insertion.                                        *)
LEMMA FiledStays ==
  ASSUME InvConns, InvThreads, InvTrees, InvFiled, \A d \in DOMAIN conns : Same(d),
         UNCHANGED <<live, ext_tree1, int_tree1>>,
         \A u \in Threads : pc[u] = "insert" <=> pc'[u] = "insert",
         \A u \in Threads : pc[u] = "insert" => cur'[u] = cur[u] /\ pkt'[u] = pkt[u],
         \A u \in Threads :
           pc'[u] \in {"create", "pinned"} =>
             pkt'[u] = pkt[u] /\ (pc[u] \in {"create", "pinned"} \/ Found(pkt[u]) = 0)
  PROVE  InvFiled'
<1>1. live \subseteq DOMAIN conns
  BY DEF InvConns
<1>2. \A c \in live' :
        conns'[c].initiator = "EXT" =>
          conns'[c].ext_key \in DOMAIN ext_tree1' /\ ext_tree1'[conns'[c].ext_key] = c
  BY <1>1 DEF InvFiled, Same
<1>3. ASSUME NEW c \in live', conns'[c].initiator # "EXT",
             \A u \in Threads : cur'[u] = c => pc'[u] # "insert"
      PROVE  conns'[c].int_key \in DOMAIN int_tree1' /\ int_tree1'[conns'[c].int_key] = c
  <2>1. \A u \in Threads : cur[u] = c => pc[u] # "insert"
    BY <1>3
  <2> QED BY <1>1, <1>3, <2>1 DEF InvFiled, Same
<1>4. ASSUME NEW u \in Threads, pc'[u] \in {"create", "pinned"}
      PROVE  IF FromExt(pkt'[u]) THEN pkt'[u] \notin DOMAIN ext_tree1'
                                 ELSE pkt'[u] \notin DOMAIN int_tree1'
  <2>1. CASE pc[u] \in {"create", "pinned"}
    BY <1>4, <2>1 DEF InvFiled
  <2>2. CASE Found(pkt[u]) = 0
    BY <1>4, <2>2, NotFound
  <2> QED BY <1>4, <2>1, <2>2
<1>5. ASSUME NEW u \in Threads, pc'[u] = "insert"
      PROVE  /\ conns'[cur'[u]].initiator # "EXT" /\ conns'[cur'[u]].int_key = pkt'[u]
             /\ pkt'[u] \notin DOMAIN int_tree1'
  <2>1. pc[u] = "insert" /\ cur'[u] = cur[u] /\ pkt'[u] = pkt[u]
    BY <1>5
  <2>2. cur[u] \in DOMAIN conns
    BY <1>1, <2>1 DEF InvThreads, Seeking
  <2> QED BY <2>1, <2>2 DEF InvFiled, Same
<1> QED BY <1>2, <1>3, <1>4, <1>5 DEF InvFiled

LEMMA FiledStep ==
  ASSUME IInv, Next
  PROVE  InvFiled'
<1> USE DEF IInv
<1>1. \A d \in DOMAIN conns : Same(d)
  BY ConnsStep
<1>2. live \subseteq DOMAIN conns /\ 0 \notin DOMAIN conns
  BY NewIdFacts DEF InvConns
<1>3. /\ pc \in [Threads -> Places] /\ cur \in [Threads -> 0 .. MaxConns]
      /\ pkt \in [Threads -> Flows \cup {NoKey}]
  BY DEF InvThreads
<1>4. ASSUME NEW t \in Threads, Quiet(t) \/ Redirect(t)
      PROVE  InvFiled'
  <2>1. UNCHANGED <<live, ext_tree1, int_tree1>>
    BY <1>4 DEF Quiet, Receive, Lookup, Update, Skip, LookupPin, LookupTarget,
                      RefuseTarget, SetTarget, CountTarget, NewTarget, Finish, Redirect, trees
  <2>2. pc[t] # "insert" /\ pc'[t] # "insert"
    BY <1>3, <1>4 DEF Quiet, Receive, Lookup, Update, Skip, LookupPin, LookupTarget,
                      RefuseTarget, SetTarget, CountTarget, NewTarget, Finish, Redirect
  <2>3. pc'[t] \in {"create", "pinned"} =>
          pkt'[t] = pkt[t] /\ (pc[t] = "create" \/ Found(pkt[t]) = 0)
    BY <1>3, <1>4 DEF Quiet, Receive, Lookup, Update, Skip, LookupPin, LookupTarget,
                      RefuseTarget, SetTarget, CountTarget, NewTarget, Finish, Redirect
  <2>4. \A u \in Threads \ {t} : pc'[u] = pc[u] /\ pkt'[u] = pkt[u] /\ cur'[u] = cur[u]
    BY <1>3, <1>4 DEF Quiet, Receive, Lookup, Update, Skip, LookupPin, LookupTarget,
                      RefuseTarget, SetTarget, CountTarget, NewTarget, Finish, Redirect
  <2> QED BY <1>1, <2>1, <2>2, <2>3, <2>4, FiledStays
<1>5. ASSUME (\E c \in DOMAIN conns : Age(c)) \/ CleanQuiet PROVE InvFiled'
  <2>1. UNCHANGED <<live, ext_tree1, int_tree1, pc, pkt, cur>>
    BY <1>5 DEF Age, CleanQuiet, CleanStart, CleanSkip, CleanEnd, thread, trees
  <2> QED BY <1>1, <2>1, FiledStays
<1>6. ASSUME NEW t \in Threads, NEW conn \in Records, Allocate(t, conn), pc[t] \in {"create", "pinned"},
             IF conn.initiator = "EXT" THEN Outside(conn) ELSE Inside(conn)
      PROVE  /\ NewId \notin DOMAIN conns /\ live' = live \cup {NewId} /\ conns'[NewId] = conn
             /\ \A d \in DOMAIN conns : conns'[d] = conns[d] /\ d # NewId
             /\ cur'[t] = NewId /\ (\A u \in Threads \ {t} : cur'[u] = cur[u])
             /\ cur[t] = 0
  BY <1>3, <1>6, AllocateKeeps DEF Allocate, InvThreads, Seeking
<1>7. ASSUME NEW t \in Threads, NEW u \in Threads, t # u, pc[t] # "idle", pc[u] # "idle"
      PROVE  pkt[t] # pkt[u]
  BY <1>7 DEF InvThreads
<1>8. ASSUME NEW t \in Threads, CreateExt(t) PROVE InvFiled'
  <2> DEFINE n == NewId
             k == pkt[t]
  <2>1. /\ k \in Flows \cap Opening /\ FromExt(k)
        /\ ext_tree1' = Insert(ext_tree1, k, n) /\ int_tree1' = int_tree1
        /\ pkt' = pkt /\ pc[t] = "create" /\ pc'[t] = "done"
        /\ \A u \in Threads \ {t} : pc'[u] = pc[u]
    BY <1>3, <1>8, CreateExtFacts
  <2>2. /\ n \notin DOMAIN conns /\ live' = live \cup {n} /\ conns'[n] = NewExt(k)
        /\ \A d \in DOMAIN conns : conns'[d] = conns[d] /\ d # n
        /\ cur'[t] = n /\ (\A u \in Threads \ {t} : cur'[u] = cur[u]) /\ cur[t] = 0
    BY <1>6, <1>8, <2>1, CreateExtFacts, NewExtFacts
  <2>3. conns'[n].initiator = "EXT" /\ conns'[n].ext_key = k
    BY <2>1, <2>2, NewExtFacts
  <2>4. k \notin DOMAIN ext_tree1
    BY <2>1 DEF InvFiled
  <2> HIDE DEF n, k
  <2>5. /\ DOMAIN ext_tree1' = DOMAIN ext_tree1 \cup {k} /\ ext_tree1'[k] = n
        /\ \A x \in DOMAIN ext_tree1 : ext_tree1'[x] = ext_tree1[x]
    BY <2>1, <2>4 DEF Insert
  <2>6. \A c \in live' :
          conns'[c].initiator = "EXT" =>
            conns'[c].ext_key \in DOMAIN ext_tree1' /\ ext_tree1'[conns'[c].ext_key] = c
    BY <1>2, <2>2, <2>3, <2>5 DEF InvFiled
  <2>7. ASSUME NEW c \in live', conns'[c].initiator # "EXT",
               \A u \in Threads : cur'[u] = c => pc'[u] # "insert"
        PROVE  conns'[c].int_key \in DOMAIN int_tree1' /\ int_tree1'[conns'[c].int_key] = c
    <3>1. c \in live /\ conns'[c] = conns[c]
      BY <1>2, <2>2, <2>3, <2>7
    <3>2. \A u \in Threads : cur[u] = c => pc[u] # "insert"
      BY <2>1, <2>2, <2>7
    <3> QED BY <2>1, <2>7, <3>1, <3>2 DEF InvFiled
  <2>8. ASSUME NEW u \in Threads, pc'[u] \in {"create", "pinned"}
        PROVE  IF FromExt(pkt'[u]) THEN pkt'[u] \notin DOMAIN ext_tree1'
                                   ELSE pkt'[u] \notin DOMAIN int_tree1'
    <3>1. u # t /\ pc[u] \in {"create", "pinned"} /\ pkt[u] # k
      BY <1>7, <2>1, <2>8 DEF k
    <3> QED BY <2>1, <2>5, <3>1 DEF InvFiled
  <2>9. ASSUME NEW u \in Threads, pc'[u] = "insert"
        PROVE  /\ conns'[cur'[u]].initiator # "EXT" /\ conns'[cur'[u]].int_key = pkt'[u]
               /\ pkt'[u] \notin DOMAIN int_tree1'
    <3>1. u # t /\ pc[u] = "insert" /\ cur'[u] = cur[u]
      BY <2>1, <2>2, <2>9
    <3>2. cur[u] \in DOMAIN conns
      BY <1>2, <3>1 DEF InvThreads, Seeking
    <3> QED BY <2>1, <2>2, <3>1, <3>2 DEF InvFiled
  <2> QED BY <2>6, <2>7, <2>8, <2>9 DEF InvFiled
<1>9. ASSUME NEW t \in Threads, CreateOut(t) PROVE InvFiled'
  <2> DEFINE n == NewId
             k == pkt[t]
  <2>1. /\ k \in Flows \cap Opening /\ ~FromExt(k)
        /\ ext_tree1' = ext_tree1 /\ int_tree1' = int_tree1
        /\ pkt' = pkt /\ pc[t] \in {"create", "pinned"} /\ pc'[t] = "insert"
        /\ \A u \in Threads \ {t} : pc'[u] = pc[u]
    BY <1>3, <1>9, CreateOutFacts DEF trees
  <2>2. /\ n \notin DOMAIN conns /\ live' = live \cup {n}
        /\ \A d \in DOMAIN conns : conns'[d] = conns[d] /\ d # n
        /\ cur'[t] = n /\ (\A u \in Threads \ {t} : cur'[u] = cur[u]) /\ cur[t] = 0
    BY <1>6, <1>9, <2>1, CreateOutFacts
  <2>3. conns'[n].initiator # "EXT" /\ conns'[n].int_key = k
    BY <1>6, <1>9, <2>1, CreateOutFacts
  <2>4. k \notin DOMAIN int_tree1
    BY <2>1 DEF InvFiled
  <2> HIDE DEF n
  <2>5. \A c \in live' :
          conns'[c].initiator = "EXT" =>
            conns'[c].ext_key \in DOMAIN ext_tree1' /\ ext_tree1'[conns'[c].ext_key] = c
    BY <1>2, <2>1, <2>2, <2>3 DEF InvFiled
  <2>6. ASSUME NEW c \in live', conns'[c].initiator # "EXT",
               \A u \in Threads : cur'[u] = c => pc'[u] # "insert"
        PROVE  conns'[c].int_key \in DOMAIN int_tree1' /\ int_tree1'[conns'[c].int_key] = c
    <3>1. c # n
      BY <2>1, <2>2, <2>6
    <3>2. c \in live /\ conns'[c] = conns[c]
      BY <1>2, <2>2, <3>1
    <3>3. \A u \in Threads : cur[u] = c => pc[u] # "insert"
      BY <2>1, <2>2, <2>6
    <3> QED BY <2>1, <2>6, <3>2, <3>3 DEF InvFiled
  <2>7. \A u \in Threads :
          pc'[u] \in {"create", "pinned"} =>
            IF FromExt(pkt'[u]) THEN pkt'[u] \notin DOMAIN ext_tree1'
                                ELSE pkt'[u] \notin DOMAIN int_tree1'
    BY <2>1 DEF InvFiled
  <2>8. ASSUME NEW u \in Threads, pc'[u] = "insert"
        PROVE  /\ conns'[cur'[u]].initiator # "EXT" /\ conns'[cur'[u]].int_key = pkt'[u]
               /\ pkt'[u] \notin DOMAIN int_tree1'
    <3>1. CASE u = t
      BY <2>1, <2>2, <2>3, <2>4, <3>1
    <3>2. CASE u # t
      <4>1. pc[u] = "insert" /\ cur'[u] = cur[u]
        BY <2>1, <2>2, <2>8, <3>2
      <4>2. cur[u] \in DOMAIN conns
        BY <1>2, <4>1 DEF InvThreads, Seeking
      <4> QED BY <2>1, <2>2, <4>1, <4>2 DEF InvFiled
    <3> QED BY <3>1, <3>2
  <2> QED BY <2>5, <2>6, <2>7, <2>8 DEF InvFiled
<1>10. ASSUME NEW t \in Threads, InsertOut(t) PROVE InvFiled'
  <2> DEFINE c == cur[t]
             k == pkt[t]
  <2>1. /\ pc[t] = "insert" /\ pc'[t] = "done" /\ (\A u \in Threads \ {t} : pc'[u] = pc[u])
        /\ int_tree1' = Insert(int_tree1, conns[c].int_key, c) /\ ext_tree1' = ext_tree1
        /\ UNCHANGED <<conns, live, pkt, cur>>
    BY <1>3, <1>10 DEF InsertOut
  <2>2. c \in live /\ conns[c].initiator # "EXT" /\ conns[c].int_key = k /\ k \notin DOMAIN int_tree1
    BY <2>1 DEF InvThreads, Seeking, InvFiled
  <2>3. /\ DOMAIN int_tree1' = DOMAIN int_tree1 \cup {k} /\ int_tree1'[k] = c
        /\ \A x \in DOMAIN int_tree1 : int_tree1'[x] = int_tree1[x]
    BY <2>1, <2>2 DEF Insert
  <2>4. \A d \in live' :
          conns'[d].initiator = "EXT" =>
            conns'[d].ext_key \in DOMAIN ext_tree1' /\ ext_tree1'[conns'[d].ext_key] = d
    BY <2>1 DEF InvFiled
  <2>5. ASSUME NEW d \in live', conns'[d].initiator # "EXT",
               \A u \in Threads : cur'[u] = d => pc'[u] # "insert"
        PROVE  conns'[d].int_key \in DOMAIN int_tree1' /\ int_tree1'[conns'[d].int_key] = d
    <3>1. CASE d = c
      BY <2>1, <2>2, <2>3, <3>1
    <3>2. CASE d # c
      <4>1. \A u \in Threads : cur[u] = d => pc[u] # "insert"
        BY <2>1, <2>5, <3>2
      <4>2. conns[d].int_key \in DOMAIN int_tree1 /\ int_tree1[conns[d].int_key] = d
        BY <2>1, <2>5, <4>1 DEF InvFiled
      <4> QED BY <2>1, <2>3, <4>2
    <3> QED BY <3>1, <3>2
  <2>6. ASSUME NEW u \in Threads, pc'[u] \in {"create", "pinned", "insert"}
        PROVE  u # t /\ pc'[u] = pc[u] /\ pkt[u] # k
    BY <1>7, <2>1, <2>6
  <2>7. \A u \in Threads :
          pc'[u] \in {"create", "pinned"} =>
            IF FromExt(pkt'[u]) THEN pkt'[u] \notin DOMAIN ext_tree1'
                                ELSE pkt'[u] \notin DOMAIN int_tree1'
    BY <2>1, <2>3, <2>6 DEF InvFiled
  <2>8. \A u \in Threads :
          pc'[u] = "insert" =>
            /\ conns'[cur'[u]].initiator # "EXT" /\ conns'[cur'[u]].int_key = pkt'[u]
            /\ pkt'[u] \notin DOMAIN int_tree1'
    BY <2>1, <2>3, <2>6 DEF InvFiled
  <2> QED BY <2>4, <2>5, <2>7, <2>8 DEF InvFiled
<1>11. ASSUME NEW c \in todo, CleanOne(c) PROVE InvFiled'
  <2>1. /\ conns' = conns /\ live' = live \ {c} /\ c \in live /\ (\A t \in Threads : cur[t] # c)
        /\ UNCHANGED <<pc, pkt, cur>>
    BY <1>11, CleanOneFacts
  <2>2. /\ ext_tree1' = IF conns[c].initiator = "EXT" THEN Remove(ext_tree1, conns[c].ext_key)
                                                      ELSE ext_tree1
        /\ int_tree1' = IF conns[c].initiator = "EXT" THEN int_tree1
                                                      ELSE Remove(int_tree1, conns[c].int_key)
    BY <1>11 DEF CleanOne
  <2>3. ASSUME NEW d \in live', conns'[d].initiator = "EXT"
        PROVE  conns'[d].ext_key \in DOMAIN ext_tree1' /\ ext_tree1'[conns'[d].ext_key] = d
    <3>1. conns[d].ext_key \in DOMAIN ext_tree1 /\ ext_tree1[conns[d].ext_key] = d /\ d # c
      BY <2>1, <2>3 DEF InvFiled
    <3>2. conns[c].initiator = "EXT" => ext_tree1[conns[c].ext_key] = c
      BY <2>1 DEF InvFiled
    <3> QED BY <2>1, <2>2, <3>1, <3>2 DEF Remove
  <2>4. ASSUME NEW d \in live', conns'[d].initiator # "EXT",
               \A u \in Threads : cur'[u] = d => pc'[u] # "insert"
        PROVE  conns'[d].int_key \in DOMAIN int_tree1' /\ int_tree1'[conns'[d].int_key] = d
    <3>1. conns[d].int_key \in DOMAIN int_tree1 /\ int_tree1[conns[d].int_key] = d /\ d # c
      BY <2>1, <2>4 DEF InvFiled
    <3>2. conns[c].initiator # "EXT" => int_tree1[conns[c].int_key] = c
      BY <2>1 DEF InvFiled
    <3> QED BY <2>1, <2>2, <3>1, <3>2 DEF Remove
  <2>5. DOMAIN ext_tree1' \subseteq DOMAIN ext_tree1 /\ DOMAIN int_tree1' \subseteq DOMAIN int_tree1
    BY <2>2 DEF Remove
  <2>6. /\ \A u \in Threads :
             pc'[u] \in {"create", "pinned"} =>
               IF FromExt(pkt'[u]) THEN pkt'[u] \notin DOMAIN ext_tree1'
                                   ELSE pkt'[u] \notin DOMAIN int_tree1'
        /\ \A u \in Threads :
             pc'[u] = "insert" =>
               /\ conns'[cur'[u]].initiator # "EXT" /\ conns'[cur'[u]].int_key = pkt'[u]
               /\ pkt'[u] \notin DOMAIN int_tree1'
    BY <2>1, <2>5 DEF InvFiled
  <2> QED BY <2>3, <2>4, <2>6 DEF InvFiled
<1> QED BY <1>4, <1>5, <1>8, <1>9, <1>10, <1>11, StepCases

-----------------------------------------------------------------------------
(* The pins.                                                               *)

Typed(tree) == \A p \in DOMAIN tree : tree[p] \in PinRecords

LEMMA NewPinFacts ==
  ASSUME NEW ip \in Addresses, NEW c \in Nat
  PROVE  Pin(ip, c) \in PinRecords /\ Pin(ip, c).count = 1 /\ ~Pin(ip, c).freed
BY DEF Pin, PinRecords

LEMMA CountedFacts ==
  ASSUME NEW tree, Typed(tree), NEW k \in DOMAIN tree, NEW n \in Int
  PROVE  LET T == Counted(tree, k, n)
         IN /\ DOMAIN T = DOMAIN tree /\ Typed(T)
            /\ T[k].count = n /\ T[k].freed = tree[k].freed
            /\ \A p \in DOMAIN tree \ {k} : T[p] = tree[p]
<1> DEFINE T == Counted(tree, k, n)
           r == [tree[k] EXCEPT !.count = n]
           w == [r EXCEPT !.writes = r.writes + 1]
<1>1. tree[k] \in PinRecords
  BY DEF Typed
<1>2. r \in PinRecords /\ r.count = n /\ r.freed = tree[k].freed /\ r.writes = tree[k].writes
  BY <1>1 DEF PinRecords
<1>3. w \in PinRecords /\ w.count = n /\ w.freed = tree[k].freed
  <2> HIDE DEF r
  <2> QED BY <1>2 DEF PinRecords
<1>4. /\ DOMAIN T = DOMAIN tree /\ T[k] = w
      /\ \A p \in DOMAIN tree \ {k} : T[p] = tree[p]
  BY <1>1 DEF Counted, PinRecords
<1> HIDE DEF T, w
<1>5. Typed(T)
  BY <1>3, <1>4 DEF Typed
<1> QED BY <1>3, <1>4, <1>5 DEF T

LEMMA PinnedFacts ==
  ASSUME NEW tree, Typed(tree), NEW k, NEW ip \in Addresses, NewId \in Nat
  PROVE  LET T == Pinned(tree, k, ip)
         IN /\ DOMAIN T = DOMAIN tree \cup {k} /\ Typed(T)
            /\ k \in DOMAIN tree => T[k].count = tree[k].count + 1 /\ T[k].freed = tree[k].freed
            /\ k \notin DOMAIN tree => T[k].count = 1 /\ ~T[k].freed
            /\ \A p \in DOMAIN tree \ {k} : T[p] = tree[p]
<1> DEFINE T == Pinned(tree, k, ip)
<1>1. CASE k \in DOMAIN tree
  <2>1. T = Counted(tree, k, tree[k].count + 1) /\ tree[k].count + 1 \in Int
    BY <1>1 DEF Pinned, Typed, PinRecords
  <2> HIDE DEF T
  <2>2. /\ DOMAIN T = DOMAIN tree /\ Typed(T) /\ T[k].count = tree[k].count + 1
        /\ T[k].freed = tree[k].freed /\ \A p \in DOMAIN tree \ {k} : T[p] = tree[p]
    BY <1>1, <2>1, CountedFacts
  <2>3. DOMAIN tree = DOMAIN tree \cup {k}
    BY <1>1
  <2> QED BY <1>1, <2>2, <2>3 DEF T
<1>2. CASE k \notin DOMAIN tree
  <2> DEFINE new == Pin(ip, NewId)
  <2>1. new \in PinRecords /\ new.count = 1 /\ ~new.freed
    BY NewPinFacts
  <2>2. T = Insert(tree, k, new)
    BY <1>2 DEF Pinned
  <2> HIDE DEF T, new
  <2>3. /\ DOMAIN T = DOMAIN tree \cup {k} /\ T[k] = new
        /\ \A p \in DOMAIN tree \ {k} : T[p] = tree[p]
    BY <2>2 DEF Insert
  <2>4. Typed(T)
    BY <2>1, <2>3 DEF Typed
  <2> QED BY <1>2, <2>1, <2>3, <2>4 DEF T
<1> QED BY <1>1, <1>2

LEMMA UnpinnedFacts ==
  ASSUME NEW tree, Typed(tree), NEW k
  PROVE  LET T == Unpinned(tree, k)
         IN /\ Typed(T) /\ DOMAIN T \subseteq DOMAIN tree /\ DOMAIN tree \ {k} \subseteq DOMAIN T
            /\ \A p \in DOMAIN T \ {k} : T[p] = tree[p]
            /\ k \in DOMAIN T <=> k \in DOMAIN tree /\ tree[k].count # 1
            /\ k \in DOMAIN T => T[k].count = tree[k].count - 1 /\ T[k].freed = tree[k].freed
<1> DEFINE T == Unpinned(tree, k)
<1>1. CASE k \notin DOMAIN tree
  BY <1>1 DEF Unpinned
<1>2. CASE k \in DOMAIN tree /\ tree[k].count = 1
  <2>1. T = [x \in DOMAIN tree \ {k} |-> tree[x]]
    BY <1>2 DEF Unpinned, Remove
  <2>2. Typed(T)
    BY <2>1 DEF Typed
  <2> QED BY <1>2, <2>1, <2>2
<1>3. CASE k \in DOMAIN tree /\ tree[k].count # 1
  <2>1. T = Counted(tree, k, tree[k].count - 1) /\ tree[k].count - 1 \in Int
    BY <1>3 DEF Unpinned, Typed, PinRecords
  <2> HIDE DEF T
  <2>2. /\ T[k].count = tree[k].count - 1 /\ T[k].freed = tree[k].freed
        /\ DOMAIN T = DOMAIN tree /\ Typed(T) /\ \A p \in DOMAIN tree \ {k} : T[p] = tree[p]
    BY <1>3, <2>1, CountedFacts
  <2> QED BY <1>3, <2>1, <2>2 DEF T
<1> QED BY <1>1, <1>2, <1>3

LEMMA TargetUnpinnedTyped ==
  ASSUME NEW tree, Typed(tree), NEW conn
  PROVE  Typed(TargetUnpinned(tree, conn))
<1> DEFINE k == conn.target_pin_key
<1>1. CASE k \notin DOMAIN tree \/ tree[k].freed
  BY <1>1 DEF TargetUnpinned
<1>2. CASE k \in DOMAIN tree /\ ~tree[k].freed /\ tree[k].count = 1
  <2> DEFINE C == Counted(tree, k, 0)
             T == [C EXCEPT ![k].freed = TRUE]
  <2>1. TargetUnpinned(tree, conn) = Remove(T, conn.pin_key)
    BY <1>2 DEF TargetUnpinned
  <2> HIDE DEF k
  <2>2. Typed(C) /\ DOMAIN C = DOMAIN tree
    BY <1>2, CountedFacts
  <2> HIDE DEF C
  <2>3. C[k] \in PinRecords
    BY <1>2, <2>2 DEF Typed
  <2>4. [C[k] EXCEPT !.freed = TRUE] \in PinRecords
    BY <2>3 DEF PinRecords
  <2>5. /\ DOMAIN T = DOMAIN tree /\ T[k] = [C[k] EXCEPT !.freed = TRUE]
        /\ \A p \in DOMAIN tree \ {k} : T[p] = C[p]
    BY <1>2, <2>2
  <2> HIDE DEF T
  <2>6. Typed(T)
    BY <2>2, <2>4, <2>5 DEF Typed
  <2> QED BY <2>1, <2>6 DEF Typed, Remove
<1>3. CASE k \in DOMAIN tree /\ ~tree[k].freed /\ tree[k].count # 1
  <2>1. /\ TargetUnpinned(tree, conn) = Counted(tree, k, tree[k].count - 1)
        /\ tree[k].count - 1 \in Int
    BY <1>3 DEF TargetUnpinned, Typed, PinRecords
  <2> QED BY <1>3, <2>1, CountedFacts
<1> QED BY <1>1, <1>2, <1>3

(* pin->count++ on the pin in a hand. *)
LEMMA CountedInHandFacts ==
  ASSUME NEW t \in Threads, NEW tree, Typed(tree), hand[t].pin \in PinRecords,
         NEW T \in CountedInHand(t, tree)
  PROVE  LET p == hand[t].key
         IN /\ DOMAIN T = DOMAIN tree /\ Typed(T)
            /\ \A x \in DOMAIN tree \ {p} : T[x] = tree[x]
            /\ p \in DOMAIN tree =>
                 /\ T[p].freed = tree[p].freed
                 /\ T[p].count \in {hand[t].pin.count + 1, tree[p].count + 1, tree[p].count}
            /\ Untouched(t, tree) => p \in DOMAIN tree /\ T[p].count = tree[p].count + 1
<1> DEFINE p == hand[t].key
           old == hand[t].pin.count
<1>1. old \in Int
  BY DEF PinRecords
<1>2. CASE ~InPlace(t, tree)
  <2>1. T = tree /\ ~Untouched(t, tree)
    BY <1>2 DEF CountedInHand, Untouched
  <2> QED BY <2>1
<1>3. CASE InPlace(t, tree)
  <2>1. p \in DOMAIN tree
    BY <1>3 DEF InPlace
  <2>2. tree[p].count \in Int
    BY <2>1 DEF Typed, PinRecords
  <2>3. Untouched(t, tree) => T = Counted(tree, p, old + 1) /\ tree[p].count = old
    BY <1>3 DEF CountedInHand, Untouched
  <2>4. PICK n \in {old + 1, tree[p].count + 1, tree[p].count} :
          T = Counted(tree, p, n) /\ (Untouched(t, tree) => n = tree[p].count + 1)
    BY <1>3, <2>3 DEF CountedInHand
  <2>5. n \in Int
    BY <1>1, <2>2, <2>4
  <2>6. /\ DOMAIN T = DOMAIN tree /\ Typed(T)
        /\ T[p].count = n /\ T[p].freed = tree[p].freed
        /\ \A x \in DOMAIN tree \ {p} : T[x] = tree[x]
    BY <2>1, <2>4, <2>5, CountedFacts
  <2> QED BY <2>1, <2>4, <2>6
<1> QED BY <1>2, <1>3

(* What CreatePinned does to the pins. *)
LEMMA OutPinFacts ==
  ASSUME InvThreads, InvAddresses, InvHand, NEW t \in Threads, CreatePinned(t)
  PROVE  LET k == pkt[t]
             p == OutPin(k)
             own == UsesTargetPin(k)
         IN /\ Typed(comm_pin_tree') /\ Typed(target_pin_tree')
            /\ DOMAIN comm_pin_tree' = DOMAIN comm_pin_tree
            /\ \A x \in DOMAIN comm_pin_tree \ {p} : comm_pin_tree'[x] = comm_pin_tree[x]
            /\ raced \subseteq raced' /\ raced' \subseteq raced \cup {p}
            /\ own => comm_pin_tree' = comm_pin_tree
            /\ ~own /\ p \in DOMAIN comm_pin_tree =>
                 /\ comm_pin_tree'[p].freed = comm_pin_tree[p].freed
                 /\ \/ comm_pin_tree'[p].count \in {comm_pin_tree[p].count, comm_pin_tree[p].count + 1}
                    \/ comm_pin_tree'[p].count - 1 \in Nat /\ comm_pin_tree'[p].count - 1 >= 1
            /\ ~own /\ p \notin raced' =>
                 /\ p \in DOMAIN comm_pin_tree
                 /\ comm_pin_tree'[p].count = comm_pin_tree[p].count + 1
<1> DEFINE k == pkt[t]
           p == OutPin(k)
           own == UsesTargetPin(k)
<1>1. Typed(comm_pin_tree) /\ Typed(target_pin_tree)
  BY DEF InvAddresses, Typed
<1>2. /\ hand[t].pin \in PinRecords /\ hand[t].key = p
      /\ own \/ hand[t].pin.count >= 1
  BY DEF CreatePinned, InvHand
<1>3. hand[t].pin.count \in Int
  BY <1>2 DEF PinRecords
<1>4. raced' = IF Untouched(t, OutPinTree(k)) THEN raced ELSE raced \cup {p}
  BY <1>2 DEF CreatePinned
<1>5. PICK T \in CountedInHand(t, OutPinTree(k)) :
        /\ target_pin_tree' = IF own THEN T ELSE target_pin_tree
        /\ comm_pin_tree' = IF own THEN comm_pin_tree ELSE T
  BY DEF CreatePinned
<1>6. CASE own
  <2>1. OutPinTree(k) = target_pin_tree
    BY <1>6 DEF OutPinTree
  <2>2. Typed(T)
    BY <1>1, <1>2, <1>5, <2>1, CountedInHandFacts
  <2> QED BY <1>1, <1>4, <1>5, <1>6, <2>2
<1>7. CASE ~own
  <2>1. OutPinTree(k) = comm_pin_tree
    BY <1>7 DEF OutPinTree
  <2> HIDE DEF p, k, own
  <2>2. /\ DOMAIN T = DOMAIN comm_pin_tree /\ Typed(T)
        /\ \A x \in DOMAIN comm_pin_tree \ {p} : T[x] = comm_pin_tree[x]
        /\ p \in DOMAIN comm_pin_tree =>
             /\ T[p].freed = comm_pin_tree[p].freed
             /\ T[p].count \in {hand[t].pin.count + 1, comm_pin_tree[p].count + 1,
                                comm_pin_tree[p].count}
        /\ Untouched(t, comm_pin_tree) =>
             p \in DOMAIN comm_pin_tree /\ T[p].count = comm_pin_tree[p].count + 1
    BY <1>1, <1>2, <1>5, <2>1, CountedInHandFacts
  <2>3. comm_pin_tree' = T /\ target_pin_tree' = target_pin_tree
    BY <1>5, <1>7
  <2>4. p \notin raced' => Untouched(t, comm_pin_tree)
    BY <1>4, <2>1
  <2>5. \A n : n = hand[t].pin.count + 1 => n - 1 \in Nat /\ n - 1 >= 1
    BY <1>2, <1>3, <1>7
  <2> QED BY <1>1, <1>4, <1>7, <2>2, <2>3, <2>4, <2>5 DEF p, k, own
<1> QED BY <1>6, <1>7

LEMMA AddressesStep ==
  ASSUME IInv, Next
  PROVE  InvAddresses'
<1> USE DEF IInv
<1>1. Typed(comm_pin_tree) /\ Typed(target_pin_tree)
  BY DEF InvAddresses, Typed
<1>2. SUFFICES Typed(comm_pin_tree') /\ Typed(target_pin_tree')
  BY DEF InvAddresses, Typed
<1>3. ASSUME \/ \E t \in Threads : \/ Quiet(t) /\ ~SetTarget(t)
                                   \/ InsertOut(t) \/ Redirect(t) \/ CreateUnpinned(t)
             \/ \E c \in DOMAIN conns : Age(c)
             \/ CleanQuiet
      PROVE  Typed(comm_pin_tree') /\ Typed(target_pin_tree')
  <2>1. UNCHANGED pins
    BY <1>3 DEF Quiet, Receive, Lookup, Update, Skip, LookupPin, LookupTarget, RefuseTarget, Finish,
                InsertOut, Redirect, CreateUnpinned, Age, CleanQuiet, CleanStart, CleanSkip, CleanEnd
  <2> QED BY <1>1, <2>1 DEF pins
<1>4. ASSUME NEW t \in Threads, CreateExt(t)
      PROVE  Typed(comm_pin_tree') /\ Typed(target_pin_tree')
  <2>1. /\ pkt[t] \in Flows /\ FromExt(pkt[t]) /\ target_pin_tree' = target_pin_tree
        /\ comm_pin_tree' = Pinned(comm_pin_tree, PinKey(Lih, pkt[t].dst), pkt[t].dst)
    BY <1>4, CreateExtFacts
  <2>2. pkt[t].dst \in Addresses /\ NewId \in Nat
    BY <2>1, FlowFacts, NewIdFacts DEF Addresses
  <2> QED BY <1>1, <2>1, <2>2, PinnedFacts
<1>5. ASSUME NEW t \in Threads, CreatePinned(t)
      PROVE  Typed(comm_pin_tree') /\ Typed(target_pin_tree')
  BY <1>5, OutPinFacts
<1>6. ASSUME NEW t \in Threads, CountTarget(t)
      PROVE  Typed(comm_pin_tree') /\ Typed(target_pin_tree')
  <2>1. hand[t].pin \in PinRecords
    BY <1>6 DEF CountTarget, InvHand
  <2>2. comm_pin_tree' = comm_pin_tree /\ target_pin_tree' \in CountedInHand(t, target_pin_tree)
    BY <1>6 DEF CountTarget
  <2> QED BY <1>1, <2>1, <2>2, CountedInHandFacts
<1>7. ASSUME NEW t \in Threads, NewTarget(t)
      PROVE  Typed(comm_pin_tree') /\ Typed(target_pin_tree')
  <2> DEFINE ip == conns[cur[t]].ext_key.dst
  <2>1. /\ comm_pin_tree' = comm_pin_tree /\ pc[t] = "new_target"
        /\ target_pin_tree' = Insert(target_pin_tree, hand[t].key, Pin(ip, cur[t]))
    BY <1>7 DEF NewTarget
  <2>2. cur[t] \in DOMAIN conns /\ cur[t] \in Nat /\ conns[cur[t]].initiator = "EXT"
    BY <2>1, ConnectionsAssumption DEF InvThreads, InvConns, InvHand, Seeking
  <2>3. conns[cur[t]].ext_key \in Flows /\ FromExt(conns[cur[t]].ext_key)
    BY <2>2 DEF InvConns, Outside, FromExt
  <2>4. ip \in Addresses
    BY <2>3, FlowFacts DEF Addresses
  <2> DEFINE new == Pin(ip, cur[t])
  <2>5. new \in PinRecords /\ target_pin_tree' = Insert(target_pin_tree, hand[t].key, new)
    BY <2>1, <2>2, <2>4, NewPinFacts
  <2> HIDE DEF new
  <2>6. Typed(target_pin_tree')
    BY <1>1, <2>5 DEF Typed, Insert
  <2> QED BY <1>1, <2>1, <2>6
<1>8. ASSUME NEW c \in todo, CleanOne(c)
      PROVE  Typed(comm_pin_tree') /\ Typed(target_pin_tree')
  <2>1. /\ comm_pin_tree' = Unpinned(comm_pin_tree, conns[c].pin_key)
        /\ target_pin_tree' = TargetUnpinned(target_pin_tree, conns[c])
    BY <1>8 DEF CleanOne
  <2> QED BY <1>1, <2>1, UnpinnedFacts, TargetUnpinnedTyped
<1> QED BY <1>3, <1>4, <1>5, <1>6, <1>7, <1>8, StepCases DEF CreateOut, SetTarget

(* What a step of a thread leaves of the others. *)
LEMMA HandStep ==
  ASSUME IInv, Next
  PROVE  InvHand'
<1> USE DEF IInv
<1>1. \A d \in DOMAIN conns : Same(d)
  BY ConnsStep
<1>2. /\ pc \in [Threads -> Places] /\ cur \in [Threads -> 0 .. MaxConns]
      /\ pkt \in [Threads -> Flows \cup {NoKey}] /\ DOMAIN hand = Threads
      /\ \A u \in Threads : cur[u] # 0 => cur[u] \in DOMAIN conns
  BY DEF InvThreads, InvHand, InvConns
<1> DEFINE Ok(u) ==
             /\ pc[u] = "pinned" =>
                  /\ pkt[u] \in Opening /\ ~FromExt(pkt[u]) /\ hand[u].key = OutPin(pkt[u])
                  /\ hand[u].pin \in PinRecords
                  /\ UsesTargetPin(pkt[u]) \/ hand[u].pin.count >= 1
             /\ pc[u] = "target" => hand[u].pin \in PinRecords
             /\ pc[u] \in {"target", "new_target", "redirect"} =>
                  /\ \E h \in Hihs : hand[u].key = PinKey(h, None)
                  /\ conns[cur[u]].initiator = "EXT" /\ conns[cur[u]].redirected_int_key = NoKey
<1>3. (\A u \in Threads : Ok(u)) /\ (DOMAIN hand' = Threads /\ (\A u \in Threads : Ok(u)') => InvHand')
  BY DEF InvHand
<1>4. ASSUME NEW u \in Threads, UNCHANGED <<pc[u], pkt[u], cur[u], hand[u]>>,
             pc[u] \in {"target", "new_target", "redirect"} =>
               conns'[cur[u]].redirected_int_key = conns[cur[u]].redirected_int_key
      PROVE  Ok(u)'
  <2>1. pc[u] \in {"target", "new_target", "redirect"} => cur[u] \in DOMAIN conns
    BY <1>2 DEF InvThreads, Seeking
  <2>2. pc[u] \in {"target", "new_target", "redirect"} =>
          conns'[cur'[u]].initiator = "EXT" /\ conns'[cur'[u]].redirected_int_key = NoKey
    BY <1>1, <1>3, <1>4, <2>1 DEF Same
  <2>3. UsesTargetPin(pkt'[u]) = UsesTargetPin(pkt[u]) /\ OutPin(pkt'[u]) = OutPin(pkt[u])
    BY <1>4
  <2> QED BY <1>3, <1>4, <2>2, <2>3 DEF UsesTargetPin, OutPin
<1>5. ASSUME NEW t \in Threads, UNCHANGED conns \/ Quiet(t) \/ Redirect(t) \/ CreateExt(t) \/ CreateOut(t),
             NEW u \in Threads, u # t, pc[u] \in {"target", "new_target", "redirect"}
      PROVE  conns'[cur[u]].redirected_int_key = conns[cur[u]].redirected_int_key
  <2>1. cur[u] \in DOMAIN conns
    BY <1>2, <1>5 DEF InvThreads, Seeking
  <2>2. CASE Redirect(t)
    <3>1. cur[t] # 0 /\ cur[u] # 0
      BY <1>5, <2>2 DEF InvThreads, Seeking, Redirect
    <3>2. cur[t] # cur[u]
      BY <1>5, <3>1 DEF InvThreads
    <3> QED BY <2>1, <2>2, <3>2, RedirectFacts
  <2>3. CASE CreateExt(t)
    BY <2>1, <2>3, CreateExtFacts, NewExtFacts, AllocateKeeps
  <2>4. CASE CreateOut(t)
    BY <2>1, <2>4, CreateOutFacts, AllocateKeeps
  <2>5. CASE Quiet(t)
    BY <2>1, <2>5, QuietFacts
  <2> QED BY <1>5, <2>2, <2>3, <2>4, <2>5
<1>6. ASSUME NEW t \in Threads,
             \/ Quiet(t) \/ CreateExt(t) \/ CreateOut(t) \/ InsertOut(t) \/ Redirect(t)
      PROVE  InvHand'
  <2>1. /\ DOMAIN hand' = Threads
        /\ \A u \in Threads \ {t} : UNCHANGED <<pc[u], pkt[u], cur[u], hand[u]>>
    BY <1>2, <1>6 DEF Quiet, CreateExt, CreateOut, CreateUnpinned, CreatePinned, InsertOut, Redirect,
                Allocate, Receive, Lookup, Update, Skip, LookupPin, LookupTarget, RefuseTarget,
                SetTarget, CountTarget, NewTarget, Finish
  <2>2. \A u \in Threads \ {t} : Ok(u)'
    <3>1. UNCHANGED conns \/ Quiet(t) \/ Redirect(t) \/ CreateExt(t) \/ CreateOut(t)
      BY <1>6 DEF InsertOut
    <3> HIDE DEF Ok
    <3> QED BY <1>4, <1>5, <2>1, <3>1
  <2>3. CASE LookupPin(t)
    <3> DEFINE k == pkt[t]
               p == OutPin(k)
    <3>1. /\ pc'[t] = "pinned" /\ UNCHANGED <<pkt, comm_pin_tree, target_pin_tree>>
          /\ k \in Opening /\ ~FromExt(k) /\ p \in DOMAIN OutPinTree(k)
          /\ hand'[t] = [key |-> p, pin |-> OutPinTree(k)[p]]
      BY <1>2, <2>3 DEF LookupPin, pins
    <3>2. hand'[t].key = p /\ hand'[t].pin = OutPinTree(k)[p]
      BY <3>1
    <3>3. OutPinTree(k)[p] \in PinRecords
      BY <3>1 DEF OutPinTree, InvAddresses
    <3>4. ~UsesTargetPin(k) => OutPinTree(k)[p].count >= 1
      BY <3>1 DEF OutPinTree, InvPins
    <3>5. Ok(t)'
      BY <3>1, <3>2, <3>3, <3>4 DEF OutPin, UsesTargetPin
    <3> HIDE DEF Ok
    <3> QED BY <1>3, <2>1, <2>2, <3>5
  <2>4. ASSUME NEW h \in Hihs, LookupTarget(t, h) PROVE InvHand'
    <3> DEFINE p == PinKey(h, None)
    <3>1. /\ conns[cur[t]].initiator = "EXT" /\ conns[cur[t]].redirected_int_key = NoKey
          /\ pc'[t] \in {"target", "new_target", "redirect"} /\ UNCHANGED <<conns, cur>>
          /\ pc'[t] = "target" => p \in DOMAIN target_pin_tree
          /\ hand'[t].key = p
          /\ p \in DOMAIN target_pin_tree => hand'[t].pin = target_pin_tree[p]
      BY <1>2, <2>4 DEF LookupTarget
    <3>2. p \in DOMAIN target_pin_tree => target_pin_tree[p] \in PinRecords
      BY DEF InvAddresses
    <3>3. Ok(t)'
      BY <3>1, <3>2
    <3> HIDE DEF Ok
    <3> QED BY <1>3, <2>1, <2>2, <3>3
  <2>5. CASE SetTarget(t)
    <3>1. /\ pc[t] \in {"target", "new_target"} /\ pc'[t] = "redirect" /\ UNCHANGED <<hand, cur>>
      BY <1>2, <2>5 DEF SetTarget, CountTarget, NewTarget
    <3>2. cur[t] \in DOMAIN conns
      BY <1>2, <3>1 DEF InvThreads, Seeking
    <3>3. conns'[cur[t]].initiator = "EXT" /\ conns'[cur[t]].redirected_int_key = NoKey
      BY <1>1, <1>3, <2>5, <3>1, <3>2, QuietFacts DEF Same, Quiet
    <3>4. Ok(t)'
      BY <1>3, <3>1, <3>3
    <3> HIDE DEF Ok
    <3> QED BY <1>3, <2>1, <2>2, <3>4
  <2>6. CASE pc'[t] \in {"idle", "lookup", "create", "update", "process", "insert", "done"}
    <3>1. Ok(t)'
      BY <2>6
    <3> HIDE DEF Ok
    <3> QED BY <1>3, <2>1, <2>2, <3>1
  <2>7. \/ LookupPin(t) \/ (\E h \in Hihs : LookupTarget(t, h)) \/ SetTarget(t)
        \/ pc'[t] \in {"idle", "lookup", "create", "update", "process", "insert", "done"}
    BY <1>2, <1>6 DEF Quiet, CreateExt, CreateOut, CreateUnpinned, CreatePinned, InsertOut, Redirect,
                Receive, Lookup, Update, Skip, RefuseTarget, Finish
  <2> QED BY <2>3, <2>4, <2>5, <2>6, <2>7
<1>7. ASSUME \/ \E c \in DOMAIN conns : Age(c)
             \/ CleanQuiet
             \/ \E c \in todo : CleanOne(c)
      PROVE  InvHand'
  <2>1. UNCHANGED <<pc, pkt, cur, hand>>
    BY <1>7 DEF Age, CleanQuiet, CleanStart, CleanSkip, CleanEnd, CleanOne, thread
  <2>2. \A d \in DOMAIN conns : conns'[d].redirected_int_key = conns[d].redirected_int_key
    BY <1>7, QuietFacts, CleanOneFacts
  <2>3. \A u \in Threads : pc[u] \in {"target", "new_target", "redirect"} => cur[u] \in DOMAIN conns
    BY <1>2 DEF InvThreads, Seeking
  <2>4. \A u \in Threads : Ok(u)'
    <3> HIDE DEF Ok
    <3> QED BY <1>4, <2>1, <2>2, <2>3
  <2> HIDE DEF Ok
  <2> QED BY <1>2, <1>3, <2>1, <2>4
<1> QED BY <1>6, <1>7, StepCases

LEMMA UsersFacts ==
  ASSUME InvConns, NEW p
  PROVE  /\ IsFiniteSet(Users(live, conns, p)) /\ Cardinality(Users(live, conns, p)) \in 0 .. MaxConns
         /\ Users(live, conns, p) = {} <=> Cardinality(Users(live, conns, p)) = 0
<1>1. PICK n \in 0 .. MaxConns : conns \in [1 .. n -> Records]
  BY DEF InvConns
<1>2. n \in Nat /\ n <= MaxConns /\ MaxConns \in Nat
  BY <1>1, ConnectionsAssumption
<1>3. IsFiniteSet(1 .. n) /\ Cardinality(1 .. n) = n
  BY <1>2, FS_Interval
<1>4. Users(live, conns, p) \in SUBSET (1 .. n)
  BY <1>1 DEF InvConns, Users
<1>5. /\ IsFiniteSet(Users(live, conns, p))
      /\ Cardinality(Users(live, conns, p)) <= n
  BY <1>3, <1>4, FS_Subset
<1>6. Cardinality(Users(live, conns, p)) \in Nat
  BY <1>5, FS_CardinalityType
<1> QED BY <1>2, <1>5, <1>6, FS_EmptySet

(* A connection with the pin q more. *)
LEMMA UserAdded ==
  ASSUME InvConns, NEW n, n \notin live, live' = live \cup {n},
         \A d \in live : conns'[d].pin_key = conns[d].pin_key, NEW p
  PROVE  Cardinality(Users(live', conns', p)) =
           Cardinality(Users(live, conns, p)) + (IF conns'[n].pin_key = p THEN 1 ELSE 0)
<1>1. IsFiniteSet(Users(live, conns, p)) /\ Cardinality(Users(live, conns, p)) \in Nat
  BY UsersFacts
<1>2. CASE conns'[n].pin_key = p
  <2>1. Users(live', conns', p) = Users(live, conns, p) \cup {n} /\ n \notin Users(live, conns, p)
    BY <1>2 DEF Users
  <2> QED BY <1>1, <1>2, <2>1, FS_AddElement
<1>3. CASE conns'[n].pin_key # p
  <2>1. Users(live', conns', p) = Users(live, conns, p)
    BY <1>3 DEF Users
  <2> QED BY <1>1, <1>3, <2>1
<1> QED BY <1>2, <1>3

LEMMA PinsStep ==
  ASSUME IInv, Next
  PROVE  InvPins'
<1> USE DEF IInv
<1>1. \A d \in DOMAIN conns : Same(d)
  BY ConnsStep
<1>2. live \subseteq DOMAIN conns
  BY DEF InvConns
<1>3. Typed(comm_pin_tree) /\ (\A p \in DOMAIN comm_pin_tree : comm_pin_tree[p].count \in Int)
  BY DEF InvAddresses, Typed, PinRecords
<1>4. ASSUME \/ \E t \in Threads : Quiet(t) \/ InsertOut(t) \/ Redirect(t)
             \/ \E c \in DOMAIN conns : Age(c)
             \/ CleanQuiet
      PROVE  InvPins'
  <2>1. UNCHANGED <<live, comm_pin_tree, raced>>
    BY <1>4, QuietFacts DEF InsertOut, Redirect, pins
  <2>2. \A d \in live : conns'[d].pin_key = conns[d].pin_key
    BY <1>1, <1>2 DEF Same
  <2>3. \A p : Users(live', conns', p) = Users(live, conns, p)
    BY <2>1, <2>2 DEF Users
  <2> QED BY <2>1, <2>2, <2>3 DEF InvPins
<1>5. ASSUME NEW t \in Threads, CreateExt(t) PROVE InvPins'
  <2> DEFINE n == NewId
             q == PinKey(Lih, pkt[t].dst)
  <2>1. /\ pkt[t] \in Flows /\ FromExt(pkt[t])
        /\ comm_pin_tree' = Pinned(comm_pin_tree, q, pkt[t].dst) /\ raced' = raced
    BY <1>5, CreateExtFacts
  <2>2. /\ n \notin DOMAIN conns /\ live' = live \cup {n} /\ conns'[n].pin_key = q
        /\ \A d \in DOMAIN conns : conns'[d] = conns[d]
    BY <1>5, CreateExtFacts, NewExtFacts, AllocateKeeps
  <2>3. pkt[t].dst \in Addresses /\ q.handler = Lih
    BY <2>1, FlowFacts DEF Addresses, PinKey
  <2> HIDE DEF n, q
  <2>4. /\ DOMAIN comm_pin_tree' = DOMAIN comm_pin_tree \cup {q}
        /\ comm_pin_tree'[q].count =
             IF q \in DOMAIN comm_pin_tree THEN comm_pin_tree[q].count + 1 ELSE 1
        /\ q \in DOMAIN comm_pin_tree => comm_pin_tree'[q].freed = comm_pin_tree[q].freed
        /\ q \notin DOMAIN comm_pin_tree => ~comm_pin_tree'[q].freed
        /\ \A p \in DOMAIN comm_pin_tree \ {q} : comm_pin_tree'[p] = comm_pin_tree[p]
    <3> DEFINE ip == pkt[t].dst
               T == Pinned(comm_pin_tree, q, ip)
    <3>1. ip \in Addresses /\ comm_pin_tree' = T /\ NewId \in Nat
      BY <2>1, <2>3, NewIdFacts
    <3> HIDE DEF ip
    <3>2. DOMAIN T = DOMAIN comm_pin_tree \cup {q}
      BY <1>3, <3>1, PinnedFacts
    <3>3. q \in DOMAIN comm_pin_tree =>
            T[q].count = comm_pin_tree[q].count + 1 /\ T[q].freed = comm_pin_tree[q].freed
      BY <1>3, <3>1, PinnedFacts
    <3>4. q \notin DOMAIN comm_pin_tree => T[q].count = 1 /\ ~T[q].freed
      BY <1>3, <3>1, PinnedFacts
    <3>5. \A p \in DOMAIN comm_pin_tree \ {q} : T[p] = comm_pin_tree[p]
      BY <1>3, <3>1, PinnedFacts
    <3> HIDE DEF T
    <3> QED BY <3>1, <3>2, <3>3, <3>4, <3>5
  <2>5. \A p : Cardinality(Users(live', conns', p)) =
                 Cardinality(Users(live, conns, p)) + (IF p = q THEN 1 ELSE 0)
    BY <1>2, <2>2, UserAdded
  <2>6. q \notin DOMAIN comm_pin_tree /\ q \notin raced => Cardinality(Users(live, conns, q)) = 0
    <3>1. q \notin DOMAIN comm_pin_tree /\ q \notin raced => Users(live, conns, q) = {}
      BY <2>3 DEF InvPins, Users
    <3> QED BY <3>1, UsersFacts
  <2>7. \A p : Cardinality(Users(live, conns, p)) \in Nat
    BY UsersFacts
  <2>8. ASSUME NEW p \in DOMAIN comm_pin_tree'
        PROVE  /\ p.handler = Lih /\ ~comm_pin_tree'[p].freed /\ comm_pin_tree'[p].count >= 1
               /\ p \notin raced' =>
                    comm_pin_tree'[p].count = Cardinality(Users(live', conns', p))
    <3>1. CASE p = q
      <4>1. CASE q \in DOMAIN comm_pin_tree
        <5>1. /\ comm_pin_tree[q].count \in Int /\ comm_pin_tree[q].count >= 1
              /\ ~comm_pin_tree[q].freed
              /\ q \notin raced => comm_pin_tree[q].count = Cardinality(Users(live, conns, q))
          BY <1>3, <4>1 DEF InvPins
        <5> QED BY <2>1, <2>3, <2>4, <2>5, <2>7, <3>1, <4>1, <5>1
      <4>2. CASE q \notin DOMAIN comm_pin_tree
        BY <2>1, <2>3, <2>4, <2>5, <2>6, <2>7, <3>1, <4>2
      <4> QED BY <4>1, <4>2
    <3>2. CASE p # q
      BY <2>1, <2>4, <2>5, <2>7, <2>8, <3>2 DEF InvPins
    <3> QED BY <3>1, <3>2
  <2>9. \A c \in live' :
          conns'[c].pin_key.handler = Lih /\ conns'[c].pin_key \notin raced' =>
            conns'[c].pin_key \in DOMAIN comm_pin_tree'
    BY <1>2, <2>1, <2>2, <2>4 DEF InvPins
  <2> QED BY <2>8, <2>9 DEF InvPins
<1>6. ASSUME NEW t \in Threads, CreateOut(t) PROVE InvPins'
  <2> DEFINE n == NewId
             q == conns'[n].pin_key
  <2>1. /\ n \notin DOMAIN conns /\ live' = live \cup {n}
        /\ \A d \in DOMAIN conns : conns'[d] = conns[d]
        /\ q = IF CreatePinned(t) THEN OutPin(pkt[t]) ELSE NoPin
    BY <1>6, CreateOutFacts, AllocateKeeps
  <2>2. \A p : Cardinality(Users(live', conns', p)) =
                 Cardinality(Users(live, conns, p)) + (IF q = p THEN 1 ELSE 0)
    BY <1>2, <2>1, UserAdded
  <2>3. \A p : Cardinality(Users(live, conns, p)) \in Nat
    BY UsersFacts
  <2>4. /\ DOMAIN comm_pin_tree' = DOMAIN comm_pin_tree /\ raced \subseteq raced'
        /\ \A x \in DOMAIN comm_pin_tree \ {q} : comm_pin_tree'[x] = comm_pin_tree[x]
        /\ \/ q.handler # Lih /\ comm_pin_tree' = comm_pin_tree
           \/ /\ q \in DOMAIN comm_pin_tree =>
                   /\ comm_pin_tree'[q].freed = comm_pin_tree[q].freed
                   /\ comm_pin_tree[q].count >= 1 => comm_pin_tree'[q].count >= 1
              /\ q \notin raced' =>
                   q \in DOMAIN comm_pin_tree /\ comm_pin_tree'[q].count = comm_pin_tree[q].count + 1
    <3>1. CASE CreatePinned(t)
      <4>1. q = OutPin(pkt[t])
        BY <2>1, <3>1
      <4>2. pkt[t].src \in Pots
        BY <1>6, CreateOutFacts, FlowFacts
      <4>3. UsesTargetPin(pkt[t]) => q.handler # Lih
        BY <4>1, <4>2, ConnectionsAssumption DEF OutPin, UsesTargetPin, PinKey, Pots
      <4> HIDE DEF q
      <4>4. q \in DOMAIN comm_pin_tree => comm_pin_tree[q].count \in Int
        BY <1>3
      <4>5. /\ DOMAIN comm_pin_tree' = DOMAIN comm_pin_tree /\ raced \subseteq raced'
            /\ \A x \in DOMAIN comm_pin_tree \ {q} : comm_pin_tree'[x] = comm_pin_tree[x]
        BY <3>1, <4>1, OutPinFacts
      <4>6. CASE UsesTargetPin(pkt[t])
        BY <3>1, <4>3, <4>5, <4>6, OutPinFacts
      <4>7. CASE ~UsesTargetPin(pkt[t])
        <5>1. q \in DOMAIN comm_pin_tree =>
                /\ comm_pin_tree'[q].freed = comm_pin_tree[q].freed
                /\ \/ comm_pin_tree'[q].count
                         \in {comm_pin_tree[q].count, comm_pin_tree[q].count + 1}
                   \/ comm_pin_tree'[q].count - 1 \in Nat /\ comm_pin_tree'[q].count - 1 >= 1
          BY <3>1, <4>1, <4>7, OutPinFacts
        <5>2. q \in DOMAIN comm_pin_tree => comm_pin_tree'[q].count \in Int
          <6>1. Typed(comm_pin_tree')
            BY <3>1, OutPinFacts
          <6> QED BY <4>5, <6>1 DEF Typed, PinRecords
        <5>3. q \notin raced' =>
                q \in DOMAIN comm_pin_tree /\ comm_pin_tree'[q].count = comm_pin_tree[q].count + 1
          BY <3>1, <4>1, <4>7, OutPinFacts
        <5>4. q \in DOMAIN comm_pin_tree /\ comm_pin_tree[q].count >= 1 =>
                comm_pin_tree'[q].count >= 1
          BY <4>4, <5>1, <5>2
        <5> QED BY <4>5, <5>1, <5>3, <5>4
      <4> QED BY <4>6, <4>7
    <3>2. CASE ~CreatePinned(t)
      <4>1. q.handler # Lih
        BY <2>1, <3>2, ConnectionsAssumption DEF NoPin, Pots
      <4>2. UNCHANGED pins
        BY <1>6, <3>2 DEF CreateOut, CreateUnpinned
      <4> HIDE DEF q
      <4> QED BY <4>1, <4>2 DEF pins
    <3> QED BY <3>1, <3>2
  <2> HIDE DEF n, q
  <2>5. ASSUME NEW p \in DOMAIN comm_pin_tree'
        PROVE  /\ p.handler = Lih /\ ~comm_pin_tree'[p].freed /\ comm_pin_tree'[p].count >= 1
               /\ p \notin raced' =>
                    comm_pin_tree'[p].count = Cardinality(Users(live', conns', p))
    <3>1. p \in DOMAIN comm_pin_tree
      BY <2>4, <2>5
    <3>2. /\ p.handler = Lih /\ ~comm_pin_tree[p].freed /\ comm_pin_tree[p].count >= 1
          /\ p \notin raced => comm_pin_tree[p].count = Cardinality(Users(live, conns, p))
      BY <3>1 DEF InvPins
    <3>3. CASE p = q
      BY <1>3, <2>2, <2>3, <2>4, <3>1, <3>2, <3>3
    <3>4. CASE p # q
      BY <2>2, <2>3, <2>4, <3>1, <3>2, <3>4
    <3> QED BY <3>3, <3>4
  <2>6. ASSUME NEW c \in live', conns'[c].pin_key.handler = Lih, conns'[c].pin_key \notin raced'
        PROVE  conns'[c].pin_key \in DOMAIN comm_pin_tree'
    <3>1. CASE c = n
      BY <2>4, <2>6, <3>1 DEF q
    <3>2. CASE c # n
      BY <1>2, <2>1, <2>4, <2>6, <3>2 DEF InvPins
    <3> QED BY <3>1, <3>2
  <2> QED BY <2>5, <2>6 DEF InvPins
<1>7. ASSUME NEW c \in todo, CleanOne(c) PROVE InvPins'
  <2> DEFINE q == conns[c].pin_key
  <2>1. conns' = conns /\ live' = live \ {c} /\ c \in live /\ raced' = raced
    BY <1>7, CleanOneFacts
  <2>2. comm_pin_tree' = Unpinned(comm_pin_tree, q)
    BY <1>7 DEF CleanOne
  <2> HIDE DEF q
  <2>3. /\ DOMAIN comm_pin_tree' \subseteq DOMAIN comm_pin_tree
        /\ DOMAIN comm_pin_tree \ {q} \subseteq DOMAIN comm_pin_tree'
        /\ \A p \in DOMAIN comm_pin_tree' \ {q} : comm_pin_tree'[p] = comm_pin_tree[p]
        /\ q \in DOMAIN comm_pin_tree' <=>
             q \in DOMAIN comm_pin_tree /\ comm_pin_tree[q].count # 1
        /\ q \in DOMAIN comm_pin_tree' =>
             /\ comm_pin_tree'[q].count = comm_pin_tree[q].count - 1
             /\ comm_pin_tree'[q].freed = comm_pin_tree[q].freed
    BY <1>3, <2>2, UnpinnedFacts
  <2>4. \A p : p # q => Users(live', conns', p) = Users(live, conns, p)
    BY <2>1 DEF Users, q
  <2>5. /\ Users(live', conns', q) = Users(live, conns, q) \ {c}
        /\ c \in Users(live, conns, q) /\ IsFiniteSet(Users(live, conns, q))
    BY <2>1, UsersFacts DEF Users, q
  <2>6. /\ Cardinality(Users(live', conns', q)) = Cardinality(Users(live, conns, q)) - 1
        /\ IsFiniteSet(Users(live', conns', q))
    BY <2>5, FS_RemoveElement
  <2>7. Cardinality(Users(live, conns, q)) \in Nat
    BY UsersFacts
  <2>8. ASSUME NEW p \in DOMAIN comm_pin_tree'
        PROVE  /\ p.handler = Lih /\ ~comm_pin_tree'[p].freed /\ comm_pin_tree'[p].count >= 1
               /\ p \notin raced' =>
                    comm_pin_tree'[p].count = Cardinality(Users(live', conns', p))
    <3>1. CASE p = q
      <4>1. /\ p.handler = Lih /\ ~comm_pin_tree'[p].freed /\ comm_pin_tree[q].count >= 1
            /\ q \notin raced => comm_pin_tree[q].count = Cardinality(Users(live, conns, q))
            /\ comm_pin_tree[q].count # 1 /\ comm_pin_tree'[q].count = comm_pin_tree[q].count - 1
            /\ comm_pin_tree[q].count \in Int
        BY <1>3, <2>3, <2>8, <3>1 DEF InvPins
      <4> QED BY <2>1, <2>6, <2>7, <3>1, <4>1
    <3>2. CASE p # q
      BY <2>1, <2>3, <2>4, <2>8, <3>2 DEF InvPins
    <3> QED BY <3>1, <3>2
  <2>9. ASSUME NEW d \in live', conns'[d].pin_key.handler = Lih, conns'[d].pin_key \notin raced'
        PROVE  conns'[d].pin_key \in DOMAIN comm_pin_tree'
    <3>1. conns[d].pin_key \in DOMAIN comm_pin_tree
      BY <2>1, <2>9 DEF InvPins
    <3>2. CASE conns[d].pin_key # q
      BY <2>1, <2>3, <3>1, <3>2
    <3>3. CASE conns[d].pin_key = q
      <4>1. d \in Users(live', conns', q)
        BY <2>1, <2>9, <3>3 DEF Users
      <4>2. Cardinality(Users(live', conns', q)) # 0
        BY <2>6, <4>1, FS_EmptySet
      <4>3. comm_pin_tree[q].count = Cardinality(Users(live, conns, q))
        BY <2>1, <2>9, <3>1, <3>3 DEF InvPins
      <4> QED BY <2>1, <2>3, <2>6, <2>7, <3>1, <3>3, <4>2, <4>3
    <3> QED BY <3>2, <3>3
  <2> QED BY <2>8, <2>9 DEF InvPins
<1> QED BY <1>4, <1>5, <1>6, <1>7, StepCases

-----------------------------------------------------------------------------
(* The invariant holds from the start on, and gives the properties.        *)

LEMMA InitHolds ==
  ASSUME Init
  PROVE  IInv
<1>1. InvConns
  <2>1. conns = [x \in {} |-> 0] /\ live = {} /\ 1 .. 0 = {} /\ 0 \in 0 .. MaxConns
    BY ConnectionsAssumption DEF Init, Empty
  <2>2. conns \in [1 .. 0 -> Records] /\ DOMAIN conns = {}
    BY <2>1
  <2> QED BY <2>1, <2>2 DEF InvConns
<1>2. InvThreads
  BY ConnectionsAssumption DEF Init, InvThreads, Seeking, Places, Ids
<1>3. InvTrees /\ InvTodo
  BY DEF Init, Empty, InvTrees, InvTodo
<1>4. InvFiled
  BY DEF Init, Empty, InvFiled
<1>5. InvAddresses /\ InvHand /\ InvPins
  BY DEF Init, Empty, InvAddresses, InvHand, InvPins
<1> QED BY <1>1, <1>2, <1>3, <1>4, <1>5 DEF IInv

(* What the steps leave, stuttering included. *)
LEMMA Inductive ==
  ASSUME IInv, [Next]_vars
  PROVE  IInv'
<1>1. CASE Next
  BY <1>1, ConnsStep, ThreadsStep, TreesStep, TodoStep, FiledStep, AddressesStep, HandStep,
     PinsStep DEF IInv
<1>2. CASE UNCHANGED vars
  BY <1>2 DEF vars, trees, pins, thread, IInv, InvConns, InvThreads, InvTrees, InvTodo, InvFiled,
              InvAddresses, InvHand, InvPins, Found, OutPin, UsesTargetPin
<1> QED BY <1>1, <1>2

LEMMA Invariance == Spec => []IInv
<1>1. Init => IInv
  BY InitHolds
<1>2. IInv /\ [Next]_vars => IInv'
  BY Inductive
<1> QED BY <1>1, <1>2, PTL DEF Spec

(* Every variable keeps its type, and no frontend pin is freed or counted  *)
(* below one while it is in its tree: create_conn(), remove_conn().        *)
THEOREM TypeCorrect == Spec => []TypeOK
<1>1. ASSUME IInv PROVE TypeOK
  <2> USE <1>1 DEF IInv
  <2>1. PICK n \in 0 .. MaxConns : conns \in [1 .. n -> Records]
    BY DEF InvConns
  <2>2. DOMAIN conns \subseteq Ids /\ live \subseteq DOMAIN conns
    BY <2>1, ConnectionsAssumption DEF InvConns, Ids
  <2>3. /\ \A tree \in {ext_tree1, ext_tree2, int_tree1, int_tree2} : Values(tree) \subseteq live
    BY DEF InvTrees, Values
  <2>4. \A c \in live : /\ conns[c].ext_key \in Keys /\ conns[c].int_key \in Keys
                        /\ conns[c].redirected_int_key \in Keys
    <3> SUFFICES ASSUME NEW c \in live
                 PROVE  /\ conns[c].ext_key \in Keys /\ conns[c].int_key \in Keys
                        /\ conns[c].redirected_int_key \in Keys
      OBVIOUS
    <3>1. conns[c] \in Records
      BY <2>2, RecordFacts
    <3> QED BY <3>1 DEF Records
  <2>5. \A tree \in {ext_tree1, ext_tree2, int_tree1, int_tree2} : DOMAIN tree \subseteq Keys
    BY <2>4 DEF InvTrees
  <2>6. \A p \in DOMAIN comm_pin_tree :
          comm_pin_tree[p].count \in Nat \ {0} /\ ~comm_pin_tree[p].freed
    BY DEF InvPins, InvAddresses, PinRecords
  <2>7. Flows \cup {NoKey} \subseteq Keys
    BY FlowFacts DEF Keys
  <2>8. /\ locked \in [Ids -> Threads \cup {None}] /\ pc \in [Threads -> Places]
        /\ pkt \in [Threads -> Keys] /\ cur \in [Threads -> 0 .. MaxConns]
    BY <2>7 DEF InvThreads
  <2>9. connlock \in {None, "clean"} /\ todo \subseteq Ids
    BY <2>2 DEF InvTodo
  <2> QED BY <2>2, <2>3, <2>5, <2>6, <2>8, <2>9 DEF TypeOK
<1> QED BY <1>1, Invariance, PTL

(* remove_conn() takes a connection out of every tree that knows it before *)
(* it frees it: what a tree finds, or the cleaner has collected, is alive. *)
THEOREM NothingDangles == Spec => []NoDangling
<1>1. ASSUME IInv PROVE NoDangling
  BY <1>1 DEF IInv, InvTrees, InvTodo, NoDangling, Values
<1> QED BY <1>1, Invariance, PTL

(* The connection of a decision thread stays alive and locked by it, from  *)
(* conn_lookup() or create_conn() to the end of the turn of de_thread().   *)
THEOREM HeldStaysLive == Spec => []HeldLive
<1>1. ASSUME IInv PROVE HeldLive
  BY <1>1 DEF IInv, InvThreads, HeldLive
<1> QED BY <1>1, Invariance, PTL

(* conn_lookup() never waits for conn->lock while it holds connlock: the   *)
(* packets of a connection all come to one thread.                         *)
THEOREM LookupNeverBlocks == Spec => []NeverBlocks
<1>1. ASSUME IInv PROVE NeverBlocks
  BY <1>1, FoundFree DEF IInv, NeverBlocks
<1> QED BY <1>1, Invariance, PTL

(* Where two honeypots do not use one pair of ports towards a host, no two *)
(* live connections are known to EXT under one key, although connlock is   *)
(* released between conn_lookup() and the insertion of create_conn().      *)
THEOREM FlowsAreUnique == PortsApart => (Spec => []UniqueFlow)
<1> SUFFICES ASSUME PortsApart PROVE Spec => []UniqueFlow
  OBVIOUS
<1>1. ASSUME IInv PROVE UniqueFlow
  <2> USE <1>1 DEF IInv
  <2> SUFFICES ASSUME NEW c \in live, NEW d \in live, c # d,
                      (conns[c].initiator = "EXT") = (conns[d].initiator = "EXT"),
                      conns[c].ext_key = conns[d].ext_key
               PROVE  FALSE
    BY DEF UniqueFlow
  <2>1. CASE conns[c].initiator = "EXT"
    BY <2>1 DEF InvFiled
  <2>2. CASE conns[c].initiator # "EXT"
    <3>1. Inside(conns[c]) /\ Inside(conns[d]) /\ conns[d].initiator # "EXT"
      BY <2>2 DEF InvConns
    <3>2. conns[c].int_key = conns[d].int_key
      BY <3>1 DEF Inside, PortsApart, FromExt
    <3>3. CASE \E t \in Threads : cur[t] = c /\ pc[t] = "insert"
      <4>1. PICK t \in Threads : cur[t] = c /\ pc[t] = "insert"
        BY <3>3
      <4>2. conns[c].int_key = pkt[t] /\ pkt[t] \notin DOMAIN int_tree1
        BY <4>1 DEF InvFiled
      <4>3. PICK u \in Threads : cur[u] = d /\ pc[u] = "insert"
        BY <3>1, <3>2, <4>2 DEF InvFiled
      <4>4. pkt[u] = pkt[t]
        BY <3>2, <4>2, <4>3 DEF InvFiled
      <4> QED BY <4>1, <4>3, <4>4 DEF InvThreads
    <3>4. CASE \A t \in Threads : cur[t] = c => pc[t] # "insert"
      <4>1. conns[c].int_key \in DOMAIN int_tree1 /\ int_tree1[conns[c].int_key] = c
        BY <2>2, <3>4 DEF InvFiled
      <4>2. PICK u \in Threads : cur[u] = d /\ pc[u] = "insert"
        BY <3>1, <3>2, <4>1 DEF InvFiled
      <4> QED BY <3>2, <4>1, <4>2 DEF InvFiled
    <3> QED BY <3>3, <3>4
  <2> QED BY <2>1, <2>2
<1> QED BY <1>1, Invariance, PTL

(* A frontend pin is in its tree as long as live connections hold it and   *)
(* counts them, over create_conn() from both sides and remove_conn() in    *)
(* any interleaving, with exclusive HIHs or without, for every pin that no *)
(* other thread changed between the unlocked lookup and count++ of         *)
(* create_conn().                                                          *)
THEOREM PinsAreCounted == Spec => []PinCounts
<1>1. ASSUME IInv PROVE PinCounts
  <2> USE <1>1 DEF IInv
  <2> SUFFICES ASSUME NEW p \in ({conns[c].pin_key : c \in live} \cup DOMAIN comm_pin_tree) \ raced,
                      p.handler = Lih
               PROVE  /\ p \in DOMAIN comm_pin_tree
                      /\ comm_pin_tree[p].count = Cardinality({c \in live : conns[c].pin_key = p})
    BY DEF PinCounts
  <2>1. p \in DOMAIN comm_pin_tree
    BY DEF InvPins
  <2>2. Users(live, conns, p) = {c \in live : conns[c].pin_key = p}
    BY DEF Users
  <2> QED BY <2>1, <2>2 DEF InvPins
<1> QED BY <1>1, Invariance, PTL

-----------------------------------------------------------------------------
(* Replies.                                                                *)

(* Every live connection from EXT is under both of its keys in ext_tree2. *)
InvReplies ==
  \A c \in live : conns[c].initiator = "EXT" =>
    /\ conns[c].int_key \in DOMAIN ext_tree2 /\ ext_tree2[conns[c].int_key] = c
    /\ conns[c].redirected_int_key # NoKey =>
         conns[c].redirected_int_key \in DOMAIN ext_tree2 /\ ext_tree2[conns[c].redirected_int_key] = c

(* The keys of two connections from EXT differ: the host or its port does. *)
LEMMA ReplyKeysApart ==
  ASSUME OneAttack, IInv, NEW c \in live, NEW d \in live, c # d,
         conns[c].initiator = "EXT", conns[d].initiator = "EXT",
         NEW x \in RedirectionKeys(conns[c]) \cup {conns[c].int_key},
         NEW y \in RedirectionKeys(conns[d]) \cup {conns[d].int_key}
  PROVE  x # y
<1>1. Outside(conns[c]) /\ Outside(conns[d])
  BY DEF IInv, InvConns
<1>2. conns[c].ext_key # conns[d].ext_key
  BY DEF IInv, InvFiled
<1>3. ~(conns[c].ext_key.src = conns[d].ext_key.src /\ conns[c].ext_key.port = conns[d].ext_key.port)
  BY <1>1, <1>2 DEF OneAttack, Outside, FromExt
<1>4. /\ x.dst = conns[c].ext_key.src /\ x.port = conns[c].ext_key.port
      /\ y.dst = conns[d].ext_key.src /\ y.port = conns[d].ext_key.port
  BY <1>1 DEF Outside, RedirectionKeys, Key
<1> QED BY <1>3, <1>4

(* The same for a connection that CreateExt is about to create. *)
LEMMA NewKeyApart ==
  ASSUME OneAttack, IInv, NEW t \in Threads, CreateExt(t), NEW d \in live,
         conns[d].initiator = "EXT",
         NEW y \in RedirectionKeys(conns[d]) \cup {conns[d].int_key}
  PROVE  Key(Lih, pkt[t].src, pkt[t].port) # y
<1> DEFINE k == pkt[t]
<1>1. k \in Flows \cap Opening /\ FromExt(k) /\ pc[t] = "create"
  BY CreateExtFacts DEF IInv
<1>2. Outside(conns[d])
  BY DEF IInv, InvConns
<1>3. k # conns[d].ext_key
  BY <1>1 DEF IInv, InvFiled
<1> HIDE DEF k
<1>4. ~(k.src = conns[d].ext_key.src /\ k.port = conns[d].ext_key.port)
  BY <1>1, <1>2, <1>3 DEF OneAttack, Outside, FromExt
<1>5. y.dst = conns[d].ext_key.src /\ y.port = conns[d].ext_key.port
  BY <1>2 DEF Outside, RedirectionKeys, Key
<1>6. Key(Lih, k.src, k.port).dst = k.src /\ Key(Lih, k.src, k.port).port = k.port
  BY DEF Key
<1> QED BY <1>4, <1>5, <1>6 DEF k

LEMMA RepliesStep ==
  ASSUME OneAttack, IInv, InvReplies, Next
  PROVE  InvReplies'
<1> USE DEF IInv
<1>1. \A d \in DOMAIN conns : Same(d)
  BY ConnsStep
<1>2. live \subseteq DOMAIN conns
  BY DEF InvConns
<1>3. ASSUME \/ \E t \in Threads : Quiet(t) \/ InsertOut(t)
             \/ \E c \in DOMAIN conns : Age(c)
             \/ CleanQuiet
      PROVE  InvReplies'
  <2>1. UNCHANGED <<live, ext_tree2>>
    BY <1>3, QuietFacts DEF InsertOut, trees
  <2>2. \A d \in live : conns'[d].redirected_int_key = conns[d].redirected_int_key
    BY <1>2, <1>3, QuietFacts DEF InsertOut
  <2> QED BY <1>1, <1>2, <2>1, <2>2 DEF InvReplies, Same
<1>4. ASSUME NEW t \in Threads, CreateExt(t) PROVE InvReplies'
  <2> DEFINE n == NewId
             k == pkt[t]
             r == Key(Lih, k.src, k.port)
  <2>1. k \in Flows \cap Opening /\ FromExt(k) /\ ext_tree2' = Insert(ext_tree2, r, n)
    BY <1>4, CreateExtFacts
  <2>2. /\ n \notin DOMAIN conns /\ live' = live \cup {n} /\ conns'[n] = NewExt(k)
        /\ \A d \in DOMAIN conns : conns'[d] = conns[d]
    BY <1>4, <2>1, CreateExtFacts, NewExtFacts, AllocateKeeps
  <2>3. conns'[n].int_key = r /\ conns'[n].redirected_int_key = NoKey
    BY <2>1, <2>2, NewExtFacts
  <2>4. ASSUME NEW d \in live, conns[d].initiator = "EXT",
               NEW y \in RedirectionKeys(conns[d]) \cup {conns[d].int_key}
        PROVE  r # y
    BY <1>4, <2>4, NewKeyApart
  <2> HIDE DEF n, k, r
  <2>5. /\ DOMAIN ext_tree2' = DOMAIN ext_tree2 \cup {r} /\ ext_tree2'[r] = n
        /\ \A x \in DOMAIN ext_tree2 : x # r => ext_tree2'[x] = ext_tree2[x]
    BY <2>1 DEF Insert
  <2>6. ASSUME NEW d \in live, conns[d].initiator = "EXT"
        PROVE  /\ conns[d].int_key # r
               /\ conns[d].redirected_int_key # NoKey => conns[d].redirected_int_key # r
    <3>1. Outside(conns[d])
      BY <1>2, <2>6 DEF InvConns
    <3> QED BY <2>4, <2>6, <3>1 DEF Outside
  <2> QED BY <1>2, <2>2, <2>3, <2>5, <2>6 DEF InvReplies
<1>5. ASSUME NEW t \in Threads, CreateOut(t) PROVE InvReplies'
  <2>1. /\ NewId \notin DOMAIN conns /\ live' = live \cup {NewId}
        /\ conns'[NewId].initiator # "EXT"
        /\ \A d \in DOMAIN conns : conns'[d] = conns[d]
    BY <1>5, CreateOutFacts, AllocateKeeps
  <2>2. ext_tree2' = ext_tree2
    BY <1>5, CreateOutFacts DEF trees
  <2> QED BY <1>2, <2>1, <2>2 DEF InvReplies
<1>6. ASSUME NEW t \in Threads, Redirect(t) PROVE InvReplies'
  <2> DEFINE c == cur[t]
             h == hand[t].key.handler
             k == Key(h, conns[c].ext_key.src, conns[c].ext_key.port)
  <2>1. live' = live
    BY <1>6 DEF Redirect
  <2>2. /\ c \in live /\ conns[c].initiator = "EXT" /\ k # NoKey
        /\ conns'[c].redirected_int_key = k /\ ext_tree2' = Insert(ext_tree2, k, c)
        /\ \A d \in DOMAIN conns : Same(d) /\ (d # c => conns'[d] = conns[d])
    BY <1>6, RedirectFacts
  <2>3. k \in RedirectionKeys(conns[c])
    BY <1>6, RedirectFacts DEF RedirectionKeys
  <2> HIDE DEF c, k
  <2>4. /\ DOMAIN ext_tree2' = DOMAIN ext_tree2 \cup {k} /\ ext_tree2'[k] = c
        /\ \A x \in DOMAIN ext_tree2 : x # k => ext_tree2'[x] = ext_tree2[x]
    BY <2>2 DEF Insert
  <2>5. ASSUME NEW d \in live, conns[d].initiator = "EXT", d # c
        PROVE  /\ conns[d].int_key # k
               /\ conns[d].redirected_int_key # NoKey => conns[d].redirected_int_key # k
    <3>1. Outside(conns[d])
      BY <1>2, <2>5 DEF InvConns
    <3> QED BY <2>2, <2>3, <2>5, <3>1, ReplyKeysApart DEF Outside
  <2>6. ASSUME NEW d \in live', conns'[d].initiator = "EXT"
        PROVE  /\ conns'[d].int_key \in DOMAIN ext_tree2' /\ ext_tree2'[conns'[d].int_key] = d
               /\ conns'[d].redirected_int_key # NoKey =>
                    /\ conns'[d].redirected_int_key \in DOMAIN ext_tree2'
                    /\ ext_tree2'[conns'[d].redirected_int_key] = d
    <3>1. CASE d = c
      <4>1. conns'[c].int_key = conns[c].int_key
        BY <1>2, <2>2 DEF Same
      <4>2. conns[c].int_key \in DOMAIN ext_tree2 /\ ext_tree2[conns[c].int_key] = c
        BY <2>2 DEF InvReplies
      <4> QED BY <2>2, <2>4, <3>1, <4>1, <4>2
    <3>2. CASE d # c
      <4>1. conns'[d] = conns[d] /\ d \in live
        BY <1>2, <2>1, <2>2, <3>2
      <4> QED BY <2>4, <2>5, <2>6, <3>2, <4>1 DEF InvReplies
    <3> QED BY <3>1, <3>2
  <2> QED BY <2>6 DEF InvReplies
<1>7. ASSUME NEW c \in todo, CleanOne(c) PROVE InvReplies'
  <2>1. conns' = conns /\ live' = live \ {c} /\ c \in live
    BY <1>7, CleanOneFacts
  <2>2. CASE conns[c].initiator # "EXT"
    <3>1. ext_tree2' = ext_tree2
      BY <1>7, <2>2 DEF CleanOne, ReplyTreeWithout
    <3> QED BY <2>1, <3>1 DEF InvReplies
  <2>3. CASE conns[c].initiator = "EXT"
    <3>1. ext_tree2' = Remove(Remove(ext_tree2, conns[c].int_key), conns[c].redirected_int_key)
      BY <1>7, <2>3 DEF CleanOne, ReplyTreeWithout
    <3>2. /\ DOMAIN ext_tree2' = DOMAIN ext_tree2 \ {conns[c].int_key, conns[c].redirected_int_key}
          /\ \A x \in DOMAIN ext_tree2' : ext_tree2'[x] = ext_tree2[x]
      BY <3>1 DEF Remove
    <3>3. ASSUME NEW d \in live, conns[d].initiator = "EXT", d # c,
                 NEW y \in {conns[d].int_key, conns[d].redirected_int_key}, y # NoKey
          PROVE  y \notin {conns[c].int_key, conns[c].redirected_int_key}
      <4>1. Outside(conns[d]) /\ Outside(conns[c])
        BY <1>2, <2>1, <2>3, <3>3 DEF InvConns
      <4>2. y \in RedirectionKeys(conns[d]) \cup {conns[d].int_key}
        BY <3>3, <4>1 DEF Outside
      <4>3. \A x \in RedirectionKeys(conns[c]) \cup {conns[c].int_key} : x # y
        BY <2>1, <2>3, <3>3, <4>2, ReplyKeysApart
      <4> QED BY <3>3, <4>1, <4>3 DEF Outside
    <3>4. ASSUME NEW d \in live, conns[d].initiator = "EXT" PROVE conns[d].int_key # NoKey
      <4>1. conns[d].int_key = Key(Lih, conns[d].ext_key.src, conns[d].ext_key.port)
        BY <1>2, <3>4 DEF InvConns, Outside
      <4>2. conns[d].int_key.src = Lih /\ NoKey.src = None /\ Lih # None
        BY <4>1, ConnectionsAssumption DEF Key, NoKey, Pots
      <4> QED BY <4>2
    <3> QED BY <2>1, <3>2, <3>3, <3>4 DEF InvReplies
  <2> QED BY <2>2, <2>3
<1> QED BY <1>3, <1>4, <1>5, <1>6, <1>7, StepCases

(* Where a host does not attack two addresses from one port, a connection  *)
(* from EXT is found by the replies of the LIH and, once setup_redirection *)
(* has run, by those of the HIH, for as long as it lives.                  *)
THEOREM RepliesAreFound == OneAttack => (Spec => []RepliesFound)
<1> SUFFICES ASSUME OneAttack PROVE Spec => []RepliesFound
  OBVIOUS
<1>1. Init => InvReplies
  BY DEF Init, InvReplies
<1>2. ASSUME IInv, InvReplies, [Next]_vars PROVE InvReplies'
  <2>1. CASE Next
    BY <1>2, <2>1, RepliesStep
  <2>2. CASE UNCHANGED vars
    BY <1>2, <2>2 DEF vars, trees, InvReplies
  <2> QED BY <1>2, <2>1, <2>2
<1>3. ASSUME IInv, InvReplies PROVE RepliesFound
  BY <1>3 DEF IInv, InvTrees, InvReplies, RepliesFound, Values
<1> QED BY <1>1, <1>2, <1>3, Invariance, PTL DEF Spec

=============================================================================
