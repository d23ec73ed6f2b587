----------------------------- MODULE Connections -----------------------------
(***************************************************************************)
(* The connection table: the trees that find a connection by the addresses *)
(* of a packet, the pins that remember under which address a honeypot is   *)
(* known, the decision threads that look up, create, update and redirect   *)
(* connections, and the cleaner that removes idle ones.                    *)
(*                                                                         *)
(* A key is protocol, addresses, ports and VLAN in the program; here the   *)
(* pair of ports is one value, common to both directions of a session, and *)
(* a honeypot's name stands for its address and VLAN.  Connections between *)
(* honeypots (the intra trees) are module Outbound's.  A tree operation is *)
(* one step: what a race on a tree may do to it is not modelled.           *)
(***************************************************************************)
EXTENDS Integers, FiniteSets

CONSTANTS
  Hosts,         \* external hosts
  Lih,           \* the frontend of the target
  Hihs,          \* its backends
  DefaultIp,     \* the address of the default route
  Threads,       \* the decision threads
  Home,          \* the thread of each host: its address chooses the queue
  ExtFlows,      \* packets that hosts may send: keys
  PotFlows,      \* packets that honeypots may send: keys
  Opening,       \* those that may open a connection (a TCP SYN, a UDP datagram)
  ExclusiveHih,  \* the exclusive_hih setting
  MaxConns       \* bound: connections created

None == "none"
Pots == {Lih} \cup Hihs
Key(src, dst, port) == [src |-> src, dst |-> dst, port |-> port]
NoKey == Key(None, None, 0)
NoPin == [handler |-> None, target |-> None]

ASSUME ConnectionsAssumption ==
  /\ None \notin Threads /\ "clean" \notin Threads
  /\ Home \in [Hosts -> Threads]
  /\ \A k \in ExtFlows \cup PotFlows : k = Key(k.src, k.dst, k.port)
  /\ \A k \in ExtFlows : k.src \in Hosts
  /\ \A k \in PotFlows : k.src \in Pots /\ k.dst \in Hosts
  /\ Opening \subseteq ExtFlows \cup PotFlows
  /\ Lih \notin Hihs /\ Hosts \cap Pots = {} /\ None \notin Hosts \cup Pots
  /\ ExclusiveHih \in BOOLEAN
  /\ MaxConns \in Nat

VARIABLES
  conns,            \* every connection ever created, by id
  live,             \* the ids not freed
  locked,           \* who holds conn->lock
  ext_tree1, ext_tree2, int_tree1, int_tree2,
  comm_pin_tree, target_pin_tree,
  connlock,         \* who holds connlock between two steps
  pc, pkt, cur,     \* each decision thread: where it is, its packet, its connection
  hand,             \* the pin it has looked up and not yet used, as it was then
  todo,             \* entrytoclean
  raced             \* ghost: frontend pins that changed between lookup and use

trees == <<ext_tree1, ext_tree2, int_tree1, int_tree2>>
pins == <<comm_pin_tree, target_pin_tree, raced>>
thread == <<pc, pkt, cur, hand>>
vars == <<conns, live, locked, trees, pins, connlock, thread, todo>>

Ids == 1 .. MaxConns
PinKey(handler, target) == [handler |-> handler, target |-> target]

(* A pin.  The code has ip and count; by is the connection that allocated  *)
(* it, writes the number of changes, freed whether free_pin() was called.  *)
Pin(ip, c) == [ip |-> ip, count |-> 1, by |-> c, writes |-> 1, freed |-> FALSE]
NoHand == [key |-> NoPin, pin |-> Pin(None, 0)]

Addresses == Pots \cup Hosts \cup {DefaultIp} \cup {k.dst : k \in ExtFlows}

(* GTree: an insertion replaces the value under an equal key. *)
Insert(tree, k, v) == [x \in DOMAIN tree \cup {k} |-> IF x = k THEN v ELSE tree[x]]
Remove(tree, k) == [x \in DOMAIN tree \ {k} |-> tree[x]]
Values(tree) == {tree[k] : k \in DOMAIN tree}

FromExt(k) == k.src \in Hosts
Initiator(k) == IF FromExt(k) THEN "EXT" ELSE IF k.src = Lih THEN "LIH" ELSE "HIH"

(* Slip: the source address chooses the queue on every link. *)
HandledByBySource(k) ==
  IF FromExt(k) THEN Home[k.src] ELSE CHOOSE t \in Threads : t # Home[k.dst]

(* IP2QUEUEID: both directions of a session go to the host's thread. *)
HandledBy(k) == Home[IF FromExt(k) THEN k.src ELSE k.dst]

-----------------------------------------------------------------------------
(* A decision thread takes a packet. *)
Receive(t, k) ==
  /\ pc[t] = "idle"
  /\ HandledBy(k) = t
  /\ pc' = [pc EXCEPT ![t] = "lookup"]
  /\ pkt' = [pkt EXCEPT ![t] = k]
  /\ UNCHANGED <<conns, live, locked, trees, pins, connlock, cur, hand, todo>>

(* Slip: the connections that honeypots opened are not looked for. *)
FoundExternal(k) ==
  IF FromExt(k)
  THEN IF k \in DOMAIN ext_tree1 THEN ext_tree1[k] ELSE 0
  ELSE IF k \in DOMAIN ext_tree2 THEN ext_tree2[k] ELSE 0

(* conn_lookup(): the trees of a packet's origin, in order; 0 is a failure. *)
Found(k) ==
  LET first == IF FromExt(k) THEN ext_tree1 ELSE ext_tree2
      second == IF FromExt(k) THEN int_tree2 ELSE int_tree1
  IN IF k \in DOMAIN first THEN first[k]
     ELSE IF k \in DOMAIN second THEN second[k] ELSE 0

(* conn_lookup(): conn->lock is taken before connlock is released. *)
Lookup(t) ==
  LET c == Found(pkt[t]) IN
  /\ pc[t] = "lookup"
  /\ connlock = None
  /\ c # 0 => locked[c] = None
  /\ locked' = IF c = 0 THEN locked ELSE [locked EXCEPT ![c] = t]
  /\ cur' = [cur EXCEPT ![t] = c]
  /\ pc' = [pc EXCEPT ![t] = IF c = 0 THEN "create" ELSE "update"]
  /\ UNCHANGED <<conns, live, trees, pins, connlock, pkt, hand, todo>>

(* update_conn(): the access time. *)
Update(t) ==
  /\ pc[t] = "update"
  /\ conns' = [conns EXCEPT ![cur[t]].fresh = TRUE]
  /\ pc' = [pc EXCEPT ![t] = "process"]
  /\ UNCHANGED <<live, locked, trees, pins, connlock, pkt, cur, hand, todo>>

(* create_conn(): a TCP packet without SYN opens no connection. *)
Skip(t) ==
  /\ pc[t] = "create"
  /\ pc' = [pc EXCEPT ![t] = "idle"]
  /\ pkt' = [pkt EXCEPT ![t] = NoKey]
  /\ UNCHANGED <<conns, live, locked, trees, pins, connlock, cur, hand, todo>>

-----------------------------------------------------------------------------
(* create_conn().                                                          *)

Conn(k, ext_key, int_key, pin_key, pin_ip) ==
  [initiator |-> Initiator(k), ext_key |-> ext_key, int_key |-> int_key,
   redirected_int_key |-> NoKey, pin_key |-> pin_key, pin_ip |-> pin_ip,
   target_pin_key |-> NoPin, fresh |-> TRUE]

NewId == Cardinality(DOMAIN conns) + 1

Allocate(t, conn) ==
  /\ NewId <= MaxConns
  /\ conns' = Insert(conns, NewId, conn)
  /\ live' = live \cup {NewId}
  /\ locked' = [locked EXCEPT ![NewId] = t]
  /\ cur' = [cur EXCEPT ![t] = NewId]

Counted(tree, k, n) == [tree EXCEPT ![k].count = n, ![k].writes = @ + 1]

(* Slip: a pin that exists is not counted again. *)
PinnedOnce(tree, k, ip) == IF k \in DOMAIN tree THEN tree ELSE Insert(tree, k, Pin(ip, NewId))

(* One more user of the pin k, which is created for ip if need be. *)
Pinned(tree, k, ip) ==
  IF k \in DOMAIN tree THEN Counted(tree, k, tree[k].count + 1)
  ELSE Insert(tree, k, Pin(ip, NewId))

(* A new connection from EXT: both trees and the pin of the frontend, all  *)
(* under connlock.                                                         *)
CreateExt(t) ==
  LET k == pkt[t]
      conn == Conn(k, k, Key(Lih, k.src, k.port), PinKey(Lih, k.dst), 0)
  IN /\ pc[t] = "create" /\ FromExt(k) /\ k \in Opening
     /\ connlock = None
     /\ Allocate(t, conn)
     /\ ext_tree1' = Insert(ext_tree1, conn.ext_key, NewId)
     /\ ext_tree2' = Insert(ext_tree2, conn.int_key, NewId)
     /\ comm_pin_tree' = Pinned(comm_pin_tree, conn.pin_key, k.dst)
     /\ pc' = [pc EXCEPT ![t] = "done"]
     /\ UNCHANGED <<int_tree1, int_tree2, target_pin_tree, raced, connlock, pkt, hand, todo>>

(* The pin a honeypot's new connection is sent under: of the HIH itself    *)
(* when HIHs are exclusive, otherwise of the frontend and the destination. *)
UsesTargetPin(k) == ExclusiveHih /\ k.src # Lih
OutPin(k) == IF UsesTargetPin(k) THEN PinKey(k.src, None) ELSE PinKey(Lih, k.dst)
OutPinTree(k) == IF UsesTargetPin(k) THEN target_pin_tree ELSE comm_pin_tree

(* A new connection from a honeypot to which no pin applies: it is sent    *)
(* under the address of the default route.                                 *)
CreateUnpinned(t) ==
  LET k == pkt[t] IN
  /\ pc[t] = "create" /\ ~FromExt(k) /\ k \in Opening
  /\ OutPin(k) \notin DOMAIN OutPinTree(k)
  /\ Allocate(t, Conn(k, Key(k.dst, DefaultIp, k.port), k, NoPin, 0))
  /\ pc' = [pc EXCEPT ![t] = "insert"]
  /\ UNCHANGED <<trees, pins, connlock, pkt, hand, todo>>

(* One to which a pin applies: the pin is looked up without connlock, ... *)
LookupPin(t) ==
  LET k == pkt[t]
      p == OutPin(k)
  IN /\ pc[t] = "create" /\ ~FromExt(k) /\ k \in Opening
     /\ p \in DOMAIN OutPinTree(k)
     /\ hand' = [hand EXCEPT ![t] = [key |-> p, pin |-> OutPinTree(k)[p]]]
     /\ pc' = [pc EXCEPT ![t] = "pinned"]
     /\ UNCHANGED <<conns, live, locked, trees, pins, connlock, pkt, cur, todo>>

(* Nobody has freed or changed the pin in t's hand. *)
InPlace(t, tree) ==
  LET p == hand[t].key
  IN p \in DOMAIN tree /\ tree[p].by = hand[t].pin.by /\ ~tree[p].freed
Untouched(t, tree) == InPlace(t, tree) /\ tree[hand[t].key] = hand[t].pin

(* pin->ip, of a pin that may have been freed since. *)
PinIp(t, tree) == IF InPlace(t, tree) THEN {hand[t].pin.ip} ELSE Addresses

(* pin->count++ on the pin in t's hand, which is no single step.  When the *)
(* count has changed since the lookup, t may have read it before or after  *)
(* the change, or its own write may be lost.  A write to a freed pin is    *)
(* not seen in the tree; what else it may corrupt is not modelled.         *)
CountedInHand(t, tree) ==
  LET p == hand[t].key
      old == hand[t].pin.count
  IN IF Untouched(t, tree) THEN {Counted(tree, p, old + 1)}
     ELSE IF InPlace(t, tree)
     THEN {Counted(tree, p, n) : n \in {old + 1, tree[p].count + 1, tree[p].count}}
     ELSE {tree}

(* ... its address read and its count raised, still without connlock. *)
CreatePinned(t) ==
  LET k == pkt[t]
      p == hand[t].key
      tree == OutPinTree(k)
  IN /\ pc[t] = "pinned"
     /\ \E snat_to \in PinIp(t, tree) :
          Allocate(t, Conn(k, Key(k.dst, snat_to, k.port), k, p, hand[t].pin.by))
     /\ \E counted \in CountedInHand(t, tree) :
          /\ target_pin_tree' = IF UsesTargetPin(k) THEN counted ELSE target_pin_tree
          /\ comm_pin_tree' = IF UsesTargetPin(k) THEN comm_pin_tree ELSE counted
     /\ raced' = IF Untouched(t, tree) THEN raced ELSE raced \cup {p}
     /\ hand' = [hand EXCEPT ![t] = NoHand]
     /\ pc' = [pc EXCEPT ![t] = "insert"]
     /\ UNCHANGED <<trees, connlock, pkt, todo>>

(* Then it enters the trees, under connlock. *)
InsertOut(t) ==
  /\ pc[t] = "insert"
  /\ connlock = None
  /\ int_tree1' = Insert(int_tree1, conns[cur[t]].int_key, cur[t])
  /\ int_tree2' = Insert(int_tree2, conns[cur[t]].ext_key, cur[t])
  /\ pc' = [pc EXCEPT ![t] = "done"]
  /\ UNCHANGED <<conns, live, locked, ext_tree1, ext_tree2, pins, connlock, pkt, cur, hand, todo>>

-----------------------------------------------------------------------------
(* Slip: the key of the HIH takes the place of that of the LIH. *)
RedirectedTreeInstead(c, k) == Insert(Remove(ext_tree2, conns[c].int_key), k, c)

(* setup_redirection(): replies of the HIH find the connection too. *)
RedirectedTree(c, k) == Insert(ext_tree2, k, c)

(* setup_redirection() on a later packet of EXT, without connlock.  The    *)
(* pin of an exclusive HIH is looked up, ...                               *)
LookupTarget(t, h) ==
  LET c == cur[t]
      p == PinKey(h, None)
      found == p \in DOMAIN target_pin_tree
  IN /\ pc[t] = "process" /\ FromExt(pkt[t])
     /\ conns[c].initiator = "EXT" /\ conns[c].redirected_int_key = NoKey
     /\ hand' = [hand EXCEPT ![t] =
                   [key |-> p, pin |-> IF found THEN target_pin_tree[p] ELSE NoHand.pin]]
     /\ pc' = [pc EXCEPT ![t] = IF ~ExclusiveHih THEN "redirect"
                                ELSE IF found THEN "target" ELSE "new_target"]
     /\ UNCHANGED <<conns, live, locked, trees, pins, connlock, pkt, cur, todo>>

(* ... the HIH refuses when it serves another address, ... *)
RefuseTarget(t) ==
  /\ pc[t] = "target"
  /\ \E ip \in PinIp(t, target_pin_tree) : ip # conns[cur[t]].ext_key.dst
  /\ hand' = [hand EXCEPT ![t] = NoHand]
  /\ pc' = [pc EXCEPT ![t] = "done"]
  /\ UNCHANGED <<conns, live, locked, trees, pins, connlock, pkt, cur, todo>>

(* ... has one more user of its pin, ... *)
CountTarget(t) ==
  /\ pc[t] = "target"
  /\ conns[cur[t]].ext_key.dst \in PinIp(t, target_pin_tree)
  /\ target_pin_tree' \in CountedInHand(t, target_pin_tree)
  /\ conns' = [conns EXCEPT ![cur[t]].target_pin_key = hand[t].key]
  /\ pc' = [pc EXCEPT ![t] = "redirect"]
  /\ UNCHANGED <<live, locked, trees, comm_pin_tree, raced, connlock, pkt, cur, hand, todo>>

(* ... or gets a pin, which replaces one that came after the lookup. *)
NewTarget(t) ==
  /\ pc[t] = "new_target"
  /\ target_pin_tree' =
       Insert(target_pin_tree, hand[t].key, Pin(conns[cur[t]].ext_key.dst, cur[t]))
  /\ conns' = [conns EXCEPT ![cur[t]].target_pin_key = hand[t].key]
  /\ pc' = [pc EXCEPT ![t] = "redirect"]
  /\ UNCHANGED <<live, locked, trees, comm_pin_tree, raced, connlock, pkt, cur, hand, todo>>

(* The connection is entered under the key of the HIH's replies. *)
Redirect(t) ==
  LET c == cur[t]
      k == Key(hand[t].key.handler, conns[c].ext_key.src, conns[c].ext_key.port)
  IN /\ pc[t] = "redirect"
     /\ conns' = [conns EXCEPT ![c].redirected_int_key = k]
     /\ ext_tree2' = RedirectedTree(c, k)
     /\ hand' = [hand EXCEPT ![t] = NoHand]
     /\ pc' = [pc EXCEPT ![t] = "done"]
     /\ UNCHANGED <<live, locked, ext_tree1, int_tree1, int_tree2, pins, connlock, pkt, cur, todo>>

(* The end of the turn of de_thread(): conn->lock is released. *)
Finish(t) ==
  /\ pc[t] \in {"process", "done"}
  /\ locked' = [locked EXCEPT ![cur[t]] = None]
  /\ cur' = [cur EXCEPT ![t] = 0]
  /\ pc' = [pc EXCEPT ![t] = "idle"]
  /\ pkt' = [pkt EXCEPT ![t] = NoKey]
  /\ UNCHANGED <<conns, live, trees, pins, connlock, hand, todo>>

-----------------------------------------------------------------------------
(* The cleaner.                                                            *)

(* The expiration delay passes without a packet. *)
Age(c) ==
  /\ c \in live /\ conns[c].fresh
  /\ conns' = [conns EXCEPT ![c].fresh = FALSE]
  /\ UNCHANGED <<live, locked, trees, pins, connlock, thread, todo>>

(* Slip: the connections that honeypots opened are not visited. *)
ExpiredExternal == {c \in Values(ext_tree1) : ~conns[c].fresh}

(* expire_conn() over ext_tree1 and int_tree2. *)
Expired == {c \in Values(ext_tree1) \cup Values(int_tree2) : ~conns[c].fresh}

(* clean(): take connlock and collect. *)
CleanStart ==
  /\ connlock = None
  /\ connlock' = "clean"
  /\ todo' = Expired
  /\ UNCHANGED <<conns, live, locked, trees, pins, thread>>

(* Slip: the last user leaves the pin in the tree. *)
UnpinnedKept(tree, k) ==
  IF k \notin DOMAIN tree THEN tree ELSE Counted(tree, k, tree[k].count - 1)

(* One user less of the pin k; the last one removes it. *)
Unpinned(tree, k) ==
  IF k \notin DOMAIN tree THEN tree
  ELSE IF tree[k].count = 1 THEN Remove(tree, k) ELSE Counted(tree, k, tree[k].count - 1)

(* remove_conn(), the target pin: the node removed at the end is the one   *)
(* under conn->pin_key, the pin freed the one under target_pin_key.  What  *)
(* is done to a freed pin is not seen.                                     *)
TargetUnpinned(tree, conn) ==
  LET k == conn.target_pin_key IN
  IF k \notin DOMAIN tree \/ tree[k].freed THEN tree
  ELSE IF tree[k].count = 1
  THEN Remove([Counted(tree, k, 0) EXCEPT ![k].freed = TRUE], conn.pin_key)
  ELSE Counted(tree, k, tree[k].count - 1)

(* Slip: the key of the redirection stays in the tree. *)
ReplyTreeKeepsRedirection(conn) ==
  IF conn.initiator = "EXT" THEN Remove(ext_tree2, conn.int_key) ELSE ext_tree2

(* remove_conn(), ext_tree2: the key of the LIH and that of the HIH. *)
ReplyTreeWithout(conn) ==
  IF conn.initiator = "EXT"
  THEN Remove(Remove(ext_tree2, conn.int_key), conn.redirected_int_key) ELSE ext_tree2

(* Slip: the lock of the connection is not tried. *)
MayRemoveAny(c) == TRUE

(* remove_conn(): a connection that is being handled is left alone. *)
MayRemove(c) == locked[c] = None

(* remove_conn() and free_conn(). *)
CleanOne(c) ==
  LET conn == conns[c]
      ext == conn.initiator = "EXT"
  IN /\ connlock = "clean" /\ c \in todo
     /\ MayRemove(c)
     /\ todo' = todo \ {c}
     /\ ext_tree1' = IF ext THEN Remove(ext_tree1, conn.ext_key) ELSE ext_tree1
     /\ ext_tree2' = ReplyTreeWithout(conn)
     /\ int_tree1' = IF ext THEN int_tree1 ELSE Remove(int_tree1, conn.int_key)
     /\ int_tree2' = IF ext THEN int_tree2 ELSE Remove(int_tree2, conn.ext_key)
     /\ comm_pin_tree' = Unpinned(comm_pin_tree, conn.pin_key)
     /\ target_pin_tree' = TargetUnpinned(target_pin_tree, conn)
     /\ live' = live \ {c}
     /\ UNCHANGED <<conns, locked, raced, connlock, thread>>

CleanSkip(c) ==
  /\ connlock = "clean" /\ c \in todo
  /\ ~MayRemove(c)
  /\ todo' = todo \ {c}
  /\ UNCHANGED <<conns, live, locked, trees, pins, connlock, thread>>

CleanEnd ==
  /\ connlock = "clean" /\ todo = {}
  /\ connlock' = None
  /\ UNCHANGED <<conns, live, locked, trees, pins, thread, todo>>

-----------------------------------------------------------------------------
Empty == [x \in {} |-> 0]

Init ==
  /\ conns = Empty /\ live = {} /\ locked = [c \in Ids |-> None]
  /\ ext_tree1 = Empty /\ ext_tree2 = Empty /\ int_tree1 = Empty /\ int_tree2 = Empty
  /\ comm_pin_tree = Empty /\ target_pin_tree = Empty
  /\ connlock = None
  /\ pc = [t \in Threads |-> "idle"]
  /\ pkt = [t \in Threads |-> NoKey]
  /\ cur = [t \in Threads |-> 0]
  /\ hand = [t \in Threads |-> NoHand]
  /\ todo = {} /\ raced = {}

ThreadStep(t) ==
  \/ Lookup(t) \/ Update(t) \/ Skip(t)
  \/ CreateExt(t)
  \/ CreateUnpinned(t) \/ LookupPin(t) \/ CreatePinned(t) \/ InsertOut(t)
  \/ \E h \in Hihs : LookupTarget(t, h)
  \/ RefuseTarget(t) \/ CountTarget(t) \/ NewTarget(t) \/ Redirect(t)
  \/ Finish(t)

CleanStep == CleanStart \/ (\E c \in todo : CleanOne(c) \/ CleanSkip(c)) \/ CleanEnd

Next ==
  \/ \E t \in Threads, k \in ExtFlows \cup PotFlows : Receive(t, k)
  \/ \E t \in Threads : ThreadStep(t)
  \/ \E c \in DOMAIN conns : Age(c)
  \/ CleanStep

Spec == Init /\ [][Next]_vars

(* The scheduler runs every thread that can run.  A thread that waits for  *)
(* connlock gets it in the end (SF): clean() holds it for a moment and     *)
(* then sleeps for a minute.  Packets and the passing of the delay are     *)
(* free.                                                                   *)
FairSpec == Spec /\ (\A t \in Threads : SF_vars(ThreadStep(t))) /\ WF_vars(CleanStep)

-----------------------------------------------------------------------------
(* Properties.                                                             *)

Ports == {k.port : k \in ExtFlows \cup PotFlows}
Keys == [src : Pots \cup Hosts, dst : Addresses, port : Ports] \cup {NoKey}
Places == {"idle", "lookup", "update", "process", "create", "pinned", "insert",
           "target", "new_target", "redirect", "done"}

(* Every variable keeps its type: trees map keys to connections that were  *)
(* created, and no pin outlives its last user or is counted below one.     *)
TypeOK ==
  /\ DOMAIN conns \subseteq Ids /\ live \subseteq DOMAIN conns
  /\ locked \in [Ids -> Threads \cup {None}]
  /\ \A tree \in {ext_tree1, ext_tree2, int_tree1, int_tree2} :
       DOMAIN tree \subseteq Keys /\ Values(tree) \subseteq DOMAIN conns
  /\ \A p \in DOMAIN comm_pin_tree :
       comm_pin_tree[p].count \in Nat \ {0} /\ ~comm_pin_tree[p].freed
  /\ connlock \in {None, "clean"}
  /\ pc \in [Threads -> Places] /\ pkt \in [Threads -> Keys] /\ cur \in [Threads -> 0 .. MaxConns]
  /\ todo \subseteq Ids

(* remove_conn() leaves nothing behind: what a tree finds, and what is     *)
(* still to be removed, is not freed.                                      *)
NoDangling ==
  /\ \A tree \in {ext_tree1, ext_tree2, int_tree1, int_tree2} : Values(tree) \subseteq live
  /\ todo \subseteq live

(* A decision thread never works on a connection that the cleaner frees    *)
(* under it, from the lookup to the end of its turn.                       *)
HeldLive == \A t \in Threads : cur[t] # 0 => cur[t] \in live /\ locked[cur[t]] = t

(* conn_lookup() waits for conn->lock with connlock in its hand; it never  *)
(* has to, since all packets of a connection come through one queue.       *)
NeverBlocks ==
  \A t \in Threads :
    pc[t] = "lookup" /\ Found(pkt[t]) # 0 => locked[Found(pkt[t])] = None

(* Between conn_lookup() and create_conn() connlock is released; still no  *)
(* two live connections from outside, nor two from inside, share the key   *)
(* under which the packets of EXT find them.                               *)
UniqueFlow ==
  \A c, d \in live :
    /\ c # d /\ (conns[c].initiator = "EXT") = (conns[d].initiator = "EXT")
    => conns[c].ext_key # conns[d].ext_key

(* A connection from EXT is found by the replies of the LIH and, once it   *)
(* is redirected, by those of the HIH as well, as long as it lives.        *)
RepliesFound ==
  \A c \in Values(ext_tree1) :
    \A k \in {conns[c].int_key, conns[c].redirected_int_key} \ {NoKey} :
      k \in DOMAIN ext_tree2 /\ ext_tree2[k] = c

(* A frontend pin is in its tree exactly as long as connections use it,    *)
(* and its count is their number, over creations from both sides and       *)
(* expiry in any order.  There is one exception: a pin that changed        *)
(* between the unlocked lookup of a honeypot's new connection and its use. *)
PinCounts ==
  \A p \in ({conns[c].pin_key : c \in live} \cup DOMAIN comm_pin_tree) \ raced :
    p.handler = Lih =>
      /\ p \in DOMAIN comm_pin_tree
      /\ comm_pin_tree[p].count = Cardinality({c \in live : conns[c].pin_key = p})

(* An idle connection is removed in the end, unless a packet comes.        *)
Expires ==
  \A c \in Ids :
    (c \in live /\ ~conns[c].fresh) ~> (c \notin live \/ conns[c].fresh)

-----------------------------------------------------------------------------
(* What comments say of the tables and the code does not do.               *)

(* globals.h on target_pin_tree: it maps a HIH to the address it serves.   *)
(* No pin in the tree has been freed.                                      *)
NoFreedPin == \A p \in DOMAIN target_pin_tree : ~target_pin_tree[p].freed

(* structs.h on pin_ip: a connection impersonates this address.  The pin   *)
(* that it points into is not freed while the connection lives.            *)
PinHeld ==
  \A c \in live :
    conns[c].pin_ip # 0 =>
      \E tree \in {comm_pin_tree, target_pin_tree} : \E p \in DOMAIN tree :
        tree[p].by = conns[c].pin_ip /\ ~tree[p].freed

(* setup_redirection(): only one attacker is allowed to interact with an   *)
(* exclusive HIH at a time, and one of another target address is refused.  *)
OneTarget ==
  \A c, d \in live :
    conns[c].target_pin_key = conns[d].target_pin_key /\ conns[c].target_pin_key # NoPin =>
      conns[c].ext_key.dst = conns[d].ext_key.dst

=============================================================================
