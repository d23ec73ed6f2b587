------------------------------ MODULE Outbound ------------------------------
(***************************************************************************)
(* The connections that honeypots open: to the outside, under the target's *)
(* control rule, and to internal hosts, which play the part of an address  *)
(* in the outside or in the honeypots' own net.  mod_dns_control moves a   *)
(* connection from the first kind to the second at its first DNS query.    *)
(*                                                                         *)
(* Packets of honeypots and of internal hosts are queued by destination,   *)
(* so the two directions of an internal connection are handled by two      *)
(* threads, whose turns interleave where they take and release a lock.     *)
(* Keys are as in module Connections; an address stands for an IP on its   *)
(* link and VLAN, so no internal host has the address of a honeypot or of  *)
(* a host outside.  Under which address a packet leaves (the pins) is the  *)
(* subject of that module; the pin of an exclusive internal host is here a *)
(* free choice to refuse.                                                  *)
(***************************************************************************)
EXTENDS Integers, FiniteSets

CONSTANTS
  Lih, Hihs,     \* the honeypots' addresses
  Hosts,         \* addresses outside
  Lan,           \* addresses of the HIHs' own net that no handler is defined for
  DefaultIp,     \* the address of the default route
  Threads,       \* the decision threads
  Home,          \* the thread of each address
  Internal,      \* the configured internal hosts, by the address they play
  DnsServer,     \* the address of the internal server of mod_dns_control
  Configs,       \* configurations: the rules of a target, the deny_hih_init setting
                 \* and whether the interface of mod_dns_control names a link
  Flows,         \* packets that come: keys
  Queries,       \* those that may carry a DNS query
  MaxConns       \* bound: connections created

None == "none"
Pots == {Lih} \cup Hihs
NoKey == [src |-> None, dst |-> None, port |-> 0]
NoPkt == [key |-> NoKey, query |-> FALSE]
NoHandler == [ip |-> None, rule |-> FALSE, exclusive |-> FALSE, iface |-> FALSE]
NoWire == [conn |-> 0, from |-> None, to |-> None]

ASSUME OutboundAssumption ==
  /\ None \notin Threads /\ "clean" \notin Threads
  /\ \A k \in Flows : Home[k.src] \in Threads /\ Home[k.dst] \in Threads
  /\ Lih \notin Hihs /\ Hosts \cap (Pots \cup Lan) = {}
  /\ Queries \subseteq Flows
  /\ MaxConns \in Nat

ASSUME HandlersAssumption ==
  /\ \A a \in DOMAIN Internal : Internal[a].rule \in BOOLEAN /\ Internal[a].exclusive \in BOOLEAN
  /\ \A a \in DOMAIN Internal : Internal[a].iface
  /\ \A a \in DOMAIN Internal : Internal[a].ip \notin Pots \cup Hosts \cup {None}
  /\ DnsServer \notin Pots \cup Hosts \cup {None}
  /\ Configs \subseteq [control_rule : {"none", "modules", "dns_control", "modules and dns_control"},
                        intra_rule : BOOLEAN, deny_hih_init : BOOLEAN, dns_iface : BOOLEAN]

VARIABLES
  cfg,             \* the configuration
  conns,           \* every connection ever created, by id
  live,            \* the ids not freed
  locked,          \* who holds conn->lock
  int_tree1, int_tree2, intra_tree1, intra_tree2,
  intra_handlers,  \* internal hosts by the address they play
  connlock,        \* who holds connlock between two steps
  pc, pkt, cur,    \* each decision thread: where it is, its packet, its connection
  todo,            \* entrytoclean
  wire,            \* what the last step injected
  crashed          \* the process read an uninitialised or a null pointer

trees == <<int_tree1, int_tree2, intra_tree1, intra_tree2>>
thread == <<pc, pkt, cur>>
vars == <<cfg, conns, live, locked, trees, intra_handlers, connlock, thread, todo,
          wire, crashed>>

Ids == 1 .. MaxConns
Key(src, dst, port) == [src |-> src, dst |-> dst, port |-> port]

(* GTree: an insertion replaces the value under an equal key. *)
Insert(tree, k, v) == [x \in DOMAIN tree \cup {k} |-> IF x = k THEN v ELSE tree[x]]
Remove(tree, k) == [x \in DOMAIN tree \ {k} |-> tree[x]]
Values(tree) == {tree[k] : k \in DOMAIN tree}

FromExt(k) == k.src \in Hosts

(* Slip: the source address chooses the queue on every link. *)
HandledByBySource(k) == Home[k.src]

(* IP2QUEUEID. *)
HandledBy(k) == Home[IF FromExt(k) THEN k.src ELSE k.dst]

(* The keys of a connection: its packets, the answers from outside and the *)
(* answers of the internal host.                                           *)
IntKey(conn) == conn.first
ExtKey(conn) == Key(conn.first.dst, DefaultIp, conn.first.port)
IntraKey(conn) == Key(conn.intra_handler.ip, conn.first.src, conn.first.port)

-----------------------------------------------------------------------------
(* conn_lookup().                                                          *)

(* The trees of a packet's origin, in order; 0 is a failure. *)
Found(k) ==
  IF FromExt(k) THEN IF k \in DOMAIN int_tree2 THEN int_tree2[k] ELSE 0
  ELSE IF k \in DOMAIN int_tree1 THEN int_tree1[k]
  ELSE IF k \in DOMAIN intra_tree1 THEN intra_tree1[k]
  ELSE IF k \in DOMAIN intra_tree2 THEN intra_tree2[k] ELSE 0

(* A thread takes a packet from its queue and, under connlock, looks its   *)
(* connection up.                                                          *)
Lookup(t, k, query) ==
  LET c == Found(k) IN
  /\ pc[t] = "idle" /\ HandledBy(k) = t
  /\ query => k \in Queries
  /\ connlock = None
  /\ pkt' = [pkt EXCEPT ![t] = [key |-> k, query |-> query]]
  /\ cur' = [cur EXCEPT ![t] = c]
  /\ connlock' = IF c = 0 THEN None ELSE t
  /\ pc' = [pc EXCEPT ![t] = IF c = 0 THEN "create" ELSE "wait"]
  /\ wire' = NoWire
  /\ UNCHANGED <<cfg, conns, live, locked, trees, intra_handlers, todo, crashed>>

(* Its lock is waited for before connlock is released; update_conn(). *)
Hold(t) ==
  LET c == cur[t] IN
  /\ pc[t] = "wait" /\ locked[c] = None
  /\ locked' = [locked EXCEPT ![c] = t]
  /\ connlock' = None
  /\ conns' = [conns EXCEPT ![c].fresh = TRUE]
  /\ pc' = [pc EXCEPT ![t] = "process"]
  /\ wire' = NoWire
  /\ UNCHANGED <<cfg, live, trees, intra_handlers, pkt, cur, todo, crashed>>

-----------------------------------------------------------------------------
(* create_conn().                                                          *)

(* The end of a turn that leaves no connection. *)
GiveUp(t) ==
  /\ pc' = [pc EXCEPT ![t] = "idle"]
  /\ pkt' = [pkt EXCEPT ![t] = NoPkt]
  /\ wire' = NoWire
  /\ UNCHANGED <<cfg, conns, live, locked, trees, intra_handlers, connlock, cur, todo>>

(* A TCP packet without SYN, an unknown source, or a packet of EXT, which  *)
(* opens no connection of this kind.                                       *)
Skip(t) == pc[t] = "create" /\ GiveUp(t) /\ UNCHANGED crashed

(* Where a honeypot's new connection goes.  The LIH may not go to internal *)
(* hosts, and no honeypot to another.                                      *)
Destination(k) ==
  CASE k.dst \in DOMAIN intra_handlers -> IF k.src = Lih THEN "refused" ELSE "INTRA"
    [] k.dst \notin DOMAIN intra_handlers /\ k.src # Lih /\ k.dst \in Lan -> "LAN"
    [] k.dst \in Pots \ Lan -> "refused"
    [] OTHER -> "EXT"

Conn(k, destination, handler) ==
  [initiator |-> IF k.src = Lih THEN "LIH" ELSE "HIH", first |-> k,
   state |-> IF k.src = Lih THEN "CONTROL" ELSE "INIT",
   destination |-> destination, intra_handler |-> handler,
   fresh |-> TRUE, rejected |-> FALSE]

Allocate(t, conn) ==
  LET c == Cardinality(DOMAIN conns) + 1 IN
  /\ c <= MaxConns
  /\ conns' = Insert(conns, c, conn)
  /\ live' = live \cup {c}
  /\ locked' = [locked EXCEPT ![c] = t]
  /\ cur' = [cur EXCEPT ![t] = c]
  /\ pc' = [pc EXCEPT ![t] = "process"]
  /\ wire' = NoWire
  /\ UNCHANGED <<cfg, intra_handlers, connlock, pkt, todo, crashed>>

(* A new connection to the outside. *)
OpenExt(t) ==
  LET k == pkt[t].key
      conn == Conn(k, "EXT", NoHandler)
  IN /\ pc[t] = "create" /\ connlock = None
     /\ k.src \in Pots /\ Destination(k) = "EXT"
     /\ Allocate(t, conn)
     /\ int_tree1' = Insert(int_tree1, IntKey(conn), cur'[t])
     /\ int_tree2' = Insert(int_tree2, ExtKey(conn), cur'[t])
     /\ UNCHANGED <<intra_tree1, intra_tree2>>

(* A HIH's new connection to an internal host. *)
OpenIntra(t) ==
  LET k == pkt[t].key
      conn == Conn(k, "INTRA", intra_handlers[k.dst])
  IN /\ pc[t] = "create" /\ connlock = None
     /\ k.src \in Pots /\ Destination(k) = "INTRA"
     /\ Allocate(t, conn)
     /\ intra_tree1' = Insert(intra_tree1, IntKey(conn), cur'[t])
     /\ intra_tree2' = Insert(intra_tree2, IntraKey(conn), cur'[t])
     /\ UNCHANGED <<int_tree1, int_tree2>>

(* A HIH's connection to an unknown host of its net enters no tree. *)
OpenLan(t) ==
  LET k == pkt[t].key IN
  /\ pc[t] = "create"
  /\ k.src \in Pots /\ Destination(k) = "LAN"
  /\ Allocate(t, Conn(k, "INTRA", NoHandler))
  /\ UNCHANGED trees

(* A destination that is not allowed, or an exclusive internal host that   *)
(* plays another address for this HIH.                                     *)
Refuse(t) ==
  LET k == pkt[t].key IN
  /\ pc[t] = "create" /\ k.src \in Pots
  /\ \/ Destination(k) = "refused"
     \/ Destination(k) = "INTRA" /\ intra_handlers[k.dst].exclusive
  /\ GiveUp(t) /\ UNCHANGED crashed

(* An internal host opens a connection to a HIH: find_hih_dst() leaves     *)
(* hih_search.back_handler uninitialised, and create_conn() reads through  *)
(* it, which ends the process or yields a pin key that is not in the tree. *)
RefuseIntra(t) ==
  LET k == pkt[t].key IN
  /\ pc[t] = "create"
  /\ k.src \in {h.ip : h \in Values(intra_handlers)} \ Pots
  /\ GiveUp(t)
  /\ crashed' \in IF k.dst \in Hihs \ DOMAIN intra_handlers THEN BOOLEAN ELSE {FALSE}

-----------------------------------------------------------------------------
(* The turn of de_thread() on a connection that it holds.                  *)

(* conn_lookup() takes the origin from the tree that has the packet and,   *)
(* for a honeypot, its address.  The addresses tell as much: only keys of  *)
(* honeypots are in int_tree1 and intra_tree1, and of internal hosts in    *)
(* intra_tree2.                                                            *)
Origin(k) ==
  CASE FromExt(k) -> "EXT" [] k.src = Lih -> "LIH" [] k.src \in Hihs -> "HIH" [] OTHER -> "INTRA"

(* The connection is left as conn, a packet goes to the side to, if any,   *)
(* and conn->lock is released.                                             *)
Finish(t, conn, to) ==
  LET c == cur[t] IN
  /\ conns' = [conns EXCEPT ![c] = conn]
  /\ wire' = IF to = None THEN NoWire
             ELSE [conn |-> c, from |-> Origin(pkt[t].key), to |-> to]
  /\ locked' = [locked EXCEPT ![c] = None]
  /\ cur' = [cur EXCEPT ![t] = 0]
  /\ pc' = [pc EXCEPT ![t] = "idle"]
  /\ pkt' = [pkt EXCEPT ![t] = NoPkt]
  /\ UNCHANGED <<cfg, live, connlock, todo, crashed>>

Turn(t, origins, states) ==
  /\ pc[t] = "process"
  /\ Origin(pkt[t].key) \in origins
  /\ conns[cur[t]].state \in states

(* A packet on a dropped connection is freed. *)
Dropped(t) ==
  /\ Turn(t, {"EXT", "LIH", "HIH", "INTRA"}, {"DROP"})
  /\ Finish(t, conns[cur[t]], None)
  /\ UNCHANGED <<trees, intra_handlers>>

(* And one of an internal host unless the connection is in PROXY. *)
Discard(t) ==
  /\ Turn(t, {"INTRA"}, {"INIT", "CONTROL"})
  /\ Finish(t, conns[cur[t]], None)
  /\ UNCHANGED <<trees, intra_handlers>>

(* proxy_ext2int(): to the honeypot that opened the connection. *)
FromOutside(t) ==
  /\ Turn(t, {"EXT"}, {"CONTROL", "PROXY"})
  /\ Finish(t, conns[cur[t]], conns[cur[t]].initiator)
  /\ UNCHANGED <<trees, intra_handlers>>

(* proxy_intra2hih(): a connection of the LIH has no back_handler. *)
FromInside(t) ==
  LET conn == conns[cur[t]] IN
  /\ Turn(t, {"INTRA"}, {"PROXY"})
  /\ Finish(t, conn, IF conn.initiator = "HIH" THEN "HIH" ELSE None)
  /\ UNCHANGED <<trees, intra_handlers>>

(* Slip: only the origin chooses the way. *)
ProxyByOrigin(conn) == "EXT"

(* Where a packet goes in PROXY: proxy_int2ext() or proxy_hih2intra(). *)
Proxy(conn) ==
  IF conn.initiator = "HIH" /\ conn.destination = "INTRA" THEN "INTRA" ELSE "EXT"

FromPot(t) ==
  LET conn == conns[cur[t]] IN
  /\ Turn(t, {"LIH", "HIH"}, {"PROXY"})
  /\ Proxy(conn) = "INTRA" => conn.intra_handler.iface
  /\ Finish(t, conn, Proxy(conn))
  /\ UNCHANGED <<trees, intra_handlers>>

(* nat() reads the address of the link before proxy_hih2intra() tests      *)
(* whether there is one.                                                   *)
FromPotNoLink(t) ==
  /\ Turn(t, {"LIH", "HIH"}, {"PROXY"})
  /\ Proxy(conns[cur[t]]) = "INTRA" /\ ~conns[cur[t]].intra_handler.iface
  /\ crashed' = TRUE
  /\ wire' = NoWire
  /\ UNCHANGED <<cfg, conns, live, locked, trees, intra_handlers, connlock, thread, todo>>

(* deny_hih_init: a HIH opens nothing. *)
Deny(t) ==
  /\ cfg.deny_hih_init /\ Turn(t, {"HIH"}, {"INIT"})
  /\ Finish(t, [conns[cur[t]] EXCEPT !.state = "DROP"], None)
  /\ UNCHANGED <<trees, intra_handlers>>

Results == {"ACCEPT", "REJECT", "DEFER"}

(* DE_process_packet() in CONTROL: the verdicts the rule may come to.  An  *)
(* internal host's rule, or the intranet rule, has to accept or reject.    *)
(* Of a rule with mod_dns_control, these are the verdicts of the modules   *)
(* before it, as in "control and dns_control" of honeybrid.conf.           *)
Verdicts(conn) ==
  IF conn.destination = "EXT"
  THEN CASE cfg.control_rule = "none" -> {"NO_RULE"}
         [] cfg.control_rule = "dns_control" -> {"ACCEPT"}
         [] OTHER -> Results
  ELSE IF (IF conn.intra_handler = NoHandler THEN cfg.intra_rule ELSE conn.intra_handler.rule)
       THEN {"ACCEPT", "REJECT", "DROP"} ELSE {"DROP"}

(* Slip: a rejection concerns the packet only. *)
StateAfterLenient(state, v) ==
  CASE v = "NO_RULE" -> "PROXY" [] v = "DROP" -> "DROP" [] OTHER -> "CONTROL"

(* Slip: a rule that cannot decide leaves the first packet's state. *)
StateAfterUnchanged(state, v) ==
  CASE v = "NO_RULE" -> "PROXY" [] v \in {"REJECT", "DROP"} -> "DROP" [] OTHER -> state

(* The state after the verdict: a HIH's INIT has become CONTROL before. *)
StateAfter(state, v) ==
  CASE v = "NO_RULE" -> "PROXY" [] v \in {"REJECT", "DROP"} -> "DROP" [] OTHER -> "CONTROL"

Let(v) == v \in {"NO_RULE", "DEFER", "ACCEPT"}

(* Where a packet goes that the rule lets through.  The first of a HIH     *)
(* goes to the connection's destination, the others to the outside.        *)
Way(conn) ==
  IF conn.state = "INIT" /\ conn.destination = "INTRA"
  THEN IF conn.intra_handler = NoHandler THEN None ELSE "INTRA"
  ELSE "EXT"

(* The rule asks mod_dns_control(), unless a module before it does not     *)
(* accept, and the packet is a query.                                      *)
SwitchesDns(t) ==
  /\ cfg.control_rule \in {"dns_control", "modules and dns_control"}
  /\ conns[cur[t]].destination = "EXT" /\ pkt[t].query

InControl(t) ==
  \/ Turn(t, {"LIH", "HIH"}, {"CONTROL"})
  \/ Turn(t, {"HIH"}, {"INIT"}) /\ ~cfg.deny_hih_init

Control(t, v) ==
  LET conn == conns[cur[t]] IN
  /\ InControl(t)
  /\ v \in Verdicts(conn)
  /\ SwitchesDns(t) => v # "ACCEPT"
  /\ Finish(t, [conn EXCEPT !.state = StateAfter(conn.state, v),
                            !.rejected = @ \/ ~Let(v)],
            IF Let(v) THEN Way(conn) ELSE None)
  /\ UNCHANGED <<trees, intra_handlers>>

(* The handler that mod_dns_control() makes. *)
DnsHandler == [ip |-> DnsServer, rule |-> FALSE, exclusive |-> FALSE, iface |-> cfg.dns_iface]

(* add_intra_handler(): an address that is played keeps its handler, and   *)
(* a handler without interface is refused.                                 *)
AddIntraHandler(a, handler) ==
  IF a \in DOMAIN intra_handlers \/ ~handler.iface
  THEN intra_handlers ELSE Insert(intra_handlers, a, handler)

(* mod_dns_control(): the handler for the queried address is found, or     *)
(* made and added.  Whether it could be added is not looked at.            *)
ControlDns(t) ==
  LET conn == conns[cur[t]]
      a == pkt[t].key.dst
      handler == IF a \in DOMAIN intra_handlers THEN intra_handlers[a] ELSE DnsHandler
  IN /\ InControl(t) /\ SwitchesDns(t)
     /\ intra_handlers' = AddIntraHandler(a, handler)
     /\ conns' = [conns EXCEPT ![cur[t]] =
                   [conn EXCEPT !.state = "PROXY", !.destination = "INTRA",
                                !.intra_handler = handler]]
     /\ pc' = [pc EXCEPT ![t] = "switch"]
     /\ wire' = NoWire
     /\ UNCHANGED <<cfg, live, locked, trees, connlock, pkt, cur, todo, crashed>>

(* Slip: the answers from outside still find the connection. *)
ReplyTreeKept(conn) == int_tree2

ReplyTreeWithout(conn) == Remove(int_tree2, ExtKey(conn))

(* switch_conn_to_intra(), and the end of the turn: ACCEPT in state PROXY  *)
(* is no case of DE_process_packet(), so the query is not relayed.         *)
SwitchToIntra(t) ==
  LET conn == conns[cur[t]] IN
  /\ pc[t] = "switch" /\ connlock = None
  /\ int_tree1' = Remove(int_tree1, IntKey(conn))
  /\ int_tree2' = ReplyTreeWithout(conn)
  /\ intra_tree1' = Insert(intra_tree1, IntKey(conn), cur[t])
  /\ intra_tree2' = Insert(intra_tree2, IntraKey(conn), cur[t])
  /\ Finish(t, conn, None)
  /\ UNCHANGED intra_handlers

-----------------------------------------------------------------------------
(* The cleaner.                                                            *)

Age(c) ==
  /\ c \in live /\ conns[c].fresh
  /\ conns' = [conns EXCEPT ![c].fresh = FALSE]
  /\ wire' = NoWire
  /\ UNCHANGED <<cfg, live, locked, trees, intra_handlers, connlock, thread, todo, crashed>>

(* Slip: the internal connections are not visited. *)
ExpiredOutside == {c \in Values(int_tree2) : ~conns[c].fresh}

(* expire_conn() over int_tree2 and intra_tree1. *)
Expired == {c \in Values(int_tree2) \cup Values(intra_tree1) : ~conns[c].fresh}

CleanStart ==
  /\ connlock = None
  /\ connlock' = "clean"
  /\ todo' = Expired
  /\ wire' = NoWire
  /\ UNCHANGED <<cfg, conns, live, locked, trees, intra_handlers, thread, crashed>>

(* Slip: the answers' tree is forgotten. *)
RemovedIntraKeepsReplies(conn) ==
  /\ intra_tree1' = Remove(intra_tree1, IntKey(conn))
  /\ UNCHANGED intra_tree2

RemovedIntra(conn) ==
  /\ intra_tree1' = Remove(intra_tree1, IntKey(conn))
  /\ intra_tree2' = Remove(intra_tree2, IntraKey(conn))

(* remove_conn() and free_conn(): by initiator and destination.  A switched *)
(* connection of the LIH is no case and stays in the trees.                *)
CleanOne(c) ==
  LET conn == conns[c] IN
  /\ connlock = "clean" /\ c \in todo /\ locked[c] = None
  /\ todo' = todo \ {c}
  /\ live' = live \ {c}
  /\ CASE conn.destination = "EXT" ->
            /\ int_tree1' = Remove(int_tree1, IntKey(conn))
            /\ int_tree2' = Remove(int_tree2, ExtKey(conn))
            /\ UNCHANGED <<intra_tree1, intra_tree2>>
       [] conn.destination = "INTRA" /\ conn.initiator = "HIH" ->
            RemovedIntra(conn) /\ UNCHANGED <<int_tree1, int_tree2>>
       [] OTHER -> UNCHANGED trees
  /\ wire' = NoWire
  /\ UNCHANGED <<cfg, conns, locked, intra_handlers, connlock, thread, crashed>>

(* A connection that a thread holds is left alone. *)
CleanSkip(c) ==
  /\ connlock = "clean" /\ c \in todo /\ locked[c] # None
  /\ todo' = todo \ {c}
  /\ wire' = NoWire
  /\ UNCHANGED <<cfg, conns, live, locked, trees, intra_handlers, connlock, thread, crashed>>

CleanEnd ==
  /\ connlock = "clean" /\ todo = {}
  /\ connlock' = None
  /\ wire' = NoWire
  /\ UNCHANGED <<cfg, conns, live, locked, trees, intra_handlers, thread, todo, crashed>>

-----------------------------------------------------------------------------
Empty == [x \in {} |-> 0]

Init ==
  /\ cfg \in Configs
  /\ conns = Empty /\ live = {} /\ locked = [c \in Ids |-> None]
  /\ int_tree1 = Empty /\ int_tree2 = Empty /\ intra_tree1 = Empty /\ intra_tree2 = Empty
  /\ intra_handlers = Internal
  /\ connlock = None
  /\ pc = [t \in Threads |-> "idle"]
  /\ pkt = [t \in Threads |-> NoPkt]
  /\ cur = [t \in Threads |-> 0]
  /\ todo = {} /\ wire = NoWire /\ crashed = FALSE

CreateStep(t) ==
  Skip(t) \/ OpenExt(t) \/ OpenIntra(t) \/ OpenLan(t) \/ Refuse(t) \/ RefuseIntra(t)

ProcessStep(t) ==
  \/ Dropped(t) \/ Discard(t) \/ FromOutside(t) \/ FromInside(t)
  \/ FromPot(t) \/ FromPotNoLink(t) \/ Deny(t)
  \/ \E v \in Results \cup {"NO_RULE", "DROP"} : Control(t, v)
  \/ ControlDns(t) \/ SwitchToIntra(t)

ThreadStep(t) == ~crashed /\ (Hold(t) \/ CreateStep(t) \/ ProcessStep(t))

CleanStep ==
  ~crashed /\ (CleanStart \/ (\E c \in todo : CleanOne(c) \/ CleanSkip(c)) \/ CleanEnd)

Next ==
  \/ \E t \in Threads, k \in Flows, query \in BOOLEAN : ~crashed /\ Lookup(t, k, query)
  \/ \E t \in Threads : ThreadStep(t)
  \/ \E c \in DOMAIN conns : ~crashed /\ Age(c)
  \/ CleanStep

Spec == Init /\ [][Next]_vars

(* The scheduler runs every thread that can run, and a thread that waits   *)
(* for connlock gets it in the end (SF), as in module Connections; here    *)
(* the cleaner may have to wait too.                                       *)
FairSpec == Spec /\ (\A t \in Threads : SF_vars(ThreadStep(t))) /\ SF_vars(CleanStep)

-----------------------------------------------------------------------------
(* Properties.                                                             *)

(* The connection of OpenLan, which is in no tree. *)
InLan(conn) == conn.destination = "INTRA" /\ conn.intra_handler = NoHandler

Held(c) == \E t \in Threads : cur[t] = c

(* Every variable keeps its type, and between two turns a connection is    *)
(* never in INIT, the state in which a HIH's packet would be its first.    *)
TypeOK ==
  /\ cfg \in Configs
  /\ DOMAIN conns \subseteq Ids /\ live \subseteq DOMAIN conns
  /\ \A c \in DOMAIN conns :
       /\ conns[c].state \in {"CONTROL", "PROXY", "DROP"} \cup (IF Held(c) THEN {"INIT"} ELSE {})
       /\ conns[c].destination \in {"EXT", "INTRA"} /\ conns[c].initiator \in {"LIH", "HIH"}
       /\ conns[c].fresh \in BOOLEAN /\ conns[c].rejected \in BOOLEAN
  /\ locked \in [Ids -> Threads \cup {None}]
  /\ connlock \in Threads \cup {None, "clean"}
  /\ \A t \in Threads :
       /\ pc[t] \in {"idle", "wait", "create", "process", "switch"}
       /\ pkt[t].key \in Flows \cup {NoKey} /\ pkt[t].query \in BOOLEAN
       /\ cur[t] \in 0 .. MaxConns
  /\ todo \subseteq Ids
  /\ wire.conn \in 0 .. MaxConns /\ crashed \in BOOLEAN

(* What a tree finds, a thread works on or the cleaner will remove is not  *)
(* freed, wherever the connection was moved in the meantime.  It holds if  *)
(* only HIHs send DNS queries: remove_conn() has no case for a connection  *)
(* of the LIH that was moved, which stays in the trees when it is freed.   *)
NoDangling ==
  /\ Values(int_tree1) \cup Values(int_tree2) \subseteq live
  /\ Values(intra_tree1) \cup Values(intra_tree2) \subseteq live
  /\ todo \subseteq live
  /\ \A t \in Threads : cur[t] # 0 => cur[t] \in live

(* A connection that no thread holds is in the two trees of its            *)
(* destination and in no other: both sides' packets find it, and after     *)
(* switch_conn_to_intra() those of the old destination do not.  As above,  *)
(* only HIHs send queries, and no two connections share a port.            *)
InItsTrees ==
  \A c \in live :
    LET conn == conns[c]
        out == conn.destination = "EXT"
        in == ~out /\ ~InLan(conn)
    IN Held(c) \/
       /\ IF out THEN /\ IntKey(conn) \in DOMAIN int_tree1 /\ int_tree1[IntKey(conn)] = c
                      /\ ExtKey(conn) \in DOMAIN int_tree2 /\ int_tree2[ExtKey(conn)] = c
          ELSE c \notin Values(int_tree1) \cup Values(int_tree2)
       /\ IF in THEN /\ IntKey(conn) \in DOMAIN intra_tree1 /\ intra_tree1[IntKey(conn)] = c
                     /\ IntraKey(conn) \in DOMAIN intra_tree2 /\ intra_tree2[IntraKey(conn)] = c
          ELSE c \notin Values(intra_tree1) \cup Values(intra_tree2)

(* Once a rule has rejected a packet of a connection, or deny_hih_init     *)
(* forbids it, no packet of that connection passes in either direction.    *)
RejectedStays ==
  wire # NoWire =>
    /\ ~conns[wire.conn].rejected
    /\ ~(cfg.deny_hih_init /\ conns[wire.conn].initiator = "HIH")

(* A HIH's connection that mod_dns_control() has moved inside exchanges    *)
(* packets with the internal server only, although the HIH may have been   *)
(* talking to the outside and answers are still on their way.              *)
MovedInside ==
  wire # NoWire =>
    LET conn == conns[wire.conn] IN
    conn.initiator = "HIH" /\ conn.destination = "INTRA" /\ conn.state = "PROXY" =>
      <<wire.from, wire.to>> \in {<<"HIH", "INTRA">>, <<"INTRA", "HIH">>}

(* Every turn ends.  conn_lookup() waits for a connection with connlock in *)
(* its hand, while switch_conn_to_intra() wants connlock with the          *)
(* connection's lock held: the two never wait for each other.              *)
TurnsEnd == \A t \in Threads : (pc[t] # "idle") ~> (pc[t] = "idle" \/ crashed)

(* An idle connection that is in a tree is removed in the end, unless a    *)
(* packet comes.                                                           *)
Expires ==
  \A c \in Ids :
    (c \in live /\ ~InLan(conns[c]) /\ ~conns[c].fresh) ~>
      (c \notin live \/ conns[c].fresh \/ crashed)

-----------------------------------------------------------------------------
(* honeybrid.conf says of mod_dns_control that it redirects DNS traffic to *)
(* an internal host, and of 'internal' that it is "to catch intra-lan      *)
(* connection": no packet of a connection to an internal host leaves.      *)
StaysInside == wire.to = "EXT" => conns[wire.conn].destination = "EXT"

=============================================================================
