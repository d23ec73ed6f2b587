------------------------------ MODULE Lifecycle ------------------------------
(***************************************************************************)
(* The threads of the program from capture to exit: one pcap_looper per    *)
(* link, the decision threads with their queues, the cleaner, the backup   *)
(* thread and, with the XML-RPC server, the thread that stops it; and      *)
(* main(), which waits for the loopers and takes everything down.          *)
(*                                                                         *)
(* A packet is what IP2QUEUEID and the order of handling see of it: the    *)
(* link it was captured on, its session, its direction and a number.       *)
(***************************************************************************)
EXTENDS Integers, Sequences

CONSTANTS
  Links,            \* the configured links
  Uplinks,          \* those with a target (iface->target)
  Flows,            \* what may be captured: records [session, link, saddr, daddr]
                    \* with the last bytes of the two addresses
  DecisionThreads,  \* the decision_threads setting
  Rpc,              \* the XML-RPC server is configured
  MaxPackets        \* bound: packets captured

ASSUME LifecycleAssumption ==
  /\ Uplinks \subseteq Links /\ Links # {} /\ Links \cap {"modules", "trees", "hash"} = {}
  /\ \A f \in Flows : f.link \in Links /\ f.saddr \in 0 .. 255 /\ f.daddr \in 0 .. 255
  /\ DecisionThreads \in Nat \ {0}
  /\ Rpc \in BOOLEAN
  /\ MaxPackets \in Nat

Threads == 0 .. DecisionThreads - 1
(* The threads that sleep on threading_cond. *)
Sleepers == {"clean", "backup"} \cup (IF Rpc THEN {"kill"} ELSE {})

VARIABLES
  breakloop,   \* pcap_breakloop() was called on the link's handle
  looper,      \* the pcap_looper of each link: "run" or "done"
  raw,         \* the packet each looper has in pcap_cb(), as a sequence
  captured,    \* packets captured so far
  queue,       \* de_queues
  work,        \* the packet each de_thread has popped, as a sequence
  de,          \* each de_thread: "run" or "done"
  handled,     \* the packets handled, in order
  threading,   \* the global flag: TRUE for OK
  pc,          \* where each sleeper is
  server,      \* the XML-RPC server: "run" or "done"
  main,        \* where main() is
  i,           \* the loop counter of close_thread()
  closed       \* the links whose handle is closed, and what has been freed

vars == <<breakloop, looper, raw, captured, queue, work, de, handled,
          threading, pc, server, main, i, closed>>

Last == [last |-> TRUE]
Packets == [flow : Flows, n : 1 .. MaxPackets]

-----------------------------------------------------------------------------
(* Capture.                                                                *)

(* Slip: the source address chooses the queue on every link. *)
QueueIdBySource(f) == f.saddr % DecisionThreads

(* IP2QUEUEID: the external host is the source on an uplink and the        *)
(* destination on a link to the honeypots.                                 *)
QueueId(f) == (IF f.link \in Uplinks THEN f.saddr ELSE f.daddr) % DecisionThreads

(* pcap_loop() takes the next packet unless it was told to stop. *)
Capture(f) ==
  /\ captured < MaxPackets
  /\ looper[f.link] = "run" /\ ~breakloop[f.link] /\ raw[f.link] = <<>>
  /\ captured' = captured + 1
  /\ raw' = [raw EXCEPT ![f.link] = <<[flow |-> f, n |-> captured + 1]>>]
  /\ UNCHANGED <<breakloop, looper, queue, work, de, handled, threading, pc, server, main, i, closed>>

(* pcap_cb() pushes the packet to a queue. *)
Push(l) ==
  /\ raw[l] # <<>>
  /\ LET q == QueueId(raw[l][1].flow)
     IN queue' = [queue EXCEPT ![q] = Append(@, raw[l][1])]
  /\ raw' = [raw EXCEPT ![l] = <<>>]
  /\ UNCHANGED <<breakloop, looper, captured, work, de, handled, threading, pc, server, main, i, closed>>

LooperReturns(l) ==
  /\ looper[l] = "run" /\ breakloop[l] /\ raw[l] = <<>>
  /\ looper' = [looper EXCEPT ![l] = "done"]
  /\ UNCHANGED <<breakloop, raw, captured, queue, work, de, handled, threading, pc, server, main, i, closed>>

(* term_signal_handler(); the disposition is reset when it is entered. *)
Signal ==
  /\ \E l \in Links : ~breakloop[l]
  /\ breakloop' = [l \in Links |-> TRUE]
  /\ UNCHANGED <<looper, raw, captured, queue, work, de, handled, threading, pc, server, main, i, closed>>

-----------------------------------------------------------------------------
(* The decision threads.                                                   *)

(* Slip: the marker is not looked at before the packet is processed. *)
PopMarker(t) ==
  /\ de[t] = "run" /\ work[t] = <<>> /\ queue[t] # <<>>
  /\ queue' = [queue EXCEPT ![t] = Tail(@)]
  /\ work' = [work EXCEPT ![t] = <<Head(queue[t])>>]
  /\ UNCHANGED <<breakloop, looper, raw, captured, de, handled, threading, pc, server, main, i, closed>>

(* g_async_queue_pop(); the marker of close_thread() ends the thread. *)
Pop(t) ==
  /\ de[t] = "run" /\ work[t] = <<>> /\ queue[t] # <<>>
  /\ queue' = [queue EXCEPT ![t] = Tail(@)]
  /\ IF Head(queue[t]) = Last
     THEN de' = [de EXCEPT ![t] = "done"] /\ UNCHANGED work
     ELSE work' = [work EXCEPT ![t] = <<Head(queue[t])>>] /\ UNCHANGED de
  /\ UNCHANGED <<breakloop, looper, raw, captured, handled, threading, pc, server, main, i, closed>>

(* The rest of the turn of de_thread(): the connection is looked up and    *)
(* the packet handled, which may ask modules and inject packets through    *)
(* the pcap handles of the links: ProcessedOpen is about these.            *)
Handle(t) ==
  /\ work[t] # <<>>
  /\ handled' = Append(handled, work[t][1])
  /\ work' = [work EXCEPT ![t] = <<>>]
  /\ UNCHANGED <<breakloop, looper, raw, captured, queue, de, threading, pc, server, main, i, closed>>

-----------------------------------------------------------------------------
(* The sleepers.  Only the cleaner keeps threading_cond_lock over more     *)
(* than one step: while it tests the flag and while it cleans.             *)

LockFree == pc["clean"] \notin {"test", "clean"}

Goto(t, place) == pc' = [pc EXCEPT ![t] = place]
Outside == <<breakloop, looper, raw, captured, queue, work, de, handled, threading, main, i, closed>>

(* clean(): take the lock, again after a wait. *)
CleanLock ==
  /\ pc["clean"] \in {"lock", "woken", "expired"}
  /\ LockFree
  /\ Goto("clean", IF pc["clean"] = "expired" THEN "clean" ELSE "test")
  /\ UNCHANGED <<Outside, server>>

(* clean(): while (OK == threading), then wait or leave. *)
CleanTest ==
  /\ pc["clean"] = "test"
  /\ Goto("clean", IF threading THEN "wait" ELSE "end")
  /\ UNCHANGED <<Outside, server>>

(* clean(): the wait timed out, expire the old connections. *)
Clean ==
  /\ pc["clean"] = "clean"
  /\ Goto("clean", "test")
  /\ UNCHANGED <<Outside, server>>

(* save_backup_handler() and rpc_server_die_signal(): the flag is tested   *)
(* without the lock.                                                       *)
SleeperTest(t) ==
  /\ t # "clean" /\ pc[t] = "test"
  /\ Goto(t, IF threading THEN "lock" ELSE "end")
  /\ server' = IF t = "kill" /\ ~threading THEN "done" ELSE server
  /\ UNCHANGED Outside

(* Lock and wait, which unlocks. *)
SleeperWait(t) ==
  /\ t # "clean" /\ pc[t] = "lock"
  /\ LockFree
  /\ Goto(t, "wait")
  /\ UNCHANGED <<Outside, server>>

(* The wait returns with the lock, which is released.  The backup thread   *)
(* then writes what is registered; no configuration registers anything.    *)
SleeperReturns(t) ==
  /\ t # "clean" /\ pc[t] \in {"woken", "expired"}
  /\ LockFree
  /\ Goto(t, "test")
  /\ UNCHANGED <<Outside, server>>

(* After a minute a timed wait ends; rpc_server_die_signal() has no limit. *)
Expire(t) ==
  /\ t # "kill" /\ pc[t] = "wait"
  /\ Goto(t, "expired")
  /\ UNCHANGED <<Outside, server>>

(* A wait may return for no reason. *)
Spurious(t) ==
  /\ pc[t] = "wait"
  /\ Goto(t, "woken")
  /\ UNCHANGED <<Outside, server>>

-----------------------------------------------------------------------------
(* main(), from wait_pcap() on.                                            *)

Others == <<breakloop, looper, raw, captured, work, de, handled, server>>

(* Slip: the looper is not waited for. *)
WaitNoPcap(l) ==
  /\ main = "wait_pcap" /\ l \notin closed
  /\ closed' = closed \cup {l}
  /\ main' = IF Links \subseteq closed' THEN "close_modules" ELSE main
  /\ UNCHANGED <<Others, queue, threading, pc, i>>

(* wait_pcap(): join the looper of a link and close its handle; the links  *)
(* come in the order of a hash table.                                      *)
WaitPcap(l) ==
  /\ main = "wait_pcap" /\ l \notin closed
  /\ looper[l] = "done"
  /\ closed' = closed \cup {l}
  /\ main' = IF Links \subseteq closed' THEN "close_modules" ELSE main
  /\ UNCHANGED <<Others, queue, threading, pc, i>>

(* close_modules() destroys the trees of mod_vmi.  The decision threads are *)
(* not joined yet.                                                         *)
CloseModules ==
  /\ main = "close_modules"
  /\ closed' = closed \cup {"modules"}
  /\ main' = "mark"
  /\ UNCHANGED <<Others, queue, threading, pc, i>>

(* Slip: the thread is joined without a marker. *)
NoMark ==
  /\ main = "mark"
  /\ main' = "join"
  /\ UNCHANGED <<Others, queue, threading, pc, i, closed>>

(* close_thread(): push the marker to queue i. *)
Mark ==
  /\ main = "mark"
  /\ queue' = [queue EXCEPT ![i] = Append(@, Last)]
  /\ main' = "join"
  /\ UNCHANGED <<Others, threading, pc, i, closed>>

(* close_thread(): join thread i, drop its queue, go on with the next. *)
Join ==
  /\ main = "join"
  /\ de[i] = "done"
  /\ i' = i + 1
  /\ main' = IF i + 1 < DecisionThreads THEN "mark" ELSE "stop"
  /\ UNCHANGED <<Others, queue, threading, pc, closed>>

(* close_thread(): threading = NOK, without the lock. *)
Stop ==
  /\ main = "stop"
  /\ threading' = FALSE
  /\ main' = "broadcast"
  /\ UNCHANGED <<Others, queue, pc, i, closed>>

(* close_thread(): g_cond_broadcast(), without the lock. *)
Broadcast ==
  /\ main = "broadcast"
  /\ pc' = [t \in Sleepers |-> IF pc[t] = "wait" THEN "woken" ELSE pc[t]]
  /\ main' = "join_backup"
  /\ UNCHANGED <<Others, queue, threading, i, closed>>

JoinBackup ==
  /\ main = "join_backup"
  /\ pc["backup"] = "end"
  /\ main' = "join_clean"
  /\ UNCHANGED <<Others, queue, threading, pc, i, closed>>

(* Slip: the cleaner is not waited for. *)
JoinNoClean ==
  /\ main = "join_clean"
  /\ main' = "close_rpc"
  /\ UNCHANGED <<Others, queue, threading, pc, i, closed>>

JoinClean ==
  /\ main = "join_clean"
  /\ pc["clean"] = "end"
  /\ main' = "close_rpc"
  /\ UNCHANGED <<Others, queue, threading, pc, i, closed>>

(* close_rpc_server(): join the server, then the thread that stops it. *)
CloseRpc ==
  /\ main = "close_rpc"
  /\ Rpc => server = "done" /\ pc["kill"] = "end"
  /\ main' = "close_conn_trees"
  /\ UNCHANGED <<Others, queue, threading, pc, i, closed>>

CloseConnTrees ==
  /\ main = "close_conn_trees"
  /\ closed' = closed \cup {"trees"}
  /\ main' = "close_hash"
  /\ UNCHANGED <<Others, queue, threading, pc, i>>

(* The log files and close_hash(), which frees links, modules and targets. *)
CloseHash ==
  /\ main = "close_hash"
  /\ closed' = closed \cup {"hash"}
  /\ main' = "exit"
  /\ UNCHANGED <<Others, queue, threading, pc, i>>

-----------------------------------------------------------------------------
Init ==
  /\ breakloop = [l \in Links |-> FALSE]
  /\ looper = [l \in Links |-> "run"]
  /\ raw = [l \in Links |-> <<>>]
  /\ captured = 0
  /\ queue = [t \in Threads |-> <<>>]
  /\ work = [t \in Threads |-> <<>>]
  /\ de = [t \in Threads |-> "run"]
  /\ handled = <<>>
  /\ threading = TRUE
  /\ pc = [t \in Sleepers |-> IF t = "clean" THEN "lock" ELSE "test"]
  /\ server = IF Rpc THEN "run" ELSE "done"
  /\ main = "wait_pcap"
  /\ i = 0
  /\ closed = {}

LooperStep(l) == Push(l) \/ LooperReturns(l)
DeStep(t) == Pop(t) \/ Handle(t)
CleanStep == CleanLock \/ CleanTest \/ Clean
SleeperStep(t) == SleeperTest(t) \/ SleeperWait(t) \/ SleeperReturns(t)
MainStep ==
  \/ \E l \in Links : WaitPcap(l)
  \/ CloseModules
  \/ Mark \/ Join \/ Stop \/ Broadcast \/ JoinBackup \/ JoinClean
  \/ CloseRpc \/ CloseConnTrees \/ CloseHash

Next ==
  \/ \E f \in Flows : Capture(f)
  \/ Signal
  \/ \E l \in Links : LooperStep(l)
  \/ \E t \in Threads : DeStep(t)
  \/ CleanStep
  \/ \E t \in Sleepers : SleeperStep(t) \/ Expire(t) \/ Spurious(t)
  \/ MainStep

Spec == Init /\ [][Next]_vars

(* The scheduler runs every thread that can run, and time passes.  Packets *)
(* and signals come as they please, and no wait is owed a spurious return. *)
FairSpec ==
  /\ Spec
  /\ \A l \in Links : WF_vars(LooperStep(l))
  /\ \A t \in Threads : WF_vars(DeStep(t))
  /\ WF_vars(CleanStep)
  /\ \A t \in Sleepers : WF_vars(SleeperStep(t)) /\ WF_vars(Expire(t))
  /\ WF_vars(MainStep)

-----------------------------------------------------------------------------
(* Properties.                                                             *)

Places == {"lock", "test", "wait", "woken", "expired", "clean", "end"}
MainPlaces ==
  {"wait_pcap", "close_modules", "mark", "join", "stop", "broadcast", "join_backup",
   "join_clean", "close_rpc", "close_conn_trees", "close_hash", "exit"}

(* Every variable keeps its type; in particular a decision thread never    *)
(* works on, or hands to the connection table, the marker that main()      *)
(* pushes: only captured packets are handled.                              *)
TypeOK ==
  /\ breakloop \in [Links -> BOOLEAN]
  /\ looper \in [Links -> {"run", "done"}]
  /\ raw \in [Links -> Seq(Packets)]
  /\ captured \in 0 .. MaxPackets
  /\ queue \in [Threads -> Seq(Packets \cup {Last})]
  /\ work \in [Threads -> Seq(Packets)]
  /\ de \in [Threads -> {"run", "done"}]
  /\ handled \in Seq(Packets)
  /\ threading \in BOOLEAN
  /\ pc \in [Sleepers -> Places]
  /\ server \in {"run", "done"}
  /\ main \in MainPlaces
  /\ i \in 0 .. DecisionThreads
  /\ closed \subseteq Links \cup {"modules", "trees", "hash"}

(* close_thread(): "let's make sure all packets already queued get         *)
(* processed".  When the decision threads are joined, every packet that    *)
(* was ever captured has been handled.                                     *)
AllHandled ==
  main \notin {"wait_pcap", "close_modules", "mark", "join"} => Len(handled) = captured

(* globals.h on de_queues: packets of a connection are processed in FIFO   *)
(* order.  Two packets of a session captured on the same link are handled  *)
(* in the order of their capture.                                          *)
SessionFifo ==
  \A j, k \in DOMAIN handled :
    /\ j < k
    /\ handled[j].flow.session = handled[k].flow.session
    /\ handled[j].flow.link = handled[k].flow.link
    => handled[j].n < handled[k].n

(* Neither the connection trees nor the tables are freed under a running   *)
(* thread: the trees outlive the decision threads and the cleaner, and the *)
(* tables of links, modules and targets outlive every thread.              *)
FreedUnused ==
  /\ "trees" \in closed =>
       (\A t \in Threads : de[t] = "done") /\ pc["clean"] = "end"
  /\ "hash" \in closed =>
       /\ \A l \in Links : looper[l] = "done"
       /\ \A t \in Sleepers : pc[t] = "end"
       /\ server = "done"

(* close_thread(): the packets that are still queued at exit "get          *)
(* processed".  To process one is to ask the modules and to send what      *)
(* comes of it through the handle of a link, so no decision thread is in   *)
(* the middle of a turn once a handle is closed or the modules are.        *)
ProcessedOpen == \A t \in Threads : work[t] # <<>> => closed = {}

(* A termination signal ends the program: no marker, join or wait blocks   *)
(* for ever.                                                               *)
SignalEnds == (\A l \in Links : breakloop[l]) ~> (main = "exit")

=============================================================================
