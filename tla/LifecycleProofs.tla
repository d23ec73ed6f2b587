--------------------------- MODULE LifecycleProofs ---------------------------
(***************************************************************************)
(* Proofs about module Lifecycle, for any links, flows, number of decision *)
(* threads and number of packets, with and without the XML-RPC server.     *)
(***************************************************************************)
EXTENDS Lifecycle, FiniteSetTheorems, SequenceTheorems, TLAPS

-----------------------------------------------------------------------------
(* The inductive invariant.                                                *)

(* main() has done what its place says: it has joined the loopers, the     *)
(* decision threads up to i, the sleepers, and freed nothing before.       *)
InvMain ==
  /\ \A l \in Links : looper[l] = "done" => raw[l] = <<>>
  /\ \A l \in Links \cap closed : looper[l] = "done"
  /\ main # "wait_pcap" => Links \subseteq closed
  /\ main \in {"mark", "join"} => i < DecisionThreads
  /\ main \in {"wait_pcap", "close_modules"} => i = 0
  /\ main \notin {"wait_pcap", "close_modules", "mark", "join"} => i = DecisionThreads
  /\ main \in {"join_clean", "close_rpc", "close_conn_trees", "close_hash", "exit"} =>
       pc["backup"] = "end"
  /\ main \in {"close_rpc", "close_conn_trees", "close_hash", "exit"} => pc["clean"] = "end"
  /\ main \in {"close_conn_trees", "close_hash", "exit"} /\ Rpc =>
       server = "done" /\ pc["kill"] = "end"
  /\ ~Rpc => server = "done"
  /\ "trees" \in closed => main \in {"close_hash", "exit"}
  /\ "hash" \in closed => main = "exit"

(* A marker is the last thing in its queue, and a thread that has seen it  *)
(* has nothing left.                                                       *)
InvMarkers ==
  \A t \in Threads :
    /\ t < i => de[t] = "done"
    /\ de[t] = "done" =>
         work[t] = <<>> /\ queue[t] = <<>> /\ (t < i \/ (t = i /\ main = "join"))
    /\ \A k \in 1 .. Len(queue[t]) :
         queue[t][k] = Last => k = Len(queue[t]) /\ t = i /\ main = "join"

(* The packets in each place. *)
Arrived == {p \in Packets : \E l \in Links : raw[l] # <<>> /\ p = raw[l][1]}
Waiting == {p \in Packets : \E t \in Threads : \E k \in 1 .. Len(queue[t]) : p = queue[t][k]}
Working == {p \in Packets : \E t \in Threads : work[t] # <<>> /\ p = work[t][1]}
Done == {p \in Packets : \E k \in 1 .. Len(handled) : p = handled[k]}

(* Every packet that was captured is in some place, and each place has the *)
(* packets that belong there.                                              *)
InvPlaces ==
  /\ \A l \in Links : raw[l] = <<>> \/ (Len(raw[l]) = 1 /\ raw[l][1].flow.link = l)
  /\ \A t \in Threads : work[t] = <<>> \/ (Len(work[t]) = 1 /\ QueueId(work[t][1].flow) = t)
  /\ \A t \in Threads : \A k \in 1 .. Len(queue[t]) :
       queue[t][k] # Last => QueueId(queue[t][k].flow) = t
  /\ \A p \in Arrived \cup Waiting \cup Working \cup Done : p.n <= captured
  /\ \A m \in 1 .. captured : \E p \in Arrived \cup Waiting \cup Working \cup Done : p.n = m

(* p is another packet than q and, if one queue and one link order them,   *)
(* the earlier.                                                            *)
Earlier(p, q) ==
  /\ p.n # q.n
  /\ QueueId(p.flow) = QueueId(q.flow) /\ p.flow.link = q.flow.link => p.n < q.n

InvOrder ==
  /\ \A p \in Done : \A q \in Arrived \cup Waiting \cup Working : Earlier(p, q)
  /\ \A p \in Working : \A q \in Arrived \cup Waiting : Earlier(p, q)
  /\ \A p \in Waiting : \A q \in Arrived : Earlier(p, q)
  /\ \A j, k \in 1 .. Len(handled) : j < k => Earlier(handled[j], handled[k])
  /\ \A t \in Threads : \A j, k \in 1 .. Len(queue[t]) :
       j < k /\ queue[t][k] # Last => Earlier(queue[t][j], queue[t][k])
  /\ \A t, u \in Threads : \A j \in 1 .. Len(queue[t]), k \in 1 .. Len(queue[u]) :
       t # u /\ queue[t][j] # Last /\ queue[u][k] # Last => queue[t][j].n # queue[u][k].n
  /\ \A t, u \in Threads :
       t # u /\ work[t] # <<>> /\ work[u] # <<>> => work[t][1].n # work[u][1].n
  /\ \A l, m \in Links :
       l # m /\ raw[l] # <<>> /\ raw[m] # <<>> => raw[l][1].n # raw[m][1].n

IInv == TypeOK /\ InvMain /\ InvMarkers /\ InvPlaces /\ InvOrder

-----------------------------------------------------------------------------
(* Constants and types.                                                    *)

(* The marker of close_thread() cannot be taken for a packet. *)
LEMMA LastIsNoPacket == Last \notin Packets
<1>1. DOMAIN Last = {"last"}
  BY DEF Last
<1>2. \A p \in Packets : DOMAIN p = {"flow", "n"}
  BY DEF Packets
<1> QED BY <1>1, <1>2

LEMMA QueueIdType ==
  ASSUME NEW f \in Flows
  PROVE  QueueId(f) \in Threads
<1>1. f.saddr \in Nat /\ f.daddr \in Nat /\ DecisionThreads \in Nat \ {0}
  BY LifecycleAssumption
<1> QED BY <1>1 DEF QueueId, Threads

LEMMA SleepersType == "clean" \in Sleepers /\ "backup" \in Sleepers
BY DEF Sleepers

LEMMA TypeInit == Init => TypeOK
BY LifecycleAssumption DEF Init, TypeOK, Threads, Sleepers, Places, MainPlaces

(* One step keeps the types. *)
LEMMA TypeStep ==
  ASSUME TypeOK, InvMain, Next
  PROVE  TypeOK'
<1> USE LifecycleAssumption DEF TypeOK
<1>1. ASSUME NEW f \in Flows, Capture(f) PROVE TypeOK'
  <2>1. [flow |-> f, n |-> captured + 1] \in Packets
    BY <1>1 DEF Capture, Packets
  <2> QED BY <1>1, <2>1 DEF Capture
<1>2. CASE Signal
  BY <1>2 DEF Signal
<1>3. ASSUME NEW l \in Links, Push(l) PROVE TypeOK'
  <2>1. raw[l][1] \in Packets
    BY <1>3 DEF Push
  <2>2. QueueId(raw[l][1].flow) \in Threads
    BY <2>1, QueueIdType DEF Packets
  <2> QED BY <1>3, <2>1, <2>2 DEF Push
<1>4. ASSUME NEW l \in Links, LooperReturns(l) PROVE TypeOK'
  BY <1>4 DEF LooperReturns
<1>5. ASSUME NEW t \in Threads, Pop(t) PROVE TypeOK'
  <2>1. /\ Head(queue[t]) \in Packets \cup {Last}
        /\ Tail(queue[t]) \in Seq(Packets \cup {Last})
    BY <1>5 DEF Pop
  <2>2. queue' \in [Threads -> Seq(Packets \cup {Last})]
    BY <1>5, <2>1 DEF Pop
  <2>3. de' \in [Threads -> {"run", "done"}] /\ work' \in [Threads -> Seq(Packets)]
    <3>1. CASE Head(queue[t]) = Last
      BY <1>5, <3>1 DEF Pop
    <3>2. CASE Head(queue[t]) # Last
      <4> DEFINE w == <<Head(queue[t])>>
      <4>1. w \in Seq(Packets)
        BY <2>1, <3>2
      <4>2. work' = [work EXCEPT ![t] = w] /\ de' = de
        BY <1>5, <3>2 DEF Pop
      <4> HIDE DEF w
      <4> QED BY <4>1, <4>2
    <3> QED BY <3>1, <3>2
  <2> QED BY <1>5, <2>2, <2>3 DEF Pop
<1>6. ASSUME NEW t \in Threads, Handle(t) PROVE TypeOK'
  <2>1. work[t][1] \in Packets
    BY <1>6 DEF Handle
  <2> QED BY <1>6, <2>1 DEF Handle
<1>7. CASE CleanStep
  <2>1. pc' \in [Sleepers -> Places] /\ UNCHANGED <<Outside, server>>
    <3>1. CASE CleanLock
      BY <3>1, SleepersType DEF CleanLock, Goto, Places
    <3>2. CASE CleanTest
      BY <3>2, SleepersType DEF CleanTest, Goto, Places
    <3>3. CASE Clean
      BY <3>3, SleepersType DEF Clean, Goto, Places
    <3> QED BY <1>7, <3>1, <3>2, <3>3 DEF CleanStep
  <2> QED BY <2>1 DEF Outside
<1>8. ASSUME NEW t \in Sleepers, SleeperStep(t) \/ Expire(t) \/ Spurious(t) PROVE TypeOK'
  <2>1. pc' \in [Sleepers -> Places] /\ server' \in {"run", "done"} /\ UNCHANGED Outside
    <3>1. CASE SleeperTest(t)
      BY <3>1 DEF SleeperTest, Goto, Places
    <3>2. CASE SleeperWait(t)
      BY <3>2 DEF SleeperWait, Goto, Places
    <3>3. CASE SleeperReturns(t)
      BY <3>3 DEF SleeperReturns, Goto, Places
    <3>4. CASE Expire(t)
      BY <3>4 DEF Expire, Goto, Places
    <3>5. CASE Spurious(t)
      BY <3>5 DEF Spurious, Goto, Places
    <3> QED BY <1>8, <3>1, <3>2, <3>3, <3>4, <3>5 DEF SleeperStep
  <2> QED BY <2>1 DEF Outside
<1>9. CASE MainStep
  <2>1. ASSUME NEW l \in Links, WaitPcap(l) PROVE TypeOK'
    BY <2>1 DEF WaitPcap, Others, MainPlaces
  <2>2. CASE Mark
    <3>1. queue' \in [Threads -> Seq(Packets \cup {Last})]
      <4>1. i \in Threads
        BY <2>2 DEF Mark, InvMain, Threads
      <4>2. Append(queue[i], Last) \in Seq(Packets \cup {Last})
        BY <4>1
      <4> QED BY <2>2, <4>1, <4>2 DEF Mark
    <3> QED BY <2>2, <3>1 DEF Mark, Others, MainPlaces
  <2>3. CASE Join
    <3>1. i \in Threads
      BY <2>3 DEF Join, Threads, InvMain
    <3> QED BY <2>3, <3>1 DEF Join, Others, MainPlaces, Threads
  <2>4. CASE Stop
    BY <2>4 DEF Stop, Others, MainPlaces
  <2>5. CASE Broadcast
    BY <2>5 DEF Broadcast, Others, MainPlaces, Places
  <2>6. CASE JoinBackup \/ JoinClean \/ CloseRpc
    BY <2>6 DEF JoinBackup, JoinClean, CloseRpc, Others, MainPlaces
  <2>7. CASE CloseModules \/ CloseConnTrees \/ CloseHash
    BY <2>7 DEF CloseModules, CloseConnTrees, CloseHash, Others, MainPlaces
  <2> QED BY <1>9, <2>1, <2>2, <2>3, <2>4, <2>5, <2>6, <2>7 DEF MainStep
<1> QED BY <1>1, <1>2, <1>3, <1>4, <1>5, <1>6, <1>7, <1>8, <1>9 DEF Next, LooperStep, DeStep

-----------------------------------------------------------------------------
(* What main() has done.                                                   *)

LEMMA MainInit == Init => InvMain
BY LifecycleAssumption DEF Init, InvMain, Threads, Sleepers

LEMMA MainStepKeeps ==
  ASSUME TypeOK, InvMain, Next
  PROVE  InvMain'
<1> USE DEF InvMain
<1>1. ASSUME NEW f \in Flows, Capture(f) PROVE InvMain'
  <2>1. f.link \in Links
    BY LifecycleAssumption
  <2> QED BY <1>1, <2>1 DEF Capture, TypeOK
<1>2. CASE Signal
  BY <1>2 DEF Signal
<1>3. ASSUME NEW l \in Links, Push(l) PROVE InvMain'
  BY <1>3 DEF Push, TypeOK
<1>4. ASSUME NEW l \in Links, LooperReturns(l) PROVE InvMain'
  BY <1>4 DEF LooperReturns, TypeOK
<1>5. ASSUME NEW t \in Threads, DeStep(t) PROVE InvMain'
  BY <1>5 DEF DeStep, Pop, Handle
<1>6. CASE CleanStep
  BY <1>6, SleepersType DEF CleanStep, CleanLock, CleanTest, Clean, Goto, Outside, TypeOK
<1>7. ASSUME NEW t \in Sleepers, SleeperStep(t) \/ Expire(t) \/ Spurious(t) PROVE InvMain'
  BY <1>7, SleepersType
     DEF SleeperStep, SleeperTest, SleeperWait, SleeperReturns, Expire, Spurious, Goto, Outside,
         TypeOK, Sleepers
<1>8. CASE MainStep
  <2> USE LifecycleAssumption
  <2>1. ASSUME NEW l \in Links, WaitPcap(l) PROVE InvMain'
    BY <2>1 DEF WaitPcap, Others
  <2>2. CASE Mark
    BY <2>2 DEF Mark, Others
  <2>3. CASE Join
    BY <2>3 DEF Join, Others, TypeOK
  <2>4. CASE Stop
    BY <2>4 DEF Stop, Others
  <2>5. CASE Broadcast
    BY <2>5 DEF Broadcast, Others
  <2>6. CASE JoinBackup \/ JoinClean \/ CloseRpc
    BY <2>6 DEF JoinBackup, JoinClean, CloseRpc, Others
  <2>7. CASE CloseModules \/ CloseConnTrees \/ CloseHash
    BY <2>7 DEF CloseModules, CloseConnTrees, CloseHash, Others
  <2> QED BY <1>8, <2>1, <2>2, <2>3, <2>4, <2>5, <2>6, <2>7 DEF MainStep
<1> QED BY <1>1, <1>2, <1>3, <1>4, <1>5, <1>6, <1>7, <1>8 DEF Next, LooperStep

-----------------------------------------------------------------------------
(* Markers.                                                                *)

LEMMA MarkersInit == Init => InvMarkers
BY LifecycleAssumption DEF Init, InvMarkers, Threads

(* The steps that leave queues and packets alone. *)
Quiet == UNCHANGED <<raw, captured, queue, work, de, handled>>

LEMMA QuietSteps ==
  ASSUME Next
  PROVE  \/ \E f \in Flows : Capture(f)
         \/ \E l \in Links : Push(l)
         \/ \E t \in Threads : Pop(t) \/ Handle(t)
         \/ Mark \/ Join
         \/ Quiet /\ i' = i /\ (main' = main \/ main \notin {"mark", "join"})
BY DEF Next, LooperStep, LooperReturns, Signal, DeStep, CleanStep, CleanLock, CleanTest, Clean,
       SleeperStep, SleeperTest, SleeperWait, SleeperReturns, Expire, Spurious, Outside,
       MainStep, WaitPcap, CloseModules, Stop, Broadcast, JoinBackup, JoinClean, CloseRpc, CloseConnTrees,
       CloseHash, Others, Quiet

LEMMA MarkersStep ==
  ASSUME TypeOK, InvMain, InvMarkers, Next
  PROVE  InvMarkers'
<1> USE DEF InvMarkers
<1>1. ASSUME NEW f \in Flows, Capture(f) PROVE InvMarkers'
  BY <1>1 DEF Capture
<1>2. ASSUME NEW l \in Links, Push(l) PROVE InvMarkers'
  <2> DEFINE p == raw[l][1]
             q == QueueId(p.flow)
  <2>1. p \in Packets
    BY <1>2 DEF Push, TypeOK
  <2>2. q \in Threads /\ p # Last
    BY <2>1, QueueIdType, LastIsNoPacket DEF Packets
  <2>3. main = "wait_pcap" /\ i = 0
    BY <1>2 DEF Push, InvMain
  <2>4. queue' = [queue EXCEPT ![q] = Append(queue[q], p)] /\ UNCHANGED <<i, main, de, work>>
    BY <1>2 DEF Push
  <2> HIDE DEF p, q
  <2>5. /\ queue[q] \in Seq(Packets \cup {Last})
        /\ \A u \in Threads : de[u] # "done" /\ \A k \in 1 .. Len(queue[u]) : queue[u][k] # Last
    BY <2>2, <2>3, LifecycleAssumption DEF TypeOK, Threads
  <2>6. \A k \in 1 .. Len(Append(queue[q], p)) : Append(queue[q], p)[k] # Last
    BY <2>1, <2>2, <2>5
  <2>7. \A u \in Threads : \A k \in 1 .. Len(queue'[u]) : queue'[u][k] # Last
    BY <2>2, <2>4, <2>5, <2>6 DEF TypeOK
  <2> QED BY <2>3, <2>4, <2>5, <2>7, LifecycleAssumption DEF Threads
<1>3. ASSUME NEW t \in Threads, Pop(t) PROVE InvMarkers'
  <2> DEFINE h == Head(queue[t])
  <2>1. /\ queue[t] \in Seq(Packets \cup {Last}) /\ queue[t] # <<>>
        /\ queue' = [queue EXCEPT ![t] = Tail(queue[t])] /\ UNCHANGED <<i, main>>
    BY <1>3 DEF Pop, TypeOK
  <2>2. /\ Len(queue[t]) \in Nat \ {0} /\ Len(Tail(queue[t])) = Len(queue[t]) - 1
        /\ \A k \in 1 .. Len(Tail(queue[t])) : Tail(queue[t])[k] = queue[t][k + 1]
        /\ h = queue[t][1]
    BY <2>1
  <2>3. \A k \in 1 .. Len(queue'[t]) :
          queue'[t][k] = Last => k = Len(queue'[t]) /\ t = i /\ main = "join"
    <3>1. queue'[t] = Tail(queue[t])
      BY <2>1 DEF TypeOK
    <3> QED BY <2>2, <3>1
  <2>4. CASE h = Last
    <3>1. Tail(queue[t]) = <<>> /\ t = i /\ main = "join"
      BY <2>1, <2>2, <2>4
    <3>2. de' = [de EXCEPT ![t] = "done"] /\ work' = work /\ work[t] = <<>>
      BY <1>3, <2>4 DEF Pop
    <3> QED BY <2>1, <2>3, <3>1, <3>2 DEF TypeOK
  <2>5. CASE h # Last
    <3>1. de' = de /\ de[t] = "run" /\ \A u \in Threads \ {t} : work'[u] = work[u]
      BY <1>3, <2>5 DEF Pop, TypeOK
    <3> QED BY <2>1, <2>3, <3>1 DEF TypeOK
  <2> QED BY <2>4, <2>5
<1>4. ASSUME NEW t \in Threads, Handle(t) PROVE InvMarkers'
  BY <1>4 DEF Handle, TypeOK
<1>5. CASE Mark
  <2>1. i \in Threads /\ de[i] # "done"
    BY <1>5, LifecycleAssumption DEF Mark, InvMain, TypeOK, Threads
  <2>2. /\ queue' = [queue EXCEPT ![i] = Append(queue[i], Last)] /\ main' = "join"
        /\ main = "mark" /\ UNCHANGED <<i, de, work>>
    BY <1>5 DEF Mark, Others
  <2> QED BY <2>1, <2>2 DEF TypeOK
<1>6. CASE Join
  <2>1. i \in Nat /\ main = "join" /\ de[i] = "done" /\ i' = i + 1 /\ UNCHANGED <<queue, de, work>>
    BY <1>6, LifecycleAssumption DEF Join, Others, TypeOK
  <2>2. i \in Threads
    BY <1>6, LifecycleAssumption DEF Join, InvMain, TypeOK, Threads
  <2>3. ASSUME NEW t \in Threads PROVE t \in Int /\ (t < i + 1 <=> (t < i \/ t = i))
    BY <2>1, LifecycleAssumption DEF Threads
  <2>4. \A t \in Threads : \A k \in 1 .. Len(queue[t]) : queue[t][k] # Last
    <3> SUFFICES ASSUME NEW t \in Threads, NEW k \in 1 .. Len(queue[t]), queue[t][k] = Last
                 PROVE  FALSE
      OBVIOUS
    <3>1. t = i /\ queue[t] = <<>>
      BY <2>1, <2>2
    <3> QED BY <3>1
  <2> QED BY <2>1, <2>2, <2>3, <2>4
<1>7. CASE Quiet /\ i' = i /\ (main' = main \/ main \notin {"mark", "join"})
  BY <1>7 DEF Quiet
<1> QED BY <1>1, <1>2, <1>3, <1>4, <1>5, <1>6, <1>7, QuietSteps

-----------------------------------------------------------------------------
(* How packets move.                                                       *)

LEMMA PlacesInit == Init => InvPlaces /\ InvOrder
<1> SUFFICES ASSUME Init PROVE InvPlaces /\ InvOrder
  OBVIOUS
<1>1. Arrived = {} /\ Waiting = {} /\ Working = {} /\ Done = {}
  BY DEF Init, Arrived, Waiting, Working, Done
<1> QED BY <1>1 DEF Init, InvPlaces, InvOrder

(* A packet arrives: it is the latest of all. *)
LEMMA CaptureMoves ==
  ASSUME IInv, NEW f \in Flows, Capture(f)
  PROVE  InvPlaces' /\ InvOrder'
<1> DEFINE p == [flow |-> f, n |-> captured + 1]
<1>1. p \in Packets /\ p.flow = f /\ p.n = captured + 1 /\ f.link \in Links /\ captured \in Nat
  BY LifecycleAssumption DEF Capture, Packets, IInv, TypeOK
<1>2. /\ raw' = [raw EXCEPT ![f.link] = <<p>>] /\ captured' = captured + 1
      /\ UNCHANGED <<queue, work, handled>> /\ raw[f.link] = <<>>
  BY DEF Capture
<1> HIDE DEF p
<1>3. raw'[f.link] = <<p>> /\ \A l \in Links \ {f.link} : raw'[l] = raw[l]
  BY <1>1, <1>2 DEF IInv, TypeOK
<1>4. Len(<<p>>) = 1 /\ <<p>>[1] = p /\ <<p>> # <<>>
  OBVIOUS
<1>5. /\ Arrived' = Arrived \cup {p} /\ Waiting' = Waiting /\ Working' = Working /\ Done' = Done
  BY <1>1, <1>2, <1>3, <1>4 DEF Arrived, Waiting, Working, Done
<1>6. \A q \in Arrived \cup Waiting \cup Working \cup Done : q.n \in Nat /\ q.n <= captured
  BY LifecycleAssumption DEF IInv, InvPlaces, Packets, Arrived, Waiting, Working, Done
<1>7. InvPlaces'
  BY <1>1, <1>2, <1>3, <1>4, <1>5, <1>6 DEF IInv, InvPlaces
<1>8. \A q \in Arrived \cup Waiting \cup Working \cup Done : Earlier(q, p)
  BY <1>1, <1>6 DEF Earlier
<1>9. \A l \in Links \ {f.link} : raw'[l] # <<>> => raw'[l][1].n # raw'[f.link][1].n
  <2> SUFFICES ASSUME NEW l \in Links \ {f.link}, raw[l] # <<>> PROVE raw[l][1].n # p.n
    BY <1>3, <1>4
  <2>1. raw[l][1] \in Arrived
    BY DEF IInv, TypeOK, Arrived
  <2> QED BY <1>1, <1>6, <2>1
<1> QED BY <1>1, <1>2, <1>3, <1>4, <1>5, <1>7, <1>8, <1>9 DEF IInv, InvOrder

(* A packet enters its queue behind all that came earlier. *)
LEMMA PushMoves ==
  ASSUME IInv, NEW l \in Links, Push(l)
  PROVE  InvPlaces' /\ InvOrder'
<1> DEFINE p == raw[l][1]
           u == QueueId(p.flow)
<1>1. /\ p \in Packets /\ p \in Arrived /\ p.flow.link = l /\ raw[l] # <<>>
  BY DEF Push, IInv, TypeOK, InvPlaces, Arrived
<1>2. u \in Threads
  BY <1>1, QueueIdType DEF Packets
<1>3. /\ raw' = [raw EXCEPT ![l] = <<>>] /\ queue' = [queue EXCEPT ![u] = Append(queue[u], p)]
      /\ UNCHANGED <<captured, work, handled>>
  BY DEF Push
<1>31. u = QueueId(p.flow)
  OBVIOUS
<1>32. p = raw[l][1]
  OBVIOUS
<1> HIDE DEF p, u
<1>4. raw'[l] = <<>> /\ \A m \in Links \ {l} : raw'[m] = raw[m]
  BY <1>3 DEF IInv, TypeOK
<1>5. /\ queue[u] \in Seq(Packets \cup {Last})
      /\ queue'[u] = Append(queue[u], p) /\ \A t \in Threads \ {u} : queue'[t] = queue[t]
  BY <1>2, <1>3 DEF IInv, TypeOK
<1>6. /\ Len(queue[u]) \in Nat /\ Len(queue'[u]) = Len(queue[u]) + 1
      /\ queue'[u][Len(queue[u]) + 1] = p
      /\ \A k \in 1 .. Len(queue[u]) : queue'[u][k] = queue[u][k]
  BY <1>1, <1>5
<1>7. /\ Arrived' \subseteq Arrived /\ Arrived \subseteq Arrived' \cup {p}
      /\ \A q \in Arrived' : q.n # p.n /\ q.flow.link # l
      /\ Working' = Working /\ Done' = Done
  BY <1>1, <1>3, <1>4, <1>32 DEF Arrived, Working, Done, IInv, InvOrder, InvPlaces
<1>8. Waiting' = Waiting \cup {p}
  <2>1. ASSUME NEW q \in Waiting' PROVE q \in Waiting \cup {p}
    <3>1. PICK t \in Threads : \E k \in 1 .. Len(queue'[t]) : q = queue'[t][k]
      BY DEF Waiting
    <3>2. CASE t = u
      BY <1>6, <2>1, <3>1, <3>2, <1>2 DEF Waiting
    <3>3. CASE t # u
      BY <1>5, <2>1, <3>1, <3>3 DEF Waiting
    <3> QED BY <3>2, <3>3
  <2>2. p \in Waiting'
    BY <1>1, <1>2, <1>6 DEF Waiting
  <2>3. ASSUME NEW q \in Waiting PROVE q \in Waiting'
    <3>1. PICK t \in Threads : \E k \in 1 .. Len(queue[t]) : q = queue[t][k]
      BY <2>3 DEF Waiting
    <3>2. CASE t = u
      BY <1>2, <1>6, <2>3, <3>1, <3>2 DEF Waiting
    <3>3. CASE t # u
      BY <1>5, <2>3, <3>1, <3>3 DEF Waiting
    <3> QED BY <3>2, <3>3
  <2> QED BY <2>1, <2>2, <2>3
<1>9. InvPlaces'
  <2>1. \A m \in Links : raw'[m] = <<>> \/ (Len(raw'[m]) = 1 /\ raw'[m][1].flow.link = m)
    BY <1>4 DEF IInv, InvPlaces
  <2>2. \A t \in Threads : \A k \in 1 .. Len(queue'[t]) :
          queue'[t][k] # Last => QueueId(queue'[t][k].flow) = t
    BY <1>5, <1>6, <1>31 DEF IInv, InvPlaces
  <2> QED BY <1>1, <1>3, <1>7, <1>8, <2>1, <2>2 DEF IInv, InvPlaces
<1>10. \A t \in Threads : \A k \in 1 .. Len(queue[t]) :
         queue[t][k] # Last => queue[t][k] \in Waiting /\ Earlier(queue[t][k], p)
  BY <1>1 DEF Waiting, IInv, InvOrder, TypeOK
<1>11. InvOrder'
  <2>1. /\ \A q \in Done' : \A r \in Arrived' \cup Waiting' \cup Working' : Earlier(q, r)
        /\ \A q \in Working' : \A r \in Arrived' \cup Waiting' : Earlier(q, r)
    BY <1>1, <1>7, <1>8 DEF IInv, InvOrder
  <2>2. \A q \in Waiting' : \A r \in Arrived' : Earlier(q, r)
    BY <1>1, <1>7, <1>8 DEF IInv, InvOrder, Earlier
  <2>3. \A t \in Threads : \A j, k \in 1 .. Len(queue'[t]) :
          j < k /\ queue'[t][k] # Last => Earlier(queue'[t][j], queue'[t][k])
    <3> SUFFICES ASSUME NEW j \in 1 .. Len(queue'[u]), NEW k \in 1 .. Len(queue'[u]),
                        j < k, queue'[u][k] # Last
                 PROVE  Earlier(queue'[u][j], queue'[u][k])
      BY <1>5 DEF IInv, InvOrder
    <3>1. j \in 1 .. Len(queue[u]) /\ queue'[u][j] = queue[u][j]
      BY <1>6
    <3>2. CASE k \in 1 .. Len(queue[u])
      BY <1>2, <1>6, <3>1, <3>2 DEF IInv, InvOrder
    <3>3. CASE k = Len(queue[u]) + 1
      <4>1. queue[u][j] # Last
        BY <1>2, <3>1 DEF IInv, InvMarkers, InvMain, Push
      <4> QED BY <1>2, <1>6, <1>10, <3>1, <3>3, <4>1
    <3> QED BY <1>6, <3>2, <3>3
  <2>4. \A t, v \in Threads : \A j \in 1 .. Len(queue'[t]), k \in 1 .. Len(queue'[v]) :
          t # v /\ queue'[t][j] # Last /\ queue'[v][k] # Last => queue'[t][j].n # queue'[v][k].n
    <3>1. \A t, v \in Threads \ {u} : \A j \in 1 .. Len(queue'[t]), k \in 1 .. Len(queue'[v]) :
            t # v /\ queue'[t][j] # Last /\ queue'[v][k] # Last => queue'[t][j].n # queue'[v][k].n
      BY <1>5 DEF IInv, InvOrder
    <3>2. \A t \in Threads \ {u} : \A j \in 1 .. Len(queue'[t]), k \in 1 .. Len(queue'[u]) :
            queue'[t][j] # Last /\ queue'[u][k] # Last => queue'[t][j].n # queue'[u][k].n
      <4> SUFFICES ASSUME NEW t \in Threads \ {u}, NEW j \in 1 .. Len(queue[t]),
                          NEW k \in 1 .. Len(queue'[u]),
                          queue[t][j] # Last, queue'[u][k] # Last
                   PROVE  queue[t][j].n # queue'[u][k].n
        BY <1>5
      <4>1. CASE k \in 1 .. Len(queue[u])
        <5>1. t \in Threads /\ t # u /\ queue'[u][k] = queue[u][k]
          BY <1>6, <4>1
        <5>2. queue[t][j].n # queue[u][k].n
          BY <1>2, <4>1, <5>1 DEF IInv, InvOrder
        <5> QED BY <5>1, <5>2
      <4>2. CASE k = Len(queue[u]) + 1
        BY <1>6, <1>10, <4>2 DEF Earlier
      <4> QED BY <1>6, <4>1, <4>2
    <3> QED BY <3>1, <3>2
  <2>5. \A m, v \in Links :
          m # v /\ raw'[m] # <<>> /\ raw'[v] # <<>> => raw'[m][1].n # raw'[v][1].n
    BY <1>4 DEF IInv, InvOrder
  <2> QED BY <1>3, <2>1, <2>2, <2>3, <2>4, <2>5 DEF IInv, InvOrder
<1> QED BY <1>9, <1>11

(* A packet that is taken from its queue is earlier than what stays. *)
LEMMA PopMoves ==
  ASSUME IInv, NEW t \in Threads, Pop(t)
  PROVE  InvPlaces' /\ InvOrder'
<1> DEFINE p == queue[t][1]
<1>1. /\ queue[t] \in Seq(Packets \cup {Last}) /\ queue[t] # <<>> /\ work[t] = <<>>
      /\ queue' = [queue EXCEPT ![t] = Tail(queue[t])]
      /\ UNCHANGED <<raw, captured, handled>>
  BY DEF Pop, IInv, TypeOK
<1>2. /\ Len(queue[t]) \in Nat \ {0} /\ Len(queue'[t]) = Len(queue[t]) - 1
      /\ \A k \in 1 .. Len(queue'[t]) : queue'[t][k] = queue[t][k + 1]
      /\ p = Head(queue[t]) /\ p \in Packets \cup {Last}
      /\ \A u \in Threads \ {t} : queue'[u] = queue[u]
  BY <1>1 DEF IInv, TypeOK
<1>3. \A k \in 1 .. Len(queue'[t]) :
        k + 1 \in 1 .. Len(queue[t]) /\ 1 \in 1 .. Len(queue[t]) /\ 1 < k + 1
  BY <1>2
<1>4. Waiting' \subseteq Waiting /\ Waiting \subseteq Waiting' \cup {p}
  <2>1. ASSUME NEW q \in Waiting' PROVE q \in Waiting
    <3>1. PICK u \in Threads : \E k \in 1 .. Len(queue'[u]) : q = queue'[u][k]
      BY <2>1 DEF Waiting
    <3>2. CASE u = t
      BY <1>2, <1>3, <2>1, <3>1, <3>2 DEF Waiting
    <3>3. CASE u # t
      BY <1>2, <2>1, <3>1, <3>3 DEF Waiting
    <3> QED BY <3>2, <3>3
  <2>2. ASSUME NEW q \in Waiting, q # p PROVE q \in Waiting'
    <3>0. PICK u \in Threads : \E k \in 1 .. Len(queue[u]) : q = queue[u][k]
      BY <2>2 DEF Waiting
    <3>1. PICK k \in 1 .. Len(queue[u]) : q = queue[u][k]
      BY <3>0
    <3>2. CASE u = t
      <4>1. k # 1
        BY <2>2, <3>1, <3>2
      <4>2. k - 1 \in 1 .. Len(queue'[t]) /\ queue'[t][k - 1] = queue[t][k]
        BY <1>2, <3>1, <3>2, <4>1
      <4> QED BY <2>2, <3>1, <3>2, <4>2 DEF Waiting
    <3>3. CASE u # t
      BY <1>2, <2>2, <3>1, <3>3 DEF Waiting
    <3> QED BY <3>2, <3>3
  <2> QED BY <2>1, <2>2
<1>5. \A q \in Waiting' : p # Last => Earlier(p, q)
  <2> SUFFICES ASSUME NEW q \in Waiting', p # Last PROVE Earlier(p, q)
    OBVIOUS
  <2>0. PICK u \in Threads : \E k \in 1 .. Len(queue'[u]) : q = queue'[u][k]
    BY DEF Waiting
  <2>1. PICK k \in 1 .. Len(queue'[u]) : q = queue'[u][k]
    BY <2>0
  <2>2. q # Last
    BY LastIsNoPacket DEF Waiting
  <2>3. CASE u = t
    <3>1. q = queue[t][k + 1]
      BY <1>2, <2>1, <2>3
    <3> QED BY <1>3, <2>1, <2>2, <2>3, <3>1 DEF IInv, InvOrder
  <2>4. CASE u # t
    <3>1. q = queue[u][k] /\ k \in 1 .. Len(queue[u]) /\ 1 \in 1 .. Len(queue[t])
      BY <1>2, <2>1, <2>4
    <3>2. q.n # p.n
      BY <2>2, <2>4, <3>1 DEF IInv, InvOrder
    <3>3. QueueId(q.flow) = u /\ QueueId(p.flow) = t
      BY <2>2, <3>1 DEF IInv, InvPlaces
    <3> QED BY <2>4, <3>2, <3>3 DEF Earlier
  <2> QED BY <2>3, <2>4
<1>6. /\ \A u \in Threads : \A j, k \in 1 .. Len(queue'[u]) :
           j < k /\ queue'[u][k] # Last => Earlier(queue'[u][j], queue'[u][k])
      /\ \A u \in Threads : \A k \in 1 .. Len(queue'[u]) :
           queue'[u][k] # Last => QueueId(queue'[u][k].flow) = u
  <2>1. ASSUME NEW u \in Threads \ {t}
        PROVE  /\ \A j, k \in 1 .. Len(queue'[u]) :
                    j < k /\ queue'[u][k] # Last => Earlier(queue'[u][j], queue'[u][k])
               /\ \A k \in 1 .. Len(queue'[u]) :
                    queue'[u][k] # Last => QueueId(queue'[u][k].flow) = u
    BY <1>2 DEF IInv, InvOrder, InvPlaces
  <2>2. ASSUME NEW j \in 1 .. Len(queue'[t]), NEW k \in 1 .. Len(queue'[t]),
               j < k, queue'[t][k] # Last
        PROVE  Earlier(queue'[t][j], queue'[t][k])
    <3>1. /\ j + 1 \in 1 .. Len(queue[t]) /\ queue'[t][j] = queue[t][j + 1]
          /\ k + 1 \in 1 .. Len(queue[t]) /\ queue'[t][k] = queue[t][k + 1]
          /\ j + 1 < k + 1
      BY <1>2, <1>3, <2>2
    <3>2. \A x, y \in 1 .. Len(queue[t]) :
            x < y /\ queue[t][y] # Last => Earlier(queue[t][x], queue[t][y])
      BY DEF IInv, InvOrder
    <3> QED BY <2>2, <3>1, <3>2
  <2>3. \A k \in 1 .. Len(queue'[t]) : queue'[t][k] # Last => QueueId(queue'[t][k].flow) = t
    BY <1>2, <1>3 DEF IInv, InvPlaces
  <2> QED BY <2>1, <2>2, <2>3
<1>7. \A u, v \in Threads : \A j \in 1 .. Len(queue'[u]), k \in 1 .. Len(queue'[v]) :
        u # v /\ queue'[u][j] # Last /\ queue'[v][k] # Last => queue'[u][j].n # queue'[v][k].n
  <2>1. ASSUME NEW u \in Threads, NEW k \in 1 .. Len(queue'[u])
        PROVE  \E j \in 1 .. Len(queue[u]) : queue'[u][k] = queue[u][j]
    <3>1. CASE u = t
      BY <1>2, <1>3, <3>1
    <3>2. CASE u # t
      BY <1>2, <3>2
    <3> QED BY <3>1, <3>2
  <2> SUFFICES ASSUME NEW u \in Threads, NEW v \in Threads, NEW j \in 1 .. Len(queue'[u]),
                      NEW k \in 1 .. Len(queue'[v]), u # v,
                      queue'[u][j] # Last, queue'[v][k] # Last
               PROVE  queue'[u][j].n # queue'[v][k].n
    OBVIOUS
  <2>2. PICK m \in 1 .. Len(queue[u]) : queue'[u][j] = queue[u][m]
    BY <2>1
  <2>3. PICK o \in 1 .. Len(queue[v]) : queue'[v][k] = queue[v][o]
    BY <2>1
  <2>4. queue[u][m].n # queue[v][o].n
    BY <2>2, <2>3 DEF IInv, InvOrder
  <2> QED BY <2>2, <2>3, <2>4
<1>8. CASE p = Last
  <2>1. work' = work
    BY <1>2, <1>8 DEF Pop
  <2>2. Waiting' = Waiting /\ Working' = Working /\ Arrived' = Arrived /\ Done' = Done
    BY <1>1, <1>4, <1>8, <2>1, LastIsNoPacket DEF Waiting, Working, Arrived, Done
  <2>3. InvPlaces'
    BY <1>1, <1>6, <2>1, <2>2 DEF IInv, InvPlaces
  <2>4. InvOrder'
    BY <1>1, <1>6, <1>7, <2>1, <2>2 DEF IInv, InvOrder
  <2> QED BY <2>3, <2>4
<1>9. CASE p # Last
  <2> DEFINE w == <<p>>
  <2>1. work' = [work EXCEPT ![t] = w]
    BY <1>2, <1>9 DEF Pop
  <2>2. w # <<>> /\ Len(w) = 1 /\ w[1] = p
    OBVIOUS
  <2> HIDE DEF w
  <2>3. work'[t] = w /\ \A u \in Threads \ {t} : work'[u] = work[u]
    BY <2>1 DEF IInv, TypeOK
  <2>4. /\ p \in Packets /\ p \in Waiting /\ QueueId(p.flow) = t
    BY <1>2, <1>9 DEF Waiting, IInv, InvPlaces
  <2>5. Working' = Working \cup {p} /\ Arrived' = Arrived /\ Done' = Done
    BY <1>1, <2>2, <2>3, <2>4 DEF Working, Arrived, Done
  <2>6. InvPlaces'
    <3>1. \A u \in Threads :
            work'[u] = <<>> \/ (Len(work'[u]) = 1 /\ QueueId(work'[u][1].flow) = u)
      BY <2>2, <2>3, <2>4 DEF IInv, InvPlaces
    <3> QED BY <1>1, <1>4, <1>6, <2>4, <2>5, <3>1 DEF IInv, InvPlaces
  <2>7. \A u \in Threads \ {t} : work'[u] # <<>> => work'[u][1].n # p.n
    <3> SUFFICES ASSUME NEW u \in Threads \ {t}, work[u] # <<>> PROVE work[u][1].n # p.n
      BY <2>3
    <3>1. work[u][1] \in Working
      BY DEF Working, IInv, TypeOK
    <3> QED BY <2>4, <3>1 DEF IInv, InvOrder, Earlier
  <2>8. InvOrder'
    <3>1. /\ \A q \in Done' : \A r \in Arrived' \cup Waiting' \cup Working' : Earlier(q, r)
          /\ \A q \in Working' : \A r \in Arrived' \cup Waiting' : Earlier(q, r)
          /\ \A q \in Waiting' : \A r \in Arrived' : Earlier(q, r)
      BY <1>4, <1>5, <1>9, <2>4, <2>5 DEF IInv, InvOrder
    <3>2. \A u, v \in Threads :
            u # v /\ work'[u] # <<>> /\ work'[v] # <<>> => work'[u][1].n # work'[v][1].n
      BY <2>2, <2>3, <2>7 DEF IInv, InvOrder
    <3> QED BY <1>1, <1>6, <1>7, <3>1, <3>2 DEF IInv, InvOrder
  <2> QED BY <2>6, <2>8
<1> QED BY <1>8, <1>9

(* A packet that is handled is later than what was handled of its queue    *)
(* and link, and earlier than what is not handled yet.                     *)
LEMMA HandleMoves ==
  ASSUME IInv, NEW t \in Threads, Handle(t)
  PROVE  InvPlaces' /\ InvOrder'
<1> DEFINE p == work[t][1]
<1>1. /\ work[t] # <<>> /\ p \in Packets /\ p \in Working /\ QueueId(p.flow) = t
      /\ handled \in Seq(Packets) /\ handled' = Append(handled, p)
      /\ work'[t] = <<>> /\ (\A u \in Threads \ {t} : work'[u] = work[u])
      /\ UNCHANGED <<raw, captured, queue>>
  BY DEF Handle, IInv, TypeOK, InvPlaces, Working
<1>2. /\ Len(handled) \in Nat /\ Len(handled') = Len(handled) + 1
      /\ handled'[Len(handled) + 1] = p
      /\ \A k \in 1 .. Len(handled) : handled'[k] = handled[k]
  BY <1>1
<1>3. /\ Working' \subseteq Working /\ Working \subseteq Working' \cup {p}
      /\ Arrived' = Arrived /\ Waiting' = Waiting
  BY <1>1 DEF Working, Arrived, Waiting
<1>4. \A q \in Working' : Earlier(p, q)
  <2> SUFFICES ASSUME NEW u \in Threads \ {t}, work[u] # <<>> PROVE Earlier(p, work[u][1])
    BY <1>1 DEF Working
  <2>1. QueueId(work[u][1].flow) = u /\ work[u][1].n # p.n
    BY <1>1 DEF IInv, InvPlaces, InvOrder
  <2> QED BY <1>1, <2>1 DEF Earlier
<1> HIDE DEF p
<1>5. Done' = Done \cup {p}
  BY <1>1, <1>2 DEF Done
<1>6. InvPlaces'
  BY <1>1, <1>3, <1>5 DEF IInv, InvPlaces
<1>7. \A j, k \in 1 .. Len(handled') : j < k => Earlier(handled'[j], handled'[k])
  <2> SUFFICES ASSUME NEW j \in 1 .. Len(handled'), NEW k \in 1 .. Len(handled'), j < k
               PROVE  Earlier(handled'[j], handled'[k])
    OBVIOUS
  <2>1. j \in 1 .. Len(handled) /\ handled'[j] = handled[j]
    BY <1>2
  <2>2. CASE k \in 1 .. Len(handled)
    BY <1>2, <2>1, <2>2 DEF IInv, InvOrder
  <2>3. CASE k = Len(handled) + 1
    <3>1. handled[j] \in Done
      BY <1>1, <2>1 DEF Done
    <3> QED BY <1>1, <1>2, <2>1, <2>3, <3>1 DEF IInv, InvOrder
  <2> QED BY <1>2, <2>2, <2>3
<1>8. \A u, v \in Threads :
        u # v /\ work'[u] # <<>> /\ work'[v] # <<>> => work'[u][1].n # work'[v][1].n
  BY <1>1 DEF IInv, InvOrder
<1>9. /\ \A q \in Done' : \A r \in Arrived' \cup Waiting' \cup Working' : Earlier(q, r)
      /\ \A q \in Working' : \A r \in Arrived' \cup Waiting' : Earlier(q, r)
      /\ \A q \in Waiting' : \A r \in Arrived' : Earlier(q, r)
  BY <1>1, <1>3, <1>4, <1>5 DEF IInv, InvOrder
<1>10. InvOrder'
  BY <1>1, <1>7, <1>8, <1>9 DEF IInv, InvOrder
<1> QED BY <1>6, <1>10

(* The marker is no packet. *)
LEMMA MarkMoves ==
  ASSUME IInv, Mark
  PROVE  InvPlaces' /\ InvOrder'
<1>1. /\ i \in Threads /\ queue[i] \in Seq(Packets \cup {Last})
      /\ queue'[i] = Append(queue[i], Last) /\ (\A t \in Threads \ {i} : queue'[t] = queue[t])
      /\ UNCHANGED <<raw, captured, work, handled>>
  <2>1. i \in Threads
    BY LifecycleAssumption DEF Mark, IInv, TypeOK, InvMain, Threads
  <2>2. queue \in [Threads -> Seq(Packets \cup {Last})]
    BY DEF IInv, TypeOK
  <2>3. queue' = [queue EXCEPT ![i] = Append(queue[i], Last)]
    BY DEF Mark
  <2>4. UNCHANGED <<raw, captured, work, handled>>
    BY DEF Mark, Others
  <2> QED BY <2>1, <2>2, <2>3, <2>4
<1>2. /\ Len(queue[i]) \in Nat /\ Len(queue'[i]) = Len(queue[i]) + 1
      /\ queue'[i][Len(queue[i]) + 1] = Last
      /\ \A k \in 1 .. Len(queue[i]) : queue'[i][k] = queue[i][k]
  BY <1>1
<1>3. ASSUME NEW t \in Threads
      PROVE  /\ \A k \in 1 .. Len(queue'[t]) :
                  queue'[t][k] # Last => k \in 1 .. Len(queue[t]) /\ queue'[t][k] = queue[t][k]
             /\ \A k \in 1 .. Len(queue[t]) :
                  k \in 1 .. Len(queue'[t]) /\ queue'[t][k] = queue[t][k]
  <2>1. CASE t = i
    BY <1>2, <2>1
  <2>2. CASE t # i
    BY <1>1, <2>2
  <2> QED BY <2>1, <2>2
<1>4. Waiting' = Waiting
  <2>1. ASSUME NEW q \in Packets
        PROVE  \A t \in Threads : (\E k \in 1 .. Len(queue'[t]) : q = queue'[t][k]) <=>
                                  (\E k \in 1 .. Len(queue[t]) : q = queue[t][k])
    <3>1. q # Last
      BY LastIsNoPacket
    <3> QED BY <1>3, <3>1
  <2> QED BY <2>1 DEF Waiting
<1>5. Arrived' = Arrived /\ Working' = Working /\ Done' = Done
  BY <1>1 DEF Arrived, Working, Done
<1>6. InvPlaces'
  <2>1. \A t \in Threads : \A k \in 1 .. Len(queue'[t]) :
          queue'[t][k] # Last => QueueId(queue'[t][k].flow) = t
    BY <1>3 DEF IInv, InvPlaces
  <2> QED BY <1>1, <1>4, <1>5, <2>1 DEF IInv, InvPlaces
<1>7. \A t \in Threads : \A j, k \in 1 .. Len(queue'[t]) :
        j < k /\ queue'[t][k] # Last => Earlier(queue'[t][j], queue'[t][k])
  <2> SUFFICES ASSUME NEW t \in Threads, NEW j \in 1 .. Len(queue'[t]),
                      NEW k \in 1 .. Len(queue'[t]), j < k, queue'[t][k] # Last
               PROVE  Earlier(queue'[t][j], queue'[t][k])
    OBVIOUS
  <2>1. k \in 1 .. Len(queue[t]) /\ queue'[t][k] = queue[t][k]
    BY <1>3
  <2>2. j \in 1 .. Len(queue[t])
    BY <1>1, <2>1 DEF IInv, TypeOK
  <2>3. queue'[t][j] = queue[t][j]
    BY <1>3, <2>2
  <2> QED BY <2>1, <2>2, <2>3 DEF IInv, InvOrder
<1>8. \A t, u \in Threads : \A j \in 1 .. Len(queue'[t]), k \in 1 .. Len(queue'[u]) :
        t # u /\ queue'[t][j] # Last /\ queue'[u][k] # Last => queue'[t][j].n # queue'[u][k].n
  <2> SUFFICES ASSUME NEW t \in Threads, NEW u \in Threads, NEW j \in 1 .. Len(queue'[t]),
                      NEW k \in 1 .. Len(queue'[u]), t # u,
                      queue'[t][j] # Last, queue'[u][k] # Last
               PROVE  queue'[t][j].n # queue'[u][k].n
    OBVIOUS
  <2>1. /\ j \in 1 .. Len(queue[t]) /\ queue'[t][j] = queue[t][j]
        /\ k \in 1 .. Len(queue[u]) /\ queue'[u][k] = queue[u][k]
    BY <1>3
  <2>2. queue[t][j].n # queue[u][k].n
    BY <2>1 DEF IInv, InvOrder
  <2> QED BY <2>1, <2>2
<1>9. InvOrder'
  BY <1>1, <1>4, <1>5, <1>7, <1>8 DEF IInv, InvOrder
<1> QED BY <1>6, <1>9

-----------------------------------------------------------------------------
(* The invariant is inductive: every step keeps it. *)
LEMMA Inductive == IInv /\ [Next]_vars => IInv'
<1> SUFFICES ASSUME IInv, [Next]_vars PROVE IInv'
  OBVIOUS
<1>1. CASE UNCHANGED vars
  <2>1. Arrived' = Arrived /\ Waiting' = Waiting /\ Working' = Working /\ Done' = Done
    BY <1>1 DEF vars, Arrived, Waiting, Working, Done
  <2>2. TypeOK' /\ InvMain' /\ InvMarkers'
    BY <1>1 DEF IInv, vars, TypeOK, InvMain, InvMarkers
  <2>3. InvPlaces' /\ InvOrder'
    BY <1>1, <2>1 DEF IInv, vars, InvPlaces, InvOrder
  <2> QED BY <2>2, <2>3 DEF IInv
<1>2. CASE Next
  <2>1. TypeOK' /\ InvMain' /\ InvMarkers'
    BY <1>2, TypeStep, MainStepKeeps, MarkersStep DEF IInv
  <2>2. ASSUME UNCHANGED <<raw, captured, queue, work, handled>> PROVE InvPlaces' /\ InvOrder'
    <3>1. Arrived' = Arrived /\ Waiting' = Waiting /\ Working' = Working /\ Done' = Done
      BY <2>2 DEF Arrived, Waiting, Working, Done
    <3> QED BY <2>2, <3>1 DEF IInv, InvPlaces, InvOrder
  <2>3. InvPlaces' /\ InvOrder'
    BY <1>2, <2>2, QuietSteps, CaptureMoves, PushMoves, PopMoves, HandleMoves, MarkMoves
       DEF Quiet, Join, Others
  <2> QED BY <2>1, <2>3 DEF IInv
<1> QED BY <1>1, <1>2

LEMMA Invariance == Spec => []IInv
<1>1. Init => IInv
  BY TypeInit, MainInit, MarkersInit, PlacesInit DEF IInv
<1> QED BY <1>1, Inductive, PTL DEF Spec

(* Every variable keeps its type: in particular a decision thread works on *)
(* captured packets only, never on the marker that close_thread() pushes.  *)
THEOREM TypeCorrect == Spec => []TypeOK
<1>1. IInv => TypeOK
  BY DEF IInv
<1> QED BY <1>1, Invariance, PTL

(* A finished count: when nothing is on its way, every number up to        *)
(* captured is the number of exactly one packet handled.                   *)
LEMMA NothingLeft ==
  ASSUME IInv, Arrived = {}, Waiting = {}, Working = {}
  PROVE  Len(handled) = captured
<1> DEFINE f == [k \in 1 .. Len(handled) |-> handled[k].n]
<1>1. Len(handled) \in Nat /\ captured \in Nat /\ handled \in Seq(Packets)
  BY LifecycleAssumption DEF IInv, TypeOK
<1>2. ASSUME NEW k \in 1 .. Len(handled)
      PROVE  handled[k] \in Done /\ f[k] \in 1 .. captured
  <2>1. handled[k] \in Done
    BY <1>1 DEF Done
  <2> QED BY <1>1, <2>1, LifecycleAssumption DEF IInv, InvPlaces, Done, Packets
<1>3. f \in [1 .. Len(handled) -> 1 .. captured]
  BY <1>2
<1>4. ASSUME NEW j \in 1 .. Len(handled), NEW k \in 1 .. Len(handled), j # k
      PROVE  f[j] # f[k]
  <2>1. j < k \/ k < j
    BY <1>1, <1>4
  <2> QED BY <2>1 DEF IInv, InvOrder, Earlier
<1>5. ASSUME NEW m \in 1 .. captured PROVE \E k \in 1 .. Len(handled) : f[k] = m
  BY DEF IInv, InvPlaces, Done
<1>6. f \in Bijection(1 .. Len(handled), 1 .. captured)
  BY <1>3, <1>4, <1>5 DEF Bijection, Injection, Surjection, IsInjective
<1>7. ExistsBijection(1 .. Len(handled), 1 .. captured)
  BY <1>6 DEF ExistsBijection
<1>8. Cardinality(1 .. captured) = Len(handled)
  BY <1>1, <1>7, FS_CountingElements
<1>9. Cardinality(1 .. captured) = captured
  BY <1>1, FS_Interval
<1> QED BY <1>8, <1>9

(* close_thread() returns from its joins only when every packet that was   *)
(* ever captured has been handled.                                         *)
THEOREM CapturedIsHandled == Spec => []AllHandled
<1>1. IInv => AllHandled
  <2> SUFFICES ASSUME IInv, main \notin {"wait_pcap", "close_modules", "mark", "join"}
               PROVE  Len(handled) = captured
    BY DEF AllHandled
  <2>1. \A l \in Links : raw[l] = <<>>
    BY DEF IInv, InvMain
  <2>2. \A t \in Threads : t < i
    BY LifecycleAssumption DEF IInv, InvMain, Threads
  <2>3. \A t \in Threads : work[t] = <<>> /\ queue[t] = <<>>
    BY <2>2 DEF IInv, InvMarkers
  <2>4. Arrived = {} /\ Working = {}
    BY <2>1, <2>3 DEF Arrived, Working
  <2>5. Waiting = {}
    BY <2>3 DEF Waiting
  <2> QED BY <2>4, <2>5, NothingLeft
<1> QED BY <1>1, Invariance, PTL

(* The external host of a session has one address on a link. *)
OneAddress ==
  \A f, g \in Flows :
    f.session = g.session /\ f.link = g.link =>
      IF f.link \in Uplinks THEN f.saddr = g.saddr ELSE f.daddr = g.daddr

(* Packets of a session that come over one link are handled in the order   *)
(* in which they were captured, however the threads are scheduled: the     *)
(* address of the external host alone chooses the queue.                   *)
THEOREM SessionsInOrder ==
  ASSUME OneAddress
  PROVE  Spec => []SessionFifo
<1>1. \A f, g \in Flows : f.session = g.session /\ f.link = g.link => QueueId(f) = QueueId(g)
  BY DEF OneAddress, QueueId
<1>2. IInv => SessionFifo
  <2> SUFFICES ASSUME IInv, NEW j \in DOMAIN handled, NEW k \in DOMAIN handled, j < k,
                      handled[j].flow.session = handled[k].flow.session,
                      handled[j].flow.link = handled[k].flow.link
               PROVE  handled[j].n < handled[k].n
    BY DEF SessionFifo
  <2>1. /\ j \in 1 .. Len(handled) /\ k \in 1 .. Len(handled)
        /\ handled[j] \in Packets /\ handled[k] \in Packets
    BY DEF IInv, TypeOK
  <2>2. QueueId(handled[j].flow) = QueueId(handled[k].flow)
    BY <1>1, <2>1 DEF Packets
  <2> QED BY <2>1, <2>2 DEF IInv, InvOrder, Earlier
<1> QED BY <1>2, Invariance, PTL

(* close_conn_trees() and close_hash() run when no thread that uses what   *)
(* they free is left.                                                      *)
THEOREM FreedWhenUnused == Spec => []FreedUnused
<1>1. IInv => FreedUnused
  <2> SUFFICES ASSUME IInv PROVE FreedUnused
    OBVIOUS
  <2>1. ASSUME "trees" \in closed
        PROVE  (\A t \in Threads : de[t] = "done") /\ pc["clean"] = "end"
    <3>1. main \in {"close_hash", "exit"} /\ i = DecisionThreads
      BY <2>1 DEF IInv, InvMain
    <3>2. \A t \in Threads : t < i
      BY <3>1, LifecycleAssumption DEF Threads
    <3> QED BY <3>1, <3>2 DEF IInv, InvMain, InvMarkers
  <2>2. ASSUME "hash" \in closed
        PROVE  /\ \A l \in Links : looper[l] = "done"
               /\ \A t \in Sleepers : pc[t] = "end"
               /\ server = "done"
    BY <2>2, LifecycleAssumption DEF IInv, InvMain, Sleepers
  <2> QED BY <2>1, <2>2 DEF FreedUnused
<1> QED BY <1>1, Invariance, PTL

=============================================================================
