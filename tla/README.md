# Honeybrid in TLA+

Honeybrid is a gateway between the Internet and a farm of honeypots.  A new
connection from outside goes to a low-interaction honeypot (LIH); when a rule
finds it interesting, it is handed over to a high-interaction honeypot (HIH)
while the attacker sees one unbroken session.  This directory holds TLA+ models
of the parts of the program that make this work, the TLC runs that check them on
small instances and the proofs that hold for every instance.

`PROJECT.json` lists the components, the runs, the source lines each definition
models, the hazards found in the code and the theorems.  Paths below are under
`src/src/`.

    tlc -workers 2 -config RedirectTcp.cfg MCRedirection     # a run
    tlapm ConnectionsProofs.tla                              # a module's proofs

## 1. The system

### Components

| Component | State | Operations | Must hold |
|---|---|---|---|
| Redirection and replay (`honeybrid.c` `de_thread`, `netcode.c`, `connections.c` `setup_redirection`) | per connection: `state`, `BUFFER`, `replay_id`, `expected_data`, `hih.delta`, `hih.lih_syn_seq` | one turn of `de_thread()` per packet, by origin and state | the HIH gets what EXT sent, in order and once; numbers are continuous for EXT and translated for the HIH; the LIH is not heard after the handover; a replay ends |
| Connection tables (`connections.c`) | the trees `ext_tree1/2`, `int_tree1/2`, `intra_tree1/2`, the pin trees, `connlock`, one lock per connection | lookup, creation, update, redirection, expiry, removal | trees hold live connections only; nobody works on a freed one; no thread blocks on a lock with `connlock` in its hand; one flow, one connection; pins are counted right; idle connections go |
| Decision rules (`decision_engine.c`) | a tree of nodes per rule | build from an equation, walk per packet, destroy | the tree decides what the equation says; a node is freed once; the walk ends |
| Threads and termination (`honeybrid.c`, `modules.c`, `rpc_server.c`) | queues, `threading`, `threading_cond`, thread states | capture, queue, handle, signal, drain, join, free | what was captured is handled, in session order; nothing is freed in use; a signal ends the program |
| Connections that honeypots open (`honeybrid.c` `de_thread`, `decision_engine.c` in CONTROL, `connections.c` `create_conn`, `switch_conn_to_intra`, `mod_dns_control.c`) | state and destination of a connection, `int_tree1/2`, `intra_tree1/2`, internal handlers | creation by destination, control and intranet rules, relays to the outside and to internal hosts, the move of a DNS connection to an internal server | a connection is found from both sides and only from them, also after a move; a rejection is final; what was moved inside stays inside; a turn ends; idle connections go |
| Decision modules (`mod_*.c`, `modules.c`) | `mod_source`, `mod_control`, `mod_hash`: a GKeyFile of entries and its backup file (`mod_source_time` too, but `get_module()` never finds it); the others none | one answer per packet, backup, restart | limits hold; an entry lives as long as it should; updates get into the file |
| Targets and management (`management.c`, `rpc_server.c`) | targets, front/back/intra handlers | add and remove while packets flow | only `add_intra_handler()` and the end of the XML-RPC server are modelled |
| Configuration (`config_rules.y`, `config_syntax.l`) | none after start | parsing | what a module finds of its settings and its file is modelled; the rest are the CONSTANTS |
| Headers and addresses (`netcode.c`, `convenience.c`) | none | checksums, MAC/VLAN/IP rewriting, ICMP, ARP | not modelled: byte layout without state |
| Logging (`log.c`, `pcap_tool.c`), start-up (`daemon.c`) | files, sockets | input and output | not modelled |
| VM introspection (`mod_vmi.c`) | trees of clones | — | not modelled: unfinished in this commit (section 5) |

### How they interact

Each link has a `pcap_looper()` thread.  Its callback copies a packet into the
queue that `IP2QUEUEID` chooses from the last byte of the external address.  A
decision thread pops it and calls `init_conn()`, which searches the connection
tables under `connlock` and returns with the connection's own lock held (or
creates the connection).  The turn then depends on the packet's origin (EXT, LIH,
HIH, INTRA) and on the state of the connection: a packet of EXT in INIT or
DECISION is put to the decision engine, which walks the rule of the frontend, the
back_picker or the backends and may call `setup_redirection()`; packets of the
HIH in REPLAY drive `replay()`.  The first packet of a honeypot opens a connection
to the outside or to an internal host, which plays an address for the honeypots;
the control rule of the target, or the rule of the internal host, decides on it,
and `mod_dns_control` may move it from the outside to an internal server in the
middle.  Modules that remember sources write to a table that all decision threads
share and enter it into `module_to_save`, from which the backup thread saves it to
a file once a minute.  The cleaner wakes up every minute, takes
`connlock` and removes idle connections it can lock.  At exit `main()` joins the
loopers and closes their handles, closes the modules, sends every queue an end
marker, joins the other threads and frees the tables.

### What is hard

*Ordering and numbers*: the replay hands packets to the HIH from three places (two
loops and direct forwarding) and translates 32-bit numbers both ways.
*Interleaving*: the decision threads and the cleaner meet in the tables under two
kinds of lock, and some changes are made under neither.  *Termination*: a flag, a
condition variable, queue markers and joins in one order.  *Shared structure*: the
rule trees share subtrees, a pin is shared by connections, a connection changes
trees while its packets are on their way.  *Crash and restart*: the memory of the
decision modules survives in a file that is written by emptying it first.
`PROJECT.json`
("hazards") lists each case at its line.

## 2. Modules

| Module | Contents |
|---|---|
| `Redirection` | one EXT-initiated connection, TCP or UDP; every action is one turn of `de_thread()` |
| `Handover` | what a redirected connection promises, without buffers and numbers |
| `RedirectionHandover` | the refinement mapping from `Redirection` to `Handover` |
| `Rules` | one rule: construction, walk, destruction |
| `Lifecycle` | threads, queues and termination |
| `Connections` | the tables, the pins, the decision threads and the cleaner |
| `Outbound` | connections opened by honeypots, their rules, relays and trees |
| `Sources` | the decision modules that remember, and the backup thread |
| `RedirectionProofs`, `HandoverProofs`, `RulesProofs`, `LifecycleProofs`, `ConnectionsProofs`, `OutboundProofs`, `SourcesProofs` | the theorems about each of them (section 4) |
| `ModularArithmetic` | lemmas on `%` for `RedirectionProofs` |
| `MC*` | instances for TLC |

Definitions named "Slip" (`SeqSubWide`, `MayRemoveAny`, ...) are mutated forms of
the definition that follows them.  They are used by no specification; each shows
that a property notices a plausible mistake.

### Redirection

The variables are the fields of `conn_struct` and what the three hosts have sent
and received.  A packet is a segment of 0 or 1 units of a stream at a position,
with sequence and acknowledgment numbers modulo `SeqMod`.  The SYN is the unit at
position 0.  `ExtInit`, `ExtDecision`, `ExtRedirect`, `ExtForward`, `ExtProxy` and
`ExtDiscard` are the cases of origin EXT, `LihRecord`, `LihProxy` and `LihDiscard`
those of origin LIH, and `HihUnexpected`, `HihExpected`, `HihOverrun` and
`HihForward` those of origin HIH.  `ExtRedirect` is the whole of
`setup_redirection()`: reset of the LIH, first forwarding loop, expected data.
`HihExpected` is the whole of `replay()` for the expected packet, with its second
loop.  Rules answer freely; `BackDecisions` has every outcome of
`DE_process_packet()` for the target's handlers.  The hosts (`MayAck`, `MaySend`,
...) are TCP stacks that number and acknowledge what they received, and
retransmit.  Payload contents and TCP timestamps are left out: a packet
whose numbers are the expected ones is accepted by `test_expected()` whatever its
payload, and differences are only noted in `replay_problem`.

### Handover and RedirectionHandover

`Handover` says in seven actions what an attacker and the two honeypots may count
on: the LIH serves; at some packet the connection is redirected; the HIH is given
what was recorded, always as an initial part of it in order; when it has all of it
it takes over; from then on every packet passes to it and only it is heard.
`RedirectionHandover` maps `state` to the phase, the packets of EXT in `BUFFER` to
the log, and what the hosts received to `front`, `given` and `heard`; `replay_id`,
the expected data and all numbers disappear.

### Connections

A key is source, destination and a value for the pair of ports.  A tree is a
function from keys to connections and an operation on it one step.  What holds a
mutex over several steps is explicit: `locked` for the lock of each connection,
`connlock` for the cleaner, which walks the trees in several steps; the decision
threads' own critical sections under `connlock` are one step each.
`Lookup`, `Update`, `Skip`, `CreateExt` and `Finish` are steps of a decision thread.
Where the code takes no lock, its reads and writes are steps of their own, between
which anything may happen.  A honeypot's new connection finds its pin in `LookupPin`
and reads and counts it in `CreatePinned` (or finds none: `CreateUnpinned`), then
enters the trees under `connlock` in `InsertOut`; `setup_redirection()` is
`LookupTarget`, then `RefuseTarget`, `CountTarget` or `NewTarget`, then `Redirect`.
`hand` is the pin that a thread has in its hand, as it was when it was looked up.
`count++` on a pin that changed since may count either value or lose its write
(`CountedInHand`), a freed one may show any address (`PinIp`).  A pin's fields `by`,
`writes` and `freed` and the set `raced` (the pins that were used after such a change)
are history variables.  `CleanStart`, `CleanOne`, `CleanSkip`, `CleanEnd` are
`clean()`.  `TargetUnpinned` removes under the key the code removes under.

### Outbound

The same tables, for the connections that a LIH or a HIH opens.  Packets from inside
are queued by their destination, so two threads handle the two directions of an
internal connection, and here a thread may wait for a connection while it has
`connlock`: `Lookup` and `Hold` are the two halves of `conn_lookup()`, and
`SwitchToIntra` wants `connlock` with the connection's lock held.  `OpenExt`,
`OpenIntra`, `OpenLan`, `Refuse` and `RefuseIntra` are `create_conn()` by
destination; `Control` is a turn in INIT or CONTROL with the verdict of the rule
and the relay that follows, `ControlDns` and `SwitchToIntra` one in which
`mod_dns_control` moves the connection; `FromOutside`, `FromInside`, `FromPot` are
the relays, `Deny`, `Dropped` and `Discard` the cases in which nothing is sent.  A
control rule may ask other modules before `mod_dns_control`, as "control and
dns_control" of `honeybrid.conf:280` does; `mod_dns_control` is then asked only about
packets that they accept.  Its internal server may be configured on an interface that
is no link: `AddIntraHandler` refuses the handler, the connection is moved to it
all the same, and the next packet ends the process in `nat()` (`FromPotNoLink`).  `wire` is what
the last step injected, and to which side.  Rules answer freely; `Verdicts` is what
the code makes of the answers.

### Sources

One module that remembers, called by several threads.  `GetModule` is the dispatch by
prefix, by which `source_time` runs `mod_source`.  A call is three steps:
`Lookup` copies the entry, `Set` writes the changed copy, `Save` enters the memory
into `module_to_save`; nothing is locked in between.  `BackupLoop` to `BackupSteal`
are the backup thread, with the file emptied by `BackupOpen` before it is written by
`BackupPrint`.  `Crash` may happen anywhere, `Stop` and `Exit` are the orderly end,
`Start` reads the file.  `Tick` is wall-clock time, which may be set back.  The
settings go through `Atoi(Bytes(n))`: the grammar stores
numbers as binary integers and the modules read them as text, so a setting of 50
(the character 2) is read as 2.

A life of an entry lasts from the packet that makes or renews it to the next renewal,
restarts that read the entry back included; the field `life` numbers the lives of a
key.  `passed` counts what was accepted in each life and is never reset.  `lost` is, for
each life, the most that a counter read back at a restart was behind `passed`: what
the file did not know.  These, `version` and `missed` are history variables, and no
guard or field of the code reads them.

### Lifecycle

Capture and queueing (`Capture`, `Push`), the decision threads (`Pop`, `Handle`),
the threads that sleep on `threading_cond` (test of the flag, wait, wakeup, time
limit), the signal handler, and `main()` from `wait_pcap()` over `close_modules()` and
`close_thread()` to `close_conn_trees()` and `close_hash()`, one action per statement that another
thread can notice.

### Rules

`CreateFirst`/`CreateNext`/`CreateReturn` are the loop of `DE_create_tree()` over
a heap of nodes, `Packet` and `Decide` the walk, `DestroyTree` and `DestroyReturn`
the recursive destruction with an explicit stack.  All equations within the bounds
are initial states.

## 3. Runs

| Run | Expected | Shows |
|---|---|---|
| `redirect_tcp` | pass | all properties of a TCP redirection, and that it implements `Handover` (`HandsOver`); numbers wrap (modulo 4, ISNs 3 and 2) |
| `redirect_udp` | pass | the replay without numbers to order it, with a back_picker and refusals of exclusive HIHs |
| `redirect_limit` | violation of `NoCrash` | with `max_packet_buffer` the deciding packet may not be recorded, and `replay()` reads past the buffer |
| `lifecycle` | pass | capture, drain and termination with a signal at any time |
| `rules` | pass | walk and destruction on every equation of two groups of two modules |
| `connections` | pass | the tables under two decision threads and the cleaner, with an exclusive HIH |
| `connections_pin` | violation of `NoFreedPin` | the pin of an exclusive HIH is freed and stays in its tree |
| `connections_held` | violation of `PinHeld` | the cleaner frees a pin between its unlocked lookup and its use by a new connection |
| `outbound` | pass | honeypots' connections under each kind of control rule, two threads and the cleaner, with a DNS query that moves a connection |
| `outbound_inside` | violation of `StaysInside` | from its second packet on a connection to an internal host is relayed to the outside |
| `sources` | pass | each module that remembers, with interleaved calls, backup, failing `fopen()`, a clock set back, exit, crash and restart |
| `sources_shared` | violation of `SharedRateLimit` | two threads that handle one source lose updates and exceed the limit |

Six more configurations are kept beside these runs.  Each checks one property that a
document or a comment of the code states and that TLC refutes:

| Configuration | Module | Violated | Because |
|---|---|---|---|
| `RulesOr.cfg` | `MCRules` | `RuleMeans` (`honeybrid.conf:239`) | `DE_create_tree()` returns the head of the last group (`decision_engine.c:163`): of an OR only the last part is asked; a third conjunct is dropped (72) |
| `LifecycleRpc.cfg` | `MCLifecycle` | `SignalEnds` (`globals.h:48`) | `rpc_server_die_signal()` tests the flag outside the lock (`rpc_server.c:511`) and can miss its wakeup |
| `LifecycleDrain.cfg` | `MCLifecycle` | `ProcessedOpen` (`honeybrid.c:441`) | the handles (433) and the modules (1241) are closed before the queues are drained |
| `ConnectionsExclusive.cfg` | `MCConnections` | `OneTarget` (`connections.c:1399`) | two threads redirect attacks on two addresses to one exclusive HIH: both find no pin (1405) and both insert one (1430) |
| `SourcesHash.cfg` | `MCSources` | `KnownPayloads` (`honeybrid.conf:97`) | `mod_hash` subtracts the old duration from the time of day (`mod_hash.c:275`), so that a payload seen twice counts as expired |
| `SourcesTime.cfg` | `MCSources` | `TimeFrame` (`honeybrid.conf:103`) | `get_module()` compares by prefix (`modules.c:156`): `source_time` runs `mod_source` |

Deadlock is not checked: EXT may stop sending, no packet may arrive, and the
program may exit.  "Something must happen" is stated as a liveness property
instead (`ReplayCompletes`, `SignalEnds`, `CallsReturn`, `Expires`, `TurnsEnd`,
`Written`).

### Bounds

* `MaxExtPkts` = 4, `MaxLihPkts` = 3 (2 for UDP), `MaxUnits` = 2: handshake,
  request, deciding packet and one more, with a retransmission; two rounds of
  "the LIH spoke, EXT spoke" are needed for a replay that waits twice.  Modulo 4
  every run wraps.  The theorems remove these bounds' influence: they hold for any
  values.
* `MaxPackets` = 3 (1 in `LifecycleDrain.cfg`), two links, two decision threads: two packets of one session
  and one of another, so that a wrong queue shows as a wrong order.
* `MaxGroups` = `MaxConjuncts` = 2 (3 in `RulesOr.cfg`): the code treats the first
  and the following groups differently and looks at two modules of a group.
* `MaxConns` = 2: two connections share a pin, or one is created while the other
  is removed.  The instance has two hosts in two threads, one attacked address,
  and honeypots that answer and open connections on ports of their own, one of them to
  the attacked address, so that it finds a pin that the cleaner may free or another
  thread count meanwhile.  `ConnectionsExclusive.cfg` has two attacked addresses.  Two flows
  that need the same key in one tree (one host and port on two attacked addresses)
  are not in it; there the second replaces the first, and the hazard list says so.
* `Outbound`: `MaxConns` = 2, one LIH, one HIH, two threads, one address outside that
  an internal server will play, one that an exclusive internal host plays, one
  unknown neighbour; the four configurations are no rule, modules before
  `mod_dns_control`, `mod_dns_control` alone with an interface that is no link, and modules
  with `deny_hih_init`.  Two connections are enough for one to be moved, removed or
  rejected while the other is created or waited for.
* `Sources`: `MaxUpdates` = 3, `MaxStarts` = `MaxFailures` = `MaxSetbacks` = 1, two keys with
  a thread each (`sources_shared`: one of them handled by both threads) and three instants ten minutes and a little over a day
  apart: an entry is made, counted and renewed or refused; a second update
  arrives while the first is written.  With a limit of 2 (`max_packet` = 50, see
  above) the third packet is the first that must be refused.

No symmetry is used: hosts and threads are tied by `Home`.

### Fairness

* `Redirection`: weak fairness of the HIH repeating what the LIH had said
  (`HihMirrors`) and of its taking up the numbers (`HihCatchesUp`).  This is an
  assumption on a host, not on the program: the replay cannot end unless the HIH
  answers like the LIH.  EXT and the LIH owe nothing.
* `Lifecycle`: weak fairness of each thread and of each time limit, which is what
  the scheduler gives; the signal itself is not fair, and `SignalEnds` speaks of
  runs in which it came.
* `Rules`: weak fairness of the walk and the destruction, which are plain loops.
* `Connections`: strong fairness of the decision threads, because the cleaner takes
  `connlock` again and again but sleeps a minute in between; weak fairness of the
  cleaner.  Packets and the passing of the delay are free.
* `Outbound`: strong fairness of the decision threads and of the cleaner, since each
  may find `connlock` taken by others again and again; glib's mutexes starve nobody
  for ever.  Packets and idle time are free.
* `Sources`: weak fairness of the backup thread, whose wait has a time limit, and of the
  calls of the decision threads, which are straight code.  Crashes are free.

## 4. Proofs

Every invariant and every action property that a passing run checks is also a
theorem, for all values of the constants that satisfy the module's named
assumption, which TLC evaluates in its runs.  Where a theorem needs more than
that, the hypothesis is a definition of the proof module and the text below says
what happens without it; the runs' instances satisfy the hypotheses.  No
invariant is inductive as it stands.  Each proof module defines an inductive
invariant `IInv` as a conjunction of named parts, was checked by TLC on the run's
instance before it was proved, and proves one lemma per action (or per group of
actions that leave the same things alone), `Init => IInv`, the induction, and then
the theorems.

### Redirection

`RedirectionProofs` proves, for every target configuration, modulus, pair of
initial sequence numbers and number of packets:

* `TypeCorrect`: `Spec => []TypeOK`;
* `NeverCrashes`, `ReplayInOrder`, `ReplayIsExact`, `AcksAreTranslated`,
  `SequenceContinuous`: the invariants `NoCrash`, `HihInOrder`, `ReplayExact`,
  `AckTranslated`, `SeqContinuous`, under two assumptions: `UnlimitedBuffer` (no
  `max_packet_buffer`) and `PickerIsSound` (a back_picker names backends that
  exist).  Both are needed: `redirect_limit` is what happens without the first; as
  to the second, backends with a rule get the IDs 2, 4, ... while a random picker
  chooses among 1 .. n, and the hazard list has the line;
* `PeerNeverReturns`: the action property `OnePeer`, without them.

None of the invariants is inductive.  `IInv` adds: recorded packets of EXT are
numbered in order and the HIH has only packets that were sent (`InvIds`); what
each state implies of the rest, above all that in REPLAY the last packet recorded
is EXT's and beyond `replay_id`, so that `replay()` never runs off the end
(`InvStates`); the HIH's packets are EXT's share of the first `replay_id` packets
recorded (`InvGiven`); `delta` is the difference of the two ISNs as soon as both
SYNs were seen, and acknowledgments are recorded after a packet of the LIH
(`InvNumbers`).  Each action has a lemma for each of these parts; the induction
combines them.  `ReplayIsExact` and `PeerNeverReturns` follow from it or from the
actions directly.  `ModularArithmetic` proves the facts on `%` that the translation
of numbers rests on (`DivMod`, `RemainderUnique`, `ModShift`, `ModAddLeft`,
`ModAddRight`).  All are proved from the assumptions `ConfigAssumption` and
`BoundsAssumption` of `Redirection`, which TLC evaluates in the redirection runs.

### Handover

`HandoverProofs` proves `Implements`: under the same two assumptions `Spec => HandsOver`,
every behaviour of `Redirection` is one of `Handover`.  The initial states map
directly.  For the steps, `IInv` gives that what the HIH has is in order
(`GivenInOrder`) and an initial part of what was recorded (`GivenInitial`: it is EXT's
share of the first `replay_id` packets); one lemma for each origin of a packet
(`ExtRefines`, `LihRefines`, `HihRefines`) then finds the action of `Handover`, or the
stutter, for every case of the turn.  The mapping needs the invariant: without
`InvGiven` a step of `replay()` could not be seen to extend an initial part by the
packets that follow it.

### Connections

`TypeCorrect`, `NothingDangles`, `HeldStaysLive`, `LookupNeverBlocks` and
`PinsAreCounted` need no hypothesis.  The induction rests on two facts.  A packet with a host outside is
handled by that host's thread (`Owner`), so the connection that a thread finds is
held by nobody else, and the cleaner frees only what it could lock; and every entry
of a tree is a live connection under one of its own keys (`InvTrees`), so that
`remove_conn()`, which removes by key, leaves no entry behind.  `InvThreads` ties
`cur`, `locked` and `pc` together, `InvFiled` says which connections are in their
tree although `create_conn()` inserts a honeypot's connection one step after it
created it.

* `FlowsAreUnique` assumes `PortsApart`: two honeypots do not open sessions with one
  host under one pair of ports.  The key that EXT's answers are found under has no
  address of the honeypot.
* `RepliesAreFound` assumes `OneAttack`: a host does not attack two addresses from
  one port.  The key of the LIH's answers does not have the attacked address, so the
  second connection would replace the first.  `InvReplies` is its own induction.
* `PinsAreCounted` is about the frontend's pins, with exclusive HIHs or without; the pins of
  exclusive HIHs themselves go wrong (`connections_pin`).
  The count of a pin is the cardinality of the set of its users (`InvPins`), for the
  pins that are not in `raced`: when nothing has touched the pin between `LookupPin`
  and `CreatePinned` (`Untouched`), the copy in the thread's hand is the pin in the
  tree and `old + 1` counts one more user; `by` and `writes` tell this pin from one that
  was freed and made again, or counted and released.  `InvHand` says which pin a
  thread has in its hand at each step.  Of the pins in
  `raced` nothing is claimed: `connections_held` is what happens to them.

### Outbound

`IInv` has no hypothesis.  Beside the threads it says which trees a connection
belongs to (`Out` until `switch_conn_to_intra()` has run, `In` after it) and that what
is in a tree belongs there under its own key (`InvFiled`); that a thread's packet is
the initiator's, or an answer of the side that the connection has at that moment
(`InvKeys`); and what each state implies (`InvStates`).  The hard step is
`mod_dns_control()`, which changes the side of a connection under the connection's
lock while another thread may wait for it with `connlock`: an answer from outside
that waits would be on a side that is gone, but it would be handled by the very
thread that makes the move.

* `TypeCorrect` and `RejectedIsSilent` need nothing else: only a turn that relays
  injects a packet (`WireStep`), and in it neither the rule nor `deny_hih_init` has
  refused (`Relayed`).
* `MovedStaysInside` rests on `HandlersAssumption` of the module: an address stands for
  an IP on its link and VLAN, and no internal host has that of a honeypot or of a host
  outside.
* `NothingDangles` assumes `QueriesOfHihs`: the LIH sends no DNS query.  Section 5 has
  the reason; TLC finds the freed connection when such a query is added to the
  instance.  `InvLive` is its induction on top of `IInv`.
* `BothSidesFind` assumes besides `PortsApart`: the ports tell the sessions of one
  honeypot, and those with one address, apart.  The keys of the two answer trees lack
  one of the addresses.  Its induction (`InvFound`) adds that a thread about to create
  a connection has a key that no live one was opened with, which holds over the gap
  between `conn_lookup()` and `create_conn()` because equal keys come to one thread.

### Lifecycle

`InvMain` says which threads are joined at each statement of `main()`, `InvMarkers`
that the end marker is the last in its queue and only in the queue of the thread that
is being joined, `InvPlaces` that each captured packet is on a link, in a queue, in
work or handled, and `InvOrder` that of two packets of one link and one queue the
earlier is ahead.  From them `CapturedIsHandled` (by counting), `FreedWhenUnused`,
`TypeCorrect` and, under `OneAddress`, `SessionsInOrder`.  `OneAddress`, that packets
of a session on a link name the same external address to `IP2QUEUEID`, is what a
session is for links with a target; for two internal hosts it fails
(`honeybrid.c:100`).

### Sources

`TypeCorrect`, `LimitHolds`, `NothingForgotten` and the action property `RenewalIsDue`,
without hypotheses: the settings are whatever `Atoi` makes of the bytes, negative
numbers included, and the clock may be set back (`RenewalIsDue` speaks of behaviours up to
the first time it is).  `InvCalls` says that the copy of an entry that one thread handles
is not stale when it is written back, `InvTimes` that no entry is from the future
while the clock was not set back, `InvLives` that every entry, wherever it is kept, is in
a life that has begun.  `InvPassed` bounds what has passed in the life of an entry in
memory by its counter and `lost`: an accepted packet raises both sides, and a
restart that reads an older counter raises `lost` by what is missing.  `InvBackup` and
`InvDown` follow the versions of the memory through the backup thread and the end.
`LimitHolds` therefore says that the limit is exact in a life without restart, and that
restarts cost at most what the file did not know.

### Rules

For equations of any number of groups and modules.  `InvTree` describes what
`DE_create_tree()` has built: the subtree of the last group is one or two nodes of its
own, and everything before it is out of reach.  `LastGroupDecides` is therefore the
exact meaning of the code, of which `RulesOr.cfg` is the visible consequence, and
`SimpleRulesMean`, `PickersName` and `NoDoubleFree` follow from the same invariant.

### Only model-checked

The liveness properties `ReplayCompletes`, `SignalEnds`, `CallsReturn`, `Expires`,
`TurnsEnd` and `Written`: fairness and ENABLED are beyond the prover.

## 5. What the models leave out

* Races on a tree.  `setup_redirection()` and parts of `create_conn()` change trees
  without `connlock` while the cleaner may walk them; in the models an insertion is
  one step.  A freed pin is marked, its reader finds any address, and a write to it is
  lost; what else such a write corrupts is not modelled.
* The pins of exclusive internal hosts: `Outbound` refuses such a connection freely.
  `add_conn_to_intra()` has no caller.
* Removal of targets and handlers by remote management: connections keep pointers to
  them and nothing counts the references, so there is no protocol to state.
* `mod_vmi`: the body of `get_new_clone()` is commented out, it returns no value and
  leaves the target locked, and the trees it would fill are never created.
* `mod_counter`, `mod_random`, `mod_yesno`, `mod_backpick_random` keep no state; the other
  models let a rule answer as it likes.  (`mod_yesno` accepts on 0 and rejects on 1,
  the reverse of the comment at `mod_yesno.c:38`; `mod_random` with the value 1 never
  accepts.)
* What a turn finds behind a closed handle or a closed module at exit: `LifecycleDrain.cfg`
  shows that it gets there, and the turn then counts as handled.
* Rules that ask `mod_dns_control` before other modules.  In the order of
  `honeybrid.conf:280` a rule that rejects or defers does not reach `mod_dns_control`, so
  one packet is never both moved and rejected; in the reverse order it could be.
  An incomplete configuration of `mod_dns_control` accepts, as a rule of other modules
  may.
* `mod_source_time`: no configuration runs it (`SourcesTime.cfg`).
* Errors of `malloc`, of injection (`pcap_inject`) and of parsing a packet.
* Known defects that the models have and no run is about; the hazard list describes
  them: connections to unknown hosts of the HIH's own net enter no tree and are never
  freed (`connections.c:870`); an internal host that opens a connection makes
  `create_conn()` read an uninitialised pointer (`connections.c:1055`); the DNS query
  that moves a connection is not relayed; an
  update that arrives while the file is written is not saved until the next one
  (`modules.c:207`); the path of the file is freed before it is read at start, and
  with the setting `backup` alone the modules, which ask for `backup_file`, find no
  path and answer DEFER.
* DNS queries of a LIH.  `Outbound` models them, and the instance leaves them out
  (`Queries`): `remove_conn()` has no case for a connection of a LIH that was moved
  inside (`connections.c:1195`), so it is freed while the internal trees still hold it,
  and `NoDangling` and `InItsTrees` do not hold with such queries.  What `outbound` shows
  of moves is for the connections of HIHs.
* Three more: a redirection before the LIH has spoken stays in REPLAY for ever
  (`connections.c:1483`); `reset_lih()` answers the last packet recorded, which is
  usually EXT's (`netcode.c:1063`); the two directions of a session between
  internal hosts may be handled by two threads (`honeybrid.c:100`).

## 6. Plan

Done: the modules of section 2 with their runs; theorems for all their invariants and
action properties; the refinement of `Handover`.

Left:

1. A composition of the queues and the tables: `HandledBy` of `Connections` and
   `Outbound` as provided by `Lifecycle`.
2. An abstract specification of the connection tables (find, open, close) that
   `Connections` implements, with the proof of the refinement.
3. The pins of exclusive internal hosts.
4. The management of targets and handlers under `targetlock`.
