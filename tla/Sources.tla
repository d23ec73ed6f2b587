------------------------------- MODULE Sources -------------------------------
(***************************************************************************)
(* The decision modules that remember whom or what they have seen          *)
(* (mod_source, mod_control, mod_hash), and the thread that saves their    *)
(* memory to a file.                                                       *)
(*                                                                         *)
(* The memory is one GKeyFile that every decision thread reads and writes  *)
(* without a lock: a call looks an entry up, changes its copy and sets it, *)
(* and the calls of two threads interleave between these steps.  It then   *)
(* enters the memory into module_to_save, which the backup thread empties  *)
(* as it writes the file.  The process may be stopped or may die between   *)
(* any two steps, and starts from the file.  A key is what the module      *)
(* looks up: a source address, or for mod_hash a port and a digest.        *)
(***************************************************************************)
EXTENDS Integers, Sequences, FiniteSets

CONSTANTS
  Keys,         \* sources or fingerprints that packets carry
  Deciders,     \* the decision threads
  Handlers,     \* the threads whose queues the packets of a key come to
  Configs,      \* configured modules: their function and settings
  Instants,     \* the seconds since 1970 at which something happens
  MaxUpdates,   \* bound: updates of the memory
  MaxStarts,    \* bound: starts of the program after the first
  MaxFailures,  \* bound: failures to open the file
  MaxSetbacks   \* bound: how often the clock is set back

Unset == -1
(* What the setting "function" may name, of the modules that remember.     *)
Functions == {"source", "source_time", "control", "hash"}
(* A numeric setting as the configuration file has it, of up to three      *)
(* bytes, or Unset.                                                        *)
Settings == Unset .. 16777215

ASSUME SourcesAssumption ==
  /\ IsFiniteSet(Deciders)
  /\ Handlers \in [Keys -> SUBSET Deciders]
  /\ Configs \subseteq [function : Functions, backup_file : BOOLEAN, expiration : Settings,
                        max_packet : Settings, allow_after : Settings]
  /\ Instants \subseteq Nat \ {0}
  /\ MaxUpdates \in Nat /\ MaxStarts \in Nat /\ MaxFailures \in Nat
  /\ MaxSetbacks \in Nat

VARIABLES
  cfg,         \* the module's configuration
  clock,       \* g_get_current_time()
  memory,      \* the GKeyFile: the entry of each key, or None
  call,        \* the call each thread is in: its step and its local variables
  registered,  \* the memory is in module_to_save
  file,        \* the backup file
  backup,      \* where the backup thread is
  buf,         \* what write_backup() has of the memory
  run,         \* "up", "stopping" (threading is NOK) or "down"
  starts,      \* starts so far after the first
  failures,    \* failures to open the file so far
  setbacks,    \* how often the clock was set back so far
  version,     \* ghost: how many updates the memory, buf and the file have seen
  passed,      \* ghost: packets of each key accepted in each life of its entry
  lost,        \* ghost: of those, what the counter does not know after a restart
  missed       \* ghost: an update lost its place in module_to_save

vars == <<cfg, clock, memory, call, registered, file, backup, buf, run, starts,
          failures, setbacks, version, passed, lost, missed>>
ghosts == <<version, passed, lost, missed>>

(* A life of an entry lasts from the packet that makes or renews it to the *)
(* next renewal, also over a restart that reads it back.  The field life,  *)
(* which the code does not have, tells the lives of a key apart.           *)
None == [counter |-> 0, first_seen |-> 0, duration |-> 0, life |-> 0]
Entries ==
  [counter : Nat \ {0}, first_seen : Nat, duration : Int, life : Nat \ {0}] \cup {None}
Memories == [Keys -> Entries]
Nothing == [k \in Keys |-> None]
Idle == [step |-> "idle"]

-----------------------------------------------------------------------------
(* Settings.  The grammar stores a number as an int and the modules read   *)
(* it as text: atoi() sees its bytes, lowest first, up to a zero.          *)

Bytes(n) == <<n % 256, (n \div 256) % 256, (n \div 65536) % 256, 0>>
Digit(b) == b \in 48 .. 57
Space(b) == b \in 9 .. 13 \/ b = 32

(* atoi() on such bytes: white space, a sign, and digits up to another     *)
(* character.                                                              *)
AfterSpace(bytes) ==
  CHOOSE i \in 1 .. 4 : ~Space(bytes[i]) /\ \A j \in 1 .. i - 1 : Space(bytes[j])
AfterSign(bytes) ==
  IF bytes[AfterSpace(bytes)] \in {43, 45} THEN AfterSpace(bytes) + 1 ELSE AfterSpace(bytes)
AfterDigits(bytes) ==
  CHOOSE i \in AfterSign(bytes) .. 4 :
    ~Digit(bytes[i]) /\ \A j \in AfterSign(bytes) .. i - 1 : Digit(bytes[j])
ReadDigit(bytes, value, i) ==
  IF i < AfterDigits(bytes) THEN 10 * value + bytes[i] - 48 ELSE value

Atoi(bytes) ==
  LET from == AfterSign(bytes)
      value == ReadDigit(bytes, ReadDigit(bytes, ReadDigit(bytes, 0, from), from + 1), from + 2)
  IN IF bytes[AfterSpace(bytes)] = 45 THEN -value ELSE value

Setting(n, default) == IF n = Unset THEN default ELSE Atoi(Bytes(n))

Day == 24 * 3600

(* get_module() takes the first name of its table that the function begins *)
(* with, and "source" comes before "source_time": mod_source_time() is     *)
(* never called.                                                           *)
GetModule(function) == IF function = "source_time" THEN "source" ELSE function
Kind == GetModule(cfg.function)

(* The expiration setting is read by mod_control() only. *)
Expiration == IF Kind = "control" THEN Setting(cfg.expiration, 600) ELSE Day

MaxPacket == Setting(cfg.max_packet, 1000)

(* The early return with DEFER: no path for the file. *)
Decides == cfg.backup_file

-----------------------------------------------------------------------------
(* One call of the module.                                                 *)

(* Slip: an entry expires a second early. *)
RenewsEarly(e) == e = None \/ e.duration >= Expiration

(* There is no entry, or the age it had at the last packet is too high. *)
Renews(e) == e = None \/ e.duration > Expiration

Renewed(now, life) == [counter |-> 1, first_seen |-> now, duration |-> 0, life |-> life]

(* Slip: a known source is not counted. *)
UpdatedUncounted(e, now, life) ==
  IF Renews(e) THEN Renewed(now, life) ELSE [e EXCEPT !.duration = now - e.first_seen]

(* Slip: a new entry has counted nothing yet. *)
UpdatedFromZero(e, now, life) ==
  IF Renews(e)
  THEN [Renewed(now, life) EXCEPT !.counter = 0]
  ELSE [e EXCEPT !.counter = @ + 1, !.duration = now - e.first_seen]

(* The entry that is set.  mod_hash subtracts the old duration where the   *)
(* others subtract the time of the first packet.                           *)
Updated(e, now, life) ==
  IF Renews(e)
  THEN Renewed(now, life)
  ELSE [e EXCEPT !.counter = @ + 1,
                 !.duration = now - (IF Kind = "hash" THEN e.duration ELSE e.first_seen)]

(* The verdict of each module on a packet that found entry e. *)
SourceAccepts(e) == Renews(e)
HashAccepts(e) == Renews(e)
ControlAccepts(e) == (IF Renews(e) THEN 1 ELSE e.counter + 1) <= MaxPacket

Accepts(e) ==
  \/ Kind = "source" /\ SourceAccepts(e)
  \/ Kind = "hash" /\ HashAccepts(e)
  \/ Kind = "control" /\ ControlAccepts(e)

(* The time is taken and the entry looked up: info is a copy. *)
Lookup(d, k) ==
  /\ run = "up" /\ Decides
  /\ call[d] = Idle /\ d \in Handlers[k]
  /\ version.memory + Cardinality({c \in Deciders : call[c].step = "found"}) < MaxUpdates
  /\ call' = [call EXCEPT ![d] = [step |-> "found", key |-> k, now |-> clock, info |-> memory[k]]]
  /\ UNCHANGED <<cfg, clock, memory, registered, file, backup, buf, run, starts, failures,
                 setbacks, ghosts>>

(* What has passed in the lives of a key after a packet that found e. *)
Passed(lives, e) ==
  LET n == IF Accepts(e) THEN 1 ELSE 0
  IN IF Renews(e) THEN Append(lives, n) ELSE [lives EXCEPT ![e.life] = @ + n]

(* g_key_file_set_string_list(): the changed copy replaces the entry. *)
Set(d) ==
  LET k == call[d].key
      e == call[d].info
  IN /\ call[d].step = "found"
     /\ memory' = [memory EXCEPT ![k] = Updated(e, call[d].now, Len(passed[k]) + 1)]
     /\ call' = [call EXCEPT ![d] = [step |-> "set"]]
     /\ version' = [version EXCEPT !.memory = @ + 1]
     /\ passed' = [passed EXCEPT ![k] = Passed(@, e)]
     /\ lost' = [lost EXCEPT ![k] = IF Renews(e) THEN Append(@, 0) ELSE @]
     /\ UNCHANGED <<cfg, clock, registered, file, backup, buf, run, starts, failures,
                    setbacks, missed>>

(* save_backup(): the memory is entered, or entered again. *)
Save(d) ==
  /\ call[d].step = "set"
  /\ registered' = TRUE
  /\ missed' = FALSE
  /\ call' = [call EXCEPT ![d] = Idle]
  /\ UNCHANGED <<cfg, clock, memory, file, backup, buf, run, starts, failures,
                 setbacks, version, passed, lost>>

(* Wall-clock time: it goes forward, or is set back. *)
Tick ==
  /\ \E t \in Instants :
       \/ t > clock /\ clock' = t /\ UNCHANGED setbacks
       \/ t < clock /\ setbacks < MaxSetbacks /\ clock' = t /\ setbacks' = setbacks + 1
  /\ UNCHANGED <<cfg, memory, call, registered, file, backup, buf, run, starts, failures, ghosts>>

-----------------------------------------------------------------------------
(* save_backup_handler(): the loop, with write_backup() on the entry.      *)

(* while (OK == threading), and the wait, which a minute or the broadcast  *)
(* of close_thread() ends.                                                 *)
BackupLoop ==
  /\ run # "down" /\ backup = "loop"
  /\ backup' = IF run = "up" THEN "wait" ELSE "end"
  /\ UNCHANGED <<cfg, clock, memory, call, registered, file, buf, run, starts, failures,
                 setbacks, ghosts>>

(* The wait ends; an entry in module_to_save is serialised. *)
BackupWake ==
  /\ run # "down" /\ backup = "wait"
  /\ IF registered
     THEN /\ buf' = memory
          /\ version' = [version EXCEPT !.buf = version.memory]
          /\ backup' = "open"
     ELSE /\ backup' = "loop"
          /\ UNCHANGED <<buf, version>>
  /\ UNCHANGED <<cfg, clock, memory, call, registered, file, run, starts, failures,
                 setbacks, passed, lost, missed>>

(* fopen(filename, "w+") empties the file. *)
BackupOpen ==
  /\ run # "down" /\ backup = "open"
  /\ file' = Nothing
  /\ version' = [version EXCEPT !.file = 0]
  /\ backup' = "print"
  /\ UNCHANGED <<cfg, clock, memory, call, registered, buf, run, starts, failures,
                 setbacks, passed, lost, missed>>

(* Slip: the entry is given up with the file. *)
BackupOpenFailsForgets ==
  /\ run # "down" /\ backup = "open"
  /\ failures < MaxFailures
  /\ failures' = failures + 1
  /\ backup' = "loop" /\ buf' = Nothing
  /\ registered' = FALSE
  /\ version' = [version EXCEPT !.buf = 0]
  /\ UNCHANGED <<cfg, clock, memory, call, file, run, starts,
                 setbacks, passed, lost, missed>>

(* Slip: the thread gives up. *)
BackupOpenFailsEnds ==
  /\ run # "down" /\ backup = "open"
  /\ failures < MaxFailures
  /\ failures' = failures + 1
  /\ backup' = "end" /\ buf' = Nothing
  /\ version' = [version EXCEPT !.buf = 0]
  /\ UNCHANGED <<cfg, clock, memory, call, registered, file, run, starts,
                 setbacks, passed, lost, missed>>

(* fopen() fails, write_backup() returns FALSE: the entry stays. *)
BackupOpenFails ==
  /\ run # "down" /\ backup = "open"
  /\ failures < MaxFailures
  /\ failures' = failures + 1
  /\ backup' = "loop" /\ buf' = Nothing
  /\ version' = [version EXCEPT !.buf = 0]
  /\ UNCHANGED <<cfg, clock, memory, call, registered, file, run, starts,
                 setbacks, passed, lost, missed>>

BackupPrint ==
  /\ run # "down" /\ backup = "print"
  /\ file' = buf /\ buf' = Nothing
  /\ version' = [version EXCEPT !.file = version.buf]
  /\ backup' = "steal"
  /\ UNCHANGED <<cfg, clock, memory, call, registered, run, starts, failures,
                 setbacks, passed, lost, missed>>

(* write_backup() returned TRUE: g_hash_table_foreach_steal() removes the  *)
(* entry, and with it what a decision thread has entered since buf was     *)
(* taken, unless one is about to enter it again.                           *)
BackupSteal ==
  /\ run # "down" /\ backup = "steal"
  /\ registered' = FALSE
  /\ version' = [version EXCEPT !.buf = 0]
  /\ missed' = (version.buf # version.memory /\ \A d \in Deciders : call[d].step # "set")
  /\ backup' = "loop"
  /\ UNCHANGED <<cfg, clock, memory, call, file, buf, run, starts, failures,
                 setbacks, passed, lost>>

-----------------------------------------------------------------------------
(* The process.                                                            *)

(* close_thread() has joined the decision threads and sets threading. *)
Stop ==
  /\ run = "up"
  /\ \A d \in Deciders : call[d] = Idle
  /\ run' = "stopping"
  /\ UNCHANGED <<cfg, clock, memory, call, registered, file, backup, buf, starts, failures,
                 setbacks, ghosts>>

(* The process ends and its memory with it; the file stays, with the       *)
(* entries and the counters it has, and nothing is left to be saved.       *)
Down ==
  /\ run' = "down"
  /\ memory' = Nothing /\ buf' = Nothing
  /\ call' = [d \in Deciders |-> Idle]
  /\ registered' = FALSE /\ backup' = "end"
  /\ version' = [version EXCEPT !.file = version.memory, !.buf = 0]
  /\ missed' = FALSE
  /\ UNCHANGED <<cfg, clock, file, starts, failures, setbacks, passed, lost>>

(* The backup thread has been joined: the program exits. *)
Exit == run = "stopping" /\ backup = "end" /\ Down

Crash == run # "down" /\ Down

(* What has passed in the life of e, and is not in its counter. *)
Uncounted(k, e) == IF e = None THEN 0 ELSE passed[k][e.life] - e.counter

(* The grammar's action for a module makes a GKeyFile and loads the file.  *)
(* The path it loads was freed when the GKeyFile took its place in the     *)
(* table of settings: the file is found, or the module starts empty.       *)
Start(found) ==
  /\ run = "down" /\ starts < MaxStarts
  /\ starts' = starts + 1
  /\ memory' = IF found THEN file ELSE Nothing
  /\ lost' = [k \in Keys |-> [l \in 1 .. Len(lost[k]) |->
               IF memory'[k].life = l /\ Uncounted(k, memory'[k]) > lost[k][l]
               THEN Uncounted(k, memory'[k]) ELSE lost[k][l]]]
  /\ backup' = "loop"
  /\ run' = "up"
  /\ UNCHANGED <<cfg, clock, call, registered, file, buf, failures, setbacks,
                 version, passed, missed>>

-----------------------------------------------------------------------------
Init ==
  /\ cfg \in Configs
  /\ clock \in Instants
  /\ memory = Nothing /\ file = Nothing /\ buf = Nothing
  /\ call = [d \in Deciders |-> Idle]
  /\ registered = FALSE /\ backup = "loop" /\ run = "up"
  /\ starts = 0 /\ failures = 0 /\ setbacks = 0
  /\ version = [memory |-> 0, buf |-> 0, file |-> 0]
  /\ passed = [k \in Keys |-> <<>>] /\ lost = [k \in Keys |-> <<>>]
  /\ missed = FALSE

BackupStep ==
  BackupLoop \/ BackupWake \/ BackupOpen \/ BackupOpenFails \/ BackupPrint \/ BackupSteal

Next ==
  \/ \E d \in Deciders, k \in Keys : Lookup(d, k)
  \/ \E d \in Deciders : Set(d) \/ Save(d)
  \/ Tick \/ BackupStep \/ Stop \/ Exit \/ Crash
  \/ \E found \in BOOLEAN : Start(found)

Spec == Init /\ [][Next]_vars

(* The threads run: a call returns, and the backup thread, whose wait has  *)
(* a limit, goes round its loop.                                           *)
FairSpec == Spec /\ WF_vars(BackupStep) /\ \A d \in Deciders : WF_vars(Set(d) \/ Save(d))

-----------------------------------------------------------------------------
(* Properties.                                                             *)

Calls == {Idle, [step |-> "set"]}
         \cup [step : {"found"}, key : Keys, now : Instants, info : Entries]
Steps == {"loop", "wait", "open", "print", "steal", "end"}

(* Every variable keeps its type: an entry of the GKeyFile, of the file    *)
(* and of a thread's copy has counted at least one packet.                 *)
TypeOK ==
  /\ cfg \in Configs /\ clock \in Instants
  /\ memory \in Memories /\ file \in Memories /\ buf \in Memories
  /\ call \in [Deciders -> Calls]
  /\ registered \in BOOLEAN /\ missed \in BOOLEAN
  /\ backup \in Steps /\ run \in {"up", "stopping", "down"}
  /\ starts \in 0 .. MaxStarts /\ failures \in 0 .. MaxFailures
  /\ setbacks \in 0 .. MaxSetbacks
  /\ version \in [memory : Nat, buf : Nat, file : Nat]
  /\ passed \in [Keys -> Seq(Nat)] /\ lost \in [Keys -> Seq(Nat)]

(* The keys that only one thread handles: IP2QUEUEID sends all packets of  *)
(* an external source to one queue.                                        *)
OneHandler == {k \in Keys : Cardinality(Handlers[k]) = 1}

(* In each life of its entry no more packets of k are accepted than the    *)
(* limit that was read, and than what the counter of a restored entry had  *)
(* forgotten.                                                              *)
WithinLimit(k) ==
  \A l \in 1 .. Len(passed[k]) :
    passed[k][l] > 0 => passed[k][l] <= MaxPacket + lost[k][l]

(* mod_control(): of a source that one thread handles, no more packets are *)
(* accepted in one life of its entry than the limit.  A restart may exceed *)
(* it, by the packets that the file's counter did not know, and by no more *)
(* however often the program crashes and starts.                           *)
RateLimit == Kind = "control" => \A k \in OneHandler : WithinLimit(k)

(* mod_control.c:34: if too many packets are sent, following packets are   *)
(* rejected, whichever threads handle the source.                          *)
SharedRateLimit == Kind = "control" => \A k \in Keys : WithinLimit(k)

(* The step gives the entry of k a new life. *)
RenewedEntry(k) ==
  /\ run = "up" /\ memory[k] # None /\ memory'[k] # None
  /\ memory'[k].life # memory[k].life

(* The expiration has passed when k gets a new life. *)
RenewedLate(k) ==
  RenewedEntry(k) => memory'[k].first_seen - memory[k].first_seen > Expiration

(* mod_source(), mod_control(): the entry of a source that one thread      *)
(* handles starts a new life only when the expiration has passed since the *)
(* last one began, whatever the backup thread does, and as long as the     *)
(* clock has not been set back.                                            *)
RenewedAfterExpiration ==
  [][setbacks = 0 /\ Kind # "hash" => \A k \in OneHandler : RenewedLate(k)]_vars

(* honeybrid.conf:97: mod_hash() accepts only payloads that have never     *)
(* been inspected before, that is, within the expiration of their entry.   *)
KnownPayloads ==
  [][setbacks = 0 /\ Kind = "hash" => \A k \in OneHandler : RenewedLate(k)]_vars

(* honeybrid.conf:103: with function source_time, a packet is accepted     *)
(* only when allow_after seconds have passed since its source was first    *)
(* seen.                                                                   *)
TimeFrame ==
  [][\A d \in Deciders :
       /\ cfg.function = "source_time" /\ run = "up"
       /\ call[d].step = "found" /\ call'[d].step = "set"
       /\ Accepts(call[d].info)
       => memory'[call[d].key].first_seen + cfg.allow_after <= call[d].now]_vars

(* An update that is not in the file is due: the memory is in              *)
(* module_to_save or about to be entered, or it was entered while          *)
(* write_backup() was writing, the one case in which it is forgotten.      *)
UnsavedIsDue ==
  run # "down" /\ version.memory # version.file =>
    \/ registered \/ missed
    \/ \E d \in Deciders : call[d].step = "set"

(* While the program runs, a memory in module_to_save gets into the file   *)
(* and is removed from the table only then, although fopen() may fail.     *)
Written == (run = "up" /\ registered) ~> (backup = "steal" \/ run # "up")

=============================================================================
