---------------------------- MODULE SourcesProofs ----------------------------
(***************************************************************************)
(* Proofs about the decision modules with a memory: the types, the limit   *)
(* of mod_control(), that an entry is renewed only after its expiration,   *)
(* and that what is not in the backup file is due to be written.           *)
(***************************************************************************)
EXTENDS Sources, FiniteSetTheorems, TLAPS

(* The age an entry had at its last packet puts that packet into the past. *)
Past(e, now) == e.first_seen + e.duration <= now

(* The clock is not behind what the memory, its copies and the calls have  *)
(* seen.  mod_hash computes no age.                                        *)
TimesPast ==
  /\ \A d \in Deciders : call[d].step = "found" => call[d].now <= clock
  /\ Kind # "hash" =>
       /\ \A k \in Keys : Past(memory[k], clock) /\ Past(file[k], clock) /\ Past(buf[k], clock)
       /\ \A d \in Deciders : call[d].step = "found" => Past(call[d].info, call[d].now)

InvTimes == setbacks = 0 => TimesPast

(* Every entry, wherever it is kept, is in a life that has begun. *)
InvLives ==
  /\ \A k \in Keys :
       /\ Len(lost[k]) = Len(passed[k])
       /\ memory[k].life <= Len(passed[k]) /\ file[k].life <= Len(passed[k])
       /\ buf[k].life <= Len(passed[k])
  /\ \A d \in Deciders :
       call[d].step = "found" => call[d].info.life <= Len(passed[call[d].key])

(* A call's copy of an entry that no other thread handles is not stale. *)
InvCalls ==
  \A d \in Deciders : call[d].step = "found" =>
    /\ d \in Handlers[call[d].key]
    /\ call[d].key \in OneHandler => call[d].info = memory[call[d].key]

(* What is left when the process is gone. *)
InvDown ==
  run = "down" =>
    /\ \A d \in Deciders : call[d] = Idle
    /\ version.memory = version.file

(* The counter of an entry and what a restart has forgotten bound what has *)
(* passed in its life.                                                     *)
InvPassed ==
  Kind = "control" =>
    \A k \in OneHandler :
      /\ memory[k] # None =>
           passed[k][memory[k].life] <= memory[k].counter + lost[k][memory[k].life]
      /\ WithinLimit(k)

(* The entry stays in module_to_save until its text is in the file. *)
InvBackup ==
  /\ backup \in {"open", "print", "steal"} => registered
  /\ backup = "steal" => version.file = version.buf

IInv ==
  /\ TypeOK
  /\ InvLives
  /\ InvTimes
  /\ InvCalls
  /\ InvDown
  /\ InvPassed
  /\ InvBackup
  /\ UnsavedIsDue

-----------------------------------------------------------------------------
(* The settings are numbers, whatever atoi() makes of the bytes.           *)

(* The first of the indices in S, from an index on. *)
LEMMA FirstThat ==
  ASSUME NEW S \in SUBSET (1 .. 4), NEW from \in 1 .. 4, 4 \in S
  PROVE  \E i \in from .. 4 : i \in S /\ \A j \in from .. i - 1 : j \notin S
<1>1. CASE from = 4
  BY <1>1
<1>2. CASE from = 3
  <2>1. CASE 3 \in S
    BY <1>2, <2>1
  <2>2. CASE 3 \notin S
    BY <1>2, <2>2
  <2> QED BY <2>1, <2>2
<1>3. CASE from = 2
  <2>1. CASE 2 \in S
    BY <1>3, <2>1
  <2>2. CASE 2 \notin S /\ 3 \in S
    BY <1>3, <2>2
  <2>3. CASE 2 \notin S /\ 3 \notin S
    BY <1>3, <2>3
  <2> QED BY <2>1, <2>2, <2>3
<1>4. CASE from = 1
  <2>1. CASE 1 \in S
    BY <1>4, <2>1
  <2>2. CASE 1 \notin S /\ 2 \in S
    BY <1>4, <2>2
  <2>3. CASE 1 \notin S /\ 2 \notin S /\ 3 \in S
    BY <1>4, <2>3
  <2>4. CASE 1 \notin S /\ 2 \notin S /\ 3 \notin S
    BY <1>4, <2>4
  <2> QED BY <2>1, <2>2, <2>3, <2>4
<1> QED BY <1>1, <1>2, <1>3, <1>4

LEMMA AtoiType ==
  ASSUME NEW bytes, \A i \in 1 .. 4 : bytes[i] \in Int, bytes[4] = 0
  PROVE  Atoi(bytes) \in Int
<1> DEFINE begin == AfterSpace(bytes)
           from == AfterSign(bytes)
           end == AfterDigits(bytes)
<1>1. begin \in 1 .. 4
  <2> DEFINE S == {i \in 1 .. 4 : ~Space(bytes[i])}
  <2>1. 4 \in S
    BY DEF Space
  <2>2. PICK i \in 1 .. 4 : i \in S /\ \A j \in 1 .. i - 1 : j \notin S
    BY <2>1, FirstThat
  <2>3. ~Space(bytes[i]) /\ \A j \in 1 .. i - 1 : Space(bytes[j])
    BY <2>1, <2>2
  <2> QED BY <2>3 DEF AfterSpace
<1>2. from \in 1 .. 4
  BY <1>1 DEF AfterSign
<1>3. end \in from .. 4
  <2> DEFINE S == {i \in 1 .. 4 : ~Digit(bytes[i])}
  <2>1. 4 \in S
    BY DEF Digit
  <2>2. PICK i \in from .. 4 : i \in S /\ \A j \in from .. i - 1 : j \notin S
    BY <1>2, <2>1, FirstThat
  <2>3. ~Digit(bytes[i]) /\ \A j \in from .. i - 1 : Digit(bytes[j])
    BY <1>2, <2>1, <2>2
  <2> QED BY <2>3 DEF AfterDigits
<1>4. ASSUME NEW v \in Int, NEW i \in Nat, from <= i PROVE ReadDigit(bytes, v, i) \in Int
  BY <1>2, <1>3, <1>4 DEF ReadDigit
<1>5. ReadDigit(bytes, 0, from) \in Int
  BY <1>2, <1>4
<1>6. ReadDigit(bytes, ReadDigit(bytes, 0, from), from + 1) \in Int
  BY <1>2, <1>4, <1>5
<1>7. ReadDigit(bytes, ReadDigit(bytes, ReadDigit(bytes, 0, from), from + 1), from + 2) \in Int
  BY <1>2, <1>4, <1>6
<1> QED BY <1>7 DEF Atoi

LEMMA SettingType ==
  ASSUME NEW n \in Settings, NEW default \in Int
  PROVE  Setting(n, default) \in Int
<1>1. CASE n = Unset
  BY <1>1 DEF Setting
<1>2. CASE n # Unset
  <2>1. n \in Nat
    <3>1. Unset \in Int
      BY DEF Unset
    <3>2. n \in Int /\ Unset <= n
      BY <3>1, SMT DEF Settings
    <3>3. Unset = -1
      BY DEF Unset
    <3> QED BY <1>2, <3>2, <3>3
  <2> DEFINE bytes == Bytes(n)
  <2>2. (\A i \in 1 .. 4 : bytes[i] \in Int) /\ bytes[4] = 0
    BY <2>1, SMT DEF Bytes
  <2> HIDE DEF bytes
  <2>3. Atoi(bytes) \in Int
    BY <2>2, AtoiType
  <2> QED BY <1>2, <2>3 DEF Setting, bytes
<1> QED BY <1>1, <1>2

LEMMA ConfigFacts ==
  ASSUME TypeOK
  PROVE  Expiration \in Int /\ MaxPacket \in Int
<1>1. cfg.expiration \in Settings /\ cfg.max_packet \in Settings
  BY SourcesAssumption DEF TypeOK
<1>2. Setting(cfg.max_packet, 1000) \in Int
  BY <1>1, SettingType
<1>3. Setting(cfg.expiration, 600) \in Int
  BY <1>1, SettingType
<1>4. Day \in Int
  BY SMT DEF Day
<1> QED BY <1>2, <1>3, <1>4 DEF MaxPacket, Expiration

-----------------------------------------------------------------------------
(* Entries and calls.                                                      *)

LEMMA EntryFacts ==
  ASSUME NEW e \in Entries
  PROVE  /\ e.counter \in Nat /\ e.first_seen \in Nat /\ e.duration \in Int /\ e.life \in Nat
         /\ e = None <=> e.counter = 0
         /\ e = None <=> e.life = 0
BY DEF Entries, None

LEMMA UpdatedFacts ==
  ASSUME NEW e \in Entries, NEW now \in Nat, NEW life \in Nat \ {0}
  PROVE  LET u == Updated(e, now, life)
         IN /\ u \in Entries /\ u # None
            /\ Renews(e) => u.counter = 1 /\ u.first_seen = now /\ u.duration = 0 /\ u.life = life
            /\ ~Renews(e) => /\ u.counter = e.counter + 1 /\ u.first_seen = e.first_seen
                             /\ u.life = e.life
            /\ ~Renews(e) /\ Kind # "hash" => u.duration = now - e.first_seen
<1> DEFINE u == Updated(e, now, life)
<1>1. CASE Renews(e)
  <2>1. u = [counter |-> 1, first_seen |-> now, duration |-> 0, life |-> life]
    BY <1>1 DEF Updated, Renewed
  <2>2. u \in Entries /\ u.counter = 1 /\ u.first_seen = now /\ u.duration = 0 /\ u.life = life
    BY <2>1 DEF Entries
  <2>3. u # None
    BY <2>2 DEF None
  <2> QED BY <1>1, <2>2, <2>3
<1>2. CASE ~Renews(e)
  <2> DEFINE Some == [counter : Nat \ {0}, first_seen : Nat, duration : Int, life : Nat \ {0}]
  <2>1. e \in Some
    BY <1>2 DEF Renews, Entries
  <2> DEFINE s == IF Kind = "hash" THEN e.duration ELSE e.first_seen
             c == e.counter + 1
  <2>2. now - s \in Int /\ c \in Nat \ {0}
    BY <2>1
  <2>3. u = [e EXCEPT !.counter = c, !.duration = now - s]
    BY <1>2 DEF Updated
  <2> HIDE DEF c, s, u
  <2>4. /\ u \in Some
        /\ u.counter = c /\ u.first_seen = e.first_seen /\ u.duration = now - s /\ u.life = e.life
    BY <2>1, <2>2, <2>3
  <2>5. u # None
    BY <2>2, <2>4 DEF None
  <2> QED BY <1>2, <2>4, <2>5 DEF Entries, c, s, u
<1> QED BY <1>1, <1>2

(* What has passed in the lives of a key, with one packet more. *)
LEMMA PassedFacts ==
  ASSUME NEW lives \in Seq(Nat), NEW e \in Entries, e.life <= Len(lives)
  PROVE  LET new == Passed(lives, e)
             n == IF Accepts(e) THEN 1 ELSE 0
         IN /\ new \in Seq(Nat)
            /\ Renews(e) => /\ Len(new) = Len(lives) + 1 /\ new[Len(lives) + 1] = n
                            /\ \A l \in 1 .. Len(lives) : new[l] = lives[l]
            /\ ~Renews(e) => /\ Len(new) = Len(lives) /\ new[e.life] = lives[e.life] + n
                             /\ e.life \in 1 .. Len(lives)
                             /\ \A l \in 1 .. Len(lives) : l # e.life => new[l] = lives[l]
<1> DEFINE n == IF Accepts(e) THEN 1 ELSE 0
<1>1. n \in Nat
  OBVIOUS
<1>2. CASE Renews(e)
  <2>1. Passed(lives, e) = Append(lives, n)
    BY <1>2 DEF Passed
  <2> HIDE DEF n
  <2>2. /\ Append(lives, n) \in Seq(Nat) /\ Len(Append(lives, n)) = Len(lives) + 1
        /\ Append(lives, n)[Len(lives) + 1] = n
        /\ \A l \in 1 .. Len(lives) : Append(lives, n)[l] = lives[l]
    BY <1>1
  <2> QED BY <1>2, <2>1, <2>2 DEF n
<1>3. CASE ~Renews(e)
  <2>1. e.life \in 1 .. Len(lives)
    <3>1. e # None
      BY <1>3 DEF Renews
    <3>2. e.life \in Nat /\ e.life # 0 /\ Len(lives) \in Nat
      BY <3>1, EntryFacts
    <3> QED BY <3>2
  <2> DEFINE v == lives[e.life] + n
  <2>2. Passed(lives, e) = [lives EXCEPT ![e.life] = v]
    BY <1>3 DEF Passed
  <2>3. v \in Nat
    BY <1>1, <2>1
  <2> HIDE DEF n
  <2> QED BY <1>3, <2>1, <2>2, <2>3 DEF n
<1> QED BY <1>2, <1>3

LEMMA CallFacts ==
  ASSUME TypeOK, NEW d \in Deciders
  PROVE  /\ call[d] \in Calls
         /\ call[d].step \in {"idle", "set", "found"}
         /\ call[d].step = "idle" => call[d] = Idle
         /\ call[d].step = "found" =>
              /\ call[d].key \in Keys /\ call[d].now \in Instants /\ call[d].now \in Nat
              /\ call[d].info \in Entries
<1>1. call[d] \in Calls
  BY DEF TypeOK
<1>2. CASE call[d] \in {Idle, [step |-> "set"]}
  BY <1>1, <1>2 DEF Idle
<1>3. CASE call[d] \in [step : {"found"}, key : Keys, now : Instants, info : Entries]
  BY <1>1, <1>3, SourcesAssumption
<1> QED BY <1>1, <1>2, <1>3 DEF Calls

(* A key with one handler has that one. *)
LEMMA OneHandlerFacts ==
  ASSUME NEW k \in OneHandler, NEW d \in Handlers[k], NEW c \in Handlers[k]
  PROVE  c = d /\ k \in Keys
<1>1. k \in Keys /\ Cardinality(Handlers[k]) = 1
  BY DEF OneHandler
<1>2. IsFiniteSet(Handlers[k])
  BY <1>1, SourcesAssumption, FS_Subset
<1>3. \E x : Handlers[k] = {x}
  BY <1>1, <1>2, FS_Singleton
<1> QED BY <1>1, <1>3

-----------------------------------------------------------------------------
(* TypeOK.                                                                 *)

LEMMA NothingFacts ==
  Nothing \in Memories /\ None \in Entries /\ (\A k \in Keys : Nothing[k] = None)
BY DEF Nothing, Memories, Entries

(* What a call sets and what has passed after it. *)
LEMMA SetFacts ==
  ASSUME TypeOK, InvLives, NEW d \in Deciders, Set(d)
  PROVE  LET k == call[d].key
             e == call[d].info
             u == Updated(e, call[d].now, Len(passed[k]) + 1)
         IN /\ call[d].step = "found"
            /\ k \in Keys /\ call[d].now \in Nat /\ e \in Entries
            /\ passed[k] \in Seq(Nat) /\ lost[k] \in Seq(Nat)
            /\ e.life <= Len(passed[k]) /\ Len(passed[k]) + 1 \in Nat \ {0}
            /\ memory' = [memory EXCEPT ![k] = u]
            /\ call' = [call EXCEPT ![d] = [step |-> "set"]]
            /\ passed' = [passed EXCEPT ![k] = Passed(passed[k], e)]
            /\ lost' = [lost EXCEPT ![k] = IF Renews(e) THEN Append(lost[k], 0) ELSE lost[k]]
            /\ version' = [version EXCEPT !.memory = version.memory + 1]
            /\ UNCHANGED <<cfg, clock, registered, file, backup, buf, run, starts, failures,
                           setbacks, missed>>
<1>1. call[d].step = "found"
  BY DEF Set
<1>2. call[d].key \in Keys /\ call[d].now \in Nat /\ call[d].info \in Entries
  BY <1>1, CallFacts
<1>3. passed[call[d].key] \in Seq(Nat) /\ lost[call[d].key] \in Seq(Nat)
  BY <1>2 DEF TypeOK
<1>4. Len(passed[call[d].key]) + 1 \in Nat \ {0}
  BY <1>3
<1>5. call[d].info.life <= Len(passed[call[d].key])
  BY <1>1 DEF InvLives
<1> QED BY <1>1, <1>2, <1>3, <1>4, <1>5 DEF Set

(* What a restart makes of the lives: they are as many as before, none is  *)
(* said to have lost less, and a restored entry has lost what its counter  *)
(* does not know.                                                          *)
LEMMA StartFacts ==
  ASSUME TypeOK, InvLives, NEW found \in BOOLEAN, Start(found)
  PROVE  /\ lost' \in [Keys -> Seq(Nat)]
         /\ \A k \in Keys :
              /\ memory'[k] \in {file[k], None} /\ memory'[k] \in Entries
              /\ Len(lost'[k]) = Len(lost[k])
              /\ \A l \in 1 .. Len(lost[k]) :
                   /\ lost'[k][l] >= lost[k][l]
                   /\ memory'[k].life = l => lost'[k][l] >= passed[k][l] - memory'[k].counter
<1> DEFINE f(k) == [l \in 1 .. Len(lost[k]) |->
                     IF memory'[k].life = l /\ Uncounted(k, memory'[k]) > lost[k][l]
                     THEN Uncounted(k, memory'[k]) ELSE lost[k][l]]
<1>1. lost' = [k \in Keys |-> f(k)]
  BY DEF Start
<1>2. ASSUME NEW k \in Keys
      PROVE  /\ memory'[k] \in {file[k], None} /\ memory'[k] \in Entries
             /\ f(k) \in Seq(Nat) /\ Len(f(k)) = Len(lost[k])
             /\ \A l \in 1 .. Len(lost[k]) :
                  /\ f(k)[l] >= lost[k][l]
                  /\ memory'[k].life = l => f(k)[l] >= passed[k][l] - memory'[k].counter
  <2> DEFINE e == memory'[k]
  <2>1. e \in {file[k], None} /\ e \in Entries
    BY NothingFacts DEF Start, TypeOK, Memories
  <2>2. lost[k] \in Seq(Nat) /\ passed[k] \in Seq(Nat) /\ Len(lost[k]) = Len(passed[k])
    BY DEF TypeOK, InvLives
  <2>3. e.counter \in Nat /\ e.life \in Nat
    BY <2>1, EntryFacts
  <2> HIDE DEF e
  <2>4. ASSUME NEW l \in 1 .. Len(lost[k])
        PROVE  /\ f(k)[l] \in Nat /\ f(k)[l] >= lost[k][l]
               /\ e.life = l => f(k)[l] >= passed[k][l] - e.counter
    <3>1. passed[k][l] \in Nat /\ lost[k][l] \in Nat
      BY <2>2
    <3>2. e.life = l => Uncounted(k, e) = passed[k][l] - e.counter
      BY <2>1, EntryFacts DEF Uncounted
    <3>3. f(k)[l] = IF e.life = l /\ Uncounted(k, e) > lost[k][l]
                    THEN Uncounted(k, e) ELSE lost[k][l]
      BY DEF e
    <3> DEFINE v == f(k)[l]
               w == Uncounted(k, e)
               o == lost[k][l]
               a == passed[k][l]
    <3>4. /\ a \in Nat /\ o \in Nat /\ (e.life = l => w = a - e.counter)
          /\ v = IF e.life = l /\ w > o THEN w ELSE o
      BY <3>1, <3>2, <3>3
    <3> HIDE DEF v, w, o, a
    <3>5. v \in Nat /\ v >= o /\ (e.life = l => v >= a - e.counter)
      BY <2>3, <3>4
    <3> QED BY <3>5 DEF v, w, o, a
  <2>5. Len(lost[k]) \in Nat /\ f(k) = [l \in 1 .. Len(lost[k]) |-> f(k)[l]]
    BY <2>2
  <2> HIDE DEF f
  <2>6. f(k) \in [1 .. Len(lost[k]) -> Nat]
    BY <2>4, <2>5
  <2>7. f(k) \in Seq(Nat) /\ Len(f(k)) = Len(lost[k])
    BY <2>5, <2>6
  <2> QED BY <2>1, <2>4, <2>7 DEF e
<1> HIDE DEF f
<1> QED BY <1>1, <1>2

LEMMA TypeStep ==
  ASSUME TypeOK, InvLives, Next
  PROVE  TypeOK'
<1> USE DEF TypeOK
<1>1. ASSUME NEW d \in Deciders, NEW k \in Keys, Lookup(d, k) PROVE TypeOK'
  <2> DEFINE r == [step |-> "found", key |-> k, now |-> clock, info |-> memory[k]]
  <2>1. r \in Calls
    BY DEF Calls, Memories
  <2>2. call' = [call EXCEPT ![d] = r]
    BY <1>1 DEF Lookup
  <2> HIDE DEF r
  <2>3. call' \in [Deciders -> Calls]
    BY <2>1, <2>2
  <2> QED BY <1>1, <2>3 DEF Lookup, ghosts
<1>2. ASSUME NEW d \in Deciders, Set(d) PROVE TypeOK'
  <2> DEFINE k == call[d].key
             e == call[d].info
             u == Updated(e, call[d].now, Len(passed[k]) + 1)
             p == Passed(passed[k], e)
             g == IF Renews(e) THEN Append(lost[k], 0) ELSE lost[k]
  <2>1. /\ k \in Keys /\ e \in Entries /\ memory' = [memory EXCEPT ![k] = u]
        /\ passed' = [passed EXCEPT ![k] = p] /\ lost' = [lost EXCEPT ![k] = g]
        /\ call' = [call EXCEPT ![d] = [step |-> "set"]]
        /\ version' = [version EXCEPT !.memory = version.memory + 1]
        /\ UNCHANGED <<cfg, clock, registered, file, backup, buf, run, starts, failures,
                       setbacks, missed>>
    BY <1>2, SetFacts
  <2>2. u \in Entries
    BY <1>2, SetFacts, UpdatedFacts
  <2>3. p \in Seq(Nat)
    BY <1>2, SetFacts, PassedFacts
  <2>4. g \in Seq(Nat)
    BY <1>2, SetFacts
  <2> HIDE DEF k, e, u, p, g
  <2>5. memory' \in Memories
    BY <2>1, <2>2 DEF Memories
  <2>6. passed' \in [Keys -> Seq(Nat)] /\ lost' \in [Keys -> Seq(Nat)]
    BY <2>1, <2>3, <2>4
  <2>7. [step |-> "set"] \in Calls
    BY DEF Calls
  <2>8. call' \in [Deciders -> Calls]
    BY <2>1, <2>7
  <2>9. version' \in [memory : Nat, buf : Nat, file : Nat]
    <3> DEFINE m == version.memory + 1
    <3>1. m \in Nat /\ version' = [version EXCEPT !.memory = m]
      BY <2>1
    <3> HIDE DEF m
    <3> QED BY <3>1
  <2> QED BY <2>1, <2>5, <2>6, <2>8, <2>9
<1>3. ASSUME NEW d \in Deciders, Save(d) PROVE TypeOK'
  <2>1. Idle \in Calls
    BY DEF Calls
  <2>2. call' = [call EXCEPT ![d] = Idle]
    BY <1>3 DEF Save
  <2>3. call' \in [Deciders -> Calls]
    BY <2>1, <2>2
  <2> QED BY <1>3, <2>3 DEF Save
<1>4. ASSUME Tick \/ BackupLoop \/ Stop PROVE TypeOK'
  <2>1. setbacks' \in 0 .. MaxSetbacks
    BY <1>4, SourcesAssumption DEF Tick, BackupLoop, Stop
  <2> QED BY <1>4, <2>1 DEF Tick, BackupLoop, Stop, ghosts, Steps
<1>5. ASSUME BackupWake PROVE TypeOK'
  BY <1>5 DEF BackupWake, Steps
<1>6. ASSUME BackupOpen PROVE TypeOK'
  BY <1>6, NothingFacts DEF BackupOpen, Steps
<1>7. ASSUME BackupOpenFails PROVE TypeOK'
  <2>1. failures' \in 0 .. MaxFailures
    BY <1>7, SourcesAssumption DEF BackupOpenFails
  <2>2. buf' \in Memories /\ backup' \in Steps
    BY <1>7, NothingFacts DEF BackupOpenFails, Steps
  <2>3. version' = [version EXCEPT !.buf = 0]
    BY <1>7 DEF BackupOpenFails
  <2>4. version' \in [memory : Nat, buf : Nat, file : Nat]
    BY <2>3
  <2> QED BY <1>7, <2>1, <2>2, <2>4 DEF BackupOpenFails
<1>8. ASSUME BackupPrint PROVE TypeOK'
  BY <1>8, NothingFacts DEF BackupPrint, Steps
<1>9. ASSUME BackupSteal PROVE TypeOK'
  <2>1. missed' \in BOOLEAN
    BY <1>9 DEF BackupSteal
  <2>2. version' \in [memory : Nat, buf : Nat, file : Nat]
    BY <1>9 DEF BackupSteal
  <2> QED BY <1>9, <2>1, <2>2 DEF BackupSteal, Steps
<1>10. ASSUME Down PROVE TypeOK'
  <2>1. call' \in [Deciders -> Calls]
    BY <1>10 DEF Down, Calls
  <2>2. version' \in [memory : Nat, buf : Nat, file : Nat]
    BY <1>10 DEF Down
  <2> QED BY <1>10, <2>1, <2>2, NothingFacts DEF Down, Steps
<1>11. ASSUME NEW found \in BOOLEAN, Start(found) PROVE TypeOK'
  <2>1. lost' \in [Keys -> Seq(Nat)]
    BY <1>11, StartFacts
  <2> QED BY <1>11, <2>1, NothingFacts, SourcesAssumption DEF Start, Steps
<1> QED
  BY <1>1, <1>2, <1>3, <1>4, <1>5, <1>6, <1>7, <1>8, <1>9, <1>10, <1>11
  DEF Next, BackupStep, Exit, Crash

-----------------------------------------------------------------------------
(* The calls, and what is left when the process is gone.                   *)

LEMMA CallsStep ==
  ASSUME IInv, Next
  PROVE  InvCalls' /\ InvDown'
<1> USE DEF IInv
<1>1. call \in [Deciders -> Calls]
  BY DEF TypeOK
<1>2. ASSUME NEW d \in Deciders, NEW k \in Keys, Lookup(d, k) PROVE InvCalls' /\ InvDown'
  <2> DEFINE r == [step |-> "found", key |-> k, now |-> clock, info |-> memory[k]]
  <2>1. /\ call' = [call EXCEPT ![d] = r] /\ run = "up" /\ d \in Handlers[k]
        /\ UNCHANGED <<memory, run, version>>
    BY <1>2 DEF Lookup, ghosts
  <2>2. r.key = k /\ r.info = memory[k]
    OBVIOUS
  <2> HIDE DEF r
  <2>3. call'[d] = r /\ (\A c \in Deciders \ {d} : call'[c] = call[c])
    BY <1>1, <2>1
  <2> QED BY <2>1, <2>2, <2>3 DEF InvCalls, InvDown
<1>3. ASSUME NEW d \in Deciders, Set(d) PROVE InvCalls' /\ InvDown'
  <2> DEFINE k == call[d].key
  <2>1. /\ call[d].step = "found" /\ call' = [call EXCEPT ![d] = [step |-> "set"]]
        /\ memory' = [memory EXCEPT ![k] = Updated(call[d].info, call[d].now, Len(passed[k]) + 1)]
        /\ run' = run
    BY <1>3 DEF Set
  <2>2. call'[d].step = "set" /\ (\A c \in Deciders \ {d} : call'[c] = call[c])
    BY <1>1, <2>1
  <2>3. \A x \in Keys \ {k} : memory'[x] = memory[x]
    BY <2>1 DEF TypeOK, Memories
  <2>4. ASSUME NEW c \in Deciders, call'[c].step = "found"
        PROVE  /\ c \in Handlers[call'[c].key]
               /\ call'[c].key \in OneHandler => call'[c].info = memory'[call'[c].key]
    <3>1. c # d /\ call'[c] = call[c] /\ call[c].step = "found"
      BY <2>2, <2>4
    <3>2. c \in Handlers[call[c].key] /\ d \in Handlers[k]
      BY <2>1, <3>1 DEF InvCalls
    <3>3. call[c].key \in OneHandler => call[c].key # k
      BY <3>1, <3>2, OneHandlerFacts
    <3>4. call[c].key \in Keys
      BY <3>1, CallFacts
    <3> QED BY <2>3, <3>1, <3>2, <3>3, <3>4 DEF InvCalls
  <2>5. run # "down"
    BY <2>1 DEF InvDown, Idle
  <2> QED BY <2>1, <2>4, <2>5 DEF InvCalls, InvDown
<1>4. ASSUME NEW d \in Deciders, Save(d) PROVE InvCalls' /\ InvDown'
  <2>1. /\ call' = [call EXCEPT ![d] = Idle]
        /\ UNCHANGED <<memory, run, version>>
    BY <1>4 DEF Save
  <2>2. call'[d] = Idle /\ (\A c \in Deciders \ {d} : call'[c] = call[c])
    BY <1>1, <2>1
  <2> QED BY <2>1, <2>2 DEF InvCalls, InvDown, Idle
<1>5. ASSUME Tick \/ BackupStep \/ Stop PROVE InvCalls' /\ InvDown'
  <2>1. UNCHANGED <<memory, call>>
    BY <1>5 DEF Tick, BackupStep, BackupLoop, BackupWake, BackupOpen, BackupOpenFails,
                BackupPrint, BackupSteal, Stop, ghosts
  <2>2. run' = "down" => run = "down" /\ version' = version
    BY <1>5 DEF Tick, BackupStep, BackupLoop, BackupWake, BackupOpen, BackupOpenFails,
                BackupPrint, BackupSteal, Stop, ghosts
  <2> QED BY <2>1, <2>2 DEF InvCalls, InvDown
<1>6. ASSUME Down PROVE InvCalls' /\ InvDown'
  <2>1. \A d \in Deciders : call'[d] = Idle
    BY <1>6 DEF Down
  <2>2. version'.memory = version'.file
    BY <1>6 DEF Down, TypeOK
  <2> QED BY <2>1, <2>2 DEF InvCalls, InvDown, Idle
<1>7. ASSUME NEW found \in BOOLEAN, Start(found) PROVE InvCalls' /\ InvDown'
  <2>1. run = "down" /\ run' = "up" /\ call' = call
    BY <1>7 DEF Start
  <2>2. \A d \in Deciders : call'[d] = Idle
    BY <2>1 DEF InvDown
  <2> QED BY <2>1, <2>2 DEF InvCalls, InvDown, Idle
<1> QED BY <1>2, <1>3, <1>4, <1>5, <1>6, <1>7 DEF Next, Exit, Crash

-----------------------------------------------------------------------------
(* InvTimes.                                                               *)

LEMMA PastStays ==
  ASSUME NEW e \in Entries, NEW now \in Nat, NEW later \in Nat, now <= later, Past(e, now)
  PROVE  Past(e, later)
BY EntryFacts DEF Past

(* The changed copy has its last packet at the time of the call. *)
LEMMA UpdatedIsPast ==
  ASSUME Kind # "hash", NEW e \in Entries, NEW now \in Nat, NEW life \in Nat \ {0}
  PROVE  Past(Updated(e, now, life), now)
<1> DEFINE u == Updated(e, now, life)
<1>1. /\ Renews(e) => u.first_seen = now /\ u.duration = 0
      /\ ~Renews(e) => u.first_seen = e.first_seen /\ u.duration = now - e.first_seen
  BY UpdatedFacts
<1>2. e.first_seen \in Nat
  BY EntryFacts
<1> HIDE DEF u
<1>3. u.first_seen + u.duration = now
  BY <1>1, <1>2
<1> QED BY <1>3 DEF Past, u

(* Nothing is looked up, set or copied, and the clock does not go back. *)
LEMMA TimesStay ==
  ASSUME TypeOK, TypeOK', TimesPast, Kind' = Kind, clock <= clock',
         \A k \in Keys : /\ memory'[k] \in {memory[k], file[k], None}
                         /\ file'[k] \in {file[k], buf[k], None}
                         /\ buf'[k] \in {buf[k], memory[k], None},
         \A d \in Deciders : call'[d].step = "found" => call'[d] = call[d]
  PROVE  TimesPast'
<1>1. clock \in Nat /\ clock' \in Nat
  BY SourcesAssumption DEF TypeOK
<1>2. ASSUME NEW d \in Deciders, call'[d].step = "found"
      PROVE  call[d].now \in Nat /\ call[d].now <= clock /\ call'[d] = call[d]
  BY <1>2, CallFacts DEF TimesPast
<1>3. ASSUME Kind # "hash", NEW k \in Keys
      PROVE  Past(memory'[k], clock') /\ Past(file'[k], clock') /\ Past(buf'[k], clock')
  <2>1. /\ memory[k] \in Entries /\ file[k] \in Entries /\ buf[k] \in Entries
    BY <1>3 DEF TypeOK, Memories
  <2>2. Past(memory[k], clock') /\ Past(file[k], clock') /\ Past(buf[k], clock')
    BY <1>1, <1>3, <2>1, PastStays DEF TimesPast
  <2>3. Past(None, clock')
    BY <1>1 DEF Past, None
  <2> QED BY <1>3, <2>2, <2>3
<1> QED BY <1>1, <1>2, <1>3 DEF TimesPast

LEMMA TimesStep ==
  ASSUME IInv, Next
  PROVE  InvTimes'
<1> USE DEF IInv
<1>1. TypeOK'
  BY TypeStep
<1>0. SUFFICES ASSUME setbacks' = 0 PROVE TimesPast'
  BY DEF InvTimes
<1>a. setbacks = 0 /\ Kind' = Kind
  <2>1. setbacks \in Nat
    BY SourcesAssumption DEF TypeOK
  <2>2. setbacks' = setbacks \/ setbacks' = setbacks + 1
    BY DEF Next, Lookup, Set, Save, Tick, BackupStep, BackupLoop, BackupWake, BackupOpen,
           BackupOpenFails, BackupPrint, BackupSteal, Stop, Exit, Crash, Down, Start
  <2>3. cfg' = cfg
    BY DEF Next, Lookup, Set, Save, Tick, BackupStep, BackupLoop, BackupWake, BackupOpen,
           BackupOpenFails, BackupPrint, BackupSteal, Stop, Exit, Crash, Down, Start
  <2> QED BY <1>0, <2>1, <2>2, <2>3 DEF Kind
<1>b. TimesPast
  BY <1>a DEF InvTimes
<1>2. clock \in Nat /\ call \in [Deciders -> Calls]
  BY SourcesAssumption DEF TypeOK
<1>3. ASSUME NEW d \in Deciders, NEW k \in Keys, Lookup(d, k) PROVE TimesPast'
  <2> DEFINE r == [step |-> "found", key |-> k, now |-> clock, info |-> memory[k]]
  <2>1. call' = [call EXCEPT ![d] = r] /\ UNCHANGED <<cfg, clock, memory, file, buf>>
    BY <1>3 DEF Lookup
  <2>2. r.now = clock /\ r.info = memory[k]
    OBVIOUS
  <2> HIDE DEF r
  <2>3. call'[d] = r /\ (\A c \in Deciders \ {d} : call'[c] = call[c])
    BY <1>2, <2>1
  <2> QED BY <1>2, <1>a, <1>b, <2>1, <2>2, <2>3 DEF TimesPast
<1>4. ASSUME NEW d \in Deciders, Set(d) PROVE TimesPast'
  <2> DEFINE k == call[d].key
             e == call[d].info
             now == call[d].now
             life == Len(passed[k]) + 1
  <2>1. /\ call[d].step = "found" /\ call' = [call EXCEPT ![d] = [step |-> "set"]]
        /\ memory' = [memory EXCEPT ![k] = Updated(e, now, life)]
        /\ UNCHANGED <<clock, file, buf>>
    BY <1>4, SetFacts
  <2>2. /\ k \in Keys /\ now \in Nat /\ e \in Entries /\ now <= clock
        /\ life \in Nat \ {0}
    BY <1>4, <1>b, SetFacts DEF TimesPast
  <2>3. call'[d].step = "set" /\ (\A c \in Deciders \ {d} : call'[c] = call[c])
    BY <1>2, <2>1
  <2> HIDE DEF k, e, now, life
  <2>4. memory'[k] = Updated(e, now, life) /\ (\A x \in Keys \ {k} : memory'[x] = memory[x])
    BY <2>1, <2>2 DEF TypeOK, Memories
  <2>5. Kind # "hash" => Past(memory'[k], clock)
    <3>1. Updated(e, now, life) \in Entries
      BY <2>2, UpdatedFacts
    <3> QED BY <1>2, <2>2, <2>4, <3>1, UpdatedIsPast, PastStays
  <2> QED BY <1>a, <1>b, <2>1, <2>3, <2>4, <2>5 DEF TimesPast
<1>5. ASSUME NEW d \in Deciders, Save(d) PROVE TimesPast'
  <2>1. call' = [call EXCEPT ![d] = Idle] /\ UNCHANGED <<cfg, clock, memory, file, buf>>
    BY <1>5 DEF Save
  <2>2. call'[d] = Idle /\ (\A c \in Deciders \ {d} : call'[c] = call[c])
    BY <1>2, <2>1
  <2> QED BY <1>a, <1>b, <2>1, <2>2 DEF TimesPast, Idle
<1>6. ASSUME Tick PROVE TimesPast'
  <2>1. UNCHANGED <<cfg, memory, file, buf, call>> /\ clock' \in Nat /\ clock <= clock'
    BY <1>0, <1>2, <1>6, <1>a, SourcesAssumption DEF Tick
  <2> QED BY <1>1, <2>1, TimesStay, <1>a, <1>b
<1>7. ASSUME BackupStep \/ Stop PROVE TimesPast'
  <2>1. UNCHANGED <<cfg, clock, memory, call>>
    BY <1>7 DEF BackupStep, BackupLoop, BackupWake, BackupOpen, BackupOpenFails,
                BackupPrint, BackupSteal, Stop
  <2>2. file' \in {file, buf, Nothing} /\ buf' \in {buf, memory, Nothing}
    BY <1>7 DEF BackupStep, BackupLoop, BackupWake, BackupOpen, BackupOpenFails,
                BackupPrint, BackupSteal, Stop
  <2>3. \A k \in Keys : Nothing[k] = None
    BY NothingFacts
  <2> QED BY <1>1, <1>2, <2>1, <2>2, <2>3, TimesStay, <1>a, <1>b
<1>8. ASSUME Down PROVE TimesPast'
  <2>1. /\ memory' = Nothing /\ buf' = Nothing /\ UNCHANGED <<cfg, clock, file>>
        /\ \A d \in Deciders : call'[d].step # "found"
    BY <1>8 DEF Down, Idle
  <2> QED BY <1>1, <1>2, <2>1, NothingFacts, TimesStay, <1>a, <1>b
<1>9. ASSUME NEW found \in BOOLEAN, Start(found) PROVE TimesPast'
  <2>1. memory' \in {file, Nothing} /\ UNCHANGED <<cfg, clock, file, buf, call>>
    BY <1>9 DEF Start
  <2> QED BY <1>1, <1>2, <2>1, NothingFacts, TimesStay, <1>a, <1>b
<1> QED BY <1>3, <1>4, <1>5, <1>6, <1>7, <1>8, <1>9 DEF Next, Exit, Crash

-----------------------------------------------------------------------------
(* InvLives and InvPassed.                                                 *)

(* Lives are only added. *)
LEMMA SetLives ==
  ASSUME TypeOK, InvLives, NEW d \in Deciders, Set(d)
  PROVE  LET k == call[d].key
             e == call[d].info
             u == Updated(e, call[d].now, Len(passed[k]) + 1)
         IN /\ memory'[k] = u /\ u \in Entries /\ u # None
            /\ \A x \in Keys \ {k} :
                 memory'[x] = memory[x] /\ passed'[x] = passed[x] /\ lost'[x] = lost[x]
            /\ Len(passed'[k]) = Len(lost'[k])
            /\ Len(passed'[k]) \in {Len(passed[k]), Len(passed[k]) + 1}
            /\ u.life \in 1 .. Len(passed'[k]) /\ u.life <= Len(passed'[k])
            /\ passed'[k] \in Seq(Nat) /\ lost'[k] \in Seq(Nat)
            /\ \A l \in 1 .. Len(passed'[k]) \ {u.life} :
                 passed'[k][l] = passed[k][l] /\ lost'[k][l] = lost[k][l] /\ l <= Len(passed[k])
<1> DEFINE k == call[d].key
           e == call[d].info
           n == Len(passed[k])
           u == Updated(e, call[d].now, n + 1)
<1>1. /\ k \in Keys /\ e \in Entries /\ call[d].now \in Nat
      /\ passed[k] \in Seq(Nat) /\ lost[k] \in Seq(Nat)
      /\ e.life <= Len(passed[k]) /\ n + 1 \in Nat \ {0}
      /\ memory' = [memory EXCEPT ![k] = u]
      /\ passed' = [passed EXCEPT ![k] = Passed(passed[k], e)]
      /\ lost' = [lost EXCEPT ![k] = IF Renews(e) THEN Append(lost[k], 0) ELSE lost[k]]
  BY SetFacts
<1>2. n \in Nat /\ Len(lost[k]) = n
  BY <1>1 DEF InvLives
<1>3. /\ u \in Entries /\ u # None
      /\ Renews(e) => u.life = n + 1
      /\ ~Renews(e) => u.life = e.life
  <2>1. e \in Entries /\ call[d].now \in Nat /\ n + 1 \in Nat \ {0}
    BY <1>1
  <2> HIDE DEF n, e
  <2> QED BY <2>1, UpdatedFacts
<1>4. /\ Passed(passed[k], e) \in Seq(Nat)
      /\ Renews(e) => /\ Len(Passed(passed[k], e)) = n + 1
                      /\ \A l \in 1 .. n : Passed(passed[k], e)[l] = passed[k][l]
      /\ ~Renews(e) => /\ Len(Passed(passed[k], e)) = n /\ e.life \in 1 .. n
                       /\ \A l \in 1 .. n : l # e.life => Passed(passed[k], e)[l] = passed[k][l]
  BY <1>1, PassedFacts
<1> HIDE DEF k, e, n, u
<1>5. /\ memory'[k] = u /\ passed'[k] = Passed(passed[k], e)
      /\ lost'[k] = IF Renews(e) THEN Append(lost[k], 0) ELSE lost[k]
      /\ \A x \in Keys \ {k} :
           memory'[x] = memory[x] /\ passed'[x] = passed[x] /\ lost'[x] = lost[x]
  BY <1>1 DEF TypeOK, Memories
<1>6. CASE Renews(e)
  <2>1. /\ lost'[k] \in Seq(Nat) /\ Len(lost'[k]) = n + 1
        /\ \A l \in 1 .. n : lost'[k][l] = lost[k][l]
    BY <1>1, <1>2, <1>5, <1>6
  <2>2. u.life \in 1 .. n + 1 /\ \A l \in (1 .. n + 1) \ {u.life} : l \in 1 .. n
    BY <1>2, <1>3, <1>6
  <2>3. /\ passed'[k] \in Seq(Nat) /\ Len(passed'[k]) = n + 1
        /\ \A l \in 1 .. n : passed'[k][l] = passed[k][l]
    BY <1>4, <1>5, <1>6
  <2>4. /\ Len(passed'[k]) = Len(lost'[k]) /\ Len(passed'[k]) \in {n, n + 1}
        /\ u.life \in 1 .. Len(passed'[k]) /\ u.life <= Len(passed'[k])
    BY <1>2, <2>1, <2>2, <2>3
  <2>5. \A l \in 1 .. Len(passed'[k]) \ {u.life} :
          passed'[k][l] = passed[k][l] /\ lost'[k][l] = lost[k][l] /\ l <= n
    <3> TAKE l \in 1 .. Len(passed'[k]) \ {u.life}
    <3>1. l \in (1 .. n + 1) \ {u.life}
      BY <2>3
    <3>2. l \in 1 .. n
      BY <2>2, <3>1
    <3> QED BY <1>2, <2>1, <2>3, <3>2
  <2> QED BY <1>3, <1>5, <2>1, <2>3, <2>4, <2>5 DEF k, e, n, u
<1>7. CASE ~Renews(e)
  <2>1. lost'[k] = lost[k]
    BY <1>5, <1>7
  <2>2. u.life \in 1 .. n
    BY <1>3, <1>4, <1>7
  <2>3. \A l \in (1 .. n) \ {u.life} : passed'[k][l] = passed[k][l] /\ l <= n
    BY <1>2, <1>3, <1>4, <1>5, <1>7
  <2>4. Len(passed'[k]) = n
    BY <1>2, <1>4, <1>5, <1>7
  <2>5. passed'[k] \in Seq(Nat)
    BY <1>4, <1>5
  <2> QED BY <1>1, <1>2, <1>3, <1>5, <1>7, <2>1, <2>2, <2>3, <2>4, <2>5 DEF k, e, n, u
<1> QED BY <1>6, <1>7

LEMMA LivesStep ==
  ASSUME IInv, Next
  PROVE  InvLives'
<1> USE DEF IInv
<1>1. call \in [Deciders -> Calls] /\ None.life = 0
  BY DEF TypeOK, None
<1>2. \A k \in Keys : Len(passed[k]) \in Nat /\ None.life <= Len(passed[k])
  BY <1>1 DEF TypeOK
<1>3. ASSUME NEW d \in Deciders, NEW k \in Keys, Lookup(d, k) PROVE InvLives'
  <2> DEFINE r == [step |-> "found", key |-> k, now |-> clock, info |-> memory[k]]
  <2>1. call' = [call EXCEPT ![d] = r] /\ UNCHANGED <<memory, file, buf, passed, lost>>
    BY <1>3 DEF Lookup, ghosts
  <2>2. r.key = k /\ r.info = memory[k]
    OBVIOUS
  <2> HIDE DEF r
  <2>3. call'[d] = r /\ (\A c \in Deciders \ {d} : call'[c] = call[c])
    BY <1>1, <2>1
  <2> QED BY <2>1, <2>2, <2>3 DEF InvLives
<1>4. ASSUME NEW d \in Deciders, Set(d) PROVE InvLives'
  <2> DEFINE k == call[d].key
             u == Updated(call[d].info, call[d].now, Len(passed[k]) + 1)
  <2>1. /\ memory'[k] = u /\ Len(passed'[k]) = Len(lost'[k]) /\ u.life <= Len(passed'[k])
        /\ Len(passed'[k]) = Len(passed[k]) \/ Len(passed'[k]) = Len(passed[k]) + 1
        /\ \A x \in Keys \ {k} :
             memory'[x] = memory[x] /\ passed'[x] = passed[x] /\ lost'[x] = lost[x]
    BY <1>4, SetLives
  <2>2. /\ k \in Keys /\ call' = [call EXCEPT ![d] = [step |-> "set"]]
        /\ UNCHANGED <<file, buf>>
    BY <1>4, SetFacts
  <2>3. call'[d].step = "set" /\ (\A c \in Deciders \ {d} : call'[c] = call[c])
    BY <1>1, <2>2
  <2> HIDE DEF k, u
  <2>4. \A x \in Keys : Len(passed[x]) <= Len(passed'[x]) /\ Len(passed'[x]) \in Nat
    BY <1>2, <2>1
  <2>5. ASSUME NEW x \in Keys, NEW e \in Entries, e.life <= Len(passed[x])
        PROVE  e.life <= Len(passed'[x])
    BY <1>2, <2>4, <2>5, EntryFacts
  <2>6. ASSUME NEW x \in Keys
        PROVE  /\ Len(lost'[x]) = Len(passed'[x]) /\ memory'[x].life <= Len(passed'[x])
               /\ file'[x].life <= Len(passed'[x]) /\ buf'[x].life <= Len(passed'[x])
    <3>1. file[x] \in Entries /\ buf[x] \in Entries
      BY DEF TypeOK, Memories
    <3> QED BY <2>1, <2>2, <2>5, <3>1 DEF InvLives
  <2>7. ASSUME NEW c \in Deciders, call'[c].step = "found"
        PROVE  call'[c].info.life <= Len(passed'[call'[c].key])
    <3>1. call'[c] = call[c] /\ call[c].step = "found"
      BY <2>3, <2>7
    <3>2. call[c].key \in Keys /\ call[c].info \in Entries
      BY <3>1, CallFacts
    <3> QED BY <2>5, <3>1, <3>2 DEF InvLives
  <2> QED BY <2>6, <2>7 DEF InvLives
<1>5. ASSUME NEW d \in Deciders, Save(d) PROVE InvLives'
  <2>1. call' = [call EXCEPT ![d] = Idle] /\ UNCHANGED <<memory, file, buf, passed, lost>>
    BY <1>5 DEF Save
  <2>2. call'[d] = Idle /\ (\A c \in Deciders \ {d} : call'[c] = call[c])
    BY <1>1, <2>1
  <2> QED BY <2>1, <2>2 DEF InvLives, Idle
<1>6. ASSUME Tick \/ BackupStep \/ Stop PROVE InvLives'
  <2>1. UNCHANGED <<memory, call, passed, lost>>
    BY <1>6 DEF Tick, BackupStep, BackupLoop, BackupWake, BackupOpen, BackupOpenFails,
                BackupPrint, BackupSteal, Stop, ghosts
  <2>2. file' \in {file, buf, Nothing} /\ buf' \in {buf, memory, Nothing}
    BY <1>6 DEF Tick, BackupStep, BackupLoop, BackupWake, BackupOpen, BackupOpenFails,
                BackupPrint, BackupSteal, Stop
  <2> QED BY <1>2, <2>1, <2>2, NothingFacts DEF InvLives
<1>7. ASSUME Down PROVE InvLives'
  <2>1. /\ memory' = Nothing /\ buf' = Nothing /\ UNCHANGED <<file, passed, lost>>
        /\ \A d \in Deciders : call'[d].step # "found"
    BY <1>7 DEF Down, Idle
  <2> QED BY <1>2, <2>1, NothingFacts DEF InvLives
<1>8. ASSUME NEW found \in BOOLEAN, Start(found) PROVE InvLives'
  <2>1. \A k \in Keys : memory'[k] \in {file[k], None} /\ Len(lost'[k]) = Len(lost[k])
    BY <1>8, StartFacts
  <2>2. UNCHANGED <<file, buf, call, passed>>
    BY <1>8 DEF Start
  <2> QED BY <1>2, <2>1, <2>2 DEF InvLives
<1> QED BY <1>3, <1>4, <1>5, <1>6, <1>7, <1>8 DEF Next, Exit, Crash

LEMMA PassedStep ==
  ASSUME IInv, Next
  PROVE  InvPassed'
<1> USE DEF IInv
<1>1. /\ memory \in Memories /\ passed \in [Keys -> Seq(Nat)] /\ lost \in [Keys -> Seq(Nat)]
      /\ OneHandler \subseteq Keys /\ None.counter = 0 /\ None.life = 0
  BY DEF TypeOK, OneHandler, None
<1>2. cfg' = cfg
  BY DEF Next, Lookup, Set, Save, Tick, BackupStep, BackupLoop, BackupWake, BackupOpen,
         BackupOpenFails, BackupPrint, BackupSteal, Stop, Exit, Crash, Down, Start
<1>3. MaxPacket' = MaxPacket /\ Kind' = Kind /\ MaxPacket \in Int
  BY <1>2, ConfigFacts DEF MaxPacket, Kind
<1>4. ASSUME UNCHANGED <<memory, passed, lost>> PROVE InvPassed'
  BY <1>3, <1>4 DEF InvPassed, WithinLimit
<1>5. ASSUME NEW d \in Deciders, Set(d) PROVE InvPassed'
  <2> SUFFICES ASSUME Kind = "control", NEW x \in OneHandler
               PROVE  /\ memory'[x] # None =>
                           passed'[x][memory'[x].life] <= memory'[x].counter + lost'[x][memory'[x].life]
                      /\ \A l \in 1 .. Len(passed'[x]) :
                           passed'[x][l] > 0 => passed'[x][l] <= MaxPacket + lost'[x][l]
    BY <1>3 DEF InvPassed, WithinLimit
  <2> DEFINE k == call[d].key
             e == call[d].info
             u == Updated(e, call[d].now, Len(passed[k]) + 1)
             n == IF Accepts(e) THEN 1 ELSE 0
  <2>1. /\ call[d].step = "found" /\ k \in Keys /\ e \in Entries /\ call[d].now \in Nat
        /\ passed[k] \in Seq(Nat) /\ lost[k] \in Seq(Nat)
        /\ e.life <= Len(passed[k]) /\ Len(passed[k]) + 1 \in Nat \ {0}
        /\ passed' = [passed EXCEPT ![k] = Passed(passed[k], e)]
        /\ lost' = [lost EXCEPT ![k] = IF Renews(e) THEN Append(lost[k], 0) ELSE lost[k]]
    BY <1>5, SetFacts
  <2>2. /\ memory'[k] = u /\ u \in Entries /\ u # None
        /\ \A y \in Keys \ {k} :
             memory'[y] = memory[y] /\ passed'[y] = passed[y] /\ lost'[y] = lost[y]
        /\ u.life \in 1 .. Len(passed'[k])
        /\ \A l \in 1 .. Len(passed'[k]) \ {u.life} :
             passed'[k][l] = passed[k][l] /\ lost'[k][l] = lost[k][l] /\ l <= Len(passed[k])
    BY <1>5, SetLives
  <2>3. /\ Renews(e) => u.counter = 1 /\ u.life = Len(passed[k]) + 1
        /\ ~Renews(e) => u.counter = e.counter + 1 /\ u.life = e.life
    <3> DEFINE m == Len(passed[k]) + 1
    <3>1. e \in Entries /\ call[d].now \in Nat /\ m \in Nat \ {0}
      BY <2>1
    <3> HIDE DEF m, e
    <3>2. LET v == Updated(e, call[d].now, m)
          IN /\ Renews(e) => v.counter = 1 /\ v.life = m
             /\ ~Renews(e) => v.counter = e.counter + 1 /\ v.life = e.life
      BY <3>1, UpdatedFacts
    <3> QED BY <3>2 DEF m
  <2>4. Accepts(e) <=> u.counter <= MaxPacket
    BY <2>3 DEF Accepts, ControlAccepts
  <2>5. /\ Renews(e) => Passed(passed[k], e)[Len(passed[k]) + 1] = n
        /\ ~Renews(e) => /\ Passed(passed[k], e)[e.life] = passed[k][e.life] + n
                         /\ e.life \in 1 .. Len(passed[k])
    BY <2>1, PassedFacts
  <2>6. Len(lost[k]) = Len(passed[k])
    BY <2>1 DEF InvLives
  <2>7. CASE x # k
    <3>1. x \in Keys /\ passed'[x] = passed[x] /\ memory'[x] = memory[x] /\ lost'[x] = lost[x]
      BY <1>1, <2>2, <2>7
    <3> QED BY <3>1 DEF InvPassed, WithinLimit
  <2>8. CASE x = k
    <3>1. e = memory[k]
      BY <2>1, <2>8 DEF InvCalls
    <3>2. passed'[k] = Passed(passed[k], e)
      BY <1>1, <2>1
    <3>3. lost'[k] = IF Renews(e) THEN Append(lost[k], 0) ELSE lost[k]
      BY <1>1, <2>1
    <3>4. WithinLimit(k) /\ (e # None => passed[k][e.life] <= e.counter + lost[k][e.life])
      BY <2>8, <3>1 DEF InvPassed
    <3>5. e.counter \in Nat /\ u.counter \in Nat
      BY <2>1, <2>2, EntryFacts
    <3>6. n = IF u.counter <= MaxPacket THEN 1 ELSE 0
      BY <2>4
    <3> HIDE DEF k, e, u, n
    <3>7. /\ passed'[k][u.life] <= u.counter + lost'[k][u.life]
          /\ passed'[k][u.life] > 0 => passed'[k][u.life] <= MaxPacket + lost'[k][u.life]
      <4>1. CASE Renews(e)
        <5>1. lost'[k][u.life] = 0
          BY <2>1, <2>3, <2>6, <3>3, <4>1
        <5>2. passed'[k][u.life] = n /\ u.counter = 1
          BY <2>3, <2>5, <3>2, <4>1
        <5> QED BY <1>3, <3>6, <5>1, <5>2
      <4>2. CASE ~Renews(e)
        <5>1. e # None /\ e.life \in 1 .. Len(passed[k])
          BY <2>5, <4>2 DEF Renews
        <5> DEFINE p == passed[k][e.life]
                   g == lost[k][e.life]
        <5>2. p \in Nat /\ g \in Nat
          <6>1. passed[k] \in Seq(Nat) /\ lost[k] \in Seq(Nat) /\ e.life \in 1 .. Len(lost[k])
            BY <2>1, <2>6, <5>1
          <6>2. passed[k][e.life] \in Nat
            BY <5>1, <6>1
          <6>3. lost[k][e.life] \in Nat
            BY <6>1
          <6> QED BY <6>2, <6>3
        <5>3. passed'[k][u.life] = p + n /\ lost'[k][u.life] = g /\ u.counter = e.counter + 1
          BY <2>3, <2>5, <3>2, <3>3, <4>2
        <5>4. p <= e.counter + g /\ (p > 0 => p <= MaxPacket + g)
          BY <3>4, <5>1 DEF WithinLimit
        <5> HIDE DEF p, g
        <5> QED BY <1>3, <3>5, <3>6, <5>2, <5>3, <5>4
      <4> QED BY <4>1, <4>2
    <3>8. ASSUME NEW l \in 1 .. Len(passed'[k]), passed'[k][l] > 0
          PROVE  passed'[k][l] <= MaxPacket + lost'[k][l]
      <4>1. CASE l = u.life
        BY <3>7, <3>8, <4>1
      <4>2. CASE l # u.life
        <5>1. passed'[k][l] = passed[k][l] /\ lost'[k][l] = lost[k][l] /\ l <= Len(passed[k])
          BY <2>2, <4>2
        <5>2. l \in 1 .. Len(passed[k])
          BY <2>1, <2>2, <5>1
        <5> QED BY <3>4, <3>8, <5>1, <5>2 DEF WithinLimit
      <4> QED BY <4>1, <4>2
    <3> QED BY <2>2, <2>8, <3>7, <3>8
  <2> QED BY <2>7, <2>8
<1>6. ASSUME Down PROVE InvPassed'
  <2>1. UNCHANGED <<passed, lost>> /\ \A k \in Keys : memory'[k] = None
    BY <1>6, NothingFacts DEF Down
  <2> QED BY <1>1, <1>3, <2>1 DEF InvPassed, WithinLimit
<1>7. ASSUME NEW found \in BOOLEAN, Start(found) PROVE InvPassed'
  <2> SUFFICES ASSUME Kind = "control", NEW k \in OneHandler
               PROVE  /\ memory'[k] # None =>
                           passed'[k][memory'[k].life] <= memory'[k].counter + lost'[k][memory'[k].life]
                      /\ \A l \in 1 .. Len(passed'[k]) :
                           passed'[k][l] > 0 => passed'[k][l] <= MaxPacket + lost'[k][l]
    BY <1>3 DEF InvPassed, WithinLimit
  <2> DEFINE e == memory'[k]
  <2>1. passed' = passed /\ k \in Keys
    BY <1>1, <1>7 DEF Start
  <2>2. /\ e \in {file[k], None} /\ e \in Entries
        /\ lost'[k] \in Seq(Nat) /\ Len(lost'[k]) = Len(lost[k])
        /\ \A l \in 1 .. Len(lost[k]) :
             /\ lost'[k][l] >= lost[k][l]
             /\ e.life = l => lost'[k][l] >= passed[k][l] - e.counter
    BY <1>7, <2>1, StartFacts
  <2>3. /\ Len(lost[k]) = Len(passed[k]) /\ file[k].life <= Len(passed[k])
        /\ lost[k] \in Seq(Nat) /\ passed[k] \in Seq(Nat)
    BY <1>1, <2>1 DEF InvLives
  <2>4. \A l \in 1 .. Len(passed[k]) :
           passed[k][l] \in Nat /\ lost[k][l] \in Nat /\ lost'[k][l] \in Nat
    <3> DEFINE g == lost'[k]
    <3>1. g \in Seq(Nat) /\ Len(g) = Len(passed[k])
      BY <2>2, <2>3
    <3> HIDE DEF g
    <3>2. \A l \in 1 .. Len(passed[k]) : g[l] \in Nat
      BY <3>1
    <3>3. \A l \in 1 .. Len(passed[k]) : passed[k][l] \in Nat /\ lost[k][l] \in Nat
      BY <2>3
    <3> QED BY <3>2, <3>3 DEF g
  <2>5. e.counter \in Nat /\ e.life \in Nat /\ (e # None => e.life # 0)
    BY <2>2, EntryFacts
  <2> HIDE DEF e
  <2>6. e # None => e.life \in 1 .. Len(passed[k])
    BY <2>2, <2>3, <2>5
  <2>7. e # None => passed[k][e.life] <= e.counter + lost'[k][e.life]
    <3> SUFFICES ASSUME e # None PROVE passed[k][e.life] <= e.counter + lost'[k][e.life]
      OBVIOUS
    <3>1. lost'[k][e.life] >= passed[k][e.life] - e.counter
      BY <2>2, <2>3, <2>6
    <3>2. passed[k][e.life] \in Nat /\ lost'[k][e.life] \in Nat
      BY <2>4, <2>6
    <3> QED BY <2>5, <3>1, <3>2
  <2>8. ASSUME NEW l \in 1 .. Len(passed[k]), passed[k][l] > 0
        PROVE  passed[k][l] <= MaxPacket + lost'[k][l]
    <3>1. passed[k][l] <= MaxPacket + lost[k][l] /\ lost'[k][l] >= lost[k][l]
      BY <2>2, <2>3, <2>8 DEF InvPassed, WithinLimit
    <3> QED BY <1>3, <2>4, <3>1
  <2> QED BY <2>1, <2>7, <2>8 DEF e
<1>8. ASSUME \/ \E d \in Deciders, k \in Keys : Lookup(d, k)
             \/ \E d \in Deciders : Save(d)
             \/ Tick \/ BackupStep \/ Stop
      PROVE  UNCHANGED <<memory, passed, lost>>
  BY <1>8 DEF Lookup, Save, Tick, BackupStep, BackupLoop, BackupWake, BackupOpen,
              BackupOpenFails, BackupPrint, BackupSteal, Stop, ghosts
<1> QED BY <1>4, <1>5, <1>6, <1>7, <1>8 DEF Next, Exit, Crash

-----------------------------------------------------------------------------
(* InvBackup and UnsavedIsDue.                                             *)

LEMMA BackupInvStep ==
  ASSUME IInv, Next
  PROVE  InvBackup' /\ UnsavedIsDue'
<1> USE DEF IInv
<1>1. call \in [Deciders -> Calls] /\ version \in [memory : Nat, buf : Nat, file : Nat]
  BY DEF TypeOK
<1>2. ASSUME NEW d \in Deciders, NEW k \in Keys, Lookup(d, k) PROVE InvBackup' /\ UnsavedIsDue'
  <2> DEFINE r == [step |-> "found", key |-> k, now |-> clock, info |-> memory[k]]
  <2>1. /\ call' = [call EXCEPT ![d] = r] /\ call[d] = Idle
        /\ UNCHANGED <<registered, backup, run, version, missed>>
    BY <1>2 DEF Lookup, ghosts
  <2> HIDE DEF r
  <2>2. \A c \in Deciders : call[c].step = "set" => call'[c] = call[c]
    BY <1>1, <2>1 DEF Idle
  <2> QED BY <2>1, <2>2 DEF InvBackup, UnsavedIsDue
<1>3. ASSUME NEW d \in Deciders, Set(d) PROVE InvBackup' /\ UnsavedIsDue'
  <2>1. /\ call' = [call EXCEPT ![d] = [step |-> "set"]]
        /\ version' = [version EXCEPT !.memory = version.memory + 1]
        /\ UNCHANGED <<registered, backup, run>>
    BY <1>3 DEF Set
  <2>2. call'[d].step = "set"
    BY <1>1, <2>1
  <2>3. version'.buf = version.buf /\ version'.file = version.file
    BY <1>1, <2>1
  <2> QED BY <2>1, <2>2, <2>3 DEF InvBackup, UnsavedIsDue
<1>4. ASSUME NEW d \in Deciders, Save(d) PROVE InvBackup' /\ UnsavedIsDue'
  BY <1>4 DEF Save, InvBackup, UnsavedIsDue
<1>5. ASSUME Tick \/ Stop PROVE InvBackup' /\ UnsavedIsDue'
  BY <1>5 DEF Tick, Stop, ghosts, InvBackup, UnsavedIsDue
<1>6. ASSUME BackupLoop PROVE InvBackup' /\ UnsavedIsDue'
  BY <1>6 DEF BackupLoop, ghosts, InvBackup, UnsavedIsDue
<1>7. ASSUME BackupWake PROVE InvBackup' /\ UnsavedIsDue'
  BY <1>1, <1>7 DEF BackupWake, InvBackup, UnsavedIsDue
<1>8. ASSUME BackupOpen PROVE InvBackup' /\ UnsavedIsDue'
  BY <1>8 DEF BackupOpen, InvBackup, UnsavedIsDue
<1>9. ASSUME BackupOpenFails PROVE InvBackup' /\ UnsavedIsDue'
  BY <1>9 DEF BackupOpenFails, InvBackup, UnsavedIsDue
<1>10. ASSUME BackupPrint PROVE InvBackup' /\ UnsavedIsDue'
  BY <1>1, <1>10 DEF BackupPrint, InvBackup, UnsavedIsDue
<1>11. ASSUME BackupSteal PROVE InvBackup' /\ UnsavedIsDue'
  <2>1. /\ backup = "steal" /\ backup' = "loop" /\ UNCHANGED <<call, run>>
        /\ version' = [version EXCEPT !.buf = 0]
        /\ version.buf # version.memory /\ (\A d \in Deciders : call[d].step # "set") => missed'
    BY <1>11 DEF BackupSteal
  <2>2. version'.memory = version.memory /\ version'.file = version.file
    BY <1>1, <2>1
  <2> QED BY <2>1, <2>2 DEF InvBackup, UnsavedIsDue
<1>12. ASSUME Down PROVE InvBackup' /\ UnsavedIsDue'
  BY <1>12 DEF Down, InvBackup, UnsavedIsDue
<1>13. ASSUME NEW found \in BOOLEAN, Start(found) PROVE InvBackup' /\ UnsavedIsDue'
  BY <1>13 DEF Start, InvDown, InvBackup, UnsavedIsDue
<1> QED
  BY <1>2, <1>3, <1>4, <1>5, <1>6, <1>7, <1>8, <1>9, <1>10, <1>11, <1>12, <1>13
  DEF Next, BackupStep, Exit, Crash

-----------------------------------------------------------------------------
(* The inductive invariant.                                                *)

LEMMA InitHolds ==
  ASSUME Init
  PROVE  IInv
<1> USE DEF Init
<1>1. TypeOK
  <2>1. call \in [Deciders -> Calls]
    BY DEF Calls
  <2>5. passed \in [Keys -> Seq(Nat)] /\ lost \in [Keys -> Seq(Nat)]
    OBVIOUS
  <2>2. version \in [memory : Nat, buf : Nat, file : Nat]
    OBVIOUS
  <2>3. MaxStarts \in Nat /\ MaxFailures \in Nat /\ MaxSetbacks \in Nat
    BY SourcesAssumption
  <2>4. /\ starts \in 0 .. MaxStarts /\ failures \in 0 .. MaxFailures
        /\ setbacks \in 0 .. MaxSetbacks
    BY <2>3
  <2> QED BY <2>1, <2>2, <2>4, <2>5, NothingFacts DEF TypeOK, Steps
<1>2. \A d \in Deciders : call[d] = Idle /\ call[d].step # "found"
  BY DEF Idle
<1>3. InvTimes
  <2>1. clock \in Nat
    BY SourcesAssumption
  <2>2. Past(None, clock)
    BY <2>1 DEF Past, None
  <2> QED BY <1>2, <2>2, NothingFacts DEF InvTimes, TimesPast
<1>4. InvCalls /\ InvDown /\ InvBackup /\ UnsavedIsDue
  BY <1>2 DEF InvCalls, InvDown, InvBackup, UnsavedIsDue
<1>5. \A k \in Keys : memory[k] = None /\ Len(passed[k]) = 0 /\ Len(lost[k]) = 0
  BY NothingFacts
<1>6. InvPassed
  BY <1>5 DEF InvPassed, WithinLimit, OneHandler
<1>7. InvLives
  BY <1>2, <1>5, NothingFacts DEF InvLives, None
<1> QED BY <1>1, <1>3, <1>4, <1>6, <1>7 DEF IInv

LEMMA Inductive ==
  ASSUME IInv, [Next]_vars
  PROVE  IInv'
<1>1. CASE Next
  BY <1>1, TypeStep, LivesStep, CallsStep, TimesStep, PassedStep, BackupInvStep DEF IInv
<1>2. CASE UNCHANGED vars
  BY <1>2 DEF vars, IInv, TypeOK, InvLives, InvTimes, TimesPast, InvCalls, InvDown, InvPassed,
              WithinLimit, MaxPacket, Kind, InvBackup, UnsavedIsDue
<1> QED BY <1>1, <1>2

LEMMA Invariance == Spec => []IInv
<1>1. Init => IInv
  BY InitHolds
<1>2. IInv /\ [Next]_vars => IInv'
  BY Inductive
<1> QED BY <1>1, <1>2, PTL DEF Spec

-----------------------------------------------------------------------------
(* Theorems.                                                               *)

(* An entry in the GKeyFile, in the backup file and in each thread's copy  *)
(* has counted at least one packet, whatever the settings are.             *)
THEOREM TypeCorrect == Spec => []TypeOK
BY Invariance, PTL DEF IInv

(* mod_control() accepts no more packets of a source that one thread       *)
(* handles, in one life of the source's entry, than its limit; when a      *)
(* restart reads the entry back with an older counter, no more than the    *)
(* packets that this counter did not know in addition.                     *)
THEOREM LimitHolds == Spec => []RateLimit
<1>1. IInv => RateLimit
  BY DEF IInv, InvPassed, RateLimit
<1> QED BY <1>1, Invariance, PTL

(* While the program runs, what the file lacks is in module_to_save, about *)
(* to be entered, or was entered while write_backup() wrote.               *)
THEOREM NothingForgotten == Spec => []UnsavedIsDue
BY Invariance, PTL DEF IInv

(* A step that gives an entry a new life does so after the expiration. *)
LEMMA RenewalStep ==
  ASSUME IInv, [Next]_vars, NEW k \in OneHandler, Kind # "hash", setbacks = 0
  PROVE  RenewedLate(k)
<1> USE DEF IInv
<1> SUFFICES ASSUME RenewedEntry(k)
             PROVE  memory'[k].first_seen - memory[k].first_seen > Expiration
  BY DEF RenewedLate
<1>1. k \in Keys /\ Nothing[k] = None
  BY NothingFacts DEF OneHandler
<1>2. PICK d \in Deciders : Set(d)
  BY <1>1 DEF RenewedEntry, vars, Next, Lookup, Save, Tick, BackupStep, BackupLoop, BackupWake,
         BackupOpen, BackupOpenFails, BackupPrint, BackupSteal, Stop, Exit, Crash, Down, Start
<1> DEFINE e == call[d].info
           now == call[d].now
           life == Len(passed[call[d].key]) + 1
<1>3. /\ call[d].step = "found" /\ now \in Nat /\ e \in Entries /\ life \in Nat \ {0}
      /\ memory' = [memory EXCEPT ![call[d].key] = Updated(e, now, life)]
  BY <1>2, SetFacts
<1>4. call[d].key = k
  BY <1>1, <1>3 DEF TypeOK, Memories, RenewedEntry
<1>5. e = memory[k] /\ memory'[k] = Updated(e, now, life)
  BY <1>1, <1>3, <1>4 DEF TypeOK, Memories, InvCalls
<1>6. Past(e, now)
  BY <1>3 DEF InvTimes, TimesPast
<1> HIDE DEF e, now, life
<1>7. Renews(e) /\ memory'[k].first_seen = now
  BY <1>3, <1>5, UpdatedFacts DEF RenewedEntry
<1>8. e.duration > Expiration
  BY <1>5, <1>7 DEF Renews, RenewedEntry
<1>9. e.first_seen \in Nat /\ e.duration \in Int /\ Expiration \in Int
  BY <1>3, EntryFacts, ConfigFacts
<1> QED BY <1>3, <1>5, <1>6, <1>7, <1>8, <1>9 DEF Past

(* The entry of a source that one thread handles is renewed only when the  *)
(* expiration has passed since its last life began, as long as the clock   *)
(* has not been set back.                                                  *)
THEOREM RenewalIsDue == Spec => RenewedAfterExpiration
<1> DEFINE Due == setbacks = 0 /\ Kind # "hash" => \A k \in OneHandler : RenewedLate(k)
<1>1. IInv /\ [Next]_vars => [Due]_vars
  BY RenewalStep
<1> QED BY <1>1, Invariance, PTL DEF Spec, RenewedAfterExpiration

=============================================================================
