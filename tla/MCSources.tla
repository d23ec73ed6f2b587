------------------------------ MODULE MCSources ------------------------------
(* Small instances of Sources for TLC.                                     *)
EXTENDS Sources

(* Packets of a source outside all come to one thread; ... *)
OwnThread == [k \in {"a", "b"} |-> IF k = "a" THEN {"t1"} ELSE {"t2"}]

(* ... those of the source "b", which is internal here, to both. *)
KeyHandlers == [k \in {"a", "b"} |-> IF k = "a" THEN {"t1"} ELSE {"t1", "t2"}]

Module(function) ==
  [function |-> function, backup_file |-> TRUE, expiration |-> Unset, max_packet |-> Unset,
   allow_after |-> Unset]

(* The numbers 49 and 50 are the characters 1 and 2. *)
LimitedControl == {[Module("control") EXCEPT !.max_packet = 50]}
TimedSource == {[Module("source_time") EXCEPT !.allow_after = 49]}
Hash == {Module("hash")}
OneEach == {Module("source")} \cup Hash \cup LimitedControl

(* Ten minutes and a day apart. *)
Times == {1300000000, 1300000600, 1300086401}

=============================================================================
