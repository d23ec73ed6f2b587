---------------------------- MODULE MCConnections ----------------------------
(* Small instances of Connections for TLC.                                 *)
EXTENDS Connections

Flow(src, dst, port) == [src |-> src, dst |-> dst, port |-> port]

HostThread == [h \in {"a", "b", "x"} |-> IF h = "a" THEN "t1" ELSE "t2"]

(* Two hosts with a thread each attack the address "x" from port 1.  The   *)
(* honeypots answer there, and open connections of their own: the LIH to   *)
(* the attacked address from port 2, for which there may be a pin, the HIH *)
(* to an attacker from port 3.                                             *)
Attacks == {Flow("a", "x", 1), Flow("b", "x", 1)}
Answers == {Flow("x", "x", 2), Flow("a", "gw", 3)}
FromPots == {Flow("lih", "a", 1), Flow("hih", "a", 1), Flow("lih", "x", 2), Flow("hih", "a", 3)}
Opens == Attacks \cup {Flow("lih", "x", 2), Flow("hih", "a", 3)}
FromHosts == Attacks \cup Answers

(* Two hosts attack an address each. *)
AttacksApart == {Flow("a", "x", 1), Flow("b", "y", 1)}

=============================================================================
