----------------------------- MODULE MCOutbound -----------------------------
(* Small instances of Outbound for TLC.                                    *)
EXTENDS Outbound

Flow(src, dst, port) == [src |-> src, dst |-> dst, port |-> port]

(* The host "p" is played by the internal host "i"; "d" is a DNS server    *)
(* outside, which the internal server "s" will play.                       *)
Players == [a \in {"p"} |-> [ip |-> "i", rule |-> TRUE, exclusive |-> TRUE, iface |-> TRUE]]

Outside == {"d"}
AddressThread ==
  [a \in {"lih", "hih", "d", "p", "i", "s", "gw", "n"} |->
     IF a \in {"d", "p", "n"} THEN "t1" ELSE "t2"]

(* What the honeypots send, with the answers to it. *)
DnsOfHih == {Flow("hih", "d", 53), Flow("d", "gw", 53), Flow("s", "hih", 53)}
DnsOfLih == {Flow("lih", "d", 54), Flow("d", "gw", 54)}
ToPlayer == {Flow("hih", "p", 1), Flow("i", "hih", 1)}
Others == {Flow("hih", "n", 2), Flow("lih", "p", 3)}

Setup(rule, deny, iface) ==
  [control_rule |-> rule, intra_rule |-> TRUE, deny_hih_init |-> deny, dns_iface |-> iface]
Setups == {Setup("none", FALSE, TRUE), Setup("modules and dns_control", FALSE, TRUE),
           Setup("dns_control", FALSE, FALSE), Setup("modules", TRUE, TRUE)}

AllFlows == DnsOfHih \cup DnsOfLih \cup ToPlayer \cup Others
HihQueries == {Flow("hih", "d", 53)}

=============================================================================
