----------------------------- MODULE MCLifecycle -----------------------------
(* Small instances of Lifecycle for TLC.                                   *)
EXTENDS Lifecycle

(* Two sessions of external hosts whose last address bytes are 1 and 2:    *)
(* session 2 as seen on the uplink, session 1 in the replies of the two    *)
(* honeypots that serve it, 10 before and 11 after its redirection.        *)
ExtFlow(s) == [session |-> s, link |-> "wan", saddr |-> s, daddr |-> 100]
ReplyFlow(s, pot) == [session |-> s, link |-> "honeynet", saddr |-> pot, daddr |-> s]
ExternalFlows == {ExtFlow(2), ReplyFlow(1, 10), ReplyFlow(1, 11)}

=============================================================================
