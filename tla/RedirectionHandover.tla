------------------------ MODULE RedirectionHandover -------------------------
(***************************************************************************)
(* Module Redirection implements module Handover.                          *)
(***************************************************************************)
EXTENDS Redirection

(* What of the connection's state the promise speaks about. *)
Phase ==
  CASE state \in {"INIT", "DECISION"} -> "front"
    [] state = "PROXY" -> "kept"
    [] state = "DROP" -> "refused"
    [] state = "REPLAY" -> "replay"
    [] state = "FORWARD" -> "back"

Recorded == {BUFFER[i].id : i \in {j \in DOMAIN BUFFER : BUFFER[j].origin = "EXT"}}
GivenLih == {f.id : f \in toLih}
GivenHih == [i \in 1 .. Len(toHih) |-> toHih[i].id]
Heard == {<<f.from, f.pos>> : f \in toExt}

H == INSTANCE Handover WITH
       phase <- Phase, seen <- extPkts, log <- Recorded, front <- GivenLih,
       given <- GivenHih, heard <- Heard

(* Every behaviour of the detailed specification is one of the handover:   *)
(* the buffer, replay_id and the loops of setup_redirection() and replay() *)
(* give the HIH what EXT had said, from the beginning, in order, once and  *)
(* without gaps before EXT hears it, and from the redirection on the LIH   *)
(* neither gets a packet of EXT nor is heard.                              *)
HandsOver == H!Spec

=============================================================================
