------------------------------ MODULE Handover ------------------------------
(***************************************************************************)
(* What a redirected connection promises, without buffers, indices,        *)
(* sequence numbers or expected data: EXT talks to the LIH, then for good  *)
(* to the HIH, and in between the HIH is given what EXT had said so far,   *)
(* from the beginning, in order, once and without gaps.  Packets of EXT    *)
(* are named by the order in which they arrive.                            *)
(***************************************************************************)
EXTENDS Integers, Sequences

VARIABLES
  phase,  \* "front", "kept" (the LIH keeps it), "refused", "replay" or "back"
  seen,   \* packets of EXT that have arrived
  log,    \* those that a HIH would have to be given
  front,  \* those the LIH was given
  given,  \* those the HIH was given, in order
  heard   \* what EXT has heard: honeypot and position in its stream

vars == <<phase, seen, log, front, given, heard>>

Ids(s) == {s[i] : i \in DOMAIN s}
InOrder(s) == \A i, j \in DOMAIN s : i < j => s[i] < s[j]
(* G has no gap: what is in S before a member of G is in G. *)
Initial(G, S) == G \subseteq S /\ \A i \in G, j \in S : j < i => j \in G
Extends(s, t) == \A i \in DOMAIN s : i \in DOMAIN t /\ t[i] = s[i]

Init ==
  /\ phase = "front" /\ seen = 0
  /\ log = {} /\ front = {} /\ given = <<>> /\ heard = {}

Arrive == seen' = seen + 1

(* The LIH serves; a packet may be withheld. *)
Serve ==
  /\ phase = "front" /\ Arrive
  /\ phase' \in {"front", "kept", "refused"}
  /\ log' \in {log, log \cup {seen'}}
  /\ front' \in {front, front \cup {seen'}}
  /\ UNCHANGED <<given, heard>>

(* The connection is redirected: the packet at hand is the last to replay. *)
Begin ==
  /\ phase = "front" /\ Arrive
  /\ phase' = "replay"
  /\ log' = log \cup {seen'}
  /\ InOrder(given') /\ Initial(Ids(given'), log)
  /\ UNCHANGED <<front, heard>>

(* The HIH is given more, and takes over when it has everything. *)
CatchUp ==
  /\ phase = "replay"
  /\ Extends(given, given') /\ InOrder(given') /\ Initial(Ids(given'), log)
  /\ phase' = IF Ids(given') = log THEN "back" ELSE "replay"
  /\ UNCHANGED <<seen, log, front, heard>>

Pass ==
  /\ phase = "back" /\ Arrive
  /\ given' = Append(given, seen')
  /\ UNCHANGED <<phase, log, front, heard>>

Keep ==
  /\ phase = "kept" /\ Arrive
  /\ front' = front \cup {seen'}
  /\ UNCHANGED <<phase, log, given, heard>>

(* A packet during the replay, or of a refused connection, is lost. *)
Lose ==
  /\ phase \in {"replay", "refused"} /\ Arrive
  /\ UNCHANGED <<phase, log, front, given, heard>>

(* EXT hears the honeypot that serves it. *)
Hear ==
  /\ heard \subseteq heard'
  /\ \A h \in heard' \ heard :
       \/ h[1] = "LIH" /\ phase \in {"front", "kept"}
       \/ h[1] = "HIH" /\ phase = "back"
  /\ UNCHANGED <<phase, seen, log, front, given>>

Next == Serve \/ Begin \/ CatchUp \/ Pass \/ Keep \/ Lose \/ Hear

Spec == Init /\ [][Next]_vars

=============================================================================
