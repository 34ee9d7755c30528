----------------------------- MODULE AsyncCall -----------------------------
(***************************************************************************)
(* What dbuscc::pending_call promises its user, without libdbus, reference *)
(* counts or messages: a call is issued once, and then it is either        *)
(* answered (its completion signal fires, once) or abandoned (cancelled or *)
(* dropped while it was still waiting).  Both ends are final: an answered  *)
(* call never fires again, and an abandoned call never fires.              *)
(***************************************************************************)
CONSTANT Calls              \* the method calls of the program

VARIABLE phase              \* where each call is in its life

Phases == {"idle", "waiting", "answered", "abandoned"}

\* Every call is in one of its phases.
TypeOK == phase \in [Calls -> Phases]

Move(c, from, to) ==
  /\ phase[c] = from
  /\ phase' = [phase EXCEPT ![c] = to]

Issue(c)   == Move(c, "idle", "waiting")
Answer(c)  == Move(c, "waiting", "answered")
Abandon(c) == Move(c, "waiting", "abandoned")

Init == phase = [c \in Calls |-> "idle"]

Next == \E c \in Calls : Issue(c) \/ Answer(c) \/ Abandon(c)

Spec == Init /\ [][Next]_phase

=============================================================================
