---------------------------- MODULE DispatchPump ----------------------------
(***************************************************************************)
(* How received messages get dispatched: a dbuscc::connection that reports *)
(* changes of libdbus' dispatch status, and the tscb_adapter that turns a  *)
(* report, and the result of every dispatch, into closures it posts to the *)
(* reactor.  Each closure dispatches one message at most.  libdbus calls   *)
(* the status function when the status changes, not for every message, so  *)
(* a message that arrives while one waits is dispatched only because the   *)
(* chain of closures does not break.                                       *)
(*                                                                         *)
(* libdbus (its queue, its last status) and the reactor (the posted        *)
(* closures) are modelled from how the adapter uses them.  The handlers of *)
(* a message are user code; while they run (busy) more messages may be     *)
(* read and the adapter may be deleted.                                    *)
(***************************************************************************)
EXTENDS Integers

CONSTANTS
  MaxMessages,   \* bound: messages that are ever received
  MaxShortages   \* bound: how often libdbus is short of memory

ASSUME BoundsAssumption == MaxMessages \in Nat /\ MaxShortages \in Nat

VARIABLES
  adapter,    \* the tscb_adapter: "absent", "live" or "deleted"
  listening,  \* does the status function of the connection reach the adapter?
  queue,      \* received messages that are not dispatched
  received,   \* messages received so far
  last,       \* the status libdbus reported or would have reported last
  shortages,  \* times libdbus was short of memory
  posted,     \* do_dispatch closures that wait in the reactor
  busy,       \* do the handlers of a message run, for a do_dispatch?
  nested,     \* history: messages that were read while handlers ran
  fault       \* how the process ended, if it did

vars == <<adapter, listening, queue, received, last, shortages, posted, busy,
          nested, fault>>

DispatchStates == {"DATA_REMAINS", "COMPLETE", "NEED_MEMORY"}

Count(b) == IF b THEN 1 ELSE 0

Alive == fault = "none"

\* dbus_connection_get_dispatch_status() with q messages in the queue.
StatusOf(q) ==
  IF q = 0 THEN {"COMPLETE"}
  ELSE {"DATA_REMAINS"}
         \cup {s \in {"NEED_MEMORY"} : shortages < MaxShortages}

\* Mutant: every state posts, COMPLETE too.
OnDispatchState_Always(status) == Count(status \in DispatchStates)

\* Mutant: only DATA_REMAINS posts; a shortage of memory is not retried.
OnDispatchState_NoRetry(status) == Count(status = "DATA_REMAINS")

\* The closures that tscb_adapter::on_dispatch_state() posts.
OnDispatchState(status) == Count(status # "COMPLETE")

\* libdbus found its status to be `status': it remembers that, and calls the
\* connection's status function if it changed.  The function emits
\* on_dispatch_state, to which the adapter is connected if `heard'.
Reported(status, heard) ==
  Count(status # last /\ heard) * OnDispatchState(status)

Remember(status) ==
  /\ last' = status
  /\ shortages' = shortages + Count(status = "NEED_MEMORY")

\* Mutant: do_dispatch() ignores what dispatch() returns and relies on the
\* status function.
Returned_Ignored(status) == 0

\* What do_dispatch() posts for the status that dispatch() returns.
Returned(status) == OnDispatchState(status)

-----------------------------------------------------------------------------

\* A message is read or made by libdbus: by the handler of a watch or of a
\* timeout, by a call that blocks before there is an adapter, or inside a
\* handler that closes the connection or sends on a broken one.
Receive ==
  /\ Alive /\ received < MaxMessages
  /\ received' = received + 1
  /\ queue' = queue + 1
  /\ \E status \in StatusOf(queue + 1) :
       /\ Remember(status)
       /\ posted' = posted + Reported(status, listening)
  /\ nested' = nested + Count(busy)
  /\ UNCHANGED <<adapter, listening, busy, fault>>

\* libdbus looks at its status again with no new message, in
\* dbus_connection_send() for example.
UpdateStatus ==
  /\ Alive
  /\ \E status \in StatusOf(queue) :
       /\ Remember(status)
       /\ posted' = posted + Reported(status, listening)
  /\ UNCHANGED <<adapter, listening, queue, received, busy, nested, fault>>

\* connection::dispatch(), called by do_dispatch() when `before' closures
\* are posted and the status function reaches the adapter.  With a message
\* to dispatch the handlers begin to run; otherwise the status is reported
\* and returned at once.
BeginDispatch(before) ==
  \E status \in StatusOf(queue) :
    \/ /\ status = "DATA_REMAINS"
       /\ queue' = queue - 1
       /\ busy' = TRUE
       /\ posted' = before
       /\ UNCHANGED <<last, shortages>>
    \/ /\ status # "DATA_REMAINS"
       /\ Remember(status)
       /\ posted' = before + Reported(status, TRUE) + Returned(status)
       /\ UNCHANGED <<queue, busy>>

\* Mutant: the constructor does not dispatch.
Construct_NoDispatch ==
  /\ Alive /\ ~busy /\ adapter = "absent"
  /\ adapter'   = "live"
  /\ listening' = TRUE
  /\ UNCHANGED <<queue, received, last, shortages, posted, busy, nested, fault>>

\* The constructor of the adapter: connect to the signals, install the
\* handlers of the connection, dispatch.
Construct ==
  /\ Alive /\ ~busy /\ adapter = "absent"
  /\ adapter'   = "live"
  /\ listening' = TRUE
  /\ BeginDispatch(posted)
  /\ UNCHANGED <<received, nested, fault>>

\* The reactor runs a closure.  It holds the adapter's bare `this'.
RunPosted ==
  /\ Alive /\ ~busy /\ posted > 0
  /\ \/ /\ adapter = "live"
        /\ BeginDispatch(posted - 1)
        /\ UNCHANGED fault
     \/ /\ adapter = "deleted"
        /\ fault' = "dangling"
        /\ posted' = posted - 1
        /\ UNCHANGED <<queue, last, shortages, busy>>
  /\ UNCHANGED <<adapter, listening, received, nested>>

\* The handlers are through: libdbus reports a change of its status, then
\* dispatch() returns it to do_dispatch(), which goes on with `this'.
EndDispatch ==
  /\ Alive /\ busy
  /\ busy' = FALSE
  /\ \E status \in StatusOf(queue) :
       /\ Remember(status)
       /\ posted' = posted + Reported(status, listening)
                           + Count(adapter = "live") * Returned(status)
  /\ fault' = IF adapter = "live" THEN fault ELSE "dangling"
  /\ UNCHANGED <<adapter, listening, queue, received, nested>>

\* ~tscb_adapter()
Delete ==
  /\ Alive /\ adapter = "live"
  /\ adapter' = "deleted"
  /\ listening' = FALSE
  /\ UNCHANGED <<queue, received, last, shortages, posted, busy, nested, fault>>

Init ==
  /\ adapter = "absent" /\ listening = FALSE
  /\ queue = 0 /\ received = 0
  /\ last = "COMPLETE" /\ shortages = 0
  /\ posted = 0 /\ busy = FALSE /\ nested = 0
  /\ fault = "none"

Next ==
  \/ Receive \/ UpdateStatus \/ Construct
  \/ RunPosted \/ EndDispatch \/ Delete

Spec == Init /\ [][Next]_vars

\* The reactor runs the closures posted to it, and handlers return.
FairSpec == Spec /\ WF_vars(RunPosted) /\ WF_vars(EndDispatch)

-----------------------------------------------------------------------------
(***************************************************************************)
(* Properties                                                              *)
(***************************************************************************)

\* Type correctness.
TypeOK ==
  /\ adapter \in {"absent", "live", "deleted"}
  /\ listening \in BOOLEAN
  /\ queue \in Nat /\ received \in Nat /\ shortages \in Nat
  /\ posted \in Nat /\ nested \in Nat
  /\ last \in DispatchStates
  /\ busy \in BOOLEAN
  /\ fault \in {"none", "dangling"}

\* A message that waits always has a closure that will take it: whether it
\* arrived before the adapter existed, while another waited, while a handler
\* ran, or when libdbus was short of memory.
NoLostWakeup ==
  Alive /\ adapter = "live" /\ ~busy /\ queue > 0 => posted > 0

\* The two posts of a status change and of a result do not pile up: one
\* closure, and more only for what happened meanwhile, two for each shortage
\* of memory and one for each message that came while handlers ran.
ClosuresBounded == posted <= 1 + 2 * shortages + nested

\* Every message is dispatched while the adapter lives.
EventuallyDispatched ==
  (adapter = "live" /\ queue > 0) ~> (queue = 0 \/ adapter = "deleted")

\* When nothing arrives any more the chain of closures ends: the reactor may
\* sleep.
ReactorSleeps == <>[](posted = 0 \/ ~Alive)

\* The last status tells whether a message waits, except while a handler
\* runs: then the message that was taken is still reported.
StatusMatchesQueue ==
  /\ last = "COMPLETE" => queue = 0
  /\ ~busy /\ queue = 0 => last = "COMPLETE"

\* A status other than COMPLETE has a closure.
StatusHasClosure ==
  Alive /\ adapter = "live" /\ ~busy /\ last # "COMPLETE" => posted > 0

\* The closures, and the one that the end of a shortage will post, are paid
\* for: by the status, by a shortage, by a message in a handler.
ClosuresPaid ==
  posted + Count(last = "NEED_MEMORY")
    <= Count(~busy /\ last # "COMPLETE") + 2 * shortages + nested

\* The inductive invariant.
PumpInv ==
  /\ TypeOK
  /\ StatusMatchesQueue
  /\ StatusHasClosure
  /\ Alive => ClosuresPaid
  /\ last = "NEED_MEMORY" => shortages > 0
  /\ ClosuresBounded
  /\ adapter = "absent" => posted = 0 /\ ~busy
  /\ listening <=> adapter = "live"

=============================================================================
