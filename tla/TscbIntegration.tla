---------------------------- MODULE TscbIntegration ----------------------------
(***************************************************************************)
(* The program of the repository, examples/tscb-integration.cc, with all   *)
(* the components it puts together: a private connection, the tscb_adapter *)
(* between it and a reactor, one method call, and a slot that ends the     *)
(* main loop when the call is answered.                                    *)
(*                                                                         *)
(* main() constructs its locals in the order in which they are declared,   *)
(* runs the reactor until `stop' is set, and destroys the locals in the    *)
(* opposite order.  It checks neither the connection nor the call it gets. *)
(* Each component is reduced to what the others see of it; the modules     *)
(* Connection, MainLoop, DispatchPump and PendingCall have the rest.  Of   *)
(* the watches of the connection there is the one that reads.  The reactor *)
(* runs what is posted, ready or due in any order.                         *)
(***************************************************************************)
EXTENDS Integers, Sequences

CONSTANT MaxReceived    \* bound: messages that the peer sends

ASSUME MaxReceivedAssumption == MaxReceived \in Nat

Handles == {"watch", "timeout"}

Answers == {"return", "error", "other"}
Kinds   == Answers \cup {"signal"}

VARIABLES
  \* main()
  pc,          \* "build", "loop", "unwind" or "done"
  built,       \* how many of the Declared locals exist
  stop,        \* the local of that name
  slot,        \* is on_hello_reply() connected?
  \* the connection
  link,        \* the DBusConnection: "none", "open", "closed" or "freed"
  connrefs,    \* connection_ptrs
  queue,       \* received messages that are not dispatched
  received,    \* how many there were ever
  last,        \* the dispatch status libdbus reported or would have reported
  \* the adapter and the reactor
  live,        \* the handles that libdbus has added and not removed
  posted,      \* handles whose first on_..._change() is posted
  polled,      \* handles that are registered with the reactor
  dispatches,  \* do_dispatch() closures that are posted
  running,     \* do the handlers of a message run?
  \* the call
  call,        \* "none", "waiting", "answered" or "cancelled"
  callrefs,    \* pending_call_ptrs, that in the slot included
  \* control
  fault        \* how the process ended, if it did

main    == <<pc, built, stop, slot>>
conn    == <<link, connrefs, queue, received, last>>
reactor == <<live, posted, polled, dispatches, running>>
pending == <<call, callrefs>>
vars    == <<main, conn, reactor, pending, fault>>

Count(b) == IF b THEN 1 ELSE 0

Alive == fault = "none"

\* What main() does not check, and a removal before the registration.
Unchecked ==
  {"null_connection", "call_assert", "ctor_assert", "null_reply", "null_handle"}

-----------------------------------------------------------------------------
(***************************************************************************)
(* The locals of main()                                                    *)
(***************************************************************************)

\* Mutant: the reactor is declared after what is registered with it.
Declared_ReactorLater ==
  <<"dbus", "err", "conn", "reactor", "adapter", "hello", "hello_reply", "stop", "c">>

\* The locals in their order.
Declared ==
  <<"reactor", "dbus", "err", "conn", "adapter", "hello", "hello_reply", "stop", "c">>

\* Those whose construction and destruction no other component notices: there
\* is no shared connection for the bus to shut down.
Plain == {"reactor", "dbus", "err", "hello", "stop"}

Exists(x) == \E i \in 1..built : Declared[i] = x

Constructs(x) ==
  /\ Alive /\ ~running /\ pc = "build" /\ Declared[built + 1] = x
  /\ built' = built + 1
  /\ pc' = IF built' = Len(Declared) THEN "loop" ELSE "build"

Destroys(x) ==
  /\ Alive /\ pc = "unwind" /\ Declared[built] = x
  /\ built' = built - 1
  /\ pc' = IF built' = 0 THEN "done" ELSE "unwind"

ConstructPlain ==
  /\ \E x \in Plain : Constructs(x)
  /\ UNCHANGED <<stop, slot, conn, reactor, pending, fault>>

DestroyPlain ==
  /\ \E x \in Plain : Destroys(x)
  /\ UNCHANGED <<stop, slot, conn, reactor, pending, fault>>

-----------------------------------------------------------------------------
(***************************************************************************)
(* The connection and the adapter                                          *)
(***************************************************************************)

StatusOf(q) == IF q = <<>> THEN "COMPLETE" ELSE "DATA_REMAINS"

\* Closures that on_dispatch_state() posts.
OnDispatchState(status) == Count(status # "COMPLETE")

\* libdbus reports its status with q in the queue, if that changed; the
\* adapter hears it as long as it exists.
Reported(q) ==
  Count(StatusOf(q) # last /\ Exists("adapter")) * OnDispatchState(StatusOf(q))

\* A message is appended to libdbus' queue.
Enqueue(kind) ==
  /\ queue' = Append(queue, kind)
  /\ received' = received + 1
  /\ last' = "DATA_REMAINS"
  /\ dispatches' = dispatches + Reported(queue')

\* libdbus adds a handle; on_..._add() posts its registration.
Add(h) == live' = live \cup {h} /\ posted' = posted \cup {h}

\* libdbus removes handles; on_..._remove() disconnects their registration
\* and touches nothing of the adapter.
Remove(H) == live' = live \ H /\ polled' = polled \ H

\* bus::open_private(), which may fail.
OpenPrivate ==
  /\ Constructs("conn")
  /\ \/ link' = "open" /\ connrefs' = 1
     \/ UNCHANGED <<link, connrefs>>
  /\ UNCHANGED <<stop, slot, queue, received, last, reactor, pending, fault>>

\* libdbus finds the socket broken, wherever it uses it: it removes the watch
\* and queues a message that says so.
Disconnect ==
  /\ Alive /\ ~running /\ pc \in {"build", "loop"} /\ link = "open"
  /\ link' = "closed"
  /\ Remove({"watch"})
  /\ Enqueue("signal")
  /\ UNCHANGED <<main, connrefs, posted, running, pending, fault>>

\* Mutant: notify() leaves on_completion alone for a message that is neither
\* an error nor a return.
Notifies_NotOther(kind) == call = "waiting" /\ kind \in {"return", "error"}

\* Does a message complete the call?  A second answer finds no call.
Notifies(kind) == call = "waiting" /\ kind \in Answers

\* dispatch() hands a message to the call, if it answers that, which calls the
\* slot if that is connected.  on_hello_reply() takes any answer without an
\* error for a return, and follows the pointer to its reply.
Handled(kind) ==
  /\ call' = IF Notifies(kind) THEN "answered" ELSE call
  /\ stop' = (stop \/ (Notifies(kind) /\ slot /\ kind # "other"))
  /\ fault' = IF Notifies(kind) /\ slot /\ kind = "other" THEN "null_reply" ELSE fault

\* do_dispatch() up to the end of the handlers, with `before' closures posted.
BeginDispatch(before) ==
  /\ dispatches' = before
  /\ \/ /\ queue # <<>>
        /\ Handled(Head(queue))
        /\ queue' = Tail(queue)
        /\ running' = TRUE
        /\ UNCHANGED last
     \/ /\ queue = <<>>
        /\ last' = "COMPLETE"
        /\ UNCHANGED <<queue, running, stop, call, fault>>

\* Mutant: the result of dispatch() is ignored.
EndDispatch_Ignored ==
  /\ Alive /\ running
  /\ running' = FALSE
  /\ last' = StatusOf(queue)
  /\ dispatches' = dispatches + Reported(queue)
  /\ UNCHANGED <<main, link, connrefs, queue, received, live, posted, polled,
                 pending, fault>>

\* The rest of do_dispatch(): libdbus reports its status, dispatch() returns
\* it.
EndDispatch ==
  /\ Alive /\ running
  /\ running' = FALSE
  /\ last' = StatusOf(queue)
  /\ dispatches' = dispatches + Reported(queue) + OnDispatchState(StatusOf(queue))
  /\ UNCHANGED <<main, link, connrefs, queue, received, live, posted, polled,
                 pending, fault>>

\* The constructor of the adapter.  install_handlers() announces the watch of
\* a connection that is still open.  There may be no connection at all.
ConstructAdapter ==
  /\ Constructs("adapter")
  /\ UNCHANGED <<slot, link, received, polled, callrefs>>
  /\ \/ /\ link = "none"
        /\ fault' = "null_connection"
        /\ UNCHANGED <<stop, connrefs, queue, last, live, posted, dispatches,
                       running, call>>
     \/ /\ link # "none"
        /\ connrefs' = connrefs + 1
        /\ \/ link = "open"   /\ Add("watch")
           \/ link = "closed" /\ UNCHANGED <<live, posted>>
        /\ BeginDispatch(dispatches)

-----------------------------------------------------------------------------
(***************************************************************************)
(* The call                                                                *)
(***************************************************************************)

\* connection::call(): libdbus adds the timeout of the call.
Call ==
  /\ Constructs("hello_reply") /\ link = "open"
  /\ call' = "waiting" /\ callrefs' = 1
  /\ Add("timeout")
  /\ UNCHANGED <<stop, slot, conn, polled, dispatches, running, fault>>

\* call() asserts on a broken connection, and the constructor of pending_call
\* when libdbus is out of memory.
CallFails ==
  /\ Constructs("hello_reply")
  /\ \/ link = "closed" /\ fault' = "call_assert"
     \/ link = "open"   /\ fault' = "ctor_assert"
  /\ UNCHANGED <<stop, slot, conn, reactor, pending>>

\* Mutant: the slot is bound to a plain pointer.
ConnectSlot_Uncounted ==
  /\ Constructs("c")
  /\ slot' = TRUE
  /\ UNCHANGED <<stop, conn, reactor, pending, fault>>

\* main() connects on_hello_reply(), with a copy of the pointer to the call
\* whose signal it connects to.
ConnectSlot ==
  /\ Constructs("c")
  /\ slot' = TRUE /\ callrefs' = callrefs + 1
  /\ UNCHANGED <<stop, conn, reactor, call, fault>>

\* A pending_call_ptr goes; ~pending_call() cancels the call, which removes
\* the timeout of one that still waits.
DropCall ==
  /\ callrefs' = callrefs - 1
  /\ call' = IF callrefs = 1 /\ call = "waiting" THEN "cancelled" ELSE call
  /\ Remove({h \in {"timeout"} : callrefs = 1})

-----------------------------------------------------------------------------
(***************************************************************************)
(* The main loop                                                           *)
(***************************************************************************)

InReactor == Alive /\ ~running /\ pc = "loop"

\* A posted on_..._change(): the handle is registered, unless it was removed
\* before.
RunPosted(h) ==
  /\ InReactor /\ h \in posted
  /\ posted' = posted \ {h}
  /\ \/ h \in live    /\ polled' = polled \cup {h} /\ UNCHANGED fault
     \/ h \notin live /\ fault' = "null_handle" /\ UNCHANGED polled
  /\ UNCHANGED <<main, conn, live, dispatches, running, pending>>

\* A posted do_dispatch().
RunDispatch ==
  /\ InReactor /\ dispatches > 0
  /\ BeginDispatch(dispatches - 1)
  /\ UNCHANGED <<pc, built, slot, link, connrefs, received, live, posted, polled,
                 callrefs>>

\* The socket is readable: the handler of the watch reads a message.  The
\* timeout of a call goes with the arrival of its answer.
WatchReady ==
  /\ InReactor /\ "watch" \in polled /\ received < MaxReceived
  /\ \E kind \in Kinds :
       /\ Enqueue(kind)
       /\ Remove({h \in {"timeout"} : kind \in Answers})
  /\ UNCHANGED <<main, link, connrefs, posted, running, pending, fault>>

\* The timeout of the call is due: libdbus removes it and queues an error.
TimerDue ==
  /\ InReactor /\ "timeout" \in polled
  /\ Enqueue("error")
  /\ Remove({"timeout"})
  /\ UNCHANGED <<main, link, connrefs, posted, running, pending, fault>>

\* reactor.dispatch() returns and finds `stop' set; it may have run more than
\* one closure since.
LeaveLoop ==
  /\ InReactor /\ stop
  /\ pc' = "unwind"
  /\ UNCHANGED <<built, stop, slot, conn, reactor, pending, fault>>

-----------------------------------------------------------------------------
(***************************************************************************)
(* The destructors                                                         *)
(***************************************************************************)

\* Mutant: c does not disconnect when it goes.
DestroyConnection_Stays ==
  /\ Destroys("c")
  /\ UNCHANGED <<stop, slot, conn, reactor, pending, fault>>

\* ~scoped_connection(): the slot goes, and with it its copy of the pointer.
DestroyConnection ==
  /\ Destroys("c")
  /\ slot' = FALSE
  /\ DropCall
  /\ UNCHANGED <<stop, conn, posted, dispatches, running, fault>>

\* hello_reply
DestroyReply ==
  /\ Destroys("hello_reply")
  /\ DropCall
  /\ UNCHANGED <<stop, slot, conn, posted, dispatches, running, fault>>

\* ~tscb_adapter() releases the connection; the slots of the watch stay.
DestroyAdapter ==
  /\ Destroys("adapter")
  /\ connrefs' = connrefs - 1
  /\ UNCHANGED <<stop, slot, link, queue, received, last, reactor, pending, fault>>

\* The last connection_ptr: ~private_connection() closes a connection that is
\* still open, which queues a message nobody is told of.
DestroyConn ==
  /\ Destroys("conn")
  /\ connrefs' = connrefs - 1
  /\ link' = IF connrefs = 1 THEN "freed" ELSE link
  /\ Remove({h \in {"watch"} : connrefs = 1})
  /\ \/ link = "open" /\ Enqueue("signal")
     \/ link = "closed" /\ UNCHANGED <<queue, received, last, dispatches>>
  /\ UNCHANGED <<stop, slot, posted, running, pending, fault>>

-----------------------------------------------------------------------------

Init ==
  /\ pc = "build" /\ built = 0 /\ stop = FALSE /\ slot = FALSE
  /\ link = "none" /\ connrefs = 0
  /\ queue = <<>> /\ received = 0 /\ last = "COMPLETE"
  /\ live = {} /\ posted = {} /\ polled = {} /\ dispatches = 0 /\ running = FALSE
  /\ call = "none" /\ callrefs = 0
  /\ fault = "none"

Construct ==
  \/ ConstructPlain \/ OpenPrivate \/ ConstructAdapter
  \/ Call \/ CallFails \/ ConnectSlot

Destroy ==
  \/ DestroyPlain \/ DestroyConnection \/ DestroyReply
  \/ DestroyAdapter \/ DestroyConn

Next ==
  \/ Construct \/ LeaveLoop \/ Destroy
  \/ EndDispatch \/ RunDispatch \/ TimerDue \/ WatchReady \/ Disconnect
  \/ \E h \in Handles : RunPosted(h)

Spec == Init /\ [][Next]_vars

\* main() goes on, handlers return, and the reactor runs what is posted and
\* the timer that is due.  Of the peer nothing is assumed.
Fairness ==
  /\ WF_vars(Construct) /\ WF_vars(LeaveLoop) /\ WF_vars(Destroy)
  /\ WF_vars(EndDispatch) /\ WF_vars(RunDispatch) /\ WF_vars(TimerDue)
  /\ \A h \in Handles : WF_vars(RunPosted(h))

FairSpec == Spec /\ Fairness

-----------------------------------------------------------------------------
(***************************************************************************)
(* Properties                                                              *)
(***************************************************************************)

\* Type correctness.
TypeOK ==
  /\ pc \in {"build", "loop", "unwind", "done"}
  /\ built \in 0..Len(Declared)
  /\ stop \in BOOLEAN /\ slot \in BOOLEAN /\ running \in BOOLEAN
  /\ link \in {"none", "open", "closed", "freed"}
  /\ connrefs \in Nat /\ callrefs \in Nat /\ received \in Nat /\ dispatches \in Nat
  /\ queue \in Seq(Kinds)
  /\ last \in {"COMPLETE", "DATA_REMAINS"}
  /\ live \subseteq Handles /\ posted \subseteq Handles /\ polled \subseteq Handles
  /\ call \in {"none", "waiting", "answered", "cancelled"}
  /\ fault \in Unchecked \cup {"none"}

\* In whatever state the peer and the reactor leave the components when the
\* loop ends, three locals outlive what refers to them: the reactor its
\* registrations, `stop' the slot that writes to it, the bus the connection.
\* The adapter is not among them.  The slots bound to it last until the
\* connection closes, but no closure runs after the loop, and the one slot
\* called by then, on_watch_remove(), touches nothing but its context.
LocalsOutliveTheirUsers ==
  /\ polled # {} => Exists("reactor")
  /\ slot => Exists("stop")
  /\ connrefs > 0 => Exists("dbus")

\* At the end nothing is left of the cycles between the components: that of
\* the call, its signal and the slot bound to the call, and that of the watch
\* wrapper, its signals and the slots of an adapter that is long gone.
NothingLeaks ==
  pc = "done" => callrefs = 0 /\ connrefs = 0 /\ live = {} /\ link = "freed"

\* The program ends, be its call answered, refused, or not answered at all,
\* be the connection lost meanwhile: by itself, or by something that main()
\* does not check.  It takes all the components: the posted registration, the
\* chain of dispatches, the timeout of the call, the signal and the slot.
Terminates == <>(pc = "done" \/ fault \in Unchecked)

\* The adapter as DispatchPump has it.
AdapterState ==
  IF Exists("adapter") THEN "live" ELSE IF pc = "build" THEN "absent" ELSE "deleted"

Pump == INSTANCE DispatchPump WITH
  MaxMessages <- MaxReceived + 3,
  MaxShortages <- 0,
  adapter <- AdapterState,
  listening <- Exists("adapter"),
  queue <- Len(queue),
  shortages <- 0,
  posted <- dispatches,
  busy <- running,
  nested <- 0,
  fault <- "none"

\* The program is one of those that DispatchPump speaks of: all that it, its
\* peer and its timers do to the queue and the closures are steps of that
\* module, so that what is proved there holds here.
ImplementsPump == Pump!Spec

=============================================================================
