---------------------------- MODULE PendingCall ----------------------------
(***************************************************************************)
(* The life of a method call: connection::call(), the pending_call object  *)
(* it returns (an intrusively counted wrapper around a DBusPendingCall),   *)
(* and the reply message the wrapper may own.  libdbus is the environment: *)
(* its incoming queue, its table of unanswered calls, the timeout of each  *)
(* call and its reference counts are modelled from how the wrapper uses    *)
(* them.                                                                   *)
(*                                                                         *)
(* Everything runs on one thread.  User code runs between two libdbus      *)
(* dispatches and inside the slots of on_completion, so every user action  *)
(* is enabled while the slots of another (or the same) call are running.   *)
(***************************************************************************)
EXTENDS Integers, Sequences

CONSTANTS
  Calls,        \* the method calls of the program
  NoCall,       \* "no completion slots are running"
  MaxRefs,      \* bound: references the user holds to one object
  MaxQueue,     \* bound: received, undispatched messages when a peer sends
  ErrorNames,   \* the names of the errors that may answer a call, written as
                \* those of DBUS_ERROR_... are
  LateCalls     \* calls that libdbus may still notify after they were cancelled,
                \* if it had received their reply before.  The comment in
                \* notify() says that it may.

ASSUME NoCallAssumption == NoCall \notin Calls
ASSUME BoundsAssumption == MaxRefs \in Nat /\ MaxQueue \in Nat
ASSUME LateCallsAssumption == LateCalls \subseteq Calls
ASSUME ErrorNamesAssumption ==
  "NO_REPLY" \in ErrorNames /\ ErrorNames \cap {"return", "other", "unset"} = {}

VARIABLES
  \* the pending_call objects
  obj,          \* does the object exist?
  refcnt,       \* its intrusive reference count
  state,        \* state_
  reply,        \* does reply_message_ hold a return_message?
  error,        \* error_
  \* the return_message objects
  retref,       \* intrusive reference count of the return_message
  msgref,       \* references to the DBusMessage stolen from libdbus
  \* libdbus
  connected,    \* is the transport up?
  incoming,     \* received messages, not dispatched yet
  raw,          \* the DBusPendingCall, as its connection sees it
  rawref,       \* references to the DBusPendingCall
  timer,        \* is the timeout of the call armed?
  \* control and history
  running,      \* the call whose on_completion slots are running
  emitted,      \* history: how often on_completion fired
  fault         \* how the process ended, if it did

wrapper == <<obj, refcnt, state, reply, error>>
message == <<retref, msgref>>
libdbus == <<connected, incoming, raw, rawref, timer>>
vars    == <<wrapper, message, libdbus, running, emitted, fault>>

States == {"PENDING", "ERROR", "TIMEOUT", "COMPLETED", "CANCELED"}

\* error::Type, without TYPE_UNKNOWN.
ErrorTypes == {
  "FAILED", "NO_MEMORY", "SERVICE_UNKNOWN", "NAME_HAS_NO_OWNER", "NO_REPLY",
  "IO_ERROR", "BAD_ADDRESS", "NOT_SUPPORTED", "LIMITS_EXCEEDED",
  "ACCESS_DENIED", "AUTH_FAILED", "NO_SERVER", "TIMEOUT", "NO_NETWORK",
  "ADDRESS_IN_USE", "DISCONNECTED", "INVALID_ARGS", "FILE_NOT_FOUND",
  "FILE_EXISTS", "UNKNOWN_METHOD", "UNKNOWN_OBJECT", "UNKNOWN_INTERFACE",
  "UNKNOWN_PROPERTY", "PROPERTY_READ_ONLY", "TIMED_OUT",
  "MATCH_RULE_NOT_FOUND", "MATCH_RULE_INVALID", "SPAWN_EXEC_FAILED",
  "SPAWN_FORK_FAILED", "SPAWN_CHILD_EXITED", "SPAWN_CHILD_SIGNALED",
  "SPAWN_FAILED", "SPAWN_SETUP_FAILED", "SPAWN_CONFIG_INVALID",
  "SPAWN_SERVICE_INVALID", "SPAWN_SERVICE_NOT_FOUND",
  "SPAWN_PERMISSIONS_INVALID", "SPAWN_FILE_INVALID", "SPAWN_NO_MEMORY",
  "UNIX_PROCESS_ID_UNKNOWN", "INVALID_SIGNATURE", "INVALID_FILE_CONTENT",
  "SELINUX_SECURITY_CONTEXT_UNKNOWN", "ADT_AUDIT_DATA_UNKNOWN",
  "OBJECT_PATH_IN_USE", "INCONSISTENT_MESSAGE"}

\* error::type(): each comparison has a type for the name DBUS_ERROR_... that
\* reads alike; any other name, and an error that is not set, is unknown.
ErrorType(name) == IF name \in ErrorTypes THEN name ELSE "UNKNOWN"

Kinds == ErrorNames \cup {"return", "other"}

Message == [call : Calls, kind : Kinds]

Faults == {"none", "call_assert", "ctor_assert", "notify_assert", "dangling"}

Alive == fault = "none"

Count(b) == IF b THEN 1 ELSE 0

(***************************************************************************)
(* libdbus                                                                 *)
(***************************************************************************)

\* The connection keeps a reference to a call that still waits, that it will
\* notify late, or that it is notifying.
LibdbusHolds(c) == raw[c] \in {"attached", "late", "dispatching"}

ReplyQueued(c) == \E i \in DOMAIN incoming : incoming[i].call = c

\* Where dbus_pending_call_cancel() leaves the call: out of the table of
\* unanswered calls; a call that is not in the table is left alone.
AfterCancel(c) ==
  IF raw[c] # "attached"            THEN raw[c]
  ELSE IF c \in LateCalls /\ ReplyQueued(c) THEN "late"
  ELSE "detached"

\* How many references libdbus yields when the call is cancelled.
CancelYields(c) == Count(raw[c] = "attached" /\ AfterCancel(c) = "detached")

\* A peer sends a message that names call c as the one it answers, be it the
\* first answer, a second one, or one that comes too late.  Receiving the
\* answer of a waiting call disarms its timeout.
Arrive(c, kind) ==
  /\ Alive /\ connected /\ raw[c] # "none" /\ Len(incoming) < MaxQueue
  /\ incoming' = Append(incoming, [call |-> c, kind |-> kind])
  /\ timer' = [timer EXCEPT ![c] = FALSE]
  /\ UNCHANGED <<wrapper, message, connected, raw, rawref, running, emitted, fault>>

\* The timeout of c fires: libdbus queues an artificial NO_REPLY error.
Timeout(c) ==
  /\ Alive /\ timer[c]
  /\ timer' = [timer EXCEPT ![c] = FALSE]
  /\ incoming' = Append(incoming, [call |-> c, kind |-> "NO_REPLY"])
  /\ UNCHANGED <<wrapper, message, connected, raw, rawref, running, emitted, fault>>

\* The transport goes down, because of the peer or of connection::close().
Disconnect ==
  /\ Alive /\ connected
  /\ connected' = FALSE
  /\ UNCHANGED <<wrapper, message, incoming, raw, rawref, timer, running, emitted, fault>>

(***************************************************************************)
(* User code                                                               *)
(***************************************************************************)

\* A pending_call is constructed around a DBusPendingCall, with a first
\* pointer to it, and registers its `this' for the notification.
Construct(c) ==
  /\ obj'    = [obj    EXCEPT ![c] = "live"]
  /\ refcnt' = [refcnt EXCEPT ![c] = 1]
  /\ state'  = [state  EXCEPT ![c] = "PENDING"]

\* connection::call(): libdbus sends the message and hands over a reference
\* to a DBusPendingCall, for which there is a wrapper then.
Call(c) ==
  /\ Alive /\ connected /\ obj[c] = "none"
  /\ Construct(c)
  /\ raw'    = [raw    EXCEPT ![c] = "attached"]
  /\ rawref' = [rawref EXCEPT ![c] = 2]
  /\ timer'  = [timer  EXCEPT ![c] = TRUE]
  /\ UNCHANGED <<reply, error, message, connected, incoming, running, emitted, fault>>

\* connection::call() when libdbus cannot make the call.  On a disconnected
\* connection it reports success without a DBusPendingCall, which call()
\* asserts against; out of memory it reports failure, call() returns NULL and
\* the constructor of the wrapper asserts against that.
CallFails(c) ==
  /\ Alive /\ obj[c] = "none"
  /\ \/ ~connected /\ fault' = "call_assert"
     \/ fault' = "ctor_assert"
  /\ UNCHANGED <<wrapper, message, libdbus, running, emitted>>

\* intrusive_ptr_add_ref(): the user copies a pending_call_ptr.
AddRef(c) ==
  /\ Alive /\ obj[c] = "live" /\ refcnt[c] < MaxRefs
  /\ refcnt' = [refcnt EXCEPT ![c] = @ + 1]
  /\ UNCHANGED <<obj, state, reply, error, message, libdbus, running, emitted, fault>>

\* Dropping `n' references to the return_message of c; the last one deletes
\* it, and its destructor unrefs the DBusMessage.
DropMessage(c, n) ==
  /\ retref' = [retref EXCEPT ![c] = @ - n]
  /\ msgref' = [msgref EXCEPT ![c] = @ - Count(n > 0 /\ retref[c] = n)]

\* Mutant: cancel() also drops the reply it may have.
Cancel_DropsReply(c) ==
  /\ Alive /\ obj[c] = "live"
  /\ raw'    = [raw    EXCEPT ![c] = AfterCancel(c)]
  /\ rawref' = [rawref EXCEPT ![c] = @ - CancelYields(c)]
  /\ timer'  = [timer  EXCEPT ![c] = FALSE]
  /\ state'  = [state  EXCEPT ![c] = "CANCELED"]
  /\ reply'  = [reply  EXCEPT ![c] = FALSE]
  /\ DropMessage(c, Count(reply[c]))
  /\ UNCHANGED <<obj, refcnt, error, connected, incoming, running, emitted, fault>>

\* pending_call::cancel(), at any time the user holds a reference.
Cancel(c) ==
  /\ Alive /\ obj[c] = "live"
  /\ raw'    = [raw    EXCEPT ![c] = AfterCancel(c)]
  /\ rawref' = [rawref EXCEPT ![c] = @ - CancelYields(c)]
  /\ timer'  = [timer  EXCEPT ![c] = FALSE]
  /\ state'  = [state  EXCEPT ![c] = "CANCELED"]
  /\ UNCHANGED <<obj, refcnt, reply, error, message, connected, incoming,
                 running, emitted, fault>>

\* Mutant: the destructor does not cancel the call.
Destroy_NoCancel(c) ==
  /\ obj'    = [obj    EXCEPT ![c] = "deleted"]
  /\ rawref' = [rawref EXCEPT ![c] = @ - 1]
  /\ state'  = [state  EXCEPT ![c] = "CANCELED"]
  /\ error'  = [error  EXCEPT ![c] = "unset"]
  /\ reply'  = [reply  EXCEPT ![c] = FALSE]
  /\ DropMessage(c, Count(reply[c]))
  /\ UNCHANGED <<raw, timer>>

\* Mutant: the destructor cancels, but keeps its own reference.
Destroy_NoUnref(c) ==
  /\ obj'    = [obj    EXCEPT ![c] = "deleted"]
  /\ raw'    = [raw    EXCEPT ![c] = AfterCancel(c)]
  /\ rawref' = [rawref EXCEPT ![c] = @ - CancelYields(c)]
  /\ timer'  = [timer  EXCEPT ![c] = FALSE]
  /\ state'  = [state  EXCEPT ![c] = "CANCELED"]
  /\ error'  = [error  EXCEPT ![c] = "unset"]
  /\ reply'  = [reply  EXCEPT ![c] = FALSE]
  /\ DropMessage(c, Count(reply[c]))

\* ~pending_call(): cancel, give up the own reference to the
\* DBusPendingCall, then the members go: error_ and reply_message_.
Destroy(c) ==
  /\ obj'    = [obj    EXCEPT ![c] = "deleted"]
  /\ raw'    = [raw    EXCEPT ![c] = AfterCancel(c)]
  /\ rawref' = [rawref EXCEPT ![c] = @ - CancelYields(c) - 1]
  /\ timer'  = [timer  EXCEPT ![c] = FALSE]
  /\ state'  = [state  EXCEPT ![c] = "CANCELED"]
  /\ error'  = [error  EXCEPT ![c] = "unset"]
  /\ reply'  = [reply  EXCEPT ![c] = FALSE]
  /\ DropMessage(c, Count(reply[c]))

\* Mutant: the object goes when the count was zero before the decrement.
Release_OldValue(c) ==
  /\ Alive /\ obj[c] = "live"
  /\ refcnt' = [refcnt EXCEPT ![c] = @ - 1]
  /\ \/ /\ refcnt[c] = 0
        /\ Destroy(c)
     \/ /\ refcnt[c] # 0
        /\ UNCHANGED <<obj, state, reply, error, message, raw, rawref, timer>>
  /\ UNCHANGED <<connected, incoming, running, emitted, fault>>

\* intrusive_ptr_release(): the user drops a pending_call_ptr.
Release(c) ==
  /\ Alive /\ obj[c] = "live"
  /\ refcnt' = [refcnt EXCEPT ![c] = @ - 1]
  /\ \/ /\ refcnt[c] = 1
        /\ Destroy(c)
     \/ /\ refcnt[c] > 1
        /\ UNCHANGED <<obj, state, reply, error, message, raw, rawref, timer>>
  /\ UNCHANGED <<connected, incoming, running, emitted, fault>>

\* pending_call::reply(): the user takes a return_message_ptr.
TakeReply(c) ==
  /\ Alive /\ obj[c] = "live" /\ reply[c] /\ retref[c] < MaxRefs
  /\ retref' = [retref EXCEPT ![c] = @ + 1]
  /\ UNCHANGED <<wrapper, msgref, libdbus, running, emitted, fault>>

\* The user drops a return_message_ptr it took before.
DropReply(c) ==
  /\ Alive /\ retref[c] > Count(reply[c])
  /\ DropMessage(c, 1)
  /\ UNCHANGED <<wrapper, libdbus, running, emitted, fault>>

(***************************************************************************)
(* Notification                                                            *)
(***************************************************************************)

\* libdbus calls the notify function of a wrapper that is gone.
NotifyDeleted(c) ==
  /\ obj[c] = "deleted"
  /\ fault' = "dangling"
  /\ UNCHANGED <<wrapper, message, raw, rawref, timer, running, emitted>>

\* Mutant: notify() does not look at the state.
Silenced_Never(c) == FALSE

\* The test that makes notify() drop the reply and not notify.
Silenced(c) == state[c] = "CANCELED"

\* notify() of a call that was cancelled before.
NotifyCanceled(c) ==
  /\ obj[c] = "live" /\ Silenced(c)
  /\ raw'    = [raw    EXCEPT ![c] = "detached"]
  /\ rawref' = [rawref EXCEPT ![c] = @ - 1]
  /\ UNCHANGED <<wrapper, message, timer, running, emitted, fault>>

\* The state that notify() computes for an error, from its type.
FailureState(name) == IF ErrorType(name) = "NO_REPLY" THEN "TIMEOUT" ELSE "ERROR"

\* The state notify() leaves: the FailureState is stored first (lines 116-117)
\* and then overwritten on line 128.
StateAfterNotify(kind) == "COMPLETED"

\* Mutant: every message is taken for an error.
ErrorAfterNotify_Always(c, kind) == kind

\* error_ after dbus_set_error_from_message(): set if the message is an
\* error.
ErrorAfterNotify(c, kind) == IF kind \in ErrorNames THEN kind ELSE error[c]

\* Mutant: the message of an error is not unrefed.
AdoptedRefs_LeaksError(kind) == Count(kind # "other")

\* The references to the stolen DBusMessage that remain: an error and a
\* message of any other type are unrefed, a method return is adopted.
AdoptedRefs(kind) == Count(kind = "return")

\* Mutant: a message that is neither an error nor a return is ignored.
NotifyPending_IgnoresOther(c, kind) ==
  /\ obj[c] = "live" /\ ~Silenced(c)
  /\ raw'    = [raw    EXCEPT ![c] = "dispatching"]
  /\ running' = c
  /\ timer'  = [timer  EXCEPT ![c] = FALSE]
  /\ \/ /\ kind = "other"
        /\ UNCHANGED <<state, emitted>>
     \/ /\ kind # "other"
        /\ state'  = [state  EXCEPT ![c] = StateAfterNotify(kind)]
        /\ emitted' = [emitted EXCEPT ![c] = @ + 1]
  /\ UNCHANGED <<obj, refcnt, reply, error, message, rawref, fault>>

\* notify() of a call that waits: record the outcome and fire on_completion.
\* While the slots run, libdbus holds its reference.  (When the assertion
\* fails the process is gone and the rest of the step means nothing.)
NotifyPending(c, kind) ==
  /\ obj[c] = "live" /\ ~Silenced(c)
  /\ fault'  = IF state[c] = "PENDING" THEN fault ELSE "notify_assert"
  /\ error'  = [error  EXCEPT ![c] = ErrorAfterNotify(c, kind)]
  /\ reply'  = [reply  EXCEPT ![c] = @ \/ kind = "return"]
  /\ retref' = [retref EXCEPT ![c] = @ + Count(kind = "return")]
  /\ msgref' = [msgref EXCEPT ![c] = @ + AdoptedRefs(kind)]
  /\ state'  = [state  EXCEPT ![c] = StateAfterNotify(kind)]
  /\ emitted' = [emitted EXCEPT ![c] = @ + 1]
  /\ running' = c
  /\ raw'    = [raw    EXCEPT ![c] = "dispatching"]
  /\ timer'  = [timer  EXCEPT ![c] = FALSE]
  /\ UNCHANGED <<obj, refcnt, rawref>>

Notify(c, kind) ==
  \/ NotifyDeleted(c)
  \/ NotifyCanceled(c)
  \/ NotifyPending(c, kind)

\* dbus_connection_dispatch() takes the oldest message.  It completes the
\* call the message answers, if that call is still known; otherwise the
\* message goes elsewhere.  libdbus does not dispatch from within a dispatch.
Dispatch ==
  /\ Alive /\ running = NoCall /\ incoming # <<>>
  /\ incoming' = Tail(incoming)
  /\ LET m == Head(incoming)
     IN  \/ /\ raw[m.call] \in {"attached", "late"}
            /\ Notify(m.call, m.kind)
         \/ /\ raw[m.call] \notin {"attached", "late"}
            /\ UNCHANGED <<wrapper, message, raw, rawref, timer, running,
                           emitted, fault>>
  /\ UNCHANGED connected

\* The slots return, notify() returns and libdbus drops its reference.  The
\* wrapper may have been deleted by a slot; it is not touched any more.
NotifyReturns(c) ==
  /\ Alive /\ running = c
  /\ running' = NoCall
  /\ raw'    = [raw    EXCEPT ![c] = "detached"]
  /\ rawref' = [rawref EXCEPT ![c] = @ - 1]
  /\ UNCHANGED <<wrapper, message, connected, incoming, timer, emitted, fault>>

-----------------------------------------------------------------------------

Init ==
  /\ obj       = [c \in Calls |-> "none"]
  /\ refcnt    = [c \in Calls |-> 0]
  /\ state     = [c \in Calls |-> "PENDING"]
  /\ reply     = [c \in Calls |-> FALSE]
  /\ error     = [c \in Calls |-> "unset"]
  /\ retref    = [c \in Calls |-> 0]
  /\ msgref    = [c \in Calls |-> 0]
  /\ connected = TRUE
  /\ incoming  = <<>>
  /\ raw       = [c \in Calls |-> "none"]
  /\ rawref    = [c \in Calls |-> 0]
  /\ timer     = [c \in Calls |-> FALSE]
  /\ running   = NoCall
  /\ emitted   = [c \in Calls |-> 0]
  /\ fault     = "none"

UserStep(c) ==
  \/ Call(c) \/ CallFails(c) \/ AddRef(c) \/ Release(c) \/ Cancel(c)
  \/ TakeReply(c) \/ DropReply(c)

LibdbusStep(c) ==
  \/ \E kind \in Kinds : Arrive(c, kind)
  \/ Timeout(c) \/ NotifyReturns(c)

Next ==
  \/ \E c \in Calls : UserStep(c) \/ LibdbusStep(c)
  \/ Disconnect
  \/ Dispatch

Spec == Init /\ [][Next]_vars

\* The reactor keeps dispatching, slots return, and libdbus arms a timeout
\* for every call (connection::call() passes -1, the default timeout).
Fairness ==
  /\ WF_vars(Dispatch)
  /\ \A c \in Calls : WF_vars(Timeout(c)) /\ WF_vars(NotifyReturns(c))

FairSpec == Spec /\ Fairness

-----------------------------------------------------------------------------
(***************************************************************************)
(* Properties                                                              *)
(***************************************************************************)

\* Type correctness.  Counts of libdbus are integers here: that they do not go
\* below zero is what the balances say; those of the wrapper are checked.
TypeOK ==
  /\ obj       \in [Calls -> {"none", "live", "deleted"}]
  /\ refcnt    \in [Calls -> Nat]
  /\ state     \in [Calls -> States]
  /\ reply     \in [Calls -> BOOLEAN]
  /\ error     \in [Calls -> {"unset"} \cup ErrorNames]
  /\ retref    \in [Calls -> Nat]
  /\ msgref    \in [Calls -> Int]
  /\ connected \in BOOLEAN
  /\ incoming  \in Seq(Message)
  /\ raw       \in [Calls -> {"none", "attached", "late", "dispatching", "detached"}]
  /\ rawref    \in [Calls -> Int]
  /\ timer     \in [Calls -> BOOLEAN]
  /\ running   \in Calls \cup {NoCall}
  /\ emitted   \in [Calls -> Nat]
  /\ fault     \in Faults

\* No call is notified after its wrapper was deleted: libdbus keeps the bare
\* `this' that the constructor registers, and only the cancel() in the
\* destructor takes it back.  It must hold whatever the user drops or cancels
\* in a slot and whatever the peer sends; only a call that libdbus notifies
\* though it was cancelled is out of the wrapper's hands.
NoDangling ==
  fault = "dangling" =>
    \E c \in LateCalls : obj[c] = "deleted" /\ raw[c] = "late"

\* The assertion in notify() that an uncancelled call is still pending: a
\* call is completed once, though its peer may answer twice, its answer may
\* race its timeout, and it may be cancelled with the reply received already.
NotifyNeverAborts == fault # "notify_assert"

\* The references to the DBusPendingCall are those of the wrapper and of
\* libdbus: neither a cancel() in a slot, a second cancel() nor the deletion
\* of the wrapper in its own slot leaks one or gives one back twice.
RawBalance ==
  \A c \in Calls :
    rawref[c] = Count(obj[c] = "live") + Count(LibdbusHolds(c))

\* The stolen DBusMessage is kept by exactly one return_message while anyone
\* refers to that, and unrefed in every other case: for errors, for messages
\* of another type, for cancelled calls.  A return_message the user holds
\* outlives its call.
ReplyBalance ==
  \A c \in Calls :
    /\ msgref[c] = Count(retref[c] > 0)
    /\ reply[c] => retref[c] > 0 /\ obj[c] = "live"

\* What the slots saw stays: after on_completion fired, neither a late
\* answer nor a cancel() changes the reply or the error of the object, or
\* sets both, and the signal does not fire again.
OutcomeStable ==
  [][\A c \in Calls :
       emitted[c] > 0 /\ obj'[c] = "live" =>
         /\ <<reply[c], error[c], emitted[c]>>' = <<reply[c], error[c], emitted[c]>>
         /\ ~(reply[c] /\ error[c] # "unset")]_vars

\* A call that waits is not forgotten: it is answered (a timeout, an error
\* and a message of another type count as answers), cancelled or dropped.
\* pending_call::notify() has to reach its last two lines for every kind of
\* message; nothing else would ever end the wait.
EventuallySettled ==
  \A c \in Calls :
    (obj[c] = "live" /\ state[c] = "PENDING")
      ~> (emitted[c] > 0 \/ state[c] = "CANCELED" \/ ~Alive)

\* The promise of AsyncCall, in terms of this module.
Phase(c) ==
  IF obj[c] = "none" THEN "idle"
  ELSE IF emitted[c] > 0 THEN "answered"
  ELSE IF state[c] = "CANCELED" THEN "abandoned"
  ELSE "waiting"

CallPhases == [c \in Calls |-> Phase(c)]

Abstract == INSTANCE AsyncCall WITH phase <- CallPhases

\* The wrapper implements the promise: one answer at most, none after a
\* cancel(), and an answered call stays answered though cancel() overwrites
\* its state.
ImplementsAsyncCall == Abstract!Spec

(***************************************************************************)
(* What the documentation and the assertions say, and the code does not do *)
(***************************************************************************)

\* State has an enumerator for a call that failed and one for a call that
\* timed out, and notify() computes which of them applies.
FailureStateReported ==
  \A c \in Calls :
    obj[c] = "live" /\ state[c] # "CANCELED" /\ error[c] # "unset"
      => state[c] = FailureState(error[c])

\* The assertion in connection::call(): a successful
\* dbus_connection_send_with_reply() returns a DBusPendingCall.
CallGetsPending == fault # "call_assert"

(***************************************************************************)
(* The inductive invariant                                                 *)
(***************************************************************************)

\* An object exists as long as someone refers to it.
CountMatchesObject ==
  \A c \in Calls :
    /\ (obj[c] = "live") <=> (refcnt[c] > 0)
    /\ (obj[c] = "none") <=> (raw[c] = "none")
    /\ obj[c] = "none" => /\ state[c] = "PENDING" /\ ~reply[c]
                          /\ error[c] = "unset"
                          /\ retref[c] = 0 /\ emitted[c] = 0

\* What libdbus will still do for a call follows from the wrapper's state.
RawMatchesWrapper ==
  \A c \in Calls :
    /\ raw[c] = "attached" => obj[c] = "live" /\ state[c] = "PENDING"
    /\ raw[c] = "late"     => c \in LateCalls /\ state[c] = "CANCELED"
    /\ (raw[c] = "dispatching") <=> (running = c)
    /\ obj[c] = "live" /\ state[c] = "PENDING" => raw[c] = "attached"
    /\ obj[c] = "deleted" => state[c] = "CANCELED"

\* The outcome is recorded together with the emission, once.
OutcomeMatchesEmission ==
  \A c \in Calls :
    /\ emitted[c] > 0 => raw[c] \in {"dispatching", "detached"}
    /\ emitted[c] > 0 /\ state[c] # "CANCELED" => state[c] = "COMPLETED"
    /\ emitted[c] = 0 => /\ ~reply[c] /\ error[c] = "unset" /\ retref[c] = 0
                         /\ state[c] \in {"PENDING", "CANCELED"}
    /\ ~(reply[c] /\ error[c] # "unset")

IInv ==
  /\ TypeOK
  /\ CountMatchesObject
  /\ RawMatchesWrapper
  /\ OutcomeMatchesEmission
  /\ RawBalance
  /\ ReplyBalance
  /\ NoDangling
  /\ NotifyNeverAborts

=============================================================================
