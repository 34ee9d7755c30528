------------------------------- MODULE Messages -------------------------------
(***************************************************************************)
(* The lives of messages and of what reads and writes them.  A message     *)
(* (call_, signal_, error_ or return_message) is a counted object that     *)
(* owns a DBusMessage.  A message_reader or message_writer keeps a counted *)
(* pointer to the message, msg_, and a libdbus iterator that points into   *)
(* the DBusMessage.  Sending a message gives libdbus a reference to the    *)
(* DBusMessage, until it is written.                                       *)
(*                                                                         *)
(* Readers and writers are alike in all this, and both are iterators here. *)
(***************************************************************************)
EXTENDS Integers, FiniteSets

CONSTANTS
  Objects,      \* the message objects, each with its DBusMessage
  Readers,      \* the message_readers
  Writers,      \* the message_writers
  NoObject,     \* "a null pointer"
  MaxRefs,      \* bound: pointers the user holds to one message
  MaxQueued     \* bound: how often a message waits to be written

Iters == Readers \cup Writers

ASSUME NoObjectAssumption == NoObject \notin Objects
ASSUME ItersAssumption == Readers \cap Writers = {}
ASSUME FiniteAssumption ==
  IsFiniteSet(Iters) /\ MaxRefs \in Nat \ {0} /\ MaxQueued \in Nat

VARIABLES
  obj,       \* the message: "none", "live" or "deleted"
  refcnt,    \* its intrusive reference count
  rawref,    \* references to its DBusMessage
  held,      \* message_ptrs of the user
  queued,    \* how often libdbus has a message to write
  live,      \* the iterators that exist
  msg_,      \* what the msg_ member of an iterator points to
  at,        \* the message an iterator's libdbus iterator points into
  copied,    \* history: iterators that were copied or assigned
  fault      \* how the process ended, if it did

vars == <<obj, refcnt, rawref, held, queued, live, msg_, at, copied, fault>>

Count(b) == IF b THEN 1 ELSE 0

Alive == fault = "none"

\* Mutant: the destructor of a message does not unref.
Drop_NoUnref(m, n) ==
  /\ refcnt' = [refcnt EXCEPT ![m] = @ - n]
  /\ obj' = [obj EXCEPT ![m] = IF refcnt[m] = n THEN "deleted" ELSE @]
  /\ UNCHANGED rawref

\* Mutant: the message goes when the count was zero before the decrement.
Drop_OldValue(m, n) ==
  /\ refcnt' = [refcnt EXCEPT ![m] = @ - n]
  /\ obj' = [obj EXCEPT ![m] = IF n > 0 /\ refcnt[m] = 0 THEN "deleted" ELSE @]
  /\ rawref' = [rawref EXCEPT ![m] = @ - Count(n > 0 /\ refcnt[m] = 0)]

\* n pointers to m go.  With the last the message does, whose destructor
\* unrefs the DBusMessage.
Drop(m, n) ==
  /\ refcnt' = [refcnt EXCEPT ![m] = @ - n]
  /\ obj' = [obj EXCEPT ![m] = IF n > 0 /\ refcnt[m] = n THEN "deleted" ELSE @]
  /\ rawref' = [rawref EXCEPT ![m] = @ - Count(n > 0 /\ refcnt[m] = n)]

-----------------------------------------------------------------------------

\* A message object adopts the one reference there is to its DBusMessage.
Create(m) ==
  /\ Alive /\ obj[m] = "none"
  /\ obj'    = [obj EXCEPT ![m] = "live"]
  /\ refcnt' = [refcnt EXCEPT ![m] = 1]
  /\ rawref' = [rawref EXCEPT ![m] = 1]
  /\ held'   = [held EXCEPT ![m] = 1]
  /\ UNCHANGED <<queued, live, msg_, at, copied, fault>>

\* dbus_message_new_...() is out of memory or does not accept an argument and
\* returns NULL, against which the constructor asserts.
CreateFails(m) ==
  /\ Alive /\ obj[m] = "none"
  /\ fault' = "null_message"
  /\ UNCHANGED <<obj, refcnt, rawref, held, queued, live, msg_, at, copied>>

\* The user copies a message_ptr.
AddRef(m) ==
  /\ Alive /\ held[m] \in 1 .. MaxRefs - 1
  /\ held'   = [held EXCEPT ![m] = @ + 1]
  /\ refcnt' = [refcnt EXCEPT ![m] = @ + 1]
  /\ UNCHANGED <<obj, rawref, queued, live, msg_, at, copied, fault>>

\* The user drops a message_ptr.
Release(m) ==
  /\ Alive /\ held[m] > 0
  /\ held' = [held EXCEPT ![m] = @ - 1]
  /\ Drop(m, 1)
  /\ UNCHANGED <<queued, live, msg_, at, copied, fault>>

\* connection::send() or call(), of a message that may be on its way already:
\* libdbus takes a reference for each time, unless it is out of memory and
\* returns FALSE.
Send(m) ==
  /\ Alive /\ held[m] > 0 /\ queued[m] < MaxQueued
  /\ \E sent \in BOOLEAN :
       /\ queued' = [queued EXCEPT ![m] = @ + Count(sent)]
       /\ rawref' = [rawref EXCEPT ![m] = @ + Count(sent)]
  /\ UNCHANGED <<obj, refcnt, held, live, msg_, at, copied, fault>>

\* libdbus has written the message once.
Written(m) ==
  /\ Alive /\ queued[m] > 0
  /\ queued' = [queued EXCEPT ![m] = @ - 1]
  /\ rawref' = [rawref EXCEPT ![m] = @ - 1]
  /\ UNCHANGED <<obj, refcnt, held, live, msg_, at, copied, fault>>

\* Mutant: the iterator keeps a plain pointer to the message.
Construct_Uncounted(i, m) ==
  /\ Alive /\ held[m] > 0 /\ i \notin live
  /\ live' = live \cup {i}
  /\ msg_' = [msg_ EXCEPT ![i] = m]
  /\ at'   = [at EXCEPT ![i] = m]
  /\ UNCHANGED <<obj, refcnt, rawref, held, queued, copied, fault>>

\* An iterator of a message the user has.
Construct(i, m) ==
  /\ Alive /\ held[m] > 0 /\ i \notin live
  /\ live' = live \cup {i}
  /\ msg_' = [msg_ EXCEPT ![i] = m]
  /\ at'   = [at EXCEPT ![i] = m]
  /\ refcnt' = [refcnt EXCEPT ![m] = @ + 1]
  /\ UNCHANGED <<obj, rawref, held, queued, copied, fault>>

\* A copy constructor: the libdbus iterator is copied and msg_ is not.
Copy(i, o) ==
  /\ Alive /\ o \in live /\ i \notin live
  /\ live' = live \cup {i}
  /\ msg_' = [msg_ EXCEPT ![i] = NoObject]
  /\ at'   = [at EXCEPT ![i] = at[o]]
  /\ copied' = copied \cup {i}
  /\ UNCHANGED <<obj, refcnt, rawref, held, queued, fault>>

\* Mutant: operator=() releases the old message but leaves msg_ as it is.
Assign_Releases(i, o) ==
  /\ Alive /\ {i, o} \subseteq live /\ i # o /\ msg_[i] # NoObject
  /\ at'   = [at EXCEPT ![i] = at[o]]
  /\ copied' = copied \cup {i}
  /\ Drop(msg_[i], 1)
  /\ UNCHANGED <<held, queued, live, msg_, fault>>

\* An operator=(): the same, so that msg_ keeps the message it had.
Assign(i, o) ==
  /\ Alive /\ {i, o} \subseteq live /\ i # o
  /\ at'   = [at EXCEPT ![i] = at[o]]
  /\ copied' = copied \cup {i}
  /\ UNCHANGED <<obj, refcnt, rawref, held, queued, live, msg_, fault>>

\* A destructor: the iterator goes, then msg_ lets go of its message.
Destroy(i) ==
  /\ Alive /\ i \in live
  /\ live' = live \ {i}
  /\ msg_' = [msg_ EXCEPT ![i] = NoObject]
  /\ at'   = [at EXCEPT ![i] = NoObject]
  /\ copied' = copied \ {i}
  /\ \/ /\ msg_[i] # NoObject
        /\ Drop(msg_[i], 1)
     \/ /\ msg_[i] = NoObject
        /\ UNCHANGED <<obj, refcnt, rawref>>
  /\ UNCHANGED <<held, queued, fault>>

\* get_basic() asks for the type of the argument and, if that is the type that
\* was wanted, for the argument; append_basic() appends one.  All of it goes
\* through the libdbus iterator, which libdbus follows into the DBusMessage,
\* the question for a type that does not fit too.  The values are left out.
Access(i) ==
  /\ Alive /\ i \in live
  /\ fault' = IF rawref[at[i]] = 0 THEN "freed_message" ELSE fault
  /\ UNCHANGED <<obj, refcnt, rawref, held, queued, live, msg_, at, copied>>

Init ==
  /\ obj = [m \in Objects |-> "none"]
  /\ refcnt = [m \in Objects |-> 0]
  /\ rawref = [m \in Objects |-> 0]
  /\ held = [m \in Objects |-> 0]
  /\ queued = [m \in Objects |-> 0]
  /\ live = {} /\ copied = {}
  /\ msg_ = [i \in Iters |-> NoObject]
  /\ at = [i \in Iters |-> NoObject]
  /\ fault = "none"

\* call_message::create() and signal_message::create() with a new DBusMessage,
\* glue's create_return() and create_error() with one that came in, which
\* notify() has looked into before: four classes that hold their DBusMessage
\* alike.
CreateCall(m)   == Create(m) \/ CreateFails(m)
CreateSignal(m) == Create(m) \/ CreateFails(m)
CreateReturn(m) == Create(m)
CreateError(m)  == Create(m)

\* message::create_reader(), create_writer(), or the constructors.
CreateReader(i, m) == Construct(i, m)
CreateWriter(i, m) == Construct(i, m)

CopyReader(i, o) == Copy(i, o)
CopyWriter(i, o) == Copy(i, o)

AssignReader(i, o) == Assign(i, o)
AssignWriter(i, o) == Assign(i, o)

DestroyReader(i) == Destroy(i)
DestroyWriter(i) == Destroy(i)

\* A pop_...() of a reader, a push_...() of a writer.
Pop(i)  == Access(i)
Push(i) == Access(i)

ReaderStep(i) ==
  \/ \E m \in Objects : CreateReader(i, m)
  \/ \E o \in Readers : CopyReader(i, o) \/ AssignReader(i, o)
  \/ DestroyReader(i) \/ Pop(i)

WriterStep(i) ==
  \/ \E m \in Objects : CreateWriter(i, m)
  \/ \E o \in Writers : CopyWriter(i, o) \/ AssignWriter(i, o)
  \/ DestroyWriter(i) \/ Push(i)

MessageStep(m) ==
  \/ CreateCall(m) \/ CreateSignal(m) \/ CreateReturn(m) \/ CreateError(m)
  \/ AddRef(m) \/ Release(m) \/ Send(m) \/ Written(m)

Next ==
  \/ \E m \in Objects : MessageStep(m)
  \/ \E i \in Readers : ReaderStep(i)
  \/ \E i \in Writers : WriterStep(i)

Spec == Init /\ [][Next]_vars

-----------------------------------------------------------------------------
(***************************************************************************)
(* Properties                                                              *)
(***************************************************************************)

\* Type correctness: no reference count goes below zero.
TypeOK ==
  /\ obj \in [Objects -> {"none", "live", "deleted"}]
  /\ refcnt \in [Objects -> Nat] /\ rawref \in [Objects -> Nat]
  /\ held \in [Objects -> Nat] /\ queued \in [Objects -> Nat]
  /\ live \subseteq Iters /\ copied \subseteq Iters
  /\ msg_ \in [Iters -> Objects \cup {NoObject}]
  /\ at \in [Iters -> Objects \cup {NoObject}]
  /\ fault \in {"none", "freed_message", "null_message"}

\* The DBusMessage has the reference that the message object adopted, until
\* that goes, and one for each time that libdbus has it to write: the user may
\* send it again, and let go of it right after it was sent.
RawBalance ==
  \A m \in Objects : rawref[m] = Count(obj[m] = "live") + queued[m]

\* A message lives as long as the user or an iterator, copied and assigned
\* ones included, has a pointer to it, and no longer.
CountBalance ==
  \A m \in Objects :
    /\ refcnt[m] = held[m] + Cardinality({i \in live : msg_[i] = m})
    /\ obj[m] = "live" <=> refcnt[m] > 0

\* A reader or writer made of a message may be used after the user dropped
\* the message: only one that was copied or assigned to can find it freed, in
\* a pop_...() or push_...() too.  For a temporary that create_reader() returns
\* this relies on the compiler to elide the copy.
OriginalsFindMessage ==
  /\ \A i \in live \ copied : obj[at[i]] = "live" /\ msg_[i] = at[i]
  /\ fault = "freed_message" => \E i \in live \cap copied : rawref[at[i]] = 0

(***************************************************************************)
(* What the assertions say, and the code does not do                       *)
(***************************************************************************)

\* The constructors assert msg_: a reader or writer holds a message, the one
\* it reads or writes.
IteratorHoldsMessage == \A i \in live : msg_[i] # NoObject

=============================================================================
