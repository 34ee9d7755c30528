------------------------ MODULE TscbIntegrationProofs ------------------------
(***************************************************************************)
(* The safety properties of TscbIntegration, and that it is a program that *)
(* DispatchPump speaks of, for any number of messages.  The invariant says *)
(* how far main() is when the components are in a state: which locals hold *)
(* their references, and which handles libdbus still has.                  *)
(***************************************************************************)
EXTENDS TscbIntegration, TLAPS

\* The phases of main(): it has all of its locals in the loop, and dispatches
\* only after the adapter was constructed.
PhasesOK ==
  /\ pc = "build"  => built < 9
  /\ pc = "loop"   => built = 9
  /\ pc = "unwind" => built > 0
  /\ pc = "done"   => built = 0
  /\ running => pc \in {"build", "loop"} /\ built >= 5

\* The connection: opened by the fourth local if it is, referred to by that and
\* by the adapter, freed with the first of them.
LinkOK ==
  /\ link = "none" => pc = "build" /\ queue = <<>> /\ last = "COMPLETE" /\ received = 0
  /\ link = "none" /\ built >= 5 => ~Alive
  /\ link = "freed" <=> pc \in {"unwind", "done"} /\ built < 4
  /\ pc = "build" /\ built < 4 => link = "none"
  /\ connrefs = IF link = "none" THEN 0 ELSE Count(built >= 4) + Count(built >= 5)

\* The call: made by the seventh local, referred to by that and by the slot.
CallOK ==
  /\ call = "none" => pc = "build"
  /\ call = "none" /\ built >= 7 => ~Alive
  /\ pc = "build" /\ built < 7 => call = "none"
  /\ slot <=> built = 9
  /\ callrefs = IF call = "none" THEN 0 ELSE Count(built >= 7) + Count(built = 9)

\* libdbus has the watch while the connection is open, and the timeout while
\* somebody refers to the call; the reactor polls nothing else.
HandlesOK ==
  /\ polled \subseteq live
  /\ "watch" \in live => link = "open"
  /\ "timeout" \in live => callrefs > 0

\* Besides what the peer sends there are two messages, for a call that timed
\* out and for a connection that is gone.
ReceivedOK ==
  /\ pc = "build" => received <= Count(link = "closed")
  /\ received <= MaxReceived + Count(pc # "build" /\ "timeout" \notin live)
                             + Count(link \in {"closed", "freed"})

\* The inductive invariant.
ProgramInv ==
  /\ TypeOK
  /\ PhasesOK
  /\ LinkOK
  /\ CallOK
  /\ HandlesOK
  /\ ReceivedOK

-----------------------------------------------------------------------------

\* The place of each local.
LEMMA DeclaredOrder ==
  /\ Len(Declared) = 9
  /\ \A i \in 1 .. 9 :
       /\ Declared[i] = "reactor"     <=> i = 1
       /\ Declared[i] = "dbus"        <=> i = 2
       /\ Declared[i] = "err"         <=> i = 3
       /\ Declared[i] = "conn"        <=> i = 4
       /\ Declared[i] = "adapter"     <=> i = 5
       /\ Declared[i] = "hello"       <=> i = 6
       /\ Declared[i] = "hello_reply" <=> i = 7
       /\ Declared[i] = "stop"        <=> i = 8
       /\ Declared[i] = "c"           <=> i = 9
BY DEF Declared

LEMMA ExistsFrom ==
  ASSUME built \in 0 .. 9
  PROVE  /\ Exists("reactor") <=> built >= 1
         /\ Exists("dbus")    <=> built >= 2
         /\ Exists("adapter") <=> built >= 5
         /\ Exists("stop")    <=> built >= 8
BY DeclaredOrder DEF Exists

LEMMA InitProgramInv == Init => ProgramInv
<1> SUFFICES ASSUME Init PROVE ProgramInv
  OBVIOUS
<1>1. TypeOK
  <2>1. queue \in Seq(Kinds)
    BY DEF Init
  <2>2. built \in 0 .. Len(Declared)
    BY DeclaredOrder DEF Init
  <2>3. /\ live \subseteq Handles /\ posted \subseteq Handles /\ polled \subseteq Handles
        /\ fault \in Unchecked \cup {"none"}
    BY DEF Init
  <2> QED
    BY <2>1, <2>2, <2>3 DEF Init, TypeOK
<1>2. PhasesOK /\ LinkOK /\ CallOK /\ HandlesOK /\ ReceivedOK
  BY MaxReceivedAssumption
  DEF Init, PhasesOK, LinkOK, CallOK, HandlesOK, ReceivedOK, Alive, Count
<1> QED
  BY <1>1, <1>2 DEF ProgramInv

\* The next local is constructed.
LEMMA ConstructsNext ==
  ASSUME ProgramInv, NEW x, Constructs(x)
  PROVE  /\ Alive /\ ~running /\ pc = "build" /\ built \in 0 .. 8 /\ Declared[built + 1] = x
         /\ built' = built + 1 /\ built' \in 1 .. 9
         /\ pc' = IF built' = 9 THEN "loop" ELSE "build"
BY DeclaredOrder DEF ProgramInv, TypeOK, PhasesOK, Constructs

\* The last local is destroyed.
LEMMA DestroysLast ==
  ASSUME ProgramInv, NEW x, Destroys(x)
  PROVE  /\ Alive /\ ~running /\ pc = "unwind" /\ built \in 1 .. 9 /\ Declared[built] = x
         /\ built' = built - 1 /\ built' \in 0 .. 8
         /\ pc' = IF built' = 0 THEN "done" ELSE "unwind"
BY DeclaredOrder DEF ProgramInv, TypeOK, PhasesOK, Destroys

LEMMA PlainKeepsInv ==
  ASSUME ProgramInv, ConstructPlain \/ DestroyPlain
  PROVE  ProgramInv'
<1>1. ASSUME NEW x \in Plain, Constructs(x),
             UNCHANGED <<stop, slot, conn, reactor, pending, fault>>
      PROVE  ProgramInv'
  <2>1. /\ Alive /\ ~running /\ pc = "build" /\ built \in {0, 1, 2, 5, 7}
        /\ built' = built + 1 /\ pc' = "build"
    BY <1>1, ConstructsNext, DeclaredOrder DEF Plain
  <2>2. TypeOK'
    BY <1>1, <2>1, DeclaredOrder DEF ProgramInv, TypeOK, conn, reactor, pending
  <2>3. PhasesOK' /\ HandlesOK' /\ ReceivedOK'
    BY <1>1, <2>1 DEF ProgramInv, PhasesOK, HandlesOK, ReceivedOK, conn, reactor, pending
  <2>4. LinkOK' /\ CallOK'
    BY <1>1, <2>1 DEF ProgramInv, LinkOK, CallOK, Alive, Count, conn, reactor, pending
  <2> QED
    BY <2>2, <2>3, <2>4 DEF ProgramInv
<1>2. ASSUME NEW x \in Plain, Destroys(x),
             UNCHANGED <<stop, slot, conn, reactor, pending, fault>>
      PROVE  ProgramInv'
  <2>1. /\ Alive /\ ~running /\ pc = "unwind" /\ built \in {1, 2, 3, 6, 8}
        /\ built' = built - 1
        /\ pc' = IF built' = 0 THEN "done" ELSE "unwind"
    BY <1>2, DestroysLast, DeclaredOrder DEF Plain
  <2>2. TypeOK'
    BY <1>2, <2>1, DeclaredOrder DEF ProgramInv, TypeOK, conn, reactor, pending
  <2>3. PhasesOK' /\ HandlesOK' /\ ReceivedOK'
    BY <1>2, <2>1 DEF ProgramInv, PhasesOK, HandlesOK, ReceivedOK, conn, reactor, pending
  <2>4. LinkOK' /\ CallOK'
    BY <1>2, <2>1 DEF ProgramInv, LinkOK, CallOK, Alive, Count, conn, reactor, pending
  <2> QED
    BY <2>2, <2>3, <2>4 DEF ProgramInv
<1> QED
  BY <1>1, <1>2 DEF ConstructPlain, DestroyPlain

LEMMA OpenPrivateKeepsInv ==
  ASSUME ProgramInv, OpenPrivate
  PROVE  ProgramInv'
<1>1. /\ Alive /\ ~running /\ pc = "build" /\ built = 3 /\ built' = 4 /\ pc' = "build"
      /\ link = "none"
      /\ \/ link' = "open" /\ connrefs' = 1
         \/ UNCHANGED <<link, connrefs>>
      /\ UNCHANGED <<stop, slot, queue, received, last, reactor, pending, fault>>
  BY ConstructsNext, DeclaredOrder DEF OpenPrivate, ProgramInv, LinkOK
<1>2. TypeOK'
  BY <1>1, DeclaredOrder DEF ProgramInv, TypeOK, reactor, pending
<1>3. PhasesOK' /\ LinkOK' /\ CallOK'
  BY <1>1 DEF ProgramInv, PhasesOK, LinkOK, CallOK, Alive, Count, reactor, pending
<1>4. HandlesOK' /\ ReceivedOK'
  BY <1>1 DEF ProgramInv, HandlesOK, ReceivedOK, Count, reactor, pending
<1> QED
  BY <1>2, <1>3, <1>4 DEF ProgramInv

\* A message more is queued, and a closure posted for the change of the status.
LEMMA EnqueueAppends ==
  ASSUME TypeOK, NEW kind \in Kinds, Enqueue(kind)
  PROVE  /\ queue' \in Seq(Kinds) /\ queue' # <<>>
         /\ Len(queue') = Len(queue) + 1
         /\ received' = received + 1 /\ received' \in Nat
         /\ last' = "DATA_REMAINS"
         /\ dispatches' = dispatches + Count(last # "DATA_REMAINS" /\ built >= 5)
         /\ dispatches' \in Nat
<1>1. queue' \in Seq(Kinds) /\ queue' # <<>> /\ Len(queue') = Len(queue) + 1
  BY DEF TypeOK, Enqueue
<1>2. StatusOf(queue') = "DATA_REMAINS"
  BY <1>1 DEF StatusOf
<1>3. built \in 0 .. 9
  BY DeclaredOrder DEF TypeOK
<1>4. Reported(queue') = Count(last # "DATA_REMAINS" /\ built >= 5)
  BY <1>2, <1>3, ExistsFrom DEF Reported, OnDispatchState, Count
<1> QED
  BY <1>1, <1>4 DEF TypeOK, Enqueue, Count

\* A dispatch takes a message, or finds there is none.
LEMMA BeginDispatchTakes ==
  ASSUME TypeOK, NEW before \in Nat, BeginDispatch(before)
  PROVE  /\ dispatches' = before
         /\ queue' \in Seq(Kinds) /\ running' \in BOOLEAN /\ stop' \in BOOLEAN
         /\ last' \in {"COMPLETE", "DATA_REMAINS"}
         /\ call' \in {call, "answered"} /\ (call' = "none" <=> call = "none")
         /\ fault' \in {fault, "null_reply"}
         /\ \/ /\ queue # <<>> /\ Len(queue') = Len(queue) - 1
               /\ running' = TRUE /\ last' = last
            \/ /\ queue = <<>> /\ queue' = queue
               /\ running' = running /\ last' = "COMPLETE"
               /\ stop' = stop /\ call' = call /\ fault' = fault
<1>1. CASE queue # <<>>
  <2>1. queue' = Tail(queue) /\ running' = TRUE /\ last' = last /\ Handled(Head(queue))
    BY <1>1 DEF BeginDispatch
  <2>2. Tail(queue) \in Seq(Kinds) /\ Len(Tail(queue)) = Len(queue) - 1
    BY <1>1 DEF TypeOK
  <2>3. /\ stop' \in BOOLEAN
        /\ call' \in {call, "answered"} /\ (call' = "none" <=> call = "none")
        /\ fault' \in {fault, "null_reply"}
    BY <2>1 DEF TypeOK, Handled, Notifies
  <2> QED
    BY <1>1, <2>1, <2>2, <2>3 DEF TypeOK, BeginDispatch
<1>2. CASE queue = <<>>
  BY <1>2 DEF TypeOK, BeginDispatch
<1> QED
  BY <1>1, <1>2

LEMMA DisconnectKeepsInv ==
  ASSUME ProgramInv, Disconnect
  PROVE  ProgramInv'
<1>1. /\ Alive /\ ~running /\ pc \in {"build", "loop"} /\ link = "open" /\ link' = "closed"
      /\ live' = live \ {"watch"} /\ polled' = polled \ {"watch"}
      /\ UNCHANGED <<pc, built, stop, slot, connrefs, posted, running, call, callrefs, fault>>
  BY DEF Disconnect, Remove, main, pending
<1>2. /\ queue' \in Seq(Kinds) /\ received' = received + 1 /\ received' \in Nat
      /\ last' = "DATA_REMAINS" /\ dispatches' \in Nat
  BY EnqueueAppends DEF ProgramInv, Disconnect, Kinds
<1>3. TypeOK'
  BY <1>1, <1>2 DEF ProgramInv, TypeOK
<1>4. PhasesOK' /\ LinkOK' /\ CallOK'
  BY <1>1 DEF ProgramInv, PhasesOK, LinkOK, CallOK, Alive, Count
<1>5. HandlesOK'
  BY <1>1 DEF ProgramInv, HandlesOK
<1>6. ReceivedOK'
  BY <1>1, <1>2, MaxReceivedAssumption DEF ProgramInv, ReceivedOK, TypeOK, Count
<1> QED
  BY <1>3, <1>4, <1>5, <1>6 DEF ProgramInv

LEMMA ConstructAdapterKeepsInv ==
  ASSUME ProgramInv, ConstructAdapter
  PROVE  ProgramInv'
<1>1. /\ Alive /\ ~running /\ pc = "build" /\ built = 4 /\ built' = 5 /\ pc' = "build"
      /\ link \in {"none", "open", "closed"} /\ call = "none" /\ callrefs = 0
      /\ UNCHANGED <<slot, link, received, polled, callrefs>>
  BY ConstructsNext, DeclaredOrder
  DEF ConstructAdapter, ProgramInv, TypeOK, LinkOK, CallOK
<1>2. CASE link = "none"
  <2>1. /\ fault' = "null_connection"
        /\ UNCHANGED <<stop, connrefs, queue, last, live, posted, dispatches, running, call>>
    BY <1>2 DEF ConstructAdapter
  <2>2. TypeOK'
    BY <1>1, <2>1, DeclaredOrder DEF ProgramInv, TypeOK, Unchecked
  <2>3. PhasesOK' /\ LinkOK' /\ CallOK'
    BY <1>1, <1>2, <2>1 DEF ProgramInv, PhasesOK, LinkOK, CallOK, Alive, Count
  <2>4. HandlesOK' /\ ReceivedOK'
    BY <1>1, <2>1 DEF ProgramInv, HandlesOK, ReceivedOK, Count
  <2> QED
    BY <2>2, <2>3, <2>4 DEF ProgramInv
<1>3. CASE link # "none"
  <2>1. /\ connrefs' = connrefs + 1
        /\ \/ link = "open" /\ live' = live \cup {"watch"} /\ posted' = posted \cup {"watch"}
           \/ link = "closed" /\ UNCHANGED <<live, posted>>
        /\ BeginDispatch(dispatches)
    BY <1>3 DEF ConstructAdapter, Add
  <2>2. /\ dispatches' = dispatches
        /\ queue' \in Seq(Kinds) /\ running' \in BOOLEAN /\ stop' \in BOOLEAN
        /\ last' \in {"COMPLETE", "DATA_REMAINS"}
        /\ call' \in {call, "answered"} /\ (call' = "none" <=> call = "none")
        /\ fault' \in {fault, "null_reply"}
    BY <2>1, BeginDispatchTakes DEF ProgramInv, TypeOK
  <2>3. TypeOK'
    <3>1. /\ connrefs' \in Nat
          /\ call' \in {"none", "waiting", "answered", "cancelled"}
          /\ fault' \in Unchecked \cup {"none"}
      BY <2>1, <2>2 DEF ProgramInv, TypeOK, Unchecked
    <3>2. live' \subseteq Handles /\ posted' \subseteq Handles
      <4>1. live \subseteq Handles /\ posted \subseteq Handles /\ "watch" \in Handles
        BY DEF ProgramInv, TypeOK, Handles
      <4> QED
        BY <2>1, <4>1
    <3>3. built' \in 0 .. Len(Declared)
      BY <1>1, DeclaredOrder
    <3> QED
      BY <1>1, <2>2, <3>1, <3>2, <3>3 DEF ProgramInv, TypeOK
  <2>4. PhasesOK' /\ LinkOK' /\ CallOK'
    BY <1>1, <1>3, <2>1, <2>2 DEF ProgramInv, PhasesOK, LinkOK, CallOK, Alive, Count
  <2>5. HandlesOK'
    BY <1>1, <2>1 DEF ProgramInv, HandlesOK
  <2>6. ReceivedOK'
    BY <1>1, <2>1 DEF ProgramInv, ReceivedOK, Count
  <2> QED
    BY <2>3, <2>4, <2>5, <2>6 DEF ProgramInv
<1> QED
  BY <1>2, <1>3

LEMMA CallKeepsInv ==
  ASSUME ProgramInv, Call \/ CallFails
  PROVE  ProgramInv'
<1>1. /\ Alive /\ ~running /\ pc = "build" /\ built = 6 /\ built' = 7 /\ pc' = "build"
      /\ link # "none" /\ call = "none" /\ callrefs = 0
      /\ UNCHANGED <<stop, slot, link, connrefs, queue, received, last, polled,
                     dispatches, running>>
  BY ConstructsNext, DeclaredOrder
  DEF Call, CallFails, ProgramInv, LinkOK, CallOK, conn, reactor
<1>2. CASE Call
  <2>1. /\ call' = "waiting" /\ callrefs' = 1 /\ fault' = fault
        /\ live' = live \cup {"timeout"} /\ posted' = posted \cup {"timeout"}
    BY <1>2 DEF Call, Add
  <2>2. TypeOK'
    BY <1>1, <2>1, DeclaredOrder DEF ProgramInv, TypeOK, Handles
  <2>3. PhasesOK' /\ LinkOK' /\ CallOK'
    BY <1>1, <2>1 DEF ProgramInv, PhasesOK, LinkOK, CallOK, Alive, Count
  <2>4. HandlesOK' /\ ReceivedOK'
    BY <1>1, <2>1 DEF ProgramInv, HandlesOK, ReceivedOK, Count
  <2> QED
    BY <2>2, <2>3, <2>4 DEF ProgramInv
<1>3. CASE CallFails
  <2>1. /\ fault' \in {"call_assert", "ctor_assert"}
        /\ UNCHANGED <<live, posted, call, callrefs>>
    BY <1>3 DEF CallFails, reactor, pending
  <2>2. TypeOK'
    BY <1>1, <2>1, DeclaredOrder DEF ProgramInv, TypeOK, Unchecked
  <2>3. PhasesOK' /\ LinkOK' /\ CallOK'
    BY <1>1, <2>1 DEF ProgramInv, PhasesOK, LinkOK, CallOK, Alive, Count
  <2>4. HandlesOK' /\ ReceivedOK'
    BY <1>1, <2>1 DEF ProgramInv, HandlesOK, ReceivedOK, Count
  <2> QED
    BY <2>2, <2>3, <2>4 DEF ProgramInv
<1> QED
  BY <1>2, <1>3

LEMMA ConnectSlotKeepsInv ==
  ASSUME ProgramInv, ConnectSlot
  PROVE  ProgramInv'
<1>1. /\ Alive /\ ~running /\ pc = "build" /\ built = 8 /\ built' = 9 /\ pc' = "loop"
      /\ call # "none" /\ link # "none"
      /\ slot' = TRUE /\ callrefs' = callrefs + 1
      /\ UNCHANGED <<stop, conn, reactor, call, fault>>
  BY ConstructsNext, DeclaredOrder DEF ConnectSlot, ProgramInv, LinkOK, CallOK
<1>2. TypeOK'
  BY <1>1, DeclaredOrder DEF ProgramInv, TypeOK, conn, reactor
<1>3. PhasesOK' /\ LinkOK' /\ CallOK'
  BY <1>1 DEF ProgramInv, PhasesOK, LinkOK, CallOK, Alive, Count, conn, reactor
<1>4. HandlesOK'
  BY <1>1 DEF ProgramInv, HandlesOK, TypeOK, conn, reactor
<1>5. ReceivedOK'
  BY <1>1, MaxReceivedAssumption
  DEF ProgramInv, ReceivedOK, TypeOK, Count, conn, reactor
<1> QED
  BY <1>2, <1>3, <1>4, <1>5 DEF ProgramInv

LEMMA EndDispatchKeepsInv ==
  ASSUME ProgramInv, EndDispatch
  PROVE  ProgramInv'
<1>1. /\ Alive /\ running /\ running' = FALSE /\ link # "none"
      /\ last' = StatusOf(queue) /\ last' \in {"COMPLETE", "DATA_REMAINS"}
      /\ UNCHANGED <<pc, built, stop, slot, link, connrefs, queue, received, live,
                     posted, polled, call, callrefs, fault>>
  BY DEF EndDispatch, StatusOf, ProgramInv, PhasesOK, LinkOK, main, pending
<1>2. dispatches' \in Nat
  BY DEF EndDispatch, Reported, OnDispatchState, Count, ProgramInv, TypeOK
<1>3. TypeOK'
  BY <1>1, <1>2 DEF ProgramInv, TypeOK
<1>4. PhasesOK' /\ LinkOK' /\ CallOK'
  BY <1>1 DEF ProgramInv, PhasesOK, LinkOK, CallOK, Alive, Count
<1>5. HandlesOK' /\ ReceivedOK'
  BY <1>1 DEF ProgramInv, HandlesOK, ReceivedOK, Count
<1> QED
  BY <1>3, <1>4, <1>5 DEF ProgramInv

\* In the loop all the locals exist.
LEMMA InLoop ==
  ASSUME ProgramInv, InReactor
  PROVE  /\ Alive /\ ~running /\ pc = "loop" /\ built = 9 /\ slot
         /\ link \in {"open", "closed"} /\ connrefs = 2
         /\ call # "none" /\ callrefs = 2
BY DEF InReactor, ProgramInv, TypeOK, PhasesOK, LinkOK, CallOK, Count

LEMMA RunPostedKeepsInv ==
  ASSUME ProgramInv, NEW h \in Handles, RunPosted(h)
  PROVE  ProgramInv'
<1>1. /\ pc = "loop" /\ built = 9 /\ link # "none" /\ call # "none"
      /\ posted' = posted \ {h} /\ polled' \subseteq live
      /\ fault' \in {fault, "null_handle"}
      /\ UNCHANGED <<pc, built, stop, slot, link, connrefs, queue, received, last, live,
                     dispatches, running, call, callrefs>>
  BY InLoop DEF RunPosted, main, conn, pending, ProgramInv, HandlesOK
<1>2. TypeOK'
  <2>1. fault' \in Unchecked \cup {"none"}
    BY <1>1 DEF ProgramInv, TypeOK, Unchecked
  <2> QED
    BY <1>1, <2>1 DEF ProgramInv, TypeOK
<1>3. PhasesOK' /\ LinkOK' /\ CallOK'
  BY <1>1 DEF ProgramInv, PhasesOK, LinkOK, CallOK, Count
<1>4. HandlesOK' /\ ReceivedOK'
  BY <1>1 DEF ProgramInv, HandlesOK, ReceivedOK, Count
<1> QED
  BY <1>2, <1>3, <1>4 DEF ProgramInv

LEMMA RunDispatchKeepsInv ==
  ASSUME ProgramInv, RunDispatch
  PROVE  ProgramInv'
<1>1. /\ pc = "loop" /\ built = 9 /\ link # "none" /\ call # "none" /\ InReactor
      /\ dispatches \in Nat /\ dispatches > 0 /\ BeginDispatch(dispatches - 1)
      /\ UNCHANGED <<pc, built, slot, link, connrefs, received, live, posted, polled, callrefs>>
  BY InLoop DEF RunDispatch, ProgramInv, TypeOK
<1>2. /\ dispatches' \in Nat
      /\ queue' \in Seq(Kinds) /\ running' \in BOOLEAN /\ stop' \in BOOLEAN
      /\ last' \in {"COMPLETE", "DATA_REMAINS"}
      /\ call' \in {call, "answered"} /\ (call' = "none" <=> call = "none")
      /\ fault' \in {fault, "null_reply"}
  <2>1. dispatches - 1 \in Nat
    BY <1>1
  <2> HIDE DEF BeginDispatch
  <2> QED
    BY <1>1, <2>1, BeginDispatchTakes DEF ProgramInv
<1>3. TypeOK'
  <2>1. /\ fault' \in Unchecked \cup {"none"}
        /\ call' \in {"none", "waiting", "answered", "cancelled"}
    BY <1>2 DEF ProgramInv, TypeOK, Unchecked
  <2> QED
    BY <1>1, <1>2, <2>1 DEF ProgramInv, TypeOK
<1>4. PhasesOK' /\ LinkOK' /\ CallOK'
  BY <1>1, <1>2 DEF ProgramInv, PhasesOK, LinkOK, CallOK, Count
<1>5. HandlesOK' /\ ReceivedOK'
  BY <1>1 DEF ProgramInv, HandlesOK, ReceivedOK, Count
<1> QED
  BY <1>3, <1>4, <1>5 DEF ProgramInv

\* The handlers of the watch and of the timeout of the call.
LEMMA ArrivalKeepsInv ==
  ASSUME ProgramInv, WatchReady \/ TimerDue
  PROVE  ProgramInv'
<1>1. /\ InReactor /\ pc = "loop" /\ built = 9 /\ link # "none"
      /\ UNCHANGED <<pc, built, stop, slot, link, connrefs, posted, running, call,
                     callrefs, fault>>
  BY InLoop DEF WatchReady, TimerDue, main, pending
<1>2. /\ queue' \in Seq(Kinds) /\ received' = received + 1 /\ received' \in Nat
      /\ last' = "DATA_REMAINS" /\ dispatches' \in Nat
  <2>1. PICK kind \in Kinds : Enqueue(kind)
    BY DEF WatchReady, TimerDue, Kinds, Answers
  <2> QED
    BY <2>1, EnqueueAppends DEF ProgramInv
<1>3. \E H \in SUBSET {"timeout"} :
        /\ live' = live \ H /\ polled' = polled \ H
        /\ received < MaxReceived \/ ("timeout" \in live /\ H = {"timeout"})
  <2>1. CASE WatchReady
    BY <2>1 DEF WatchReady, Remove
  <2>2. CASE TimerDue
    BY <2>2 DEF TimerDue, Remove, ProgramInv, HandlesOK
  <2> QED
    BY <2>1, <2>2
<1>4. TypeOK'
  BY <1>1, <1>2, <1>3 DEF ProgramInv, TypeOK
<1>5. PhasesOK' /\ LinkOK' /\ CallOK'
  BY <1>1 DEF ProgramInv, PhasesOK, LinkOK, CallOK, Count
<1>6. HandlesOK'
  BY <1>1, <1>3 DEF ProgramInv, HandlesOK
<1>7. ReceivedOK'
  BY <1>1, <1>2, <1>3, MaxReceivedAssumption DEF ProgramInv, ReceivedOK, TypeOK, Count
<1> QED
  BY <1>4, <1>5, <1>6, <1>7 DEF ProgramInv

LEMMA LeaveLoopKeepsInv ==
  ASSUME ProgramInv, LeaveLoop
  PROVE  ProgramInv'
<1>1. /\ pc = "loop" /\ built = 9 /\ link # "none" /\ ~running /\ pc' = "unwind"
      /\ UNCHANGED <<built, stop, slot, conn, reactor, pending, fault>>
  BY InLoop DEF LeaveLoop
<1>2. TypeOK'
  BY <1>1 DEF ProgramInv, TypeOK, conn, reactor, pending
<1>3. PhasesOK' /\ LinkOK' /\ CallOK'
  BY <1>1 DEF ProgramInv, PhasesOK, LinkOK, CallOK, Alive, Count, conn, reactor, pending
<1>4. HandlesOK' /\ ReceivedOK'
  BY <1>1 DEF ProgramInv, HandlesOK, ReceivedOK, Count, conn, reactor, pending
<1> QED
  BY <1>2, <1>3, <1>4 DEF ProgramInv

\* A pointer to the call goes: the connection and the messages stay.
LEMMA DropKeepsInv ==
  ASSUME ProgramInv, DestroyConnection \/ DestroyReply
  PROVE  ProgramInv'
<1>1. /\ Alive /\ ~running /\ pc = "unwind" /\ pc' = "unwind"
      /\ \/ built = 9 /\ built' = 8 /\ slot' = FALSE /\ callrefs = 2
         \/ built = 7 /\ built' = 6 /\ slot' = slot /\ callrefs = 1
  BY DestroysLast, DeclaredOrder
  DEF DestroyConnection, DestroyReply, ProgramInv, CallOK, Count
<1>2. /\ callrefs' = callrefs - 1
      /\ call' = IF callrefs = 1 /\ call = "waiting" THEN "cancelled" ELSE call
      /\ live' = live \ {h \in {"timeout"} : callrefs = 1}
      /\ polled' = polled \ {h \in {"timeout"} : callrefs = 1}
      /\ UNCHANGED <<stop, link, connrefs, queue, received, last, posted, dispatches,
                     running, fault>>
  BY DEF DestroyConnection, DestroyReply, DropCall, Remove, conn
<1>3. call # "none" /\ call' # "none" /\ link # "none"
  BY <1>1, <1>2 DEF ProgramInv, CallOK, LinkOK
<1>4. TypeOK'
  <2>1. /\ callrefs' \in Nat
        /\ call' \in {"none", "waiting", "answered", "cancelled"}
    BY <1>1, <1>2 DEF ProgramInv, TypeOK
  <2>2. slot' \in BOOLEAN
    BY <1>1 DEF ProgramInv, TypeOK
  <2>3. live' \subseteq Handles /\ polled' \subseteq Handles
    BY <1>2 DEF ProgramInv, TypeOK
  <2>4. built' \in 0 .. Len(Declared)
    BY <1>1, DeclaredOrder
  <2> QED
    BY <1>1, <1>2, <2>1, <2>2, <2>3, <2>4 DEF ProgramInv, TypeOK
<1>5. PhasesOK' /\ LinkOK' /\ CallOK'
  BY <1>1, <1>2, <1>3 DEF ProgramInv, PhasesOK, LinkOK, CallOK, Count
<1>6. HandlesOK'
  BY <1>1, <1>2 DEF ProgramInv, HandlesOK
<1>7. ReceivedOK'
  BY <1>1, <1>2, MaxReceivedAssumption DEF ProgramInv, ReceivedOK, TypeOK, Count
<1> QED
  BY <1>4, <1>5, <1>6, <1>7 DEF ProgramInv

LEMMA DestroyAdapterKeepsInv ==
  ASSUME ProgramInv, DestroyAdapter
  PROVE  ProgramInv'
<1>1. /\ Alive /\ ~running /\ pc = "unwind" /\ built = 5 /\ built' = 4 /\ pc' = "unwind"
      /\ link # "none" /\ connrefs = 2 /\ connrefs' = 1
      /\ UNCHANGED <<stop, slot, link, queue, received, last, reactor, pending, fault>>
  BY DestroysLast, DeclaredOrder DEF DestroyAdapter, ProgramInv, LinkOK, Count
<1>2. TypeOK'
  BY <1>1, DeclaredOrder DEF ProgramInv, TypeOK, reactor, pending
<1>3. PhasesOK' /\ LinkOK' /\ CallOK'
  BY <1>1 DEF ProgramInv, PhasesOK, LinkOK, CallOK, Alive, Count, reactor, pending
<1>4. HandlesOK' /\ ReceivedOK'
  BY <1>1 DEF ProgramInv, HandlesOK, ReceivedOK, Count, reactor, pending
<1> QED
  BY <1>2, <1>3, <1>4 DEF ProgramInv

\* What ~private_connection() finds and leaves.
LEMMA DestroyConnStep ==
  ASSUME ProgramInv, DestroyConn
  PROVE  /\ Alive /\ ~running /\ pc = "unwind" /\ built = 4 /\ built' = 3 /\ pc' = "unwind"
         /\ link \in {"open", "closed"} /\ link' = "freed"
         /\ connrefs = 1 /\ connrefs' = 0
         /\ live' = live \ {"watch"} /\ polled' = polled \ {"watch"}
         /\ link = "open" =>
              /\ Enqueue("signal")
              /\ queue' \in Seq(Kinds) /\ received' = received + 1 /\ received' \in Nat
              /\ last' = "DATA_REMAINS" /\ dispatches' = dispatches
         /\ link = "closed" => UNCHANGED <<queue, received, last, dispatches>>
         /\ UNCHANGED <<stop, slot, posted, running, call, callrefs, fault>>
<1>1. /\ Alive /\ ~running /\ pc = "unwind" /\ built = 4 /\ built' = 3 /\ pc' = "unwind"
      /\ link \in {"open", "closed"} /\ connrefs = 1
  BY DestroysLast, DeclaredOrder DEF DestroyConn, ProgramInv, TypeOK, LinkOK, Count
<1>2. ASSUME link = "open"
      PROVE  /\ Enqueue("signal")
             /\ queue' \in Seq(Kinds) /\ received' = received + 1 /\ received' \in Nat
             /\ last' = "DATA_REMAINS" /\ dispatches' = dispatches
  <2>1. "signal" \in Kinds /\ Enqueue("signal") /\ TypeOK
    BY <1>2 DEF DestroyConn, Kinds, ProgramInv
  <2>2. dispatches' = dispatches + Count(last # "DATA_REMAINS" /\ built >= 5)
    BY <2>1, EnqueueAppends
  <2>3. dispatches' = dispatches
    BY <1>1, <2>1, <2>2 DEF Count, TypeOK
  <2> QED
    BY <2>1, <2>3, EnqueueAppends
<1>3. /\ connrefs' = 0 /\ link' = "freed"
      /\ live' = live \ {"watch"} /\ polled' = polled \ {"watch"}
      /\ link = "closed" => UNCHANGED <<queue, received, last, dispatches>>
      /\ UNCHANGED <<stop, slot, posted, running, call, callrefs, fault>>
  BY <1>1 DEF DestroyConn, Remove, pending
<1> QED
  BY <1>1, <1>2, <1>3

LEMMA DestroyConnKeepsInv ==
  ASSUME ProgramInv, DestroyConn
  PROVE  ProgramInv'
<1>1. TypeOK'
  <2>1. /\ queue' \in Seq(Kinds) /\ received' \in Nat /\ dispatches' \in Nat
        /\ last' \in {"COMPLETE", "DATA_REMAINS"}
    BY DestroyConnStep DEF ProgramInv, TypeOK
  <2> QED
    BY <2>1, DestroyConnStep, DeclaredOrder DEF ProgramInv, TypeOK
<1>2. PhasesOK' /\ LinkOK' /\ CallOK'
  BY DestroyConnStep DEF ProgramInv, PhasesOK, LinkOK, CallOK, Alive, Count
<1>3. HandlesOK'
  BY DestroyConnStep DEF ProgramInv, HandlesOK
<1>4. ReceivedOK'
  BY DestroyConnStep, MaxReceivedAssumption
  DEF ProgramInv, ReceivedOK, TypeOK, Count
<1> QED
  BY <1>1, <1>2, <1>3, <1>4 DEF ProgramInv

LEMMA StutterKeepsInv ==
  ASSUME ProgramInv, UNCHANGED vars
  PROVE  ProgramInv'
BY DEF ProgramInv, TypeOK, PhasesOK, LinkOK, CallOK, HandlesOK, ReceivedOK, Alive,
       vars, main, conn, reactor, pending

LEMMA NextKeepsInv ==
  ASSUME ProgramInv, [Next]_vars
  PROVE  ProgramInv'
<1>1. CASE Construct
  BY <1>1, PlainKeepsInv, OpenPrivateKeepsInv, ConstructAdapterKeepsInv, CallKeepsInv,
     ConnectSlotKeepsInv
  DEF Construct
<1>2. CASE Destroy
  BY <1>2, PlainKeepsInv, DropKeepsInv, DestroyAdapterKeepsInv, DestroyConnKeepsInv
  DEF Destroy
<1>3. CASE EndDispatch \/ RunDispatch
  BY <1>3, EndDispatchKeepsInv, RunDispatchKeepsInv
<1>4. CASE TimerDue \/ WatchReady \/ Disconnect
  BY <1>4, ArrivalKeepsInv, DisconnectKeepsInv
<1>5. CASE \E h \in Handles : RunPosted(h)
  BY <1>5, RunPostedKeepsInv
<1>6. CASE UNCHANGED vars
  BY <1>6, StutterKeepsInv
<1> QED
  BY <1>1, <1>2, <1>3, <1>4, <1>5, <1>6, LeaveLoopKeepsInv DEF Next

\* ProgramInv holds in every state: whatever the peer sends and whenever the
\* socket breaks, the locals of main() hold what they should.
THEOREM ProgramInvariance == Spec => []ProgramInv
BY InitProgramInv, NextKeepsInv, PTL DEF Spec

\* Type correctness.
THEOREM ProgramTypesCorrect == Spec => []TypeOK
<1>1. ProgramInv => TypeOK
  BY DEF ProgramInv
<1> QED
  BY <1>1, ProgramInvariance, PTL

\* The order of the declarations in main() is a right one for three of its
\* locals: the reactor outlives what is registered with it, `stop' the slot
\* that writes to it, and the bus every pointer to the connection.
THEOREM DeclarationOrderIsSafe == Spec => []LocalsOutliveTheirUsers
<1>1. ProgramInv => LocalsOutliveTheirUsers
  <2> SUFFICES ASSUME ProgramInv PROVE LocalsOutliveTheirUsers
    OBVIOUS
  <2>1. built \in 0 .. 9
    BY DeclaredOrder DEF ProgramInv, TypeOK
  <2>2. polled # {} => built >= 1
    <3>1. ASSUME built = 0 PROVE polled = {}
      <4>1. link # "open" /\ callrefs = 0
        BY <3>1 DEF ProgramInv, PhasesOK, LinkOK, CallOK, Count, TypeOK
      <4>2. "watch" \notin polled /\ "timeout" \notin polled
        BY <4>1 DEF ProgramInv, HandlesOK
      <4> QED
        BY <4>2 DEF ProgramInv, TypeOK, Handles
    <3> QED
      BY <2>1, <3>1
  <2>3. slot => built >= 8
    BY DEF ProgramInv, CallOK
  <2>4. connrefs > 0 => built >= 2
    BY <2>1 DEF ProgramInv, LinkOK, Count
  <2> QED
    BY <2>1, <2>2, <2>3, <2>4, ExistsFrom DEF LocalsOutliveTheirUsers
<1> QED
  BY <1>1, ProgramInvariance, PTL

\* When main() is through nothing is left: the slot bound to the call it waits
\* for, and the adapter bound to the connection, are undone by the destructors
\* in the order in which they run.
THEOREM ProgramLeavesNothing == Spec => []NothingLeaks
<1>1. ProgramInv => NothingLeaks
  <2> SUFFICES ASSUME ProgramInv, pc = "done"
               PROVE  callrefs = 0 /\ connrefs = 0 /\ live = {} /\ link = "freed"
    BY DEF NothingLeaks
  <2>1. built = 0
    BY DEF ProgramInv, PhasesOK
  <2>2. callrefs = 0 /\ connrefs = 0 /\ link = "freed"
    BY <2>1 DEF ProgramInv, LinkOK, CallOK, Count
  <2>3. "watch" \notin live /\ "timeout" \notin live
    BY <2>2 DEF ProgramInv, HandlesOK
  <2> QED
    BY <2>2, <2>3 DEF ProgramInv, TypeOK, Handles
<1> QED
  BY <1>1, ProgramInvariance, PTL

-----------------------------------------------------------------------------
(***************************************************************************)
(* The refinement: the queue, the closures and the adapter of the program  *)
(* take steps of DispatchPump, or none.                                    *)
(***************************************************************************)

\* The adapter before and after a step, by the number of locals.
LEMMA AdapterView ==
  ASSUME ProgramInv, ProgramInv'
  PROVE  /\ Exists("adapter")  \in BOOLEAN /\ (Exists("adapter")  <=> built >= 5)
         /\ Exists("adapter")' \in BOOLEAN /\ (Exists("adapter")' <=> built' >= 5)
         /\ AdapterState  = IF built >= 5 THEN "live"
                            ELSE IF pc = "build" THEN "absent" ELSE "deleted"
         /\ AdapterState' = IF built' >= 5 THEN "live"
                            ELSE IF pc' = "build" THEN "absent" ELSE "deleted"
<1>1. built \in 0 .. 9 /\ built' \in 0 .. 9
  BY DeclaredOrder DEF ProgramInv, TypeOK
<1>2. Exists("adapter") \in BOOLEAN /\ Exists("adapter")' \in BOOLEAN
  BY Zenon DEF Exists
<1>3. Exists("adapter") <=> built >= 5
  BY <1>1, ExistsFrom
<1>4. Exists("adapter")' <=> built' >= 5
  BY <1>1, DeclaredOrder DEF Exists
<1> QED
  BY <1>2, <1>3, <1>4 DEF AdapterState

\* What DispatchPump does not see: a step of main(), of the call or of the
\* handles.
LEMMA UnseenStep ==
  ASSUME ProgramInv, ProgramInv',
         UNCHANGED <<queue, received, last, dispatches, running>>,
         built' >= 5 <=> built >= 5,
         (pc' = "build" <=> pc = "build") \/ built >= 5
  PROVE  UNCHANGED Pump!vars
<1>1. AdapterState' = AdapterState /\ Exists("adapter")' = Exists("adapter")
  BY AdapterView
<1> QED
  BY <1>1 DEF Pump!vars

\* A message that is queued is one that DispatchPump receives.
LEMMA QueuedStep ==
  ASSUME ProgramInv, ProgramInv', ~running,
         Len(queue') = Len(queue) + 1, received' = received + 1,
         last' = "DATA_REMAINS",
         dispatches' = dispatches + Count(last # "DATA_REMAINS" /\ built >= 5),
         UNCHANGED running,
         built' >= 5 <=> built >= 5, pc' = pc
  PROVE  Pump!Receive
<1>1. AdapterState' = AdapterState /\ Exists("adapter")' = Exists("adapter")
  BY AdapterView
<1>2. Exists("adapter") <=> built >= 5
  BY AdapterView
<1>3. received < MaxReceived + 3
  BY MaxReceivedAssumption DEF ProgramInv, TypeOK, ReceivedOK, Count
<1>4. "DATA_REMAINS" \in Pump!StatusOf(Len(queue) + 1)
  BY DEF Pump!StatusOf, ProgramInv, TypeOK
<1>5. dispatches' = dispatches + Pump!Reported("DATA_REMAINS", Exists("adapter"))
  BY <1>2 DEF Pump!Reported, Pump!OnDispatchState, Pump!Count, Count
<1>6. Pump!Remember("DATA_REMAINS")
  BY DEF Pump!Remember, Pump!Count
<1> QED
  BY <1>1, <1>3, <1>4, <1>5, <1>6 DEF Pump!Receive, Pump!Alive, Pump!Count

\* do_dispatch() begins as it does in DispatchPump.
LEMMA BeginStep ==
  ASSUME TypeOK, NEW before \in Nat, BeginDispatch(before), ~running
  PROVE  Pump!BeginDispatch(before)
<1>1. CASE queue # <<>>
  <2>1. /\ Len(queue') = Len(queue) - 1
        /\ running' = TRUE /\ last' = last /\ dispatches' = before
    BY <1>1, BeginDispatchTakes
  <2>2. Len(queue) # 0
    BY <1>1 DEF TypeOK
  <2>3. "DATA_REMAINS" \in Pump!StatusOf(Len(queue))
    BY <2>2 DEF Pump!StatusOf
  <2> QED
    BY <2>1, <2>3 DEF Pump!BeginDispatch
<1>2. CASE queue = <<>>
  <2>1. /\ Len(queue) = 0 /\ Len(queue') = Len(queue)
        /\ running' = running /\ last' = "COMPLETE" /\ dispatches' = before
    BY <1>2, BeginDispatchTakes
  <2>2. "COMPLETE" \in Pump!StatusOf(Len(queue))
    BY <2>1 DEF Pump!StatusOf
  <2>3. Pump!Remember("COMPLETE")
    BY <2>1 DEF Pump!Remember, Pump!Count
  <2>4. before + Pump!Reported("COMPLETE", TRUE) + Pump!Returned("COMPLETE") = before
    BY DEF Pump!Reported, Pump!Returned, Pump!OnDispatchState, Pump!Count
  <2> QED
    BY <2>1, <2>2, <2>3, <2>4 DEF Pump!BeginDispatch
<1> QED
  BY <1>1, <1>2

LEMMA ConstructStep ==
  ASSUME ProgramInv, ProgramInv', Construct
  PROVE  [Pump!Next]_(Pump!vars)
<1>1. CASE ConstructAdapter
  <2>1. /\ pc = "build" /\ built = 4 /\ built' = 5 /\ ~running /\ TypeOK
        /\ received' = received
    BY <1>1, ConstructsNext, DeclaredOrder DEF ConstructAdapter, ProgramInv
  <2>2. /\ AdapterState = "absent" /\ AdapterState' = "live" /\ Exists("adapter")' = TRUE
    BY <2>1, AdapterView
  <2>3. Pump!BeginDispatch(dispatches)
    <3>1. CASE link = "none"
      <4>1. /\ Len(queue) = 0 /\ Len(queue') = Len(queue) /\ running' = running
            /\ last' = "COMPLETE" /\ dispatches' = dispatches /\ dispatches \in Nat
        BY <1>1, <3>1 DEF ConstructAdapter, ProgramInv, LinkOK, TypeOK
      <4>2. "COMPLETE" \in Pump!StatusOf(Len(queue))
        BY <4>1 DEF Pump!StatusOf
      <4>3. Pump!Remember("COMPLETE")
        BY <4>1 DEF Pump!Remember, Pump!Count
      <4>4. dispatches + Pump!Reported("COMPLETE", TRUE) + Pump!Returned("COMPLETE")
              = dispatches
        BY <4>1 DEF Pump!Reported, Pump!Returned, Pump!OnDispatchState, Pump!Count
      <4> QED
        BY <4>1, <4>2, <4>3, <4>4 DEF Pump!BeginDispatch
    <3>2. CASE link # "none"
      <4>1. dispatches \in Nat /\ BeginDispatch(dispatches)
        BY <1>1, <2>1, <3>2 DEF ConstructAdapter, TypeOK
      <4> QED
        BY <2>1, <4>1, BeginStep
    <3> QED
      BY <3>1, <3>2
  <2> QED
    BY <2>1, <2>2, <2>3 DEF Pump!Next, Pump!Construct, Pump!Alive
<1>2. CASE ConstructPlain
  <2>1. /\ built \in {0, 1, 2, 5, 7} /\ built' = built + 1 /\ pc = "build" /\ pc' = "build"
        /\ UNCHANGED <<queue, received, last, dispatches, running>>
    BY <1>2, ConstructsNext, DeclaredOrder DEF ConstructPlain, Plain, conn, reactor
  <2> QED
    BY <2>1, UnseenStep
<1>3. CASE OpenPrivate \/ Call \/ CallFails \/ ConnectSlot
  <2>1. /\ built \in {3, 6, 8} /\ built' = built + 1 /\ pc = "build"
        /\ pc' = "build" \/ built = 8
        /\ UNCHANGED <<queue, received, last, dispatches, running>>
    BY <1>3, ConstructsNext, DeclaredOrder
    DEF OpenPrivate, Call, CallFails, ConnectSlot, conn, reactor
  <2> QED
    BY <2>1, UnseenStep
<1> QED
  BY <1>1, <1>2, <1>3 DEF Construct

LEMMA DestroyStep ==
  ASSUME ProgramInv, ProgramInv', Destroy
  PROVE  [Pump!Next]_(Pump!vars)
<1>1. CASE DestroyPlain \/ DestroyConnection \/ DestroyReply
  <2>1. /\ built \in {1, 2, 3, 6, 7, 8, 9} /\ built' = built - 1
        /\ pc = "unwind" /\ pc' # "build"
        /\ UNCHANGED <<queue, received, last, dispatches, running>>
    BY <1>1, DestroysLast, DeclaredOrder
    DEF DestroyPlain, Plain, DestroyConnection, DestroyReply, conn, reactor
  <2> QED
    BY <2>1, UnseenStep
<1>2. CASE DestroyAdapter
  <2>1. /\ pc' = "unwind" /\ built = 5 /\ built' = 4
        /\ UNCHANGED <<queue, received, last, dispatches, running>>
    BY <1>2, DestroysLast, DeclaredOrder DEF DestroyAdapter, reactor
  <2>2. AdapterState = "live" /\ AdapterState' = "deleted" /\ Exists("adapter")' = FALSE
    BY <2>1, AdapterView
  <2> QED
    BY <2>1, <2>2 DEF Pump!Next, Pump!Delete, Pump!Alive
<1>3. CASE DestroyConn
  <2>1. /\ built = 4 /\ built' = 3 /\ pc = "unwind" /\ pc' = "unwind" /\ ~running
        /\ UNCHANGED running
    BY <1>3, DestroyConnStep
  <2>2. CASE link = "open"
    <3>1. TypeOK /\ Enqueue("signal") /\ "signal" \in Kinds
      BY <1>3, <2>2, DestroyConnStep DEF ProgramInv, Kinds
    <3> QED
      BY <2>1, <3>1, EnqueueAppends, QueuedStep DEF Pump!Next
  <2>3. CASE link = "closed"
    BY <1>3, <2>1, <2>3, DestroyConnStep, UnseenStep
  <2> QED
    BY <1>3, <2>2, <2>3, DestroyConnStep
<1> QED
  BY <1>1, <1>2, <1>3 DEF Destroy

LEMMA ReactorStep ==
  ASSUME ProgramInv, ProgramInv',
         EndDispatch \/ RunDispatch \/ TimerDue \/ WatchReady \/ Disconnect
  PROVE  Pump!Next
<1>1. CASE EndDispatch
  <2>1. /\ running /\ running' = FALSE /\ built >= 5 /\ built' = built /\ TypeOK
        /\ last' = StatusOf(queue) /\ UNCHANGED <<queue, received>>
        /\ dispatches' = dispatches + Reported(queue) + OnDispatchState(StatusOf(queue))
    BY <1>1 DEF EndDispatch, ProgramInv, PhasesOK, main
  <2>2. /\ AdapterState = "live" /\ AdapterState' = "live"
        /\ Exists("adapter") = TRUE /\ Exists("adapter")' = TRUE
    BY <2>1, AdapterView
  <2>3. /\ StatusOf(queue) \in Pump!StatusOf(Len(queue))
        /\ StatusOf(queue) # "NEED_MEMORY"
    BY <2>1 DEF StatusOf, Pump!StatusOf, TypeOK
  <2>4. Pump!Remember(StatusOf(queue))
    BY <2>1, <2>3 DEF Pump!Remember, Pump!Count
  <2>5. dispatches' = dispatches + Pump!Reported(StatusOf(queue), Exists("adapter"))
                        + Pump!Count(AdapterState = "live") * Pump!Returned(StatusOf(queue))
    BY <2>1, <2>2
    DEF Reported, OnDispatchState, Count, Pump!Reported, Pump!Returned,
        Pump!OnDispatchState, Pump!Count, TypeOK
  <2>6. Pump!EndDispatch
    BY <2>1, <2>2, <2>3, <2>4, <2>5 DEF Pump!EndDispatch, Pump!Alive
  <2> QED
    BY <2>6 DEF Pump!Next
<1>2. CASE RunDispatch
  <2>1. /\ TypeOK /\ ~running /\ built = 9 /\ built' = 9
        /\ dispatches > 0 /\ dispatches - 1 \in Nat /\ BeginDispatch(dispatches - 1)
        /\ UNCHANGED received
    BY <1>2, InLoop DEF RunDispatch, ProgramInv, TypeOK
  <2>2. /\ AdapterState = "live" /\ AdapterState' = "live"
        /\ Exists("adapter") = TRUE /\ Exists("adapter")' = TRUE
    BY <2>1, AdapterView
  <2>3. Pump!BeginDispatch(dispatches - 1)
    BY <2>1, BeginStep
  <2>4. Pump!RunPosted
    BY <2>1, <2>2, <2>3 DEF Pump!RunPosted, Pump!Alive
  <2> QED
    BY <2>4 DEF Pump!Next
<1>3. CASE TimerDue \/ WatchReady \/ Disconnect
  <2>1. /\ ~running /\ pc' = pc /\ built' = built /\ TypeOK /\ UNCHANGED running
    BY <1>3 DEF TimerDue, WatchReady, Disconnect, InReactor, main, ProgramInv
  <2>2. PICK kind \in Kinds : Enqueue(kind)
    BY <1>3 DEF TimerDue, WatchReady, Disconnect, Kinds, Answers
  <2> QED
    BY <2>1, <2>2, EnqueueAppends, QueuedStep DEF Pump!Next
<1> QED
  BY <1>1, <1>2, <1>3

LEMMA RestStep ==
  ASSUME ProgramInv, ProgramInv',
         LeaveLoop \/ (\E h \in Handles : RunPosted(h)) \/ UNCHANGED vars
  PROVE  UNCHANGED Pump!vars
<1>1. CASE LeaveLoop \/ (\E h \in Handles : RunPosted(h))
  <2>1. /\ built = 9 /\ built' = built
        /\ UNCHANGED <<queue, received, last, dispatches, running>>
    BY <1>1, InLoop DEF LeaveLoop, RunPosted, main, conn, reactor
  <2> QED
    BY <2>1, UnseenStep
<1>2. CASE UNCHANGED vars
  BY <1>2, UnseenStep DEF vars, main, conn, reactor
<1> QED
  BY <1>1, <1>2

\* The program, its peer and its timers do to the queue, the closures and the
\* adapter what DispatchPump says: every step is one of that module or is not
\* seen there.  No message in a handler and no shortage of memory is needed.
THEOREM ProgramImplementsPump == Spec => ImplementsPump
<1>1. Init => Pump!Init
  <2> SUFFICES ASSUME Init PROVE Pump!Init
    OBVIOUS
  <2>1. AdapterState = "absent" /\ Exists("adapter") = FALSE
    BY DeclaredOrder DEF Init, Exists, AdapterState
  <2>2. Len(queue) = 0
    BY DEF Init
  <2> QED
    BY <2>1, <2>2 DEF Init, Pump!Init
<1>2. ProgramInv /\ ProgramInv' /\ [Next]_vars => [Pump!Next]_(Pump!vars)
  BY ConstructStep, DestroyStep, ReactorStep, RestStep DEF Next
<1> QED
  BY <1>1, <1>2, ProgramInvariance, PTL DEF Spec, ImplementsPump, Pump!Spec

\* What DispatchPumpProofs has proved, said of this program.
Proved == INSTANCE DispatchPumpProofs WITH
  MaxMessages <- MaxReceived + 3,
  MaxShortages <- 0,
  adapter <- AdapterState,
  listening <- Exists("adapter"),
  queue <- Len(queue),
  shortages <- 0,
  posted <- dispatches,
  busy <- running,
  nested <- 0,
  fault <- "none"

\* One closure takes the messages that wait: while the adapter exists there is
\* one when there are messages and no handler runs, and there are never two.
OneClosureTakesAll ==
  /\ Exists("adapter") /\ ~running /\ queue # <<>> => dispatches > 0
  /\ dispatches <= 1

\* In the program no message is stranded, and closures do not pile up in the
\* reactor: whatever main() does not check and however the peer and the
\* timeout interleave with the closures.  Follows from the two theorems about
\* DispatchPump by the refinement.
THEOREM MessagesAreNotStranded == Spec => []OneClosureTakesAll
<1>1. Proved!BoundsAssumption
  BY MaxReceivedAssumption DEF Proved!BoundsAssumption
<1>2. Spec => Proved!Spec
  <2>1. Pump!Init => Proved!Init
    BY DEF Pump!Init, Proved!Init
  <2>2. [Pump!Next]_(Pump!vars) => [Proved!Next]_(Proved!vars)
    BY DEF Pump!Next, Pump!Receive, Pump!UpdateStatus, Pump!Construct, Pump!RunPosted,
           Pump!EndDispatch, Pump!Delete, Pump!BeginDispatch, Pump!Alive, Pump!StatusOf,
           Pump!Remember, Pump!Reported, Pump!Returned, Pump!OnDispatchState, Pump!Count,
           Pump!vars,
           Proved!Next, Proved!Receive, Proved!UpdateStatus, Proved!Construct,
           Proved!RunPosted, Proved!EndDispatch, Proved!Delete, Proved!BeginDispatch,
           Proved!Alive, Proved!StatusOf, Proved!Remember, Proved!Reported,
           Proved!Returned, Proved!OnDispatchState, Proved!Count, Proved!vars
  <2> QED
    BY <2>1, <2>2, ProgramImplementsPump, PTL DEF ImplementsPump, Pump!Spec, Proved!Spec
<1>3. Proved!Spec => []Proved!NoLostWakeup
  BY ONLY <1>1, Proved!NoWakeupIsLost
<1>4. Proved!Spec => []Proved!ClosuresBounded
  BY ONLY <1>1, Proved!ClosuresStayBounded
<1>5. ProgramInv /\ Proved!NoLostWakeup /\ Proved!ClosuresBounded => OneClosureTakesAll
  BY DEF Proved!NoLostWakeup, Proved!ClosuresBounded, Proved!Alive, AdapterState,
         OneClosureTakesAll, ProgramInv, TypeOK
<1> QED
  BY <1>2, <1>3, <1>4, <1>5, ProgramInvariance, PTL

-----------------------------------------------------------------------------
(***************************************************************************)
(* The second refinement: the one call of the program is a call as         *)
(* AsyncCall promises it.                                                  *)
(***************************************************************************)

CallPhase ==
  IF call = "none" THEN "idle" ELSE IF call = "cancelled" THEN "abandoned" ELSE call

OneCall == INSTANCE AsyncCall WITH
  Calls <- {"hello_reply"},
  phase <- [c \in {"hello_reply"} |-> CallPhase]

\* The arrows of AsyncCall.
LEMMA PhaseMoves ==
  ASSUME \/ CallPhase' = CallPhase
         \/ CallPhase = "idle" /\ CallPhase' = "waiting"
         \/ CallPhase = "waiting" /\ CallPhase' \in {"answered", "abandoned"}
  PROVE  [OneCall!Next]_([c \in {"hello_reply"} |-> CallPhase])
BY DEF OneCall!Next, OneCall!Issue, OneCall!Answer, OneCall!Abandon, OneCall!Move

\* The call of the program is made once and then either answered, once, or
\* abandoned, whatever answers come late or twice, and whether the slot, main()
\* or the lost connection lets go of it first.
THEOREM ProgramImplementsCall == Spec => OneCall!Spec
<1>1. Init => OneCall!Init
  BY DEF Init, OneCall!Init, CallPhase
<1>2. ProgramInv /\ [Next]_vars => [OneCall!Next]_([c \in {"hello_reply"} |-> CallPhase])
  <2> SUFFICES ASSUME ProgramInv, [Next]_vars
               PROVE  \/ CallPhase' = CallPhase
                      \/ CallPhase = "idle" /\ CallPhase' = "waiting"
                      \/ CallPhase = "waiting" /\ CallPhase' \in {"answered", "abandoned"}
    BY PhaseMoves
  <2>1. ASSUME call' = call
        PROVE  CallPhase' = CallPhase
    BY <2>1 DEF CallPhase
  <2>2. CASE Call
    <3>1. call = "none" /\ call' = "waiting"
      BY <2>2, ConstructsNext, DeclaredOrder DEF Call, ProgramInv, CallOK
    <3> QED
      BY <3>1 DEF CallPhase
  <2>3. CASE ConstructAdapter \/ RunDispatch
    <3>1. call' = call \/ (call = "waiting" /\ call' = "answered")
      BY <2>3 DEF ConstructAdapter, RunDispatch, BeginDispatch, Handled, Notifies
    <3> QED
      BY <3>1 DEF CallPhase
  <2>4. CASE DestroyConnection \/ DestroyReply
    <3>1. call' = call \/ (call = "waiting" /\ call' = "cancelled")
      BY <2>4 DEF DestroyConnection, DestroyReply, DropCall
    <3> QED
      BY <3>1 DEF CallPhase
  <2>5. CASE ConstructPlain \/ OpenPrivate \/ CallFails \/ ConnectSlot \/ LeaveLoop
    BY <2>1, <2>5
    DEF ConstructPlain, OpenPrivate, CallFails, ConnectSlot, LeaveLoop, pending
  <2>6. CASE DestroyPlain \/ DestroyAdapter \/ DestroyConn
    BY <2>1, <2>6 DEF DestroyPlain, DestroyAdapter, DestroyConn, pending
  <2>7. CASE EndDispatch \/ TimerDue \/ WatchReady \/ Disconnect
               \/ \E h \in Handles : RunPosted(h)
    BY <2>1, <2>7
    DEF EndDispatch, TimerDue, WatchReady, Disconnect, RunPosted, pending
  <2>8. CASE UNCHANGED vars
    BY <2>1, <2>8 DEF vars, pending
  <2> QED
    BY <2>2, <2>3, <2>4, <2>5, <2>6, <2>7, <2>8 DEF Next, Construct, Destroy
<1> QED
  BY <1>1, <1>2, ProgramInvariance, PTL DEF Spec, OneCall!Spec

=============================================================================
