------------------------- MODULE PendingCallProofs -------------------------
(***************************************************************************)
(* IInv of PendingCall is inductive, for any set of calls, any bounds and  *)
(* whether or not libdbus notifies late; the safety properties the runs    *)
(* check follow from it.  One lemma per action shows that the action keeps *)
(* IInv, with one step per conjunct the action disturbs and one step for   *)
(* the conjuncts that only speak of what the action leaves alone.          *)
(***************************************************************************)
EXTENDS PendingCall, TLAPS

\* The fields of a state that the steps below list as unchanged.
USE DEF wrapper, message, libdbus

\* No call was made yet, nothing is counted: the initial states satisfy IInv.
LEMMA InitIInv == Init => IInv
<1> SUFFICES ASSUME Init PROVE IInv
  OBVIOUS
<1>1. TypeOK
  BY DEF Init, TypeOK, States, Faults
<1>2. CountMatchesObject /\ RawMatchesWrapper /\ OutcomeMatchesEmission
  BY NoCallAssumption
     DEF Init, CountMatchesObject, RawMatchesWrapper, OutcomeMatchesEmission
<1>3. RawBalance /\ ReplyBalance /\ NoDangling /\ NotifyNeverAborts
  BY DEF Init, RawBalance, ReplyBalance, NoDangling, NotifyNeverAborts,
         LibdbusHolds, Count
<1> QED
  BY <1>1, <1>2, <1>3 DEF IInv

\* A message that arrives changes the queue and a timer, which only TypeOK
\* speaks of.
LEMMA QueueMessage ==
  ASSUME TypeOK, NEW c \in Calls, NEW kind \in Kinds,
         incoming' = Append(incoming, [call |-> c, kind |-> kind])
  PROVE  incoming' \in Seq(Message)
<1>1. [call |-> c, kind |-> kind] \in Message
  BY DEF Message
<1> QED
  BY <1>1 DEF TypeOK

\* A step that touches no object, message, raw call, count or fault keeps
\* every conjunct of IInv but TypeOK.
LEMMA QuietStep ==
  ASSUME IInv, TypeOK',
         UNCHANGED <<obj, refcnt, state, reply, error, retref, msgref, raw,
                     rawref, running, emitted, fault>>
  PROVE  IInv'
<1>1. (CountMatchesObject /\ RawMatchesWrapper /\ OutcomeMatchesEmission)'
  BY DEF IInv, CountMatchesObject, RawMatchesWrapper, OutcomeMatchesEmission
<1>2. (RawBalance /\ ReplyBalance /\ NoDangling /\ NotifyNeverAborts)'
  BY DEF IInv, RawBalance, ReplyBalance, NoDangling, NotifyNeverAborts,
         LibdbusHolds, Count
<1> QED
  BY <1>1, <1>2 DEF IInv

\* A peer may send an answer at any time.
LEMMA ArriveKeepsIInv ==
  ASSUME IInv, NEW c \in Calls, NEW kind \in Kinds, Arrive(c, kind)
  PROVE  IInv'
<1>1. incoming' \in Seq(Message)
  BY QueueMessage DEF IInv, Arrive
<1>2. TypeOK'
  BY <1>1 DEF IInv, TypeOK, Arrive
<1> QED
  BY <1>2, QuietStep DEF Arrive

LEMMA TimeoutKeepsIInv ==
  ASSUME IInv, NEW c \in Calls, Timeout(c)
  PROVE  IInv'
<1>1. incoming' \in Seq(Message)
  BY QueueMessage, ErrorNamesAssumption DEF IInv, Timeout, Kinds
<1>2. TypeOK'
  BY <1>1 DEF IInv, TypeOK, Timeout
<1> QED
  BY <1>2, QuietStep DEF Timeout

LEMMA DisconnectKeepsIInv ==
  ASSUME IInv, Disconnect
  PROVE  IInv'
<1>1. TypeOK'
  BY DEF IInv, TypeOK, Disconnect
<1> QED
  BY <1>1, QuietStep DEF Disconnect

\* call() creates an object with one reference and a raw call with two.
LEMMA CallKeepsIInv ==
  ASSUME IInv, NEW c \in Calls, Call(c)
  PROVE  IInv'
<1>1. TypeOK'
  BY DEF IInv, TypeOK, Call, Construct, States
<1>2. CountMatchesObject'
  BY DEF IInv, TypeOK, CountMatchesObject, Call, Construct
<1>3. RawMatchesWrapper'
  BY NoCallAssumption
     DEF IInv, TypeOK, RawMatchesWrapper, CountMatchesObject, Call, Construct
<1>4. OutcomeMatchesEmission'
  BY DEF IInv, TypeOK, OutcomeMatchesEmission, CountMatchesObject, Call, Construct
<1>5. RawBalance'
  <2>1. rawref'[c] = Count(obj'[c] = "live") + Count(LibdbusHolds(c)')
    BY DEF IInv, TypeOK, LibdbusHolds, Count, Call, Construct
  <2>2. ASSUME NEW d \in Calls, d # c
        PROVE  rawref'[d] = Count(obj'[d] = "live") + Count(LibdbusHolds(d)')
    BY <2>2 DEF IInv, TypeOK, RawBalance, LibdbusHolds, Count, Call, Construct
  <2> QED
    BY <2>1, <2>2 DEF RawBalance, LibdbusHolds
<1>6. (ReplyBalance /\ NoDangling /\ NotifyNeverAborts)'
  BY DEF IInv, TypeOK, ReplyBalance, NoDangling, NotifyNeverAborts, Count, Call, Construct
<1> QED
  BY <1>1, <1>2, <1>3, <1>4, <1>5, <1>6 DEF IInv

\* A failed assertion of call() or of the constructor ends the process.
LEMMA CallFailsKeepsIInv ==
  ASSUME IInv, NEW c \in Calls, CallFails(c)
  PROVE  IInv'
<1>1. TypeOK'
  BY DEF IInv, TypeOK, CallFails, Faults
<1>2. (CountMatchesObject /\ RawMatchesWrapper /\ OutcomeMatchesEmission)'
  BY DEF IInv, CountMatchesObject, RawMatchesWrapper, OutcomeMatchesEmission,
         CallFails
<1>3. (RawBalance /\ ReplyBalance /\ NoDangling /\ NotifyNeverAborts)'
  BY DEF IInv, RawBalance, ReplyBalance, NoDangling, NotifyNeverAborts,
         LibdbusHolds, Count, CallFails
<1> QED
  BY <1>1, <1>2, <1>3 DEF IInv

LEMMA AddRefKeepsIInv ==
  ASSUME IInv, NEW c \in Calls, AddRef(c)
  PROVE  IInv'
<1>1. TypeOK'
  <2>1. refcnt' \in [Calls -> Nat]
    BY DEF IInv, TypeOK, AddRef
  <2> QED
    BY <2>1 DEF IInv, TypeOK, AddRef
<1>2. CountMatchesObject'
  <2>1. ASSUME NEW d \in Calls
        PROVE  (obj'[d] = "live") <=> (refcnt'[d] > 0)
    BY DEF IInv, TypeOK, CountMatchesObject, AddRef
  <2> QED
    BY <2>1 DEF IInv, CountMatchesObject, AddRef
<1>3. (RawMatchesWrapper /\ OutcomeMatchesEmission)'
  BY DEF IInv, RawMatchesWrapper, OutcomeMatchesEmission, AddRef
<1>4. (RawBalance /\ ReplyBalance /\ NoDangling /\ NotifyNeverAborts)'
  BY DEF IInv, RawBalance, ReplyBalance, NoDangling, NotifyNeverAborts,
         LibdbusHolds, Count, AddRef
<1> QED
  BY <1>1, <1>2, <1>3, <1>4 DEF IInv

\* What dbus_pending_call_cancel() does to the raw call: only a call in the
\* table of unanswered calls changes, and it yields the reference it gives
\* up.
LEMMA CancelRaw ==
  ASSUME NEW c \in Calls
  PROVE  /\ raw[c] # "attached" => AfterCancel(c) = raw[c] /\ CancelYields(c) = 0
         /\ raw[c] = "attached" =>
              \/ c \in LateCalls /\ AfterCancel(c) = "late" /\ CancelYields(c) = 0
              \/ AfterCancel(c) = "detached" /\ CancelYields(c) = 1
BY DEF AfterCancel, CancelYields, Count

LEMMA CancelKeepsIInv ==
  ASSUME IInv, NEW c \in Calls, Cancel(c)
  PROVE  IInv'
<1>1. TypeOK'
  <2>1. /\ AfterCancel(c) \in {"none", "attached", "late", "dispatching", "detached"}
        /\ CancelYields(c) \in Int
    BY CancelRaw DEF IInv, TypeOK
  <2>2. raw' \in [Calls -> {"none", "attached", "late", "dispatching", "detached"}]
    BY <2>1 DEF IInv, TypeOK, Cancel
  <2>3. rawref' \in [Calls -> Int]
    BY <2>1 DEF IInv, TypeOK, Cancel
  <2> QED
    BY <2>2, <2>3 DEF IInv, TypeOK, States, Cancel
<1>2. CountMatchesObject'
  BY CancelRaw DEF IInv, TypeOK, CountMatchesObject, Cancel
<1>3. RawMatchesWrapper'
  BY CancelRaw, NoCallAssumption DEF IInv, TypeOK, RawMatchesWrapper, Cancel
<1>4. OutcomeMatchesEmission'
  BY CancelRaw DEF IInv, TypeOK, OutcomeMatchesEmission, Cancel
<1>5. RawBalance'
  <2>1. rawref'[c] = Count(obj'[c] = "live") + Count(LibdbusHolds(c)')
    <3>1. /\ obj[c] = "live" /\ obj'[c] = "live"
          /\ raw'[c] = AfterCancel(c)
          /\ rawref'[c] = rawref[c] - CancelYields(c)
          /\ rawref[c] = 1 + Count(LibdbusHolds(c))
      BY DEF IInv, TypeOK, RawBalance, Count, Cancel
    <3> QED
      BY <3>1, CancelRaw DEF LibdbusHolds, Count
  <2>2. ASSUME NEW d \in Calls, d # c
        PROVE  rawref'[d] = Count(obj'[d] = "live") + Count(LibdbusHolds(d)')
    BY <2>2 DEF IInv, TypeOK, RawBalance, LibdbusHolds, Count, Cancel
  <2> QED
    BY <2>1, <2>2 DEF RawBalance, LibdbusHolds
<1>6. (ReplyBalance /\ NoDangling /\ NotifyNeverAborts)'
  BY DEF IInv, TypeOK, ReplyBalance, NoDangling, NotifyNeverAborts, Count, Cancel
<1> QED
  BY <1>1, <1>2, <1>3, <1>4, <1>5, <1>6 DEF IInv

\* ~pending_call() of the last reference, and a release that is not the last.
LEMMA ReleaseKeepsIInv ==
  ASSUME IInv, NEW c \in Calls, Release(c)
  PROVE  IInv'
<1>1. CASE refcnt[c] > 1
  <2> USE <1>1
  <2>1. TypeOK'
    BY DEF IInv, TypeOK, Release
  <2>2. CountMatchesObject'
    <3>1. ASSUME NEW d \in Calls
          PROVE  (obj'[d] = "live") <=> (refcnt'[d] > 0)
      BY DEF IInv, TypeOK, CountMatchesObject, Release
    <3> QED
      BY <3>1 DEF IInv, CountMatchesObject, Release
  <2>3. (RawMatchesWrapper /\ OutcomeMatchesEmission)'
    BY DEF IInv, RawMatchesWrapper, OutcomeMatchesEmission, Release
  <2>4. (RawBalance /\ ReplyBalance /\ NoDangling /\ NotifyNeverAborts)'
    BY DEF IInv, RawBalance, ReplyBalance, NoDangling, NotifyNeverAborts,
           LibdbusHolds, Count, Release
  <2> QED
    BY <2>1, <2>2, <2>3, <2>4 DEF IInv
<1>2. CASE refcnt[c] = 1
  <2>1. Alive /\ Destroy(c) /\ refcnt' = [refcnt EXCEPT ![c] = 0] /\ obj[c] = "live"
        /\ UNCHANGED <<connected, incoming, running, emitted, fault>>
    BY <1>2 DEF Release
  <2>2. TypeOK'
    <3>1. /\ AfterCancel(c) \in {"none", "attached", "late", "dispatching", "detached"}
          /\ CancelYields(c) \in Int
      BY CancelRaw DEF IInv, TypeOK
    <3>2. raw' \in [Calls -> {"none", "attached", "late", "dispatching", "detached"}]
      BY <2>1, <3>1 DEF IInv, TypeOK, Destroy
    <3>3. rawref' \in [Calls -> Int]
      BY <2>1, <3>1 DEF IInv, TypeOK, Destroy
    <3>4. retref' \in [Calls -> Nat] /\ msgref' \in [Calls -> Int]
      BY <2>1 DEF IInv, TypeOK, ReplyBalance, Destroy, DropMessage, Count
    <3>5. state' \in [Calls -> States] /\ error' \in [Calls -> {"unset"} \cup ErrorNames]
      BY <2>1 DEF IInv, TypeOK, States, Destroy
    <3> QED
      BY <2>1, <3>2, <3>3, <3>4, <3>5 DEF IInv, TypeOK, Destroy
  <2>3. CountMatchesObject'
    <3>1. raw'[c] # "none" /\ obj'[c] = "deleted" /\ refcnt'[c] = 0
      BY <2>1, CancelRaw DEF IInv, TypeOK, CountMatchesObject, Destroy
    <3>2. ASSUME NEW d \in Calls, d # c
          PROVE  /\ UNCHANGED <<obj[d], refcnt[d], raw[d], state[d], reply[d],
                               error[d], retref[d], emitted[d]>>
      BY <2>1, <3>2 DEF IInv, TypeOK, Destroy, DropMessage
    <3> QED
      BY <3>1, <3>2 DEF IInv, CountMatchesObject
  <2>4. RawMatchesWrapper'
    BY <2>1, CancelRaw, NoCallAssumption DEF IInv, TypeOK, RawMatchesWrapper, Destroy
  <2>5. OutcomeMatchesEmission'
    <3>1. /\ state'[c] = "CANCELED" /\ ~reply'[c] /\ error'[c] = "unset"
          /\ emitted'[c] = emitted[c]
          /\ retref'[c] = retref[c] - Count(reply[c])
          /\ raw'[c] = AfterCancel(c)
      BY <2>1 DEF IInv, TypeOK, Destroy, DropMessage
    <3>2. ASSUME NEW d \in Calls, d # c
          PROVE  /\ UNCHANGED <<raw[d], state[d], reply[d], error[d], retref[d], emitted[d]>>
      BY <2>1, <3>2 DEF IInv, TypeOK, Destroy, DropMessage
    <3> QED
      <4>1. ASSUME emitted[c] > 0
            PROVE  raw'[c] \in {"dispatching", "detached"}
        BY <3>1, <4>1, CancelRaw DEF IInv, OutcomeMatchesEmission
      <4>2. ASSUME emitted[c] = 0
            PROVE  retref'[c] = 0
        BY <3>1, <4>2 DEF IInv, OutcomeMatchesEmission, Count
      <4> QED
        BY <3>1, <3>2, <4>1, <4>2 DEF IInv, OutcomeMatchesEmission
  <2>6. RawBalance'
    <3>1. rawref'[c] = Count(obj'[c] = "live") + Count(LibdbusHolds(c)')
      <4>1. /\ obj'[c] = "deleted"
            /\ raw'[c] = AfterCancel(c)
            /\ rawref'[c] = rawref[c] - CancelYields(c) - 1
            /\ rawref[c] = 1 + Count(LibdbusHolds(c))
        BY <2>1 DEF IInv, TypeOK, RawBalance, Count, Destroy
      <4> QED
        BY <4>1, CancelRaw DEF LibdbusHolds, Count
    <3>2. ASSUME NEW d \in Calls, d # c
          PROVE  rawref'[d] = Count(obj'[d] = "live") + Count(LibdbusHolds(d)')
      BY <2>1, <3>2 DEF IInv, TypeOK, RawBalance, LibdbusHolds, Count, Destroy
    <3> QED
      BY <3>1, <3>2 DEF RawBalance, LibdbusHolds
  <2>7. ReplyBalance'
    <3>1. msgref'[c] = Count(retref'[c] > 0) /\ ~reply'[c]
      BY <2>1 DEF IInv, TypeOK, ReplyBalance, Count, Destroy, DropMessage
    <3>2. ASSUME NEW d \in Calls, d # c
          PROVE  UNCHANGED <<obj[d], reply[d], retref[d], msgref[d]>>
      BY <2>1, <3>2 DEF IInv, TypeOK, Destroy, DropMessage
    <3> QED
      BY <3>1, <3>2 DEF IInv, ReplyBalance
  <2>8. (NoDangling /\ NotifyNeverAborts)'
    BY <2>1 DEF IInv, NoDangling, NotifyNeverAborts, Alive
  <2> QED
    BY <2>2, <2>3, <2>4, <2>5, <2>6, <2>7, <2>8 DEF IInv
<1> QED
  BY <1>1, <1>2 DEF Release

LEMMA TakeReplyKeepsIInv ==
  ASSUME IInv, NEW c \in Calls, TakeReply(c)
  PROVE  IInv'
<1>1. TypeOK'
  BY DEF IInv, TypeOK, TakeReply
<1>2. CountMatchesObject'
  BY DEF IInv, TypeOK, CountMatchesObject, TakeReply
<1>3. (RawMatchesWrapper /\ OutcomeMatchesEmission)'
  BY DEF IInv, TypeOK, RawMatchesWrapper, OutcomeMatchesEmission, TakeReply
<1>4. ReplyBalance'
  BY DEF IInv, TypeOK, ReplyBalance, Count, TakeReply
<1>5. (RawBalance /\ NoDangling /\ NotifyNeverAborts)'
  BY DEF IInv, RawBalance, NoDangling, NotifyNeverAborts, LibdbusHolds, Count,
         TakeReply
<1> QED
  BY <1>1, <1>2, <1>3, <1>4, <1>5 DEF IInv

LEMMA DropReplyKeepsIInv ==
  ASSUME IInv, NEW c \in Calls, DropReply(c)
  PROVE  IInv'
<1>0. retref[c] > 0 /\ (reply[c] => retref[c] > 1)
  BY DEF IInv, TypeOK, DropReply, Count
<1>1. TypeOK'
  <2>1. retref' \in [Calls -> Nat] /\ msgref' \in [Calls -> Int]
    BY <1>0 DEF IInv, TypeOK, DropReply, DropMessage, Count
  <2> QED
    BY <2>1 DEF IInv, TypeOK, DropReply
<1>2. CountMatchesObject'
  BY <1>0 DEF IInv, TypeOK, CountMatchesObject, DropReply, DropMessage
<1>3. (RawMatchesWrapper /\ OutcomeMatchesEmission)'
  BY <1>0 DEF IInv, TypeOK, RawMatchesWrapper, OutcomeMatchesEmission, DropReply,
              DropMessage
<1>4. ReplyBalance'
  BY <1>0 DEF IInv, TypeOK, ReplyBalance, Count, DropReply, DropMessage
<1>5. (RawBalance /\ NoDangling /\ NotifyNeverAborts)'
  BY DEF IInv, RawBalance, NoDangling, NotifyNeverAborts, LibdbusHolds, Count,
         DropReply
<1> QED
  BY <1>1, <1>2, <1>3, <1>4, <1>5 DEF IInv

\* A message was taken from the queue and notify() ran, unless the message
\* answers no call libdbus knows.
LEMMA DispatchKeepsIInv ==
  ASSUME IInv, Dispatch
  PROVE  IInv'
<1>1. PICK c \in Calls, kind \in Kinds :
        /\ incoming' \in Seq(Message) /\ running = NoCall /\ fault = "none"
        /\ connected' = connected
        /\ \/ UNCHANGED <<wrapper, message, raw, rawref, timer, running, emitted, fault>>
           \/ raw[c] \in {"attached", "late"} /\ Notify(c, kind)
  <2> DEFINE m == Head(incoming)
  <2>1. m \in Message /\ incoming' \in Seq(Message)
    BY DEF IInv, TypeOK, Dispatch
  <2>2. m.call \in Calls /\ m.kind \in Kinds
    BY <2>1 DEF Message
  <2> QED
    BY <2>1, <2>2 DEF Dispatch, Alive
<1>2. CASE UNCHANGED <<wrapper, message, raw, rawref, timer, running, emitted, fault>>
  <2>1. TypeOK'
    BY <1>1, <1>2 DEF IInv, TypeOK
  <2> QED
    BY <1>2, <2>1, QuietStep
<1>3. CASE raw[c] \in {"attached", "late"} /\ NotifyDeleted(c)
  <2>1. c \in LateCalls /\ obj[c] = "deleted" /\ raw[c] = "late"
    BY <1>1, <1>3 DEF IInv, RawMatchesWrapper, NotifyDeleted
  <2>2. TypeOK'
    BY <1>1, <1>3 DEF IInv, TypeOK, NotifyDeleted, Faults
  <2>3. (CountMatchesObject /\ RawMatchesWrapper /\ OutcomeMatchesEmission)'
    BY <1>3 DEF IInv, CountMatchesObject, RawMatchesWrapper,
                OutcomeMatchesEmission, NotifyDeleted
  <2>4. (RawBalance /\ ReplyBalance /\ NoDangling /\ NotifyNeverAborts)'
    BY <1>3, <2>1 DEF IInv, RawBalance, ReplyBalance, NoDangling,
                      NotifyNeverAborts, LibdbusHolds, Count, NotifyDeleted
  <2> QED
    BY <2>2, <2>3, <2>4 DEF IInv
<1>4. CASE raw[c] \in {"attached", "late"} /\ NotifyCanceled(c)
  <2>1. raw[c] = "late" /\ state[c] = "CANCELED" /\ obj[c] = "live"
    BY <1>1, <1>4 DEF IInv, RawMatchesWrapper, NotifyCanceled, Silenced
  <2>2. TypeOK'
    BY <1>1, <1>4 DEF IInv, TypeOK, NotifyCanceled
  <2>3. CountMatchesObject'
    BY <1>1, <1>4, <2>1 DEF IInv, TypeOK, CountMatchesObject, NotifyCanceled
  <2>4. (RawMatchesWrapper /\ OutcomeMatchesEmission)'
    BY <1>1, <1>4, <2>1, NoCallAssumption
       DEF IInv, TypeOK, RawMatchesWrapper, OutcomeMatchesEmission, NotifyCanceled
  <2>5. RawBalance'
    <3>1. rawref'[c] = Count(obj'[c] = "live") + Count(LibdbusHolds(c)')
      BY <1>1, <1>4, <2>1
         DEF IInv, TypeOK, RawBalance, LibdbusHolds, Count, NotifyCanceled
    <3>2. ASSUME NEW d \in Calls, d # c
          PROVE  rawref'[d] = Count(obj'[d] = "live") + Count(LibdbusHolds(d)')
      BY <1>1, <1>4, <3>2
         DEF IInv, TypeOK, RawBalance, LibdbusHolds, Count, NotifyCanceled
    <3> QED
      BY <3>1, <3>2 DEF RawBalance, LibdbusHolds
  <2>6. (ReplyBalance /\ NoDangling /\ NotifyNeverAborts)'
    BY <1>4 DEF IInv, ReplyBalance, NoDangling, NotifyNeverAborts, Count,
                NotifyCanceled
  <2> QED
    BY <2>2, <2>3, <2>4, <2>5, <2>6 DEF IInv
<1>5. CASE raw[c] \in {"attached", "late"} /\ NotifyPending(c, kind)
  <2>1. /\ raw[c] = "attached" /\ state[c] = "PENDING" /\ obj[c] = "live"
        /\ emitted[c] = 0 /\ ~reply[c] /\ error[c] = "unset"
        /\ retref[c] = 0 /\ msgref[c] = 0
    <3>1. raw[c] = "attached" /\ state[c] = "PENDING" /\ obj[c] = "live"
      BY <1>5 DEF IInv, RawMatchesWrapper, NotifyPending, Silenced
    <3>2. emitted[c] = 0
      <4>1. ~(emitted[c] > 0)
        BY <3>1 DEF IInv, OutcomeMatchesEmission
      <4>2. emitted[c] \in Nat
        BY DEF IInv, TypeOK
      <4> QED
        BY <4>1, <4>2
    <3> QED
      BY <3>1, <3>2 DEF IInv, TypeOK, OutcomeMatchesEmission, ReplyBalance, Count
  <2>2. TypeOK'
    <3>1. /\ retref' \in [Calls -> Nat] /\ msgref' \in [Calls -> Int]
          /\ emitted' \in [Calls -> Nat]
      BY <1>1, <1>5 DEF IInv, TypeOK, NotifyPending, AdoptedRefs, Count
    <3>2. /\ error' \in [Calls -> {"unset"} \cup ErrorNames]
          /\ state' \in [Calls -> States]
          /\ reply' \in [Calls -> BOOLEAN]
      BY <1>1, <1>5 DEF IInv, TypeOK, NotifyPending, StateAfterNotify, States,
                        ErrorAfterNotify
    <3> QED
      BY <1>1, <1>5, <3>1, <3>2 DEF IInv, TypeOK, NotifyPending, Faults
  <2>3. CountMatchesObject'
    BY <1>1, <1>5, <2>1 DEF IInv, TypeOK, CountMatchesObject, NotifyPending
  <2>4. RawMatchesWrapper'
    BY <1>1, <1>5, <2>1, NoCallAssumption
       DEF IInv, TypeOK, RawMatchesWrapper, NotifyPending, StateAfterNotify
  <2>5. OutcomeMatchesEmission'
    BY <1>1, <1>5, <2>1, ErrorNamesAssumption
       DEF IInv, TypeOK, OutcomeMatchesEmission, NotifyPending,
           StateAfterNotify, ErrorAfterNotify
  <2>6. RawBalance'
    <3>1. rawref'[c] = Count(obj'[c] = "live") + Count(LibdbusHolds(c)')
      BY <1>1, <1>5, <2>1
         DEF IInv, TypeOK, RawBalance, LibdbusHolds, Count, NotifyPending
    <3>2. ASSUME NEW d \in Calls, d # c
          PROVE  rawref'[d] = Count(obj'[d] = "live") + Count(LibdbusHolds(d)')
      BY <1>1, <1>5, <3>2
         DEF IInv, TypeOK, RawBalance, LibdbusHolds, Count, NotifyPending
    <3> QED
      BY <3>1, <3>2 DEF RawBalance, LibdbusHolds
  <2>7. ReplyBalance'
    BY <1>1, <1>5, <2>1
       DEF IInv, TypeOK, ReplyBalance, NotifyPending, AdoptedRefs, Count
  <2>8. (NoDangling /\ NotifyNeverAborts)'
    BY <1>1, <1>5, <2>1 DEF NoDangling, NotifyNeverAborts, NotifyPending
  <2> QED
    BY <2>2, <2>3, <2>4, <2>5, <2>6, <2>7, <2>8 DEF IInv
<1> QED
  BY <1>1, <1>2, <1>3, <1>4, <1>5 DEF Notify

LEMMA NotifyReturnsKeepsIInv ==
  ASSUME IInv, NEW c \in Calls, NotifyReturns(c)
  PROVE  IInv'
<1>1. raw[c] = "dispatching"
  BY DEF IInv, RawMatchesWrapper, NotifyReturns
<1>2. TypeOK'
  BY DEF IInv, TypeOK, NotifyReturns
<1>3. CountMatchesObject'
  BY <1>1 DEF IInv, TypeOK, CountMatchesObject, NotifyReturns
<1>4. (RawMatchesWrapper /\ OutcomeMatchesEmission)'
  BY <1>1, NoCallAssumption
     DEF IInv, TypeOK, RawMatchesWrapper, OutcomeMatchesEmission, NotifyReturns
<1>5. RawBalance'
  <2>1. rawref'[c] = Count(obj'[c] = "live") + Count(LibdbusHolds(c)')
    BY <1>1 DEF IInv, TypeOK, RawBalance, LibdbusHolds, Count, NotifyReturns
  <2>2. ASSUME NEW d \in Calls, d # c
        PROVE  rawref'[d] = Count(obj'[d] = "live") + Count(LibdbusHolds(d)')
    BY <2>2 DEF IInv, TypeOK, RawBalance, LibdbusHolds, Count, NotifyReturns
  <2> QED
    BY <2>1, <2>2 DEF RawBalance, LibdbusHolds
<1>6. (ReplyBalance /\ NoDangling /\ NotifyNeverAborts)'
  BY DEF IInv, ReplyBalance, NoDangling, NotifyNeverAborts, Count, Alive, NotifyReturns
<1> QED
  BY <1>2, <1>3, <1>4, <1>5, <1>6 DEF IInv

\* IInv is an invariant: what libdbus will still do for a call always
\* follows from the state of its wrapper, and every reference is accounted
\* for.
THEOREM Invariance == Spec => []IInv
<1>1. Init => IInv
  BY InitIInv
<1>2. IInv /\ [Next]_vars => IInv'
  <2> SUFFICES ASSUME IInv, [Next]_vars PROVE IInv'
    OBVIOUS
  <2>1. ASSUME NEW c \in Calls, UserStep(c) PROVE IInv'
    BY <2>1, CallKeepsIInv, CallFailsKeepsIInv, AddRefKeepsIInv, ReleaseKeepsIInv,
       CancelKeepsIInv, TakeReplyKeepsIInv, DropReplyKeepsIInv DEF UserStep
  <2>2. ASSUME NEW c \in Calls, LibdbusStep(c) PROVE IInv'
    BY <2>2, ArriveKeepsIInv, TimeoutKeepsIInv, NotifyReturnsKeepsIInv
       DEF LibdbusStep
  <2>3. CASE UNCHANGED vars
    <3>1. TypeOK'
      BY <2>3 DEF IInv, TypeOK, vars
    <3> QED
      BY <2>3, <3>1, QuietStep DEF vars
  <2> QED
    BY <2>1, <2>2, <2>3, DisconnectKeepsIInv, DispatchKeepsIInv DEF Next
<1> QED
  BY <1>1, <1>2, PTL DEF Spec

\* The variables of the wrapper, the messages and the libdbus model keep
\* their types; the counters are never decremented below zero.
THEOREM TypeCorrect == Spec => []TypeOK
<1>1. IInv => TypeOK
  BY DEF IInv
<1> QED
  BY <1>1, Invariance, PTL

\* With a libdbus that never notifies a cancelled call, ~pending_call() is
\* enough: no notification reaches a deleted wrapper.
THEOREM WrapperOutlivesNotify == Spec => []NoDangling
<1>1. IInv => NoDangling
  BY DEF IInv
<1> QED
  BY <1>1, Invariance, PTL

\* The assertion in notify() never fails, whether libdbus notifies late or
\* not.
THEOREM PendingAssertionHolds == Spec => []NotifyNeverAborts
<1>1. IInv => NotifyNeverAborts
  BY DEF IInv
<1> QED
  BY <1>1, Invariance, PTL

\* No reference to a DBusPendingCall is leaked or given back twice: not by a
\* constructor that fails, nor by a cancel, a notification or a destructor, in
\* whatever order they come.
THEOREM ReferencesBalance == Spec => []RawBalance
<1>1. IInv => RawBalance
  BY DEF IInv
<1> QED
  BY <1>1, Invariance, PTL

\* A reply that was stolen from libdbus has the references that the wrapper and
\* the users of reply() hold, and is freed with the last of them.
THEOREM RepliesBalance == Spec => []ReplyBalance
<1>1. IInv => ReplyBalance
  BY DEF IInv
<1> QED
  BY <1>1, Invariance, PTL

\* What the slots of on_completion saw is final.
THEOREM OutcomeIsStable == Spec => OutcomeStable
<1> DEFINE Stable == \A c \in Calls :
      emitted[c] > 0 /\ obj'[c] = "live" =>
        /\ <<reply[c], error[c], emitted[c]>>' = <<reply[c], error[c], emitted[c]>>
        /\ ~(reply[c] /\ error[c] # "unset")
<1>1. IInv /\ [Next]_vars => [Stable]_vars
  <2> SUFFICES ASSUME IInv, Next, NEW d \in Calls, emitted[d] > 0, obj'[d] = "live"
               PROVE  /\ reply'[d] = reply[d] /\ error'[d] = error[d]
                      /\ emitted'[d] = emitted[d]
                      /\ ~(reply[d] /\ error[d] # "unset")
    OBVIOUS
  <2>1. ~(reply[d] /\ error[d] # "unset")
    BY DEF IInv, OutcomeMatchesEmission
  <2>2. raw[d] \notin {"attached", "late"} \/ (raw[d] = "late" /\ state[d] = "CANCELED")
    BY DEF IInv, OutcomeMatchesEmission
  <2>3. ASSUME NEW c \in Calls, Release(c)
        PROVE  reply'[d] = reply[d] /\ error'[d] = error[d] /\ emitted'[d] = emitted[d]
    BY <2>3 DEF IInv, TypeOK, Release, Destroy
  <2>4. ASSUME NEW c \in Calls, UserStep(c), ~Release(c)
        PROVE  reply'[d] = reply[d] /\ error'[d] = error[d] /\ emitted'[d] = emitted[d]
    BY <2>4 DEF UserStep, Call, Construct, CallFails, AddRef, Cancel, TakeReply, DropReply
  <2>5. ASSUME NEW c \in Calls, LibdbusStep(c)
        PROVE  reply'[d] = reply[d] /\ error'[d] = error[d] /\ emitted'[d] = emitted[d]
    BY <2>5 DEF LibdbusStep, Arrive, Timeout, NotifyReturns
  <2>6. ASSUME NEW c \in Calls, NEW kind \in Kinds, Notify(c, kind),
               raw[c] \in {"attached", "late"}
        PROVE  reply'[d] = reply[d] /\ error'[d] = error[d] /\ emitted'[d] = emitted[d]
    <3>1. CASE NotifyPending(c, kind)
      <4>1. c # d
        BY <2>2, <2>6, <3>1 DEF NotifyPending, Silenced
      <4> QED
        BY <3>1, <4>1 DEF IInv, TypeOK, NotifyPending
    <3> QED
      BY <2>6, <3>1 DEF Notify, NotifyDeleted, NotifyCanceled
  <2>7. CASE Dispatch
    <3>1. Head(incoming) \in Message
      BY <2>7 DEF IInv, TypeOK, Dispatch
    <3>2. Head(incoming).call \in Calls /\ Head(incoming).kind \in Kinds
      BY <3>1 DEF Message
    <3> QED
      BY <2>1, <2>6, <2>7, <3>2 DEF Dispatch
  <2>8. CASE Disconnect
    BY <2>1, <2>8 DEF Disconnect
  <2> QED
    BY <2>1, <2>3, <2>4, <2>5, <2>7, <2>8 DEF Next
<1> QED
  BY <1>1, Invariance, PTL DEF Spec, OutcomeStable

(***************************************************************************)
(* The wrapper implements AsyncCall                                        *)
(***************************************************************************)

\* A step that moves at most one call, and that along an edge of AsyncCall,
\* is a step of AsyncCall or a stuttering step.
LEMMA PhaseStep ==
  ASSUME NEW c \in Calls,
         \A d \in Calls \ {c} : Phase(d)' = Phase(d),
         \/ Phase(c)' = Phase(c)
         \/ Phase(c) = "idle" /\ Phase(c)' = "waiting"
         \/ Phase(c) = "waiting" /\ Phase(c)' \in {"answered", "abandoned"}
  PROVE  [Abstract!Next]_CallPhases
<1> DEFINE f == CallPhases
           g == CallPhases'
<1>1. CASE Phase(c)' = Phase(c)
  <2>1. g = f
    BY <1>1 DEF CallPhases
  <2> QED
    BY <2>1
<1>2. ASSUME NEW q, Phase(c)' = q
      PROVE  g = [f EXCEPT ![c] = q]
  BY <1>2 DEF CallPhases
<1>3. CASE Phase(c) = "idle" /\ Phase(c)' = "waiting"
  BY <1>2, <1>3 DEF Abstract!Next, Abstract!Issue, Abstract!Move, CallPhases
<1>4. CASE Phase(c) = "waiting" /\ Phase(c)' = "answered"
  BY <1>2, <1>4 DEF Abstract!Next, Abstract!Answer, Abstract!Move, CallPhases
<1>5. CASE Phase(c) = "waiting" /\ Phase(c)' = "abandoned"
  BY <1>2, <1>5 DEF Abstract!Next, Abstract!Abandon, Abstract!Move, CallPhases
<1> QED
  BY <1>1, <1>3, <1>4, <1>5

\* A call is issued once, answered at most once, and never answered after it
\* was cancelled or dropped.
THEOREM Refinement == Spec => ImplementsAsyncCall
<1>1. Init => Abstract!Init
  BY DEF Init, Abstract!Init, CallPhases, Phase
<1>2. IInv /\ [Next]_vars => [Abstract!Next]_CallPhases
  <2> SUFFICES ASSUME IInv, [Next]_vars
               PROVE  [Abstract!Next]_CallPhases
    OBVIOUS
  <2>1. ASSUME UNCHANGED <<obj, state, emitted>>
        PROVE  [Abstract!Next]_CallPhases
    BY <2>1 DEF CallPhases, Phase
  <2>2. ASSUME NEW c \in Calls, Call(c)
        PROVE  [Abstract!Next]_CallPhases
    <3>1. \A d \in Calls \ {c} : Phase(d)' = Phase(d)
      BY <2>2 DEF IInv, TypeOK, Call, Construct, Phase
    <3>2. Phase(c) = "idle" /\ Phase(c)' = "waiting"
      BY <2>2 DEF IInv, TypeOK, CountMatchesObject, Call, Construct, Phase
    <3> QED
      BY <3>1, <3>2, PhaseStep
  <2>3. ASSUME NEW c \in Calls, Cancel(c) \/ Release(c)
        PROVE  [Abstract!Next]_CallPhases
    <3>1. \A d \in Calls \ {c} : Phase(d)' = Phase(d)
      BY <2>3 DEF IInv, TypeOK, Cancel, Release, Destroy, Phase
    <3>2. \/ Phase(c)' = Phase(c)
          \/ Phase(c) = "waiting" /\ Phase(c)' = "abandoned"
      <4>1. /\ obj[c] = "live" /\ obj'[c] # "none" /\ emitted' = emitted
            /\ state'[c] = "CANCELED" \/ state'[c] = state[c]
        BY <2>3 DEF IInv, TypeOK, Cancel, Release, Destroy
      <4> QED
        BY <4>1 DEF Phase
    <3> QED
      BY <3>1, <3>2, PhaseStep
  <2>4. ASSUME NEW c \in Calls, NEW kind \in Kinds, NotifyPending(c, kind),
               raw[c] \in {"attached", "late"}
        PROVE  [Abstract!Next]_CallPhases
    <3>1. obj[c] = "live" /\ state[c] = "PENDING" /\ raw[c] = "attached"
      BY <2>4 DEF IInv, RawMatchesWrapper, NotifyPending, Silenced
    <3>2. emitted[c] \in Nat /\ ~(emitted[c] > 0)
      BY <3>1 DEF IInv, TypeOK, OutcomeMatchesEmission
    <3>3. \A d \in Calls \ {c} : Phase(d)' = Phase(d)
      BY <2>4 DEF IInv, TypeOK, NotifyPending, Phase
    <3>4. Phase(c) = "waiting"
      BY <3>1, <3>2 DEF Phase
    <3>5. Phase(c)' = "answered"
      <4>1. obj'[c] = "live" /\ emitted'[c] > 0
        BY <2>4, <3>1, <3>2 DEF IInv, TypeOK, NotifyPending
      <4> QED
        BY <4>1 DEF Phase
    <3> QED
      BY <3>3, <3>4, <3>5, PhaseStep
  <2>5. CASE Dispatch
    <3>1. Head(incoming) \in Message
      BY <2>5 DEF IInv, TypeOK, Dispatch
    <3>2. Head(incoming).call \in Calls /\ Head(incoming).kind \in Kinds
      BY <3>1 DEF Message
    <3> QED
      BY <2>1, <2>4, <2>5, <3>2
         DEF Dispatch, Notify, NotifyDeleted, NotifyCanceled, Phase
  <2>6. ASSUME NEW c \in Calls, UserStep(c)
        PROVE  [Abstract!Next]_CallPhases
    BY <2>1, <2>2, <2>3, <2>6 DEF UserStep, CallFails, AddRef, TakeReply, DropReply
  <2>7. ASSUME NEW c \in Calls, LibdbusStep(c)
        PROVE  [Abstract!Next]_CallPhases
    BY <2>1, <2>7 DEF LibdbusStep, Arrive, Timeout, NotifyReturns
  <2>8. CASE Disconnect \/ UNCHANGED vars
    BY <2>1, <2>8 DEF Disconnect, vars
  <2> QED
    BY <2>5, <2>6, <2>7, <2>8 DEF Next
<1> QED
  BY <1>1, <1>2, Invariance, PTL DEF Spec, ImplementsAsyncCall, Abstract!Spec

\* What AsyncCall promises of the two ends of a call, said of the wrapper: a
\* call that was answered is never answered again nor taken for cancelled, and
\* one that was cancelled or dropped while it waited is never answered, not by
\* a reply that was under way and not by its timeout.
THEOREM EndsAreFinal ==
  Spec => [][\A c \in Calls : Phase(c) \in {"answered", "abandoned"}
                                => Phase(c)' = Phase(c)]_vars
<1> DEFINE Final == \A c \in Calls : Phase(c) \in {"answered", "abandoned"}
                                       => Phase(c)' = Phase(c)
<1>1. [Abstract!Next]_CallPhases => Final
  <2> SUFFICES ASSUME [Abstract!Next]_CallPhases, NEW c \in Calls,
                      Phase(c) \in {"answered", "abandoned"}
               PROVE  Phase(c)' = Phase(c)
    OBVIOUS
  <2>1. CallPhases[c] = Phase(c) /\ CallPhases'[c] = Phase(c)'
    BY DEF CallPhases
  <2>2. CallPhases \in [Calls -> {Phase(d) : d \in Calls}]
    BY DEF CallPhases
  <2>3. CallPhases'[c] = CallPhases[c]
    BY <2>1, <2>2 DEF Abstract!Next, Abstract!Issue, Abstract!Answer,
                      Abstract!Abandon, Abstract!Move
  <2> QED
    BY <2>1, <2>3
<1> QED
  BY <1>1, Refinement, PTL DEF ImplementsAsyncCall, Abstract!Spec

=============================================================================
