---------------------------- MODULE MessagesProofs ----------------------------
(***************************************************************************)
(* The safety properties of Messages hold for any messages, readers,       *)
(* writers and bounds.  The counts alone are inductive but for a message   *)
(* that is made: nothing may point to it or wait for it before.  The       *)
(* iterators that were not copied hold the message they read.              *)
(***************************************************************************)
EXTENDS Messages, FiniteSetTheorems, TLAPS

\* The iterators that keep m.
Keepers(m) == {i \in live : msg_[i] = m}

\* The pointers to m that somebody has.
Pointers(m) == held[m] + Cardinality(Keepers(m))

\* libdbus writes messages that were made.
QueuedWereMade == \A m \in Objects : queued[m] > 0 => obj[m] # "none"

\* An iterator that exists points into a DBusMessage, one that does not into
\* none, and msg_ is what an iterator was made of unless it was copied.
ItersInPlace ==
  /\ copied \subseteq live
  /\ \A i \in live : at[i] # NoObject
  /\ \A i \in Iters \ live : msg_[i] = NoObject
  /\ \A i \in live \ copied : msg_[i] = at[i]

\* The inductive invariant.
MessagesInv ==
  /\ TypeOK
  /\ RawBalance
  /\ CountBalance
  /\ QueuedWereMade
  /\ ItersInPlace

-----------------------------------------------------------------------------

\* A message is kept by finitely many iterators.
LEMMA KeepersFinite ==
  ASSUME live \subseteq Iters, NEW m
  PROVE  IsFiniteSet(Keepers(m)) /\ Cardinality(Keepers(m)) \in Nat
BY FS_Subset, FS_CardinalityType, FiniteAssumption DEF Keepers

\* CountBalance, in terms of the pointers.
LEMMA PointersCounted ==
  CountBalance <=> \A m \in Objects : refcnt[m] = Pointers(m)
                                      /\ (obj[m] = "live" <=> refcnt[m] > 0)
BY DEF CountBalance, Pointers, Keepers

LEMMA InitMessagesInv == Init => MessagesInv
<1> SUFFICES ASSUME Init PROVE MessagesInv
  OBVIOUS
<1>1. CountBalance
  <2>1. \A m \in Objects : Pointers(m) = 0
    BY FS_EmptySet DEF Init, Pointers, Keepers
  <2> QED
    BY <2>1, PointersCounted DEF Init
<1>2. TypeOK /\ RawBalance /\ QueuedWereMade /\ ItersInPlace
  BY DEF Init, TypeOK, RawBalance, Count, QueuedWereMade, ItersInPlace
<1> QED
  BY <1>1, <1>2 DEF MessagesInv

\* A pointer to m goes, whoever had it: the message goes with the last, and
\* with the message its reference to the DBusMessage.
LEMMA DropKeepsBalance ==
  ASSUME MessagesInv, NEW m \in Objects, Drop(m, 1),
         Pointers(m) # 0, Pointers(m)' = Pointers(m) - 1,
         \A n \in Objects \ {m} : Pointers(n)' = Pointers(n),
         UNCHANGED queued
  PROVE  /\ obj' \in [Objects -> {"none", "live", "deleted"}]
         /\ refcnt' \in [Objects -> Nat] /\ rawref' \in [Objects -> Nat]
         /\ RawBalance' /\ CountBalance' /\ QueuedWereMade'
<1> USE DEF MessagesInv, Drop
<1>1. /\ refcnt[m] = Pointers(m) /\ refcnt[m] \in Nat \ {0} /\ obj[m] = "live"
      /\ rawref[m] = 1 + queued[m] /\ queued[m] \in Nat
  BY PointersCounted DEF TypeOK, RawBalance, Count
<1>2. /\ refcnt'[m] = refcnt[m] - 1
      /\ obj'[m] = IF refcnt[m] = 1 THEN "deleted" ELSE "live"
      /\ rawref'[m] = rawref[m] - Count(refcnt[m] = 1)
      /\ \A n \in Objects \ {m} :
           refcnt'[n] = refcnt[n] /\ obj'[n] = obj[n] /\ rawref'[n] = rawref[n]
  BY <1>1 DEF TypeOK, Count
<1>3. /\ obj' \in [Objects -> {"none", "live", "deleted"}]
      /\ refcnt' \in [Objects -> Nat] /\ rawref' \in [Objects -> Nat]
  BY <1>1, <1>2 DEF TypeOK, Count
<1>4. RawBalance'
  BY <1>1, <1>2 DEF RawBalance, Count
<1>5. CountBalance'
  <2>1. \A n \in Objects : refcnt'[n] = Pointers(n)' /\ (obj'[n] = "live" <=> refcnt'[n] > 0)
    BY <1>1, <1>2, PointersCounted
  <2> QED
    BY <2>1 DEF CountBalance, Pointers, Keepers
<1>6. QueuedWereMade'
  BY <1>1, <1>2 DEF QueuedWereMade, TypeOK
<1> QED
  BY <1>3, <1>4, <1>5, <1>6

\* A pointer to a message that is there.
LEMMA AddedPointer ==
  ASSUME MessagesInv, NEW m \in Objects, refcnt[m] \in Nat \ {0}, UNCHANGED obj,
         refcnt' = [refcnt EXCEPT ![m] = @ + 1],
         \A n \in Objects : Pointers(n)' = IF n = m THEN Pointers(n) + 1 ELSE Pointers(n)
  PROVE  CountBalance'
<1>1. \A n \in Objects : refcnt'[n] = Pointers(n)' /\ (obj'[n] = "live" <=> refcnt'[n] > 0)
  BY PointersCounted DEF MessagesInv, TypeOK
<1> QED
  BY <1>1 DEF CountBalance, Pointers, Keepers

\* A step that only ends the process, or does nothing.
LEMMA FaultKeepsInv ==
  ASSUME MessagesInv, fault' \in {fault, "freed_message", "null_message"},
         UNCHANGED <<obj, refcnt, rawref, held, queued, live, msg_, at, copied>>
  PROVE  MessagesInv'
BY DEF MessagesInv, TypeOK, RawBalance, CountBalance, QueuedWereMade, ItersInPlace

\* The message objects: what their creation, a copy of a pointer, one that goes,
\* and libdbus' reference do to the counts.
LEMMA MessageStepKeepsInv ==
  ASSUME MessagesInv, NEW m \in Objects, MessageStep(m)
  PROVE  MessagesInv'
<1> USE DEF MessagesInv
<1>1. CASE Create(m)
  <2> USE <1>1 DEF Create
  <2>1. refcnt[m] = 0 /\ held[m] = 0 /\ Cardinality(Keepers(m)) = 0 /\ queued[m] = 0
    BY PointersCounted, KeepersFinite DEF TypeOK, Pointers, QueuedWereMade
  <2>2. TypeOK' /\ RawBalance' /\ QueuedWereMade' /\ ItersInPlace'
    BY <2>1 DEF TypeOK, RawBalance, QueuedWereMade, ItersInPlace, Count
  <2>3. \A n \in Objects : Keepers(n)' = Keepers(n)
    BY DEF Keepers
  <2>4. \A n \in Objects : Pointers(n)' = IF n = m THEN 1 ELSE Pointers(n)
    <3>1. \A n \in Objects : held'[n] = IF n = m THEN 1 ELSE held[n]
      BY DEF TypeOK
    <3>2. m \in Objects /\ Cardinality(Keepers(m)) = 0
      BY <2>1
    <3> QED
      BY ONLY <2>3, <3>1, <3>2 DEF Pointers
  <2>5. CountBalance'
    BY <2>4, PointersCounted DEF CountBalance, Pointers, Keepers, TypeOK
  <2> QED
    BY <2>2, <2>5
<1>2. CASE AddRef(m)
  <2> USE <1>2 DEF AddRef
  <2>1. held[m] \in Nat \ {0} /\ refcnt[m] \in Nat \ {0}
    BY PointersCounted, KeepersFinite, FiniteAssumption DEF TypeOK, Pointers
  <2>2. TypeOK' /\ RawBalance' /\ QueuedWereMade' /\ ItersInPlace'
    BY <2>1 DEF TypeOK, RawBalance, QueuedWereMade, ItersInPlace
  <2>3. \A n \in Objects : Keepers(n)' = Keepers(n)
    BY DEF Keepers
  <2>4. \A n \in Objects : Pointers(n)' = IF n = m THEN Pointers(n) + 1 ELSE Pointers(n)
    BY <2>1, <2>3, KeepersFinite DEF Pointers, TypeOK
  <2>5. CountBalance'
    BY <2>1, <2>4, AddedPointer
  <2> QED
    BY <2>2, <2>5
<1>3. CASE Release(m)
  <2> USE <1>3 DEF Release
  <2>1. held[m] \in Nat \ {0}
    BY DEF TypeOK
  <2>0. \A n \in Objects : Keepers(n)' = Keepers(n)
    BY DEF Keepers
  <2>2. Pointers(m) # 0 /\ Pointers(m)' = Pointers(m) - 1
    BY <2>0, <2>1, KeepersFinite DEF Pointers, TypeOK
  <2>3. \A n \in Objects \ {m} : Pointers(n)' = Pointers(n)
    BY <2>0 DEF Pointers, TypeOK
  <2>4. /\ obj' \in [Objects -> {"none", "live", "deleted"}]
        /\ refcnt' \in [Objects -> Nat] /\ rawref' \in [Objects -> Nat]
        /\ RawBalance' /\ CountBalance' /\ QueuedWereMade'
    BY <2>2, <2>3, DropKeepsBalance
  <2>5. held' \in [Objects -> Nat]
    BY <2>1 DEF TypeOK
  <2> QED
    BY <2>4, <2>5 DEF TypeOK, ItersInPlace
<1>4. CASE Send(m) \/ Written(m)
  <2> USE <1>4 DEF Send, Written
  <2>1. rawref'[m] \in Nat /\ rawref'[m] = Count(obj[m] = "live") + queued'[m]
        /\ queued'[m] \in Nat
    BY DEF TypeOK, RawBalance, Count
  <2>2. obj[m] # "none"
    BY PointersCounted, KeepersFinite DEF Pointers, QueuedWereMade, TypeOK
  <2>3. TypeOK'
    BY <2>1 DEF TypeOK
  <2>4. RawBalance'
    BY <2>1 DEF TypeOK, RawBalance, Count
  <2>5. QueuedWereMade'
    BY <2>2 DEF QueuedWereMade, TypeOK
  <2>6. ItersInPlace' /\ CountBalance'
    BY DEF ItersInPlace, CountBalance
  <2> QED
    BY <2>3, <2>4, <2>5, <2>6
<1>5. CASE CreateFails(m)
  BY <1>5, FaultKeepsInv DEF CreateFails
<1> QED
  BY <1>1, <1>2, <1>3, <1>4, <1>5
  DEF MessageStep, CreateCall, CreateSignal, CreateReturn, CreateError

\* An iterator that is made of a message the user has keeps it.
LEMMA ConstructKeepsInv ==
  ASSUME MessagesInv, NEW i \in Iters, NEW m \in Objects, Construct(i, m)
  PROVE  MessagesInv'
<1> USE DEF MessagesInv, Construct
<1>1. held[m] \in Nat \ {0} /\ refcnt[m] \in Nat \ {0}
  BY PointersCounted, KeepersFinite DEF TypeOK, Pointers
<1>2. TypeOK' /\ RawBalance' /\ QueuedWereMade'
  BY <1>1 DEF TypeOK, RawBalance, QueuedWereMade
<1>3. ItersInPlace'
  BY NoObjectAssumption DEF ItersInPlace, TypeOK
<1>4. /\ Keepers(m)' = Keepers(m) \cup {i} /\ i \notin Keepers(m)
      /\ \A n \in Objects \ {m} : Keepers(n)' = Keepers(n)
  BY DEF Keepers, TypeOK
<1>5. \A n \in Objects : Pointers(n)' = IF n = m THEN Pointers(n) + 1 ELSE Pointers(n)
  <2>1. Cardinality(Keepers(m)') = Cardinality(Keepers(m)) + 1
    BY <1>4, KeepersFinite, FS_AddElement DEF TypeOK
  <2>2. held[m] \in Nat /\ Cardinality(Keepers(m)) \in Nat
    BY KeepersFinite DEF TypeOK
  <2>3. Pointers(m)' = Pointers(m) + 1
    BY <2>1, <2>2 DEF Pointers
  <2>4. \A n \in Objects \ {m} : Pointers(n)' = Pointers(n)
    BY <1>4 DEF Pointers
  <2> QED
    BY <2>3, <2>4
<1>6. CountBalance'
  BY <1>1, <1>5, AddedPointer
<1> QED
  BY <1>2, <1>3, <1>6

\* One that is copied keeps nothing, and one that is assigned to what it kept.
LEMMA CopyKeepsInv ==
  ASSUME MessagesInv, NEW i \in Iters, NEW o \in Iters, Copy(i, o) \/ Assign(i, o)
  PROVE  MessagesInv'
<1> USE DEF MessagesInv, Copy, Assign
<1>1. TypeOK' /\ RawBalance' /\ QueuedWereMade' /\ ItersInPlace'
  BY DEF TypeOK, RawBalance, QueuedWereMade, ItersInPlace
<1>2. \A n \in Objects : Keepers(n)' = Keepers(n)
  BY NoObjectAssumption DEF Keepers, TypeOK
<1>3. CountBalance'
  BY <1>2, PointersCounted DEF CountBalance, Pointers, Keepers
<1> QED
  BY <1>1, <1>3

\* One that goes gives up what it kept.
LEMMA DestroyKeepsInv ==
  ASSUME MessagesInv, NEW i \in Iters, Destroy(i)
  PROVE  MessagesInv'
<1> USE DEF MessagesInv, Destroy
<1>1. ItersInPlace'
  BY DEF ItersInPlace, TypeOK
<1>2. \A n \in Objects : Keepers(n)' = Keepers(n) \ {i}
  BY DEF Keepers, TypeOK
<1>3. CASE msg_[i] = NoObject /\ UNCHANGED <<obj, refcnt, rawref>>
  <2>1. \A n \in Objects : Keepers(n)' = Keepers(n)
    BY <1>2, <1>3, NoObjectAssumption DEF Keepers
  <2>2. CountBalance'
    BY <1>3, <2>1, PointersCounted DEF CountBalance, Pointers, Keepers
  <2> QED
    BY <1>1, <1>3, <2>2 DEF TypeOK, RawBalance, QueuedWereMade
<1>4. ASSUME NEW m \in Objects, msg_[i] = m, Drop(m, 1) PROVE MessagesInv'
  <2>1. i \in Keepers(m) /\ \A n \in Objects \ {m} : Keepers(n)' = Keepers(n)
    BY <1>2, <1>4 DEF Keepers
  <2>2. /\ Cardinality(Keepers(m)) # 0
        /\ Cardinality(Keepers(m)') = Cardinality(Keepers(m)) - 1
    BY <1>2, <2>1, KeepersFinite, FS_RemoveElement, FS_EmptySet DEF TypeOK
  <2>3. Pointers(m) # 0 /\ Pointers(m)' = Pointers(m) - 1
    BY <2>2, KeepersFinite DEF Pointers, TypeOK
  <2>4. \A n \in Objects \ {m} : Pointers(n)' = Pointers(n)
    BY <2>1 DEF Pointers
  <2>5. /\ obj' \in [Objects -> {"none", "live", "deleted"}]
        /\ refcnt' \in [Objects -> Nat] /\ rawref' \in [Objects -> Nat]
        /\ RawBalance' /\ CountBalance' /\ QueuedWereMade'
    BY <1>4, <2>3, <2>4, DropKeepsBalance
  <2> QED
    BY <1>1, <2>5 DEF TypeOK
<1> QED
  BY <1>3, <1>4 DEF TypeOK

LEMMA NextKeepsMessagesInv == MessagesInv /\ [Next]_vars => MessagesInv'
<1> SUFFICES ASSUME MessagesInv, [Next]_vars PROVE MessagesInv'
  OBVIOUS
<1>1. ASSUME NEW m \in Objects, MessageStep(m) PROVE MessagesInv'
  BY <1>1, MessageStepKeepsInv
<1>2. ASSUME NEW i \in Readers, ReaderStep(i) PROVE MessagesInv'
  <2>0. i \in Iters /\ Readers \subseteq Iters
    BY DEF Iters
  <2>1. CASE \E m \in Objects : CreateReader(i, m)
    BY <2>0, <2>1, ConstructKeepsInv DEF CreateReader
  <2>2. CASE \E o \in Readers : CopyReader(i, o) \/ AssignReader(i, o)
    BY <2>0, <2>2, CopyKeepsInv DEF CopyReader, AssignReader
  <2>3. CASE DestroyReader(i)
    BY <2>0, <2>3, DestroyKeepsInv DEF DestroyReader
  <2>4. CASE Pop(i)
    BY <2>4, FaultKeepsInv DEF Pop, Access
  <2> QED
    BY <1>2, <2>1, <2>2, <2>3, <2>4 DEF ReaderStep
<1>3. ASSUME NEW i \in Writers, WriterStep(i) PROVE MessagesInv'
  <2>0. i \in Iters /\ Writers \subseteq Iters
    BY DEF Iters
  <2>1. CASE \E m \in Objects : CreateWriter(i, m)
    BY <2>0, <2>1, ConstructKeepsInv DEF CreateWriter
  <2>2. CASE \E o \in Writers : CopyWriter(i, o) \/ AssignWriter(i, o)
    BY <2>0, <2>2, CopyKeepsInv DEF CopyWriter, AssignWriter
  <2>3. CASE DestroyWriter(i)
    BY <2>0, <2>3, DestroyKeepsInv DEF DestroyWriter
  <2>4. CASE Push(i)
    BY <2>4, FaultKeepsInv DEF Push, Access
  <2> QED
    BY <1>3, <2>1, <2>2, <2>3, <2>4 DEF WriterStep
<1>4. CASE UNCHANGED vars
  BY <1>4, FaultKeepsInv DEF vars
<1> QED
  BY <1>1, <1>2, <1>3, <1>4 DEF Next

-----------------------------------------------------------------------------

\* Every pointer to a message and every reference to its DBusMessage is counted,
\* in every state: the inductive invariant the rest is drawn from.
THEOREM MessagesInvariance == Spec => []MessagesInv
<1>1. Init => MessagesInv
  BY InitMessagesInv
<1>2. MessagesInv /\ [Next]_vars => MessagesInv'
  BY NextKeepsMessagesInv
<1> QED
  BY <1>1, <1>2, PTL DEF Spec

\* Messages, iterators and their counts stay in their types: no count goes below
\* zero.
THEOREM MessageTypesCorrect == Spec => []TypeOK
<1>1. MessagesInv => TypeOK
  BY DEF MessagesInv
<1> QED
  BY <1>1, MessagesInvariance, PTL

\* The DBusMessage has one reference of the message object and one of a libdbus
\* that has it to write, so that a sent message may be let go of.
THEOREM RawReferencesBalance == Spec => []RawBalance
<1>1. MessagesInv => RawBalance
  BY DEF MessagesInv
<1> QED
  BY <1>1, MessagesInvariance, PTL

\* call_message, signal_message, error_message and return_message live exactly
\* as long as the user or the msg_ of a reader or writer points to them.
THEOREM MessageCountsBalance == Spec => []CountBalance
<1>1. MessagesInv => CountBalance
  BY DEF MessagesInv
<1> QED
  BY <1>1, MessagesInvariance, PTL

\* An iterator that was neither copied nor assigned to keeps its message, and
\* with it a reference to the DBusMessage.
LEMMA OriginalKeeps ==
  ASSUME MessagesInv, NEW i \in live \ copied
  PROVE  at[i] \in Objects /\ obj[at[i]] = "live" /\ msg_[i] = at[i] /\ rawref[at[i]] # 0
<1> USE DEF MessagesInv
<1>1. msg_[i] = at[i] /\ at[i] \in Objects
  BY DEF ItersInPlace, TypeOK
<1>2. i \in Keepers(at[i])
  BY <1>1 DEF Keepers
<1>3. Cardinality(Keepers(at[i])) \in Nat \ {0}
  BY <1>2, KeepersFinite, FS_EmptySet DEF TypeOK
<1>4. obj[at[i]] = "live"
  BY <1>1, <1>3, PointersCounted DEF Pointers, TypeOK
<1>5. rawref[at[i]] # 0
  BY <1>1, <1>4 DEF RawBalance, TypeOK, Count
<1> QED
  BY <1>1, <1>4, <1>5

\* A pop_...() or push_...() that finds its message freed is that of an iterator
\* that was copied; no other step has this fault.
LEMMA AccessFindsOriginals ==
  ASSUME MessagesInv, OriginalsFindMessage, [Next]_vars, fault' = "freed_message"
  PROVE  \E i \in live' \cap copied' : rawref'[at'[i]] = 0
<1>1. CASE UNCHANGED vars
  BY <1>1 DEF vars, OriginalsFindMessage
<1>2. ASSUME NEW i \in Iters, Access(i) PROVE \E j \in live' \cap copied' : rawref'[at'[j]] = 0
  <2>1. i \in live /\ rawref[at[i]] = 0
    BY <1>2 DEF Access, Alive
  <2>2. i \in copied
    BY <2>1, OriginalKeeps
  <2> QED
    BY <1>2, <2>1, <2>2 DEF Access
<1>3. ASSUME NEW m \in Objects, MessageStep(m) PROVE FALSE
  BY <1>3 DEF MessageStep, CreateCall, CreateSignal, CreateReturn, CreateError, Create,
              CreateFails, AddRef, Release, Send, Written, Alive
<1>4. ASSUME NEW i, NEW o, Copy(i, o) \/ Assign(i, o) \/ Construct(i, o) \/ Destroy(i)
      PROVE  FALSE
  BY <1>4 DEF Copy, Assign, Construct, Destroy, Alive
<1>5. Readers \subseteq Iters /\ Writers \subseteq Iters
  BY DEF Iters
<1> QED
  BY <1>1, <1>2, <1>3, <1>4, <1>5
  DEF Next, ReaderStep, WriterStep, CreateReader, CreateWriter, CopyReader, CopyWriter,
      AssignReader, AssignWriter, DestroyReader, DestroyWriter, Pop, Push

\* A message_reader or message_writer that was neither copied nor assigned to
\* finds its message alive, whoever lets go of that, and a pop_...() or
\* push_...() that does not is one of a copy.
THEOREM OriginalsAreSafe == Spec => []OriginalsFindMessage
<1>1. ASSUME MessagesInv PROVE \A i \in live \ copied : obj[at[i]] = "live" /\ msg_[i] = at[i]
  BY <1>1, OriginalKeeps
<1>2. MessagesInv /\ Init => OriginalsFindMessage
  BY DEF Init, OriginalsFindMessage
<1>3. MessagesInv /\ MessagesInv' /\ OriginalsFindMessage /\ [Next]_vars
        => OriginalsFindMessage'
  <2> SUFFICES ASSUME MessagesInv, MessagesInv', OriginalsFindMessage, [Next]_vars
               PROVE  OriginalsFindMessage'
    OBVIOUS
  <2>1. (\A i \in live \ copied : obj[at[i]] = "live" /\ msg_[i] = at[i])'
    BY <1>1, PTL
  <2> QED
    BY <2>1, AccessFindsOriginals DEF OriginalsFindMessage
<1> QED
  BY <1>2, <1>3, MessagesInvariance, PTL DEF Spec

=============================================================================
