------------------------- MODULE DispatchPumpProofs -------------------------
(***************************************************************************)
(* PumpInv is inductive for any number of messages and shortages: no       *)
(* wakeup is lost, and the closures stay bounded.                          *)
(***************************************************************************)
EXTENDS DispatchPump, TLAPS

\* What the reported status is, and what one report posts.
LEMMA StatusFacts ==
  ASSUME NEW q \in Nat, NEW status \in StatusOf(q)
  PROVE  /\ status \in DispatchStates
         /\ status = "COMPLETE" <=> q = 0
         /\ OnDispatchState(status) = (IF q = 0 THEN 0 ELSE 1)
BY DEF StatusOf, DispatchStates, OnDispatchState, Count

\* Nothing is received, reported or posted yet.
LEMMA InitPumpInv == Init => PumpInv
<1> SUFFICES ASSUME Init PROVE PumpInv
  OBVIOUS
<1>1. TypeOK
  BY DEF Init, TypeOK, DispatchStates
<1>2. StatusMatchesQueue /\ StatusHasClosure
  BY DEF Init, StatusMatchesQueue, StatusHasClosure, Alive
<1>3. ClosuresPaid /\ ClosuresBounded
  BY DEF Init, ClosuresPaid, ClosuresBounded, Count
<1>4. /\ adapter = "absent" => posted = 0 /\ ~busy
      /\ listening <=> adapter = "live"
      /\ last = "NEED_MEMORY" => shortages > 0
  BY DEF Init
<1> QED
  BY <1>1, <1>2, <1>3, <1>4 DEF PumpInv

\* A message is read.
LEMMA ReceiveKeepsPumpInv ==
  ASSUME PumpInv, Receive
  PROVE  PumpInv'
<1>1. PICK status \in StatusOf(queue + 1) :
        Remember(status) /\ posted' = posted + Reported(status, listening)
  BY DEF Receive
<1>2. status \in {"DATA_REMAINS", "NEED_MEMORY"} /\ OnDispatchState(status) = 1
  BY StatusFacts DEF PumpInv, TypeOK, DispatchStates
<1>3. TypeOK'
  BY <1>1, <1>2 DEF PumpInv, TypeOK, DispatchStates, Receive, Remember, Reported, Count
<1>4. (StatusMatchesQueue /\ StatusHasClosure)'
  BY <1>1, <1>2 DEF PumpInv, TypeOK, StatusMatchesQueue, StatusHasClosure, Alive,
                    Receive, Remember, Reported, Count
<1>5. (ClosuresPaid /\ ClosuresBounded)'
  BY <1>1, <1>2 DEF PumpInv, TypeOK, DispatchStates, ClosuresPaid, ClosuresBounded,
                    StatusMatchesQueue, Alive, Receive, Remember, Reported, Count
<1>6. (adapter = "absent" => posted = 0 /\ ~busy)'
  BY <1>1, <1>2 DEF PumpInv, Receive, Reported, Count
<1>7. (listening <=> adapter = "live")'
  BY DEF PumpInv, Receive
<1>8. (last = "NEED_MEMORY" => shortages > 0)'
  BY <1>1 DEF PumpInv, TypeOK, Remember, Count
<1> QED
  BY <1>3, <1>4, <1>5, <1>6, <1>7, <1>8 DEF PumpInv

\* libdbus looks at its status again.
LEMMA UpdateStatusKeepsPumpInv ==
  ASSUME PumpInv, UpdateStatus
  PROVE  PumpInv'
<1>1. PICK status \in StatusOf(queue) :
        Remember(status) /\ posted' = posted + Reported(status, listening)
  BY DEF UpdateStatus
<1>2. /\ status \in DispatchStates
      /\ status = "COMPLETE" <=> queue = 0
      /\ OnDispatchState(status) = (IF queue = 0 THEN 0 ELSE 1)
  BY StatusFacts DEF PumpInv, TypeOK
<1>3. TypeOK'
  BY <1>1, <1>2 DEF PumpInv, TypeOK, DispatchStates, UpdateStatus, Remember,
                    Reported, Count
<1>4. (StatusMatchesQueue /\ StatusHasClosure)'
  BY <1>1, <1>2 DEF PumpInv, TypeOK, StatusMatchesQueue, StatusHasClosure, Alive,
                    UpdateStatus, Remember, Reported, Count
<1>5. (ClosuresPaid /\ ClosuresBounded)'
  BY <1>1, <1>2 DEF PumpInv, TypeOK, DispatchStates, ClosuresPaid, ClosuresBounded,
                    StatusMatchesQueue, Alive, UpdateStatus, Remember, Reported, Count
<1>6. (adapter = "absent" => posted = 0 /\ ~busy)'
  BY <1>1, <1>2 DEF PumpInv, UpdateStatus, Reported, Count
<1>7. (listening <=> adapter = "live")'
  BY DEF PumpInv, UpdateStatus
<1>8. (last = "NEED_MEMORY" => shortages > 0)'
  BY <1>1 DEF PumpInv, TypeOK, Remember, Count
<1> QED
  BY <1>3, <1>4, <1>5, <1>6, <1>7, <1>8 DEF PumpInv

\* One dispatch() of a live adapter, from a state in which the closure that
\* runs it is no longer counted.
LEMMA BeginDispatchKeepsPumpInv ==
  ASSUME PumpInv, NEW before \in Nat, BeginDispatch(before), Alive, ~busy,
         before + Count(last = "NEED_MEMORY") <= 2 * shortages + nested,
         adapter' = "live", listening' = TRUE,
         UNCHANGED <<received, nested, fault>>
  PROVE  PumpInv'
<1>1. PICK status \in StatusOf(queue) :
        \/ /\ status = "DATA_REMAINS"
           /\ queue' = queue - 1
           /\ busy' = TRUE
           /\ posted' = before
           /\ UNCHANGED <<last, shortages>>
        \/ /\ status # "DATA_REMAINS"
           /\ Remember(status)
           /\ posted' = before + Reported(status, TRUE) + Returned(status)
           /\ UNCHANGED <<queue, busy>>
  BY DEF BeginDispatch
<1>2. /\ status \in DispatchStates
      /\ status = "COMPLETE" <=> queue = 0
      /\ OnDispatchState(status) = (IF queue = 0 THEN 0 ELSE 1)
  BY StatusFacts DEF PumpInv, TypeOK
<1>3. TypeOK'
  <2>1. posted' \in Nat /\ shortages' \in Nat /\ last' \in DispatchStates
    BY <1>1, <1>2 DEF PumpInv, TypeOK, Remember, Reported, Returned, Count
  <2>2. queue' \in Nat
    <3>1. queue \in Nat
      BY DEF PumpInv, TypeOK
    <3>2. CASE status = "DATA_REMAINS"
      BY <1>1, <1>2, <3>1, <3>2
    <3>3. CASE status # "DATA_REMAINS"
      BY <1>1, <3>1, <3>3
    <3> QED
      BY <3>2, <3>3
  <2>3. busy' \in BOOLEAN
    BY <1>1 DEF PumpInv, TypeOK
  <2> QED
    BY <2>1, <2>2, <2>3 DEF PumpInv, TypeOK
<1>4. (StatusMatchesQueue /\ StatusHasClosure)'
  BY <1>1, <1>2 DEF PumpInv, TypeOK, DispatchStates, StatusMatchesQueue,
                    StatusHasClosure, Alive, Remember, Reported, Returned, Count
<1>5. (ClosuresPaid /\ ClosuresBounded)'
  BY <1>1, <1>2 DEF PumpInv, TypeOK, DispatchStates, ClosuresPaid, ClosuresBounded,
                    StatusMatchesQueue, Alive, Remember, Reported, Returned, Count
<1>6. (last = "NEED_MEMORY" => shortages > 0)'
  <2>1. CASE UNCHANGED <<last, shortages>>
    BY <2>1 DEF PumpInv
  <2>2. CASE Remember(status)
    BY <2>2 DEF PumpInv, TypeOK, Remember, Count
  <2> QED
    BY <1>1, <2>1, <2>2
<1> QED
  BY <1>3, <1>4, <1>5, <1>6 DEF PumpInv

\* The constructor finds no closure posted.
LEMMA ConstructKeepsPumpInv ==
  ASSUME PumpInv, Construct
  PROVE  PumpInv'
<1>1. /\ posted = 0 /\ posted \in Nat
      /\ posted + Count(last = "NEED_MEMORY") <= 2 * shortages + nested
  BY DEF PumpInv, TypeOK, ClosuresPaid, Construct, Count
<1> QED
  BY <1>1, BeginDispatchKeepsPumpInv DEF Construct

\* The reactor takes a closure; the closure of a deleted adapter ends it all.
LEMMA RunPostedKeepsPumpInv ==
  ASSUME PumpInv, RunPosted
  PROVE  PumpInv'
<1>1. CASE adapter = "live"
  <2>1. /\ posted - 1 \in Nat
        /\ posted - 1 + Count(last = "NEED_MEMORY") <= 2 * shortages + nested
    BY DEF PumpInv, TypeOK, ClosuresPaid, RunPosted, Count
  <2>2. BeginDispatch(posted - 1) /\ adapter' = "live" /\ listening' = TRUE
    BY <1>1 DEF PumpInv, TypeOK, RunPosted
  <2> QED
    BY <1>1, <2>1, <2>2, BeginDispatchKeepsPumpInv DEF RunPosted
<1>2. CASE adapter # "live"
  <2>1. /\ fault' = "dangling" /\ posted' = posted - 1 /\ posted > 0
        /\ UNCHANGED <<adapter, listening, queue, received, last, shortages, busy, nested>>
    BY <1>2 DEF RunPosted
  <2>2. (TypeOK /\ StatusMatchesQueue /\ StatusHasClosure /\ ClosuresBounded)'
    BY <2>1 DEF PumpInv, TypeOK, StatusMatchesQueue, StatusHasClosure,
                ClosuresBounded, Alive
  <2> QED
    BY <2>1, <2>2, <1>2 DEF PumpInv, Alive, RunPosted
<1> QED
  BY <1>1, <1>2

\* The handlers of a message are through.
LEMMA EndDispatchKeepsPumpInv ==
  ASSUME PumpInv, EndDispatch
  PROVE  PumpInv'
<1>1. PICK status \in StatusOf(queue) :
        /\ Remember(status)
        /\ posted' = posted + Reported(status, listening)
                            + Count(adapter = "live") * Returned(status)
  BY DEF EndDispatch
<1>2. /\ status \in DispatchStates
      /\ status = "COMPLETE" <=> queue = 0
      /\ OnDispatchState(status) = (IF queue = 0 THEN 0 ELSE 1)
  BY StatusFacts DEF PumpInv, TypeOK
<1>3. TypeOK'
  <2>1. posted' \in Nat /\ shortages' \in Nat /\ last' \in DispatchStates
    BY <1>1, <1>2 DEF PumpInv, TypeOK, Remember, Reported, Returned, Count
  <2> QED
    BY <2>1 DEF PumpInv, TypeOK, EndDispatch
<1>4. (StatusMatchesQueue /\ StatusHasClosure)'
  BY <1>1, <1>2 DEF PumpInv, TypeOK, DispatchStates, StatusMatchesQueue,
                    StatusHasClosure, Alive, EndDispatch, Remember, Reported,
                    Returned, Count
<1>5. (ClosuresPaid /\ ClosuresBounded)'
  BY <1>1, <1>2 DEF PumpInv, TypeOK, DispatchStates, ClosuresPaid, ClosuresBounded,
                    StatusMatchesQueue, Alive, EndDispatch, Remember, Reported,
                    Returned, Count
<1>6. (last = "NEED_MEMORY" => shortages > 0)'
  BY <1>1 DEF PumpInv, TypeOK, Remember, Count
<1> QED
  BY <1>3, <1>4, <1>5, <1>6 DEF PumpInv, EndDispatch

LEMMA DeleteKeepsPumpInv ==
  ASSUME PumpInv, Delete
  PROVE  PumpInv'
<1>1. (TypeOK /\ StatusMatchesQueue /\ StatusHasClosure)'
  BY DEF PumpInv, TypeOK, StatusMatchesQueue, StatusHasClosure, Delete
<1>2. (Alive => ClosuresPaid)' /\ ClosuresBounded'
  BY DEF PumpInv, ClosuresPaid, ClosuresBounded, Alive, Count, Delete
<1> QED
  BY <1>1, <1>2 DEF PumpInv, Delete

\* PumpInv is an invariant.
THEOREM PumpInvariance == Spec => []PumpInv
<1>1. PumpInv /\ [Next]_vars => PumpInv'
  <2> SUFFICES ASSUME PumpInv, [Next]_vars PROVE PumpInv'
    OBVIOUS
  <2>1. CASE UNCHANGED vars
    BY <2>1 DEF vars, PumpInv, TypeOK, StatusMatchesQueue, StatusHasClosure,
                ClosuresPaid, ClosuresBounded, Alive
  <2> QED
    BY <2>1, ReceiveKeepsPumpInv, UpdateStatusKeepsPumpInv, ConstructKeepsPumpInv,
       RunPostedKeepsPumpInv, EndDispatchKeepsPumpInv, DeleteKeepsPumpInv DEF Next
<1> QED
  BY <1>1, InitPumpInv, PTL DEF Spec

\* While the adapter lives, a message that waits has a closure that will
\* dispatch it: a report missed before the adapter existed, or not made
\* because the status did not change, is made good by the dispatch in the
\* constructor and by the check of the result of every dispatch.
THEOREM NoWakeupIsLost == Spec => []NoLostWakeup
<1>1. PumpInv => NoLostWakeup
  BY DEF PumpInv, TypeOK, NoLostWakeup, StatusMatchesQueue, StatusHasClosure
<1> QED
  BY <1>1, PumpInvariance, PTL

\* The closures that wait in the reactor do not pile up.
THEOREM ClosuresStayBounded == Spec => []ClosuresBounded
<1>1. PumpInv => ClosuresBounded
  BY DEF PumpInv
<1> QED
  BY <1>1, PumpInvariance, PTL

=============================================================================
