--------------------------- MODULE MainLoopProofs ---------------------------
(***************************************************************************)
(* The safety properties of MainLoop hold for any sets of watches and      *)
(* timeouts.  The runs' properties are not inductive: that a wrapper is    *)
(* alive says nothing of how many references keep it so.  LoopInv counts   *)
(* them, one for each of those who may call into a wrapper, and says in    *)
(* which order a handle gets and loses them.                               *)
(***************************************************************************)
EXTENDS MainLoop, TLAPS

\* The references to the wrapper of h: that in the data of libdbus' object,
\* that of the context, that of another slot, that of the registration, and
\* that of a closure which runs though its registration is gone.
References(h) ==
  Count(raw[h] = "live") + Count(h \in ctx) + Count(h \in kept)
    + Count(Registered(h)) + Count(handling = h /\ stale)

\* Every reference is counted, and the wrapper is there as long as there is one.
RefsCounted ==
  \A h \in Handles :
    /\ refcnt[h] = References(h)
    /\ obj[h] = IF raw[h] = "none" THEN "none"
                ELSE IF refcnt[h] = 0 THEN "deleted" ELSE "live"

\* What holds of a handle before it was added, of one that is removed, and of
\* one that is registered.
HandleOrder ==
  \A h \in Handles :
    /\ raw[h] = "none" => h \notin kept \cup posted \cup enabled
    /\ raw[h] = "gone" <=> h \in removed
    /\ h \in ctx => raw[h] = "live"
    /\ h \in posted => h \in ctx \/ h \in removed
    /\ Registered(h) => h \in ctx

\* The closure that runs belongs to a registration, or is marked as stale.
ClosureOrder ==
  /\ handling # NoHandle => raw[handling] # "none" /\ (stale \/ Registered(handling))
  /\ handling = NoHandle => ~stale

\* A registration follows its handle, in the last state of a process that ends
\* as well.
ChangesSeen ==
  \A h \in ctx \ posted : reactor[h] = AfterChange(h, h \in enabled)

\* The inductive invariant.
LoopInv ==
  /\ TypeOK
  /\ RefsCounted
  /\ HandleOrder
  /\ ClosureOrder
  /\ ChangesSeen
  /\ OnlyKnownFaults

-----------------------------------------------------------------------------

LEMMA InitLoopInv == Init => LoopInv
<1> SUFFICES ASSUME Init PROVE LoopInv
  OBVIOUS
<1>1. TypeOK
  BY DEF Init, TypeOK
<1>2. RefsCounted
  BY HandlesAssumption DEF Init, RefsCounted, References, Count, Registered
<1>3. HandleOrder /\ ClosureOrder /\ ChangesSeen /\ OnlyKnownFaults
  BY DEF Init, HandleOrder, ClosureOrder, ChangesSeen, OnlyKnownFaults, Alive, Registered
<1> QED
  BY <1>1, <1>2, <1>3 DEF LoopInv

LEMMA AddKeepsLoopInv ==
  ASSUME LoopInv, NEW h \in Handles, Add(h)
  PROVE  LoopInv'
<1> USE DEF LoopInv, Add, SetRefs, RefsOfNew, Hears, Registered
<1>1. refcnt'[h] \in Nat /\ refcnt'[h] = References(h)'
  BY HandlesAssumption DEF TypeOK, RefsCounted, HandleOrder, ClosureOrder, References, Count
<1>2. TypeOK'
  BY <1>1 DEF TypeOK, Count
<1>3. RefsCounted'
  BY <1>1 DEF TypeOK, RefsCounted, References, Count
<1>4. HandleOrder' /\ ClosureOrder'
  BY HandlesAssumption DEF TypeOK, HandleOrder, ClosureOrder
<1>5. ChangesSeen'
  BY DEF TypeOK, HandleOrder, ChangesSeen, AfterChange, AfterWatchChange, AfterTimeoutChange
<1>6. OnlyKnownFaults'
  BY DEF OnlyKnownFaults, Alive
<1> QED
  BY <1>2, <1>3, <1>4, <1>5, <1>6

\* on_..._change() of a handle whose context has its wrapper: what the posted
\* closure does the first time, and every toggle.
LEMMA ChangeCounts ==
  ASSUME LoopInv, Alive, NEW h \in ctx, NEW on \in BOOLEAN, Change(h, on),
         UNCHANGED <<adapter, raw, removed, kept, ctx, dispatches, handling>>
  PROVE  /\ refcnt' \in [Handles -> Nat]
         /\ obj' \in [Handles -> {"none", "live", "deleted"}]
         /\ reactor' \in [Handles -> {"absent", "idle", "active"}]
         /\ stale' \in BOOLEAN
         /\ fault' \in {"none", "adapter_used"}
         /\ RefsCounted'
         /\ ClosureOrder'
         /\ OnlyKnownFaults'
<1> USE DEF LoopInv, Change, SetRefs, Disconnects, Runs, Registered
<1> DEFINE r == AfterChange(h, on)
<1>1. h \in Handles /\ raw[h] = "live"
  BY DEF TypeOK, HandleOrder
<1>2. /\ r \in {"absent", "idle", "active"}
      /\ h \in Watches => r # "absent"
      /\ h \notin Watches => h \in Timeouts
  BY <1>1 DEF AfterChange, AfterWatchChange, AfterTimeoutChange, Handles
<1>3. reactor' = [reactor EXCEPT ![h] = r]
  OBVIOUS
<1>4. /\ reactor'[h] = r
      /\ reactor' \in [Handles -> {"absent", "idle", "active"}]
  BY <1>1, <1>2, <1>3 DEF TypeOK
<1>5. stale' \in BOOLEAN /\ (stale' <=> stale \/ Disconnects(h))
  BY DEF TypeOK
<1>6. refcnt'[h] = References(h)' /\ refcnt'[h] \in Nat \ {0}
  <2>1. refcnt[h] = References(h) /\ refcnt[h] \in Nat
    BY <1>1 DEF TypeOK, RefsCounted
  <2>2. refcnt'[h] = refcnt[h] + Count(r # "absent") - Count(Registered(h))
                       + Count(Disconnects(h))
    BY <1>1 DEF TypeOK
  <2>3. References(h)' = References(h) + Count(r # "absent") - Count(Registered(h))
                           + Count(Disconnects(h))
    <3>1. Count(handling = h /\ stale)' = Count(handling = h /\ stale) + Count(Disconnects(h))
      BY <1>5 DEF Count, TypeOK
    <3> QED
      BY <1>1, <1>4, <3>1 DEF References, Count
  <2>4. References(h)' \in Nat \ {0}
    BY <1>1 DEF References, Count
  <2> QED
    BY <2>1, <2>2, <2>3, <2>4
<1>7. refcnt' \in [Handles -> Nat] /\ obj' \in [Handles -> {"none", "live", "deleted"}]
  BY <1>1, <1>6 DEF TypeOK
<1>8. RefsCounted'
  <2> SUFFICES ASSUME NEW k \in Handles
               PROVE  (/\ refcnt[k] = References(k)
                       /\ obj[k] = IF raw[k] = "none" THEN "none"
                                   ELSE IF refcnt[k] = 0 THEN "deleted" ELSE "live")'
    BY DEF RefsCounted
  <2>1. CASE k = h
    BY <1>1, <1>6, <2>1 DEF TypeOK
  <2>2. CASE k # h
    <3>1. refcnt'[k] = refcnt[k] /\ obj'[k] = obj[k] /\ reactor'[k] = reactor[k]
      BY <1>1, <2>2 DEF TypeOK
    <3>2. (handling = k /\ stale)' <=> (handling = k /\ stale)
      BY <1>5, <2>2
    <3> QED
      BY <3>1, <3>2 DEF RefsCounted, References
  <2> QED
    BY <2>1, <2>2
<1>9. ClosureOrder'
  <2>1. CASE handling = h
    BY <1>1, <1>2, <1>4, <1>5, <2>1, HandlesAssumption DEF ClosureOrder
  <2>2. CASE handling # h
    <3>1. handling \in Handles => reactor'[handling] = reactor[handling]
      BY <1>1, <1>3, <2>2 DEF TypeOK
    <3> QED
      BY <1>5, <2>2, <3>1 DEF ClosureOrder, TypeOK
  <2> QED
    BY <2>1, <2>2
<1>10. fault' \in {"none", "adapter_used"} /\ OnlyKnownFaults'
  BY DEF Alive, OnlyKnownFaults
<1> QED
  BY <1>4, <1>5, <1>7, <1>8, <1>9, <1>10

LEMMA RunPostedKeepsLoopInv ==
  ASSUME LoopInv, NEW h \in Handles, RunPosted(h)
  PROVE  LoopInv'
<1> USE DEF LoopInv, RunPosted
<1>1. CASE h \in ctx /\ Change(h, h \in enabled)
  <2>0. (h \in enabled) \in BOOLEAN
    OBVIOUS
  <2>1. TypeOK' /\ RefsCounted' /\ ClosureOrder' /\ OnlyKnownFaults'
    <3>1. /\ refcnt' \in [Handles -> Nat]
          /\ obj' \in [Handles -> {"none", "live", "deleted"}]
          /\ reactor' \in [Handles -> {"absent", "idle", "active"}]
          /\ stale' \in BOOLEAN
          /\ fault' \in {"none", "adapter_used"}
          /\ RefsCounted' /\ ClosureOrder' /\ OnlyKnownFaults'
      BY <1>1, <2>0, ChangeCounts, Zenon
    <3> QED
      BY <3>1 DEF TypeOK
  <2>2. HandleOrder'
    BY <1>1 DEF HandleOrder, Change, Registered, TypeOK
  <2>3. ChangesSeen'
    BY <1>1 DEF ChangesSeen, Change, TypeOK, AfterChange, AfterWatchChange, AfterTimeoutChange
  <2> QED
    BY <2>1, <2>2, <2>3
<1>2. CASE h \notin ctx /\ fault' = "null_handle" /\ UNCHANGED <<reactor, obj, refcnt, stale>>
  <2>1. TypeOK' /\ RefsCounted' /\ HandleOrder' /\ ClosureOrder'
    BY <1>2 DEF TypeOK, RefsCounted, References, Registered, HandleOrder, ClosureOrder
  <2>2. ChangesSeen'
    BY <1>2 DEF ChangesSeen, AfterChange, AfterWatchChange, AfterTimeoutChange
  <2>3. OnlyKnownFaults'
    BY <1>2 DEF HandleOrder, Registered, OnlyKnownFaults
  <2> QED
    BY <2>1, <2>2, <2>3
<1> QED
  BY <1>1, <1>2

LEMMA ToggleKeepsLoopInv ==
  ASSUME LoopInv, NEW h \in Handles, Toggle(h)
  PROVE  LoopInv'
<1> USE DEF LoopInv, Toggle, Connected
<1> PICK on \in BOOLEAN :
       /\ enabled' = IF on THEN enabled \cup {h} ELSE enabled \ {h}
       /\ \/ Connected(h) /\ Change(h, on)
          \/ ~Connected(h) /\ UNCHANGED <<reactor, obj, refcnt, stale, fault>>
  OBVIOUS
<1>1. CASE h \in ctx
  <2>1. RefsCounted' /\ ClosureOrder' /\ OnlyKnownFaults'
    BY <1>1, ChangeCounts
  <2>2. TypeOK'
    BY <1>1, ChangeCounts DEF TypeOK
  <2>3. HandleOrder'
    BY <1>1 DEF HandleOrder, Change, Registered, TypeOK
  <2>4. ChangesSeen'
    BY <1>1 DEF ChangesSeen, Change, TypeOK, AfterChange, AfterWatchChange, AfterTimeoutChange
  <2> QED
    BY <2>1, <2>2, <2>3, <2>4
<1>2. CASE h \notin ctx
  <2>1. TypeOK' /\ RefsCounted' /\ HandleOrder' /\ ClosureOrder'
    BY <1>2 DEF TypeOK, RefsCounted, References, Registered, HandleOrder, ClosureOrder
  <2>2. ChangesSeen' /\ OnlyKnownFaults'
    BY <1>2 DEF ChangesSeen, AfterChange, AfterWatchChange, AfterTimeoutChange,
                OnlyKnownFaults, Alive, Registered
  <2> QED
    BY <2>1, <2>2
<1> QED
  BY <1>1, <1>2

\* The references that go with libdbus' object are those of its data, of the
\* context and of the registration, unless its closure runs: that one keeps
\* its reference, and is stale from now on.
LEMMA RemoveKeepsLoopInv ==
  ASSUME LoopInv, NEW h \in Handles, Remove(h)
  PROVE  LoopInv'
<1> USE DEF LoopInv, Remove, SetRefs, Runs, Registered
<1>0. stale' \in BOOLEAN /\ (stale' <=> stale \/ Runs(h))
  BY DEF TypeOK
<1>1. refcnt'[h] = References(h)' /\ refcnt'[h] \in Nat
  <2>1. refcnt[h] = References(h) /\ refcnt[h] \in Nat
    BY DEF TypeOK, RefsCounted
  <2>2. refcnt'[h] = refcnt[h] - Count(Registered(h) /\ ~Runs(h)) - Count(h \in ctx) - 1
    BY DEF TypeOK
  <2>3. reactor'[h] = "absent" /\ raw'[h] = "gone"
    BY DEF TypeOK
  <2>4. Count(handling = h /\ stale)' = Count(handling = h /\ stale) + Count(Runs(h))
    BY <1>0 DEF Count
  <2>5. Count(Registered(h)) = Count(Registered(h) /\ ~Runs(h)) + Count(Runs(h))
    BY DEF Count
  <2>6. References(h)' = References(h) - Count(Registered(h) /\ ~Runs(h))
                           - Count(h \in ctx) - 1
    BY <2>3, <2>4, <2>5 DEF References, Count
  <2>7. References(h)' \in Nat
    BY DEF References, Count
  <2> QED
    BY <2>1, <2>2, <2>6, <2>7
<1>2. TypeOK'
  BY <1>1 DEF TypeOK
<1>3. RefsCounted'
  <2> SUFFICES ASSUME NEW k \in Handles
               PROVE  (/\ refcnt[k] = References(k)
                       /\ obj[k] = IF raw[k] = "none" THEN "none"
                                   ELSE IF refcnt[k] = 0 THEN "deleted" ELSE "live")'
    BY DEF RefsCounted
  <2>1. CASE k = h
    <3>1. raw'[h] = "gone" /\ obj'[h] = IF refcnt'[h] = 0 THEN "deleted" ELSE "live"
      BY DEF TypeOK
    <3> QED
      BY <1>1, <2>1, <3>1
  <2>2. CASE k # h
    <3>1. /\ refcnt'[k] = refcnt[k] /\ obj'[k] = obj[k] /\ reactor'[k] = reactor[k]
          /\ raw'[k] = raw[k] /\ (k \in ctx' <=> k \in ctx)
      BY <2>2 DEF TypeOK
    <3>2. (handling = k /\ stale)' <=> (handling = k /\ stale)
      BY <2>2 DEF TypeOK
    <3> QED
      BY <3>1, <3>2 DEF RefsCounted, References, Count
  <2> QED
    BY <2>1, <2>2
<1>4. HandleOrder'
  BY DEF TypeOK, HandleOrder
<1>5. ClosureOrder'
  BY HandlesAssumption DEF TypeOK, ClosureOrder
<1>6. ChangesSeen'
  BY DEF TypeOK, ChangesSeen, AfterChange, AfterWatchChange, AfterTimeoutChange
<1>7. OnlyKnownFaults'
  BY DEF OnlyKnownFaults, Alive
<1> QED
  BY <1>2, <1>3, <1>4, <1>5, <1>6, <1>7

LEMMA ReadyKeepsLoopInv ==
  ASSUME LoopInv, NEW h \in Handles, Ready(h)
  PROVE  LoopInv'
<1> USE DEF LoopInv, Ready, Registered
<1>1. TypeOK' /\ HandleOrder' /\ ClosureOrder'
  BY HandlesAssumption DEF TypeOK, HandleOrder, ClosureOrder
<1>2. RefsCounted'
  BY HandlesAssumption DEF TypeOK, RefsCounted, References, Count, ClosureOrder
<1>3. ChangesSeen' /\ OnlyKnownFaults'
  BY DEF ChangesSeen, AfterChange, AfterWatchChange, AfterTimeoutChange,
         OnlyKnownFaults, Alive
<1> QED
  BY <1>1, <1>2, <1>3

\* A wrapper that somebody keeps, or whose closure runs, is there.
LEMMA AskedIsHarmless ==
  ASSUME LoopInv, NEW h \in Handles, h \in kept \/ handling = h
  PROVE  obj[h] = "live" /\ Asked(h) = fault
<1> USE DEF LoopInv
<1>1. raw[h] # "none"
  BY HandlesAssumption DEF HandleOrder, ClosureOrder
<1>2. References(h) # 0
  BY HandlesAssumption DEF References, Count, ClosureOrder
<1>3. obj[h] = "live"
  BY <1>1, <1>2 DEF RefsCounted
<1> QED
  BY <1>1, <1>3 DEF Asked, AsksRaw, HandleOrder, TypeOK

\* A count goes down by the one reference that its holder gives back.
LEMMA OneLess ==
  ASSUME LoopInv, NEW h \in Handles, raw[h] # "none", SetRefs(h, refcnt[h] - 1),
         References(h)' = References(h) - 1,
         \A k \in Handles \ {h} : References(k)' = References(k),
         UNCHANGED raw
  PROVE  /\ refcnt' \in [Handles -> Nat]
         /\ obj' \in [Handles -> {"none", "live", "deleted"}]
         /\ RefsCounted'
<1> USE DEF LoopInv, SetRefs, TypeOK
<1>1. \A k \in Handles : References(k)' \in Nat
  BY DEF References, Count
<1>2. refcnt'[h] = References(h)'
  BY DEF RefsCounted
<1> QED
  BY <1>1, <1>2 DEF RefsCounted

LEMMA HandleReturnsKeepsLoopInv ==
  ASSUME LoopInv, NEW h \in Handles, HandleReturns(h), UNCHANGED fault
  PROVE  LoopInv'
<1> USE DEF LoopInv, HandleReturns, Registered
<1>0. h # NoHandle /\ raw[h] # "none"
  BY HandlesAssumption DEF ClosureOrder
<1>1. /\ refcnt' \in [Handles -> Nat]
      /\ obj' \in [Handles -> {"none", "live", "deleted"}]
      /\ RefsCounted'
  <2>1. CASE stale /\ SetRefs(h, refcnt[h] - 1)
    <3>1. References(h)' = References(h) - 1
      BY <1>0, <2>1 DEF References, Count
    <3>2. \A k \in Handles \ {h} : References(k)' = References(k)
      BY <2>1 DEF References, Count
    <3> QED
      BY <1>0, <2>1, <3>1, <3>2, OneLess
  <2>2. CASE ~stale /\ UNCHANGED <<obj, refcnt>>
    BY <2>2 DEF TypeOK, RefsCounted, References, Count
  <2> QED
    BY <2>1, <2>2
<1>2. TypeOK' /\ HandleOrder' /\ ClosureOrder'
  BY <1>1 DEF TypeOK, HandleOrder, ClosureOrder
<1>3. ChangesSeen' /\ OnlyKnownFaults'
  BY DEF ChangesSeen, AfterChange, AfterWatchChange, AfterTimeoutChange,
         OnlyKnownFaults, Alive
<1> QED
  BY <1>1, <1>2, <1>3

LEMMA DropKeepsLoopInv ==
  ASSUME LoopInv, NEW h \in Handles, Drop(h)
  PROVE  LoopInv'
<1> USE DEF LoopInv, Drop, Registered
<1>0. raw[h] # "none"
  BY DEF HandleOrder
<1>1. References(h)' = References(h) - 1
  BY DEF References, Count
<1>2. \A k \in Handles \ {h} : References(k)' = References(k)
  BY DEF References, Count
<1>3. /\ refcnt' \in [Handles -> Nat]
      /\ obj' \in [Handles -> {"none", "live", "deleted"}]
      /\ RefsCounted'
  BY <1>0, <1>1, <1>2, OneLess
<1>4. TypeOK' /\ HandleOrder' /\ ClosureOrder'
  BY <1>3 DEF TypeOK, HandleOrder, ClosureOrder
<1>5. ChangesSeen' /\ OnlyKnownFaults'
  BY DEF ChangesSeen, AfterChange, AfterWatchChange, AfterTimeoutChange,
         OnlyKnownFaults, Alive
<1> QED
  BY <1>3, <1>4, <1>5

\* A step that leaves the handles alone, and the adapter or deletes it.
LEMMA QuietKeepsLoopInv ==
  ASSUME LoopInv, adapter' \in {adapter, "deleted"}, dispatches' \in Nat,
         fault' \in {"none", "null_handle", "adapter_used"}, OnlyKnownFaults',
         UNCHANGED <<raw, enabled, obj, refcnt, removed, kept, ctx, posted,
                     reactor, handling, stale>>
  PROVE  LoopInv'
BY DEF LoopInv, TypeOK, RefsCounted, References, Registered, HandleOrder, ClosureOrder,
       ChangesSeen, AfterChange, AfterWatchChange, AfterTimeoutChange

\* What a step leaves alone of all the variables but adapter.
LEMMA StutterKeepsLoopInv ==
  ASSUME LoopInv, adapter' \in {adapter, "deleted"},
         UNCHANGED <<raw, enabled, obj, refcnt, removed, kept, ctx, posted,
                     dispatches, reactor, handling, stale, fault>>
  PROVE  LoopInv'
<1>1. OnlyKnownFaults'
  BY DEF LoopInv, OnlyKnownFaults, Alive, Registered
<1>2. dispatches' \in Nat /\ fault' \in {"none", "null_handle", "adapter_used"}
  BY DEF LoopInv, TypeOK, OnlyKnownFaults, Alive
<1> QED
  BY <1>1, <1>2, QuietKeepsLoopInv

\* The closures of the dispatch chain: one that is posted, and one that runs,
\* or finds its adapter deleted.
LEMMA DispatchKeepsLoopInv ==
  ASSUME LoopInv, Report \/ RunDispatch
  PROVE  LoopInv'
<1>1. CASE Report
  <2>1. dispatches' \in Nat /\ fault' = "none" /\ OnlyKnownFaults'
    BY <1>1 DEF Report, LoopInv, TypeOK, OnlyKnownFaults, Alive
  <2> QED
    BY <1>1, <2>1, QuietKeepsLoopInv DEF Report
<1>2. CASE RunDispatch
  <2>1. dispatches' \in Nat
    BY <1>2 DEF RunDispatch, LoopInv, TypeOK, Count
  <2>2. fault' \in {"none", "adapter_used"} /\ OnlyKnownFaults'
    BY <1>2 DEF RunDispatch, LoopInv, TypeOK, OnlyKnownFaults, Alive
  <2> QED
    BY <1>2, <2>1, <2>2, QuietKeepsLoopInv DEF RunDispatch
<1> QED
  BY <1>1, <1>2

LEMMA NextKeepsLoopInv == LoopInv /\ [Next]_vars => LoopInv'
<1> SUFFICES ASSUME LoopInv, [Next]_vars PROVE LoopInv'
  OBVIOUS
<1>1. ASSUME NEW h \in Watches, WatchStep(h) PROVE LoopInv'
  <2>0. h \in Handles
    BY DEF Handles
  <2>1. CASE AddWatch(h)
    BY <2>0, <2>1, AddKeepsLoopInv DEF AddWatch
  <2>2. CASE ToggleWatch(h)
    BY <2>0, <2>2, ToggleKeepsLoopInv DEF ToggleWatch
  <2>3. CASE RemoveWatch(h)
    BY <2>0, <2>3, RemoveKeepsLoopInv DEF RemoveWatch
  <2>4. CASE OnIoReady(h)
    BY <2>0, <2>4, ReadyKeepsLoopInv DEF OnIoReady
  <2>5. CASE WatchHandled(h)
    BY <2>0, <2>5, HandleReturnsKeepsLoopInv DEF WatchHandled
  <2>6. CASE UseWatch(h)
    BY <2>0, <2>6, AskedIsHarmless, StutterKeepsLoopInv DEF UseWatch, Use
  <2> QED
    BY <1>1, <2>1, <2>2, <2>3, <2>4, <2>5, <2>6 DEF WatchStep
<1>2. ASSUME NEW h \in Timeouts, TimeoutStep(h) PROVE LoopInv'
  <2>0. h \in Handles
    BY DEF Handles
  <2>1. CASE AddTimeout(h)
    BY <2>0, <2>1, AddKeepsLoopInv DEF AddTimeout
  <2>2. CASE ToggleTimeout(h)
    BY <2>0, <2>2, ToggleKeepsLoopInv DEF ToggleTimeout
  <2>3. CASE RemoveTimeout(h)
    BY <2>0, <2>3, RemoveKeepsLoopInv DEF RemoveTimeout
  <2>4. CASE OnTimer(h)
    BY <2>0, <2>4, ReadyKeepsLoopInv DEF OnTimer
  <2>5. CASE TimerHandled(h)
    <3>1. UNCHANGED fault
      BY <2>0, <2>5, AskedIsHarmless DEF TimerHandled, HandleReturns
    <3> QED
      BY <2>0, <2>5, <3>1, HandleReturnsKeepsLoopInv DEF TimerHandled
  <2>6. CASE UseTimeout(h)
    BY <2>0, <2>6, AskedIsHarmless, StutterKeepsLoopInv DEF UseTimeout, Use
  <2> QED
    BY <1>2, <2>1, <2>2, <2>3, <2>4, <2>5, <2>6 DEF TimeoutStep
<1>3. ASSUME NEW h \in Handles, RunPosted(h) \/ Drop(h) PROVE LoopInv'
  BY <1>3, RunPostedKeepsLoopInv, DropKeepsLoopInv
<1>4. CASE DeleteAdapter
  BY <1>4, StutterKeepsLoopInv DEF DeleteAdapter
<1>5. CASE Report \/ RunDispatch
  BY <1>5, DispatchKeepsLoopInv
<1>6. CASE UNCHANGED vars
  BY <1>6, StutterKeepsLoopInv DEF vars
<1> QED
  BY <1>1, <1>2, <1>3, <1>4, <1>5, <1>6 DEF Next

-----------------------------------------------------------------------------

\* Every reference to a wrapper is counted in every state, and a registration
\* follows its handle: the inductive invariant that the rest is drawn from.
THEOREM LoopInvariance == Spec => []LoopInv
<1>1. Init => LoopInv
  BY InitLoopInv
<1>2. LoopInv /\ [Next]_vars => LoopInv'
  BY NextKeepsLoopInv
<1> QED
  BY <1>1, <1>2, PTL DEF Spec

\* The handles, their counts and the fault stay in their types: no count of a
\* wrapper goes below zero.
THEOREM HandleTypesCorrect == Spec => []TypeOK
<1>1. LoopInv => TypeOK
  BY DEF LoopInv
<1> QED
  BY <1>1, LoopInvariance, PTL

\* watch and timeout outlive libdbus' object, their context, their registration,
\* the closure on_io_ready() or on_timer() runs in, and every pointer that is kept.
THEOREM WrappersOutliveUsers == Spec => []WrapperOutlivesItsUsers
<1>1. LoopInv => WrapperOutlivesItsUsers
  <2> SUFFICES ASSUME LoopInv, NEW h \in Handles,
                      raw[h] = "live" \/ Registered(h) \/ handling = h \/ h \in ctx \cup kept
               PROVE  obj[h] = "live"
    BY DEF WrapperOutlivesItsUsers
  <2>1. raw[h] # "none"
    BY HandlesAssumption DEF LoopInv, HandleOrder, ClosureOrder
  <2>2. References(h) # 0
    BY HandlesAssumption DEF LoopInv, References, Count, ClosureOrder, Registered
  <2> QED
    BY <2>1, <2>2 DEF LoopInv, RefsCounted
<1> QED
  BY <1>1, LoopInvariance, PTL

\* Once the closure posted for a handle has run, its registration is what
\* libdbus wants, and a removed handle has none.
THEOREM RegistrationIsKept == Spec => []RegistrationFollows
<1>1. LoopInv => RegistrationFollows
  BY DEF LoopInv, RegistrationFollows, ChangesSeen, HandleOrder
<1> QED
  BY <1>1, LoopInvariance, PTL

\* A process ends only because a removal overtook the posted closure, or because
\* the adapter was deleted before what is bound to it was gone.
THEOREM FaultsAreKnown == Spec => []OnlyKnownFaults
<1>1. LoopInv => OnlyKnownFaults
  BY DEF LoopInv
<1> QED
  BY <1>1, LoopInvariance, PTL

\* The cycle of wrapper, slots and context is gone with libdbus' object, the
\* closure that runs and the last pointer.
THEOREM NoWrapperLeaks == Spec => []NothingLeaks
<1>1. LoopInv => NothingLeaks
  BY DEF LoopInv, NothingLeaks, RefsCounted, References, HandleOrder, Count
<1> QED
  BY <1>1, LoopInvariance, PTL

\* No step leads out of the states in which nothing is bound to an adapter that
\* is deleted: not the handles that libdbus still adds and removes, not what the
\* user asks of the wrappers that are left.
LEMMA UnboundStays ==
  ASSUME LoopInv, Alive, adapter = "deleted", Unbound, [Next]_vars
  PROVE  Alive' /\ adapter' = "deleted" /\ Unbound'
<1> USE DEF Alive, Unbound
<1>1. ASSUME NEW h \in Handles, Add(h) \/ Remove(h) \/ Ready(h) \/ Drop(h)
      PROVE  Alive' /\ adapter' = "deleted" /\ Unbound'
  BY <1>1 DEF Add, Hears, Remove, Ready, Drop
<1>2. ASSUME NEW h \in Handles, RunPosted(h) \/ Toggle(h)
      PROVE  Alive' /\ adapter' = "deleted" /\ Unbound'
  BY <1>2 DEF RunPosted, Toggle, Connected
<1>3. ASSUME NEW h \in Handles, HandleReturns(h) \/ Use(h), fault' \in {fault, Asked(h)}
      PROVE  Alive' /\ adapter' = "deleted" /\ Unbound'
  <2>1. UNCHANGED fault
    BY <1>3, AskedIsHarmless DEF HandleReturns, Use
  <2> QED
    BY <1>3, <2>1 DEF HandleReturns, Use
<1>4. CASE DeleteAdapter \/ Report \/ RunDispatch
  BY <1>4 DEF DeleteAdapter, Report, Hears, RunDispatch
<1>5. CASE UNCHANGED vars
  BY <1>5 DEF vars
<1>6. Handles = Watches \cup Timeouts
  BY DEF Handles
<1> QED
  BY <1>1, <1>2, <1>3, <1>4, <1>5, <1>6
  DEF Next, WatchStep, TimeoutStep, AddWatch, AddTimeout, ToggleWatch, ToggleTimeout,
      RemoveWatch, RemoveTimeout, OnIoReady, OnTimer, WatchHandled, TimerHandled,
      UseWatch, UseTimeout, Use

\* An adapter that was deleted, and to which no slot of a wrapper and no closure
\* in the reactor is bound any more, does no harm for the rest of the process.
THEOREM AdapterGoesUnbound == Spec => AdapterMayGo
<1> DEFINE Gone == Alive /\ adapter = "deleted" /\ Unbound
<1>1. LoopInv /\ Gone /\ [Next]_vars => Gone'
  BY UnboundStays
<1>2. Gone => Alive /\ Unbound
  OBVIOUS
<1>3. Spec => [](Gone => []Gone)
  <2> HIDE DEF Gone
  <2> QED
    BY <1>1, LoopInvariance, PTL DEF Spec
<1> QED
  BY <1>3, PTL DEF AdapterMayGo

=============================================================================
