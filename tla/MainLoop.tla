------------------------------ MODULE MainLoop ------------------------------
(***************************************************************************)
(* The watches and timeouts of a connection between libdbus, which adds,   *)
(* toggles and removes them, and the reactor, which polls descriptors and  *)
(* runs timers.  In between are the wrappers (dbuscc::watch and ::timeout, *)
(* counted objects that libdbus refers to through the data of its own      *)
(* object) and the tscb_adapter with one context (io_ctx, timer_ctx) for   *)
(* each wrapper.                                                           *)
(*                                                                         *)
(* A context is kept by the slots it has in its wrapper, and keeps the     *)
(* wrapper until it is removed; the closure that the reactor runs when a   *)
(* handle is ready keeps the wrapper too.  The first registration with the *)
(* reactor is posted, everything else is done where libdbus asks for it,   *)
(* the handler of a ready handle included.  Of the do_dispatch() closures,  *)
(* which DispatchPump is about, there is what their life has to do with    *)
(* that of the adapter: all slots and closures are bound to its `this'.    *)
(***************************************************************************)
EXTENDS Integers

CONSTANTS
  Watches,          \* the DBusWatch objects
  Timeouts,         \* the DBusTimeout objects
  NoHandle,         \* "the reactor handles none"
  MaxDispatches     \* bound: do_dispatch() closures that wait

Handles == Watches \cup Timeouts

ASSUME HandlesAssumption ==
  Watches \cap Timeouts = {} /\ NoHandle \notin Handles

ASSUME MaxDispatchesAssumption == MaxDispatches \in Nat

VARIABLES
  adapter,    \* the tscb_adapter: "live" or "deleted"
  raw,        \* libdbus' object: "none", "live" or "gone"
  enabled,    \* the handles libdbus wants to be polled
  obj,        \* the wrapper: "none", "live" or "deleted"
  refcnt,     \* its intrusive reference count
  removed,    \* the wrappers with removed_ set
  kept,       \* the wrappers another slot of on_watch_add keeps a pointer to
  ctx,        \* the contexts that still point to their wrapper
  posted,     \* the contexts a posted on_..._change closure waits for
  dispatches, \* do_dispatch() closures that are posted
  reactor,    \* the registration: "absent", "idle" (no events) or "active"
  handling,   \* the handle whose closure the reactor runs
  stale,      \* was that closure disconnected meanwhile?
  fault       \* how the process ended, if it did

vars == <<adapter, raw, enabled, obj, refcnt, removed, kept, ctx, posted,
          dispatches, reactor, handling, stale, fault>>

Count(b) == IF b THEN 1 ELSE 0

Alive == fault = "none"

Registered(h) == reactor[h] # "absent"

\* The count of h becomes n, and the wrapper goes with the last reference.
\* Its signals go with it, and with their slots the context.
SetRefs(h, n) ==
  /\ refcnt' = [refcnt EXCEPT ![h] = n]
  /\ obj' = [obj EXCEPT ![h] = IF n = 0 THEN "deleted" ELSE "live"]

-----------------------------------------------------------------------------

\* on_watch_change(): the registration follows the wrapper's flags.  A
\* disabled watch stays registered, without events.
AfterWatchChange(on) == IF on THEN "active" ELSE "idle"

\* on_timeout_change(): the timer is disconnected, and there is a new one if
\* the timeout is enabled.
AfterTimeoutChange(on) == IF on THEN "active" ELSE "absent"

\* The registration of h after an on_..._change() that found it enabled or
\* not.
AfterChange(h, on) ==
  IF h \in Watches THEN AfterWatchChange(on) ELSE AfterTimeoutChange(on)

\* Mutant: the closures are bound to a plain pointer.
Runs_Uncounted(h) == FALSE

\* Does the reactor run the closure of the registration of h?  The closure
\* is bound to a counted pointer to the wrapper, which it keeps until it
\* returns, disconnected or not.
Runs(h) == Registered(h) /\ handling = h /\ ~stale

\* A change of a timeout disconnects its registration.
Disconnects(h) == h \in Timeouts /\ Runs(h)

\* Does on_..._change() register h anew, and read the reactor_ of the adapter
\* for that?  A registered watch is modified through its own connection, and
\* a timer that is not wanted only disconnected.
Registers(h, on) == IF h \in Watches THEN ~Registered(h) ELSE on

\* The adapter changes the registration of h, in a state where libdbus finds
\* it enabled or not.
Change(h, on) ==
  /\ reactor' = [reactor EXCEPT ![h] = AfterChange(h, on)]
  /\ SetRefs(h, refcnt[h] + Count(AfterChange(h, on) # "absent")
                          - Count(Registered(h)) + Count(Disconnects(h)))
  /\ stale' = (stale \/ Disconnects(h))
  /\ fault' = IF adapter = "deleted" /\ Registers(h, on) THEN "adapter_used"
              ELSE fault

\* Mutant: the destructor leaves the adapter connected to the connection.
Hears_AfterDeletion == TRUE

\* Do the signals of the connection reach the adapter: on_watch_add,
\* on_timeout_add and on_dispatch_state?
Hears == adapter = "live"

\* Mutant: the constructor sets the data without a reference for it.
RefsOfNew_NoAddRef(keep) == Count(keep)

\* The references to a new wrapper besides that of its context: that of the
\* data of libdbus' object, and that of another slot.
RefsOfNew(keep) == 1 + Count(keep)

\* Mutant: the first change is not posted.
Add_NotPosted(h) ==
  /\ Alive /\ raw[h] = "none"
  /\ raw' = [raw EXCEPT ![h] = "live"]
  /\ \E on \in BOOLEAN : enabled' = IF on THEN enabled \cup {h} ELSE enabled
  /\ \E keep \in BOOLEAN :
       /\ kept' = IF keep THEN kept \cup {h} ELSE kept
       /\ SetRefs(h, RefsOfNew(keep) + Count(Hears))
  /\ ctx' = IF Hears THEN ctx \cup {h} ELSE ctx
  /\ UNCHANGED <<adapter, removed, posted, dispatches, reactor, handling, stale,
                 fault>>

\* libdbus adds a handle: connection::add_watch() or add_timeout() creates
\* the wrapper, with a reference for the data of libdbus' object, and
\* on_watch_add() or on_timeout_add() gives it a context and posts the first
\* change, if there is an adapter.  Another slot may keep the pointer as well.
Add(h) ==
  /\ Alive /\ raw[h] = "none"
  /\ raw' = [raw EXCEPT ![h] = "live"]
  /\ \E on \in BOOLEAN : enabled' = IF on THEN enabled \cup {h} ELSE enabled
  /\ \E keep \in BOOLEAN :
       /\ kept' = IF keep THEN kept \cup {h} ELSE kept
       /\ SetRefs(h, RefsOfNew(keep) + Count(Hears))
  /\ ctx' = IF Hears THEN ctx \cup {h} ELSE ctx
  /\ posted' = IF Hears THEN posted \cup {h} ELSE posted
  /\ UNCHANGED <<adapter, removed, dispatches, reactor, handling, stale, fault>>

\* The reactor runs the posted closure.  When the handle was removed before,
\* the context has no wrapper any more, and is asked for it all the same.
RunPosted(h) ==
  /\ Alive /\ handling = NoHandle /\ h \in posted
  /\ posted' = posted \ {h}
  /\ \/ /\ h \in ctx
        /\ Change(h, h \in enabled)
     \/ /\ h \notin ctx
        /\ fault' = "null_handle"
        /\ UNCHANGED <<reactor, obj, refcnt, stale>>
  /\ UNCHANGED <<adapter, raw, enabled, removed, kept, ctx, dispatches, handling>>

\* Mutant: no slot of the adapter is connected to on_change.
Connected_Never(h) == FALSE

\* Are the slots of the adapter connected to on_change and on_remove?  They
\* hold the context, and stay when the adapter is deleted.
Connected(h) == h \in ctx

\* libdbus enables or disables a handle, or changes the interval of a
\* timeout: toggled() finds the wrapper through the data, whose on_change
\* reaches on_..._change() at once, if its slot is connected.
Toggle(h) ==
  /\ Alive /\ raw[h] = "live"
  /\ \E on \in BOOLEAN :
       /\ enabled' = IF on THEN enabled \cup {h} ELSE enabled \ {h}
       /\ \/ Connected(h) /\ Change(h, on)
          \/ ~Connected(h) /\ UNCHANGED <<reactor, obj, refcnt, stale, fault>>
  /\ UNCHANGED <<adapter, raw, removed, kept, ctx, posted, dispatches, handling>>

\* Mutant: the context keeps its pointer to the wrapper.
Remove_KeepsPointer(h) ==
  /\ Alive /\ raw[h] = "live"
  /\ raw' = [raw EXCEPT ![h] = "gone"]
  /\ enabled' = enabled \ {h}
  /\ removed' = removed \cup {h}
  /\ reactor' = [reactor EXCEPT ![h] = "absent"]
  /\ SetRefs(h, refcnt[h] - Count(Registered(h) /\ ~Runs(h)) - 1)
  /\ stale' = (stale \/ Runs(h))
  /\ UNCHANGED <<adapter, kept, ctx, posted, dispatches, handling, fault>>

\* libdbus removes a handle.  removed() marks the wrapper and emits
\* on_remove; the adapter disconnects the registration and drops the
\* context's pointer; then libdbus frees its object and the reference in
\* its data.
Remove(h) ==
  /\ Alive /\ raw[h] = "live"
  /\ raw' = [raw EXCEPT ![h] = "gone"]
  /\ enabled' = enabled \ {h}
  /\ removed' = removed \cup {h}
  /\ ctx' = ctx \ {h}
  /\ reactor' = [reactor EXCEPT ![h] = "absent"]
  /\ SetRefs(h, refcnt[h] - Count(Registered(h) /\ ~Runs(h))
                          - Count(h \in ctx) - 1)
  /\ stale' = (stale \/ Runs(h))
  /\ UNCHANGED <<adapter, kept, posted, dispatches, handling, fault>>

\* A descriptor is ready or a timer due: on_io_ready() or on_timer() calls
\* the wrapper's handle(), and that libdbus.
Ready(h) ==
  /\ Alive /\ handling = NoHandle /\ reactor[h] = "active"
  /\ handling' = h
  /\ stale' = FALSE
  /\ UNCHANGED <<adapter, raw, enabled, obj, refcnt, removed, kept, ctx, posted,
                 dispatches, reactor, fault>>

\* libdbus is through, and the closure returns; one that was disconnected
\* goes now.
HandleReturns(h) ==
  /\ Alive /\ handling = h
  /\ handling' = NoHandle
  /\ stale' = FALSE
  /\ \/ stale  /\ SetRefs(h, refcnt[h] - 1)
     \/ ~stale /\ UNCHANGED <<obj, refcnt>>
  /\ UNCHANGED <<adapter, raw, enabled, removed, kept, ctx, posted, dispatches,
                 reactor>>

\* Mutant: removed_ is not looked at.
AsksRaw_Always(h) == TRUE

\* May the wrapper ask libdbus' object: all that watch and timeout can be
\* asked looks at removed_ first.
AsksRaw(h) == h \notin removed

\* The wrapper is asked for something that libdbus' object has to answer.
Asked(h) ==
  IF obj[h] = "deleted" THEN "dangling"
  ELSE IF AsksRaw(h) /\ raw[h] # "live" THEN "raw_used"
  ELSE fault

\* The holder of another pointer asks the wrapper at any time.
Use(h) ==
  /\ Alive /\ h \in kept
  /\ fault' = Asked(h)
  /\ UNCHANGED <<adapter, raw, enabled, obj, refcnt, removed, kept, ctx, posted,
                 dispatches, reactor, handling, stale>>

\* It drops the pointer.
Drop(h) ==
  /\ Alive /\ h \in kept
  /\ kept' = kept \ {h}
  /\ SetRefs(h, refcnt[h] - 1)
  /\ UNCHANGED <<adapter, raw, enabled, removed, ctx, posted, dispatches,
                 reactor, handling, stale, fault>>

\* ~tscb_adapter(), at any time, from within a slot that a handler reaches
\* too: on_io_ready() and on_timer() do not touch the adapter after handle().
DeleteAdapter ==
  /\ Alive /\ adapter = "live"
  /\ adapter' = "deleted"
  /\ UNCHANGED <<raw, enabled, obj, refcnt, removed, kept, ctx, posted,
                 dispatches, reactor, handling, stale, fault>>

\* libdbus reports that there is something to dispatch, wherever it may:
\* on_dispatch_state() posts a closure.
Report ==
  /\ Alive /\ Hears /\ dispatches < MaxDispatches
  /\ dispatches' = dispatches + 1
  /\ UNCHANGED <<adapter, raw, enabled, obj, refcnt, removed, kept, ctx, posted,
                 reactor, handling, stale, fault>>

\* The reactor runs a do_dispatch().  It reads the conn_ of the adapter, and,
\* if dispatch() says that there is more, the reactor_ to post itself again; a
\* handler of the message may delete the adapter in between.  What else the
\* handlers do is a step of its own.
RunDispatch ==
  /\ Alive /\ handling = NoHandle /\ dispatches > 0
  /\ adapter' \in {adapter, "deleted"}
  /\ \E more \in BOOLEAN :
       \/ /\ adapter = "live" /\ (more => adapter' = "live")
          /\ dispatches' = dispatches - Count(~more)
          /\ UNCHANGED fault
       \/ /\ adapter = "deleted" \/ (more /\ adapter' = "deleted")
          /\ fault' = "adapter_used"
          /\ UNCHANGED dispatches
  /\ UNCHANGED <<raw, enabled, obj, refcnt, removed, kept, ctx, posted, reactor,
                 handling, stale>>

-----------------------------------------------------------------------------
(***************************************************************************)
(* The same, as watch.cc, timeout.cc and the callbacks of connection.cc    *)
(* and tscb-adapter.cc write it down for each kind of handle               *)
(***************************************************************************)

\* connection::add_watch() and add_timeout()
AddWatch(h)   == Add(h)
AddTimeout(h) == Add(h)

\* glue::watch::toggled() and glue::timeout::toggled()
ToggleWatch(h)   == Toggle(h)
ToggleTimeout(h) == Toggle(h)

\* glue::watch::removed() and glue::timeout::removed()
RemoveWatch(h)   == Remove(h)
RemoveTimeout(h) == Remove(h)

\* on_io_ready() calls watch::handle().
OnIoReady(h) == Ready(h)
WatchHandled(h) == HandleReturns(h) /\ UNCHANGED fault

\* on_timer() calls timeout::handle(), and then asks for the interval.
OnTimer(h) == Ready(h)
TimerHandled(h) == HandleReturns(h) /\ fault' = Asked(h)

\* watch::fd(), flags(), enabled(), handle(), and timeout::ms_interval(),
\* enabled(), handle().
UseWatch(h)   == Use(h)
UseTimeout(h) == Use(h)

Init ==
  /\ adapter = "live"
  /\ raw = [h \in Handles |-> "none"]
  /\ obj = [h \in Handles |-> "none"]
  /\ refcnt = [h \in Handles |-> 0]
  /\ reactor = [h \in Handles |-> "absent"]
  /\ enabled = {} /\ removed = {} /\ kept = {} /\ ctx = {} /\ posted = {}
  /\ dispatches = 0
  /\ handling = NoHandle /\ stale = FALSE
  /\ fault = "none"

\* The functions that connection gives to libdbus for watches, and what
\* happens to one in the reactor.
WatchStep(h) ==
  \/ AddWatch(h) \/ ToggleWatch(h) \/ RemoveWatch(h)
  \/ OnIoReady(h) \/ WatchHandled(h) \/ UseWatch(h)

\* The same for timeouts.
TimeoutStep(h) ==
  \/ AddTimeout(h) \/ ToggleTimeout(h) \/ RemoveTimeout(h)
  \/ OnTimer(h) \/ TimerHandled(h) \/ UseTimeout(h)

Next ==
  \/ \E h \in Watches : WatchStep(h)
  \/ \E h \in Timeouts : TimeoutStep(h)
  \/ \E h \in Handles : RunPosted(h) \/ Drop(h)
  \/ DeleteAdapter \/ Report \/ RunDispatch

Spec == Init /\ [][Next]_vars

\* The handler of h returns.
Handled(h) ==
  \/ h \in Watches  /\ WatchHandled(h)
  \/ h \in Timeouts /\ TimerHandled(h)

\* Handlers return, and the reactor runs the closures posted to it in every
\* turn of its loop, however many handles are ready: strong fairness, since
\* no posted closure runs while a handler does.
FairSpec ==
  Spec /\ \A h \in Handles : SF_vars(RunPosted(h)) /\ WF_vars(Handled(h))

-----------------------------------------------------------------------------
(***************************************************************************)
(* Properties                                                              *)
(***************************************************************************)

\* Type correctness: no count goes below zero.
TypeOK ==
  /\ adapter \in {"live", "deleted"}
  /\ raw \in [Handles -> {"none", "live", "gone"}]
  /\ obj \in [Handles -> {"none", "live", "deleted"}]
  /\ refcnt \in [Handles -> Nat]
  /\ reactor \in [Handles -> {"absent", "idle", "active"}]
  /\ enabled \subseteq Handles /\ removed \subseteq Handles
  /\ kept \subseteq Handles /\ ctx \subseteq Handles /\ posted \subseteq Handles
  /\ dispatches \in Nat
  /\ handling \in Handles \cup {NoHandle}
  /\ stale \in BOOLEAN
  /\ fault \in {"none", "null_handle", "adapter_used", "dangling", "raw_used"}

\* Whoever may call into a wrapper finds it alive: libdbus, through the data
\* of its object, the registration and the closure that runs, the context,
\* the holder of a pointer.
WrapperOutlivesItsUsers ==
  \A h \in Handles :
    (raw[h] = "live" \/ Registered(h) \/ handling = h \/ h \in ctx \cup kept)
      => obj[h] = "live"

\* The reactor polls what libdbus wants polled, though the adapter may be
\* gone: from the moment the closure posted for a handle has run, its
\* registration follows every toggle, in and outside of handlers.  A removed
\* handle is not polled, whatever toggled or ran before: its descriptor may
\* be that of another file, its timer calls a wrapper libdbus let go of.
RegistrationFollows ==
  \A h \in Handles :
    Alive => /\ h \in ctx \ posted => reactor[h] = AfterChange(h, h \in enabled)
             /\ h \in removed => ~Registered(h)

\* The cycle of wrapper, slots and context is broken when a handle is
\* removed: nothing that libdbus, the reactor and the users let go of stays.
NothingLeaks ==
  \A h \in Handles :
    Alive /\ raw[h] = "gone" /\ handling # h /\ h \notin kept => obj[h] = "deleted"

\* No wrapper is asked for something libdbus' object has to answer after
\* that was freed, and on_timer() does not ask a wrapper that is gone.  Two
\* faults are left.  A removal overtakes the closure posted when the handle
\* was added: on_..._change() follows the null pointer of its context.  Or
\* the adapter was deleted too early: a handle it knew has to be registered
\* (a timeout, or a watch whose closure waits), or a do_dispatch() waits.
OnlyKnownFaults ==
  \/ Alive
  \/ fault = "null_handle"  /\ \E h \in Handles : h \in removed /\ ~Registered(h)
  \/ fault = "adapter_used" /\ adapter = "deleted" /\ (ctx # {} \/ dispatches > 0)

\* Nothing that is bound to the `this' of the adapter is left: no slot of a
\* wrapper, no posted change, no posted do_dispatch().
Unbound == ctx = {} /\ posted = {} /\ dispatches = 0

\* When an adapter may be deleted: libdbus has removed the handles it knew,
\* and the reactor has run everything it posted, be it before or after the
\* deletion.  Then nothing gets bound to the dead adapter again, whatever
\* libdbus adds, toggles and reports and whatever wrappers the user still
\* keeps and asks; a closure that runs at the time returns.  To close the
\* connection first is not enough, as what is posted outlasts the handles.
AdapterMayGo ==
  [](Alive /\ adapter = "deleted" /\ Unbound => [](Alive /\ Unbound))

\* Every handle that is enabled gets polled, unless libdbus changes its mind
\* or the process ends.  A deleted adapter leaves the closures it posted in
\* the reactor, so that a handle it knew is polled or ends the process.
EventuallyPolled ==
  \A h \in Handles :
    (h \in ctx /\ h \in enabled)
      ~> (reactor[h] = "active" \/ h \notin enabled \/ ~Alive)

=============================================================================
