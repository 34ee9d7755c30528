# TLA+ models of dbuscc

dbuscc is a C++ binding of libdbus: counted wrapper objects around
`DBusConnection`, `DBusPendingCall`, `DBusMessage`, `DBusWatch` and
`DBusTimeout`, signals for what libdbus reports through callbacks, and an
adapter that runs a connection in a tscb reactor. The repository's tests are
almost all empty; what can go wrong here is not in the values but in the order
of things: user code runs inside of libdbus' callbacks and may drop, cancel,
disconnect or close anything while the library is in the middle of a step.

The models have one thread, as the library has, with **re-entrancy** for the
concurrency: every user action is enabled between two turns of the reactor and
inside of every slot and handler. libdbus, the reactor and the peer are the
environment. They are modelled from how the code in `src/` uses them and marked
`external` in the map of `PROJECT.json`.

## 1. Inventory

| component | source | state | operations | hard part | what makes it correct |
|---|---|---|---|---|---|
| pending call | `src/src/pending-call.cc`, `src/include/dbuscc/pending-call.h` | `state_`, `error_`, `reply_message_`, reference count, a reference to the `DBusPendingCall` | construct, `cancel`, `notify` (from libdbus), `reply`, destroy | libdbus keeps the bare `this`; slots cancel or drop the call that is notified; late answers and timeouts | never notified after deletion, completes once, outcome final, references balance, every wait ends |
| connection | `src/src/connection.cc`, `connection.h` | `DBusConnection*`, `handlers_installed_`, reference count, signals | `send`, `call`, `dispatch`, `install_handlers`, `close`, the six callbacks given to libdbus | shared against private connections; two-step destructor; close by user, peer, shutdown | references balance, no open connection loses its last reference, reports reach a living wrapper |
| bus | `src/src/bus.cc` | none of its own; `dbus_shutdown()` when destroyed | `open`, `open_private`, `create`, destroy | shutdown is global | connections survive it as closed ones |
| watch, timeout | `src/src/watch.cc`, `timeout.cc` | `DBusWatch*`/`DBusTimeout*`, `removed_`, reference count; one reference belongs to libdbus' data | `fd`, `flags`, `enabled`, `ms_interval`, `handle`, toggled, removed | removal or toggling from within the own handler; wrappers that outlive libdbus' object | never ask a freed object; live as long as somebody may call them, and no longer |
| tscb adapter | `src/src/tscb-adapter.cc`, `tscb/adapter.h` | connections to signals, one context per watch and timeout, posted closures | construct, destroy, `on_dispatch_state`, `do_dispatch`, `on_watch_*`, `on_timeout_*`, `on_io_ready`, `on_timer` | status changes are reported, not messages; registration is posted; closures are bound to `this` | no wakeup lost, reactor comes to rest, registration follows libdbus |
| signals | `src/include/yash.hpp` | vector of callbacks, owner and function of each, weak pointers of connections | connect, disconnect, emit, destroy | slots connect, disconnect, emit and destroy during emissions | fresh slots wait, each connected slot is called once and in order, nothing is called after destruction |
| messages | `call-`, `signal-`, `return-`, `error-message.cc` | `DBusMessage*`, reference count | create or adopt, `send`, destroy | shared with libdbus' write queue and iterators | the `DBusMessage` goes with the last user |
| reader, writer | `message-reader.cc`, `message-writer.cc` | counted pointer, libdbus iterator | construct, copy, assign, destroy, `pop_*`, `push_*` | iterators into memory that a message owns | the message outlives them |
| error | `error.cc` | a `DBusError` | `is_set`, `name`, `type` | - | classification |
| reference counting | `pointer.h` | the count | add, release | release in the middle of a step | see each object |
| example | `src/examples/tscb-integration.cc` | nine locals, a flag, one slot | `main`, `on_hello_reply` | all components at once; neither the connection nor the call is checked; destruction in reverse order | the program ends, reactor, flag and bus outlive what refers to them, nothing is left |
| value types, mocks, tracing, tests | `bus-name.cc` ..., `mocks.h`, `trace.h` | none that changes | - | - | not modelled |

How they interact: the user calls `connection`, which calls libdbus. libdbus
calls back with the bare pointer it was given at registration (`glue::*` static
functions), the wrapper emits a signal, and slots (user code and the adapter)
run inside. The adapter posts closures to the reactor and registers watches and
timers there, and the reactor calls back through it into `watch::handle`,
`timeout::handle` and `connection::dispatch`.

`config.h` may select tscb or boost signals; `yash.hpp`, the fallback, is the one
whose code is in the repository and is the one modelled.

## 2. Modules

| module | models | state and actions |
|---|---|---|
| `AsyncCall` | the abstract promise of a call | `phase` of each call: idle, waiting, answered, abandoned |
| `PendingCall` | `connection::call()`, `pending_call`, its reply | variables are the members (`state`, `error`, `reply`, `refcnt`), the counts of the `return_message` and its `DBusMessage`, and libdbus' view (`raw`, `rawref`, `incoming`, `timer`). `ErrorType` is `error::type()`. `Call`, `CallFails`, `AddRef`, `Release`, `Cancel`, `TakeReply`, `DropReply` are the user's; `Dispatch` is one `connection::dispatch()` up to and into the slots (`Notify`, `NotifyPending`, `NotifyCanceled`); `NotifyReturns` is the return from the slots |
| `Signal` | one `yash::signal` | `cb` is `cb_`; `owner` the callbacks whose `owner` and `fn` are set; `handles` the connection objects with a set weak pointer, `AutoHandles` those that an `auto_connection` holds, `frames` the stack of emissions. `Emit`, `SkipExpired`, `CallSlot`, `SlotReturns`, `EmitReturns` are the loop of `operator()`; `Connect`, `Disconnect`, `Drop` (a connection object goes), `Destroy` run wherever user code does |
| `DispatchPump` | `connection::dispatch()`, the status callback, `on_dispatch_state()`, `do_dispatch()` | `posted` closures, `last` status, `busy` while handlers run. `Construct`, `Delete`, `RunPosted`, `EndDispatch`; libdbus does `Receive` and `UpdateStatus` |
| `MainLoop` | `watch`, `timeout`, and the adapter's contexts and registrations | `adapter`, `obj`, `refcnt`, `removed`, `ctx`, `posted`, `dispatches`, `reactor`, `handling`, `stale`. One action per callback of libdbus and of the reactor, the shared part of watches and timeouts written once; of the dispatch chain `Report` and `RunDispatch`, as far as they bind closures to the adapter; `DeleteAdapter` may happen at any time, and leaves the slots and closures that are bound to the adapter's `this` |
| `Connection` | `bus`, `connection`, `shared_connection`, `private_connection` | `raw`, `refcnt`, `installed`, `watching` (the wrappers whose watch object is in use), and libdbus' `conn`, `connref`, `handler`. The destructor has two steps (`DestroyDerived`, `DestroyBase`), since libdbus may call a handler while the first one closes |
| `Messages` | the message classes, readers and writers | `refcnt`, `rawref`, `queued` (how often libdbus has the message to write), `msg_`, `at` (where the libdbus iterator points). `Send` may fail, `CreateFails` is a `DBusMessage` that could not be made |
| `TscbIntegration` | `main()` and `on_hello_reply()` of the example, with the connection, the adapter, the reactor and the call reduced to what they see of each other | `pc`, `built` (how many locals exist), `stop`, `slot`; `link`, `queue`, `last`; `live`, `posted`, `polled`, `dispatches`, `running`; `call`, `callrefs`. One action per constructor and destructor of a local with a consequence, one per closure, handler and timer of the reactor, `Disconnect` by the peer at any time. Refines `DispatchPump` |
| `MCConnection`, `MCMessages` | symmetry sets for TLC | |
| `PendingCallProofs`, `DispatchPumpProofs`, `SignalProofs`, `MainLoopProofs`, `ConnectionProofs`, `MessagesProofs`, `TscbIntegrationProofs` | the inductive invariants and the theorems of the module each is named for | none of their own |

Faults end the process: where the code would abort or use freed memory, the
model sets `fault`, and nothing happens afterwards. Properties then say which
faults cannot happen. Definitions called `<Name>_<Bug>` ("Mutant: ...") are
broken variants of the definition `<Name>`, one for each property, and part of
no specification; `PROJECT.json` names the property that each one must break.

## 3. Runs

| run | bounds | properties | shows |
|---|---|---|---|
| `pending_call` | 2 calls, 2 references each, queue of 2, one call that libdbus may notify late, NO_REPLY and an error of no known name, fairness | `TypeOK`, `NoDangling`, `NotifyNeverAborts`, `RawBalance`, `ReplyBalance`, `IInv`, `OutcomeStable`, `ImplementsAsyncCall`, `EventuallySettled` | the bare `this` never outlives the wrapper; one completion, no leak or double unref, refinement of `AsyncCall`; no call waits for ever |
| `failure_state` | 1 call, NO_REPLY, another known error and an unknown one | `FailureStateReported` **violated** | finding 1 |
| `call_disconnected` | 1 call | `CallGetsPending` **violated** | finding 2 |
| `signal` | 3 slots, a connection and an auto_connection of each, 3 nested emissions | `TypeOK`, `FreshSlotsWait`, `AutoBoundsSlot`, `EverySlotCalledOnce`, `DestroyedIsSilent` | the promises of `yash::signal` under re-entrancy |
| `signal_empty_call` | 2 slots, depth 2 | `NoEmptyCall` **violated** | finding 3 |
| `dispatch_pump` | 5 messages, 2 shortages of memory, fairness | `NoLostWakeup`, `ClosuresBounded`, `PumpInv`, `EventuallyDispatched`, `ReactorSleeps` | the chain of closures neither breaks nor multiplies |
| `main_loop` | 2 watches, 1 timeout, 2 `do_dispatch()` closures that wait, fairness | `TypeOK`, `WrapperOutlivesItsUsers`, `RegistrationFollows`, `OnlyKnownFaults`, `AdapterMayGo`, `NothingLeaks`, `EventuallyPolled` | lives of wrappers and the reactor's view of them, with the adapter and after it; when an adapter may be deleted |
| `connection` | 4 wrappers, 2 shared and 2 private connections, 2 buses, 2 references | `TypeOK`, `ReferencesMatch`, `ClosedBeforeDropped`, `PrivateReportsArrive`, `WatchFollowsConnection` | the balance across close, disconnect and shutdown; who hears of watches |
| `shared_handlers` | 3 wrappers, 2 shared, 1 private | `HandlersGoWithWrapper` **violated** | finding 4 |
| `messages` | 2 messages, 2 readers, 2 writers, 2 references, each message queued twice at most | `TypeOK`, `RawBalance`, `CountBalance`, `OriginalsFindMessage` | messages outlive what was made of them, sent once, twice or not at all |
| `copied_iterator` | the same | `IteratorHoldsMessage` **violated** | finding 5 |
| `tscb_integration` | 5 messages of the peer, fairness | `TypeOK`, `LocalsOutliveTheirUsers`, `NothingLeaks`, `Terminates`, `ImplementsPump` | the components together end the program, in a safe order, and dispatch as `DispatchPump` says |

Deadlock is not checked: objects are created once in each model and a fault ends
the process, so that every system may stop. Liveness is stated as a property
instead.

Why the bounds are enough. Two calls allow the slots of one to act on the
other, and on itself; two references allow a drop that is not the last; a
peer stops sending at a queue of two, which holds an answer with a second
answer or the answer of the other call (timeouts queue regardless of it). `notify()` does
the same for all errors but NO_REPLY, so that one other name is enough.
Three slots leave one before, one after and one that acts, and three nested
emissions leave one in the middle. Five messages allow any mixture of "before
the adapter", "behind another", "during a handler" around two shortages. The
handles of `MainLoop` only meet in `handling` and in the adapter, so that two of one kind and one
of the other have every pair; two `do_dispatch()` closures allow one that runs before the deletion
and one that is left. A message queued twice is written once while it still waits. Two wrappers on one shared connection and a
second connection after it was closed need two shared connections, with two
more wrappers for the private ones. Five messages of the peer let a signal, an answer, a
second answer and more come before, between and behind each other. A third iterator of either kind could only
repeat the copy of a copy. Symmetry is used where no liveness is checked and
the sets are interchangeable (`connection`, `messages`).

### Fairness

* `PendingCall`: weak fairness of `Dispatch` (the reactor keeps dispatching:
  this is what `DispatchPump` shows of the adapter), of `NotifyReturns` (slots
  return), and of `Timeout(c)` for each call. `connection::call()` passes -1, libdbus'
  default timeout, so that every call has one; it fires after a disconnect too.
* `DispatchPump`: weak fairness of `RunPosted` and `EndDispatch` (the reactor runs
  what was posted, handlers return). Nothing is assumed of `Receive`,
  `UpdateStatus` or the memory coming back: the shortages are bounded instead.
* `MainLoop`: weak fairness of handlers that return, strong fairness of
  `RunPosted`: the reactor runs posted closures in every turn, but not while a
  handler runs, so that the step is enabled again and again and not all the time.
* `TscbIntegration`: weak fairness of the steps of `main()`, of `EndDispatch` (handlers
  return), of `RunDispatch`, `RunPosted` and `TimerDue` (the reactor runs what is posted
  and the timer that is due). Nothing is assumed of the peer: `WatchReady` and
  `Disconnect` need not happen.

### What is assumed of libdbus and the reactor

* A cancelled call is not notified, except those in `LateCalls`. The comment in
  `notify()` (`pending-call.cc:106`) allows for one more notification when the reply had
  been received; a call in `LateCalls` may get it. `NoDangling` excepts these:
  with a late notification nothing in dbuscc could keep the wrapper. Every other property
  holds for them too.
* An exchange of the watch functions announces the watches through the new ones
  and then removes them through the old ones; closing a connection removes
  its watches.
* libdbus may send a status report whenever its status differs from the last one
  and otherwise sends none; `dbus_connection_dispatch()` takes one message.
* The reactor runs closures outside of each other and keeps a running closure
  alive after it was disconnected.
* libdbus holds a reference to an open shared connection, `dbus_shutdown()` closes
  these, and dropping the last reference to an open connection aborts.
* libdbus may call the handlers of a connection as long as it exists, closed or
  not.
* `create_reader()` returns a temporary whose copy the compiler elides; a compiler that does not
  turns every reader into a copied one (finding 5).

## 4. Findings

1. `failure_state` - `notify()` stores `STATE_TIMEOUT` or `STATE_ERROR` and overwrites it with
   `STATE_COMPLETED` (`pending-call.cc:128`) before the slots run: the states are never seen.
2. `call_disconnected` - after the transport is gone
   `dbus_connection_send_with_reply()` returns TRUE with a NULL pending call, and
   `connection::call()` asserts (`connection.cc:190`).
3. `signal_empty_call` - a slot that is disconnected while it runs, by itself or by a
   slot of a nested emission, is still locked by the outer emission; a nested emission that has it
   in its copy of the vector calls its empty function (`yash.hpp:152`).
4. `shared_handlers` - the last wrapper of a shared connection goes, libdbus
   keeps the connection, and the handlers still hold the deleted wrapper (`connection.cc:215,251,301`).
5. `copied_iterator` - the copy constructors of reader and writer copy the iterator and
   leave `msg_` null, `operator=` leaves it at the old message (`message-reader.cc:47-59`).

More observations are part of the models but of no run. A copy of a
connection to a slot that was disconnected while it runs still answers
`connected()` (`yash.hpp:72`, against the comment at lines 57-58). A slot that
destroys its signal and then disconnects itself runs `del_callback()` on the
dead signal (fault `invalid_callback`). A watch that libdbus removes before the
reactor ran the closure posted for it makes `on_watch_change()` follow a null
pointer (`tscb-adapter.cc:93`, fault `null_handle`). A deleted adapter is followed through
the `this` of its slots when a handle it knew has to be registered (`tscb-adapter.cc:107,166`),
and through that of a `do_dispatch()` that waits (line 197, fault `adapter_used`).
`OnlyKnownFaults` says that these two are the only ways to a fault in `MainLoop`. To close the
connection before the adapter goes does not prevent them, as the closures that were posted
outlast the handles. `AdapterMayGo` says what does: once libdbus has removed the handles and the
reactor has run everything that was posted, before the deletion or after it, nothing is
bound to the dead adapter and nothing will be. A second
wrapper of a shared connection that installs its handlers gets watches that are
removed in the same moment, and those of the first are never removed:
`WatchFollowsConnection` speaks of wrappers that are alone. The example ends by
itself or by one of the faults in `Unchecked`: a null connection or call, an answer that is
neither an error nor a return (`tscb-integration.cc:56`), or an early removal.

## 5. Proofs

Every invariant and every action property that a passing run checks is also proved,
for every value of the constants that the named `ASSUME`s of the modules allow:
sentinels are outside of the sets they complete, bounds are naturals, NO_REPLY is a
name of an error, the sets whose members are counted (wrappers, readers and writers) are finite. The scheme
is the same everywhere. The property is seldom inductive; a strengthening of it
is, whose parts are named definitions. TLC checked each of these on the
instance of the run before it was proved. One lemma per action has one step per part
that the action disturbs; the properties follow from the invariant.

| module | inductive invariant | theorems (property of a run) |
|---|---|---|
| `PendingCallProofs` | `IInv` | `TypeCorrect` (`TypeOK`), `WrapperOutlivesNotify` (`NoDangling`), `PendingAssertionHolds` (`NotifyNeverAborts`), `ReferencesBalance` (`RawBalance`), `RepliesBalance` (`ReplyBalance`), `OutcomeIsStable` (`OutcomeStable`), `Refinement` (`ImplementsAsyncCall`), `EndsAreFinal` |
| `DispatchPumpProofs` | `PumpInv` | `NoWakeupIsLost` (`NoLostWakeup`), `ClosuresStayBounded` (`ClosuresBounded`) |
| `SignalProofs` | `SignalInv` | `SignalTypesCorrect` (`TypeOK`), `FreshSlotsDoWait` (`FreshSlotsWait`), `AutoDoesBound` (`AutoBoundsSlot`), `SlotsAreCalledOnce` (`EverySlotCalledOnce`), `DestroyedStaysSilent` (`DestroyedIsSilent`), `EmptyCallsAreNested` |
| `MainLoopProofs` | `LoopInv` | `HandleTypesCorrect` (`TypeOK`), `WrappersOutliveUsers` (`WrapperOutlivesItsUsers`), `RegistrationIsKept` (`RegistrationFollows`), `FaultsAreKnown` (`OnlyKnownFaults`), `NoWrapperLeaks` (`NothingLeaks`), `AdapterGoesUnbound` (`AdapterMayGo`) |
| `ConnectionProofs` | `ConnInv` | `ConnectionTypesCorrect` (`TypeOK`), `ReferencesAreMatched` (`ReferencesMatch`), `ClosedBeforeTheLastUnref` (`ClosedBeforeDropped`), `PrivateReportsGetThrough` (`PrivateReportsArrive`), `WatchesFollow` (`WatchFollowsConnection`) |
| `MessagesProofs` | `MessagesInv` | `MessageTypesCorrect` (`TypeOK`), `RawReferencesBalance` (`RawBalance`), `MessageCountsBalance` (`CountBalance`), `OriginalsAreSafe` (`OriginalsFindMessage`) |
| `TscbIntegrationProofs` | `ProgramInv` | `ProgramTypesCorrect` (`TypeOK`), `DeclarationOrderIsSafe` (`LocalsOutliveTheirUsers`), `ProgramLeavesNothing` (`NothingLeaks`), `ProgramImplementsPump` (`ImplementsPump`), `MessagesAreNotStranded`, `ProgramImplementsCall` |

Why each invariant is needed:

* `IInv`: nothing in `NoDangling` and the balances says that a deleted wrapper was
  cancelled, or that a call libdbus may still notify is pending. `CountMatchesObject`: an
  object exists as long as it is counted. `RawMatchesWrapper`: what libdbus will
  still do follows from the wrapper's state; this is where the `cancel()` in the
  destructor is needed. `OutcomeMatchesEmission`: reply, error and emission
  change together, once. `QuietStep` covers the actions that touch only libdbus' queue.
  For the refinement, `PhaseStep` says that a step changes the phase of
  one call at most, along one of the arrows of `AsyncCall`; `EndsAreFinal` says of the
  wrapper what those arrows mean.
* `PumpInv`: `StatusMatchesQueue` and `StatusHasClosure` (a status other than COMPLETE always
  has a closure, because both the report and the result of a dispatch post one)
  and `ClosuresPaid`, which charges each closure to the status, to a shortage or to a message
  that came while a handler ran.
* `SignalInv`: `FrameOK` looks at the *plan* of an emission, the slots it has called followed
  by those it still has to do. The plan repeats nothing, has only slots made before the
  emission began and, while the signal exists, every one of them that is still connected, in the
  order of the vector. Emissions move slots within their plan, and the vector changes under
  them only in ways that keep this (`VectorChanges`). When the rest is empty the
  plan is what was called, which is `EverySlotCalledOnce`. The lemmas on sequences are about
  membership, repetition and order under append, tail, concatenation and removal.
  `EmptyCallsAreNested` shows how far finding 3 goes: an empty function is only
  called by an emission nested in one that runs the same slot.
* `LoopInv`: that a wrapper is alive says nothing of how many references keep it so.
  `RefsCounted` adds them up: libdbus' data, the context, another slot's pointer, the
  registration, a closure that still runs. `HandleOrder` and `ClosureOrder` say in which
  order a handle gets and loses these. `AdapterMayGo` rests on a stable predicate besides: with the
  adapter deleted and nothing bound to it, no step binds anything or ends in a fault (`UnboundStays`).
* `ConnInv`: the count of a `DBusConnection` is the number of its `Holders` and one for
  libdbus' registry. That is inductive with `WrappersHaveConns` (a wrapper has its connection to the end of its
  life, and a dying one of a private connection has closed it), `PrivateHasOneWrapper` and
  `HandlersInstalled` (libdbus' functions lead to a wrapper that installed them there).
* `MessagesInv`: the counts are inductive once nothing points to a message or waits for it
  before it is made (`QueuedWereMade`), and originals keep the message they point into (`ItersInPlace`). `OriginalsFindMessage` speaks of
  the access that ended the process too, in the state it left behind (`AccessFindsOriginals`).
* `ProgramInv`: how far `main()` is (`PhasesOK`) determines who refers to the connection
  (`LinkOK`) and to the call (`CallOK`), and with them which handles libdbus can still have
  (`HandlesOK`). `ReceivedOK` bounds the messages: two besides the peer's, one for the timeout and
  one for the lost connection. For the refinement every step of the program is mapped to `Receive`,
  `Construct`, `RunPosted`, `EndDispatch` or `Delete` of `DispatchPump`, or to none (`UnseenStep`).
  `MessagesAreNotStranded` then carries the two theorems about `DispatchPump` over to the
  program, without another look at its steps: the composition is where they are used.
  `ProgramImplementsCall` is a second refinement, of `AsyncCall` by the one call of the program.

What the proofs do not cover, and TLC alone checks: liveness under fairness
(`EventuallySettled`, `EventuallyDispatched`, `ReactorSleeps`, `EventuallyPolled`, `Terminates`), which
needs `ENABLED`, and the five runs that expect a violation, which are counterexamples. The
faithfulness of the models to the code, and what is assumed of libdbus (section 3), is outside of both.

## 6. Not modelled

* Values: what a reader reads (`get_basic()` does not advance the iterator), the
  width of booleans, names, signatures, flags of watches, intervals. Nothing in the
  repository says what two `pop_` calls in a row return, and what a locked message or
  a stale iterator answers is libdbus' business.
* The value types (`bus-name.cc`, `object-path.cc`, `interface.cc`, `member.cc`,
  `signature.cc`): strings that never change, without validation.
* The life of a `DBusError`; what an open that fails leaves in its error (`glue::err()` does not clear one that is set).
* The memory order of the counts in `pointer.h`: everything runs on one thread.
* The life of the arguments bound to a slot while it runs (a slot that disconnects itself
  destroys them); the one cycle through bound arguments that the repository has, that
  of the example, is in `TscbIntegration`.
* A second adapter on one connection, and one on a wrapper whose handlers
  are installed already.
* tscb's and boost's signals (external), the mocks (stubs that return constants),
  tracing, the tests (almost all empty).

## 7. Plan

All of the modules that were planned exist: `AsyncCall`, `PendingCall`, `Signal`, `DispatchPump`,
`MainLoop`, `Connection`, `Messages` and their composition `TscbIntegration`, each with its run and its
proofs. What is left, in this order:

1. The exact extent of findings 4 and 5, as `EmptyCallsAreNested` gives it for finding 3: which
   wrappers leave handlers behind, and which copies lose their message.
2. More of what carries a theorem over to the program: `TscbIntegration` reduces the watch, the
   timeout and the connection too, and could be shown to refine `MainLoop` and `Connection`.
3. Values of readers and writers, if the repository ever states what they are.
