------------------------------ MODULE Connection ------------------------------
(***************************************************************************)
(* bus objects, the connection wrappers they open, and the DBusConnections *)
(* behind those.  A private DBusConnection belongs to one wrapper; a       *)
(* shared one is found again by every bus::open() for its address, each of *)
(* which makes a new wrapper, and libdbus keeps a reference of its own to  *)
(* it while it is open.  install_handlers() gives libdbus the bare `this'  *)
(* of a wrapper, and nothing takes it back.                                *)
(*                                                                         *)
(* A DBusConnection has one DBusWatch here, for as long as it is open; all *)
(* its watches and timeouts fare alike.  Each wrapper that installs its    *)
(* handlers announces it by a watch object of its own, and libdbus finds   *)
(* the one that was made last.                                             *)
(*                                                                         *)
(* One address is modelled: at any time there is one open shared           *)
(* DBusConnection at most.  libdbus is modelled from how bus.cc and        *)
(* connection.cc use it.                                                   *)
(***************************************************************************)
EXTENDS Integers, FiniteSets

CONSTANTS
  Wrappers,     \* the connection objects
  Shared,       \* the DBusConnections that libdbus shares
  Private,      \* the DBusConnections that it does not
  NoConn,       \* "the wrapper refers to none"
  NoWrapper,    \* "no handlers are installed"
  MaxRefs,      \* bound: references held to one wrapper
  MaxBuses      \* bound: bus objects at the same time

Conns == Shared \cup Private

ASSUME ConnsAssumption == Shared \cap Private = {} /\ NoConn \notin Conns
ASSUME WrappersAssumption == NoWrapper \notin Wrappers /\ IsFiniteSet(Wrappers)
ASSUME BoundsAssumption == MaxRefs \in Nat /\ MaxBuses \in Nat

VARIABLES
  buses,      \* the number of bus objects
  obj,        \* the wrapper: "none", "live", "dying" (in its destructor), "deleted"
  refcnt,     \* its intrusive reference count
  raw,        \* raw_, its DBusConnection
  installed,  \* the wrappers that installed their handlers
  conn,       \* the DBusConnection: "none", "open", "closed" or "freed"
  connref,    \* references to it
  handler,    \* the wrapper its functions will be called with
  watching,   \* the wrappers whose watch object was announced and not removed
  fault       \* how the process ended, if it did

vars == <<buses, obj, refcnt, raw, installed, conn, connref, handler, watching,
          fault>>

Count(b) == IF b THEN 1 ELSE 0

Alive == fault = "none"

Faults == {"none", "shared_close", "dropped_open", "dangling"}

\* The reference of libdbus to a shared connection.
Registry(c) == Count(c \in Shared /\ conn[c] = "open")

-----------------------------------------------------------------------------
(***************************************************************************)
(* DBusConnections                                                         *)
(***************************************************************************)

\* May dbus_connection_open() or dbus_connection_open_private() return c?  A
\* shared connection is returned as long as it is open, then there is a new
\* one.
Opens(c) ==
  \/ conn[c] = "none" /\ \A s \in Shared : c \in Shared => conn[s] # "open"
  \/ conn[c] = "open" /\ c \in Shared

\* The references to c after it was opened once more.
RefsOpened(c) == connref[c] + 1 + Count(conn[c] = "none" /\ c \in Shared)

\* The wrappers whose watch goes when the connections in C are closed: the
\* function that libdbus calls for a watch it removes finds the watch object
\* that was made last, marks it, and emits its on_remove.
Unwatched(C) == {handler[c] : c \in {d \in C : conn[d] = "open"}}

\* Closing the connections in C that are open: libdbus removes their watches,
\* and gives its references to them back.
CloseAll(C) ==
  LET open == {c \in C : conn[c] = "open"}
      left == [c \in Conns |-> connref[c] - Count(c \in open) * Registry(c)]
  IN  /\ connref' = left
      /\ conn' = [c \in Conns |->
                    IF c \notin open THEN conn[c]
                    ELSE IF left[c] = 0 THEN "freed" ELSE "closed"]
      /\ watching' = watching \ Unwatched(C)

\* dbus_connection_unref().  libdbus ends a program that drops the last
\* reference to an open connection.
Unref(c) ==
  /\ connref' = [connref EXCEPT ![c] = @ - 1]
  /\ conn' = [conn EXCEPT ![c] = IF connref[c] = 1 THEN "freed" ELSE @]
  /\ fault' = IF connref[c] = 1 /\ conn[c] = "open" THEN "dropped_open" ELSE fault

\* The peer goes away.
Disconnect(c) ==
  /\ Alive /\ conn[c] = "open"
  /\ CloseAll({c})
  /\ UNCHANGED <<buses, obj, refcnt, raw, installed, handler, fault>>

\* libdbus adds a watch or a timeout of c, or reports its dispatch status:
\* add_watch(), add_timeout() or dispatch_state_changed() call into the
\* wrapper they get as data, and emit a signal of it.
Report(c) ==
  /\ Alive /\ conn[c] \in {"open", "closed"} /\ handler[c] # NoWrapper
  /\ fault' = IF obj[handler[c]] = "deleted" THEN "dangling" ELSE fault
  /\ UNCHANGED <<buses, obj, refcnt, raw, installed, conn, connref, handler, watching>>

-----------------------------------------------------------------------------
(***************************************************************************)
(* Buses                                                                   *)
(***************************************************************************)

\* bus::create()
CreateBus ==
  /\ Alive /\ buses < MaxBuses
  /\ buses' = buses + 1
  /\ UNCHANGED <<obj, refcnt, raw, installed, conn, connref, handler, watching, fault>>

\* The last reference to a bus goes.  Its destructor calls dbus_shutdown(),
\* be there another bus or not, and that closes the shared connections.
DestroyBus ==
  /\ Alive /\ buses > 0
  /\ buses' = buses - 1
  /\ CloseAll(Shared)
  /\ UNCHANGED <<obj, refcnt, raw, installed, handler, fault>>

\* create_shared() or create_private(): a new wrapper w around c, with a first
\* pointer to it.
Wrap(w, c) ==
  /\ obj'    = [obj EXCEPT ![w] = "live"]
  /\ refcnt' = [refcnt EXCEPT ![w] = 1]
  /\ raw'    = [raw EXCEPT ![w] = c]

\* Mutant: the wrapper takes a reference of its own, besides the one that
\* libdbus returned.
Open_TakesReference(w, c) ==
  /\ Alive /\ buses > 0 /\ obj[w] = "none" /\ Opens(c)
  /\ Wrap(w, c)
  /\ connref' = [connref EXCEPT ![c] = RefsOpened(c) + 1]
  /\ conn'    = [conn EXCEPT ![c] = "open"]
  /\ UNCHANGED <<buses, installed, handler, watching, fault>>

\* bus::open() or bus::open_private() succeeds: a new wrapper adopts the
\* reference that libdbus returned.  (When it fails nothing changes but the
\* error.)
Open(w, c) ==
  /\ Alive /\ buses > 0 /\ obj[w] = "none" /\ Opens(c)
  /\ Wrap(w, c)
  /\ connref' = [connref EXCEPT ![c] = RefsOpened(c)]
  /\ conn'    = [conn EXCEPT ![c] = "open"]
  /\ UNCHANGED <<buses, installed, handler, watching, fault>>

-----------------------------------------------------------------------------
(***************************************************************************)
(* Wrappers                                                                *)
(***************************************************************************)

\* A connection_ptr is copied, by an adapter for example.
AddRef(w) ==
  /\ Alive /\ obj[w] = "live" /\ refcnt[w] < MaxRefs
  /\ refcnt' = [refcnt EXCEPT ![w] = @ + 1]
  /\ UNCHANGED <<buses, obj, raw, installed, conn, connref, handler, watching, fault>>

\* A connection_ptr goes and is not the last.
Release(w) ==
  /\ Alive /\ obj[w] = "live" /\ refcnt[w] > 1
  /\ refcnt' = [refcnt EXCEPT ![w] = @ - 1]
  /\ UNCHANGED <<buses, obj, raw, installed, conn, connref, handler, watching, fault>>

\* Mutant: the destructor of private_connection does not close.
DestroyDerived_NoClose(w) ==
  /\ Alive /\ obj[w] = "live" /\ refcnt[w] = 1
  /\ refcnt' = [refcnt EXCEPT ![w] = 0]
  /\ obj' = [obj EXCEPT ![w] = "dying"]
  /\ UNCHANGED <<buses, raw, installed, conn, connref, handler, watching, fault>>

\* Mutant: the destructor of private_connection unrefs, as its base does.
DestroyDerived_Unrefs(w) ==
  /\ Alive /\ obj[w] = "live" /\ refcnt[w] = 1
  /\ refcnt' = [refcnt EXCEPT ![w] = 0]
  /\ obj' = [obj EXCEPT ![w] = "dying"]
  /\ connref' = [connref EXCEPT ![raw[w]] = @ - Count(raw[w] \in Private)]
  /\ conn' = [conn EXCEPT ![raw[w]] = IF raw[w] \in Private THEN "closed" ELSE @]
  /\ UNCHANGED <<buses, raw, installed, handler, watching, fault>>

\* The last connection_ptr goes: ~private_connection() closes.  libdbus may
\* call the handlers while it does.
DestroyDerived(w) ==
  /\ Alive /\ obj[w] = "live" /\ refcnt[w] = 1
  /\ refcnt' = [refcnt EXCEPT ![w] = 0]
  /\ obj' = [obj EXCEPT ![w] = "dying"]
  /\ CloseAll({raw[w]} \cap Private)
  /\ UNCHANGED <<buses, raw, installed, handler, fault>>

\* Mutant: ~connection() does not unref.
DestroyBase_NoUnref(w) ==
  /\ Alive /\ obj[w] = "dying"
  /\ obj' = [obj EXCEPT ![w] = "deleted"]
  /\ UNCHANGED <<buses, refcnt, raw, installed, conn, connref, handler, watching, fault>>

\* ~connection() gives the reference back, and the signals of the wrapper
\* go with it.
DestroyBase(w) ==
  /\ Alive /\ obj[w] = "dying"
  /\ obj' = [obj EXCEPT ![w] = "deleted"]
  /\ Unref(raw[w])
  /\ UNCHANGED <<buses, refcnt, raw, installed, handler, watching>>

\* close() of a private connection, as often as the user likes; that of a
\* shared one asserts.
Close(w) ==
  /\ Alive /\ obj[w] = "live"
  /\ \/ /\ raw[w] \in Private
        /\ CloseAll({raw[w]})
        /\ UNCHANGED fault
     \/ /\ raw[w] \in Shared
        /\ fault' = "shared_close"
        /\ UNCHANGED <<conn, connref, watching>>
  /\ UNCHANGED <<buses, obj, refcnt, raw, installed, handler>>

\* dbus_connection_set_watch_functions() on an open connection announces its
\* watches through the new functions, and then removes them through the old
\* ones, if there are any: those find the watch object just announced.
\* Should it be the same wrapper again, that replaces its watch.
Announced(w) ==
  LET c == raw[w]
  IN  IF conn[c] # "open" THEN watching
      ELSE IF handler[c] = NoWrapper THEN watching \cup {w}
      ELSE watching \ {w}

\* Mutant: the flags for installed handlers are not looked at.
InstallHandlers_Again(w) ==
  /\ Alive /\ obj[w] = "live"
  /\ installed' = installed \cup {w}
  /\ watching' = Announced(w)
  /\ handler' = [handler EXCEPT ![raw[w]] = w]
  /\ UNCHANGED <<buses, obj, refcnt, raw, conn, connref, fault>>

\* install_handlers(): once for each wrapper.  libdbus has one set of
\* functions for a connection; it forgets the ones it had.
InstallHandlers(w) ==
  /\ Alive /\ obj[w] = "live" /\ w \notin installed
  /\ installed' = installed \cup {w}
  /\ watching' = Announced(w)
  /\ handler' = [handler EXCEPT ![raw[w]] = w]
  /\ UNCHANGED <<buses, obj, refcnt, raw, conn, connref, fault>>

-----------------------------------------------------------------------------

Init ==
  /\ buses = 0
  /\ obj = [w \in Wrappers |-> "none"]
  /\ refcnt = [w \in Wrappers |-> 0]
  /\ raw = [w \in Wrappers |-> NoConn]
  /\ installed = {}
  /\ conn = [c \in Conns |-> "none"]
  /\ connref = [c \in Conns |-> 0]
  /\ handler = [c \in Conns |-> NoWrapper]
  /\ watching = {}
  /\ fault = "none"

Next ==
  \/ CreateBus \/ DestroyBus
  \/ \E c \in Conns : Disconnect(c) \/ Report(c) \/ \E w \in Wrappers : Open(w, c)
  \/ \E w \in Wrappers :
       \/ AddRef(w) \/ Release(w) \/ DestroyDerived(w) \/ DestroyBase(w)
       \/ Close(w) \/ InstallHandlers(w)

Spec == Init /\ [][Next]_vars

-----------------------------------------------------------------------------
(***************************************************************************)
(* Properties                                                              *)
(***************************************************************************)

\* Type correctness: no reference count goes below zero.
TypeOK ==
  /\ buses \in Nat
  /\ obj \in [Wrappers -> {"none", "live", "dying", "deleted"}]
  /\ refcnt \in [Wrappers -> Nat]
  /\ raw \in [Wrappers -> Conns \cup {NoConn}]
  /\ installed \subseteq Wrappers
  /\ conn \in [Conns -> {"none", "open", "closed", "freed"}]
  /\ connref \in [Conns -> Nat]
  /\ handler \in [Conns -> Wrappers \cup {NoWrapper}]
  /\ watching \subseteq Wrappers
  /\ fault \in Faults

\* The wrappers that hold a reference to c.
Holders(c) == {w \in Wrappers : obj[w] \in {"live", "dying"} /\ raw[w] = c}

\* Every wrapper holds one reference to its DBusConnection, from the open
\* that returned it to the end of the destructor, and libdbus one to a shared
\* connection that is open: whoever closes it, the peer, the user or the
\* destructor of any bus, and whoever goes first.  The DBusConnection goes
\* with the last of them, so that a wrapper and a destructor that runs may use
\* raw_.
ReferencesMatch ==
  \A c \in Conns :
    /\ connref[c] = Cardinality(Holders(c)) + Registry(c)
    /\ conn[c] \in {"open", "closed"} <=> connref[c] > 0

\* No reference to an open connection is the last to go: a private one is
\* closed before, in the destructor, and libdbus keeps the shared ones.
ClosedBeforeDropped == fault # "dropped_open"

\* libdbus reports to a private connection's own wrapper, once that has
\* installed its handlers, and to nothing that was deleted.
PrivateReportsArrive ==
  \A c \in Private :
    Alive /\ conn[c] \in {"open", "closed"} =>
      \E w \in Holders(c) : handler[c] = IF w \in installed THEN w ELSE NoWrapper

\* The watch of a wrapper that is the only one to install its handlers on a
\* connection can be used as long as the connection is open, and is marked
\* removed from then on, whoever closed it.  (Of two wrappers on one shared
\* connection neither can tell: the exchange of the functions removes the
\* watch of the second, and nobody ever removes that of the first.)
WatchFollowsConnection ==
  \A w \in installed :
    Alive /\ (\A v \in installed : raw[v] = raw[w] => v = w)
      => (w \in watching <=> conn[raw[w]] = "open")

(***************************************************************************)
(* What the comments say, and the code does not do                         *)
(***************************************************************************)

\* The wrapper gives libdbus no function to be told when the data of its
\* handlers is to go, "as we destroy the DBusConnection ourselfs": when a
\* wrapper is deleted, no connection refers to it any more.
HandlersGoWithWrapper ==
  \A c \in Conns :
    conn[c] \in {"open", "closed"} /\ handler[c] # NoWrapper
      => obj[handler[c]] # "deleted"

=============================================================================
