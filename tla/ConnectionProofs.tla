--------------------------- MODULE ConnectionProofs ---------------------------
(***************************************************************************)
(* The safety properties of Connection hold for any wrappers, connections  *)
(* and bounds.  That the counts match is inductive only together with who  *)
(* refers to what: a wrapper has a DBusConnection from open to the end of  *)
(* its life, that of a private one is its own and closed before the base's *)
(* destructor runs, and libdbus' functions lead to a wrapper that          *)
(* installed them on that connection.                                      *)
(***************************************************************************)
EXTENDS Connection, FiniteSetTheorems, TLAPS

\* What a wrapper refers to, from the open that made it on.
WrappersHaveConns ==
  \A w \in Wrappers :
    /\ obj[w] = "none" <=> raw[w] = NoConn
    /\ raw[w] \in Conns => conn[raw[w]] # "none"
    /\ obj[w] = "dying" /\ raw[w] \in Private => conn[raw[w]] # "open"

\* A private connection has one wrapper in its life.
PrivateHasOneWrapper ==
  \A v, w \in Wrappers : raw[v] = raw[w] /\ raw[w] \in Private => v = w

\* libdbus calls a wrapper that installed its handlers on this connection, and
\* only that: if one did, there is one to be called.
HandlersInstalled ==
  /\ \A c \in Conns :
       handler[c] # NoWrapper => handler[c] \in installed /\ raw[handler[c]] = c
  /\ \A w \in installed : obj[w] # "none" /\ handler[raw[w]] # NoWrapper
  /\ watching \subseteq installed

\* The inductive invariant.
ConnInv ==
  /\ TypeOK
  /\ ReferencesMatch
  /\ ClosedBeforeDropped
  /\ WatchFollowsConnection
  /\ WrappersHaveConns
  /\ PrivateHasOneWrapper
  /\ HandlersInstalled

-----------------------------------------------------------------------------

\* A connection is held by wrappers of a finite set.
LEMMA HoldersFinite ==
  ASSUME NEW c
  PROVE  IsFiniteSet(Holders(c)) /\ Cardinality(Holders(c)) \in Nat
BY FS_Subset, FS_CardinalityType, WrappersAssumption DEF Holders

LEMMA InitConnInv == Init => ConnInv
<1> SUFFICES ASSUME Init PROVE ConnInv
  OBVIOUS
<1>1. TypeOK
  BY DEF Init, TypeOK, Faults
<1>2. ReferencesMatch
  <2>1. \A c \in Conns : Holders(c) = {}
    BY DEF Init, Holders
  <2> QED
    BY <2>1, FS_EmptySet DEF Init, ReferencesMatch, Registry, Count
<1>3. /\ ClosedBeforeDropped /\ WatchFollowsConnection
      /\ WrappersHaveConns /\ PrivateHasOneWrapper /\ HandlersInstalled
  BY ConnsAssumption
  DEF Init, ClosedBeforeDropped, WatchFollowsConnection, WrappersHaveConns,
      PrivateHasOneWrapper, HandlersInstalled, Conns
<1> QED
  BY <1>1, <1>2, <1>3 DEF ConnInv

\* Closing connections takes the reference of libdbus from the shared ones,
\* none from the wrappers, and the watch of the one wrapper that has one.
LEMMA CloseAllKeeps ==
  ASSUME ConnInv, NEW C \in SUBSET Conns, CloseAll(C),
         UNCHANGED <<raw, installed, handler>>,
         \A c \in Conns : Holders(c)' = Holders(c)
  PROVE  /\ connref' \in [Conns -> Nat]
         /\ conn' \in [Conns -> {"none", "open", "closed", "freed"}]
         /\ watching' \subseteq installed
         /\ \A c \in Conns : /\ conn'[c] = "none" <=> conn[c] = "none"
                             /\ conn'[c] = "open" <=> conn[c] = "open" /\ c \notin C
         /\ ReferencesMatch'
         /\ Alive => WatchFollowsConnection'
<1> USE DEF ConnInv
<1> DEFINE open == {c \in C : conn[c] = "open"}
           left == [c \in Conns |-> connref[c] - Count(c \in open) * Registry(c)]
<1>1. /\ connref' = left
      /\ conn' = [c \in Conns |-> IF c \notin open THEN conn[c]
                                  ELSE IF left[c] = 0 THEN "freed" ELSE "closed"]
      /\ watching' = watching \ Unwatched(C)
  BY DEF CloseAll
<1>2. \A c \in Conns : left[c] = IF c \in open THEN Cardinality(Holders(c)) ELSE connref[c]
  BY HoldersFinite DEF ReferencesMatch, Registry, Count, TypeOK
<1>3. \A c \in Conns : left[c] \in Nat
  BY <1>2, HoldersFinite DEF TypeOK
<1> HIDE DEF open, left
<1>4. /\ connref' \in [Conns -> Nat]
      /\ conn' \in [Conns -> {"none", "open", "closed", "freed"}]
  BY <1>1, <1>3 DEF TypeOK, left
<1>5. \A c \in Conns : /\ conn'[c] = "none" <=> conn[c] = "none"
                       /\ conn'[c] = "open" <=> conn[c] = "open" /\ c \notin C
  BY <1>1 DEF open
<1>6. ReferencesMatch'
  <2> SUFFICES ASSUME NEW c \in Conns
               PROVE  /\ connref'[c] = Cardinality(Holders(c)) + Registry(c)'
                      /\ conn'[c] \in {"open", "closed"} <=> connref'[c] > 0
    BY DEF ReferencesMatch
  <2>1. CASE c \in open
    BY <1>1, <1>2, <2>1, HoldersFinite DEF Registry, Count
  <2>2. CASE c \notin open
    BY <1>1, <1>2, <2>2 DEF ReferencesMatch, Registry
  <2> QED
    BY <2>1, <2>2
<1>7. ASSUME Alive PROVE WatchFollowsConnection'
  <2> SUFFICES ASSUME NEW w \in installed, \A v \in installed : raw[v] = raw[w] => v = w
               PROVE  w \in watching' <=> conn'[raw[w]] = "open"
    BY DEF WatchFollowsConnection
  <2>1. w \in Wrappers /\ raw[w] \in Conns /\ handler[raw[w]] = w
    BY DEF TypeOK, WrappersHaveConns, HandlersInstalled
  <2>2. w \in watching <=> conn[raw[w]] = "open"
    BY <1>7 DEF WatchFollowsConnection
  <2>3. w \in Unwatched(C) <=> raw[w] \in C /\ conn[raw[w]] = "open"
    BY <2>1, WrappersAssumption DEF Unwatched, HandlersInstalled
  <2> QED
    BY <1>1, <1>5, <2>1, <2>2, <2>3
<1>8. watching' \subseteq installed
  BY <1>1 DEF HandlersInstalled
<1> QED
  BY <1>4, <1>5, <1>6, <1>7, <1>8

\* The part of the invariant that a step keeps which closes connections and
\* lets no wrapper go further than into its destructor.
LEMMA ClosingKeepsConnInv ==
  ASSUME ConnInv, Alive, NEW C \in SUBSET Conns, CloseAll(C),
         UNCHANGED <<raw, installed, handler, fault>>,
         \A c \in Conns : Holders(c)' = Holders(c),
         buses' \in Nat,
         refcnt' \in [Wrappers -> Nat],
         obj' \in [Wrappers -> {"none", "live", "dying", "deleted"}],
         \A w \in Wrappers : obj'[w] = "none" <=> obj[w] = "none",
         \A w \in Wrappers : obj'[w] = "dying" /\ raw[w] \in Private
                               => obj[w] = "dying" \/ raw[w] \in C
  PROVE  ConnInv'
<1> USE DEF ConnInv
<1>1. TypeOK' /\ ReferencesMatch' /\ WatchFollowsConnection' /\ watching' \subseteq installed
  BY CloseAllKeeps DEF TypeOK
<1>2. \A c \in Conns : /\ conn'[c] = "none" <=> conn[c] = "none"
                       /\ conn'[c] = "open" <=> conn[c] = "open" /\ c \notin C
  BY CloseAllKeeps
<1>3. WrappersHaveConns'
  BY <1>2 DEF WrappersHaveConns, Conns
<1>4. ClosedBeforeDropped' /\ PrivateHasOneWrapper' /\ HandlersInstalled'
  BY <1>1, WrappersAssumption DEF ClosedBeforeDropped, PrivateHasOneWrapper, HandlersInstalled, TypeOK
<1> QED
  BY <1>1, <1>3, <1>4

\* The peer, a bus that goes, a user that closes, and ~private_connection().
LEMMA CloseStepsKeepConnInv ==
  ASSUME ConnInv,
         \/ DestroyBus
         \/ \E c \in Conns : Disconnect(c)
         \/ \E w \in Wrappers : Close(w) \/ DestroyDerived(w)
  PROVE  ConnInv'
<1> USE DEF ConnInv
<1>1. CASE DestroyBus
  BY <1>1, ClosingKeepsConnInv DEF DestroyBus, Holders, TypeOK, Conns
<1>2. ASSUME NEW c \in Conns, Disconnect(c) PROVE ConnInv'
  BY <1>2, ClosingKeepsConnInv DEF Disconnect, Holders, TypeOK
<1>3. ASSUME NEW w \in Wrappers, Close(w) PROVE ConnInv'
  <2>1. CASE raw[w] \in Private /\ CloseAll({raw[w]}) /\ UNCHANGED fault
    BY <1>3, <2>1, ClosingKeepsConnInv DEF Close, Holders, TypeOK, Conns
  <2>2. CASE fault' = "shared_close" /\ UNCHANGED <<conn, connref, watching>>
    BY <1>3, <2>2
    DEF Close, TypeOK, Faults, ReferencesMatch, Holders, Registry, ClosedBeforeDropped,
        WatchFollowsConnection, Alive, WrappersHaveConns, PrivateHasOneWrapper,
        HandlersInstalled
  <2> QED
    BY <1>3, <2>1, <2>2 DEF Close
<1>4. ASSUME NEW w \in Wrappers, DestroyDerived(w) PROVE ConnInv'
  <2> USE <1>4 DEF DestroyDerived
  <2>1. \A v \in Wrappers : obj'[v] = IF v = w THEN "dying" ELSE obj[v]
    BY DEF TypeOK
  <2>2. \A c \in Conns : Holders(c)' = Holders(c)
    BY <2>1 DEF Holders
  <2>3. {raw[w]} \cap Private \in SUBSET Conns
    BY DEF Conns
  <2> QED
    BY <2>1, <2>2, <2>3, ClosingKeepsConnInv DEF TypeOK
<1> QED
  BY <1>1, <1>2, <1>3, <1>4

\* An open adds the wrapper to those that hold the connection; a new shared
\* connection has the reference of libdbus besides.
LEMMA OpenKeepsConnInv ==
  ASSUME ConnInv, NEW w \in Wrappers, NEW c \in Conns, Open(w, c)
  PROVE  ConnInv'
<1> USE DEF ConnInv, Open, Wrap
<1>1. /\ raw[w] = NoConn /\ w \notin installed
      /\ \A v \in Wrappers \ {w} : raw'[v] = raw[v] /\ obj'[v] = obj[v]
      /\ raw'[w] = c /\ obj'[w] = "live"
      /\ conn'[c] = "open" /\ \A d \in Conns \ {c} : conn'[d] = conn[d]
  BY DEF TypeOK, WrappersHaveConns, HandlersInstalled
<1>2. /\ Holders(c)' = Holders(c) \cup {w} /\ w \notin Holders(c)
      /\ \A d \in Conns \ {c} : Holders(d)' = Holders(d)
  BY <1>1 DEF Holders
<1>3. Cardinality(Holders(c)') = Cardinality(Holders(c)) + 1
  BY <1>2, HoldersFinite, FS_AddElement
<1>4. RefsOpened(c) \in Nat /\ connref'[c] = RefsOpened(c)
  BY DEF RefsOpened, Count, TypeOK
<1>5. TypeOK'
  BY <1>4 DEF TypeOK
<1>6. conn[c] \in {"none", "open"} /\ (conn[c] = "open" => c \in Shared)
  BY DEF Opens
<1>7. ReferencesMatch'
  <2> SUFFICES ASSUME NEW d \in Conns
               PROVE  /\ connref'[d] = Cardinality(Holders(d)') + Registry(d)'
                      /\ conn'[d] \in {"open", "closed"} <=> connref'[d] > 0
    BY DEF ReferencesMatch
  <2>1. CASE d = c
    <3>1. connref[c] = Cardinality(Holders(c)) + Registry(c) /\ connref[c] \in Nat
      BY DEF ReferencesMatch, TypeOK
    <3>2. Registry(c)' = Registry(c) + Count(conn[c] = "none" /\ c \in Shared)
      BY <1>1, <1>6 DEF Registry, Count
    <3>3. connref'[c] = Cardinality(Holders(c)') + Registry(c)'
      BY <1>3, <1>4, <3>1, <3>2, HoldersFinite DEF RefsOpened, Registry, Count
    <3>4. connref'[c] > 0
      BY <1>4, <3>1 DEF RefsOpened, Count
    <3> QED
      BY <1>1, <2>1, <3>3, <3>4
  <2>2. CASE d # c
    BY <1>1, <1>2, <2>2 DEF ReferencesMatch, Registry, TypeOK
  <2> QED
    BY <2>1, <2>2
<1>8. WatchFollowsConnection'
  <2> SUFFICES ASSUME NEW v \in installed, \A u \in installed : raw'[u] = raw'[v] => u = v
               PROVE  v \in watching <=> conn'[raw'[v]] = "open"
    BY DEF WatchFollowsConnection
  <2>1. v # w /\ raw'[v] = raw[v] /\ raw[v] \in Conns /\ conn[raw[v]] # "none"
    BY <1>1 DEF TypeOK, WrappersHaveConns, HandlersInstalled
  <2>2. v \in watching <=> conn[raw[v]] = "open"
    BY <1>1, <2>1 DEF WatchFollowsConnection, TypeOK
  <2> QED
    BY <1>1, <1>6, <2>1, <2>2
<1>9. WrappersHaveConns' /\ PrivateHasOneWrapper'
  BY <1>1, <1>6, ConnsAssumption DEF TypeOK, WrappersHaveConns, PrivateHasOneWrapper, Conns
<1>10. HandlersInstalled' /\ ClosedBeforeDropped'
  BY <1>1, WrappersAssumption DEF TypeOK, HandlersInstalled, ClosedBeforeDropped
<1> QED
  BY <1>5, <1>7, <1>8, <1>9, <1>10

\* ~connection() drops one reference.  Were it the last to an open connection,
\* that would be a private one, for libdbus has a reference to the others; but
\* ~private_connection() has closed it.
LEMMA DestroyBaseKeepsConnInv ==
  ASSUME ConnInv, NEW w \in Wrappers, DestroyBase(w)
  PROVE  ConnInv'
<1> USE DEF ConnInv, DestroyBase, Unref
<1>1. PICK c \in Conns : c = raw[w] /\ w \in Holders(c)
  BY DEF TypeOK, WrappersHaveConns, Holders
<1>2. \A v \in Wrappers : obj'[v] = IF v = w THEN "deleted" ELSE obj[v]
  BY DEF TypeOK
<1>3. Holders(c)' = Holders(c) \ {w} /\ \A d \in Conns \ {c} : Holders(d)' = Holders(d)
  BY <1>1, <1>2 DEF Holders
<1>4. Cardinality(Holders(c)') = Cardinality(Holders(c)) - 1
  BY <1>1, <1>3, HoldersFinite, FS_RemoveElement
<1>5. Cardinality(Holders(c)') \in Nat
  BY <1>3, HoldersFinite, FS_RemoveElement, FS_CardinalityType
<1>6. connref[c] = Cardinality(Holders(c)) + Registry(c) /\ connref[c] \in Nat \ {0}
  BY <1>1, <1>4, <1>5, HoldersFinite DEF ReferencesMatch, TypeOK, Registry, Count
<1>7. connref[c] = 1 => conn[c] # "open"
  BY <1>1, <1>4, <1>5, <1>6, HoldersFinite DEF Registry, Count, WrappersHaveConns, Conns
<1>8. UNCHANGED fault
  BY <1>1, <1>7
<1>9. /\ connref' = [connref EXCEPT ![c] = connref[c] - 1]
      /\ conn' = [conn EXCEPT ![c] = IF connref[c] = 1 THEN "freed" ELSE conn[c]]
  BY <1>1
<1> HIDE DEF DestroyBase
<1>10. TypeOK'
  BY <1>1, <1>2, <1>6, <1>8, <1>9 DEF TypeOK, DestroyBase
<1>11. \A d \in Conns : /\ conn'[d] = "open" <=> conn[d] = "open"
                        /\ conn'[d] = "none" <=> conn[d] = "none"
  BY <1>1, <1>6, <1>7, <1>9 DEF TypeOK, ReferencesMatch
<1>12. ReferencesMatch'
  <2> SUFFICES ASSUME NEW d \in Conns
               PROVE  /\ connref'[d] = Cardinality(Holders(d)') + Registry(d)'
                      /\ conn'[d] \in {"open", "closed"} <=> connref'[d] > 0
    BY DEF ReferencesMatch
  <2>0. Registry(d)' = Registry(d)
    BY <1>11 DEF Registry, Count
  <2>1. CASE d = c
    <3>1. connref'[c] = connref[c] - 1 /\ conn'[c] = IF connref[c] = 1 THEN "freed" ELSE conn[c]
      BY <1>1, <1>9 DEF TypeOK
    <3>2. conn[c] \in {"open", "closed"}
      BY <1>1, <1>6 DEF ReferencesMatch
    <3>3. Registry(c) \in Nat
      BY DEF Registry, Count
    <3> QED
      BY <1>4, <1>5, <1>6, <2>0, <2>1, <3>1, <3>2, <3>3, HoldersFinite
  <2>2. CASE d # c
    BY <1>1, <1>3, <1>9, <2>0, <2>2 DEF ReferencesMatch, TypeOK
  <2> QED
    BY <2>1, <2>2
<1>13. /\ ClosedBeforeDropped' /\ PrivateHasOneWrapper' /\ WrappersHaveConns'
       /\ WatchFollowsConnection' /\ HandlersInstalled'
  <2>1. ClosedBeforeDropped' /\ PrivateHasOneWrapper' /\ HandlersInstalled'
    BY <1>2, <1>8, WrappersAssumption
    DEF DestroyBase, ClosedBeforeDropped, PrivateHasOneWrapper, HandlersInstalled, TypeOK
  <2>2. WrappersHaveConns'
    BY <1>2, <1>11 DEF DestroyBase, WrappersHaveConns, Conns
  <2>3. WatchFollowsConnection'
    <3> SUFFICES ASSUME NEW v \in installed, \A u \in installed : raw[u] = raw[v] => u = v
                 PROVE  v \in watching <=> conn'[raw[v]] = "open"
      BY DEF WatchFollowsConnection, DestroyBase
    <3>1. raw[v] \in Conns
      BY DEF TypeOK, WrappersHaveConns, HandlersInstalled
    <3> QED
      BY <1>11, <3>1 DEF WatchFollowsConnection, DestroyBase
  <2> QED
    BY <2>1, <2>2, <2>3
<1> QED
  BY <1>10, <1>12, <1>13

\* A wrapper that installs its handlers is the one that libdbus calls from then
\* on; it has a watch if it is the first on its connection.
LEMMA InstallHandlersKeepsConnInv ==
  ASSUME ConnInv, NEW w \in Wrappers, InstallHandlers(w)
  PROVE  ConnInv'
<1> USE DEF ConnInv, InstallHandlers
<1>1. PICK c \in Conns : c = raw[w]
  BY DEF TypeOK, WrappersHaveConns
<1>2. /\ installed' = installed \cup {w} /\ w \notin installed /\ w \notin watching
      /\ handler'[c] = w /\ \A d \in Conns \ {c} : handler'[d] = handler[d]
      /\ watching' \subseteq installed'
  BY <1>1 DEF TypeOK, HandlersInstalled, Announced
<1>3. TypeOK' /\ ClosedBeforeDropped'
  BY <1>2 DEF TypeOK, ClosedBeforeDropped, HandlersInstalled
<1>4. ReferencesMatch'
  BY DEF ReferencesMatch, Holders, Registry
<1>5. WrappersHaveConns' /\ PrivateHasOneWrapper'
  BY DEF WrappersHaveConns, PrivateHasOneWrapper
<1>6. HandlersInstalled'
  <2>1. \A d \in Conns : handler'[d] # NoWrapper => handler'[d] \in installed' /\ raw[handler'[d]] = d
    BY <1>1, <1>2 DEF HandlersInstalled
  <2>2. \A v \in installed' : obj[v] # "none" /\ handler'[raw[v]] # NoWrapper
    BY <1>1, <1>2, WrappersAssumption DEF HandlersInstalled, TypeOK, WrappersHaveConns
  <2> QED
    BY <1>2, <2>1, <2>2 DEF HandlersInstalled
<1>7. WatchFollowsConnection'
  <2> SUFFICES ASSUME NEW v \in installed', \A u \in installed' : raw[u] = raw[v] => u = v
               PROVE  v \in watching' <=> conn[raw[v]] = "open"
    BY DEF WatchFollowsConnection
  <2>1. CASE v = w
    <3>1. handler[c] = NoWrapper
      BY <1>1, <1>2, <2>1 DEF HandlersInstalled
    <3> QED
      BY <1>1, <1>2, <2>1, <3>1 DEF Announced
  <2>2. CASE v # w
    <3>1. v \in watching' <=> v \in watching
      BY <2>2 DEF Announced
    <3> QED
      BY <1>2, <2>2, <3>1 DEF WatchFollowsConnection
  <2> QED
    BY <2>1, <2>2
<1> QED
  BY <1>3, <1>4, <1>5, <1>6, <1>7

\* The steps that touch neither a connection nor whom it refers to.
LEMMA OtherStepsKeepConnInv ==
  ASSUME ConnInv,
         \/ CreateBus
         \/ \E c \in Conns : Report(c)
         \/ \E w \in Wrappers : AddRef(w) \/ Release(w)
         \/ UNCHANGED vars
  PROVE  ConnInv'
<1> USE DEF ConnInv
<1>1. /\ UNCHANGED <<obj, raw, installed, conn, connref, handler, watching>>
      /\ fault' \in {fault, "dangling"} /\ buses' \in Nat
      /\ refcnt' \in [Wrappers -> Nat]
  <2>1. CASE CreateBus
    BY <2>1 DEF CreateBus, TypeOK
  <2>2. CASE \E c \in Conns : Report(c)
    BY <2>2 DEF Report, TypeOK
  <2>3. CASE \E w \in Wrappers : AddRef(w) \/ Release(w)
    BY <2>3 DEF AddRef, Release, TypeOK
  <2>4. CASE UNCHANGED vars
    BY <2>4 DEF vars, TypeOK
  <2> QED
    BY <2>1, <2>2, <2>3, <2>4
<1>2. TypeOK' /\ ClosedBeforeDropped'
  BY <1>1 DEF TypeOK, Faults, ClosedBeforeDropped
<1>3. ReferencesMatch'
  BY <1>1 DEF ReferencesMatch, Holders, Registry
<1>4. WrappersHaveConns' /\ PrivateHasOneWrapper' /\ HandlersInstalled'
  BY <1>1 DEF WrappersHaveConns, PrivateHasOneWrapper, HandlersInstalled
<1>5. Alive' => Alive
  BY DEF CreateBus, Report, AddRef, Release, vars, Alive
<1>6. WatchFollowsConnection'
  BY <1>1, <1>5 DEF WatchFollowsConnection
<1> QED
  BY <1>2, <1>3, <1>4, <1>6

LEMMA NextKeepsConnInv == ConnInv /\ [Next]_vars => ConnInv'
<1> SUFFICES ASSUME ConnInv, [Next]_vars PROVE ConnInv'
  OBVIOUS
<1>1. CASE CreateBus
  BY <1>1, OtherStepsKeepConnInv
<1>2. CASE DestroyBus
  BY <1>2, CloseStepsKeepConnInv
<1>3. ASSUME NEW c \in Conns, Disconnect(c) \/ Report(c) \/ \E w \in Wrappers : Open(w, c)
      PROVE  ConnInv'
  BY <1>3, CloseStepsKeepConnInv, OtherStepsKeepConnInv, OpenKeepsConnInv
<1>4. ASSUME NEW w \in Wrappers, AddRef(w) \/ Release(w)
      PROVE  ConnInv'
  BY <1>4, OtherStepsKeepConnInv
<1>5. ASSUME NEW w \in Wrappers, DestroyDerived(w) \/ Close(w)
      PROVE  ConnInv'
  BY <1>5, CloseStepsKeepConnInv
<1>6. ASSUME NEW w \in Wrappers, DestroyBase(w) \/ InstallHandlers(w)
      PROVE  ConnInv'
  BY <1>6, DestroyBaseKeepsConnInv, InstallHandlersKeepsConnInv
<1>7. CASE UNCHANGED vars
  BY <1>7, OtherStepsKeepConnInv
<1> QED
  BY <1>1, <1>2, <1>3, <1>4, <1>5, <1>6, <1>7 DEF Next

-----------------------------------------------------------------------------

\* Wrappers, their connections and the functions that libdbus has of them stay
\* in step, in every state: the inductive invariant the rest is drawn from.
THEOREM ConnInvariance == Spec => []ConnInv
<1>1. Init => ConnInv
  BY InitConnInv
<1>2. ConnInv /\ [Next]_vars => ConnInv'
  BY NextKeepsConnInv
<1> QED
  BY <1>1, <1>2, PTL DEF Spec

\* The wrappers, the DBusConnections and their counts stay in their types: no
\* count goes below zero.
THEOREM ConnectionTypesCorrect == Spec => []TypeOK
<1>1. ConnInv => TypeOK
  BY DEF ConnInv
<1> QED
  BY <1>1, ConnInvariance, PTL

\* connection and private_connection hold one reference each to their
\* DBusConnection until ~connection() is through, libdbus one to an open
\* shared one, and the last of them frees it.
THEOREM ReferencesAreMatched == Spec => []ReferencesMatch
<1>1. ConnInv => ReferencesMatch
  BY DEF ConnInv
<1> QED
  BY <1>1, ConnInvariance, PTL

\* ~connection() never drops the last reference to an open DBusConnection.
THEOREM ClosedBeforeTheLastUnref == Spec => []ClosedBeforeDropped
<1>1. ConnInv => ClosedBeforeDropped
  BY DEF ConnInv
<1> QED
  BY <1>1, ConnInvariance, PTL

\* While a private DBusConnection is there, libdbus calls the wrapper that opened
\* it, if that has installed its handlers, and nothing otherwise.
THEOREM PrivateReportsGetThrough == Spec => []PrivateReportsArrive
<1>1. ConnInv => PrivateReportsArrive
  <2> SUFFICES ASSUME ConnInv, NEW c \in Private, conn[c] \in {"open", "closed"}
               PROVE  \E w \in Holders(c) : handler[c] = IF w \in installed THEN w ELSE NoWrapper
    BY DEF PrivateReportsArrive
  <2> USE DEF ConnInv
  <2>1. c \in Conns /\ Registry(c) = 0
    BY ConnsAssumption DEF Conns, Registry, Count
  <2>2. Cardinality(Holders(c)) # 0
    BY <2>1, HoldersFinite DEF ReferencesMatch
  <2>3. PICK w \in Holders(c) : TRUE
    BY <2>2, FS_EmptySet
  <2>4. w \in Wrappers /\ raw[w] = c
    BY DEF Holders
  <2>5. \A v \in Wrappers : raw[v] = c => v = w
    BY <2>4 DEF PrivateHasOneWrapper
  <2>6. CASE w \in installed
    BY <2>1, <2>4, <2>5, <2>6 DEF HandlersInstalled, TypeOK
  <2>7. CASE w \notin installed
    BY <2>1, <2>4, <2>5, <2>7 DEF HandlersInstalled, TypeOK
  <2> QED
    BY <2>6, <2>7
<1> QED
  BY <1>1, ConnInvariance, PTL

\* The watch of the only wrapper that installed its handlers on a connection is
\* there as long as the connection is open, whoever closes it.
THEOREM WatchesFollow == Spec => []WatchFollowsConnection
<1>1. ConnInv => WatchFollowsConnection
  BY DEF ConnInv
<1> QED
  BY <1>1, ConnInvariance, PTL

=============================================================================
