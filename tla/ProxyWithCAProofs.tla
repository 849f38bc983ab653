-------------------------- MODULE ProxyWithCAProofs --------------------------
(***************************************************************************)
(* Theorems about the proxy's life cycle, for any callers, ports and        *)
(* bounds, about the CA manager, for every set of paths and every bound on  *)
(* the pairs generated, and about their composition.                        *)
(*                                                                         *)
(* SerialStartsKeepTrack counts the listeners that run; what makes it        *)
(* inductive is where the handle of such a listener is: while a start is     *)
(* under way the slot is empty, only a start about to store has spawned one, *)
(* and while starts do not overlap that leaves room for one listener.       *)
(*                                                                         *)
(* CrashLeavesNoMixedPair is not inductive: a mixed pair could be loaded.   *)
(* The invariant CaInv adds what the order of generate()'s writes gives:    *)
(* the key file holds a key only under its own certificate, nothing is      *)
(* being written once it does, and while the key is being written the       *)
(* certificate file holds the latest pair.                                  *)
(*                                                                         *)
(* The composition's steps are steps of ProxyLifecycle, steps of CAManager  *)
(* or leave them alone, so the invariants of both carry over, and with them *)
(* every running listener signs with the pair in the files.                 *)
(***************************************************************************)
EXTENDS ProxyWithCA, FiniteSetTheorems, TLAPS
-----------------------------------------------------------------------------
(* The life cycle. *)

\* A start holds the listener it spawned exactly until it stores it.
HandleInHand == \A c \in Callers : spawned[c] # NoTask <=> caller[c] = "storing"

\* Starts do not overlap, and find the slot empty until they store.
OneStart ==
    MaxStarting <= 1 =>
        /\ \A c, d \in Starting : c = d
        /\ Starting # {} => task = NoTask
        /\ Live \subseteq Reachable

\* The process being launched is alive and not yet the stored one.
LaunchingLives ==
    launching # NoBrowser => browsers[launching] /\ launching # chromium

LifecycleInv ==
    /\ TypeOK
    /\ HandleInHand
    /\ OneStart
    /\ LaunchingLives
    /\ StoredBrowserLives
-----------------------------------------------------------------------------
(* The types. *)

LEMMA InitTypes == Init => TypeOK
<1> SUFFICES ASSUME Init
             PROVE  TypeOK
  OBVIOUS
<1>1. listeners = <<>> /\ browsers = <<>>
  BY DEF Init
<1>2. DOMAIN listeners = {} /\ DOMAIN browsers = {}
  BY <1>1
<1>3. listeners \in Seq([port : Ports,
                      state : {"spawned", "bound", "failed", "aborting", "aborted"}])
  BY <1>1
<1>4. browsers \in Seq(BOOLEAN)
  BY <1>1
<1>5. caller \in [Callers -> {"idle", "certifying", "authorizing", "building", "storing"}]
  BY DEF Init
<1>6. spawned \in [Callers -> DOMAIN listeners \union {NoTask}]
  BY DEF Init
<1>7. ca \in BOOLEAN /\ stopping \in BOOLEAN
  BY DEF Init
<1> QED
  BY <1>3, <1>4, <1>5, <1>6, <1>7 DEF Init, TypeOK

\* A listener appended, or moved to another state, keeps the shape of the list
\* and the numbers given out.
LEMMA AppendListener ==
  ASSUME TypeOK, NEW s \in {"spawned"},
         listeners' = Append(listeners, [port |-> port, state |-> s])
  PROVE  /\ listeners' \in Seq([port : Ports,
                state : {"spawned", "bound", "failed", "aborting", "aborted"}])
         /\ DOMAIN listeners \subseteq DOMAIN listeners'
         /\ Len(listeners) + 1 \in DOMAIN listeners'
         /\ Len(listeners) + 1 \notin DOMAIN listeners
         /\ \A l \in DOMAIN listeners : listeners'[l] = listeners[l]
         /\ listeners'[Len(listeners) + 1] = [port |-> port, state |-> s]
         /\ DOMAIN listeners' = DOMAIN listeners \union {Len(listeners) + 1}
  BY DEF TypeOK

LEMMA MoveListener ==
  ASSUME TypeOK, NEW l \in DOMAIN listeners,
         NEW to \in {"spawned", "bound", "failed", "aborting", "aborted"}, Become(l, to)
  PROVE  /\ listeners' \in Seq([port : Ports,
                state : {"spawned", "bound", "failed", "aborting", "aborted"}])
         /\ DOMAIN listeners' = DOMAIN listeners
         /\ \A m \in DOMAIN listeners : listeners'[m].port = listeners[m].port
         /\ \A m \in DOMAIN listeners \ {l} : listeners'[m] = listeners[m]
         /\ listeners'[l].state = to
<1> DEFINE L == [port : Ports, state : {"spawned", "bound", "failed", "aborting", "aborted"}]
<1>1. listeners \in Seq(L) /\ listeners[l] \in L
  <2>1. listeners \in Seq(L)
    BY Zenon DEF TypeOK
  <2> HIDE DEF L
  <2> QED
    BY <2>1
<1>2. listeners' = [listeners EXCEPT ![l] = [listeners[l] EXCEPT !.state = to]]
  BY DEF Become
<1>3. /\ [listeners[l] EXCEPT !.state = to] \in L
      /\ [listeners[l] EXCEPT !.state = to].port = listeners[l].port
      /\ [listeners[l] EXCEPT !.state = to].state = to
  BY <1>1
<1> HIDE DEF L
<1> DEFINE r == [listeners[l] EXCEPT !.state = to]
<1> HIDE DEF r
<1>4. listeners' \in Seq(L) /\ DOMAIN listeners' = DOMAIN listeners
  <2>1. listeners' = [listeners EXCEPT ![l] = r] /\ r \in L
    BY <1>2, <1>3 DEF r
  <2> QED
    BY <1>1, <2>1
<1>5. /\ listeners'[l] = [listeners[l] EXCEPT !.state = to]
      /\ \A m \in DOMAIN listeners \ {l} : listeners'[m] = listeners[m]
  BY <1>1, <1>2
<1> QED
  BY <1>3, <1>4, <1>5 DEF L

LEMMA KillTypes ==
  ASSUME TypeOK, KillStored
  PROVE  /\ browsers' \in Seq(BOOLEAN)
         /\ DOMAIN browsers' = DOMAIN browsers
         /\ \A b \in DOMAIN browsers : b # chromium => browsers'[b] = browsers[b]
<1>1. CASE chromium = NoBrowser
  BY <1>1 DEF KillStored, TypeOK
<1>2. CASE chromium # NoBrowser
  BY <1>2 DEF KillStored, TypeOK
<1> QED
  BY <1>1, <1>2

\* Every step keeps the types.
LEMMA TypeStep == TypeOK /\ [Next]_vars => TypeOK'
<1> SUFFICES ASSUME TypeOK, [Next]_vars
             PROVE  TypeOK'
  OBVIOUS
<1> USE LifecycleAssumption
<1>1. ASSUME NEW c \in Callers, Check(c) \/ Certify(c) \/ Authorize(c) \/ BuildFails(c)
      PROVE  TypeOK'
  BY <1>1 DEF Check, Certify, Authorize, BuildFails, Goto, TypeOK, browser
<1>2. ASSUME NEW c \in Callers, Spawn(c) PROVE TypeOK'
  BY <1>2, AppendListener DEF Spawn, Goto, TypeOK, browser
<1>3. ASSUME NEW c \in Callers, Store(c) PROVE TypeOK'
  BY <1>3 DEF Store, Goto, TypeOK, browser
<1>4. ASSUME NEW l \in DOMAIN listeners, Bind(l) \/ Ended(l) PROVE TypeOK'
  <2>1. \E to \in {"bound", "failed", "aborted"} : Become(l, to)
    BY <1>4 DEF Bind, Ended
  <2> QED
    BY <1>4, <2>1, MoveListener DEF Bind, Ended, TypeOK, start, browser
<1>5. CASE Stop
  <2>1. CASE UNCHANGED listeners
    BY <1>5, <2>1 DEF Stop, TypeOK, start, browser
  <2>2. CASE task \in DOMAIN listeners /\ \E to \in {"aborting", "aborted"} : Become(task, to)
    BY <1>5, <2>2, MoveListener DEF Stop, TypeOK, start, browser
  <2> QED
    BY <1>5, <2>1, <2>2 DEF Stop, TypeOK
<1>6. CASE StopBrowser \/ KillChromium
  BY <1>6, KillTypes DEF StopBrowser, KillChromium, KillStored, TypeOK, start
<1>7. CASE Launch
  <2>1. /\ browsers' \in Seq(BOOLEAN)
        /\ DOMAIN browsers \subseteq DOMAIN browsers'
        /\ Len(browsers) + 1 \in DOMAIN browsers'
    BY <1>7 DEF Launch, TypeOK
  <2> QED
    BY <1>7, <2>1 DEF Launch, TypeOK, start
<1>8. CASE StoreBrowser
  BY <1>8 DEF StoreBrowser, TypeOK, start
<1>9. ASSUME NEW p \in Ports, SetConfig(p) PROVE TypeOK'
  BY <1>9 DEF SetConfig, TypeOK, start, browser
<1>10. CASE RegenerateCa
  BY <1>10 DEF RegenerateCa, TypeOK, start, browser
<1>11. CASE Crash
  <2>1. listeners' \in Seq([port : Ports,
               state : {"spawned", "bound", "failed", "aborting", "aborted"}])
    BY <1>11 DEF Crash
  <2> QED
    BY <1>11, <2>1 DEF Crash, TypeOK
<1>12. CASE UNCHANGED vars
  BY <1>12 DEF vars, TypeOK
<1> QED
  BY <1>1, <1>2, <1>3, <1>4, <1>5, <1>6, <1>7, <1>8, <1>9, <1>10, <1>11, <1>12 DEF Next
-----------------------------------------------------------------------------
(* The handles. *)

LEMMA HandleStep == TypeOK /\ HandleInHand /\ [Next]_vars => HandleInHand'
<1> SUFFICES ASSUME TypeOK, HandleInHand, [Next]_vars
             PROVE  HandleInHand'
  OBVIOUS
<1> USE LifecycleAssumption DEF HandleInHand
<1>1. ASSUME NEW c \in Callers, Check(c) \/ Certify(c) \/ Authorize(c) \/ BuildFails(c)
      PROVE  HandleInHand'
  BY <1>1 DEF Check, Certify, Authorize, BuildFails, Goto, TypeOK
<1>2. ASSUME NEW c \in Callers, Spawn(c) PROVE HandleInHand'
  <2>1. Len(listeners) + 1 # NoTask
    BY DEF TypeOK
  <2> QED
    BY <1>2, <2>1 DEF Spawn, Goto, TypeOK
<1>3. ASSUME NEW c \in Callers, Store(c) PROVE HandleInHand'
  BY <1>3 DEF Store, Goto, TypeOK
<1>4. CASE Crash
  BY <1>4 DEF Crash
<1>5. CASE UNCHANGED <<caller, spawned>>
  BY <1>5
<1>6. \/ \E c \in Callers :
            Check(c) \/ Certify(c) \/ Authorize(c) \/ BuildFails(c) \/ Spawn(c) \/ Store(c)
      \/ Crash
      \/ UNCHANGED <<caller, spawned>>
  BY DEF Next, Bind, Ended, Stop, StopBrowser, KillChromium, Launch, StoreBrowser, SetConfig,
     RegenerateCa, start, vars
<1> QED
  BY <1>1, <1>2, <1>3, <1>4, <1>5, <1>6

\* A start that passes the check while starts do not overlap is alone.
LEMMA FirstIsAlone ==
  ASSUME MaxStarting <= 1, Cardinality(Starting) < MaxStarting
  PROVE  Starting = {}
<1>1. IsFiniteSet(Starting)
  BY LifecycleAssumption, FS_Subset DEF Starting
<1>2. Cardinality(Starting) \in Nat /\ (Cardinality(Starting) = 0 <=> Starting = {})
  BY <1>1, FS_CardinalityType, FS_EmptySet
<1> QED
  BY <1>2, LifecycleAssumption

\* Steps that start, authorize or store: who is starting, and where the running
\* listeners' handles are.
LEMMA OneStartCallers ==
  ASSUME TypeOK, HandleInHand, OneStart, NEW c \in Callers,
         Check(c) \/ Certify(c) \/ Authorize(c) \/ BuildFails(c) \/ Spawn(c) \/ Store(c)
  PROVE  OneStart'
<1> SUFFICES ASSUME MaxStarting <= 1
             PROVE  (/\ \A d, e \in Starting : d = e
                     /\ Starting # {} => task = NoTask
                     /\ Live \subseteq Reachable)'
  BY DEF OneStart
<1> USE LifecycleAssumption
<1>1. CASE Check(c)
  <2>1. Starting = {} /\ task = NoTask
    BY <1>1, FirstIsAlone DEF Check
  <2>2. Starting' = {c}
    BY <1>1, <2>1 DEF Check, Goto, Starting, TypeOK
  <2>3. Live' = Live /\ Reachable' = Reachable /\ task' = task
    BY <1>1 DEF Check, Live, Reachable
  <2> QED
    BY <2>1, <2>2, <2>3 DEF OneStart
<1>2. CASE Certify(c) \/ Authorize(c) \/ BuildFails(c)
  <2>1. Starting' \subseteq Starting
    BY <1>2 DEF Certify, Authorize, BuildFails, Goto, Starting, TypeOK
  <2>2. Live' = Live /\ Reachable' = Reachable /\ task' = task
    BY <1>2 DEF Certify, Authorize, BuildFails, Live, Reachable
  <2> QED
    BY <2>1, <2>2 DEF OneStart
<1>3. CASE Spawn(c)
  <2>1. c \in Starting /\ task = NoTask
    BY <1>3 DEF Spawn, Goto, Starting, OneStart
  <2>2. \A d \in Callers : spawned[d] = NoTask
    BY <1>3, <2>1 DEF Spawn, Goto, Starting, OneStart, HandleInHand
  <2>3. Live = {}
    BY <2>1, <2>2 DEF OneStart, Reachable
  <2>4. Live' \subseteq {Len(listeners) + 1}
    BY <1>3, <2>3, AppendListener DEF Spawn, Live
  <2>5. spawned'[c] = Len(listeners) + 1 /\ Len(listeners) + 1 # NoTask
    BY <1>3 DEF Spawn, TypeOK
  <2>6. Starting' = Starting /\ task' = task
    BY <1>3 DEF Spawn, Goto, Starting, TypeOK
  <2>7. Live' \subseteq Reachable'
    BY <2>4, <2>5 DEF Reachable
  <2> QED
    BY <2>6, <2>7 DEF OneStart
<1>4. CASE Store(c)
  <2>1. c \in Starting /\ task = NoTask /\ caller[c] = "storing"
    BY <1>4 DEF Store, Goto, Starting, OneStart
  <2>2. \A d \in Callers \ {c} : spawned[d] = NoTask
    BY <2>1 DEF Starting, OneStart, HandleInHand
  <2>3. Live \subseteq {spawned[c]} \ {NoTask}
    BY <2>1, <2>2 DEF OneStart, Reachable
  <2>4. Live' = Live /\ task' = spawned[c] /\ Starting' = {}
    BY <1>4, <2>1 DEF Store, Goto, Live, Starting, OneStart, TypeOK
  <2> QED
    BY <2>3, <2>4 DEF Reachable
<1> QED
  BY <1>1, <1>2, <1>3, <1>4

\* Steps of a listener's task and of stop.
LEMMA OneStartListeners ==
  ASSUME TypeOK, OneStart,
         (\E l \in DOMAIN listeners : Bind(l) \/ Ended(l)) \/ Stop
  PROVE  OneStart'
<1>1. CASE \E l \in DOMAIN listeners : Bind(l) \/ Ended(l)
  <2>1. PICK l \in DOMAIN listeners : Bind(l) \/ Ended(l)
    BY <1>1
  <2>2. PICK to \in {"bound", "failed", "aborted"} :
             Become(l, to) /\ (to = "bound" => listeners[l].state = "spawned")
    BY <2>1 DEF Bind, Ended
  <2>3. Live' \subseteq Live
    BY <2>2, MoveListener DEF Live
  <2>4. UNCHANGED <<task, caller, spawned>>
    BY <2>1 DEF Bind, Ended, start
  <2> QED
    BY <2>3, <2>4 DEF OneStart, Starting, Reachable
<1>2. CASE Stop
  <2>1. UNCHANGED <<caller, spawned>> /\ task' = NoTask
    BY <1>2 DEF Stop, start
  <2>2. Live' \subseteq Live \ {task}
    <3>1. CASE UNCHANGED listeners
      <4>1. task \notin Live
        <5> SUFFICES ASSUME task \in Live
                     PROVE  FALSE
          OBVIOUS
        <5>1. task \in DOMAIN listeners /\ task # NoTask
          BY LifecycleAssumption DEF Live, TypeOK
        <5>2. PICK to \in {"aborting", "aborted"} : Become(task, to)
          BY <1>2, <5>1 DEF Stop, Live
        <5>3. listeners'[task].state = to
          BY <5>1, <5>2, MoveListener
        <5> QED
          BY <3>1, <5>3 DEF Live
      <4> QED
        BY <3>1, <4>1 DEF Live
    <3>2. CASE task \in DOMAIN listeners /\ \E to \in {"aborting", "aborted"} : Become(task, to)
      BY <3>2, MoveListener DEF Live
    <3> QED
      BY <1>2, <3>1, <3>2 DEF Stop, TypeOK
  <2> QED
    BY <2>1, <2>2 DEF OneStart, Starting, Reachable
<1> QED
  BY <1>1, <1>2

\* Every step keeps OneStart.
LEMMA OneStartStep == TypeOK /\ HandleInHand /\ OneStart /\ [Next]_vars => OneStart'
<1> SUFFICES ASSUME TypeOK, HandleInHand, OneStart, [Next]_vars
             PROVE  OneStart'
  OBVIOUS
<1>1. CASE Crash
  BY <1>1 DEF Crash, OneStart, Starting, Live
<1>2. CASE UNCHANGED <<caller, spawned, listeners, task>>
  BY <1>2 DEF OneStart, Starting, Live, Reachable
<1>3. \/ \E c \in Callers :
            Check(c) \/ Certify(c) \/ Authorize(c) \/ BuildFails(c) \/ Spawn(c) \/ Store(c)
      \/ (\E l \in DOMAIN listeners : Bind(l) \/ Ended(l)) \/ Stop
      \/ Crash
      \/ UNCHANGED <<caller, spawned, listeners, task>>
  BY DEF Next, StopBrowser, KillChromium, Launch, StoreBrowser, SetConfig, RegenerateCa, start, vars
<1> QED
  BY <1>1, <1>2, <1>3, OneStartCallers, OneStartListeners
-----------------------------------------------------------------------------
(* The browser. *)

\* A process that is launched has a number no launcher has; only the stored one
\* is killed.
LEMMA BrowserStep ==
  TypeOK /\ LaunchingLives /\ StoredBrowserLives /\ [Next]_vars
    => LaunchingLives' /\ StoredBrowserLives'
<1> SUFFICES ASSUME TypeOK, LaunchingLives, StoredBrowserLives, [Next]_vars
             PROVE  LaunchingLives' /\ StoredBrowserLives'
  OBVIOUS
<1> USE LifecycleAssumption DEF LaunchingLives, StoredBrowserLives
<1>1. CASE KillStored
  <2>1. launching' = launching /\ chromium' = NoBrowser
    BY <1>1 DEF KillStored
  <2>2. launching # NoBrowser => launching \in DOMAIN browsers /\ launching # chromium
    BY DEF TypeOK
  <2>3. \A b \in DOMAIN browsers : b # chromium => browsers'[b] = browsers[b]
    BY <1>1, KillTypes
  <2> QED
    BY <2>1, <2>2, <2>3
<1>2. CASE Launch
  <2>1. launching' = Len(browsers) + 1 /\ chromium' = chromium
        /\ browsers' = Append(browsers, TRUE)
    BY <1>2 DEF Launch
  <2>2. browsers \in Seq(BOOLEAN)
    BY DEF TypeOK
  <2>3. browsers'[Len(browsers) + 1] = TRUE
    BY <2>1, <2>2
  <2>4. Len(browsers) + 1 \notin DOMAIN browsers
    BY <2>2
  <2>5. \A b \in DOMAIN browsers : browsers'[b] = browsers[b]
    <3> SUFFICES ASSUME NEW b \in DOMAIN browsers
                 PROVE  browsers'[b] = browsers[b]
      OBVIOUS
    <3>1. b \in 1..Len(browsers)
      BY <2>2
    <3> QED
      BY <2>1, <2>2, <3>1
  <2>6. chromium # NoBrowser => chromium \in DOMAIN browsers
    BY DEF TypeOK
  <2>7. LaunchingLives'
    BY Zenon, <2>1, <2>3, <2>4, <2>6 DEF LaunchingLives
  <2>8. StoredBrowserLives'
    BY Zenon, <2>1, <2>5, <2>6
  <2> QED
    BY <2>7, <2>8
<1>3. CASE StoreBrowser
  BY <1>3 DEF StoreBrowser
<1>4. CASE Crash
  BY <1>4 DEF Crash
<1>5. CASE UNCHANGED browser
  BY <1>5 DEF browser
<1>6. KillStored \/ Launch \/ StoreBrowser \/ Crash \/ UNCHANGED browser
  BY DEF Next, Check, Certify, Authorize, BuildFails, Spawn, Store, Bind, Ended, Stop, StopBrowser,
     KillChromium, SetConfig, RegenerateCa, vars, browser
<1> QED
  BY <1>1, <1>2, <1>3, <1>4, <1>5, <1>6
-----------------------------------------------------------------------------
\* The invariant holds in every reachable state.
THEOREM LifecycleInvariant == Spec => []LifecycleInv
<1>1. Init => LifecycleInv
  <2> SUFFICES ASSUME Init
               PROVE  LifecycleInv
    OBVIOUS
  <2>1. TypeOK
    BY InitTypes
  <2>2. HandleInHand /\ LaunchingLives /\ StoredBrowserLives
    BY DEF Init, HandleInHand, LaunchingLives, StoredBrowserLives
  <2>3. OneStart
    BY DEF Init, OneStart, Starting, Live
  <2> QED
    BY <2>1, <2>2, <2>3 DEF LifecycleInv
<1>2. LifecycleInv /\ [Next]_vars => LifecycleInv'
  BY TypeStep, HandleStep, OneStartStep, BrowserStep DEF LifecycleInv
<1> QED
  BY <1>1, <1>2, PTL DEF Spec

\* Every slot names a listener or a process that was spawned.
THEOREM LifecycleTypes == Spec => []TypeOK
<1>1. LifecycleInv => TypeOK
  BY DEF LifecycleInv
<1> QED
  BY <1>1, LifecycleInvariant, PTL

\* The launcher that is stored is never the one of a process that was killed.
THEOREM StoredIsAlive == Spec => []StoredBrowserLives
<1>1. LifecycleInv => StoredBrowserLives
  BY DEF LifecycleInv
<1> QED
  BY <1>1, LifecycleInvariant, PTL

\* While starts do not overlap there is at most one handle to a listener.
LEMMA OneReachable ==
  ASSUME HandleInHand, OneStart, MaxStarting <= 1
  PROVE  \A l, m \in Reachable : l = m
<1>1. \A c \in Callers : spawned[c] # NoTask => c \in Starting
  BY DEF HandleInHand, Starting
<1> QED
  BY <1>1 DEF OneStart, Reachable

LEMMA OneLive ==
  ASSUME HandleInHand, OneStart, MaxStarting <= 1
  PROVE  Live \subseteq Reachable /\ Cardinality(Live) <= 1
<1>1. Live \subseteq Reachable
  BY DEF OneStart
<1>2. CASE Live = {}
  BY <1>1, <1>2, FS_EmptySet
<1>3. CASE Live # {}
  <2>1. PICK l \in Live : TRUE
    BY <1>3
  <2>2. Live = {l}
    BY <1>1, <2>1, OneReachable
  <2> QED
    BY <1>1, <2>2, FS_Singleton
<1> QED
  BY <1>2, <1>3

\* While starts do not overlap, no listener runs that the slot does not lead to,
\* and at most one runs.
THEOREM SerialStarts == Spec => []SerialStartsKeepTrack
<1>1. LifecycleInv => SerialStartsKeepTrack
  BY OneLive DEF LifecycleInv, SerialStartsKeepTrack
<1> QED
  BY <1>1, LifecycleInvariant, PTL

\* A bind fails only for a port whose listener the last stop has aborted and the
\* runtime has not dropped yet.
THEOREM BindFailure == Spec => BindLosesToAborted
<1> DEFINE Loses ==
      MaxStarting <= 1 =>
         \A l \in DOMAIN listeners \intersect DOMAIN listeners' :
             listeners'[l].state = "failed" /\ listeners[l].state # "failed" =>
                 \E m \in DOMAIN listeners :
                     listeners[m].port = listeners[l].port /\ listeners[m].state = "aborting"
<1>1. LifecycleInv /\ [Next]_vars => [Loses]_vars
  <2> SUFFICES ASSUME LifecycleInv, [Next]_vars, MaxStarting <= 1,
                      NEW l \in DOMAIN listeners, l \in DOMAIN listeners',
                      listeners'[l].state = "failed", listeners[l].state # "failed"
               PROVE  \E m \in DOMAIN listeners :
                        listeners[m].port = listeners[l].port /\ listeners[m].state = "aborting"
    OBVIOUS
  <2> USE DEF LifecycleInv
  <2>1. PICK k \in DOMAIN listeners : Bind(k)
    <3>1. ~UNCHANGED listeners
      OBVIOUS
    <3>2. \A c \in Callers : ~Spawn(c)
      BY AppendListener DEF Spawn
    <3>3. ~Crash
      BY DEF Crash
    <3>4. \A k \in DOMAIN listeners : ~Ended(k)
      BY MoveListener DEF Ended
    <3>5. ~Stop
      <4>1. Stop => \/ UNCHANGED listeners
                    \/ task \in DOMAIN listeners
                       /\ \E to \in {"aborting", "aborted"} : Become(task, to)
        BY DEF Stop, TypeOK
      <4> QED
        BY <3>1, <4>1, MoveListener
    <3> QED
      BY <3>1, <3>2, <3>3, <3>4, <3>5 DEF Next, Check, Certify, Authorize, BuildFails, Store,
         StopBrowser, KillChromium, Launch, StoreBrowser, SetConfig, RegenerateCa, vars
  <2>2. k = l
    <3>1. \E to \in {"bound", "failed"} : Become(k, to)
      BY <2>1 DEF Bind
    <3> QED
      BY <3>1, MoveListener
  <2>3. Taken(listeners[l].port) /\ listeners[l].state = "spawned"
    <3>1. ~Taken(listeners[l].port) => Become(l, "bound")
      BY <2>1, <2>2 DEF Bind
    <3> QED
      BY <2>1, <2>2, <3>1, MoveListener DEF Bind
  <2>4. PICK m \in DOMAIN listeners :
             listeners[m].port = listeners[l].port /\ listeners[m].state \in {"bound", "aborting"}
    BY <2>3 DEF Taken
  <2>5. listeners[m].state # "bound"
    <3> SUFFICES ASSUME listeners[m].state = "bound"
                 PROVE  FALSE
      OBVIOUS
    <3>1. l \in Live /\ m \in Live
      BY <2>3 DEF Live
    <3>2. l = m
      BY <3>1, OneReachable DEF OneStart
    <3> QED
      BY <2>3, <3>2
  <2> QED
    BY <2>4, <2>5
<1> QED
  BY <1>1, LifecycleInvariant, PTL DEF Spec, BindLosesToAborted
-----------------------------------------------------------------------------
(* The CA manager. *)

\* generate() began below the bound and has counted its pair once the
\* certificate is there.
RoomToGenerate == writing \in {"cert", "certfill"} => pairs < MaxPairs

DefaultPathsUnlessTampered ==
    ~tampered => /\ config.cert = DefaultCert /\ config.key = DefaultKey
                 /\ wanted.cert = DefaultCert /\ wanted.key = DefaultKey

\* The key file of the default paths, written last.
KeyIsLast ==
    ~tampered =>
        /\ file[DefaultKey] \in Nat => file[DefaultCert] = file[DefaultKey]
        /\ writing # "no" => file[DefaultKey] \notin Nat
        /\ writing \in {"key", "keyfill"} => file[DefaultCert] = pairs

CaInv ==
    /\ CaTypeOK
    /\ RoomToGenerate
    /\ DefaultPathsUnlessTampered
    /\ KeyIsLast
    /\ CrashLeavesNoMixedPair
-----------------------------------------------------------------------------
\* The initial state satisfies the invariant.
LEMMA CaInitInv == CaInit => CaInv
<1> SUFFICES ASSUME CaInit
             PROVE  CaInv
  OBVIOUS
<1> USE CAAssumption DEF CaInit, EmptyPem, DefaultConfig
<1>1. CaTypeOK
  <2>1. [cert |-> DefaultCert, key |-> DefaultKey, generate |-> TRUE] \in Configs
    BY DEF Configs
  <2>2. file \in [Paths -> Nat \union {Absent, Torn}]
    OBVIOUS
  <2>3. pem \in [cert : Nat \union {NoPem}, key : Nat \union {NoPem}]
    OBVIOUS
  <2>4. pairs \in 0..MaxPairs
    OBVIOUS
  <2>5. tampered \in BOOLEAN
    OBVIOUS
  <2> QED
    BY <2>1, <2>2, <2>3, <2>4, <2>5 DEF CaTypeOK
<1>2. RoomToGenerate /\ DefaultPathsUnlessTampered /\ CrashLeavesNoMixedPair
  BY DEF RoomToGenerate, DefaultPathsUnlessTampered, CrashLeavesNoMixedPair
<1>3. KeyIsLast
  <2>1. file[DefaultKey] = Absent /\ Absent \notin Nat
    BY DEF Paths
  <2> QED
    BY <2>1 DEF KeyIsLast
<1> QED
  BY <1>1, <1>2, <1>3 DEF CaInv

\* initialize() with a configuration that names the default paths, unless they
\* were tampered with, keeps the invariant: it loads one pair or begins to
\* generate one where no key is.
LEMMA InitializeKeeps ==
  ASSUME CaInv,
         NEW c \in Configs,
         ~tampered => c.cert = DefaultCert /\ c.key = DefaultKey,
         Initialize(c),
         UNCHANGED <<file, wanted, pairs, tampered>>
  PROVE  CaInv'
<1>1. c.cert \in Paths /\ c.key \in Paths
  BY DEF Configs, Paths
<1>2. pem' \in [cert : Nat \union {NoPem}, key : Nat \union {NoPem}]
  BY DEF Initialize, Loadable, Loaded, EmptyPem
<1>3. CaTypeOK'
  BY <1>1, <1>2 DEF Initialize, CaInv, CaTypeOK
<1>4. RoomToGenerate'
  BY CAAssumption DEF Initialize, CaInv, CaTypeOK, RoomToGenerate
<1>5. DefaultPathsUnlessTampered'
  BY DEF Initialize, CaInv, DefaultPathsUnlessTampered
<1>6. KeyIsLast'
  <2>1. CASE Loadable(c)
    BY <2>1 DEF Initialize, CaInv, KeyIsLast
  <2>2. CASE ~Loadable(c)
    BY <2>2 DEF Initialize, Loadable, CaInv, KeyIsLast
  <2> QED
    BY <2>1, <2>2
<1>7. CrashLeavesNoMixedPair'
  BY DEF Initialize, Loadable, Loaded, EmptyPem, CaInv, KeyIsLast, CrashLeavesNoMixedPair
<1> QED
  BY <1>3, <1>4, <1>5, <1>6, <1>7 DEF CaInv

\* Each write of generate() keeps the invariant.
LEMMA GenerateKeeps == CaInv /\ Generate => CaInv'
<1> SUFFICES ASSUME CaInv, Generate
             PROVE  CaInv'
  OBVIOUS
<1> USE CAAssumption
<1>1. config.cert \in Paths /\ config.key \in Paths /\ config.cert # config.key
  BY DEF CaInv, CaTypeOK, Configs, Paths
<1>2. CASE TruncateCert
  BY <1>1, <1>2 DEF TruncateCert, Truncate, CaInv, CaTypeOK, RoomToGenerate,
     DefaultPathsUnlessTampered, KeyIsLast, CrashLeavesNoMixedPair, Paths
<1>3. CASE FillCert
  BY <1>1, <1>3 DEF FillCert, CaInv, CaTypeOK, RoomToGenerate,
     DefaultPathsUnlessTampered, KeyIsLast, CrashLeavesNoMixedPair, Paths
<1>4. CASE TruncateKey
  BY <1>1, <1>4 DEF TruncateKey, Truncate, CaInv, CaTypeOK, RoomToGenerate,
     DefaultPathsUnlessTampered, KeyIsLast, CrashLeavesNoMixedPair, Paths
<1>5. CASE FillKey
  BY <1>1, <1>5 DEF FillKey, CaInv, CaTypeOK, RoomToGenerate,
     DefaultPathsUnlessTampered, KeyIsLast, CrashLeavesNoMixedPair, Paths
<1>6. CASE WriteFails
  BY <1>6 DEF WriteFails, CaInv, CaTypeOK, RoomToGenerate,
     DefaultPathsUnlessTampered, KeyIsLast, CrashLeavesNoMixedPair
<1> QED
  BY <1>2, <1>3, <1>4, <1>5, <1>6 DEF Generate

\* Every step keeps the invariant.
LEMMA CaStepInv == CaInv /\ [CaNext]_caVars => CaInv'
<1> SUFFICES ASSUME CaInv, [CaNext]_caVars
             PROVE  CaInv'
  OBVIOUS
<1> USE CAAssumption
<1>1. CASE CaStart
  <2>1. config \in Configs
    BY DEF CaInv, CaTypeOK
  <2> QED
    BY <1>1, <2>1, InitializeKeeps DEF CaStart, CaInv, DefaultPathsUnlessTampered
<1>2. CASE CaRegenerate
  <2>1. wanted \in Configs
    BY DEF CaInv, CaTypeOK
  <2> QED
    BY <1>2, <2>1, InitializeKeeps DEF CaRegenerate, CaInv, DefaultPathsUnlessTampered
<1>3. CASE Generate
  BY <1>3, GenerateKeeps
<1>4. CASE CaRestart
  BY <1>4 DEF CaRestart, CaInv, CaTypeOK, RoomToGenerate, DefaultPathsUnlessTampered,
     KeyIsLast, CrashLeavesNoMixedPair, EmptyPem, Configs, DefaultConfig
<1>5. ASSUME NEW c \in Configs, CaSetConfig(c)
      PROVE  CaInv'
  BY <1>5 DEF CaSetConfig, CaInv, CaTypeOK, RoomToGenerate, DefaultPathsUnlessTampered,
     KeyIsLast, CrashLeavesNoMixedPair
<1>6. ASSUME NEW p \in Paths, Delete(p)
      PROVE  CaInv'
  BY <1>6 DEF Delete, CaInv, CaTypeOK, RoomToGenerate, DefaultPathsUnlessTampered,
     KeyIsLast, CrashLeavesNoMixedPair
<1>7. CASE UNCHANGED caVars
  BY <1>7 DEF caVars, CaInv, CaTypeOK, RoomToGenerate, DefaultPathsUnlessTampered,
     KeyIsLast, CrashLeavesNoMixedPair
<1> QED
  BY <1>1, <1>2, <1>3, <1>4, <1>5, <1>6, <1>7 DEF CaNext

\* The invariant holds in every reachable state.
THEOREM CaInvariant == CaSpec => []CaInv
  BY CaInitInv, CaStepInv, PTL DEF CaSpec

\* Whatever happens to the files, the manager's variables keep their types: what
\* it loads or writes into memory is a pair's number.
THEOREM CaTypes == CaSpec => []CaTypeOK
<1>1. CaInv => CaTypeOK
  BY DEF CaInv
<1> QED
  BY <1>1, CaInvariant, PTL

\* A crash or a failed write between any two of the writes of generate() never
\* lets a later initialize load a certificate with another pair's key.
THEOREM NoMixedPair == CaSpec => []CrashLeavesNoMixedPair
<1>1. CaInv => CrashLeavesNoMixedPair
  BY DEF CaInv
<1> QED
  BY <1>1, CaInvariant, PTL

\* A pair that lies whole in the default files is not being written, so a step
\* that does not tamper with the files leaves it alone.
LEMMA StoredPairStays ==
  ASSUME CaInv, [CaNext]_caVars,
         ~tampered', file[DefaultCert] \in Nat, file[DefaultKey] \in Nat
  PROVE  ~tampered /\ UNCHANGED <<file[DefaultCert], file[DefaultKey]>>
<1>1. ~tampered
  BY DEF CaNext, CaStart, CaRegenerate, Generate, TruncateCert, TruncateKey, Truncate,
     FillCert, FillKey, WriteFails, CaRestart, CaSetConfig, Delete, caVars
<1>2. writing = "no"
  BY <1>1 DEF CaInv, KeyIsLast
<1>3. UNCHANGED file
  BY <1>1, <1>2 DEF CaNext, CaStart, CaRegenerate, Generate, TruncateCert, TruncateKey, Truncate,
     FillCert, FillKey, WriteFails, CaRestart, CaSetConfig, Delete, caVars
<1> QED
  BY <1>1, <1>3

\* A pair that lies whole in the default files is never written again, by a
\* start, by regenerate_ca or after a restart.
THEOREM WholePairIsKept == CaSpec => WholePairStays
<1> DEFINE Stays ==
      ~tampered' /\ file[DefaultCert] \in Nat /\ file[DefaultKey] \in Nat
        => UNCHANGED <<file[DefaultCert], file[DefaultKey]>>
<1>1. CaInv /\ [CaNext]_caVars => [Stays]_caVars
  BY StoredPairStays
<1> QED
  BY <1>1, CaInvariant, PTL DEF CaSpec, WholePairStays
-----------------------------------------------------------------------------
(* The composition. *)

Pair == [cert : Nat \union {NoPem}, key : Nat \union {NoPem}]

\* What the manager holds in memory is what lies in the default files.
PemIsStored ==
    ~tampered /\ HasCert => pem.cert = file[DefaultCert] /\ pem.key = file[DefaultKey]

\* The lock is held while a pair is written, by a start that is certifying or a
\* regeneration, and the manager is empty then.
Lock ==
    /\ ca = HasCert
    /\ holder # Free <=> writing # "no"
    /\ holder # Free => ~ca
    /\ holder \in {Free, Regenerating} \union {c \in Callers : caller[c] = "certifying"}

IsStored(pair) ==
    /\ pair.cert = file[DefaultCert] /\ pair.key = file[DefaultKey]
    /\ pair.cert \in Nat /\ pair.key \in Nat

\* The authority a start is about to use, and the one of every listener.
AuthorityIsStored ==
    ~tampered => /\ \A c \in Callers : caller[c] = "building" => IsStored(taken[c])
                 /\ \A l \in DOMAIN listeners : IsStored(signs[l])

SignTypes ==
    /\ taken \in [Callers -> Pair]
    /\ signs \in Seq(Pair)
    /\ Len(signs) = Len(listeners)

CompositionInv ==
    /\ TypeOK
    /\ CaInv
    /\ Lock
    /\ PemIsStored
    /\ SignTypes
    /\ AuthorityIsStored
-----------------------------------------------------------------------------
(* The two parts of a step. *)

\* A composed step is one of the CA manager's or leaves it alone.
LEMMA CaPart == [CompositionNext]_allVars => [CaNext]_caVars
<1> SUFFICES ASSUME [CompositionNext]_allVars
             PROVE  [CaNext]_caVars
  OBVIOUS
<1>1. CASE Elsewhere
  BY <1>1 DEF Elsewhere
<1>2. ASSUME NEW c \in Callers,
             CertifyHeld(c) \/ CertifyFirst(c) \/ TakeAuthority(c) \/ SpawnSigning(c)
      PROVE  [CaNext]_caVars
  BY <1>2 DEF CertifyHeld, CertifyFirst, TakeAuthority, SpawnSigning, CaNext
<1>3. CASE Regenerate \/ Write
  BY <1>3 DEF Regenerate, Write, CaNext
<1>4. ASSUME NEW p \in Ports, NEW c \in Configs, Configure(p, c)
      PROVE  [CaNext]_caVars
  BY <1>4 DEF Configure, CaNext
<1>5. ASSUME NEW p \in Paths, DeleteFile(p)
      PROVE  [CaNext]_caVars
  BY <1>5 DEF DeleteFile, CaNext
<1>6. CASE CrashBoth
  BY <1>6 DEF CrashBoth, CaNext
<1>7. CASE UNCHANGED allVars
  BY <1>7 DEF allVars
<1> QED
  BY <1>1, <1>2, <1>3, <1>4, <1>5, <1>6, <1>7 DEF CompositionNext

\* Once the lock is released, start and regenerate_ca have done what the life
\* cycle says they do in one step; until then start has done nothing, and
\* regenerate_ca has taken the certificate away.
LEMMA ProceedPart ==
  ASSUME Lock, NEW h, Proceed(h),
         h = Regenerating \/ (h \in Callers /\ caller[h] = "certifying" /\ ~ca),
         writing' # "no" => ~HasCert'
  PROVE  [Next]_vars
<1>1. CASE writing' = "no" /\ h = Regenerating
  BY <1>1 DEF Proceed, Return, Next
<1>2. CASE writing' = "no" /\ h # Regenerating
  BY <1>2 DEF Proceed, Return, Next
<1>3. CASE writing' # "no" /\ h = Regenerating
  <2>1. ca' \in BOOLEAN
    BY <1>3 DEF Proceed, HasCert
  <2>2. RegenerateCa
    BY <1>3, <2>1 DEF Proceed, RegenerateCa
  <2> QED
    BY <2>2 DEF Next
<1>4. CASE writing' # "no" /\ h # Regenerating
  <2>1. ca' = ca
    BY <1>4 DEF Proceed, Lock, HasCert
  <2> QED
    BY <1>4, <2>1 DEF Proceed, vars, start, browser
<1> QED
  BY <1>1, <1>2, <1>3, <1>4

\* The manager holds no certificate while one is written.
LEMMA EmptyWhileWriting ==
  ASSUME Lock, CaStart \/ CaRegenerate \/ (Generate /\ holder # Free), writing' # "no"
  PROVE  ~HasCert'
<1>1. CASE CaStart \/ CaRegenerate
  BY <1>1 DEF CaStart, CaRegenerate, Initialize, EmptyPem, HasCert
<1>2. CASE Generate /\ holder # Free
  BY <1>2 DEF Generate, TruncateCert, TruncateKey, Truncate, FillCert, FillKey, WriteFails,
     Lock, HasCert
<1> QED
  BY <1>1, <1>2

\* A composed step is one of the life cycle's or leaves it alone.
LEMMA LifecyclePart == Lock /\ [CompositionNext]_allVars => [Next]_vars
<1> SUFFICES ASSUME Lock, [CompositionNext]_allVars
             PROVE  [Next]_vars
  OBVIOUS
<1> USE CompositionAssumption
<1>1. CASE Elsewhere
  BY <1>1 DEF Elsewhere, Next
<1>2. ASSUME NEW c \in Callers, CertifyHeld(c) \/ TakeAuthority(c) \/ SpawnSigning(c)
      PROVE  [Next]_vars
  BY <1>2 DEF CertifyHeld, TakeAuthority, SpawnSigning, Next
<1>3. ASSUME NEW c \in Callers, CertifyFirst(c)
      PROVE  [Next]_vars
  <2>1. caller[c] = "certifying" /\ ~ca /\ Proceed(c) /\ CaStart
    BY <1>3 DEF CertifyFirst, CaStart, Lock, HasCert
  <2> QED
    BY <2>1, ProceedPart, EmptyWhileWriting
<1>4. CASE Regenerate
  <2>1. Proceed(Regenerating) /\ CaRegenerate
    BY <1>4 DEF Regenerate
  <2> QED
    BY <2>1, ProceedPart, EmptyWhileWriting
<1>5. CASE Write
  <2>1. /\ Proceed(holder) /\ Generate /\ holder # Free
        /\ holder = Regenerating \/ (holder \in Callers /\ caller[holder] = "certifying" /\ ~ca)
    BY <1>5 DEF Write, Lock
  <2> QED
    BY <2>1, ProceedPart, EmptyWhileWriting
<1>6. ASSUME NEW p \in Ports, NEW c \in Configs, Configure(p, c)
      PROVE  [Next]_vars
  BY <1>6 DEF Configure, Next
<1>7. ASSUME NEW p \in Paths, DeleteFile(p)
      PROVE  [Next]_vars
  BY <1>7 DEF DeleteFile
<1>8. CASE CrashBoth
  BY <1>8 DEF CrashBoth, Next
<1>9. CASE UNCHANGED allVars
  BY <1>9 DEF allVars
<1> QED
  BY <1>1, <1>2, <1>3, <1>4, <1>5, <1>6, <1>7, <1>8, <1>9 DEF CompositionNext
-----------------------------------------------------------------------------
(* The lock. *)

\* Initializing or writing keeps the lock, or gives it back at the end.
LEMMA ProceedLock ==
  ASSUME Lock, NEW h, h # Free,
         h = Regenerating \/ (h \in Callers /\ caller[h] = "certifying"),
         CaStart \/ CaRegenerate \/ (Generate /\ holder # Free), Proceed(h)
  PROVE  Lock'
<1>1. CASE writing' = "no"
  BY <1>1 DEF Proceed, Return, HasCert, Lock
<1>2. CASE writing' # "no"
  <2>1. ~HasCert'
    BY <1>2, EmptyWhileWriting
  <2>2. holder' = h /\ ca' = HasCert' /\ UNCHANGED caller
    BY <1>2 DEF Proceed, start
  <2>3. h \in {Free, Regenerating} \union {c \in Callers : caller[c] = "certifying"}
    OBVIOUS
  <2> QED
    BY <1>2, <2>1, <2>2, <2>3 DEF HasCert, Lock
<1> QED
  BY <1>1, <1>2

LEMMA LockStep == TypeOK /\ Lock /\ [CompositionNext]_allVars => Lock'
<1> SUFFICES ASSUME TypeOK, Lock, [CompositionNext]_allVars
             PROVE  Lock'
  OBVIOUS
<1> USE CompositionAssumption DEF Lock
<1>1. CASE Elsewhere
  <2>1. UNCHANGED <<ca, pem, writing, holder>>
    BY <1>1 DEF Elsewhere, Check, BuildFails, Store, Bind, Ended, Stop, StopBrowser, KillChromium, Launch,
       StoreBrowser, caVars, compositionVars
  <2>2. \A c \in Callers : caller[c] = "certifying" => caller'[c] = "certifying"
    BY <1>1 DEF Elsewhere, Check, BuildFails, Store, Goto, Bind, Ended, Stop, StopBrowser, KillChromium,
       Launch, StoreBrowser, start, TypeOK
  <2> QED
    BY <2>1, <2>2 DEF HasCert
<1>2. ASSUME NEW c \in Callers, CertifyHeld(c)
      PROVE  Lock'
  BY <1>2 DEF CertifyHeld, Certify, HasCert, caVars, compositionVars
<1>4. ASSUME NEW c \in Callers, CertifyFirst(c)
      PROVE  Lock'
  <2>1. c # Free /\ caller[c] = "certifying" /\ CaStart /\ Proceed(c)
    BY <1>4 DEF CertifyFirst
  <2> QED
    BY <2>1, ProceedLock
<1>5. CASE Regenerate
  <2>1. Regenerating # Free /\ CaRegenerate /\ Proceed(Regenerating)
    BY <1>5 DEF Regenerate
  <2> QED
    BY <2>1, ProceedLock
<1>6. CASE Write
  <2>1. holder # Free /\ Generate /\ Proceed(holder)
    BY <1>6 DEF Write
  <2> QED
    BY <2>1, ProceedLock
<1>7. ASSUME NEW c \in Callers, TakeAuthority(c) \/ SpawnSigning(c)
      PROVE  Lock'
  <2>1. UNCHANGED <<ca, pem, writing, holder>>
    BY <1>7 DEF TakeAuthority, Authorize, SpawnSigning, Spawn, caVars
  <2>2. \A d \in Callers : caller[d] = "certifying" => caller'[d] = "certifying"
    BY <1>7 DEF TakeAuthority, Authorize, SpawnSigning, Spawn, Goto, TypeOK
  <2> QED
    BY <2>1, <2>2 DEF HasCert
<1>8. ASSUME NEW p \in Ports, NEW c \in Configs, Configure(p, c)
      PROVE  Lock'
  BY <1>8 DEF Configure, SetConfig, CaSetConfig, HasCert, start, compositionVars
<1>9. ASSUME NEW p \in Paths, DeleteFile(p)
      PROVE  Lock'
  BY <1>9 DEF DeleteFile, Delete, HasCert, vars, compositionVars
<1>10. CASE CrashBoth
  BY <1>10 DEF CrashBoth, Crash, CaRestart, HasCert, EmptyPem
<1>11. CASE UNCHANGED allVars
  BY <1>11 DEF allVars, vars, caVars, compositionVars, HasCert
<1> QED
  BY <1>1, <1>2, <1>4, <1>5, <1>6, <1>7, <1>8, <1>9, <1>10, <1>11 DEF CompositionNext
-----------------------------------------------------------------------------
(* What the manager holds and what lies in the files. *)

LEMMA PemStep == CaInv /\ Lock /\ PemIsStored /\ [CaNext]_caVars => PemIsStored'
<1> SUFFICES ASSUME CaInv, Lock, PemIsStored, [CaNext]_caVars, ~tampered', HasCert'
             PROVE  pem'.cert = file'[DefaultCert] /\ pem'.key = file'[DefaultKey]
  BY DEF PemIsStored
<1> USE CAAssumption
<1>1. ~tampered
  BY DEF CaNext, CaStart, CaRegenerate, Generate, TruncateCert, TruncateKey, Truncate,
     FillCert, FillKey, WriteFails, CaRestart, CaSetConfig, Delete, caVars
<1>2. /\ config.cert = DefaultCert /\ config.key = DefaultKey
      /\ wanted.cert = DefaultCert /\ wanted.key = DefaultKey
  BY <1>1 DEF CaInv, DefaultPathsUnlessTampered
<1>3. CASE CaStart \/ CaRegenerate
  BY <1>2, <1>3 DEF CaStart, CaRegenerate, Initialize, Loaded, EmptyPem, HasCert
<1>4. CASE Generate
  <2>1. ~HasCert
    BY <1>4 DEF Generate, TruncateCert, TruncateKey, Truncate, FillCert, FillKey, WriteFails, Lock
  <2>2. FillKey
    BY <1>4, <2>1 DEF Generate, TruncateCert, TruncateKey, Truncate, FillCert, WriteFails, HasCert
  <2>3. file[DefaultCert] = pairs
    BY <1>1, <2>2 DEF FillKey, CaInv, KeyIsLast
  <2>4. DefaultCert # DefaultKey /\ DefaultKey \in Paths
    BY DEF Paths
  <2> QED
    BY <1>2, <2>2, <2>3, <2>4 DEF FillKey, CaInv, CaTypeOK
<1>5. CASE CaRestart
  BY <1>5 DEF CaRestart, EmptyPem, HasCert
<1>6. CASE UNCHANGED <<pem, file>>
  BY <1>1, <1>6 DEF PemIsStored, HasCert
<1>7. (\E p \in Paths : Delete(p)) => tampered'
  BY DEF Delete
<1> QED
  BY <1>3, <1>4, <1>5, <1>6, <1>7 DEF CaNext, CaSetConfig, caVars
-----------------------------------------------------------------------------
(* What starts have taken and listeners sign with. *)

LEMMA SequenceDomain == \A S : \A q \in Seq(S) : DOMAIN q = 1..Len(q)
OBVIOUS

LEMMA SameLength ==
  ASSUME TypeOK, NEW l \in DOMAIN listeners,
         NEW to \in {"spawned", "bound", "failed", "aborting", "aborted"}, Become(l, to)
  PROVE  Len(listeners') = Len(listeners)
<1>1. listeners \in Seq([port : Ports,
             state : {"spawned", "bound", "failed", "aborting", "aborted"}])
  BY Zenon DEF TypeOK
<1>2. /\ listeners' \in Seq([port : Ports,
                state : {"spawned", "bound", "failed", "aborting", "aborted"}])
      /\ DOMAIN listeners' = DOMAIN listeners
  BY MoveListener
<1> QED
  BY <1>1, <1>2

LEMMA SignTypesStep ==
  TypeOK /\ CaTypeOK /\ SignTypes /\ [CompositionNext]_allVars => SignTypes'
<1> SUFFICES ASSUME TypeOK, CaTypeOK, SignTypes, [CompositionNext]_allVars
             PROVE  SignTypes'
  OBVIOUS
<1> USE DEF SignTypes
<1>1. ASSUME NEW c \in Callers, TakeAuthority(c)
      PROVE  SignTypes'
  BY <1>1 DEF TakeAuthority, Authorize, CaTypeOK, Pair
<1>2. ASSUME NEW c \in Callers, SpawnSigning(c)
      PROVE  SignTypes'
  <2>1. listeners \in Seq([port : Ports,
               state : {"spawned", "bound", "failed", "aborting", "aborted"}])
    BY Zenon DEF TypeOK
  <2>2. Len(listeners') = Len(listeners) + 1
    BY <1>2, <2>1 DEF SpawnSigning, Spawn
  <2>3. taken[c] \in Pair /\ signs' = Append(signs, taken[c]) /\ UNCHANGED taken
    BY <1>2 DEF SpawnSigning
  <2>4. signs' \in Seq(Pair) /\ Len(signs') = Len(signs) + 1
    BY <2>3
  <2> QED
    BY <2>2, <2>3, <2>4
<1>3. CASE CrashBoth
  BY <1>3, CAAssumption DEF CrashBoth, Crash, EmptyPem, Pair
<1>4. CASE Elsewhere
  <2>1. Len(listeners') = Len(listeners)
    <3>1. CASE \E l \in DOMAIN listeners : Bind(l) \/ Ended(l)
      <4>1. PICK l \in DOMAIN listeners, to \in {"bound", "failed", "aborted"} : Become(l, to)
        BY <3>1 DEF Bind, Ended
      <4> QED
        BY <4>1, SameLength
    <3>2. CASE Stop
      BY <3>2, SameLength DEF Stop, TypeOK
    <3>3. CASE UNCHANGED listeners
      BY <3>3
    <3> QED
      BY <1>4, <3>1, <3>2, <3>3 DEF Elsewhere, Check, BuildFails, Store, StopBrowser, KillChromium, Launch,
         StoreBrowser
  <2> QED
    BY <1>4, <2>1 DEF Elsewhere, compositionVars
<1>5. CASE UNCHANGED <<taken, signs, listeners>>
  BY <1>5
<1> QED
  BY <1>1, <1>2, <1>3, <1>4, <1>5 DEF CompositionNext, CertifyHeld, Certify, CertifyFirst, Regenerate,
     Write, Proceed, Return, RegenerateCa, Configure, SetConfig, DeleteFile, vars, allVars,
     compositionVars

\* A pair that lies in the files still does after a step that does not tamper
\* with them.
LEMMA StoredStays ==
  ASSUME CaInv, [CaNext]_caVars, ~tampered', NEW pair, IsStored(pair)
  PROVE  /\ pair.cert = file'[DefaultCert] /\ pair.key = file'[DefaultKey]
         /\ pair.cert \in Nat /\ pair.key \in Nat
BY StoredPairStays DEF IsStored

\* Every step keeps the pairs taken and signed with the ones in the files.
LEMMA AuthorityStep ==
  ASSUME CompositionInv, [CompositionNext]_allVars, ~tampered'
  PROVE  /\ \A c \in Callers : caller'[c] = "building" => IsStored(taken[c])'
         /\ \A l \in DOMAIN listeners' : IsStored(signs[l])'
<1> USE DEF CompositionInv
<1>1. [CaNext]_caVars
  BY CaPart
<1>2. ~tampered
  BY <1>1 DEF CaNext, CaStart, CaRegenerate, Generate, TruncateCert, TruncateKey, Truncate,
     FillCert, FillKey, WriteFails, CaRestart, CaSetConfig, Delete, caVars
<1>3. /\ \A c \in Callers : caller[c] = "building" => IsStored(taken[c])
      /\ \A l \in DOMAIN listeners : IsStored(signs[l])
  BY <1>2 DEF AuthorityIsStored
<1>4. ASSUME NEW c \in Callers, TakeAuthority(c)
      PROVE  /\ \A d \in Callers : caller'[d] = "building" => IsStored(taken[d])'
             /\ \A l \in DOMAIN listeners' : IsStored(signs[l])'
  <2>1. UNCHANGED <<file, pem, listeners, signs>>
    BY <1>4 DEF TakeAuthority, Authorize, caVars
  <2>2. ASSUME NEW d \in Callers, caller'[d] = "building"
        PROVE  IsStored(taken[d])'
    <3>1. CASE d = c
      <4>1. HasCert /\ taken'[d] = pem
        BY <1>4, <2>2, <3>1 DEF TakeAuthority, Authorize, Goto, Lock, TypeOK, SignTypes
      <4>2. pem.cert = file[DefaultCert] /\ pem.key = file[DefaultKey]
        BY <1>2, <4>1 DEF PemIsStored
      <4>3. pem.cert \in Nat /\ pem.key = pem.cert
        BY <1>2, <4>1 DEF CaInv, CaTypeOK, CrashLeavesNoMixedPair, HasCert
      <4> QED
        BY <2>1, <4>1, <4>2, <4>3 DEF IsStored
    <3>2. CASE d # c
      <4>1. taken'[d] = taken[d] /\ caller[d] = "building"
        BY <1>4, <2>2, <3>2 DEF TakeAuthority, Authorize, Goto, TypeOK, SignTypes
      <4> QED
        BY <1>3, <2>1, <4>1 DEF IsStored
    <3> QED
      BY <3>1, <3>2
  <2>3. \A l \in DOMAIN listeners' : IsStored(signs[l])'
    BY <1>3, <2>1 DEF IsStored
  <2> QED
    BY <2>2, <2>3
<1>5. ASSUME NEW c \in Callers, SpawnSigning(c)
      PROVE  /\ \A d \in Callers : caller'[d] = "building" => IsStored(taken[d])'
             /\ \A l \in DOMAIN listeners' : IsStored(signs[l])'
  <2>1. UNCHANGED <<file, taken>> /\ signs' = Append(signs, taken[c])
    BY <1>5 DEF SpawnSigning, caVars
  <2>2. caller[c] = "building" /\ \A d \in Callers : caller'[d] = "building" => caller[d] = "building"
    BY <1>5 DEF SpawnSigning, Spawn, Goto, TypeOK
  <2>3. ASSUME NEW l \in DOMAIN listeners'
        PROVE  IsStored(signs[l])'
    <3>1. l \in DOMAIN listeners \union {Len(listeners) + 1}
      BY <1>5, AppendListener DEF SpawnSigning, Spawn
    <3>2. CASE l \in DOMAIN listeners
      <4>1. DOMAIN listeners = 1..Len(listeners)
        BY Zenon, SequenceDomain DEF TypeOK
      <4>2. signs'[l] = signs[l]
        BY <2>1, <3>2, <4>1 DEF SignTypes
      <4> QED
        BY <1>3, <2>1, <3>2, <4>2 DEF IsStored
    <3>3. CASE l = Len(listeners) + 1
      <4>1. signs'[l] = taken[c]
        BY <2>1, <3>3 DEF SignTypes
      <4> QED
        BY <1>3, <2>1, <2>2, <4>1 DEF IsStored
    <3> QED
      BY <3>1, <3>2, <3>3
  <2> QED
    BY <1>3, <2>1, <2>2, <2>3 DEF IsStored
<1>6. CASE CrashBoth
  BY <1>6 DEF CrashBoth, Crash
<1>7. CASE /\ UNCHANGED <<taken, signs>> /\ DOMAIN listeners' = DOMAIN listeners
           /\ \A d \in Callers : caller'[d] = "building" => caller[d] = "building"
  BY <1>1, <1>3, <1>7, StoredStays DEF IsStored
<1>8. CASE Elsewhere
  <2>1. DOMAIN listeners' = DOMAIN listeners
    <3>1. CASE \E l \in DOMAIN listeners : Bind(l) \/ Ended(l)
      <4>1. PICK l \in DOMAIN listeners, to \in {"bound", "failed", "aborted"} : Become(l, to)
        BY <3>1 DEF Bind, Ended
      <4> QED
        BY <4>1, MoveListener
    <3>2. CASE Stop
      BY <3>2, MoveListener DEF Stop, TypeOK
    <3>3. CASE UNCHANGED listeners
      BY <3>3
    <3> QED
      BY <1>8, <3>1, <3>2, <3>3 DEF Elsewhere, Check, BuildFails, Store, StopBrowser, KillChromium, Launch,
         StoreBrowser
  <2>2. \A d \in Callers : caller'[d] = "building" => caller[d] = "building"
    BY <1>8 DEF Elsewhere, Check, BuildFails, Store, Goto, Bind, Ended, Stop, StopBrowser, KillChromium,
       Launch, StoreBrowser, start, TypeOK
  <2> QED
    BY <1>7, <1>8, <2>1, <2>2 DEF Elsewhere, compositionVars
<1>9. ASSUME NEW h, Proceed(h)
      PROVE  /\ UNCHANGED <<taken, signs>> /\ DOMAIN listeners' = DOMAIN listeners
             /\ \A d \in Callers : caller'[d] = "building" => caller[d] = "building"
  BY <1>9 DEF Proceed, Return, RegenerateCa, Certify, Goto, start, TypeOK
<1>10. ASSUME NEW c \in Callers, CertifyHeld(c)
       PROVE  /\ UNCHANGED <<taken, signs>> /\ DOMAIN listeners' = DOMAIN listeners
              /\ \A d \in Callers : caller'[d] = "building" => caller[d] = "building"
  BY <1>10 DEF CertifyHeld, Certify, Goto, compositionVars, TypeOK
<1>11. CASE UNCHANGED <<taken, signs, listeners, caller>>
  BY <1>7, <1>11
<1> QED
  BY <1>4, <1>5, <1>6, <1>7, <1>8, <1>9, <1>10, <1>11 DEF CompositionNext, CertifyFirst, Regenerate, Write,
     Configure, SetConfig, DeleteFile, start, vars, allVars, compositionVars
-----------------------------------------------------------------------------
\* The invariant of the composition.
THEOREM CompositionInvariant == CompositionSpec => []CompositionInv
<1>1. CompositionInit => CompositionInv
  <2> SUFFICES ASSUME CompositionInit
               PROVE  CompositionInv
    OBVIOUS
  <2>1. TypeOK /\ CaInv
    BY InitTypes, CaInitInv DEF CompositionInit
  <2>2. Lock
    BY CompositionAssumption DEF CompositionInit, Init, CaInit, Lock, HasCert, EmptyPem
  <2>3. PemIsStored
    BY DEF CompositionInit, CaInit, PemIsStored, HasCert, EmptyPem
  <2>4. SignTypes
    BY DEF CompositionInit, Init, SignTypes, Pair, EmptyPem
  <2>5. AuthorityIsStored
    BY DEF CompositionInit, Init, AuthorityIsStored
  <2> QED
    BY <2>1, <2>2, <2>3, <2>4, <2>5 DEF CompositionInv
<1>2. CompositionInv /\ [CompositionNext]_allVars => CompositionInv'
  <2> SUFFICES ASSUME CompositionInv, [CompositionNext]_allVars
               PROVE  CompositionInv'
    OBVIOUS
  <2>1. TypeOK /\ CaInv /\ CaTypeOK /\ Lock /\ PemIsStored /\ SignTypes
    BY DEF CompositionInv, CaInv
  <2>2. TypeOK'
    BY <2>1, LifecyclePart, TypeStep
  <2>3. CaInv'
    BY <2>1, CaPart, CaStepInv
  <2>4. Lock'
    BY <2>1, LockStep
  <2>5. PemIsStored'
    BY <2>1, CaPart, PemStep
  <2>6. SignTypes'
    BY <2>1, SignTypesStep
  <2>7. AuthorityIsStored'
    BY AuthorityStep DEF AuthorityIsStored
  <2> QED
    BY <2>2, <2>3, <2>4, <2>5, <2>6, <2>7 DEF CompositionInv
<1> QED
  BY <1>1, <1>2, PTL DEF CompositionSpec

\* The types of the composition's variables: a pair is kept for every listener, and
\* whoever holds the write lock of the CA is where it takes it.
THEOREM CompositionTypes == CompositionSpec => []CompositionTypeOK
<1>1. CompositionInv => CompositionTypeOK
  BY DEF CompositionInv, CompositionTypeOK, Lock, SignTypes, Pair
<1> QED
  BY <1>1, CompositionInvariant, PTL

\* Unless somebody tampers with the files or the paths, every running listener
\* signs with the pair that lies whole in the default files.
THEOREM ListenersSign == CompositionSpec => []SignsWithStoredPair
<1>1. CompositionInv => SignsWithStoredPair
  <2> SUFFICES ASSUME CompositionInv, ~tampered, NEW l \in DOMAIN signs \intersect Live
               PROVE  /\ signs[l].cert = signs[l].key
                      /\ signs[l].cert = file[DefaultCert]
                      /\ signs[l].key = file[DefaultKey]
    BY DEF SignsWithStoredPair
  <2>1. IsStored(signs[l])
    BY DEF CompositionInv, AuthorityIsStored, Live
  <2> QED
    BY <2>1 DEF CompositionInv, CaInv, KeyIsLast, IsStored
<1> QED
  BY <1>1, CompositionInvariant, PTL

\* The composition implements the life cycle: initializing the CA file by file,
\* under the lock, is one step of a start or of regenerate_ca.
THEOREM CompositionImplementsLifecycle == CompositionSpec => LifecycleIsKept
<1>1. CompositionInit => Init
  BY DEF CompositionInit
<1>2. CompositionInv /\ [CompositionNext]_allVars => [Next]_vars
  BY LifecyclePart DEF CompositionInv
<1> QED
  BY <1>1, <1>2, CompositionInvariant, PTL DEF CompositionSpec, LifecycleIsKept, Spec
=============================================================================
