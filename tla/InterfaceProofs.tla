---------------------------- MODULE InterfaceProofs ----------------------------
(***************************************************************************)
(* Theorems about the parts the user sees: the windows, the DevTools        *)
(* client, the tabs and the editor, the panels of events, the settings, the *)
(* command palette and the view of the target page, and about the timeline  *)
(* they show; for every value of the constants.                             *)
(***************************************************************************)
EXTENDS DevToolsClient, Windows, SettingsModal, Palette, EventPanels,
        EditorTabs, TargetView, Timeline, OrderingProofs
-----------------------------------------------------------------------------
(* The DevTools client: its sockets and its timer, for any number of slots, *)
(* connects and disconnects.                                                *)

DtInv ==
    /\ DtTypeOK
    /\ timers \in Nat
    /\ ReconnectAddsNoSocket
    /\ ConnectedIsOpen

\* The live sockets are finitely many, and one is one less.
LEMMA LiveIsFinite == IsFiniteSet(Live) /\ Cardinality(Live) \in Nat
<1>1. IsFiniteSet(Live)
  BY DevToolsAssumption, FS_Subset DEF Live
<1> QED
  BY <1>1, FS_CardinalityType

\* A new socket takes a free slot.
LEMMA NewSocketAdds ==
  ASSUME DtTypeOK, NEW pending, NewSocket(pending)
  PROVE  /\ socket' \in [Sockets -> {"none", "connecting", "open", "closing"}]
         /\ ws' \in Sockets
         /\ Cardinality(Live') = Cardinality(Live) + 1
         /\ timers' = pending
<1>1. PICK s \in Sockets \ Live : socket' = [socket EXCEPT ![s] = "connecting"] /\ ws' = s
  BY DEF NewSocket, Live
<1>2. Live' = Live \union {s}
  BY <1>1 DEF Live, DtTypeOK
<1>3. Cardinality(Live') = Cardinality(Live) + 1
  BY <1>1, <1>2, LiveIsFinite, FS_AddElement
<1> QED
  BY <1>1, <1>3 DEF NewSocket, DtTypeOK

\* A socket that closes leaves the live ones.
LEMMA ClosesRemoves ==
  ASSUME DtTypeOK, NEW s \in Sockets, Closes(s)
  PROVE  Cardinality(Live') = Cardinality(Live) - 1 /\ Cardinality(Live) > 0
<1>1. s \in Live /\ Live' = Live \ {s}
  BY DEF Closes, Live, DtTypeOK
<1>2. Cardinality(Live') = Cardinality(Live) - 1
  BY <1>1, LiveIsFinite, FS_RemoveElement
<1>3. Cardinality(Live) # 0
  BY <1>1, LiveIsFinite, FS_EmptySet
<1> QED
  BY <1>2, <1>3, LiveIsFinite

\* Every step keeps the invariant.
LEMMA DtStep == DtInv /\ [DtNext]_dtVars => DtInv'
<1> SUFFICES ASSUME DtInv, [DtNext]_dtVars
             PROVE  DtInv'
  OBVIOUS
<1> USE DevToolsAssumption, LiveIsFinite DEF DtInv
<1>1. CASE Connect
  <2>1. CASE connected
    BY <1>1, <2>1 DEF Connect, DtTypeOK, ReconnectAddsNoSocket, ConnectedIsOpen, Live
  <2>2. CASE ~connected /\ NewSocket(timers)
    <3>1. DtTypeOK' /\ timers' \in Nat /\ ConnectedIsOpen'
      BY <1>1, <2>2, NewSocketAdds DEF Connect, DtTypeOK, ConnectedIsOpen
    <3>2. ReconnectAddsNoSocket'
      BY <1>1, <2>2, NewSocketAdds DEF Connect, DtTypeOK, ReconnectAddsNoSocket
    <3> QED
      BY <3>1, <3>2
  <2>3. CASE ~connected /\ NewSocketThrows(timers)
    BY <1>1, <2>3 DEF Connect, NewSocketThrows, ScheduleReconnect, DtTypeOK,
       ReconnectAddsNoSocket, ConnectedIsOpen, Live
  <2> QED
    BY <1>1, <2>1, <2>2, <2>3 DEF Connect
<1>2. CASE TimerFires
  <2>1. CASE connected
    BY <1>2, <2>1 DEF TimerFires, DtTypeOK, ReconnectAddsNoSocket, ConnectedIsOpen, Live
  <2>2. CASE ~connected
    <3>1. NewSocket(timers - 1)
      BY <1>2, <2>2 DEF TimerFires
    <3>2. DtTypeOK' /\ timers' \in Nat /\ ConnectedIsOpen'
      BY <1>2, <2>2, <3>1, NewSocketAdds DEF TimerFires, DtTypeOK, ConnectedIsOpen
    <3>3. ReconnectAddsNoSocket'
      BY <1>2, <3>1, NewSocketAdds DEF TimerFires, DtTypeOK, ReconnectAddsNoSocket
    <3> QED
      BY <3>2, <3>3
  <2> QED
    BY <2>1, <2>2
<1>3. CASE TimerFiresThrows
  BY <1>3 DEF TimerFiresThrows, NewSocketThrows, ScheduleReconnect, DtTypeOK,
     ReconnectAddsNoSocket, ConnectedIsOpen, Live
<1>4. ASSUME NEW s \in Sockets, Opens(s)
      PROVE  DtInv'
  <2>1. Live' = Live
    BY <1>4 DEF Opens, Live, DtTypeOK
  <2>2. DtTypeOK' /\ timers' \in Nat /\ ConnectedIsOpen'
    BY <1>4 DEF Opens, DtTypeOK, ConnectedIsOpen
  <2> QED
    BY <1>4, <2>1, <2>2 DEF Opens, ReconnectAddsNoSocket
<1>5. ASSUME NEW s \in Sockets, Closes(s)
      PROVE  DtInv'
  <2>1. DtTypeOK' /\ timers' = 1 /\ ~connected'
    BY <1>5 DEF Closes, ScheduleReconnect, DtTypeOK
  <2>2. ReconnectAddsNoSocket'
    <3>1. Cardinality(Live') = Cardinality(Live) - 1
      BY <1>5, ClosesRemoves
    <3>2. connects' = connects /\ connects \in Nat
      BY <1>5 DEF Closes, DtTypeOK
    <3> QED
      BY <2>1, <3>1, <3>2 DEF ReconnectAddsNoSocket
  <2> QED
    BY <2>1, <2>2 DEF ConnectedIsOpen
<1>6. CASE Disconnect
  <2>1. Live' = Live
    BY <1>6 DEF Disconnect, Live, DtTypeOK
  <2>2. timers' = 0 /\ ~connected' /\ connected' \in BOOLEAN
    BY <1>6 DEF Disconnect
  <2>3. socket' \in [Sockets -> {"none", "connecting", "open", "closing"}]
    BY <1>6 DEF Disconnect, DtTypeOK
  <2>4. ws' \in Sockets \union {0} /\ connects' = connects /\ connects \in 0..MaxConnects
    BY <1>6 DEF Disconnect, DtTypeOK
  <2>5. disconnects' \in 0..MaxDisconnects
    BY <1>6 DEF Disconnect, DtTypeOK
  <2> QED
    BY <2>1, <2>2, <2>3, <2>4, <2>5 DEF DtTypeOK, ReconnectAddsNoSocket, ConnectedIsOpen
<1>7. CASE UNCHANGED dtVars
  BY <1>7 DEF dtVars, DtTypeOK, ReconnectAddsNoSocket, ConnectedIsOpen, Live
<1> QED
  BY <1>1, <1>2, <1>3, <1>4, <1>5, <1>6, <1>7 DEF DtNext

\* The invariant holds in every reachable state, with or without fairness.
THEOREM DtInvariant == DtSpec => []DtInv
<1>1. DtInit => DtInv
  <2> SUFFICES ASSUME DtInit
               PROVE  DtInv
    OBVIOUS
  <2>1. DtTypeOK /\ timers = 0 /\ connects = 0 /\ ConnectedIsOpen
    <3>1. connected \in BOOLEAN /\ ~connected
      BY DEF DtInit
    <3>2. socket \in [Sockets -> {"none", "connecting", "open", "closing"}]
      BY DEF DtInit
    <3> QED
      BY <3>1, <3>2, DevToolsAssumption DEF DtInit, DtTypeOK, ConnectedIsOpen
  <2>2. Live = {}
    BY DEF DtInit, Live
  <2> QED
    BY <2>1, <2>2, FS_EmptySet DEF DtInv, ReconnectAddsNoSocket
<1> QED
  BY <1>1, DtStep, PTL DEF DtSpec

\* The client's fields keep their types.
THEOREM DtTypes == DtSpec => []DtTypeOK
<1>1. DtInv => DtTypeOK
  BY DEF DtInv
<1> QED
  BY <1>1, DtInvariant, PTL

\* However often the connection is lost and whenever disconnect() is called,
\* reconnecting never adds a socket to the ones connect() was called for.
THEOREM NoExtraSocket == DtSpec => []ReconnectAddsNoSocket
<1>1. DtInv => ReconnectAddsNoSocket
  BY DEF DtInv
<1> QED
  BY <1>1, DtInvariant, PTL

\* A client that takes itself for connected has an open socket.
THEOREM ConnectedHasSocket == DtSpec => []ConnectedIsOpen
<1>1. DtInv => ConnectedIsOpen
  BY DEF DtInv
<1> QED
  BY <1>1, DtInvariant, PTL
-----------------------------------------------------------------------------
(* The windows. *)

WindowType == [id : WinIds, tabs : Seq(Nat), active : Nat]

KernelType == [started : BOOLEAN, main : Nat, starting : Nat, made : Seq(Nat), stopping : Nat,
               mixed : BOOLEAN]

WinTypes ==
    /\ now \in 1..MaxTime
    /\ windows \in Seq(WindowType)
    /\ tabs \in Seq([id : WinIds, windowId : WinIds])
    /\ windowMap \in [WinIds -> Nat]
    /\ tabMap \in [WinIds -> Nat]
    /\ closed \in [windows : SUBSET Nat, tabs : SUBSET Nat]
    /\ closed.windows \subseteq DOMAIN windows
    /\ kernel \in KernelType
    /\ kernel.main # 0 => kernel.main \in DOMAIN windows
    /\ \A i \in DOMAIN kernel.made : kernel.made[i] \in DOMAIN windows

\* What a Map holds was made, and has the id it is under.
WindowEntries ==
    \A id \in WinIds : windowMap[id] # 0 =>
        windowMap[id] \in DOMAIN windows /\ windows[windowMap[id]].id = id

TabEntries ==
    \A id \in WinIds : tabMap[id] # 0 => tabMap[id] \in DOMAIN tabs /\ tabs[tabMap[id]].id = id

ListsOwnTabs(w) ==
    /\ \A i \in DOMAIN windows[w].tabs :
          /\ windows[w].tabs[i] \in DOMAIN tabs
          /\ tabs[windows[w].tabs[i]].windowId = windows[w].id
    /\ windows[w].active = IF windows[w].tabs = <<>> THEN 0 ELSE Head(windows[w].tabs)

\* One start or stop at a time: a kernel that is not started is not starting
\* either, and has no main window registered.
OneAtATime ==
    ~kernel.mixed =>
        /\ Starts + kernel.stopping <= 1
        /\ ~kernel.started => kernel.starting = 0 /\ kernel.made = <<>>
        /\ StoppedHasNoMain

WinInv ==
    /\ WinTypes
    /\ WindowEntries
    /\ TabEntries
    /\ \A w \in DOMAIN windows : ListsOwnTabs(w)
    /\ WindowIsFound
    /\ OneAtATime

LEMMA NowType == WinInv => now \in 1..MaxTime /\ now \in WinIds /\ MaxTime \in Nat
BY WinAssumption DEF WinInv, WinTypes, WinIds

LEMMA IdsArePositive == WinIds \subseteq Nat \ {0}
BY WinAssumption DEF WinIds

LEMMA WindowIds == WinInv => \A w \in DOMAIN windows : windows[w].id \in WinIds
<1> SUFFICES ASSUME WinInv, NEW w \in DOMAIN windows PROVE windows[w].id \in WinIds
  OBVIOUS
<1>1. windows[w] \in WindowType
  BY DEF WinInv, WinTypes
<1> QED BY <1>1 DEF WindowType

\* A new window takes over its id.
LEMMA NewWindowKeeps ==
    ASSUME WinInv, NEW id \in WinIds, NewWindow(id), UNCHANGED <<now, tabs, tabMap, closed>>,
           kernel' \in KernelType,
           kernel'.main = kernel.main,
           kernel'.made \in {kernel.made, Append(kernel.made, Len(windows) + 1)}
    PROVE  /\ WinTypes' /\ WindowEntries' /\ TabEntries' /\ WindowIsFound'
           /\ \A w \in DOMAIN windows' : ListsOwnTabs(w)'
           /\ Len(windows) + 1 \in Nat \ {0} /\ Len(windows) + 1 \notin DOMAIN windows
           /\ \A w \in DOMAIN windows : windows'[w] = windows[w]
           /\ windowMap' = [windowMap EXCEPT ![id] = Len(windows) + 1]
<1> DEFINE n == Len(windows) + 1    new == [id |-> id, tabs |-> <<>>, active |-> 0]
<1>1. new \in WindowType /\ new.id = id /\ new.tabs = <<>> /\ new.active = 0
  BY DEF WindowType
<1>2. /\ windows \in Seq(WindowType) /\ windows' = Append(windows, new)
      /\ windowMap' = [windowMap EXCEPT ![id] = n]
      /\ windowMap \in [WinIds -> Nat]
      /\ closed' = closed /\ tabs' = tabs /\ tabMap' = tabMap
  BY NowType DEF WinInv, WinTypes, NewWindow
<1> HIDE DEF new
<1>3. /\ windows' \in Seq(WindowType) /\ n \in Nat \ {0} /\ n \notin DOMAIN windows
      /\ DOMAIN windows' = DOMAIN windows \union {n}
      /\ windows'[n] = new /\ \A w \in DOMAIN windows : windows'[w] = windows[w]
  <2>1. Len(windows) \in Nat /\ DOMAIN windows = 1..Len(windows)
    BY <1>2
  <2>2. 1..n = 1..Len(windows) \union {n}
    BY <2>1
  <2> QED BY <1>1, <1>2, <2>1, <2>2, AppendFacts
<1> HIDE DEF n
<1>4. \A j \in WinIds : windowMap'[j] = IF j = id THEN n ELSE windowMap[j]
  BY <1>2
<1>5. WinTypes'
  <2>1. \A i \in DOMAIN kernel'.made : kernel'.made[i] \in DOMAIN windows'
    <3>1. /\ kernel.made \in Seq(Nat)
          /\ \A i \in DOMAIN kernel.made : kernel.made[i] \in DOMAIN windows
      BY DEF WinInv, WinTypes, KernelType
    <3>2. CASE kernel'.made = kernel.made
      BY <1>3, <3>1, <3>2
    <3>3. CASE kernel'.made = Append(kernel.made, n)
      BY <1>3, <3>1, <3>3, AppendFacts
    <3> QED BY <3>2, <3>3 DEF n
  <2> QED BY <1>2, <1>3, <2>1 DEF WinInv, WinTypes, n
<1>6. WindowEntries' /\ TabEntries'
  BY <1>1, <1>2, <1>3, <1>4 DEF WinInv, WindowEntries, TabEntries
<1>7. ASSUME NEW w \in DOMAIN windows' PROVE ListsOwnTabs(w)'
  BY <1>1, <1>2, <1>3, <1>7 DEF WinInv, ListsOwnTabs
<1>8. WindowIsFound'
  <2> SUFFICES ASSUME NEW w \in DOMAIN windows', AloneInId(windows', w)
               PROVE  windowMap'[windows'[w].id] = w <=> w \notin closed.windows
    BY <1>2 DEF WindowIsFound
  <2>1. CASE w = n
    BY <1>1, <1>2, <1>3, <1>4, <2>1 DEF WinInv, WinTypes
  <2>2. CASE w # n
    <3>1. w \in DOMAIN windows /\ windows'[w] = windows[w] /\ windows[w].id \in WinIds
      <4>1. w \in DOMAIN windows /\ windows'[w] = windows[w]
        BY <1>3, <2>2
      <4> QED BY <4>1, WindowIds
    <3>2. AloneInId(windows, w) /\ windows[w].id # id
      BY <1>1, <1>3, <2>2, <3>1 DEF AloneInId
    <3> QED BY <1>4, <3>1, <3>2 DEF WinInv, WindowIsFound
  <2> QED BY <2>1, <2>2
<1> QED BY <1>2, <1>3, <1>5, <1>6, <1>7, <1>8 DEF n

\* What is under the id of a window that is closed goes.
LEMMA UnregisterKeeps ==
    ASSUME WinInv, NEW w \in DOMAIN windows, windowMap' = Unregistered(w),
           closed' = [closed EXCEPT !.windows = @ \union {w}],
           UNCHANGED <<now, windows, tabs, tabMap>>,
           kernel' \in KernelType,
           kernel'.main = kernel.main, kernel'.made = kernel.made
    PROVE  /\ WinTypes' /\ WindowEntries' /\ TabEntries' /\ WindowIsFound'
           /\ \A v \in DOMAIN windows' : ListsOwnTabs(v)'
           /\ \A v \in DOMAIN windows : windowMap'[windows[v].id] \in {0, windowMap[windows[v].id]}
           /\ windowMap'[windows[w].id] = 0
<1>1. /\ windows \in Seq(WindowType) /\ windowMap \in [WinIds -> Nat]
      /\ closed \in [windows : SUBSET Nat, tabs : SUBSET Nat] /\ w \in Nat
      /\ windows' = windows /\ tabs' = tabs /\ tabMap' = tabMap /\ now' = now
  BY DEF WinInv, WinTypes
<1>2. \A v \in DOMAIN windows : windows[v].id \in WinIds
  BY WindowIds
<1>3. \A id \in WinIds : windowMap'[id] = IF id = windows[w].id THEN 0 ELSE windowMap[id]
  BY <1>1, <1>2 DEF Unregistered
<1>4. closed'.windows = closed.windows \union {w}
  BY <1>1
<1>5. WinTypes'
  <2>1. windowMap' \in [WinIds -> Nat]
    BY <1>1, <1>2 DEF Unregistered
  <2>2. closed' \in [windows : SUBSET Nat, tabs : SUBSET Nat]
    BY <1>1
  <2> QED BY <1>1, <1>4, <2>1, <2>2 DEF WinInv, WinTypes
<1>6. WindowEntries' /\ TabEntries'
  BY <1>1, <1>2, <1>3 DEF WinInv, WindowEntries, TabEntries
<1>7. \A v \in DOMAIN windows' : ListsOwnTabs(v)'
  BY <1>1 DEF WinInv, ListsOwnTabs
<1>8. WindowIsFound'
  <2> SUFFICES ASSUME NEW v \in DOMAIN windows, AloneInId(windows, v)
               PROVE  windowMap'[windows[v].id] = v <=> v \notin closed'.windows
    BY <1>1 DEF WindowIsFound
  <2>1. CASE v = w
    BY <1>1, <1>2, <1>3, <1>4, <2>1
  <2>2. CASE v # w
    <3>1. windows[w].id # windows[v].id
      BY <2>2 DEF AloneInId
    <3> QED BY <1>2, <1>3, <1>4, <2>2, <3>1 DEF WinInv, WindowIsFound
  <2> QED BY <2>1, <2>2
<1> QED BY <1>2, <1>3, <1>5, <1>6, <1>7, <1>8

LEMMA CreateWindowStep == ASSUME WinInv, NEW id \in {now} \union GivenIds, CreateWindow(id) PROVE WinInv'
<1> id \in WinIds
  BY NowType DEF WinIds
<1>1. /\ kernel' = kernel /\ UNCHANGED <<now, tabs, tabMap, closed>> /\ NewWindow(id)
      /\ kernel \in KernelType
  BY DEF CreateWindow, WinInv, WinTypes
<1>2. OneAtATime'
  <2>1. kernel.main # 0 => kernel.main \in DOMAIN windows
    BY DEF WinInv, WinTypes
  <2>2. StoppedHasNoMain => StoppedHasNoMain'
    <3>1. /\ Len(windows) + 1 \notin DOMAIN windows
          /\ \A w \in DOMAIN windows : windows'[w] = windows[w]
          /\ windowMap' = [windowMap EXCEPT ![id] = Len(windows) + 1]
      BY <1>1, NewWindowKeeps
    <3>2. windowMap \in [WinIds -> Nat]
      BY DEF WinInv, WinTypes
    <3> QED BY <1>1, <2>1, <3>1, <3>2, WindowIds DEF StoppedHasNoMain
  <2> QED BY <1>1, <2>2 DEF WinInv, OneAtATime, Starts
<1> QED BY <1>1, <1>2, NewWindowKeeps DEF WinInv

LEMMA KernelMakesWindowStep == ASSUME WinInv, KernelMakesWindow PROVE WinInv'
<1> DEFINE n == Len(windows) + 1
<1>1. /\ kernel' = [kernel EXCEPT !.starting = @ - 1, !.made = Append(@, n)]
      /\ UNCHANGED <<now, tabs, tabMap, closed>> /\ NewWindow(now) /\ kernel.starting > 0
      /\ kernel \in KernelType
  BY DEF KernelMakesWindow, WinInv, WinTypes
<1>2. n \in Nat /\ kernel.made \in Seq(Nat)
  BY <1>1 DEF WinInv, WinTypes, KernelType
<1>3. /\ kernel'.main = kernel.main /\ kernel'.starting = kernel.starting - 1
      /\ kernel'.made = Append(kernel.made, n) /\ Len(kernel'.made) = Len(kernel.made) + 1
      /\ kernel'.stopping = kernel.stopping
      /\ kernel'.started = kernel.started /\ kernel'.mixed = kernel.mixed
      /\ kernel' \in KernelType
  <2>1. kernel.starting - 1 \in Nat
    BY <1>1 DEF KernelType
  <2>2. Append(kernel.made, n) \in Seq(Nat) /\ Len(Append(kernel.made, n)) = Len(kernel.made) + 1
    BY <1>2, AppendFacts
  <2> HIDE DEF n
  <2> QED BY <1>1, <1>2, <2>1, <2>2 DEF KernelType
<1>4. OneAtATime'
  <2>1. ~kernel.mixed => kernel.started /\ Starts + kernel.stopping <= 1
    BY <1>1 DEF WinInv, OneAtATime
  <2>2. Starts' = Starts
    BY <1>1, <1>2, <1>3 DEF Starts, KernelType
  <2> QED BY <1>1, <1>3, <2>1, <2>2 DEF OneAtATime, StoppedHasNoMain, KernelType
<1> QED BY <1>1, <1>3, <1>4, NowType, NewWindowKeeps DEF WinInv

LEMMA KernelStartedStep == ASSUME WinInv, KernelStarted PROVE WinInv'
<1> DEFINE k == kernel.made
<1>1. /\ kernel' = [kernel EXCEPT !.made = Tail(k), !.main = Head(k)]
      /\ UNCHANGED <<now, windows, tabs, windowMap, tabMap, closed>>
      /\ k # <<>> /\ kernel \in KernelType /\ k \in Seq(Nat)
      /\ \A i \in DOMAIN k : k[i] \in DOMAIN windows
  BY DEF KernelStarted, WinInv, WinTypes, KernelType
<1>2. /\ Head(k) = k[1] /\ 1 \in DOMAIN k /\ Head(k) \in Nat /\ Tail(k) \in Seq(Nat)
      /\ Len(Tail(k)) = Len(k) - 1 /\ Len(k) \in Nat
      /\ \A i \in DOMAIN Tail(k) : i + 1 \in DOMAIN k /\ Tail(k)[i] = k[i + 1]
  BY <1>1
<1> HIDE DEF k
<1>3. /\ kernel'.main = Head(k) /\ kernel'.made = Tail(k)
      /\ kernel'.starting = kernel.starting /\ kernel'.stopping = kernel.stopping
      /\ kernel'.started = kernel.started /\ kernel'.mixed = kernel.mixed
      /\ kernel' \in KernelType
  BY <1>1, <1>2 DEF KernelType
<1>4. OneAtATime'
  <2>1. ~kernel.mixed => kernel.started /\ Starts + kernel.stopping <= 1
    BY <1>1 DEF WinInv, OneAtATime, k
  <2>2. Starts' = Starts - 1 /\ Starts \in Nat
    <3>1. kernel.starting \in Nat /\ Len(kernel.made) \in Nat
      BY <1>1 DEF KernelType
    <3>2. kernel'.starting = kernel.starting /\ Len(kernel'.made) = Len(kernel.made) - 1
      BY <1>2, <1>3 DEF k
    <3> QED BY <3>1, <3>2 DEF Starts
  <2> QED BY <1>1, <1>3, <2>1, <2>2 DEF OneAtATime, StoppedHasNoMain, KernelType
<1>5. \A i \in DOMAIN kernel'.made : kernel'.made[i] \in DOMAIN windows
  BY <1>1, <1>2, <1>3
<1>6. WinTypes'
  BY <1>1, <1>2, <1>3, <1>5 DEF WinInv, WinTypes
<1> QED BY <1>1, <1>4, <1>6 DEF WinInv, WindowEntries, TabEntries, ListsOwnTabs, WindowIsFound

LEMMA KernelStopFailsStep == ASSUME WinInv, KernelStopFails PROVE WinInv'
<1>1. /\ kernel' = [kernel EXCEPT !.stopping = @ - 1] /\ kernel.stopping > 0
      /\ UNCHANGED <<now, windows, tabs, windowMap, tabMap, closed>>
      /\ kernel \in KernelType /\ Starts \in Nat
  BY DEF KernelStopFails, WinInv, WinTypes, KernelType, Starts
<1>2. /\ kernel'.main = kernel.main /\ kernel'.starting = kernel.starting
      /\ kernel'.made = kernel.made /\ kernel'.stopping = kernel.stopping - 1
      /\ kernel'.started = kernel.started /\ kernel'.mixed = kernel.mixed
      /\ kernel' \in KernelType
  <2>1. kernel.stopping - 1 \in Nat
    BY <1>1 DEF KernelType
  <2> QED BY <1>1, <2>1 DEF KernelType
<1>3. OneAtATime'
  BY <1>1, <1>2 DEF WinInv, OneAtATime, StoppedHasNoMain, Starts, KernelType
<1> QED BY <1>1, <1>2, <1>3
     DEF WinInv, WinTypes, WindowEntries, TabEntries, ListsOwnTabs, WindowIsFound

LEMMA CloseWindowStep == ASSUME WinInv, NEW w \in DOMAIN windows, CloseWindow(w) PROVE WinInv'
<1>1. /\ kernel' = kernel /\ UNCHANGED <<now, windows, tabs, tabMap>>
      /\ windowMap' = Unregistered(w) /\ closed' = [closed EXCEPT !.windows = @ \union {w}]
      /\ kernel \in KernelType
  BY DEF CloseWindow, WinInv, WinTypes
<1>2. StoppedHasNoMain => StoppedHasNoMain'
  <2>1. kernel.main # 0 => kernel.main \in DOMAIN windows
    BY DEF WinInv, WinTypes
  <2> QED BY <1>1, <2>1, UnregisterKeeps DEF StoppedHasNoMain
<1> QED BY <1>1, <1>2, UnregisterKeeps DEF WinInv, OneAtATime, Starts

LEMMA KernelStoppedStep == ASSUME WinInv, KernelStopped PROVE WinInv'
<1>1. /\ kernel' = [kernel EXCEPT !.stopping = @ - 1, !.started = FALSE]
      /\ UNCHANGED <<now, windows, tabs, tabMap>> /\ kernel.stopping > 0
      /\ kernel \in KernelType
  BY DEF KernelStopped, WinInv, WinTypes
<1>2. /\ kernel'.main = kernel.main /\ kernel'.starting = kernel.starting
      /\ kernel'.made = kernel.made /\ kernel'.stopping = kernel.stopping - 1
      /\ kernel'.started = FALSE /\ kernel'.mixed = kernel.mixed
      /\ kernel' \in KernelType
  <2>1. kernel.stopping - 1 \in Nat
    BY <1>1 DEF KernelType
  <2> QED BY <1>1, <2>1 DEF KernelType
<1>3. ~kernel.mixed => kernel.starting = 0 /\ kernel.made = <<>> /\ kernel.stopping = 1
  BY <1>1 DEF KernelType, WinInv, OneAtATime, Starts
<1>4. CASE kernel.main = 0
  <2>1. UNCHANGED <<now, windows, tabs, windowMap, tabMap, closed>>
    BY <1>1, <1>4 DEF KernelStopped
  <2>2. OneAtATime'
    BY <1>1, <1>2, <1>3, <1>4 DEF OneAtATime, StoppedHasNoMain, Starts
  <2> QED BY <1>2, <1>4, <2>1, <2>2
       DEF WinInv, WinTypes, WindowEntries, TabEntries, ListsOwnTabs, WindowIsFound
<1>5. CASE kernel.main # 0
  <2>1. /\ kernel.main \in DOMAIN windows /\ windowMap' = Unregistered(kernel.main)
        /\ closed' = [closed EXCEPT !.windows = @ \union {kernel.main}]
    BY <1>5 DEF KernelStopped, WinInv, WinTypes
  <2>2. OneAtATime'
    BY <1>1, <1>2, <1>3, <1>5, <2>1, UnregisterKeeps DEF OneAtATime, StoppedHasNoMain, Starts
  <2> QED BY <1>1, <1>2, <2>1, <2>2, UnregisterKeeps DEF WinInv
<1> QED BY <1>4, <1>5

\* A start or a stop begins: whether another one is under way is noted.
LEMMA KernelBeginsStep == ASSUME WinInv, KernelStart \/ KernelStop PROVE WinInv'
<1>1. /\ UNCHANGED <<now, windows, tabs, windowMap, tabMap, closed>>
      /\ kernel \in KernelType
  BY DEF KernelStart, KernelStop, WinInv, WinTypes
<1>2. /\ kernel'.main = kernel.main /\ kernel'.made = kernel.made /\ kernel'.started = TRUE
      /\ kernel' \in KernelType
      /\ ~kernel'.mixed => Starts' + kernel'.stopping <= 1
  <2> DEFINE m == (kernel.mixed \/ Busy)
  <2>1. m \in BOOLEAN /\ (~m => Starts + kernel.stopping = 0) /\ Starts \in Nat
    BY <1>1 DEF Busy, Starts, KernelType
  <2>2. \/ kernel' = [kernel EXCEPT !.started = TRUE, !.starting = @ + 1, !.mixed = m]
        \/ kernel' = [kernel EXCEPT !.stopping = @ + 1, !.mixed = m] /\ kernel.started = TRUE
    BY <1>1 DEF KernelStart, KernelStop, KernelType
  <2> HIDE DEF m
  <2>3. CASE kernel' = [kernel EXCEPT !.started = TRUE, !.starting = @ + 1, !.mixed = m]
    <3>1. /\ kernel'.starting = kernel.starting + 1 /\ kernel'.stopping = kernel.stopping
          /\ kernel'.made = kernel.made /\ kernel'.mixed = m /\ kernel'.main = kernel.main
          /\ kernel'.started = TRUE
      BY <1>1, <2>3 DEF KernelType
    <3>2. kernel.starting \in Nat /\ kernel.stopping \in Nat /\ Len(kernel.made) \in Nat
      BY <1>1 DEF KernelType
    <3>3. kernel' \in KernelType
      <4>1. m \in BOOLEAN /\ kernel.starting + 1 \in Nat
        BY <2>1, <3>2
      <4> QED BY <1>1, <2>3, <4>1 DEF KernelType
    <3> QED BY <2>1, <3>1, <3>2, <3>3 DEF Starts
  <2>4. CASE kernel' = [kernel EXCEPT !.stopping = @ + 1, !.mixed = m] /\ kernel.started = TRUE
    <3>1. /\ kernel'.starting = kernel.starting /\ kernel'.stopping = kernel.stopping + 1
          /\ kernel'.made = kernel.made /\ kernel'.mixed = m /\ kernel'.main = kernel.main
          /\ kernel'.started = TRUE
      BY <1>1, <2>4 DEF KernelType
    <3>2. kernel.starting \in Nat /\ kernel.stopping \in Nat /\ Len(kernel.made) \in Nat
      BY <1>1 DEF KernelType
    <3>3. kernel' \in KernelType
      <4>1. m \in BOOLEAN /\ kernel.stopping + 1 \in Nat
        BY <2>1, <3>2
      <4> QED BY <1>1, <2>4, <4>1 DEF KernelType
    <3> QED BY <2>1, <3>1, <3>2, <3>3 DEF Starts
  <2> QED BY <2>2, <2>3, <2>4
<1>3. OneAtATime'
  BY <1>2 DEF OneAtATime, StoppedHasNoMain
<1> QED BY <1>1, <1>2, <1>3
     DEF WinInv, WinTypes, WindowEntries, TabEntries, ListsOwnTabs, WindowIsFound

LEMMA TickStep == ASSUME WinInv, Tick PROVE WinInv'
<1>1. now' \in 1..MaxTime /\ UNCHANGED <<windows, tabs, windowMap, tabMap, closed, kernel>>
  BY NowType DEF Tick
<1> QED BY <1>1 DEF WinInv, WinTypes, WindowEntries, TabEntries, ListsOwnTabs, WindowIsFound,
                    OneAtATime, StoppedHasNoMain, Starts

\* A tab is made, and listed by the window that has the id, if one has.
LEMMA CreateTabStep ==
    ASSUME WinInv, NEW windowId \in WinIds, NEW id \in {now} \union GivenIds, CreateTab(windowId, id)
    PROVE  WinInv'
<1> id \in WinIds
  BY NowType DEF WinIds
<1> DEFINE w == windowMap[windowId]    t == Len(tabs) + 1    new == [id |-> id, windowId |-> windowId]
           own == windows[w].tabs
<1>1. /\ tabs \in Seq([id : WinIds, windowId : WinIds]) /\ tabs' = Append(tabs, new)
      /\ windows \in Seq(WindowType)
      /\ tabMap' = [tabMap EXCEPT ![id] = t] /\ tabMap \in [WinIds -> Nat]
      /\ UNCHANGED <<now, windowMap, closed, kernel>>
  BY DEF CreateTab, WinInv, WinTypes
<1>2. new \in [id : WinIds, windowId : WinIds] /\ new.id = id /\ new.windowId = windowId
  OBVIOUS
<1>3. w \in Nat /\ (w # 0 => w \in DOMAIN windows /\ windows[w].id = windowId)
  BY DEF WinInv, WinTypes, WindowEntries
<1>4. windows' = IF w = 0 THEN windows
                 ELSE [windows EXCEPT ![w] = WithTab(windows[w], t)]
  BY DEF CreateTab
<1> HIDE DEF new, w
<1>5. /\ tabs' \in Seq([id : WinIds, windowId : WinIds]) /\ t \in Nat \ {0}
      /\ DOMAIN tabs' = DOMAIN tabs \union {t} /\ t \notin DOMAIN tabs
      /\ tabs'[t] = new /\ \A u \in DOMAIN tabs : tabs'[u] = tabs[u]
  <2>1. Len(tabs) \in Nat /\ DOMAIN tabs = 1..Len(tabs)
    BY <1>1
  <2>2. 1..t = 1..Len(tabs) \union {t}
    BY <2>1
  <2> HIDE DEF t
  <2>3. tabs' \in Seq([id : WinIds, windowId : WinIds])
    BY <1>1, <1>2, AppendFacts
  <2>4. Len(tabs') = t /\ DOMAIN tabs' = 1..t /\ tabs'[t] = new /\ \A u \in DOMAIN tabs : tabs'[u] = tabs[u]
    BY <1>1, <1>2, AppendFacts DEF t
  <2> QED BY <2>1, <2>2, <2>3, <2>4 DEF t
<1> HIDE DEF t
<1>6. TabEntries'
  BY <1>1, <1>2, <1>5 DEF WinInv, TabEntries
\* The window that lists the tab.
<1>7. ASSUME w # 0
      PROVE  /\ windows'[w] \in WindowType /\ windows'[w].id = windowId
             /\ windows'[w].tabs = Append(own, t)
             /\ windows'[w].active = IF windows[w].active = 0 THEN t ELSE windows[w].active
  <2> DEFINE a == IF windows[w].active = 0 THEN t ELSE windows[w].active
             x == [windows[w] EXCEPT !.tabs = Append(own, t), !.active = a]
  <2>1. windows[w] \in WindowType /\ windows' = [windows EXCEPT ![w] = x]
    BY <1>1, <1>3, <1>4, <1>7 DEF WithTab
  <2>2. Append(own, t) \in Seq(Nat) /\ a \in Nat
    BY <1>5, <2>1, AppendFacts DEF WindowType
  <2> HIDE DEF a, own
  <2>3. x \in WindowType /\ x.id = windows[w].id /\ x.tabs = Append(own, t) /\ x.active = a
    BY <2>1, <2>2 DEF WindowType
  <2> QED BY <1>1, <1>3, <1>7, <2>1, <2>3 DEF a, own
<1>8. /\ windows' \in Seq(WindowType) /\ DOMAIN windows' = DOMAIN windows
      /\ \A v \in DOMAIN windows : v # w => windows'[v] = windows[v]
      /\ \A v \in DOMAIN windows : windows'[v].id = windows[v].id
  <2>1. CASE w = 0
    BY <1>1, <1>4, <2>1
  <2>2. CASE w # 0
    <3> DEFINE x == windows'[w]
    <3>1. windows' = [windows EXCEPT ![w] = x]
      BY <1>3, <1>4, <2>2
    <3>2. x \in WindowType /\ w \in DOMAIN windows
      BY <1>3, <1>7, <2>2
    <3> HIDE DEF x
    <3> QED BY <1>1, <1>3, <1>7, <2>2, <3>1, <3>2
  <2> QED BY <2>1, <2>2
<1>9. ASSUME NEW v \in DOMAIN windows' PROVE ListsOwnTabs(v)'
  <2>1. v \in DOMAIN windows /\ ListsOwnTabs(v) /\ windows[v] \in WindowType
    BY <1>1, <1>8, <1>9 DEF WinInv
  <2>2. CASE v # w
    BY <1>5, <1>8, <2>1, <2>2 DEF ListsOwnTabs
  <2>3. CASE v = w
    <3>1. w # 0
      BY <1>1, <2>1, <2>3
    <3>2. /\ own \in Seq(Nat) /\ DOMAIN own = 1..Len(own) /\ Len(own) \in Nat
          /\ Append(own, t) \in Seq(Nat) /\ DOMAIN Append(own, t) = 1..Len(own) + 1
          /\ Append(own, t)[Len(own) + 1] = t /\ \A i \in DOMAIN own : Append(own, t)[i] = own[i]
      BY <1>5, <2>1, <2>3, AppendFacts DEF WindowType
    <3>3. ASSUME NEW i \in DOMAIN Append(own, t)
          PROVE  /\ Append(own, t)[i] \in DOMAIN tabs'
                 /\ tabs'[Append(own, t)[i]].windowId = windowId
      <4>1. CASE i = Len(own) + 1
        BY <1>2, <1>5, <3>2, <4>1
      <4>2. CASE i \in DOMAIN own
        BY <1>3, <1>5, <2>1, <2>3, <3>1, <3>2, <4>2 DEF ListsOwnTabs
      <4>3. i \in 1..Len(own) \/ i = Len(own) + 1
        BY <3>2, <3>3
      <4> QED BY <3>2, <4>1, <4>2, <4>3
    <3>4. Append(own, t) # <<>> /\ Head(Append(own, t)) = IF windows[w].active = 0 THEN t ELSE windows[w].active
      <4>1. CASE own = <<>>
        BY <2>1, <2>3, <3>2, <4>1 DEF ListsOwnTabs
      <4>2. CASE own # <<>>
        <5>1. Head(own) = own[1] /\ 1 \in DOMAIN own /\ own[1] \in DOMAIN tabs
          BY <2>1, <2>3, <3>2, <4>2 DEF ListsOwnTabs
        <5>2. Head(own) # 0 /\ windows[w].active = Head(own)
          BY <1>1, <2>1, <2>3, <4>2, <5>1 DEF ListsOwnTabs
        <5> QED BY <3>2, <5>1, <5>2
      <4> QED BY <4>1, <4>2
    <3> QED BY <1>7, <2>3, <3>1, <3>3, <3>4 DEF ListsOwnTabs
  <2> QED BY <2>2, <2>3
<1>10. WindowEntries' /\ WindowIsFound' /\ OneAtATime'
  <2>1. kernel.main # 0 => kernel.main \in DOMAIN windows
    BY DEF WinInv, WinTypes
  <2>2. /\ WindowEntries' /\ OneAtATime'
    BY <1>1, <1>8, <2>1 DEF WinInv, WindowEntries, OneAtATime, StoppedHasNoMain, Starts
  <2> QED BY <1>1, <1>8, <2>2 DEF WinInv, WindowIsFound, AloneInId
<1>11. WinTypes'
  <2>1. tabMap' \in [WinIds -> Nat]
    BY <1>1, <1>5
  <2> QED BY <1>1, <1>5, <1>8, <2>1 DEF WinInv, WinTypes
<1> QED BY <1>6, <1>9, <1>10, <1>11 DEF WinInv

LEMMA CloseTabStep == ASSUME WinInv, NEW t \in DOMAIN tabs, CloseTab(t) PROVE WinInv'
<1>1. /\ tabMap' = [tabMap EXCEPT ![tabs[t].id] = 0] /\ tabMap \in [WinIds -> Nat]
      /\ closed' = [closed EXCEPT !.tabs = @ \union {t}]
      /\ closed \in [windows : SUBSET Nat, tabs : SUBSET Nat] /\ t \in Nat
      /\ UNCHANGED <<now, windows, tabs, windowMap, kernel>>
  <2>1. tabs \in Seq([id : WinIds, windowId : WinIds])
    BY DEF WinInv, WinTypes
  <2>2. t \in Nat
    BY <2>1
  <2> QED BY <2>2 DEF WinInv, WinTypes, CloseTab
<1>2. tabMap' \in [WinIds -> Nat] /\ \A id \in WinIds : tabMap'[id] \in {0, tabMap[id]}
  BY <1>1
<1>3. closed' \in [windows : SUBSET Nat, tabs : SUBSET Nat] /\ closed'.windows = closed.windows
  BY <1>1
<1>4. TabEntries'
  BY <1>1, <1>2 DEF WinInv, TabEntries
<1> QED BY <1>1, <1>2, <1>3, <1>4
     DEF WinInv, WinTypes, WindowEntries, ListsOwnTabs, WindowIsFound, OneAtATime, StoppedHasNoMain, Starts

LEMMA WinInvInit == WinInit => WinInv
<1> SUFFICES ASSUME WinInit PROVE WinInv
  OBVIOUS
<1>1. WinTypes
  <2>1. <<>> \in Seq(WindowType) /\ <<>> \in Seq([id : WinIds, windowId : WinIds])
    OBVIOUS
  <2>2. kernel \in KernelType /\ kernel.main = 0 /\ kernel.starting = 0 /\ kernel.stopping = 0
        /\ kernel.made = <<>>
    BY DEF WinInit, KernelType
  <2> QED BY WinAssumption, <2>1, <2>2 DEF WinInit, WinTypes
<1> QED BY <1>1 DEF WinInit, WinInv, WindowEntries, TabEntries, WindowIsFound, OneAtATime, StoppedHasNoMain, Starts

LEMMA WinInvKept == WinInv /\ [WinNext]_winVars => WinInv'
<1> SUFFICES ASSUME WinInv, [WinNext]_winVars PROVE WinInv'
  OBVIOUS
<1>1. CASE UNCHANGED winVars
  BY <1>1 DEF winVars, WinInv, WinTypes, WindowEntries, TabEntries, ListsOwnTabs, WindowIsFound,
              OneAtATime, StoppedHasNoMain, Starts
<1> QED BY <1>1, CreateWindowStep, KernelMakesWindowStep, KernelStartedStep, CloseWindowStep,
           KernelStoppedStep, KernelStopFailsStep, KernelBeginsStep, TickStep, CreateTabStep, CloseTabStep DEF WinNext

\* The inductive invariant of the windows: the Maps of windows and tabs have their
\* entries, a window lists its own tabs, and as long as starts and stops of the
\* kernel did not overlap, a stopped one has no main window registered.
THEOREM WindowsInvariant == WinSpec => []WinInv
BY WinInvInit, WinInvKept, PTL DEF WinSpec

\* A window alone in its id is found by it until its own close(), and a stopped
\* kernel leaves no main window registered unless starts and stops overlapped.
THEOREM OpenWindowsAreRegistered == WinSpec => []OpenAreRegistered
<1>1. ASSUME WinInv PROVE OpenAreRegistered
  <2>1. kernel.mixed => StoppedHasNoMain
    BY DEF StoppedHasNoMain
  <2> QED BY <1>1, <2>1 DEF WinInv, OneAtATime, OpenAreRegistered
<1> QED BY <1>1, WindowsInvariant, PTL

\* What is registered is registered under its own id, and a window lists only
\* tabs made for its id, of which the first is the active one.
THEOREM WindowRecordsAgree == WinSpec => []WinTypeOK
<1>1. ASSUME WinInv PROVE WinTypeOK
  BY <1>1 DEF WinInv, WindowEntries, TabEntries, ListsOwnTabs, WinTypeOK
<1> QED BY <1>1, WindowsInvariant, PTL
-----------------------------------------------------------------------------
(* The settings. *)

\* Merging a path into an object puts the value there and leaves what is found along
\* every other path: the settings beside it in its section, and the other sections.
LEMMA MergedPath ==
    ASSUME NEW object, NEW p \in Touched, NEW q \in Touched, NEW v
    PROVE  ValueAt(WithPath(object, p, v), q) = IF q = p THEN {v} ELSE ValueAt(object, q)
<1> DEFINE merged == WithPath(object, p, v)
<1>1. Len(p) \in {1, 2} /\ Len(q) \in {1, 2} /\ (p[1] = q[1] => Len(p) = Len(q))
  BY ModalAssumption
<1>2. q = p <=> Len(q) = Len(p) /\ q[1] = p[1] /\ (Len(p) = 2 => q[2] = p[2])
  BY <1>1, ModalAssumption
<1>3. CASE Len(p) = 1
  <2>1. merged = WithKey(object, p[1], v)
    BY <1>3 DEF WithPath
  <2>2. p[1] \in Keys(merged) /\ merged[p[1]] = v
    BY <2>1 DEF WithKey, Keys
  <2>3. \A k : k # p[1] => ValueOf(merged, k) = ValueOf(object, k)
    BY <2>1 DEF WithKey, Keys, ValueOf
  <2>4. CASE q[1] = p[1]
    BY <1>1, <1>2, <1>3, <2>2, <2>4 DEF ValueAt, ValueOf
  <2>5. CASE q[1] # p[1]
    <3>1. ValueOf(merged, q[1]) = ValueOf(object, q[1]) /\ SectionOf(merged, q[1]) = SectionOf(object, q[1])
      BY <2>1, <2>3, <2>5 DEF SectionOf, WithKey, Keys
    <3> QED BY <1>2, <2>5, <3>1 DEF ValueAt
  <2> QED BY <2>4, <2>5
<1>4. CASE Len(p) = 2
  <2> DEFINE section == SectionOf(object, p[1])
             inner == WithKey(section, p[2], v)
  <2>1. merged = WithKey(object, p[1], inner)
    BY <1>4 DEF WithPath
  <2>2. SectionOf(merged, p[1]) = inner
    BY <2>1 DEF WithKey, Keys, SectionOf
  <2>3. ValueOf(inner, p[2]) = {v} /\ \A k : k # p[2] => ValueOf(inner, k) = ValueOf(section, k)
    BY DEF WithKey, Keys, ValueOf
  <2>4. CASE q[1] # p[1]
    <3>1. ValueOf(merged, q[1]) = ValueOf(object, q[1]) /\ SectionOf(merged, q[1]) = SectionOf(object, q[1])
      BY <2>1, <2>4 DEF ValueOf, SectionOf, WithKey, Keys
    <3> QED BY <1>2, <2>4, <3>1 DEF ValueAt
  <2>5. CASE q[1] = p[1]
    <3>1. Len(q) = 2
      BY <1>1, <1>4, <2>5
    <3>2. ValueAt(merged, q) = ValueOf(inner, q[2]) /\ ValueAt(object, q) = ValueOf(section, q[2])
      BY <2>2, <2>5, <3>1 DEF ValueAt
    <3> QED BY <1>2, <1>4, <2>3, <2>5, <3>1, <3>2
  <2> QED BY <2>4, <2>5
<1> QED BY <1>1, <1>3, <1>4

ModalInv == WrittenIsKept /\ DOMAIN written = Touched

LEMMA ModalInvKept == ModalInv /\ [ModalNext]_modalVars => ModalInv'
<1> SUFFICES ASSUME ModalInv, [ModalNext]_modalVars PROVE ModalInv'
  OBVIOUS
<1>1. ASSUME NEW p \in Touched, NEW v, SetInModal(p, v) PROVE ModalInv'
  <2>1. CASE localSettings' = Kept(p, v) /\ written' = [written EXCEPT ![p] = {v}]
    <3>1. DOMAIN written' = Touched
      BY <2>1 DEF ModalInv
    <3>2. ASSUME NEW q \in Touched PROVE ValueAt(localSettings', q) = written'[q]
      <4>1. ValueAt(localSettings', q) = IF q = p THEN {v} ELSE ValueAt(localSettings, q)
        BY <2>1, MergedPath DEF Kept
      <4>2. written'[q] = IF q = p THEN {v} ELSE written[q]
        BY <2>1 DEF ModalInv
      <4>3. ValueAt(localSettings, q) = written[q]
        BY DEF ModalInv, WrittenIsKept
      <4> QED BY <4>1, <4>2, <4>3
    <3> QED BY <3>1, <3>2 DEF ModalInv, WrittenIsKept
  <2>2. CASE UNCHANGED <<localSettings, written>>
    BY <2>2 DEF ModalInv, WrittenIsKept
  <2> QED BY <1>1, <2>1, <2>2 DEF SetInModal
<1>2. CASE LoadPage
  BY <1>2 DEF LoadPage, ModalInv, WrittenIsKept
<1>3. CASE UNCHANGED modalVars
  BY <1>3 DEF modalVars, ModalInv, WrittenIsKept
<1> QED BY <1>1, <1>2, <1>3 DEF ModalNext

\* Whatever is set in whatever order, over page loads and writes that throw: for every
\* path localStorage has the last value that a set() got written.
THEOREM SettingsAreKept == ModalSpec => []WrittenIsKept
<1>1. ModalInit => ModalInv
  BY DEF ModalInit, ModalInv, WrittenIsKept, ValueAt, ValueOf, SectionOf, NoObject, Keys
<1>2. ModalInv => WrittenIsKept
  BY DEF ModalInv
<1> QED BY <1>1, <1>2, ModalInvKept, PTL DEF ModalSpec
-----------------------------------------------------------------------------
(* The command palette. *)

PalInv ==
    /\ query \in DOMAIN Queries \union {NoQuery}
    /\ selectedIndex \in Int
    /\ SelectionIsRun

LEMMA SmallerAndLarger ==
    ASSUME NEW a \in Int, NEW b \in Int
    PROVE  /\ Min({a, b}) = IF a <= b THEN a ELSE b
           /\ Max({a, b}) = IF a >= b THEN a ELSE b
<1>1. \E x \in {a, b} : \A y \in {a, b} : x <= y
  BY DEF Min
<1>2. \E x \in {a, b} : \A y \in {a, b} : x >= y
  OBVIOUS
<1> QED BY <1>1, <1>2 DEF Min, Max

LEMMA CommandsFacts == Commands \in Seq(ToSet(Commands)) /\ Len(Commands) = 20
<1>1. Commands = [i \in 1..20 |-> Commands[i]] /\ Len(Commands) = 20
  BY DEF Commands
<1>2. \A i \in 1..20 : Commands[i] \in ToSet(Commands)
  BY <1>1 DEF ToSet
<1> QED BY <1>1, <1>2

LEMMA FilteredType ==
    ASSUME NEW q \in DOMAIN Queries \union {NoQuery}
    PROVE  /\ Filtered(q) \in Seq(ToSet(Commands)) /\ Len(Filtered(q)) \in Nat
           /\ DOMAIN Filtered(q) = 1..Len(Filtered(q))
           /\ Filtered(q) # <<>> => Len(Filtered(q)) > 0
<1>1. Filtered(q) \in Seq(ToSet(Commands))
  BY CommandsFacts, PaletteAssumption DEF Filtered
<1> QED BY <1>1

LEMMA PalInvKept == PalInv /\ [PalNext]_palVars => PalInv'
<1> SUFFICES ASSUME PalInv, [PalNext]_palVars PROVE PalInv'
  OBVIOUS
<1>1. ASSUME OpenPalette \/ \E q \in DOMAIN Queries : TypeQuery(q) PROVE PalInv'
  <2>1. query' \in DOMAIN Queries \union {NoQuery} /\ selectedIndex' = 0 /\ ran' = ran /\ picked' = picked
    BY <1>1 DEF OpenPalette, TypeQuery
  <2>2. Filtered(query') # <<>> => 0 \in 0..(Len(Filtered(query')) - 1)
    BY <2>1, FilteredType
  <2>3. Filtered(query') = Filtered(query)'
    BY DEF Filtered
  <2> HIDE DEF Filtered
  <2> QED BY <2>1, <2>2, <2>3 DEF PalInv, SelectionIsRun, SelectionIsListed, PickedRuns
<1>2. CASE ClosePalette
  BY <1>2 DEF ClosePalette, PalInv, SelectionIsRun, SelectionIsListed, PickedRuns, IsOpen
\* The highlighted line stays in the list.
<1>3. ASSUME NEW i \in Int, Highlight(i),
             SelectionIsListed /\ Filtered(query) # <<>> => i \in 0..(Len(Filtered(query)) - 1)
      PROVE  PalInv'
  BY <1>3 DEF Highlight, PalInv, SelectionIsRun, SelectionIsListed, PickedRuns, IsOpen, Filtered
<1>4. CASE ArrowDown \/ ArrowUp
  <2> DEFINE n == Len(Filtered(query))
  <2>1. selectedIndex \in Int /\ n \in Nat /\ SelectionIsListed
    BY FilteredType DEF PalInv, SelectionIsRun
  <2>2. Filtered(query) # <<>> => n > 0
    BY FilteredType DEF PalInv
  <2>3. CASE ArrowDown
    <3>1. PICK i \in Int : Highlight(i) /\ i = IF selectedIndex + 1 <= n - 1 THEN selectedIndex + 1 ELSE n - 1
      BY <2>1, <2>3, SmallerAndLarger DEF ArrowDown
    <3>2. IsOpen
      BY <3>1 DEF Highlight
    <3> HIDE DEF n
    <3>3. Filtered(query) # <<>> => i \in 0..(n - 1)
      BY <2>1, <2>2, <3>1, <3>2 DEF SelectionIsListed, n
    <3> QED BY <1>3, <3>1, <3>3 DEF n
  <2>4. CASE ArrowUp
    <3>1. PICK i \in Int : Highlight(i) /\ i = IF selectedIndex - 1 >= 0 THEN selectedIndex - 1 ELSE 0
      <4>1. /\ Max({selectedIndex - 1, 0}) = IF selectedIndex - 1 >= 0 THEN selectedIndex - 1 ELSE 0
            /\ Max({selectedIndex - 1, 0}) \in Int
        <5>1. selectedIndex - 1 \in Int /\ 0 \in Int
          BY <2>1
        <5>2. Max({selectedIndex - 1, 0}) = IF selectedIndex - 1 >= 0 THEN selectedIndex - 1 ELSE 0
          BY <5>1, SmallerAndLarger
        <5> QED BY <5>1, <5>2
      <4> QED BY <2>4, <4>1 DEF ArrowUp
    <3>2. IsOpen
      BY <3>1 DEF Highlight
    <3> HIDE DEF n
    <3>3. Filtered(query) # <<>> => i \in 0..(n - 1)
      BY <2>1, <2>2, <3>1, <3>2 DEF SelectionIsListed, n
    <3> QED BY <1>3, <3>1, <3>3 DEF n
  <2> QED BY <1>4, <2>3, <2>4
<1>5. CASE Hover
  <2>1. PICK i \in DOMAIN Filtered(query) : Highlight(i - 1)
    BY <1>5 DEF Hover
  <2>2. i - 1 \in 0..(Len(Filtered(query)) - 1) /\ i - 1 \in Int
    BY FilteredType DEF PalInv
  <2> QED BY <1>3, <2>1, <2>2
\* What is picked is run, and closes the palette.
<1>6. ASSUME NEW i \in Int, Execute(i), i + 1 \in DOMAIN Filtered(query), picked' = Filtered(query)[i + 1]
      PROVE  PalInv'
  BY <1>6 DEF Execute, PalInv, SelectionIsRun, SelectionIsListed, PickedRuns, IsOpen
<1>7. CASE Enter
  <2>1. CASE selectedIndex + 1 \in DOMAIN Filtered(query)
    BY <1>6, <1>7, <2>1 DEF Enter, PalInv
  <2>2. CASE selectedIndex + 1 \notin DOMAIN Filtered(query)
    BY <1>7, <2>2 DEF Enter, Execute, PalInv, SelectionIsRun, SelectionIsListed, PickedRuns, IsOpen, Filtered
  <2> QED BY <2>1, <2>2
<1>8. ASSUME NEW i \in DOMAIN Filtered(query), Click(i) PROVE PalInv'
  <2>1. i - 1 \in Int /\ (i - 1) + 1 = i
    BY FilteredType DEF PalInv
  <2> QED BY <1>6, <1>8, <2>1 DEF Click
<1>9. ASSUME UNCHANGED <<controlled, uiVars, picked, ran>> PROVE PalInv'
  BY <1>9 DEF uiVars, PalInv, SelectionIsRun, SelectionIsListed, PickedRuns, IsOpen, Filtered
<1>10. CASE NewWorkspace \/ \E w \in DOMAIN workspaceModes : ChooseWorkspace(w)
  BY <1>9, <1>10 DEF NewWorkspace, ChooseWorkspace
<1>11. CASE UNCHANGED palVars
  BY <1>9, <1>11 DEF palVars
<1> QED BY <1>1, <1>2, <1>4, <1>5, <1>7, <1>8, <1>10, <1>11 DEF PalNext

\* One of the listed commands is always highlighted, and the one that is clicked
\* or entered is the one that is run.
THEOREM PickedIsRun == PalSpec => []SelectionIsRun
<1>1. PalInit => PalInv
  <2> SUFFICES ASSUME PalInit PROVE PalInv
    OBVIOUS
  <2>1. query \in DOMAIN Queries \union {NoQuery} /\ selectedIndex = 0 /\ ~IsOpen /\ ran = picked
    BY DEF PalInit, IsOpen
  <2> QED BY <2>1 DEF PalInv, SelectionIsRun, SelectionIsListed, PickedRuns
<1>2. PalInv => SelectionIsRun
  BY DEF PalInv
<1> QED BY <1>1, <1>2, PalInvKept, PTL DEF PalSpec
-----------------------------------------------------------------------------
(* The panels of events. *)

EventType == [id : Nat, kind : Kinds]

KeptCount == IF MaxKept <= added - cleared THEN MaxKept ELSE added - cleared

PanelsInv ==
    /\ added \in Nat /\ cleared \in 0..added
    /\ timelineEvents \in Seq(EventType)
    /\ Len(timelineEvents) = KeptCount
    /\ \A i \in 1..KeptCount : timelineEvents[i].id = added - KeptCount + i

\* slice(-n) of a longer list.
LEMMA LastOfFacts ==
    ASSUME NEW S, NEW s \in Seq(S), NEW n \in Nat, Len(s) > n
    PROVE  /\ LastOf(s, n) \in Seq(S) /\ Len(LastOf(s, n)) = n /\ DOMAIN LastOf(s, n) = 1..n
           /\ \A i \in 1..n : LastOf(s, n)[i] = s[Len(s) - n + i]
<1>1. LastOf(s, n) = SubSeq(s, Len(s) - n + 1, Len(s))
  BY DEF LastOf
<1>2. SubSeq(s, Len(s) - n + 1, Len(s)) = [i \in 1..n |-> s[Len(s) - n + i]]
  OBVIOUS
<1>3. \A i \in 1..n : s[Len(s) - n + i] \in S
  OBVIOUS
<1> QED BY <1>1, <1>2, <1>3

LEMMA AddStep == ASSUME PanelsInv, NEW kind \in Kinds, AddTimelineEvent(kind) PROVE PanelsInv'
<1> DEFINE e == [id |-> added + 1, kind |-> kind]    k == KeptCount
           cut == IF Len(timelineEvents) >= MaxKept THEN LastOf(timelineEvents, MaxKept - 1)
                  ELSE timelineEvents
<1>1. /\ added \in Nat /\ cleared \in 0..added /\ timelineEvents \in Seq(EventType)
      /\ MaxKept \in Nat \ {0} /\ k \in Nat /\ k <= MaxKept
      /\ Len(timelineEvents) = k /\ \A i \in 1..k : timelineEvents[i].id = added - k + i
  BY PanelsAssumption DEF PanelsInv, KeptCount
<1>2. added' = added + 1 /\ cleared' = cleared /\ timelineEvents' = Append(cut, e)
  BY DEF AddTimelineEvent, Appended
<1>3. e \in EventType /\ e.id = added + 1
  BY <1>1 DEF EventType
<1> HIDE DEF e, cut
<1>4. /\ cut \in Seq(EventType) /\ Len(cut) + 1 = KeptCount' /\ Len(cut) \in Nat
      /\ \A i \in 1..Len(cut) : cut[i].id = added - Len(cut) + i
  <2>1. CASE k >= MaxKept
    <3>1. k = MaxKept /\ cut = LastOf(timelineEvents, MaxKept - 1) /\ MaxKept - 1 \in Nat
      BY <1>1, <2>1 DEF cut
    <3>2. /\ cut \in Seq(EventType) /\ Len(cut) = MaxKept - 1
          /\ \A i \in 1..MaxKept - 1 : cut[i] = timelineEvents[k - (MaxKept - 1) + i]
      <4> DEFINE n == MaxKept - 1
      <4>1. /\ n \in Nat /\ Len(timelineEvents) > n /\ Len(timelineEvents) = k
            /\ cut = LastOf(timelineEvents, n) /\ timelineEvents \in Seq(EventType)
        BY <1>1, <3>1
      <4> HIDE DEF n, k
      <4>2. /\ cut \in Seq(EventType) /\ Len(cut) = n
            /\ \A i \in 1..n : cut[i] = timelineEvents[k - n + i]
        <5>1. /\ LastOf(timelineEvents, n) \in Seq(EventType) /\ Len(LastOf(timelineEvents, n)) = n
              /\ \A i \in 1..n : LastOf(timelineEvents, n)[i] = timelineEvents[Len(timelineEvents) - n + i]
          BY <4>1, LastOfFacts
        <5> QED BY <4>1, <5>1
      <4> QED BY <4>2 DEF n
    <3>3. ASSUME NEW i \in 1..MaxKept - 1 PROVE cut[i].id = added - (MaxKept - 1) + i
      <4>1. k - (MaxKept - 1) + i = i + 1 /\ i + 1 \in 1..k
        BY <1>1, <3>1
      <4>2. timelineEvents[i + 1].id = added - k + (i + 1) /\ cut[i] = timelineEvents[i + 1]
        BY <1>1, <3>2, <4>1
      <4> QED BY <1>1, <3>1, <4>2
    <3>4. KeptCount' = MaxKept
      BY <1>1, <1>2, <3>1 DEF KeptCount
    <3> QED BY <1>1, <3>1, <3>2, <3>3, <3>4
  <2>2. CASE k < MaxKept
    <3>1. cut = timelineEvents
      BY <1>1, <2>2 DEF cut
    <3>2. KeptCount' = k + 1
      BY <1>1, <1>2, <2>2 DEF KeptCount
    <3> QED BY <1>1, <3>1, <3>2
  <2> QED BY <1>1, <2>1, <2>2
<1>5. /\ timelineEvents' \in Seq(EventType) /\ Len(timelineEvents') = Len(cut) + 1
      /\ timelineEvents'[Len(cut) + 1] = e
      /\ \A i \in 1..Len(cut) : timelineEvents'[i] = cut[i]
  BY <1>2, <1>3, <1>4, AppendFacts
<1>6. ASSUME NEW i \in 1..Len(cut) + 1
      PROVE  timelineEvents'[i].id = added' - (Len(cut) + 1) + i
  <2>1. CASE i = Len(cut) + 1
    BY <1>1, <1>2, <1>3, <1>4, <1>5, <2>1
  <2>2. CASE i # Len(cut) + 1
    <3>1. i \in 1..Len(cut)
      BY <1>4, <2>2
    <3> QED BY <1>1, <1>2, <1>4, <1>5, <3>1
  <2> QED BY <2>1, <2>2
<1> QED BY <1>1, <1>2, <1>4, <1>5, <1>6 DEF PanelsInv

LEMMA PanelsInvKept == PanelsInv /\ [PanelsNext]_panelVars => PanelsInv'
<1> SUFFICES ASSUME PanelsInv, [PanelsNext]_panelVars PROVE PanelsInv'
  OBVIOUS
<1>1. CASE ClearTimeline
  <2>1. added \in Nat /\ added' = added /\ cleared' = added /\ timelineEvents' = <<>> /\ KeptCount' = 0
    BY <1>1, PanelsAssumption DEF ClearTimeline, PanelsInv, KeptCount
  <2> QED BY <2>1 DEF PanelsInv
<1>2. ASSUME UNCHANGED <<timelineEvents, added, cleared>> PROVE PanelsInv'
  BY <1>2 DEF PanelsInv, KeptCount
<1>3. ASSUME NEW e, Select(e) PROVE PanelsInv'
  BY <1>2, <1>3 DEF Select
<1>4. ASSUME NEW filter, SetFilter(filter) PROVE PanelsInv'
  BY <1>2, <1>4 DEF SetFilter
<1>5. CASE UNCHANGED panelVars
  BY <1>2, <1>5 DEF panelVars
<1> QED BY <1>1, <1>3, <1>4, <1>5, AddStep DEF PanelsNext

\* The console leaves out its oldest events only.
LEMMA LogIsFull == ASSUME PanelsInv PROVE ConsoleIsFull
<1> DEFINE S == timelineEvents
           I == {i \in DOMAIN S : S[i].kind \in {"console", "error"} /\ consoleFilter \in {"all", S[i].kind}}
           all == OfKind(timelineEvents, consoleFilter)
           log == Logged(consoleFilter)
           at(j) == Nth(j, I, Before(I))
           m == Cardinality(I)
<1>1. S \in Seq(EventType) /\ I \in SUBSET (DOMAIN S) /\ DOMAIN S = 1..KeptCount /\ KeptCount \in Nat
  BY PanelsAssumption DEF PanelsInv, KeptCount
<1>2. /\ all \in Seq(EventType) /\ Len(all) = m /\ DOMAIN all = 1..m /\ m \in Nat
      /\ \A j \in 1..m : at(j) \in I /\ all[j] = S[at(j)]
      /\ \A j, k \in 1..m : j < k <=> at(j) < at(k)
  <2>1. all = Sifted(S, I)
    BY DEF OfKind
  <2> HIDE DEF I, all
  <2> QED BY <1>1, <2>1, SiftedFacts
<1> HIDE DEF I, all, m, at
<1>3. \A j, k \in 1..m : j < k => all[j].id < all[k].id
  <2> SUFFICES ASSUME NEW j \in 1..m, NEW k \in 1..m, j < k PROVE all[j].id < all[k].id
    OBVIOUS
  <2>1. at(j) \in 1..KeptCount /\ at(k) \in 1..KeptCount /\ at(j) < at(k)
    BY <1>1, <1>2
  <2>2. S[at(j)].id < S[at(k)].id
    BY <2>1 DEF PanelsInv
  <2> QED BY <1>2, <2>2
<1>4. log = LastOf(all, MaxLogged)
  BY DEF Logged, all
<1> HIDE DEF log
<1>5. CASE m <= MaxLogged
  <2>1. log = all
    BY <1>2, <1>4, <1>5 DEF LastOf
  <2> QED BY <2>1 DEF ConsoleIsFull, log, all
<1>6. CASE m > MaxLogged
  <2>1. /\ log \in Seq(EventType) /\ Len(log) = MaxLogged /\ DOMAIN log = 1..MaxLogged
        /\ \A i \in 1..MaxLogged : log[i] = all[m - MaxLogged + i]
    <3>1. MaxLogged \in Nat /\ Len(all) > MaxLogged
      BY <1>2, <1>6, PanelsAssumption
    <3> QED BY <1>2, <1>4, <3>1, LastOfFacts
  <2>2. ASSUME NEW e \in ToSet(all) \ ToSet(log), NEW d \in ToSet(log) PROVE d.id > e.id
    <3>1. PICK j \in 1..m : e = all[j]
      BY <1>2 DEF ToSet
    <3>2. PICK i \in 1..MaxLogged : d = log[i]
      BY <2>1 DEF ToSet
    <3>3. j <= m - MaxLogged
      <4> SUFFICES ASSUME j > m - MaxLogged PROVE FALSE
        BY <1>2, PanelsAssumption
      <4>1. j - (m - MaxLogged) \in 1..MaxLogged /\ m - MaxLogged + (j - (m - MaxLogged)) = j
        BY <1>2, PanelsAssumption
      <4>2. log[j - (m - MaxLogged)] = e
        BY <2>1, <3>1, <4>1
      <4> QED BY <2>1, <4>1, <4>2 DEF ToSet
    <3>4. m - MaxLogged + i \in 1..m /\ j < m - MaxLogged + i
      BY <1>2, <1>6, <3>3, PanelsAssumption
    <3>5. all[j].id < all[m - MaxLogged + i].id
      BY <1>3, <3>4
    <3>6. all[j].id \in Nat /\ all[m - MaxLogged + i].id \in Nat
      <4>1. all[j] \in EventType /\ all[m - MaxLogged + i] \in EventType
        BY <1>2, <3>4
      <4> QED BY <4>1 DEF EventType
    <3> QED BY <2>1, <3>1, <3>2, <3>5, <3>6
  <2> QED BY <2>1, <2>2 DEF ConsoleIsFull, log, all
<1> QED BY <1>2, <1>5, <1>6, PanelsAssumption

\* The store keeps the newest events without a gap, and the console leaves out
\* an event only for newer ones.
THEOREM NewestEventsAreShown == PanelsSpec => []NewestAreShown
<1>1. PanelsInit => PanelsInv
  <2> SUFFICES ASSUME PanelsInit PROVE PanelsInv
    OBVIOUS
  <2>1. KeptCount = 0
    BY PanelsAssumption DEF PanelsInit, KeptCount
  <2> QED BY <2>1 DEF PanelsInit, PanelsInv
<1>2. ASSUME PanelsInv PROVE NewestAreShown
  <2> DEFINE kept == Min({MaxKept, added - cleared})
  <2>1. kept = KeptCount
    <3>1. MaxKept \in Int /\ added - cleared \in Int
      BY <1>2, PanelsAssumption DEF PanelsInv
    <3> QED BY <3>1, SmallerAndLarger DEF KeptCount
  <2>2. DOMAIN timelineEvents = 1..KeptCount
    BY <1>2 DEF PanelsInv
  <2> HIDE DEF kept
  <2>3. [i \in DOMAIN timelineEvents |-> timelineEvents[i].id] = [i \in 1..kept |-> added - kept + i]
    BY <1>2, <2>1, <2>2 DEF PanelsInv
  <2> QED BY <1>2, <2>3, LogIsFull DEF NewestAreShown, NewestAreKept, kept
<1> QED BY <1>1, <1>2, PanelsInvKept, PTL DEF PanelsSpec
-----------------------------------------------------------------------------
(* The tabs and the editor. *)

Opened == 1..Len(openFiles)

\* The files are opened in their order; fileOrder lists some of them, each once,
\* and none that was closed and not clicked or dropped since.
OrderFits ==
    /\ openFiles \in Seq(Nat) /\ Len(openFiles) <= MaxFiles
    /\ \A i \in Opened : openFiles[i] = i
    /\ fileOrder \in Seq(Nat)
    /\ IsInjective(fileOrder)
    /\ ToSet(fileOrder) \subseteq Opened
    /\ ghosts \subseteq Opened \ ToSet(fileOrder)

EditorFits ==
    /\ activeFile \in Opened \union {NoFile}
    /\ models \subseteq Files
    /\ shown \in models \union {NoFile}

\* What the delayed update is to write is of the file it is for.
TimerFits == ~refused => \A t \in scrollTimer : t.file = t.from

TabsInv ==
    /\ OrderFits
    /\ EditorFits
    /\ TimerFits
    /\ scrolled = [f \in Files |-> scrolled[f]]
    /\ ActiveFollows
    /\ FilesKeepTheirOwn

LEMMA OpenedFacts ==
    ASSUME TabsInv
    PROVE  /\ openFiles \in Seq(Nat) /\ Len(openFiles) \in Nat /\ MaxFiles \in Nat
           /\ DOMAIN openFiles = Opened /\ ToSet(openFiles) = Opened
           /\ Opened \subseteq Files /\ Opened \subseteq Nat \ {0} /\ NoFile \notin Files
<1>1. openFiles \in Seq(Nat) /\ Len(openFiles) \in Nat /\ Len(openFiles) <= MaxFiles
  BY DEF TabsInv, OrderFits
<1>2. DOMAIN openFiles = Opened /\ \A i \in Opened : openFiles[i] = i
  BY <1>1 DEF Opened, TabsInv, OrderFits
<1>3. ToSet(openFiles) = Opened
  BY <1>2 DEF ToSet
<1> QED BY <1>1, <1>2, <1>3, TabsAssumption DEF Opened, Files, NoFile

\* What runs the effect again for the file that is active changes nothing while that
\* file is shown.
LEMMA RerunKeeps ==
    ASSUME TabsInv, activeFile' = activeFile,
           RunEffect(activeFile) \/ UNCHANGED <<editor, refused>>
    PROVE  /\ models' \subseteq Files /\ shown' \in models' \union {NoFile}
           /\ ~refused' => ~refused /\ shown' = activeFile
<1>1. /\ models \subseteq Files /\ shown \in models \union {NoFile} /\ activeFile \in Files \union {NoFile}
      /\ ~refused => shown = activeFile
  BY OpenedFacts DEF TabsInv, EditorFits, FilesKeepTheirOwn
<1>2. CASE RunEffect(activeFile)
  BY <1>1, <1>2 DEF RunEffect, editor
<1>3. CASE UNCHANGED <<editor, refused>>
  BY <1>1, <1>3 DEF editor
<1> QED BY <1>2, <1>3

\* The editor comes to show the active file, or createModel throws.
LEMMA ShowActiveKeeps ==
    ASSUME TabsInv, NEW f \in Files \union {NoFile}, activeFile' = f, ShowActive(f),
           UNCHANGED <<edits, scrolled, scrollTimer>>
    PROVE  /\ models' \subseteq Files /\ shown' \in models' \union {NoFile}
           /\ TimerFits' /\ FilesKeepTheirOwn'
<1>1. /\ models \subseteq Files /\ shown \in models \union {NoFile}
      /\ TimerFits /\ FilesKeepTheirOwn
      /\ dirty' = dirty /\ edited' = edited /\ scrolled' = scrolled /\ scrollTimer' = scrollTimer
  BY DEF TabsInv, EditorFits, edits
<1>2. CASE f = activeFile
  BY <1>1, <1>2 DEF ShowActive, RunEffect, editor, TimerFits, FilesKeepTheirOwn
<1>3. CASE f # activeFile /\ f = NoFile
  BY <1>1, <1>3 DEF ShowActive, RunEffect, TimerFits, FilesKeepTheirOwn
<1>4. CASE f # activeFile /\ f # NoFile /\ f \in models
  BY <1>1, <1>4 DEF ShowActive, RunEffect, editor, TimerFits, FilesKeepTheirOwn
<1>5. CASE f # activeFile /\ f # NoFile /\ f \notin models
  BY <1>1, <1>5 DEF ShowActive, RunEffect, TimerFits, FilesKeepTheirOwn
<1> QED BY <1>2, <1>3, <1>4, <1>5

LEMMA EditorStep == ASSUME TabsInv, Edit \/ Scroll \/ ScrollTimerFires PROVE TabsInv'
<1>1. /\ openFiles' = openFiles /\ fileOrder' = fileOrder /\ activeFile' = activeFile
      /\ ghosts' = ghosts /\ revived' = revived
      /\ RunEffect(activeFile) \/ UNCHANGED <<editor, refused>>
  BY DEF Edit, Scroll, ScrollTimerFires, files
<1>2. /\ models' \subseteq Files /\ shown' \in models' \union {NoFile}
      /\ ~refused' => ~refused /\ shown' = activeFile
  BY <1>1, RerunKeeps
<1>3. OrderFits' /\ EditorFits' /\ ActiveFollows'
  <2>1. Opened' = Opened
    BY <1>1 DEF Opened
  <2> QED BY <1>1, <1>2, <2>1 DEF TabsInv, OrderFits, EditorFits, ActiveFollows, IsInjective
<1>4. ~refused => shown = activeFile /\ dirty = edited /\ \A f \in Files : scrolled[f] \in {NoFile, f}
  BY DEF TabsInv, FilesKeepTheirOwn
<1>5. CASE Edit
  BY <1>1, <1>2, <1>3, <1>4, <1>5 DEF TabsInv, Edit, TimerFits, FilesKeepTheirOwn
<1>6. CASE Scroll
  <2>1. TimerFits'
    BY <1>1, <1>2, <1>4, <1>6 DEF Scroll, TimerFits
  <2> QED BY <1>1, <1>2, <1>3, <1>4, <1>6, <2>1 DEF TabsInv, Scroll, edits, FilesKeepTheirOwn
<1>7. CASE ScrollTimerFires
  <2>1. PICK t \in scrollTimer : scrolled' = [scrolled EXCEPT ![t.file] = t.from] /\ scrollTimer' = {}
    BY <1>7 DEF ScrollTimerFires
  <2>2. dirty' = dirty /\ edited' = edited
    BY <1>7 DEF ScrollTimerFires, edits
  <2>3. /\ scrolled' = [f \in Files |-> scrolled'[f]]
        /\ \A f \in Files : scrolled'[f] = IF f = t.file THEN t.from ELSE scrolled[f]
    BY <2>1 DEF TabsInv
  <2>4. FilesKeepTheirOwn'
    BY <1>1, <1>2, <1>4, <2>1, <2>2, <2>3 DEF TabsInv, TimerFits, FilesKeepTheirOwn
  <2>5. TimerFits'
    BY <2>1 DEF TimerFits
  <2> QED BY <1>3, <2>3, <2>4, <2>5 DEF TabsInv
<1> QED BY <1>5, <1>6, <1>7

LEMMA AddFileStep == ASSUME TabsInv, AddFile PROVE TabsInv'
<1> DEFINE f == Len(openFiles) + 1    a == IF activeFile = NoFile THEN f ELSE activeFile
<1>1. /\ openFiles' = Append(openFiles, f) /\ fileOrder' = Append(fileOrder, f)
      /\ activeFile' = a /\ ShowActive(a) /\ Len(openFiles) < MaxFiles
      /\ UNCHANGED <<edits, scrolled, scrollTimer, ghosts, revived>>
  BY DEF AddFile
<1>2. /\ f \in Files /\ f \in Nat \ {0} /\ f \notin Opened /\ a \in Files
      /\ activeFile \in Opened \union {NoFile} /\ NoFile \notin Files
  BY <1>1, OpenedFacts DEF TabsInv, EditorFits, Opened, Files, NoFile
<1> HIDE DEF f
<1>3. /\ openFiles' \in Seq(Nat) /\ Len(openFiles') = f /\ openFiles'[f] = f
      /\ \A i \in Opened : openFiles'[i] = i
      /\ Opened' = Opened \union {f}
  <2>1. /\ Append(openFiles, f) \in Seq(Nat) /\ Len(Append(openFiles, f)) = Len(openFiles) + 1
        /\ Append(openFiles, f)[Len(openFiles) + 1] = f
        /\ \A i \in DOMAIN openFiles : Append(openFiles, f)[i] = openFiles[i]
    BY <1>2, OpenedFacts, AppendFacts
  <2>2. \A i \in Opened : openFiles[i] = i
    BY DEF TabsInv, OrderFits
  <2>3. Opened' = Opened \union {f}
    <3>1. Opened' = 1..Len(openFiles) + 1
      BY <1>1, <2>1 DEF Opened
    <3> QED BY <3>1, OpenedFacts DEF Opened, f
  <2> QED BY <1>1, <2>1, <2>2, <2>3, OpenedFacts DEF f
<1>4. /\ fileOrder' \in Seq(Nat) /\ IsInjective(fileOrder')
      /\ ToSet(fileOrder') = ToSet(fileOrder) \union {f}
  <2>1. fileOrder \in Seq(Nat) /\ IsInjective(fileOrder) /\ f \notin ToSet(fileOrder)
    BY <1>2 DEF TabsInv, OrderFits
  <2> QED BY <1>1, <1>2, <2>1, AppendOnce
<1>5. OrderFits'
  <2>1. f <= MaxFiles
    BY <1>2, OpenedFacts DEF Files
  <2>2. ghosts' = ghosts
    BY <1>1
  <2> HIDE DEF Opened
  <2>3. /\ ToSet(fileOrder) \subseteq Opened /\ ghosts \subseteq Opened \ ToSet(fileOrder)
    BY DEF TabsInv, OrderFits
  <2> QED BY <1>2, <1>3, <1>4, <2>1, <2>2, <2>3 DEF OrderFits
<1>6. ActiveFollows'
  <2>1. a \notin ghosts /\ a # NoFile
    BY <1>2, OpenedFacts DEF TabsInv, OrderFits, ActiveFollows
  <2> QED BY <1>1, <2>1 DEF ActiveFollows
<1>7. /\ models' \subseteq Files /\ shown' \in models' \union {NoFile}
      /\ TimerFits' /\ FilesKeepTheirOwn'
  BY <1>1, <1>2, ShowActiveKeeps
<1>8. EditorFits'
  BY <1>1, <1>2, <1>3, <1>7 DEF EditorFits
<1> QED BY <1>1, <1>5, <1>6, <1>7, <1>8 DEF TabsInv

LEMMA ActivateStep == ASSUME TabsInv, NEW f \in ToSet(openFiles), Activate(f) PROVE TabsInv'
<1>1. /\ activeFile' = f /\ ghosts' = ghosts \ {f} /\ ShowActive(f)
      /\ UNCHANGED <<openFiles, fileOrder, edits, scrolled, scrollTimer, revived>>
  BY DEF Activate
<1>2. f \in Opened /\ f \in Files /\ f # NoFile /\ Opened' = Opened
  BY <1>1, OpenedFacts DEF Opened
<1>3. /\ models' \subseteq Files /\ shown' \in models' \union {NoFile}
      /\ TimerFits' /\ FilesKeepTheirOwn'
  BY <1>1, <1>2, ShowActiveKeeps
<1>4. OrderFits' /\ ActiveFollows' /\ EditorFits'
  BY <1>1, <1>2, <1>3 DEF TabsInv, OrderFits, ActiveFollows, EditorFits, IsInjective
<1> QED BY <1>1, <1>3, <1>4 DEF TabsInv

LEMMA RemoveFileStep == ASSUME TabsInv, NEW f \in ToSet(openFiles), RemoveFile(f) PROVE TabsInv'
<1> DEFINE rest == Without(fileOrder, f)    a == IF activeFile = f THEN FirstOf(rest) ELSE activeFile
<1>1. /\ fileOrder' = rest /\ activeFile' = a /\ ghosts' = ghosts \union {f} /\ ShowActive(a)
      /\ UNCHANGED <<openFiles, edits, scrolled, scrollTimer, revived>>
  BY DEF RemoveFile
<1>2. /\ f \in Opened /\ Opened' = Opened /\ Opened \subseteq Files /\ NoFile \notin Opened
      /\ fileOrder \in Seq(Nat) /\ IsInjective(fileOrder)
      /\ ToSet(fileOrder) \subseteq Opened /\ ghosts \subseteq Opened \ ToSet(fileOrder)
      /\ activeFile \in Opened \union {NoFile} /\ activeFile \notin ghosts
      /\ activeFile = NoFile => fileOrder = <<>> \/ revived
  <2> HIDE DEF rest
  <2> QED BY <1>1, OpenedFacts DEF TabsInv, OrderFits, EditorFits, ActiveFollows, Opened, Files
<1>3. rest \in Seq(Nat) /\ IsInjective(rest) /\ ToSet(rest) = ToSet(fileOrder) \ {f}
  BY <1>2, WithoutFacts
<1> HIDE DEF rest
<1>4. rest # <<>> => Head(rest) \in ToSet(rest)
  BY <1>3 DEF ToSet
<1>5. fileOrder = <<>> => rest = <<>>
  <2> SUFFICES ASSUME fileOrder = <<>>, rest # <<>> PROVE FALSE
    OBVIOUS
  <2>1. ToSet(fileOrder) = {}
    BY DEF ToSet
  <2> QED BY <1>3, <1>4, <2>1
<1>6. /\ a \in Opened \union {NoFile} /\ a \notin ghosts \union {f}
      /\ a = NoFile => rest = <<>> \/ revived
  <2>1. CASE activeFile = f /\ rest = <<>>
    BY <1>2, <2>1 DEF FirstOf
  <2>2. CASE activeFile = f /\ rest # <<>>
    <3>1. a = Head(rest) /\ a \in ToSet(fileOrder) \ {f}
      BY <1>3, <1>4, <2>2 DEF FirstOf
    <3> QED BY <1>2, <3>1
  <2>3. CASE activeFile # f
    BY <1>2, <1>5, <2>3
  <2> QED BY <2>1, <2>2, <2>3
<1> HIDE DEF a
<1>7. /\ models' \subseteq Files /\ shown' \in models' \union {NoFile}
      /\ TimerFits' /\ FilesKeepTheirOwn'
  BY <1>1, <1>2, <1>6, ShowActiveKeeps
<1>8. OrderFits'
  BY <1>1, <1>2, <1>3 DEF TabsInv, OrderFits
<1>9. ActiveFollows' /\ EditorFits'
  BY <1>1, <1>2, <1>6, <1>7 DEF ActiveFollows, EditorFits
<1> QED BY <1>1, <1>7, <1>8, <1>9 DEF TabsInv

\* The dragged file leaves the order and comes to the target's place.
LEMMA ReorderStep ==
    ASSUME TabsInv, NEW f \in ToSet(openFiles), NEW g \in ToSet(openFiles), ReorderFiles(f, g)
    PROVE  TabsInv'
<1> DEFINE ids == IF fileOrder = <<>> THEN openFiles ELSE fileOrder
<1>1. /\ fileOrder' = IF {f, g} \subseteq ToSet(ids) THEN Reordered(ids, f, g) ELSE ids
      /\ revived' = (revived \/ fileOrder = <<>>) /\ ghosts' = ghosts \ ToSet(fileOrder')
      /\ UNCHANGED <<openFiles, activeFile, editor, edits, scrolled, scrollTimer, refused>>
  BY DEF ReorderFiles
<1>2. /\ ids \in Seq(Nat) /\ IsInjective(ids) /\ ToSet(ids) \subseteq Opened
  <2>1. openFiles \in Seq(Nat) /\ IsInjective(openFiles) /\ ToSet(openFiles) \subseteq Opened
    <3>1. \A i \in DOMAIN openFiles : openFiles[i] = i
      BY OpenedFacts DEF TabsInv, OrderFits
    <3> QED BY <3>1, OpenedFacts DEF IsInjective
  <2> QED BY <2>1 DEF TabsInv, OrderFits
<1> HIDE DEF ids
<1>3. fileOrder' \in Seq(Nat) /\ IsInjective(fileOrder') /\ ToSet(fileOrder') \subseteq Opened
  <2>1. CASE ~({f, g} \subseteq ToSet(ids))
    BY <1>1, <1>2, <2>1 DEF IsInjective
  <2>2. CASE {f, g} \subseteq ToSet(ids)
    <3> DEFINE w == Without(ids, f)    i == IndexOf(ids, g)
    <3>1. w \in Seq(Nat) /\ ToSet(w) = ToSet(ids) \ {f} /\ IsInjective(w)
      BY <1>2, WithoutFacts
    <3>2. Len(w) = Len(ids) - 1
      BY <1>2, <2>2, WithoutLength
    <3>3. i \in DOMAIN ids
      BY <2>2 DEF IndexOf, ToSet
    <3> HIDE DEF w, i
    <3>4. i \in 1..Len(w) + 1 /\ f \in Nat
      BY <1>2, <3>2, <3>3, OpenedFacts
    <3>5. LET r == InsertAt(w, i, f) IN
          /\ r \in Seq(Nat) /\ Len(r) = Len(w) + 1
          /\ ToSet(r) = ToSet(w) \union {f}
          /\ IsInjective(w) /\ f \notin ToSet(w) => IsInjective(r)
      BY <3>1, <3>4, InsertFacts
    <3>6. fileOrder' = InsertAt(w, i, f)
      BY <1>1, <2>2 DEF Reordered, w, i
    <3>7. IsInjective(InsertAt(w, i, f)) /\ ToSet(InsertAt(w, i, f)) \subseteq Opened
      BY <1>2, <2>2, <3>1, <3>5
    <3> HIDE DEF IsInjective
    <3> QED BY <3>5, <3>6, <3>7 DEF IsInjective
  <2> QED BY <2>1, <2>2
<1>4. OrderFits'
  <2>1. Opened' = Opened
    BY <1>1 DEF Opened
  <2> QED BY <1>1, <1>3, <2>1 DEF TabsInv, OrderFits
<1>5. EditorFits' /\ TimerFits' /\ FilesKeepTheirOwn'
  BY <1>1 DEF TabsInv, EditorFits, TimerFits, FilesKeepTheirOwn, Opened, editor, edits
<1>6. ActiveFollows'
  BY <1>1 DEF TabsInv, ActiveFollows
<1> QED BY <1>1, <1>4, <1>5, <1>6 DEF TabsInv

LEMMA TabsInvInit == TabsInit => TabsInv
<1> SUFFICES ASSUME TabsInit PROVE TabsInv
  OBVIOUS
<1>1. OrderFits
  <2>1. <<>> \in Seq(Nat) /\ Len(<<>>) = 0 /\ ToSet(<<>>) = {} /\ IsInjective(<<>>)
    BY DEF ToSet, IsInjective
  <2> QED BY <2>1, TabsAssumption DEF TabsInit, OrderFits, Opened
<1>2. scrolled = [f \in Files |-> scrolled[f]] /\ FilesKeepTheirOwn
  BY DEF TabsInit, FilesKeepTheirOwn
<1> QED BY <1>1, <1>2 DEF TabsInit, TabsInv, EditorFits, TimerFits, ActiveFollows

LEMMA TabsInvKept == TabsInv /\ [TabsNext]_tabVars => TabsInv'
<1> SUFFICES ASSUME TabsInv, [TabsNext]_tabVars PROVE TabsInv'
  OBVIOUS
<1>1. CASE UNCHANGED tabVars
  <2>1. OrderFits' /\ EditorFits'
    BY <1>1 DEF tabVars, files, editor, TabsInv, OrderFits, EditorFits, Opened, IsInjective
  <2> QED BY <1>1, <2>1 DEF tabVars, files, editor, edits, TabsInv, TimerFits, FilesKeepTheirOwn, ActiveFollows
<1> QED BY <1>1, EditorStep, AddFileStep, ActivateStep, RemoveFileStep, ReorderStep DEF TabsNext

\* The inductive invariant of the tabs: a file is listed once, the active one is
\* opened and the one shown has a model, and unless the editor refused a file, what
\* the delayed update is to write is of the file it is for.
THEOREM TabsInvariant == TabsSpec => []TabsInv
BY TabsInvInit, TabsInvKept, PTL DEF TabsSpec

\* The order lists files that are open, each once.
THEOREM TabsAreListedOnce == TabsSpec => []TabsTypeOK
<1>1. ASSUME TabsInv PROVE TabsTypeOK
  BY <1>1, OpenedFacts DEF TabsInv, OrderFits, EditorFits, TabsTypeOK
<1> QED BY <1>1, TabsInvariant, PTL

\* A closed file is never active, and some file is while one is left in the order.
THEOREM ActiveFileFollows == TabsSpec => []ActiveFollows
<1>1. TabsInv => ActiveFollows
  BY DEF TabsInv
<1> QED BY <1>1, TabsInvariant, PTL

\* Until a file is visited a second time, what is shown, marked and scrolled is
\* the file's own.
THEOREM EditorKeepsFilesApart == TabsSpec => []FilesKeepTheirOwn
<1>1. TabsInv => FilesKeepTheirOwn
  BY DEF TabsInv
<1> QED BY <1>1, TabsInvariant, PTL
-----------------------------------------------------------------------------
(* The view of the target page. *)

SameOrigin(a, b) == a.document \in OwnOrigin <=> b.document \in OwnOrigin

Entry == [page : Pages, joined : BOOLEAN]

\* Entries of one document are of one origin.
HistoryOK ==
    /\ entries \in Seq(Entry) /\ Len(entries) <= MaxEntries
    /\ position \in 0..Len(entries)
    /\ \A i \in 2..Len(entries) : entries[i].joined => SameOrigin(entries[i].page, entries[i - 1].page)

TargetsOK == \A t \in target : t.page \in Pages /\ t.at \in Nat

\* Of a frame that was heard the index taken for the position is never too small.
Followed == Idle /\ ~unheard => ~loading /\ (Readable => historyIdx >= position - 1)

TvInv ==
    /\ url \in Pages /\ inputValue \in Pages /\ loading \in BOOLEAN /\ unheard \in BOOLEAN
    /\ historyLen \in 0..MaxEntries /\ historyIdx \in -1..(historyLen - 1)
    /\ HistoryOK
    /\ TargetsOK
    /\ Followed

LEMMA HistoryFacts ==
    ASSUME HistoryOK
    PROVE  /\ Len(entries) \in Nat /\ DOMAIN entries = 1..Len(entries)
           /\ position \in Nat /\ position <= Len(entries)
           /\ \A i \in DOMAIN entries : entries[i] \in Entry /\ entries[i].page \in Pages
           /\ position # Nowhere => position \in DOMAIN entries /\ PageShown \in Pages
<1>1. Len(entries) \in Nat /\ DOMAIN entries = 1..Len(entries) /\ position \in 0..Len(entries)
  BY DEF HistoryOK
<1>2. \A i \in DOMAIN entries : entries[i] \in Entry
  BY <1>1 DEF HistoryOK
<1>3. \A e \in Entry : e.page \in Pages
  BY DEF Entry
<1> QED BY <1>1, <1>2, <1>3 DEF Nowhere, PageShown

LEMMA PushKeeps ==
    ASSUME HistoryOK, NEW page \in Pages, NEW joined \in BOOLEAN, Push(page, joined),
           joined => position # Nowhere /\ SameOrigin(page, PageShown)
    PROVE  /\ HistoryOK' /\ position' # Nowhere /\ Len(entries') = position'
           /\ PageShown' = page
<1> DEFINE before == SubSeq(entries, 1, position)
           new == [page |-> page, joined |-> joined]
<1>1. /\ before \in Seq(Entry) /\ Len(before) = position
      /\ \A i \in 1..position : before[i] = entries[i]
  <2>1. \A i \in 1..position : entries[i] \in Entry
    BY HistoryFacts
  <2>2. before = [i \in 1..position |-> entries[i]]
    BY HistoryFacts DEF HistoryOK
  <2> QED BY <2>1, <2>2, HistoryFacts
<1>2. new \in Entry
  BY DEF Entry
<1> HIDE DEF before, new
<1>3. /\ entries' = Append(before, new) /\ position' = position + 1 /\ position < MaxEntries
  BY DEF Push, before, new
<1>4. /\ entries' \in Seq(Entry) /\ Len(entries') = position + 1
      /\ entries'[position + 1] = new /\ \A i \in 1..position : entries'[i] = entries[i]
  BY <1>1, <1>2, <1>3, AppendFacts, HistoryFacts
<1>5. new.page = page /\ new.joined = joined
  BY DEF new
<1>6. \A i \in 2..Len(entries') :
        entries'[i].joined => SameOrigin(entries'[i].page, entries'[i - 1].page)
  <2> SUFFICES ASSUME NEW i \in 2..Len(entries'), entries'[i].joined
               PROVE  SameOrigin(entries'[i].page, entries'[i - 1].page)
    OBVIOUS
  <2>1. CASE i = position + 1
    <3>1. joined /\ position \in 1..position /\ entries'[i - 1] = entries[position]
      BY <1>4, <1>5, <2>1, HistoryFacts
    <3> QED BY <1>4, <1>5, <2>1, <3>1 DEF PageShown
  <2>2. CASE i # position + 1
    <3>1. i \in 2..Len(entries) /\ i \in 1..position /\ i - 1 \in 1..position
      BY <1>4, <2>2, HistoryFacts
    <3> QED BY <1>4, <3>1 DEF HistoryOK
  <2> QED BY <2>1, <2>2
<1>7. Len(entries') <= MaxEntries
  BY <1>3, <1>4, TargetAssumption, HistoryFacts
<1> QED BY <1>3, <1>4, <1>5, <1>6, <1>7, HistoryFacts DEF HistoryOK, PageShown, Nowhere

LEMMA RenewKeeps ==
    ASSUME HistoryOK, position # Nowhere, Renew
    PROVE  /\ HistoryOK' /\ position' = position /\ Len(entries') = Len(entries)
           /\ PageShown' = PageShown
<1>1. /\ DOMAIN entries' = DOMAIN entries /\ position' = position
      /\ \A i \in DOMAIN entries :
            entries'[i] = IF i \in {position, position + 1} THEN [entries[i] EXCEPT !.joined = FALSE]
                          ELSE entries[i]
  BY DEF Renew
<1>2. \A i \in DOMAIN entries : /\ entries'[i] \in Entry /\ entries'[i].page = entries[i].page
                                /\ entries'[i].joined => entries[i].joined
  BY <1>1, HistoryFacts DEF Entry
<1>3. entries' \in Seq(Entry) /\ Len(entries') = Len(entries)
  <2>1. entries' = [i \in 1..Len(entries) |-> entries'[i]]
    BY HistoryFacts DEF Renew
  <2> QED BY <1>2, <2>1, HistoryFacts
<1>4. ASSUME NEW i \in 2..Len(entries'), entries'[i].joined
      PROVE  SameOrigin(entries'[i].page, entries'[i - 1].page)
  <2>1. i \in 2..Len(entries) /\ i \in DOMAIN entries /\ i - 1 \in DOMAIN entries
    BY <1>3, HistoryFacts
  <2> QED BY <1>2, <1>4, <2>1 DEF HistoryOK
<1> QED BY <1>1, <1>2, <1>3, <1>4, HistoryFacts DEF HistoryOK, PageShown

LEMMA MoveToKeeps ==
    ASSUME HistoryOK, TargetsOK, position # Nowhere, NEW page \in Pages, MoveTo(page),
           SameOrigin(page, PageShown)
    PROVE  HistoryOK' /\ TargetsOK' /\ unheard' = TRUE
<1>1. CASE PageShown = page
  BY <1>1 DEF MoveTo, HistoryOK, TargetsOK
<1>2. CASE PageShown # page
  BY <1>2, PushKeeps DEF MoveTo, TargetsOK
<1> QED BY <1>1, <1>2

LEMMA GoToKeeps ==
    ASSUME HistoryOK, TargetsOK, unheard \in BOOLEAN, NEW page \in Pages, GoTo(page)
    PROVE  HistoryOK' /\ TargetsOK' /\ unheard' \in BOOLEAN /\ Followed'
<1>1. CASE WithinDocument(page) /\ MoveTo(page)
  <2>1. position # Nowhere /\ SameOrigin(page, PageShown)
    BY <1>1 DEF WithinDocument, SameOrigin
  <2>2. HistoryOK' /\ TargetsOK' /\ unheard' = TRUE
    BY <1>1, <2>1, MoveToKeeps
  <2> QED BY <2>2 DEF Followed
<1>2. CASE target' = ToAddress(page) /\ UNCHANGED <<entries, position, unheard>>
  <2>1. target' # {} /\ \A t \in target' : t.page = page /\ t.at = 0
    BY <1>2 DEF ToAddress, Nowhere
  <2>2. TargetsOK'
    BY <2>1 DEF TargetsOK
  <2> QED BY <1>2, <2>1, <2>2 DEF HistoryOK, Followed, Idle
<1> QED BY <1>1, <1>2 DEF GoTo

LEMMA TraverseKeeps ==
    ASSUME HistoryOK, TargetsOK, NEW step \in {-1, 1}, Traverse(step)
    PROVE  /\ HistoryOK' /\ TargetsOK'
           /\ \/ position' = position /\ target' = target /\ position + step \notin DOMAIN entries
              \/ target' # {}
              \/ position' = position + step
<1> DEFINE to == position + step
<1>1. CASE to \notin DOMAIN entries
  BY <1>1 DEF Traverse, HistoryOK, TargetsOK
<1>2. CASE to \in DOMAIN entries /\ target' = {[page |-> entries[to].page, at |-> to]} /\ position' = position
  <2>1. entries[to].page \in Pages /\ to \in Nat
    BY <1>2, HistoryFacts
  <2> HIDE DEF to
  <2>2. target' # {} /\ \A t \in target' : t.page = entries[to].page /\ t.at = to
    BY <1>2
  <2>3. TargetsOK'
    BY <2>1, <2>2 DEF TargetsOK
  <2> QED BY <1>2, <2>2, <2>3 DEF Traverse, HistoryOK
<1>3. CASE to \in DOMAIN entries /\ position' = to /\ target' = {}
  BY <1>3, HistoryFacts DEF Traverse, HistoryOK, TargetsOK
<1> QED BY <1>1, <1>2, <1>3 DEF Traverse

LEMMA TvLoadStep == ASSUME TvInv, Load PROVE TvInv'
<1>1. PICK t \in target :
        /\ \/ t.at = Nowhere /\ IF position # Nowhere /\ PageShown = t.page THEN Renew
                                ELSE Push(t.page, FALSE)
           \/ t.at \in DOMAIN entries /\ entries[t.at].page = t.page /\ position' = t.at /\ entries' = entries
        /\ target' = {} /\ unheard' = FALSE
        /\ HandleLoad(Len(entries'), t.page.document \in OwnOrigin)
        /\ url' = url /\ inputValue' = inputValue
  BY DEF Load
<1>2. HistoryOK /\ t.page \in Pages
  BY DEF TvInv, TargetsOK
<1>3. HistoryOK' /\ PageShown' = t.page
  <2>1. CASE t.at = Nowhere /\ position # Nowhere /\ PageShown = t.page
    <3>1. CASE Renew
      BY <1>2, <2>1, <3>1, RenewKeeps
    <3>2. CASE t.at \in DOMAIN entries
      BY <1>2, <2>1, <3>2, HistoryFacts DEF Nowhere
    <3> QED BY <1>1, <2>1, <3>1, <3>2
  <2>2. CASE t.at = Nowhere /\ ~(position # Nowhere /\ PageShown = t.page)
    <3>1. CASE Push(t.page, FALSE)
      BY <1>2, <3>1, PushKeeps
    <3>2. CASE t.at \in DOMAIN entries
      BY <1>2, <2>2, <3>2, HistoryFacts DEF Nowhere
    <3> QED BY <1>1, <2>2, <3>1, <3>2
  <2>3. CASE t.at # Nowhere
    <3>1. t.at \in DOMAIN entries /\ entries[t.at].page = t.page /\ position' = t.at /\ entries' = entries
      BY <1>1, <2>3
    <3>2. t.at \in 0..Len(entries)
      BY <1>2, <3>1, HistoryFacts
    <3> QED BY <1>2, <3>1, <3>2 DEF HistoryOK, PageShown
  <2> QED BY <2>1, <2>2, <2>3
<1>4. /\ position' \in Nat /\ position' <= Len(entries') /\ Len(entries') \in Nat
      /\ Len(entries') <= MaxEntries
  BY <1>3 DEF HistoryOK
<1>5. /\ loading' = FALSE
      /\ historyLen' = IF t.page.document \in OwnOrigin THEN Len(entries') ELSE 0
      /\ historyIdx' = IF t.page.document \in OwnOrigin THEN Len(entries') - 1 ELSE -1
  BY <1>1 DEF HandleLoad
<1>6. Followed'
  BY <1>3, <1>4, <1>5 DEF Followed, Readable
<1>7. historyLen' \in 0..MaxEntries /\ historyIdx' \in -1..(historyLen' - 1)
  BY <1>4, <1>5, TargetAssumption
<1> QED BY <1>1, <1>3, <1>5, <1>6, <1>7 DEF TvInv, TargetsOK

LEMMA FrameStep == ASSUME TvInv, NoDocument \/ FollowLink \/ PageMoves PROVE TvInv'
<1> USE DEF TvInv
<1>1. CASE NoDocument
  BY <1>1 DEF NoDocument, tvShown, HistoryOK, TargetsOK, Followed
<1>2. CASE FollowLink
  <2>1. PICK page \in Pages : GoTo(page)
    BY <1>2 DEF FollowLink
  <2>2. HistoryOK' /\ TargetsOK' /\ unheard' \in BOOLEAN /\ Followed'
    BY <2>1, GoToKeeps
  <2> QED BY <1>2, <2>2 DEF FollowLink, tvShown
<1>3. CASE PageMoves
  <2>1. ASSUME NEW page \in Pages, MoveTo(page),
               page.document = PageShown.document \/ {page.document, PageShown.document} \subseteq OwnOrigin
        PROVE  HistoryOK' /\ TargetsOK' /\ unheard' = TRUE
    <3>1. position # Nowhere /\ SameOrigin(page, PageShown)
      BY <1>3, <2>1 DEF PageMoves, SameOrigin
    <3> QED BY <2>1, <3>1, MoveToKeeps
  <2>2. ASSUME NEW step \in {-1, 1}, Traverse(step), unheard' = TRUE
        PROVE  HistoryOK' /\ TargetsOK' /\ unheard' = TRUE
    BY <2>2, TraverseKeeps
  <2>3. HistoryOK' /\ TargetsOK' /\ unheard' = TRUE
    BY <1>3, <2>1, <2>2 DEF PageMoves
  <2> QED BY <1>3, <2>3 DEF PageMoves, tvShown, Followed
<1> QED BY <1>1, <1>2, <1>3

\* A step back or forward: the index moves with the position, or stays ahead of it
\* at the ends of the history.
LEMMA StepKeeps ==
    ASSUME TvInv, NEW step \in {-1, 1}, Step(step),
           historyIdx + step \in 0..(historyLen - 1)
    PROVE  TvInv'
<1> USE DEF TvInv
<1>1. CASE Readable
  <2>1. /\ Traverse(step) /\ historyIdx' = historyIdx + step
        /\ unheard' = (unheard \/ ~Idle)
        /\ UNCHANGED <<url, inputValue, loading, historyLen>>
    BY <1>1 DEF Step
  <2>2. HistoryOK' /\ TargetsOK'
    BY <2>1, TraverseKeeps
  <2>3. Followed'
    <3> SUFFICES ASSUME Idle', ~unheard' PROVE ~loading' /\ (Readable' => historyIdx' >= position' - 1)
      BY DEF Followed
    <3>1. ~loading /\ historyIdx >= position - 1
      BY <1>1, <2>1 DEF Followed
    <3>2. historyIdx' >= position' - 1
      <4>1. CASE position' = position /\ position + step \notin DOMAIN entries
        BY <2>1, <3>1, <4>1, HistoryFacts
      <4>2. CASE position' = position + step
        BY <2>1, <3>1, <4>2, HistoryFacts
      <4> QED BY <2>1, <4>1, <4>2, TraverseKeeps DEF Idle
    <3> QED BY <2>1, <3>1, <3>2
  <2>4. historyLen' \in 0..MaxEntries /\ historyIdx' \in -1..(historyLen' - 1)
    BY <2>1, TargetAssumption
  <2>5. unheard' \in BOOLEAN
    BY <2>1
  <2> QED BY <2>1, <2>2, <2>3, <2>4, <2>5
<1>2. CASE ~Readable
  BY <1>2 DEF Step, frame, HistoryOK, TargetsOK, Followed, Idle, Readable, PageShown
<1> QED BY <1>1, <1>2

LEMMA ButtonsStep ==
    ASSUME TvInv, TypeAddress \/ Navigate \/ GoBack \/ GoForward \/ ReloadPage
    PROVE  TvInv'
<1> USE DEF TvInv
<1>1. CASE TypeAddress
  BY <1>1 DEF TypeAddress, frame, HistoryOK, TargetsOK, Followed, Idle, Readable, PageShown
<1>2. CASE Navigate
  <2>1. CASE inputValue # url
    <3>1. HistoryOK' /\ TargetsOK' /\ unheard' \in BOOLEAN /\ Followed'
      BY <1>2, <2>1, GoToKeeps DEF Navigate
    <3> QED BY <1>2, <3>1 DEF Navigate
  <2>2. CASE inputValue = url
    BY <1>2, <2>2 DEF Navigate, HistoryOK, TargetsOK, Followed
  <2> QED BY <2>1, <2>2
<1>3. CASE GoBack
  <2>1. Step(-1) /\ historyIdx + (-1) \in 0..(historyLen - 1)
    BY <1>3, TargetAssumption DEF GoBack
  <2> QED BY <2>1, StepKeeps
<1>4. CASE GoForward
  <2>1. Step(1) /\ historyIdx + 1 \in 0..(historyLen - 1)
    BY <1>4, TargetAssumption DEF GoForward
  <2> QED BY <2>1, StepKeeps
<1>5. CASE ReloadPage
  <2>1. HistoryOK' /\ TargetsOK' /\ unheard' \in BOOLEAN /\ Followed'
    BY <1>5, GoToKeeps DEF ReloadPage
  <2> QED BY <1>5, <2>1 DEF ReloadPage
<1> QED BY <1>1, <1>2, <1>3, <1>4, <1>5

LEMMA TvInvInit == TvInit => TvInv
<1> SUFFICES ASSUME TvInit PROVE TvInv
  OBVIOUS
<1>1. FirstPage \in Pages
  BY TargetAssumption DEF FirstPage, Address, Pages
<1>2. HistoryOK
  BY TargetAssumption DEF TvInit, HistoryOK, Nowhere
<1>3. target # {} /\ \A t \in target : t.page = FirstPage /\ t.at = 0
  BY DEF TvInit, ToAddress, Nowhere
<1>4. TargetsOK
  BY <1>1, <1>3 DEF TargetsOK
<1>5. Followed
  BY <1>3 DEF Followed, Idle
<1>6. url \in Pages /\ inputValue \in Pages /\ loading \in BOOLEAN /\ unheard \in BOOLEAN
  BY <1>1 DEF TvInit
<1>7. historyLen \in 0..MaxEntries /\ historyIdx \in -1..(historyLen - 1)
  <2>1. historyLen = 0 /\ historyIdx = -1
    BY DEF TvInit
  <2> QED BY <2>1, TargetAssumption
<1> QED BY <1>2, <1>4, <1>5, <1>6, <1>7 DEF TvInv

LEMMA TvInvKept == TvInv /\ [TvNext]_tvVars => TvInv'
<1> SUFFICES ASSUME TvInv, [TvNext]_tvVars PROVE TvInv'
  OBVIOUS
<1>1. CASE UNCHANGED tvVars
  BY <1>1 DEF tvVars, tvShown, frame, TvInv, HistoryOK, TargetsOK, Followed, Idle, Readable, PageShown
<1> QED BY <1>1, TvLoadStep, FrameStep, ButtonsStep DEF TvNext

\* The inductive invariant of the target view: entries of one document are of one
\* origin, the index is within the history that was recorded, and not too small
\* for the position of a frame that was heard.
THEOREM TargetInvariant == TvSpec => []TvInv
BY TvInvInit, TvInvKept, PTL DEF TvSpec

\* The position the component has taken is one in the history it knows of.
THEOREM TargetTypes == TvSpec => []TvTypeOK
<1>1. ASSUME TvInv PROVE TvTypeOK
  <2>1. entries \in SeqOf([page : Pages, joined : BOOLEAN], MaxEntries)
    <3>1. entries \in [1..Len(entries) -> Entry] /\ Len(entries) \in 0..MaxEntries
      BY <1>1, HistoryFacts, TargetAssumption DEF TvInv, HistoryOK
    <3> QED BY <3>1 DEF SeqOf, Entry
  <2>2. position \in DOMAIN entries \union {Nowhere}
    BY <1>1, HistoryFacts DEF TvInv, Nowhere
  <2> QED BY <1>1, <2>1, <2>2 DEF TvInv, TvTypeOK
<1> QED BY <1>1, TargetInvariant, PTL

\* Whatever is clicked, entered, followed or loaded in whatever order: as long as what
\* the frame did was heard, it has no spinner once it is idle, and there is a way back
\* from every page of a readable target but the first.
THEOREM HeardLoadsAreFollowed == TvSpec => []LoadsAreHeard
<1>1. ASSUME TvInv PROVE LoadsAreHeard
  BY <1>1, HistoryFacts DEF TvInv, Followed, LoadsAreHeard
<1> QED BY <1>1, TargetInvariant, PTL
-----------------------------------------------------------------------------
(* The timeline. *)

EventRecord == [req : Requests \union {NoRequest}, done : BOOLEAN, at : Times]

\* An event is appended before the next one is received.
OneByOne ==
    /\ sent \in Seq(EventRecord) /\ Len(sent) <= MaxEvents
    /\ next \in 1..Len(sent) + 1
    /\ appending \subseteq {next - 1} \ {0}
    /\ stored \subseteq 1..next - 1
    /\ stored \intersect appending = {}
    /\ \A i \in stored \union appending : sent[i].req # NoRequest
    /\ count \in Nat /\ count <= next - 1 /\ (appending # {} => count < next - 1)

\* Every event of a request comes with the request's first timestamp.
Stamped ==
    /\ stamp \in [Requests -> Times \union {0}]
    /\ \A i \in 1..Len(sent) : sent[i].req # NoRequest => stamp[sent[i].req] # 0

InTime(e) == [key |-> <<stamp[e.key], e.key>>, value |-> e.value]

\* T_BY_TIME has the rows of T_EVENTS, under their timestamps.
Paired(d) ==
    /\ d \in Tables /\ IsFiniteSet(d.events)
    /\ \A e \in d.events : e.value.req = e.key /\ stamp[e.key] # 0
    /\ \A e, f \in d.events : e.key = f.key => e = f
    /\ d.byTime = {InTime(e) : e \in d.events}

TimelineInv ==
    /\ OneByOne
    /\ Stamped
    /\ Paired(db) /\ Paired(disk)
    /\ memory \in BOOLEAN /\ restarts \in 0..MaxRestarts
    /\ RowShowsLastAppended

LEMMA TimelineFacts ==
    ASSUME TimelineInv
    PROVE  /\ sent \in Seq(EventRecord) /\ Len(sent) \in Nat /\ DOMAIN sent = 1..Len(sent)
           /\ next \in Nat \ {0} /\ next - 1 \in Nat /\ next - 1 <= Len(sent)
           /\ stored \subseteq 1..Len(sent) /\ appending \subseteq 1..Len(sent)
           /\ Oldest \in 1..Len(sent) + 1
           /\ NoRequest \notin Requests /\ 0 \notin Times
BY TimelineAssumption DEF TimelineInv, OneByOne, Oldest

LEMMA SentType ==
    ASSUME TimelineInv, NEW i \in 1..Len(sent)
    PROVE  /\ sent[i].req \in Requests \union {NoRequest} /\ sent[i].done \in BOOLEAN
           /\ sent[i].req # NoRequest =>
                 /\ sent[i].req \in Requests /\ stamp[sent[i].req] \in Times /\ Row(i) \in Rows
                 /\ Row(i).req = sent[i].req
<1>1. sent[i] \in EventRecord
  BY TimelineFacts
<1>2. sent[i].req # NoRequest => stamp[sent[i].req] # 0 /\ stamp \in [Requests -> Times \union {0}]
  BY DEF TimelineInv, Stamped
<1> QED BY <1>1, <1>2 DEF EventRecord, Row, Rows

\* What is in the tables stays paired when other requests are stamped.
LEMMA PairedStays ==
    ASSUME NEW d, Paired(d), \A r \in Requests : stamp[r] # 0 => stamp'[r] = stamp[r]
    PROVE  Paired(d)'
<1>1. \A e \in d.events : e.key \in Requests /\ stamp[e.key] # 0
  BY DEF Paired, Tables
<1>2. \A e \in d.events : InTime(e)' = InTime(e) /\ stamp'[e.key] # 0
  BY <1>1 DEF InTime
<1>3. {InTime(e)' : e \in d.events} = {InTime(e) : e \in d.events}
  BY <1>2
<1> QED BY <1>2, <1>3 DEF Paired

\* An event is sent.
LEMMA SentStep ==
    ASSUME TimelineInv, NEW new \in EventRecord, sent' = Append(sent, new), Len(sent) < MaxEvents,
           stamp' \in [Requests -> Times \union {0}],
           \A r \in Requests : stamp[r] # 0 => stamp'[r] = stamp[r],
           new.req # NoRequest => stamp'[new.req] # 0,
           UNCHANGED <<next, appending, stored, db, memory, disk, count, restarts>>
    PROVE  TimelineInv'
<1> DEFINE n == Len(sent) + 1
<1>1. /\ sent' \in Seq(EventRecord) /\ Len(sent') = n /\ sent'[n] = new
      /\ \A i \in 1..Len(sent) : sent'[i] = sent[i]
      /\ Len(sent) \in Nat /\ n <= MaxEvents
  BY TimelineFacts, AppendFacts, TimelineAssumption
<1> HIDE DEF n
<1>2. \A i \in stored \union appending : sent'[i] = sent[i] /\ i \in 1..Len(sent)
  BY <1>1, TimelineFacts
<1>3. OneByOne'
  <2>1. next \in 1..Len(sent') + 1
    BY <1>1, TimelineFacts DEF n
  <2> QED BY <1>1, <1>2, <2>1 DEF TimelineInv, OneByOne
<1>4. Stamped'
  <2> SUFFICES ASSUME NEW i \in 1..n, sent'[i].req # NoRequest PROVE stamp'[sent'[i].req] # 0
    BY <1>1 DEF Stamped
  <2>1. CASE i = n
    BY <1>1, <2>1
  <2>2. CASE i # n
    <3>1. i \in 1..Len(sent) /\ sent'[i] = sent[i]
      BY <1>1, <2>2 DEF n
    <3>2. stamp[sent[i].req] # 0 /\ sent[i].req \in Requests
      BY <3>1, SentType DEF TimelineInv, Stamped
    <3> QED BY <3>1, <3>2
  <2> QED BY <2>1, <2>2
<1>5. Paired(db)' /\ Paired(disk)'
  <2>1. \A d : Paired(d) => Paired(d)'
    BY PairedStays
  <2> HIDE DEF Paired
  <2>2. Paired(db) /\ Paired(disk) /\ db' = db /\ disk' = disk
    BY DEF TimelineInv
  <2> QED BY <2>1, <2>2 DEF Paired, InTime
<1>6. RowShowsLastAppended'
  <2>1. \A i \in stored : Row(i)' = Row(i) /\ sent'[i] = sent[i]
    BY <1>2 DEF Row
  <2> QED BY <2>1 DEF TimelineInv, RowShowsLastAppended
<1> QED BY <1>3, <1>4, <1>5, <1>6 DEF TimelineInv

LEMMA SendSteps ==
    ASSUME TimelineInv,
           \/ \E r \in Requests, done \in BOOLEAN, at \in Times : Send(r, done, at)
           \/ \E at \in Times : SendReplay(at)
    PROVE  TimelineInv'
<1>1. ASSUME NEW r \in Requests, NEW done \in BOOLEAN, NEW at \in Times, Send(r, done, at)
      PROVE  TimelineInv'
  <2> DEFINE new == [req |-> r, done |-> done, at |-> at]
  <2>1. new \in EventRecord /\ new.req = r
    BY DEF EventRecord
  <2>2. /\ sent' = Append(sent, new) /\ Len(sent) < MaxEvents
        /\ stamp' = [stamp EXCEPT ![r] = IF @ = 0 THEN at ELSE @]
        /\ UNCHANGED <<next, appending, stored, db, memory, disk, count, restarts>>
    BY <1>1 DEF Send
  <2> HIDE DEF new
  <2>3. /\ stamp' \in [Requests -> Times \union {0}] /\ stamp'[r] # 0
        /\ \A q \in Requests : stamp[q] # 0 => stamp'[q] = stamp[q]
    BY <2>2, TimelineFacts DEF TimelineInv, Stamped
  <2> QED BY <2>1, <2>2, <2>3, SentStep
<1>2. ASSUME NEW at \in Times, SendReplay(at) PROVE TimelineInv'
  <2> DEFINE new == [req |-> NoRequest, done |-> TRUE, at |-> at]
  <2>1. new \in EventRecord /\ new.req = NoRequest
    BY DEF EventRecord
  <2>2. /\ sent' = Append(sent, new) /\ Len(sent) < MaxEvents /\ stamp' = stamp
        /\ UNCHANGED <<next, appending, stored, db, memory, disk, count, restarts>>
    BY <1>2 DEF SendReplay
  <2> HIDE DEF new
  <2> QED BY <2>1, <2>2, SentStep DEF TimelineInv, Stamped
<1> QED BY <1>1, <1>2

LEMMA FurtherOn ==
    ASSUME NEW n \in Nat \ {0}, NEW m \in Nat, n < m
    PROVE  1..n - 1 \subseteq 1..m - 1 /\ \A c \in Nat : c <= n - 1 => c < m - 1
OBVIOUS

LEMMA ForwarderStep == ASSUME TimelineInv, Lag \/ Receive PROVE TimelineInv'
<1>1. /\ appending = {} /\ next' \in Nat /\ next < next' /\ next' <= Len(sent) + 1
      /\ appending' \in {{}, {next}} /\ (appending' # {} => next' = next + 1 /\ sent[next].req # NoRequest)
      /\ UNCHANGED <<sent, stamp, stored, db, memory, disk, count, restarts>>
  BY TimelineFacts DEF Lag, Receive
<1>2. OneByOne'
  <2>0. /\ stored \subseteq 1..next - 1 /\ next \in Nat \ {0} /\ count \in Nat /\ count <= next - 1
        /\ next' \in Nat /\ next < next' /\ stored' = stored /\ count' = count
    BY <1>1, TimelineFacts DEF TimelineInv, OneByOne
  <2>1. appending' \subseteq {next' - 1} \ {0} /\ stored' \subseteq 1..next' - 1
    <3>1. stored' \subseteq 1..next' - 1
      BY <2>0, FurtherOn
    <3>2. CASE appending' = {}
      BY <3>1, <3>2
    <3>3. CASE appending' = {next}
      <4>1. next' - 1 = next /\ next # 0
        BY <1>1, <2>0, <3>3
      <4> QED BY <3>1, <3>3, <4>1
    <3> QED BY <1>1, <3>2, <3>3
  <2>2. next \notin stored /\ stored' \intersect appending' = {}
    BY <1>1, TimelineFacts DEF TimelineInv, OneByOne
  <2>3. count' \in Nat /\ count' <= next' - 1 /\ (appending' # {} => count' < next' - 1)
    <3>1. count < next' - 1
      BY <2>0, FurtherOn
    <3>2. next' - 1 \in Int
      BY <2>0
    <3>3. count' < next' - 1
      BY <2>0, <3>1
    <3>4. \A c, m : c \in Nat /\ m \in Int /\ c < m => c <= m
      OBVIOUS
    <3> QED BY <2>0, <3>2, <3>3, <3>4
  <2>4. next' \in 1..Len(sent) + 1
    BY <1>1, TimelineFacts
  <2> QED BY <1>1, <2>1, <2>2, <2>3, <2>4 DEF TimelineInv, OneByOne
<1> QED BY <1>1, <1>2 DEF TimelineInv, Stamped, Paired, InTime, RowShowsLastAppended, Row

\* The rows of the event take the places of the request's, in both tables.
LEMMA CommitPairs ==
    ASSUME TimelineInv, NEW i \in appending, Commit(i)
    PROVE  Paired(db)'
<1> DEFINE r == sent[i].req    row == Row(i)    new == [key |-> r, value |-> row]
<1>1. /\ i \in 1..Len(sent) /\ r \in Requests /\ stamp[r] \in Times /\ row \in Rows /\ row.req = r
      /\ stamp[r] # 0
  BY TimelineFacts, SentType DEF TimelineInv, OneByOne
<1>2. /\ db'.events = {e \in db.events : e.key # r} \union {new}
      /\ db'.byTime = {t \in db.byTime : t.key # <<stamp[r], r>>} \union {InTime(new)}
      /\ stamp' = stamp
  BY DEF Commit, Insert, TimeKey, InTime
<1>3. /\ db.events \subseteq [key : Requests, value : Rows] /\ IsFiniteSet(db.events)
      /\ db.byTime \subseteq [key : Times \X Requests, value : Rows]
      /\ \A e \in db.events : e.value.req = e.key /\ stamp[e.key] # 0
      /\ \A e, f \in db.events : e.key = f.key => e = f
      /\ db.byTime = {InTime(e) : e \in db.events}
  BY DEF TimelineInv, Paired, Tables
<1>4. new \in [key : Requests, value : Rows] /\ new.key = r /\ new.value = row
  BY <1>1
<1>5. InTime(new) \in [key : Times \X Requests, value : Rows]
  BY <1>1, <1>4 DEF InTime
<1>6. \A e : InTime(e).key = <<stamp[e.key], e.key>>
  BY DEF InTime
<1> HIDE DEF new, row, r
<1>7. {t \in db.byTime : t.key # <<stamp[r], r>>} = {InTime(e) : e \in {e \in db.events : e.key # r}}
  <2>1. \A e \in db.events : InTime(e).key # <<stamp[r], r>> <=> e.key # r
    BY <1>6
  <2> QED BY <1>3, <2>1
<1>8. db'.byTime = {InTime(e) : e \in db'.events}
  BY <1>2, <1>7
<1>9. db' \in Tables
  <2>1. /\ db'.events \in SUBSET [key : Requests, value : Rows]
        /\ db'.byTime \in SUBSET [key : Times \X Requests, value : Rows]
    BY <1>2, <1>3, <1>4, <1>5
  <2>2. db' = [events |-> db'.events, byTime |-> db'.byTime]
    BY DEF Commit
  <2> QED BY <2>1, <2>2 DEF Tables
<1>10. IsFiniteSet(db'.events)
  <2>1. IsFiniteSet({e \in db.events : e.key # r})
    BY <1>3, FS_Subset
  <2> QED BY <1>2, <2>1, FS_AddElement
<1>11. \A e \in db'.events : e.value.req = e.key /\ stamp[e.key] # 0
  BY <1>1, <1>2, <1>3, <1>4
<1>12. \A e, f \in db'.events : e.key = f.key => e = f
  BY <1>2, <1>3, <1>4
<1> QED BY <1>2, <1>8, <1>9, <1>10, <1>11, <1>12 DEF Paired, InTime

LEMMA AppendStep ==
    ASSUME TimelineInv, NEW i \in appending, Commit(i) \/ AppendFails(i)
    PROVE  TimelineInv'
<1>1. /\ appending = {i} /\ i = next - 1 /\ i \notin stored /\ i \in Nat \ {0}
      /\ appending' = {} /\ \A j \in stored : j < i
      /\ UNCHANGED <<sent, stamp, next, memory, disk, restarts>>
  <2>1. /\ appending \subseteq {next - 1} \ {0} /\ stored \subseteq 1..next - 1
        /\ stored \intersect appending = {} /\ next \in Nat \ {0}
    BY TimelineFacts DEF TimelineInv, OneByOne
  <2>2. /\ appending' = appending \ {i}
        /\ UNCHANGED <<sent, stamp, next, memory, disk, restarts>>
    BY DEF Commit, AppendFails
  <2>3. i = next - 1 /\ appending = {i} /\ i \notin stored /\ i \in Nat \ {0}
    <3>1. i \in {next - 1} \ {0} /\ i \notin stored
      BY <2>1
    <3>2. appending = {i} /\ i = next - 1 /\ i # 0
      BY <2>1, <3>1
    <3>3. next - 1 \in Nat
      BY <2>1
    <3> QED BY <3>1, <3>2, <3>3
  <2>4. \A j \in stored : j \in Nat /\ j <= next - 1 /\ j # i
    BY <2>1, <2>3
  <2>5. \A j \in stored : j < i
    BY <2>3, <2>4
  <2> QED BY <2>2, <2>3, <2>5
<1>2. CASE Commit(i)
  <2>1. stored' = stored \union {i} /\ count' = count + 1
    BY <1>2 DEF Commit
  <2>2. OneByOne'
    BY <1>1, <2>1, TimelineFacts DEF TimelineInv, OneByOne
  <2>3. RowShowsLastAppended'
    <3> SUFFICES ASSUME NEW k \in stored \union {i},
                        \A j \in stored \union {i} : sent[j].req = sent[k].req => j <= k
                 PROVE  [key |-> sent[k].req, value |-> Row(k)] \in db'.events
      BY <1>1, <2>1 DEF RowShowsLastAppended, Row
    <3>1. db'.events = {e \in db.events : e.key # sent[i].req} \union {[key |-> sent[i].req, value |-> Row(i)]}
      BY <1>2 DEF Commit, Insert
    <3>2. CASE k = i
      BY <3>1, <3>2
    <3>3. CASE k # i
      <4>1. k \in stored /\ k < i /\ k \in Nat
        BY <1>1, <3>3 DEF TimelineInv, OneByOne
      <4>2. sent[i].req # sent[k].req
        BY <1>1, <4>1
      <4>3. [key |-> sent[k].req, value |-> Row(k)] \in db.events
        BY <4>1 DEF TimelineInv, RowShowsLastAppended
      <4> QED BY <3>1, <4>2, <4>3
    <3> QED BY <3>2, <3>3
  <2> QED BY <1>1, <1>2, <2>2, <2>3, CommitPairs DEF TimelineInv, Stamped, Paired, InTime
<1>3. CASE AppendFails(i)
  <2>1. stored' = stored /\ count' = count /\ db' = db
    BY <1>3 DEF AppendFails
  <2>2. OneByOne'
    BY <1>1, <2>1, TimelineFacts DEF TimelineInv, OneByOne
  <2>3. Stamped' /\ RowShowsLastAppended'
    BY <1>1, <2>1 DEF TimelineInv, Stamped, RowShowsLastAppended, Row
  <2>4. Paired(db)' /\ Paired(disk)'
    BY <1>1, <2>1 DEF TimelineInv, Paired, InTime
  <2> QED BY <1>1, <2>2, <2>3, <2>4 DEF TimelineInv
<1> QED BY <1>2, <1>3

LEMMA NoRowsPaired == Paired(NoRows)
<1>1. NoRows.events = {} /\ NoRows.byTime = {} /\ NoRows \in Tables
  BY DEF NoRows, Tables
<1> QED BY <1>1, FS_EmptySet DEF Paired

LEMMA RestartStep == ASSUME TimelineInv, Restart PROVE TimelineInv'
<1>1. /\ sent' = <<>> /\ next' = 1 /\ appending' = {} /\ stored' = {} /\ count' = 0 /\ stamp' = stamp
      /\ restarts' \in 0..MaxRestarts /\ memory' \in BOOLEAN
  <2>1. restarts' = restarts + 1 /\ restarts < MaxRestarts /\ restarts \in 0..MaxRestarts
    BY DEF Restart, TimelineInv
  <2>2. restarts' \in 0..MaxRestarts
    BY <2>1, TimelineAssumption
  <2> QED BY <2>2 DEF Restart
<1>2. OneByOne' /\ Stamped' /\ RowShowsLastAppended'
  BY <1>1, TimelineAssumption DEF OneByOne, Stamped, TimelineInv, RowShowsLastAppended
<1>3. Paired(db') /\ Paired(disk')
  BY NoRowsPaired DEF Restart, TimelineInv
<1>4. Paired(db)' /\ Paired(disk)'
  BY <1>1, <1>3 DEF Paired, InTime
<1> QED BY <1>1, <1>2, <1>4 DEF TimelineInv

LEMMA TimelineInvInit == Init => TimelineInv
<1> SUFFICES ASSUME Init PROVE TimelineInv
  OBVIOUS
<1>1. OneByOne /\ Stamped /\ RowShowsLastAppended
  BY TimelineAssumption DEF Init, OneByOne, Stamped, RowShowsLastAppended
<1>2. db = NoRows /\ disk = NoRows
  BY DEF Init
<1>3. Paired(db) /\ Paired(disk)
  BY <1>2, NoRowsPaired
<1>4. memory \in BOOLEAN /\ restarts \in 0..MaxRestarts
  <2>1. memory = FALSE /\ restarts = 0
    BY DEF Init
  <2>2. restarts \in 0..MaxRestarts
    BY <2>1, TimelineAssumption
  <2> QED BY <2>1, <2>2
<1> QED BY <1>1, <1>3, <1>4 DEF TimelineInv

LEMMA TimelineInvKept == TimelineInv /\ [Next]_vars => TimelineInv'
<1> SUFFICES ASSUME TimelineInv, [Next]_vars PROVE TimelineInv'
  OBVIOUS
<1>1. CASE UNCHANGED vars
  BY <1>1 DEF vars, TimelineInv, OneByOne, Stamped, Paired, InTime, RowShowsLastAppended, Row
<1> QED BY <1>1, SendSteps, ForwarderStep, AppendStep, RestartStep DEF Next, Forward

\* The rows of T_BY_TIME have an order, the newest first.
LEMMA RecentFacts == ASSUME TimelineInv PROVE RecentAgreesWithExport
<1> DEFINE T == db.byTime    R == {p \in T \X T : Newer(p[1], p[2])}    list == Listed(T, R)
           all == Recent(Cardinality(T))
<1>1. /\ db.events \subseteq [key : Requests, value : Rows] /\ IsFiniteSet(db.events)
      /\ T \subseteq [key : Times \X Requests, value : Rows]
      /\ \A e \in db.events : e.value.req = e.key
      /\ \A e, f \in db.events : e.key = f.key => e = f
      /\ T = {InTime(e) : e \in db.events}
  BY DEF TimelineInv, Paired, Tables
<1>2. IsFiniteSet(T)
  <2> DEFINE rowOf == [e \in db.events |-> InTime(e)]
  <2>1. rowOf \in Surjection(db.events, T)
    BY <1>1 DEF Surjection
  <2> QED BY <1>1, <2>1, FS_Surjection
<1>3. ASSUME NEW x \in T
      PROVE  /\ x.key[1] \in Nat /\ x.key[2] \in Requests /\ RequestOrder[x.key[2]] \in Nat
             /\ x.value.req = x.key[2]
             /\ \E e \in db.events : x = InTime(e) /\ e.value = x.value
  <2>1. PICK e \in db.events : x = InTime(e)
    BY <1>1
  <2>2. x.key = <<stamp[e.key], e.key>> /\ x.value = e.value
    BY <2>1 DEF InTime
  <2>3. x.key \in Times \X Requests
    BY <1>1
  <2>4. x.key[1] \in Nat /\ x.key[2] \in Requests /\ x.key[2] = e.key
    <3>1. x.key[1] \in Times /\ x.key[2] \in Requests
      BY <2>3
    <3>2. x.key[2] = e.key
      BY <2>2
    <3> QED BY <3>1, <3>2, TimelineAssumption
  <2>5. RequestOrder[x.key[2]] \in Nat
    BY <2>4, TimelineAssumption
  <2> QED BY <1>1, <2>1, <2>2, <2>4, <2>5
<1>4. \A x, y \in T : x.value.req = y.value.req => x = y
  <2> SUFFICES ASSUME NEW x \in T, NEW y \in T, x.value.req = y.value.req PROVE x = y
    OBVIOUS
  <2>1. PICK e \in db.events : x = InTime(e) /\ e.value = x.value
    BY <1>3
  <2>2. PICK f \in db.events : y = InTime(f) /\ f.value = y.value
    BY <1>3
  <2> QED BY <1>1, <2>1, <2>2
<1>5. Orders(R, T)
  <2>1. \A x, y \in T : <<x, y>> \in R <=> Newer(x, y)
    OBVIOUS
  <2> HIDE DEF R, T
  <2>2. ASSUME NEW x \in T PROVE <<x, x>> \notin R
    BY <1>3, <2>1 DEF Newer
  <2>3. ASSUME NEW x \in T, NEW y \in T, x # y PROVE <<x, y>> \in R \/ <<y, x>> \in R
    <3>1. x.key[2] # y.key[2]
      BY <1>3, <1>4, <2>3
    <3>2. RequestOrder[x.key[2]] # RequestOrder[y.key[2]]
      BY <1>3, <3>1, TimelineAssumption
    <3> QED BY <1>3, <2>1, <3>2 DEF Newer
  <2>4. ASSUME NEW x \in T, NEW y \in T, NEW z \in T, <<x, y>> \in R, <<y, z>> \in R PROVE <<x, z>> \in R
    BY <1>3, <2>1, <2>4 DEF Newer
  <2> QED BY <2>2, <2>3, <2>4 DEF Orders
<1> HIDE DEF T, R
<1>6. /\ list \in Seq(T) /\ Len(list) = Cardinality(T) /\ Cardinality(T) \in Nat
      /\ \A j, k \in DOMAIN list : list[j] = list[k] => j = k
      /\ \A x \in T : \E j \in DOMAIN list : list[j] = x
  BY <1>2, <1>5, ListedFacts, FS_CardinalityType
<1>7. all = [i \in 1..(IF Len(list) < Cardinality(T) THEN Len(list) ELSE Cardinality(T)) |-> list[i].value]
  BY DEF Recent, T, R
<1> HIDE DEF list, all
<1>8. /\ DOMAIN all = DOMAIN list
      /\ \A i \in DOMAIN list : all[i] = list[i].value /\ list[i] \in T
  BY <1>6, <1>7
<1>9. Range(all) = {e.value : e \in db.events}
  <2>1. ASSUME NEW i \in DOMAIN all PROVE all[i] \in {e.value : e \in db.events}
    BY <1>3, <1>8
  <2>2. ASSUME NEW e \in db.events PROVE e.value \in Range(all)
    <3>1. InTime(e) \in T /\ InTime(e).value = e.value
      BY <1>1 DEF InTime
    <3>2. PICK j \in DOMAIN list : list[j] = InTime(e)
      BY <1>6, <3>1
    <3> QED BY <1>8, <3>1, <3>2 DEF Range
  <2> QED BY <2>1, <2>2 DEF Range
<1>10. \A i, j \in DOMAIN all : all[i].req = all[j].req => i = j
  BY <1>4, <1>6, <1>8
<1> QED BY <1>9, <1>10 DEF RecentAgreesWithExport, all, T

\* The inductive invariant of the timeline: events are appended one by one, every
\* event of a request with the request's first timestamp, and in memory and on the
\* disk the two tables have the same rows.
THEOREM TimelineInvariant == Spec => []TimelineInv
BY TimelineInvInit, TimelineInvKept, PTL DEF Spec

\* recent() shows what the export writes, no request twice, and a row is of the
\* last event of its request that was appended.
THEOREM RowsAreCurrent == Spec => []TimelineIsCurrent
<1>1. TimelineInv => TimelineIsCurrent
  BY RecentFacts DEF TimelineInv, TimelineIsCurrent
<1> QED BY <1>1, TimelineInvariant, PTL

\* The types of the variables; the events counted are among those received.
THEOREM TimelineTypes == Spec => []TypeOK
<1>1. ASSUME TimelineInv PROVE TypeOK
  <2>1. count \in 0..MaxEvents
    BY <1>1, TimelineFacts, TimelineAssumption DEF TimelineInv, OneByOne
  <2> QED BY <1>1, <2>1, TimelineFacts DEF TimelineInv, OneByOne, Stamped, Paired, TypeOK, EventRecord
<1> QED BY <1>1, TimelineInvariant, PTL
=============================================================================
