------------------------------- MODULE Windows -------------------------------
(***************************************************************************)
(* The windows and tabs of the kernel's renderer (SimpleRendererEngine in   *)
(* packages/frontend/src/kernel/KernelBootstrap.ts), and the main window    *)
(* that start() makes and stop() closes.                                    *)
(*                                                                         *)
(* An id is the caller's or, if it gives none, the time in milliseconds, so *)
(* two windows, or two tabs, made with one id or in one moment share it, and *)
(* the later one takes the earlier one's place in the Map.  A window or a   *)
(* tab object is a number, in the order they are made.                      *)
(***************************************************************************)
EXTENDS Naturals, Sequences, FiniteSets, SequencesExt

CONSTANTS
    MaxWindows,     \* bound: windows made
    MaxTabs,        \* bound: tabs made
    MaxTime,        \* bound: moments
    GivenIds,       \* ids that callers give
    MaxOverlap      \* bound: starts, and stops, in progress at one time

ASSUME WinAssumption ==
    /\ MaxTime \in Nat \ {0}
    /\ GivenIds \subseteq Nat \ {0}

WinIds == 1..MaxTime \union GivenIds

VARIABLES
    now,            \* the time
    windows,        \* the windows made: [id, tabs, active]
    tabs,           \* the tabs made: [id, windowId]
    windowMap,      \* per id, the window registered under it, or 0
    tabMap,         \* per id, the tab registered under it, or 0
    closed,         \* history: the windows and the tabs close() was called on
    kernel          \* the kernel: started, its main window, the starts that load
                    \* plugins, the windows made by those past that, the stops in
                    \* progress, and whether two calls have been at one time

winVars == <<now, windows, tabs, windowMap, tabMap, closed, kernel>>

WinInit ==
    /\ now = 1
    /\ windows = <<>>
    /\ tabs = <<>>
    /\ windowMap = [id \in WinIds |-> 0]
    /\ tabMap = [id \in WinIds |-> 0]
    /\ closed = [windows |-> {}, tabs |-> {}]
    /\ kernel = [started |-> FALSE, main |-> 0, starting |-> 0, made |-> <<>>, stopping |-> 0,
                 mixed |-> FALSE]
-----------------------------------------------------------------------------
Tick == now < MaxTime /\ now' = now + 1 /\ UNCHANGED <<windows, tabs, windowMap, tabMap, closed, kernel>>

\* The renderer's createWindow(), which the kernel's calls with its defaults.
NewWindow(id) ==
    /\ Len(windows) < MaxWindows
    /\ windows' = Append(windows, [id |-> id, tabs |-> <<>>, active |-> 0])
    /\ windowMap' = [windowMap EXCEPT ![id] = Len(windows) + 1]

\* close() of a window's handle: what is under its id goes.
Unregistered(w) == [windowMap EXCEPT ![windows[w].id] = 0]

CreateWindow(id) == NewWindow(id) /\ UNCHANGED <<now, tabs, tabMap, closed, kernel>>

CloseWindow(w) ==
    /\ windowMap' = Unregistered(w)
    /\ closed' = [closed EXCEPT !.windows = @ \union {w}]
    /\ UNCHANGED <<now, windows, tabs, tabMap, kernel>>

\* A window lists the tab; its first one is active.
WithTab(window, t) == [window EXCEPT !.tabs = Append(@, t), !.active = IF @ = 0 THEN t ELSE @]

\* The tab is made even for a window that is not there.
CreateTab(windowId, id) ==
    LET w == windowMap[windowId] IN
    /\ Len(tabs) < MaxTabs
    /\ tabs' = Append(tabs, [id |-> id, windowId |-> windowId])
    /\ tabMap' = [tabMap EXCEPT ![id] = Len(tabs) + 1]
    /\ windows' = IF w = 0 THEN windows
                  ELSE [windows EXCEPT ![w] = WithTab(@, Len(tabs) + 1)]
    /\ UNCHANGED <<now, windowMap, closed, kernel>>

\* A tab leaves the Map; its window goes on listing it, as the active one too.
CloseTab(t) ==
    /\ tabMap' = [tabMap EXCEPT ![tabs[t].id] = 0]
    /\ closed' = [closed EXCEPT !.tabs = @ \union {t}]
    /\ UNCHANGED <<now, windows, tabs, windowMap, kernel>>
-----------------------------------------------------------------------------
(* The kernel's start() and stop(), about their awaits. *)

\* Starts that have not assigned their window yet.
Starts == kernel.starting + Len(kernel.made)

Busy == Starts + kernel.stopping > 0

KernelStart ==
    /\ ~kernel.started
    /\ Starts < MaxOverlap
    /\ kernel' = [kernel EXCEPT !.started = TRUE, !.starting = @ + 1, !.mixed = @ \/ Busy]
    /\ UNCHANGED <<now, windows, tabs, windowMap, tabMap, closed>>

\* The plugins are loaded; the main window is made and registered.
KernelMakesWindow ==
    /\ kernel.starting > 0
    /\ NewWindow(now)
    /\ kernel' = [kernel EXCEPT !.starting = @ - 1, !.made = Append(@, Len(windows) + 1)]
    /\ UNCHANGED <<now, tabs, tabMap, closed>>

\* The awaited createWindow() resolves, in the order of the calls: the kernel
\* has its main window.
KernelStarted ==
    /\ kernel.made # <<>>
    /\ kernel' = [kernel EXCEPT !.made = Tail(@), !.main = Head(kernel.made)]
    /\ UNCHANGED <<now, windows, tabs, windowMap, tabMap, closed>>

KernelStop ==
    /\ kernel.started
    /\ kernel.stopping < MaxOverlap
    /\ kernel' = [kernel EXCEPT !.stopping = @ + 1, !.mixed = @ \/ Busy]
    /\ UNCHANGED <<now, windows, tabs, windowMap, tabMap, closed>>

\* For the mutant of KernelStopped: the window is left to its caller.
KernelStoppedOnly ==
    /\ kernel.stopping > 0
    /\ kernel' = [kernel EXCEPT !.stopping = @ - 1, !.started = FALSE]
    /\ UNCHANGED <<now, windows, tabs, windowMap, tabMap, closed>>

\* The plugins are disabled; the main window, whichever it is now, is closed.
KernelStopped ==
    /\ kernel.stopping > 0
    /\ kernel' = [kernel EXCEPT !.stopping = @ - 1, !.started = FALSE]
    /\ IF kernel.main = 0 THEN UNCHANGED <<windowMap, closed>>
       ELSE /\ windowMap' = Unregistered(kernel.main)
            /\ closed' = [closed EXCEPT !.windows = @ \union {kernel.main}]
    /\ UNCHANGED <<now, windows, tabs, tabMap>>

\* A plugin's disable() rejects, and stop() with it: the kernel stays started,
\* its window open.
KernelStopFails ==
    /\ kernel.stopping > 0
    /\ kernel' = [kernel EXCEPT !.stopping = @ - 1]
    /\ UNCHANGED <<now, windows, tabs, windowMap, tabMap, closed>>

WinNext ==
    \/ Tick
    \/ \E id \in {now} \union GivenIds : CreateWindow(id)
    \/ \E w \in DOMAIN windows : CloseWindow(w)
    \/ \E windowId \in WinIds, id \in {now} \union GivenIds : CreateTab(windowId, id)
    \/ \E t \in DOMAIN tabs : CloseTab(t)
    \/ KernelStart \/ KernelMakesWindow \/ KernelStarted
    \/ KernelStop \/ KernelStopped \/ KernelStopFails

WinSpec == WinInit /\ [][WinNext]_winVars
-----------------------------------------------------------------------------
AloneInId(made, x) == \A y \in DOMAIN made : made[y].id = made[x].id => y = x

\* The records agree: what is registered is registered under its own id, and
\* a window lists only tabs made for its id, its active one being the first.
WinTypeOK ==
    /\ \A id \in WinIds : windowMap[id] # 0 => windows[windowMap[id]].id = id
    /\ \A id \in WinIds : tabMap[id] # 0 => tabs[tabMap[id]].id = id
    /\ \A w \in DOMAIN windows : LET own == windows[w].tabs IN
          /\ \A i \in DOMAIN own : tabs[own[i]].windowId = windows[w].id
          /\ windows[w].active = IF own = <<>> THEN 0 ELSE Head(own)

\* A window that shares its id with no other is found by its id until its
\* own close(), and not after it: neither a start or a stop of the kernel nor
\* anything another handle does takes its place.
WindowIsFound ==
    \A w \in DOMAIN windows : AloneInId(windows, w) =>
        (windowMap[windows[w].id] = w <=> w \notin closed.windows)

\* As long as no start or stop began while another was under way, a stopped
\* kernel's main window is not registered, whatever else has its id.
StoppedHasNoMain ==
    ~kernel.mixed /\ ~kernel.started /\ kernel.main # 0 =>
        windowMap[windows[kernel.main].id] # kernel.main

\* The registered windows are those that are open.
OpenAreRegistered == WindowIsFound /\ StoppedHasNoMain
=============================================================================
