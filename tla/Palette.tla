------------------------------- MODULE Palette -------------------------------
(***************************************************************************)
(* The command palette (components/command-palette/CommandPalette.tsx) and  *)
(* what its commands change in the store (stores/appStore.ts): the mode of  *)
(* the application and of the current workspace, and the sidebar; with the  *)
(* workspaces of the sidebar (components/sidebar/Sidebar.tsx).              *)
(*                                                                         *)
(* A palette whose parent passes `isOpen' is open when the parent says so;  *)
(* App.tsx passes one, and never sets it.                                   *)
(***************************************************************************)
EXTENDS Integers, Sequences, FiniteSetsExt, SequencesExt

CONSTANTS
    Queries,        \* queries typed, each with the commands it finds: a function
    MaxWorkspaces   \* bound: workspaces made

Modes == {"zen", "telemetry", "focus", "interrogation"}
NoWorkspace == 0
NoQuery == ""

\* builtinCommands, in their order; most do nothing yet.
Commands ==
    <<"file.new", "file.open", "file.save", "file.save-all", "edit.find", "edit.replace",
      "view.toggle-sidebar", "view.zen", "view.telemetry", "view.focus", "view.interrogation",
      "devtools.open", "proxy.start", "proxy.stop", "proxy.launch-chromium", "sast.scan",
      "wasm.run", "workspace.new", "settings.open", "help.shortcuts">>

ASSUME PaletteAssumption == \A q \in DOMAIN Queries : Queries[q] \in Seq(ToSet(Commands))

ModeOf(command) ==
    CASE command = "view.zen" -> {"zen"}
      [] command = "view.telemetry" -> {"telemetry"}
      [] command = "view.focus" -> {"focus"}
      [] command = "view.interrogation" -> {"interrogation"}
      [] OTHER -> {}

VARIABLES
    controlled,     \* the parent passes isOpen
    internalOpen, query, selectedIndex,
    appMode, sidebarVisible,
    workspaceModes, \* the mode of each workspace, in the order they were made
    currentWorkspace,
    picked, ran     \* history: the command pressed or clicked last; the one run

uiVars == <<internalOpen, query, selectedIndex>>
storeVars == <<appMode, sidebarVisible, workspaceModes, currentWorkspace>>
palVars == <<controlled, uiVars, storeVars, picked, ran>>

NoCommand == "none"

PalInit ==
    /\ controlled \in BOOLEAN
    /\ internalOpen = FALSE /\ query = NoQuery /\ selectedIndex = 0
    /\ appMode = "zen" /\ sidebarVisible = TRUE
    /\ workspaceModes = <<>> /\ currentWorkspace = NoWorkspace
    /\ picked = NoCommand /\ ran = NoCommand

IsOpen == ~controlled /\ internalOpen

\* filteredCommands; an empty query finds them all.
Filtered(q) == IF q = NoQuery THEN Commands ELSE Queries[q]
-----------------------------------------------------------------------------
\* Ctrl+K, Ctrl+Shift+P.
OpenPalette ==
    /\ internalOpen' = TRUE /\ query' = NoQuery /\ selectedIndex' = 0
    /\ UNCHANGED <<controlled, storeVars, picked, ran>>

\* Escape, or a click beside it; the index stays.
ClosePalette ==
    /\ IsOpen
    /\ internalOpen' = FALSE /\ query' = NoQuery
    /\ UNCHANGED <<controlled, selectedIndex, storeVars, picked, ran>>

TypeQuery(q) ==
    /\ IsOpen
    /\ query' = q /\ selectedIndex' = 0
    /\ UNCHANGED <<controlled, internalOpen, storeVars, picked, ran>>

Highlight(i) ==
    /\ IsOpen
    /\ selectedIndex' = i
    /\ UNCHANGED <<controlled, internalOpen, query, storeVars, picked, ran>>

\* Down an empty list the index is -1.
ArrowDown == Highlight(Min({selectedIndex + 1, Len(Filtered(query)) - 1}))
ArrowUp == Highlight(Max({selectedIndex - 1, 0}))
Hover == \E i \in DOMAIN Filtered(query) : Highlight(i - 1)

\* setMode: the mode is the current workspace's, too.
SetMode(mode) ==
    /\ appMode' = mode
    /\ workspaceModes' = [w \in DOMAIN workspaceModes |->
                            IF w = currentWorkspace THEN mode ELSE workspaceModes[w]]
    /\ UNCHANGED <<sidebarVisible, currentWorkspace>>

Act(command) ==
    \/ \E mode \in ModeOf(command) : SetMode(mode)
    \/ /\ command = "view.toggle-sidebar"
       /\ sidebarVisible' = ~sidebarVisible
       /\ UNCHANGED <<appMode, workspaceModes, currentWorkspace>>
    \/ /\ ModeOf(command) = {} /\ command # "view.toggle-sidebar"
       /\ UNCHANGED storeVars

\* executeSelected with the index i.
Execute(i) ==
    LET cmds == Filtered(query) IN
    /\ IF i + 1 \in DOMAIN cmds
       THEN /\ Act(cmds[i + 1])
            /\ ran' = cmds[i + 1]
            /\ internalOpen' = FALSE /\ query' = NoQuery
       ELSE UNCHANGED <<storeVars, ran, internalOpen, query>>
    /\ selectedIndex' = i
    /\ UNCHANGED controlled

Enter ==
    /\ IsOpen
    /\ picked' = IF selectedIndex + 1 \in DOMAIN Filtered(query)
                 THEN Filtered(query)[selectedIndex + 1] ELSE picked
    /\ Execute(selectedIndex)

\* For the mutant of Click: what is highlighted is run before the index is set.
ClickRunsFirst(i) ==
    /\ IsOpen
    /\ picked' = Filtered(query)[i]
    /\ Execute(selectedIndex)

Click(i) ==
    /\ IsOpen
    /\ picked' = Filtered(query)[i]
    /\ Execute(i - 1)
-----------------------------------------------------------------------------
(* The workspaces of the sidebar; nothing removes one. *)

NewWorkspace ==
    /\ Len(workspaceModes) < MaxWorkspaces
    /\ workspaceModes' = Append(workspaceModes, "zen")
    /\ currentWorkspace' = Len(workspaceModes) + 1
    /\ UNCHANGED <<controlled, uiVars, appMode, sidebarVisible, picked, ran>>

ChooseWorkspace(w) ==
    /\ currentWorkspace' = w
    /\ UNCHANGED <<controlled, uiVars, appMode, sidebarVisible, workspaceModes, picked, ran>>

PalNext ==
    \/ OpenPalette \/ ClosePalette
    \/ \E q \in DOMAIN Queries : TypeQuery(q)
    \/ ArrowDown \/ ArrowUp \/ Hover \/ Enter
    \/ \E i \in DOMAIN Filtered(query) : Click(i)
    \/ NewWorkspace
    \/ \E w \in DOMAIN workspaceModes : ChooseWorkspace(w)

PalSpec == PalInit /\ [][PalNext]_palVars
-----------------------------------------------------------------------------
\* Whenever the open palette lists something, one of the listed commands is
\* highlighted, whatever was typed, arrowed and pointed at before.
SelectionIsListed ==
    IsOpen /\ Filtered(query) # <<>> => selectedIndex \in 0..(Len(Filtered(query)) - 1)

\* A command that was clicked or entered is the one that is run.
PickedRuns == ran = picked

\* What is highlighted can be seen, and what is picked is run.
SelectionIsRun == SelectionIsListed /\ PickedRuns
=============================================================================
