------------------------------ MODULE AppLocks ------------------------------
(***************************************************************************)
(* The locks of the Rust backend, and the order in which the Tauri commands *)
(* (src-tauri/src/commands.rs), the methods of MITMProxyEngine they call    *)
(* (mitm_proxy.rs), AppState's persist functions (state.rs) and the rules   *)
(* engine take them.                                                        *)
(*                                                                         *)
(* A command is the sequence of its lock operations: a guard that a `let'  *)
(* binds, or a temporary of the function's last expression, is kept until   *)
(* the command returns; a temporary of another statement is dropped at the  *)
(* statement's end.  Everything else a command does (file and network I/O   *)
(* included) takes time between two of these operations, no more.           *)
(*                                                                         *)
(* tokio's RwLock is external: requests are served in the order they come,  *)
(* so a reader waits behind a writer that waits.  The getters that copy one *)
(* value under one lock have no script of their own, but for one per lock   *)
(* of AppState.                                                             *)
(***************************************************************************)
EXTENDS Naturals, Sequences, FiniteSets

CONSTANTS
    Tasks,      \* tasks of the runtime, each running one command at a time
    Commands,   \* the commands that are called
    NoCommand   \* a task that runs none

VARIABLES
    running,    \* the command each task runs
    todo,       \* the lock operations it has left
    holders,    \* per lock, the tasks that hold it and how
    queue       \* per lock, the requests that wait, first come first served

vars == <<running, todo, holders, queue>>

Locks == {"ui", "workspace", "openFiles", "settings",
          "config", "ca", "stats", "task", "chromium", "history", "paused", "pending",
          "rules", "compiled"}

Read(l) == <<[do |-> "read", lock |-> l]>>
Write(l) == <<[do |-> "write", lock |-> l]>>
Drop(l) == <<[do |-> "drop", lock |-> l]>>

\* A guard that lives for one statement.
ReadOnce(l) == Read(l) \o Drop(l)
WriteOnce(l) == Write(l) \o Drop(l)
-----------------------------------------------------------------------------
(* AppState. *)

PersistUiState == Read("ui") \o Read("workspace") \o Drop("workspace") \o Drop("ui")
PersistWorkspace == ReadOnce("workspace")
PersistSettings == ReadOnce("settings")

SetMode == Write("ui") \o PersistUiState
ToggleSidebar == Write("ui") \o PersistUiState
OpenFile == Write("openFiles")
SaveFile == Write("openFiles")
CloseFile == Write("openFiles")
CreateWorkspace == Write("workspace") \o PersistWorkspace
SwitchWorkspace == Write("workspace") \o PersistWorkspace
UpdateSettings == Write("settings") \o PersistSettings

\* get_current_mode, get_sidebar_state; get_workspace_state; get_settings.
GetUi == Read("ui")
GetWorkspace == Read("workspace")
GetSettings == Read("settings")
-----------------------------------------------------------------------------
(* MITMProxyEngine. *)

Start == ReadOnce("task") \o WriteOnce("ca") \o ReadOnce("ca") \o ReadOnce("config")
         \o WriteOnce("task")
Stop == WriteOnce("task") \o Write("chromium")
Status == Read("config") \o Read("stats") \o Read("task") \o Read("ca")

SetConfig == Write("config")

RegenerateCa == Write("ca") \o ReadOnce("config")
InstallCa == ReadOnce("ca") \o Read("ca")
LaunchChromium == Read("config") \o ReadOnce("ca") \o Write("chromium")
KillChromium == Write("chromium")
Resume == ReadOnce("paused") \o WriteOnce("paused")
ClearHistory == WriteOnce("history") \o WriteOnce("stats")
EditRules == Write("rules") \o Write("compiled")
EvaluateRules == Read("rules") \o ReadOnce("compiled") \o Drop("rules")

\* start_proxy, and generate_ca, call twice into the engine.
StartProxy == Start \o Status

\* For the mutant of GenerateCa: the manager is read under regenerate_ca's guard.
GenerateCaNested == RegenerateCa \o ReadOnce("ca")
GenerateCa == RegenerateCa \o Drop("ca") \o ReadOnce("ca")

\* internal_start_services, with auto_start in the settings.
StartServices == ReadOnce("settings") \o Start \o Status

\* handle_request and handle_response, the Pause arm included.
HandleRequest ==
    ReadOnce("config") \o WriteOnce("stats") \o EvaluateRules
    \o ReadOnce("config") \o WriteOnce("paused") \o WriteOnce("paused")
    \o WriteOnce("pending") \o Write("history")
HandleResponse ==
    ReadOnce("config") \o WriteOnce("stats") \o WriteOnce("pending") \o EvaluateRules
    \o WriteOnce("stats") \o Write("history")
-----------------------------------------------------------------------------
UiScripts == [
    set_mode |-> SetMode, toggle_sidebar |-> ToggleSidebar,
    open_file |-> OpenFile, save_file |-> SaveFile, close_file |-> CloseFile,
    create_workspace |-> CreateWorkspace, switch_workspace |-> SwitchWorkspace,
    update_settings |-> UpdateSettings, get_current_mode |-> GetUi,
    get_workspace_state |-> GetWorkspace, get_settings |-> GetSettings]

ProxyScripts == [
    start_proxy |-> StartProxy, stop_proxy |-> Stop, get_proxy_status |-> Status,
    set_proxy_config |-> SetConfig, generate_ca |-> GenerateCa, install_ca |-> InstallCa,
    launch_chromium |-> LaunchChromium, kill_chromium |-> KillChromium,
    resume_proxy_request |-> Resume, clear_proxy_history |-> ClearHistory,
    edit_proxy_rules |-> EditRules, internal_start_services |-> StartServices,
    handle_request |-> HandleRequest, handle_response |-> HandleResponse]

Scripts == [c \in DOMAIN UiScripts \union DOMAIN ProxyScripts |->
                IF c \in DOMAIN UiScripts THEN UiScripts[c] ELSE ProxyScripts[c]]

ASSUME LocksAssumption ==
    /\ IsFiniteSet(Tasks)
    /\ Commands \subseteq DOMAIN Scripts
    /\ NoCommand \notin Commands
-----------------------------------------------------------------------------
Init ==
    /\ running = [t \in Tasks |-> NoCommand]
    /\ todo = [t \in Tasks |-> <<>>]
    /\ holders = [l \in Locks |-> {}]
    /\ queue = [l \in Locks |-> <<>>]

Waiting(t, l) == \E i \in DOMAIN queue[l] : queue[l][i].task = t
Waits(t) == \E l \in Locks : Waiting(t, l)

\* The frontend calls a command (or hudsucker a handler) on a free task.
Call(t, c) ==
    /\ running[t] = NoCommand
    /\ running' = [running EXCEPT ![t] = c]
    /\ todo' = [todo EXCEPT ![t] = Scripts[c]]
    /\ UNCHANGED <<holders, queue>>

\* .read().await or .write().await: the request is queued.
Request(t) ==
    /\ ~Waits(t)
    /\ todo[t] # <<>>
    /\ LET op == Head(todo[t]) IN
         /\ op.do \in {"read", "write"}
         /\ queue' = [queue EXCEPT ![op.lock] = Append(@, [task |-> t, mode |-> op.do])]
    /\ todo' = [todo EXCEPT ![t] = Tail(@)]
    /\ UNCHANGED <<running, holders>>

Compatible(l, mode) ==
    IF mode = "read" THEN \A h \in holders[l] : h.mode = "read" ELSE holders[l] = {}

\* External: the first request is granted when the holders allow it.
Grant(l) ==
    /\ queue[l] # <<>>
    /\ Compatible(l, Head(queue[l]).mode)
    /\ holders' = [holders EXCEPT ![l] = @ \union {Head(queue[l])}]
    /\ queue' = [queue EXCEPT ![l] = Tail(@)]
    /\ UNCHANGED <<running, todo>>

\* A guard is dropped before the end of the command.
Release(t) ==
    /\ ~Waits(t)
    /\ todo[t] # <<>>
    /\ Head(todo[t]).do = "drop"
    /\ holders' = [holders EXCEPT ![Head(todo[t]).lock] = {h \in @ : h.task # t}]
    /\ todo' = [todo EXCEPT ![t] = Tail(@)]
    /\ UNCHANGED <<running, queue>>

\* The command returns; the guards it still has are dropped.
Return(t) ==
    /\ ~Waits(t)
    /\ running[t] # NoCommand
    /\ todo[t] = <<>>
    /\ holders' = [l \in Locks |-> {h \in holders[l] : h.task # t}]
    /\ running' = [running EXCEPT ![t] = NoCommand]
    /\ UNCHANGED <<todo, queue>>

Run(t) == Request(t) \/ Release(t) \/ Return(t)

Next ==
    \/ \E t \in Tasks : Run(t) \/ \E c \in Commands : Call(t, c)
    \/ \E l \in Locks : Grant(l)

\* The runtime runs every task that can run and every lock serves its queue;
\* nobody has to call a command.
Fairness ==
    /\ \A t \in Tasks : WF_vars(Run(t))
    /\ \A l \in Locks : WF_vars(Grant(l))

Spec == Init /\ [][Next]_vars /\ Fairness
-----------------------------------------------------------------------------
Modes == {"read", "write"}
Holds == [task : Tasks, mode : Modes]
Operation == [do : Modes \union {"drop"}, lock : Locks]

\* The types of the variables.
TypeOK ==
    /\ running \in [Tasks -> Commands \union {NoCommand}]
    /\ todo \in [Tasks -> Seq(Operation)]
    /\ holders \in [Locks -> SUBSET Holds]
    /\ queue \in [Locks -> Seq(Holds)]

\* The tasks of S wait for each other: what each one asked for is held, in a
\* conflicting way, by one of them or asked for before by one of them.
Stuck(S) ==
    /\ S # {}
    /\ \A t \in S : \E l \in Locks : \E i \in DOMAIN queue[l] :
         /\ queue[l][i].task = t
         /\ \/ \E h \in holders[l] : h.task \in S /\ "write" \in {h.mode, queue[l][i].mode}
            \/ \E j \in 1..i-1 : queue[l][j].task \in S

\* Tasks that wait for each other in a circle, or for themselves, have one of two
\* causes: a command that keeps its write guard over a persist function that
\* reads the same lock; or a set_proxy_config that waits between the reads of
\* launch_chromium or get_proxy_status (config, then ca) and those of
\* generate_ca (ca, then config).
SelfBlocking ==
    {"set_mode", "toggle_sidebar", "create_workspace", "switch_workspace", "update_settings"}

BlocksHaveACause ==
    \A S \in SUBSET Tasks :
        Stuck(S) => \E t \in S : running[t] \in SelfBlocking \union {"set_proxy_config"}

\* NOT what the code does: "Modes persist with files/workspaces"
\* (MASTER.md:103), "Persist per workspace" (commands.rs:339): a set_mode gets
\* past its persist_ui_state.
ModesPersist ==
    \A t \in Tasks : running[t] = "set_mode" ~> running[t] # "set_mode"
=============================================================================
