--------------------------- MODULE ProxyLifecycle ---------------------------
(***************************************************************************)
(* Starting and stopping the proxy and the browser that uses it            *)
(* (src-tauri/src/mitm_proxy.rs, chromium_launcher.rs; called from          *)
(* start_proxy, stop_proxy, launch_chromium and internal_start_services in  *)
(* commands.rs).                                                            *)
(*                                                                         *)
(* `task' is the slot with the JoinHandle of the listener, `chromium' the   *)
(* one with the launcher.  Each slot has its lock, but none is held from    *)
(* the check of a slot to its assignment: the steps below are what happens  *)
(* between two awaits.                                                      *)
(*                                                                         *)
(* Dropping a JoinHandle, or a launcher with its child, ends neither the    *)
(* listener's task nor the process.  An aborted task releases its socket    *)
(* when the runtime drops it, some time after the abort.  The operating     *)
(* system gives a port to one listener at a time.  These three are external. *)
(***************************************************************************)
EXTENDS Naturals, Sequences, FiniteSets

CONSTANTS
    Callers,        \* tasks that call start
    Ports,          \* ports bind_address may name
    MaxListeners,   \* bound: listeners spawned
    MaxStarting,    \* bound: calls of start that run at one time
    MaxBrowsers,    \* bound: Chromium processes launched
    NoTask,         \* the empty slot of the listener
    NoBrowser       \* the empty slot of the launcher

ASSUME LifecycleAssumption ==
    /\ IsFiniteSet(Callers)
    /\ MaxListeners \in Nat
    /\ MaxStarting \in Nat
    /\ MaxBrowsers \in Nat
    /\ NoTask \notin Nat
    /\ NoBrowser \notin Nat

VARIABLES
    caller,     \* where each start is
    spawned,    \* the listener a start has spawned and not stored yet
    listeners,  \* the listeners ever spawned: [port, state]
    task,       \* the stored listener
    port,       \* the port of the configuration
    ca,         \* whether the CA manager holds a certificate
    stopping,   \* stop() is between its two slots
    browsers,   \* the Chromium processes ever spawned, TRUE while alive
    launching,  \* the process launch_chromium has spawned and not stored yet
    chromium    \* the stored launcher's process

vars == <<caller, spawned, listeners, task, port, ca, stopping, browsers, launching, chromium>>

start == <<caller, spawned>>
browser == <<browsers, launching, chromium>>

Init ==
    /\ caller = [c \in Callers |-> "idle"]
    /\ spawned = [c \in Callers |-> NoTask]
    /\ listeners = <<>>
    /\ task = NoTask
    /\ port \in Ports
    /\ ca = FALSE
    /\ stopping = FALSE
    /\ browsers = <<>>
    /\ launching = NoBrowser
    /\ chromium = NoBrowser
-----------------------------------------------------------------------------
(* start(). *)

Starting == {c \in Callers : caller[c] # "idle"}

Goto(c, from, to) ==
    /\ caller[c] = from
    /\ caller' = [caller EXCEPT ![c] = to]

\* "already running" returns at once and is not an action.
Check(c) ==
    /\ Cardinality(Starting) < MaxStarting
    /\ task = NoTask
    /\ Goto(c, "idle", "certifying")
    /\ UNCHANGED <<spawned, listeners, task, port, ca, stopping, browser>>

\* Under the write lock of ca: a certificate is loaded or generated if there is
\* none, or the start fails.
Certify(c) ==
    /\ \/ Goto(c, "certifying", "authorizing") /\ ca' = TRUE
       \/ ~ca /\ Goto(c, "certifying", "idle") /\ UNCHANGED ca
    /\ UNCHANGED <<spawned, listeners, task, port, stopping, browser>>

\* The authority is made, under the read lock of ca; without a certificate
\* (regenerate_ca failed meanwhile) start fails.
Authorize(c) ==
    /\ Goto(c, "authorizing", IF ca THEN "building" ELSE "idle")
    /\ UNCHANGED <<spawned, listeners, task, port, ca, stopping, browser>>

\* bind_address does not parse, or the proxy cannot be built: start fails and
\* has spawned nothing.
BuildFails(c) ==
    /\ Goto(c, "building", "idle")
    /\ UNCHANGED <<spawned, listeners, task, port, ca, stopping, browser>>

\* The configuration is read, the proxy built and its task spawned.
Spawn(c) ==
    /\ Len(listeners) < MaxListeners
    /\ Goto(c, "building", "storing")
    /\ listeners' = Append(listeners, [port |-> port, state |-> "spawned"])
    /\ spawned' = [spawned EXCEPT ![c] = Len(listeners) + 1]
    /\ UNCHANGED <<task, port, ca, stopping, browser>>

\* *task.write() = Some(handle): the handle that was there is dropped.
Store(c) ==
    /\ Goto(c, "storing", "idle")
    /\ task' = spawned[c]
    /\ spawned' = [spawned EXCEPT ![c] = NoTask]
    /\ UNCHANGED <<listeners, port, ca, stopping, browser>>
-----------------------------------------------------------------------------
(* The listener's task. *)

Become(l, to) == listeners' = [listeners EXCEPT ![l].state = to]

\* A socket is taken from its bind until the task is dropped.
Taken(p) == \E l \in DOMAIN listeners :
                listeners[l].port = p /\ listeners[l].state \in {"bound", "aborting"}

\* proxy.start(): the port is bound, or the task ends with a logged error; the
\* slot keeps its handle.
Bind(l) ==
    /\ listeners[l].state = "spawned"
    /\ Become(l, IF Taken(listeners[l].port) THEN "failed" ELSE "bound")
    /\ UNCHANGED <<start, task, port, ca, stopping, browser>>

\* External: the runtime drops an aborted task, its socket with it.
Ended(l) ==
    /\ listeners[l].state = "aborting"
    /\ Become(l, "aborted")
    /\ UNCHANGED <<start, task, port, ca, stopping, browser>>
-----------------------------------------------------------------------------
(* stop(). *)

\* For the mutant of Stop: the handle is taken and dropped without an abort.
StopWithoutAbort ==
    /\ ~stopping
    /\ stopping' = TRUE
    /\ task' = NoTask
    /\ UNCHANGED <<start, listeners, port, ca, browser>>

\* task.take() and abort: one that has not bound yet never will.
Stop ==
    /\ ~stopping
    /\ stopping' = TRUE
    /\ task' = NoTask
    /\ IF task # NoTask /\ listeners[task].state \in {"spawned", "bound"}
         THEN Become(task, IF listeners[task].state = "bound" THEN "aborting" ELSE "aborted")
         ELSE UNCHANGED listeners
    /\ UNCHANGED <<start, port, ca, browser>>

\* chromium.take() and kill, under the slot's write lock.
KillStored ==
    /\ chromium' = NoBrowser
    /\ browsers' = IF chromium = NoBrowser THEN browsers
                   ELSE [browsers EXCEPT ![chromium] = FALSE]
    /\ UNCHANGED launching

StopBrowser ==
    /\ stopping
    /\ stopping' = FALSE
    /\ KillStored
    /\ UNCHANGED <<start, listeners, task, port, ca>>

\* kill_chromium.
KillChromium ==
    /\ chromium # NoBrowser
    /\ KillStored
    /\ UNCHANGED <<start, listeners, task, port, ca, stopping>>
-----------------------------------------------------------------------------
(* launch_chromium, set_config, regenerate_ca. *)

\* The process is spawned; its launcher is stored in a later step.  (A launch
\* that fails, or a disabled launcher, leaves no process behind.)
Launch ==
    /\ launching = NoBrowser
    /\ Len(browsers) < MaxBrowsers
    /\ browsers' = Append(browsers, TRUE)
    /\ launching' = Len(browsers) + 1
    /\ UNCHANGED <<start, listeners, task, port, ca, stopping, chromium>>

\* *chromium.write() = Some(launcher): the launcher that was there is dropped.
StoreBrowser ==
    /\ launching # NoBrowser
    /\ chromium' = launching
    /\ launching' = NoBrowser
    /\ UNCHANGED <<start, listeners, task, port, ca, stopping, browsers>>

SetConfig(p) ==
    /\ port' = p
    /\ UNCHANGED <<start, listeners, task, ca, stopping, browser>>

\* regenerate_ca under the write lock of ca: a fresh manager, then initialize,
\* which may fail and leave it without a certificate.
RegenerateCa ==
    /\ ca' \in BOOLEAN
    /\ UNCHANGED <<start, listeners, task, port, stopping, browser>>

\* The process ends, its listeners with it, and starts again with the port of
\* the settings file.  A Chromium it launched goes on running and is forgotten.
Crash ==
    /\ caller' = [c \in Callers |-> "idle"]
    /\ spawned' = [c \in Callers |-> NoTask]
    /\ listeners' = <<>>
    /\ task' = NoTask
    /\ port' \in Ports
    /\ ca' = FALSE
    /\ stopping' = FALSE
    /\ launching' = NoBrowser
    /\ chromium' = NoBrowser
    /\ UNCHANGED browsers
-----------------------------------------------------------------------------
Next ==
    \/ \E c \in Callers :
          \/ Check(c) \/ Certify(c) \/ Authorize(c)
          \/ BuildFails(c) \/ Spawn(c) \/ Store(c)
    \/ \E l \in DOMAIN listeners : Bind(l) \/ Ended(l)
    \/ Stop \/ StopBrowser \/ KillChromium
    \/ Launch \/ StoreBrowser
    \/ \E p \in Ports : SetConfig(p)
    \/ RegenerateCa \/ Crash

Spec == Init /\ [][Next]_vars
-----------------------------------------------------------------------------
\* The types of the variables.
TypeOK ==
    /\ caller \in [Callers -> {"idle", "certifying", "authorizing", "building", "storing"}]
    /\ spawned \in [Callers -> DOMAIN listeners \union {NoTask}]
    /\ listeners \in Seq([port : Ports,
                          state : {"spawned", "bound", "failed", "aborting", "aborted"}])
    /\ task \in DOMAIN listeners \union {NoTask}
    /\ port \in Ports
    /\ ca \in BOOLEAN
    /\ stopping \in BOOLEAN
    /\ browsers \in Seq(BOOLEAN)
    /\ launching \in DOMAIN browsers \union {NoBrowser}
    /\ chromium \in DOMAIN browsers \union {NoBrowser}

\* Listeners that accept connections or will.
Live == {l \in DOMAIN listeners : listeners[l].state \in {"spawned", "bound"}}

\* The listeners that stop() reaches, or will reach once a start has stored.
Reachable == ({task} \union {spawned[c] : c \in Callers}) \ {NoTask}

\* While starts do not overlap, whatever stop, set_config and regenerate_ca do
\* in between: no listener runs that the slot does not lead to, so at most one
\* runs, and an empty slot with no start under way means that none does.
SerialStartsKeepTrack ==
    MaxStarting <= 1 => Live \subseteq Reachable /\ Cardinality(Live) <= 1

\* And then the only thing a new listener can lose its port to is the one that
\* the last stop aborted and the runtime has not dropped yet.
BindLosesToAborted ==
    [][MaxStarting <= 1 =>
         \A l \in DOMAIN listeners \intersect DOMAIN listeners' :
             listeners'[l].state = "failed" /\ listeners[l].state # "failed" =>
                 \E m \in DOMAIN listeners :
                     listeners[m].port = listeners[l].port /\ listeners[m].state = "aborting"]_vars

\* The slot of the launcher never names a process that was killed.
StoredBrowserLives == chromium # NoBrowser => browsers[chromium]

\* NOT what the code does: start is "Idempotent" (mitm_proxy.rs:231): however
\* many starts are called, one listener runs.
StartIsIdempotent == Cardinality(Live) <= 1
=============================================================================
