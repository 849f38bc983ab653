---------------------------- MODULE PluginKernel ----------------------------
(***************************************************************************)
(* The frontend kernel's plugins: the registry and its manager              *)
(* (packages/frontend/src/kernel/PluginRegistry.ts), and the start and stop *)
(* of the kernel that loads the built-in ones (KernelBootstrap.ts).         *)
(*                                                                         *)
(* JavaScript runs one call at a time up to its next await.  A call is the  *)
(* list `todo' of the pieces it has still to run; between two of them, and  *)
(* while a plugin's hook runs, pieces of other calls do.  A piece that      *)
(* throws ends its call; the start of the kernel catches it and goes on     *)
(* with the next built-in plugin.                                           *)
(*                                                                         *)
(* A plugin object is a number; `made' has its manifest's id and its        *)
(* `enabled' field, which outlives its registration.                        *)
(***************************************************************************)
EXTENDS Naturals, Sequences, FiniteSets, SequencesExt, Ordering

CONSTANTS
    Ids,            \* plugin ids; the loader takes a plugin's path for its id
    Builtins,       \* BUILTIN_PLUGINS: a sequence of ids
    DependsOn,      \* per id, the ids its manifest requires
    Calls,          \* calls that may be in progress
    Operations,     \* the operations that are called
    HooksThrow,     \* whether hooks and imports may fail
    MaxObjects      \* bound: plugin objects made

AllOperations == {"install", "uninstall", "update", "enable", "disable", "reload",
                  "configure", "start", "stop"}

ASSUME PluginAssumption ==
    /\ Builtins \in Seq(Ids)
    /\ DependsOn \in [Ids -> SUBSET Ids]
    /\ Operations \subseteq AllOperations
    /\ HooksThrow \in BOOLEAN
    /\ MaxObjects \in Nat

VARIABLES
    plugins,    \* the Map from id to plugin, in insertion order: [id, obj]
    loadOrder,  \* the registry's second record of that order
    configured, \* the ids that have an entry in `config'
    made,       \* per plugin object: [id, enabled]
    call,       \* per call: [op, id, obj, todo, left]
    started,    \* the kernel's flag
    overlapped  \* two calls have been in progress at one time

vars == <<plugins, loadOrder, configured, made, call, started, overlapped>>

Idle == [op |-> "none", id |-> "none", obj |-> 0, todo |-> <<>>, left |-> <<>>]

Init ==
    /\ plugins = <<>>
    /\ loadOrder = <<>>
    /\ configured = {}
    /\ made = <<>>
    /\ call = [c \in Calls |-> Idle]
    /\ started = FALSE
    /\ overlapped = FALSE
-----------------------------------------------------------------------------
Registered(id) == \E i \in DOMAIN plugins : plugins[i].id = id

\* plugins.get(id): the registered object.
Get(id) == plugins[CHOOSE i \in DOMAIN plugins : plugins[i].id = id].obj

Enabled(id) == Registered(id) /\ made[Get(id)].enabled

\* The pieces of each operation of PluginManager.  Of register() there are
\* "resolve", "insert", "loaded"; of unregister() "unregister" to "delete".
Pieces(op) ==
    CASE op = "install"   -> <<"load", "resolve", "insert", "loaded", "enable", "hook">>
      [] op = "uninstall" -> <<"unregister", "hook", "unload", "delete">>
      [] op = "update"    -> <<"unregister", "hook", "unload", "delete",
                               "load", "resolve", "insert", "loaded", "enable", "hook">>
      [] op = "enable"    -> <<"enable", "hook">>
      [] op = "disable"   -> <<"disable", "hook">>
      [] op = "reload"    -> <<"reload", "hook", "loaded", "enable", "hook">>
      [] op = "configure" -> <<"configure", "hook">>

At(c, piece) == call[c].todo # <<>> /\ Head(call[c].todo) = piece

\* The piece is done, and the next n with it (an early return of a callee).
Pass(c, n) == call' = [call EXCEPT ![c].todo = SubSeq(@, n + 2, Len(@))]

\* The piece throws.
Throw(c) == call' = [call EXCEPT ![c] = IF @.op = "start" THEN [@ EXCEPT !.todo = <<>>] ELSE Idle]

\* A hook of the plugin resolves or rejects; the built-in plugins' hooks resolve.
Settle(c) == Pass(c, 0) \/ (HooksThrow /\ call[c].op # "start" /\ Throw(c))

SetEnabled(id, b) == made' = [made EXCEPT ![Get(id)].enabled = b]
-----------------------------------------------------------------------------
(* Calls. *)

\* A call comes in, while no other is in progress or while one is.
CallIn(c) ==
    /\ call[c] = Idle
    /\ overlapped' = (overlapped \/ \E d \in Calls : call[d] # Idle)

Begin(c, op, id) ==
    /\ CallIn(c)
    /\ call' = [call EXCEPT ![c] = [Idle EXCEPT !.op = op, !.id = id, !.todo = Pieces(op)]]
    /\ UNCHANGED <<plugins, loadOrder, configured, made, started>>

\* Nothing is left of a call of the manager.
End(c) ==
    /\ call[c].op \notin {"none", "start", "stop"}
    /\ call[c].todo = <<>>
    /\ call' = [call EXCEPT ![c] = Idle]
    /\ UNCHANGED <<plugins, loadOrder, configured, made, started, overlapped>>

\* load(): a new object for the id, which is the path; the start of the kernel
\* and install go on with that id, update with the one it was called with.
Load(c, path) ==
    /\ At(c, "load")
    /\ \/ /\ call[c].op # "update" => path = call[c].id
          /\ Len(made) < MaxObjects
          /\ made' = Append(made, [id |-> path, enabled |-> FALSE])
          /\ call' = [call EXCEPT ![c].obj = Len(made) + 1, ![c].todo = Tail(@)]
       \/ HooksThrow /\ call[c].op # "start" /\ Throw(c) /\ UNCHANGED made
    /\ UNCHANGED <<plugins, loadOrder, configured, started, overlapped>>

NewId(c) == made[call[c].obj].id

\* resolveDependencies: every required one is registered now.
Resolve(c) ==
    /\ At(c, "resolve")
    /\ IF \A d \in DependsOn[NewId(c)] : Registered(d) THEN Pass(c, 0) ELSE Throw(c)
    /\ UNCHANGED <<plugins, loadOrder, configured, made, started, overlapped>>

\* For the mutant of Insert: an id that is there is not refused.
InsertUnchecked(c) ==
    /\ At(c, "insert")
    /\ Pass(c, 0)
    /\ plugins' = Append(plugins, [id |-> NewId(c), obj |-> call[c].obj])
    /\ loadOrder' = Append(loadOrder, NewId(c))
    /\ UNCHANGED <<configured, made, started, overlapped>>

\* checkConflicts, the Map and the load order, with no await in between.
Insert(c) ==
    /\ At(c, "insert")
    /\ IF Registered(NewId(c))
         THEN Throw(c) /\ UNCHANGED <<plugins, loadOrder>>
         ELSE /\ Pass(c, 0)
              /\ plugins' = Append(plugins, [id |-> NewId(c), obj |-> call[c].obj])
              /\ loadOrder' = Append(loadOrder, NewId(c))
    /\ UNCHANGED <<configured, made, started, overlapped>>

\* onLoad, onUnload, and onEnable, onDisable or onConfigChange, settle.  A
\* plugin whose onLoad rejected stays registered.
Hook(c) ==
    /\ At(c, "loaded") \/ At(c, "unload") \/ At(c, "hook")
    /\ Settle(c)
    /\ UNCHANGED <<plugins, loadOrder, configured, made, started, overlapped>>

EnableStep(c) ==
    /\ At(c, "enable")
    /\ LET id == call[c].id IN
         IF ~Registered(id) \/ Enabled(id)
           THEN Pass(c, 1) /\ UNCHANGED made
           ELSE Pass(c, 0) /\ SetEnabled(id, TRUE)
    /\ UNCHANGED <<plugins, loadOrder, configured, started, overlapped>>

\* disable(), or its call from unregister() or reload(), after which the caller
\* goes on at once if the plugin was not enabled.
Disable(c) ==
    LET id == call[c].id IN
        IF Enabled(id) THEN Pass(c, 0) /\ SetEnabled(id, FALSE)
        ELSE Pass(c, 1) /\ UNCHANGED made

DisableStep(c) ==
    /\ At(c, "disable")
    /\ Disable(c)
    /\ UNCHANGED <<plugins, loadOrder, configured, started, overlapped>>

\* "Disable first"; an id that is not registered is done.
UnregisterStep(c) ==
    /\ At(c, "unregister")
    /\ IF Registered(call[c].id) THEN Disable(c)
       ELSE Pass(c, 3) /\ UNCHANGED made
    /\ UNCHANGED <<plugins, loadOrder, configured, started, overlapped>>

\* Whatever is registered under the id by now goes: from the Map, and from the
\* load order by a filter.
Delete(c) ==
    /\ At(c, "delete")
    /\ Pass(c, 0)
    /\ plugins' = Sifted(plugins, {i \in DOMAIN plugins : plugins[i].id # call[c].id})
    /\ loadOrder' = Without(loadOrder, call[c].id)
    /\ configured' = configured \ {call[c].id}
    /\ UNCHANGED <<made, started, overlapped>>

ReloadStep(c) ==
    /\ At(c, "reload")
    /\ IF Registered(call[c].id) THEN Disable(c)
       ELSE call' = [call EXCEPT ![c].todo = <<>>] /\ UNCHANGED made
    /\ UNCHANGED <<plugins, loadOrder, configured, started, overlapped>>

ConfigureStep(c) ==
    /\ At(c, "configure")
    /\ IF Registered(call[c].id)
         THEN Pass(c, 0) /\ configured' = configured \union {call[c].id}
         ELSE Throw(c) /\ UNCHANGED configured
    /\ UNCHANGED <<plugins, loadOrder, made, started, overlapped>>
-----------------------------------------------------------------------------
(* The kernel. *)

Start(c) ==
    /\ CallIn(c)
    /\ ~started
    /\ started' = TRUE
    /\ call' = [call EXCEPT ![c] = [Idle EXCEPT !.op = "start", !.left = Builtins]]
    /\ UNCHANGED <<plugins, loadOrder, configured, made>>

\* The next built-in plugin.
StartNext(c) ==
    /\ call[c].op = "start" /\ call[c].todo = <<>> /\ call[c].left # <<>>
    /\ call' = [call EXCEPT ![c].id = Head(call[c].left), ![c].left = Tail(@),
                            ![c].todo = Pieces("install")]
    /\ UNCHANGED <<plugins, loadOrder, configured, made, started, overlapped>>

\* The window is made.
StartEnd(c) ==
    /\ call[c].op = "start" /\ call[c].todo = <<>> /\ call[c].left = <<>>
    /\ call' = [call EXCEPT ![c] = Idle]
    /\ UNCHANGED <<plugins, loadOrder, configured, made, started, overlapped>>

\* For the mutant of Stop: only the first of the plugins is visited.
StopFirst(c) ==
    /\ CallIn(c)
    /\ started
    /\ call' = [call EXCEPT ![c] = [Idle EXCEPT !.op = "stop",
                    !.left = IF plugins = <<>> THEN <<>> ELSE <<plugins[1]>>]]
    /\ UNCHANGED <<plugins, loadOrder, configured, made, started>>

\* The plugins that are registered now, last one first.
Stop(c) ==
    /\ CallIn(c)
    /\ started
    /\ call' = [call EXCEPT ![c] = [Idle EXCEPT !.op = "stop", !.left = Reverse(plugins)]]
    /\ UNCHANGED <<plugins, loadOrder, configured, made, started>>

\* The next of them, if it is enabled, is disabled: the one that now has its id.
StopNext(c) ==
    /\ call[c].op = "stop" /\ call[c].todo = <<>> /\ call[c].left # <<>>
    /\ LET p == Head(call[c].left) IN
         IF made[p.obj].enabled /\ Enabled(p.id)
           THEN /\ SetEnabled(p.id, FALSE)
                /\ call' = [call EXCEPT ![c].left = Tail(@), ![c].todo = <<"hook">>]
           ELSE call' = [call EXCEPT ![c].left = Tail(@)] /\ UNCHANGED made
    /\ UNCHANGED <<plugins, loadOrder, configured, started, overlapped>>

\* The window is closed.
StopEnd(c) ==
    /\ call[c].op = "stop" /\ call[c].todo = <<>> /\ call[c].left = <<>>
    /\ call' = [call EXCEPT ![c] = Idle]
    /\ started' = FALSE
    /\ UNCHANGED <<plugins, loadOrder, configured, made, overlapped>>
-----------------------------------------------------------------------------
Piece(c) ==
    \/ \E path \in Ids : Load(c, path)
    \/ Resolve(c) \/ Insert(c) \/ Hook(c)
    \/ EnableStep(c) \/ DisableStep(c)
    \/ UnregisterStep(c) \/ Delete(c)
    \/ ReloadStep(c) \/ ConfigureStep(c)

Kernel(c) ==
    \/ ("start" \in Operations /\ Start(c)) \/ StartNext(c) \/ StartEnd(c)
    \/ ("stop" \in Operations /\ Stop(c)) \/ StopNext(c) \/ StopEnd(c)

Next ==
    \E c \in Calls :
        \/ \E op \in Operations \ {"start", "stop"}, id \in Ids : Begin(c, op, id)
        \/ End(c)
        \/ Piece(c)
        \/ Kernel(c)

Spec == Init /\ [][Next]_vars
-----------------------------------------------------------------------------
PieceNames == {"resolve", "insert", "loaded", "enable", "hook", "unregister", "unload",
               "delete", "disable", "load", "reload", "configure"}
Entry == [id : Ids, obj : DOMAIN made]

\* The types of the variables; a call that registers has the object it loaded.
TypeOK ==
    /\ plugins \in Seq(Entry)
    /\ loadOrder \in Seq(Ids)
    /\ configured \subseteq Ids
    /\ made \in Seq([id : Ids, enabled : BOOLEAN])
    /\ started \in BOOLEAN
    /\ overlapped \in BOOLEAN
    /\ call \in [Calls -> [op : AllOperations \union {"none"}, id : Ids \union {"none"},
                          obj : DOMAIN made \union {0}, todo : Seq(PieceNames),
                          left : Seq(Ids) \union Seq(Entry)]]
    /\ \A c \in Calls : At(c, "resolve") \/ At(c, "insert") => call[c].obj # 0

\* However calls interleave, the registry's three records agree: an id is
\* registered once, under its own manifest; the load order is the Map's order;
\* and only registered plugins have a configuration.
RecordsAgree ==
    /\ \A i \in DOMAIN plugins : made[plugins[i].obj].id = plugins[i].id
    /\ loadOrder = [i \in DOMAIN plugins |-> plugins[i].id]
    /\ IsInjective(loadOrder)
    /\ configured \subseteq {plugins[i].id : i \in DOMAIN plugins}

\* As long as no two calls were in progress at one time, failing hooks included,
\* a stop that succeeds leaves no plugin enabled: what was enabled can be found
\* and disabled.
SerialStopDisablesAll ==
    [][~overlapped /\ started /\ ~started' => \A o \in DOMAIN made : ~made'[o].enabled]_vars
=============================================================================
