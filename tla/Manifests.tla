------------------------------ MODULE Manifests ------------------------------
(***************************************************************************)
(* The plugins the frontend comes with, as their manifests describe them:   *)
(* the built-in ones the kernel registers when it starts                    *)
(* (kernel/PluginRegistry.ts, KernelBootstrap.ts), the engines', which      *)
(* nothing registers yet, and the points they may extend                    *)
(* (kernel/BrowserKernel.ts).  An override is its target and its priority.  *)
(***************************************************************************)
EXTENDS Naturals, Sequences, FiniteSets, SequencesExt

Points(kind, names) == {<<kind, n>> : n \in names}

\* EXTENSION_POINTS; a point's name is in two parts.
ExtensionPoints ==
    UNION {
      Points("ui", {"tab-bar", "address-bar", "sidebar", "status-bar", "toolbar", "command-palette",
                "new-tab-page", "error-page", "settings", "devtools", "find-bar",
                "print-preview", "downloads", "history", "bookmarks", "extensions"}),
      Points("behavior", {"navigation", "tab-management", "session-restore", "download-handling",
                      "search-engine", "auto-fill", "password-manager", "translation",
                      "reader-mode", "picture-in-picture"}),
      Points("network", {"request-hooks", "cache", "proxy", "dns", "certificate", "hsts", "ocsp"}),
      Points("rendering", {"engine", "font", "scroll", "zoom", "theme", "animation"}),
      Points("security", {"sandbox", "csp", "cookies", "permissions", "mixed-content", "referrer",
                      "feature-policy"}),
      Points("devtools", {"elements", "console", "sources", "network", "performance", "memory",
                      "application", "security", "lighthouse", "custom"}),
      Points("storage", {"local", "session", "indexeddb", "cache", "cookies", "service-worker"}),
      Points("platform", {"clipboard", "notifications", "geolocation", "media", "bluetooth", "usb",
                      "serial", "hid", "nfc"}),
      Points("customization", {"themes", "keybindings", "gestures", "menus", "toolbar", "sidebar"})}

Manifest(id, targets, priority) ==
    [id |-> id, overrides |-> {[target |-> t, priority |-> priority] : t \in targets}]

\* BUILTIN_PLUGINS, in order.  None has dependencies.
CorePlugins ==
    <<Manifest("core.tab-bar", {<<"ui", "tab-bar">>}, 0),
      Manifest("core.address-bar", {<<"ui", "address-bar">>}, 0),
      Manifest("core.sidebar", {<<"ui", "sidebar">>}, 0),
      Manifest("core.command-palette", {<<"ui", "command-palette">>}, 0),
      Manifest("core.navigation", {<<"behavior", "navigation">>}, 0),
      Manifest("core.tab-management", {<<"behavior", "tab-management">>}, 0),
      Manifest("core.network-hooks", {<<"network", "request-hooks">>}, 0)>>

DevToolsPlugins ==
    <<Manifest("core.devtools.elements", {<<"devtools", "elements">>}, 0),
      Manifest("core.devtools.console", {<<"devtools", "console">>}, 0),
      Manifest("core.devtools.network", {<<"devtools", "network">>}, 0),
      Manifest("core.devtools.timeline", {<<"devtools", "custom">>}, 0)>>

MirrorPlugins ==
    <<Manifest("window-mirror.proxy", {<<"network", "request-hooks">>}, 100),
      Manifest("window-mirror.sast", {<<"devtools", "custom">>}, 100),
      Manifest("window-mirror.sandbox", {<<"security", "sandbox">>}, 100),
      Manifest("window-mirror.timeline", {<<"devtools", "custom">>}, 100)>>

BuiltinPlugins == CorePlugins \o DevToolsPlugins \o MirrorPlugins

\* The engines' manifests: MITM_PROXY_PLUGIN and the like.
MitmProxyPlugin ==
    Manifest("window-mirror.mitm-proxy", {<<"network", "request-hooks">>, <<"network", "proxy">>}, 100)
SastEnginePlugin == Manifest("window-mirror.sast", {<<"devtools", "custom">>}, 100)
WasmSandboxPlugin == Manifest("window-mirror.wasm-sandbox", {<<"security", "sandbox">>}, 100)
MonacoLspPlugin == Manifest("window-mirror.monaco-lsp", {<<"rendering", "engine">>}, 50)
TanStackDevToolsPlugin ==
    Manifest("window-mirror.tanstack-devtools", {<<"ui", "devtools">>}, 100)

EnginePlugins ==
    {MitmProxyPlugin, SastEnginePlugin, WasmSandboxPlugin, MonacoLspPlugin, TanStackDevToolsPlugin}
-----------------------------------------------------------------------------
\* checkConflicts: the targets it warns of, for one plugin already registered.
Conflicts(plugin, existing) ==
    {o.target : o \in plugin.overrides \intersect existing.overrides}

\* register(): an id that is taken throws, and the kernel goes on to the next.
WithPlugin(existing, plugin) ==
    IF \E i \in DOMAIN existing : existing[i].id = plugin.id THEN existing
    ELSE Append(existing, plugin)

Started == FoldLeft(WithPlugin, <<>>, BuiltinPlugins)
-----------------------------------------------------------------------------
\* Every built-in plugin is registered by the start of the kernel, in the order
\* of the table: none keeps a later one out.
AllBuiltinsRegister == Started = BuiltinPlugins

\* The start warns of no conflict but between panels, of which there may be
\* many: elsewhere the priorities tell which plugin of two is meant.
OnlyPanelsConflict ==
    \A i, j \in DOMAIN Started :
        i < j => Conflicts(Started[j], Started[i]) \subseteq {<<"devtools", "custom">>}

\* A plugin overrides points that there are, the engines' plugins too.
OverridesAreOfPoints ==
    \A p \in ToSet(BuiltinPlugins) \union EnginePlugins :
        {o.target : o \in p.overrides} \subseteq ExtensionPoints

\* The manifests, which several files declare, fit each other and the kernel.
ManifestsFit == AllBuiltinsRegister /\ OnlyPanelsConflict /\ OverridesAreOfPoints
=============================================================================
