---------------------------- MODULE ConfigSchemas ----------------------------
(***************************************************************************)
(* The schemas of the configuration and the widgets drawn for them          *)
(* (packages/frontend/src/kernel/ConfigurationSystem.ts).                   *)
(*                                                                         *)
(* A JavaScript value is a pair of its type and its payload.  The payload   *)
(* of a string is the string where a schema enumerates it, else the class   *)
(* of strings it is of: "empty", "colour" (#rrggbb), "address" (parses as a *)
(* URL) or "text".  An array's payload is its sequence, an object's the      *)
(* function from its property names.  No built-in schema has a pattern or    *)
(* required properties; titles, descriptions and order are left out.        *)
(***************************************************************************)
EXTENDS Integers, Sequences, TLC

Str(x) == <<"string", x>>
Number(n) == <<"number", n>>
Bool(b) == <<"boolean", b>>
Arr(s) == <<"array", s>>
Obj(f) == <<"object", f>>
-----------------------------------------------------------------------------
(* Schemas.  What a schema may leave out is a set of at most one element.   *)

Leaf(type, default) ==
    [type |-> type, enum |-> {}, minimum |-> {}, maximum |-> {}, default |-> {default},
     items |-> {}, properties |-> <<>>]

Flag(b) == Leaf("boolean", Bool(b))
Num(n) == Leaf("number", Number(n))
Within(lo, hi, n) == [Num(n) EXCEPT !.minimum = {lo}, !.maximum = {hi}]
Text(x) == Leaf("string", Str(x))
OneOf(names, x) == [Text(x) EXCEPT !.enum = names]
Of(type, x) == Leaf(type, Str(x))
TextList(s) == [Leaf("array", Arr(s)) EXCEPT !.items = {Text("empty")}]
Group(properties) ==
    [Leaf("object", <<>>) EXCEPT !.default = {}, !.properties = properties]
AllOf(type, names, x) == Group([p \in names |-> Of(type, x)])
Flags(on, off) == [p \in on \union off |-> Flag(p \in on)]

BrowserSchema == Group(
    [startup |-> OneOf({"new-tab", "restore-session", "open-pages"}, "restore-session"),
     homePage |-> Of("url", "address"),
     newTabPage |-> OneOf({"default", "blank", "custom"}, "default"),
     customNewTabUrl |-> Of("url", "empty")])

AppearanceSchema == Group(
    [theme |-> OneOf({"system", "light", "dark", "zen", "custom"}, "system"),
     customTheme |-> Group(
        [name |-> Text("text"),
         colors |-> AllOf("color", {"bg", "surface", "elevated", "border", "accent", "text",
                                    "textMuted"}, "colour"),
         fonts |-> AllOf("font", {"sans", "mono"}, "text")]),
     density |-> OneOf({"compact", "comfortable", "spacious"}, "comfortable"),
     animations |-> Flag(TRUE),
     animationSpeed |-> OneOf({"slow", "normal", "fast", "instant"}, "normal"),
     reducedMotion |-> Flag(FALSE)])

EditorSchema == Group(
    [fontSize |-> Within(8, 32, 14),
     fontFamily |-> Of("font", "text"),
     tabSize |-> Within(1, 8, 2),
     cursorBlinking |-> OneOf({"blink", "smooth", "phase", "expand", "solid"}, "smooth")]
    @@ Flags({"wordWrap", "lineNumbers", "formatOnSave", "autoSave", "lintOnChange",
              "bracketPairColorization"}, {"minimap"}))

NetworkSchema == Group(
    [proxy |-> Group(
        [mode |-> OneOf({"direct", "system", "auto", "pac", "custom"}, "direct"),
         pacUrl |-> Of("url", "empty"),
         customProxy |-> Text("empty"),
         bypassList |-> TextList(<<Str("text"), Str("text"), Str("text")>>)]),
     mitm |-> Group(
        [port |-> Within(1, 65535, 8080),
         maxBodySize |-> Num(10485760),
         ignoreHosts |-> TextList(<<Str("text"), Str("text")>>)]
        @@ Flags({"interceptHttps", "captureBodies"}, {"enabled", "autoStart"})),
     dns |-> Group([dohProvider |-> Text("address")] @@ Flags({"cache"}, {"useDOH"}))])

\* wasmFuelLimit, memoryLimitMb and timeoutSeconds of a sandbox.
Limits == [wasmFuelLimit |-> Num(10000000), memoryLimitMb |-> Num(128), timeoutSeconds |-> Num(30)]

SecuritySchema == Group(
    [sandbox |-> Group(
        [type |-> OneOf({"wasm", "vm", "container", "process"}, "wasm"), strict |-> Flag(TRUE)]
        @@ Limits),
     certificates |-> Group(
        [customCAs |-> TextList(<<>>)] @@ Flags({"verifyHostname"}, {"allowInvalidCerts"})),
     permissions |-> Group(
        [defaultPermission |-> OneOf({"ask", "allow", "block"}, "ask"),
         autoGrant |-> TextList(<<>>), autoBlock |-> TextList(<<>>)])])

WindowMirrorSchema == Group(
    [mode |-> OneOf({"zen", "telemetry", "focus", "interrogation"}, "zen"),
     sidebar |-> Group(
        [defaultWidth |-> Within(200, 600, 280),
         collapsedWidth |-> Within(48, 80, 56),
         defaultPanel |-> OneOf({"files", "workspaces", "timeline", "extensions", "settings"}, "files"),
         autoCollapse |-> Flag(FALSE)]),
     timeline |-> Group(
        [maxEvents |-> Within(100, 100000, 10000)]
        @@ Flags({"autoScroll", "showSourceLocation"}, {"groupByType"})),
     proxy |-> Group(Flags({"injectScripts", "captureWebSocket", "captureConsole", "captureStorage",
                            "captureDOM", "correlateSource"}, {})),
     sandbox |-> Group(
        [defaultBackend |-> OneOf({"wasmtime", "firecracker", "gvisor", "native"}, "wasmtime")]
        @@ Limits @@ Flags({}, {"allowNetwork", "allowFs"}))])

DevToolsSchema == Group(
    [theme |-> OneOf({"dark", "light", "auto"}, "dark"),
     panelOrder |-> TextList([i \in 1..9 |-> Str("text")]),
     shortcuts |-> AllOf("keybinding",
        {"openDevTools", "openCommandPalette", "toggleSidebar", "switchMode", "newTab", "closeTab",
         "reopenTab", "focusAddressBar", "findInPage", "zoomIn", "zoomOut", "zoomReset"}, "text")])

AdvancedSchema == Group(
    [experimental |-> Group(Flags({}, {"webgpu", "wasmThreads", "wasmSIMD", "webTransport", "webNN"})),
     debug |-> Group(
        [logLevel |-> OneOf({"trace", "debug", "info", "warn", "error"}, "info"),
         logFile |-> Of("file", "empty"),
         remoteDebuggingPort |-> Num(9222)]
        @@ Flags({"enableInspector"}, {"enabled", "logToFile", "enableRemoteDebugging"}))])

\* registerBuiltinSchemas: the section a schema is registered for.
BuiltinSchemas ==
    "browser" :> BrowserSchema @@ "appearance" :> AppearanceSchema @@ "editor" :> EditorSchema
    @@ "network" :> NetworkSchema @@ "security" :> SecuritySchema
    @@ "window-mirror" :> WindowMirrorSchema @@ "devtools" :> DevToolsSchema
    @@ "advanced" :> AdvancedSchema
-----------------------------------------------------------------------------
(* The checks a schema makes of a value itself. *)

CheckType(value, type) ==
    CASE type \in {"string", "font", "keybinding", "file", "directory"} -> value[1] = "string"
      [] type = "color" -> value = Str("colour")
      [] type = "url"   -> value \in {Str("empty"), Str("address")}
      [] OTHER          -> value[1] = type

InRange(value, schema) ==
    value[1] = "number" => /\ \A m \in schema.minimum : value[2] >= m
                           /\ \A m \in schema.maximum : value[2] <= m

InEnum(value, schema) ==
    schema.enum # {} => value[1] = "string" /\ value[2] \in schema.enum
-----------------------------------------------------------------------------
(* The widgets. *)

\* For the mutant of DefaultWidget: numbers have no case of their own.
DefaultWidgetNoNumber(schema) ==
    CASE schema.type = "boolean"    -> "toggle"
      [] schema.type = "string"     -> IF schema.enum # {} THEN "select" ELSE "input"
      [] schema.type = "color"      -> "color-picker"
      [] schema.type = "font"       -> "font-picker"
      [] schema.type = "keybinding" -> "keybinding-editor"
      [] schema.type = "array"      -> "code-editor"
      [] schema.type = "object"     -> "json-editor"
      [] OTHER                      -> "input"

\* getDefaultWidget.  The widget a built-in leaf names is its default one.
DefaultWidget(schema) ==
    CASE schema.type = "boolean"    -> "toggle"
      [] schema.type = "number"     -> IF schema.enum # {} THEN "select" ELSE "slider"
      [] schema.type = "string"     -> IF schema.enum # {} THEN "select" ELSE "input"
      [] schema.type = "color"      -> "color-picker"
      [] schema.type = "font"       -> "font-picker"
      [] schema.type = "keybinding" -> "keybinding-editor"
      [] schema.type = "array"      -> "code-editor"
      [] schema.type = "object"     -> "json-editor"
      [] OTHER                      -> "input"

\* The ends of a slider, `schema.minimum || 0' and `schema.maximum || 100'.
SliderEnds(schema) == (IF schema.minimum = {} THEN {0} ELSE schema.minimum)
                      \union (IF schema.maximum = {} THEN {100} ELSE schema.maximum)

\* What the listener of a widget may hand to set(): the ends of a slider, the
\* options of a select, any text, any JSON.
Produces(widget, schema) ==
    CASE widget = "toggle"       -> {Bool(TRUE), Bool(FALSE)}
      [] widget = "slider"       -> {Number(n) : n \in SliderEnds(schema)}
      [] widget = "select"       -> {Str(x) : x \in schema.enum}
      [] widget = "color-picker" -> {Str("colour")}
      [] widget \in {"font-picker", "keybinding-editor"} -> {Str("text")}
      [] widget \in {"code-editor", "json-editor"} -> {Obj(<<>>), Arr(<<>>), Number(0)}
      [] OTHER                   -> {Str("empty"), Str("address"), Str("text")}
=============================================================================
