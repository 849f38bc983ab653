---------------------------- MODULE SettingsModal ----------------------------
(***************************************************************************)
(* The settings of the frontend: the store's (stores/appStore.ts), with     *)
(* their defaults, and the fields of the dialog that edits them             *)
(* (components/settings/SettingsModal.tsx), which keeps what it sets in     *)
(* localStorage.                                                            *)
(*                                                                         *)
(* Settings are objects: functions from keys to values, or to the settings  *)
(* of a section.  A change makes a patch with one path, which the store     *)
(* takes over one key deep: the other settings of the section are gone from *)
(* the store.  The same path is merged, as deep as it goes, into what       *)
(* localStorage has.  That is read into `overrides' once, when the page is  *)
(* loaded, where every key of the store hides the one of the same name.     *)
(***************************************************************************)
EXTENDS Naturals, Sequences, FiniteSets, SequencesExt

CONSTANTS
    Touched,            \* the paths that are set, a set of fields' paths
    MaxPageLoads,       \* bound: page loads after the first
    MaxStorageFailures  \* bound: writes to localStorage that throw

\* A path is a key, or a section and a key; no key is a section as well.
ASSUME ModalAssumption ==
    /\ \A p \in Touched : p \in Seq(STRING) /\ Len(p) \in {1, 2}
    /\ \A p, q \in Touched : p[1] = q[1] => Len(p) = Len(q)
-----------------------------------------------------------------------------
(* The fields.  A path is <<key>> or <<section, key>>. *)

Toggle(path) == [path |-> path, widget |-> "toggle", takes |-> BOOLEAN]
SelectOf(path, options) == [path |-> path, widget |-> "select", takes |-> options]
Slider(path, min, max) == [path |-> path, widget |-> "slider", takes |-> min..max]

JetBrainsMono == "'JetBrains Mono', 'Fira Code', monospace"

FontPicker(path) ==
    [path |-> path, widget |-> "font-picker",
     takes |-> {JetBrainsMono, "Fira Code", "Source Code Pro", "monospace", "system-ui"}]

SettingsFields ==
    <<SelectOf(<<"theme">>, {"dark", "light", "system"}),
      Toggle(<<"animations", "enabled">>),
      SelectOf(<<"animations", "speed">>, {"none", "fast", "normal", "slow"}),
      Toggle(<<"animations", "reducedMotion">>),
      Slider(<<"editor", "fontSize">>, 8, 32),
      FontPicker(<<"editor", "fontFamily">>),
      Slider(<<"editor", "tabSize">>, 2, 8),
      Toggle(<<"editor", "wordWrap">>),
      Toggle(<<"editor", "minimap">>),
      Toggle(<<"editor", "lineNumbers">>),
      Toggle(<<"editor", "formatOnSave">>),
      Toggle(<<"editor", "autoSave">>),
      Toggle(<<"editor", "lintOnChange">>),
      Slider(<<"proxy", "port">>, 1024, 65535),
      Toggle(<<"proxy", "autoStart">>),
      Toggle(<<"proxy", "interceptHttps">>),
      Toggle(<<"proxy", "captureBodies">>),
      SelectOf(<<"sandbox", "defaultBackend">>, {"wasmtime", "firecracker", "gvisor", "native"}),
      Slider(<<"sandbox", "memoryLimitMb">>, 16, 4096),
      Slider(<<"sandbox", "timeoutSeconds">>, 1, 300),
      Toggle(<<"sandbox", "allowNetwork">>),
      Toggle(<<"sandbox", "allowFs">>),
      Toggle(<<"security", "encryptSessions">>),
      Toggle(<<"security", "requireAuth">>),
      Toggle(<<"security", "auditLog">>)>>

\* defaultSettings; maxBodySize, ignoreHosts and wasmFuelLimit have no field.
SettingsOn ==
    {<<"animations", "enabled">>, <<"editor", "wordWrap">>, <<"editor", "lineNumbers">>,
     <<"editor", "formatOnSave">>, <<"editor", "autoSave">>, <<"editor", "lintOnChange">>,
     <<"proxy", "interceptHttps">>, <<"proxy", "captureBodies">>, <<"security", "auditLog">>}

SettingsOff ==
    {<<"animations", "reducedMotion">>, <<"editor", "minimap">>, <<"proxy", "autoStart">>,
     <<"sandbox", "allowNetwork">>, <<"sandbox", "allowFs">>,
     <<"security", "encryptSessions">>, <<"security", "requireAuth">>}

DefaultSetting(path) ==
    CASE path \in SettingsOn -> TRUE
      [] path \in SettingsOff -> FALSE
      [] path = <<"theme">> -> "dark"
      [] path = <<"animations", "speed">> -> "normal"
      [] path = <<"editor", "fontSize">> -> 14
      [] path = <<"editor", "fontFamily">> -> JetBrainsMono
      [] path = <<"editor", "tabSize">> -> 2
      [] path = <<"proxy", "port">> -> 8080
      [] path = <<"sandbox", "defaultBackend">> -> "wasmtime"
      [] path = <<"sandbox", "memoryLimitMb">> -> 128
      [] path = <<"sandbox", "timeoutSeconds">> -> 30

FieldAt(path) == CHOOSE f \in ToSet(SettingsFields) : f.path = path
-----------------------------------------------------------------------------
(* Objects. *)

NoObject == [k \in {} |-> k]
Keys(object) == DOMAIN object

WithKey(object, k, v) == [x \in Keys(object) \union {k} |-> IF x = k THEN v ELSE object[x]]

\* {...below, ...above}
Spread(below, above) ==
    [x \in Keys(below) \union Keys(above) |-> IF x \in Keys(above) THEN above[x] ELSE below[x]]

\* {...object[k]}, where there may be none.
SectionOf(object, k) == IF k \in Keys(object) THEN object[k] ELSE NoObject

\* The object with the section of the path copied and the value put in it.
WithPath(object, p, v) ==
    IF Len(p) = 1 THEN WithKey(object, p[1], v)
    ELSE WithKey(object, p[1], WithKey(SectionOf(object, p[1]), p[2], v))

\* What is found under the key, or along the path: one value, or none.
ValueOf(object, k) == IF k \in Keys(object) THEN {object[k]} ELSE {}

ValueAt(object, p) ==
    IF Len(p) = 1 THEN ValueOf(object, p[1]) ELSE ValueOf(SectionOf(object, p[1]), p[2])
-----------------------------------------------------------------------------
VARIABLES
    settings,       \* the store
    overrides,      \* what the dialog read when the page was loaded
    localSettings,  \* what localStorage has under wm.settings.v1
    pageLoads, storageFailures,
    written         \* history: the last value written for each path, if any

modalVars == <<settings, overrides, localSettings, pageLoads, storageFailures, written>>

Defaults ==
    [k \in {p[1] : p \in Touched} |->
        IF <<k>> \in Touched THEN DefaultSetting(<<k>>)
        ELSE [s \in {p[2] : p \in {q \in Touched : q[1] = k}} |-> DefaultSetting(<<k, s>>)]]

ModalInit ==
    /\ settings = Defaults
    /\ overrides = NoObject /\ localSettings = NoObject
    /\ pageLoads = 0 /\ storageFailures = 0
    /\ written = [p \in Touched |-> {}]

\* get(): the store over what was read with the page, key by key.
Shown(p) == ValueAt(Spread(overrides, settings), p)

\* What a widget can set: a box is flipped, a slider moved to an end.
OfferedBy(f) ==
    CASE f.widget = "toggle" -> {Shown(f.path) # {TRUE}}
      [] f.widget = "slider" -> {x \in f.takes : x - 1 \notin f.takes \/ x + 1 \notin f.takes}
      [] OTHER -> f.takes

\* For the mutant of Kept: the change is merged into what was read with the page.
KeptStale(p, v) == WithPath(overrides, p, v)

\* What localStorage gets: the change merged into what it has now.
Kept(p, v) == WithPath(localSettings, p, v)

\* updateSettings(buildPatch(p, v))
Patched(p, v) == Spread(settings, WithPath(NoObject, p, v))

\* set(): a write that throws is ignored.
SetInModal(p, v) ==
    /\ settings' = Patched(p, v)
    /\ \/ /\ localSettings' = Kept(p, v)
          /\ written' = [written EXCEPT ![p] = {v}]
          /\ UNCHANGED storageFailures
       \/ /\ storageFailures < MaxStorageFailures
          /\ storageFailures' = storageFailures + 1
          /\ UNCHANGED <<localSettings, written>>
    /\ UNCHANGED <<overrides, pageLoads>>

LoadPage ==
    /\ pageLoads < MaxPageLoads
    /\ pageLoads' = pageLoads + 1
    /\ settings' = Defaults
    /\ overrides' = localSettings
    /\ UNCHANGED <<localSettings, storageFailures, written>>

ModalNext ==
    \/ \E p \in Touched : \E v \in OfferedBy(FieldAt(p)) : SetInModal(p, v)
    \/ LoadPage

ModalSpec == ModalInit /\ [][ModalNext]_modalVars
-----------------------------------------------------------------------------
\* localStorage has, for every path, the last value a set() of this page load or
\* of an earlier one got written: a change is merged into what is there now, not
\* into what the page read, and takes back no other setting of its section.  It
\* says nothing of what is shown.
WrittenIsKept == \A p \in Touched : ValueAt(localSettings, p) = written[p]

\* NOT what the code does: "Persist overrides locally until the Phase 6 SQLite store
\* lands" (SettingsModal.tsx:105): what was kept is what is shown once the page has
\* been loaded again.
KeptIsShown ==
    [][LoadPage => \A p \in Touched :
                      ValueAt(localSettings, p) # {} => Shown(p)' = ValueAt(localSettings, p)]_modalVars
=============================================================================
