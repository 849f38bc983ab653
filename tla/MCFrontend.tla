------------------------------- MODULE MCFrontend -------------------------------
(***************************************************************************)
(* Small instances of the frontend: the kernel's plugins and the services   *)
(* it hands them, the configuration, the message bus, the network stack and *)
(* the windows; the tables of plugins and languages; and the parts of the   *)
(* user interface, the tabs and the editor, the panels of events, the       *)
(* settings and the command palette.                                        *)
(*                                                                         *)
(* They share no state, so their interleavings show nothing that each alone *)
(* does not: in every behaviour one part moves and the others stay as they  *)
(* were made, and the graph is the union of theirs.                         *)
(***************************************************************************)
EXTENDS PluginKernel, Configuration, ConfigValidation, MessageBus, NetworkStack, Windows,
        Manifests, Languages, EditorTabs, EventPanels, SettingsModal, Palette

CONSTANTS core, extra, c1, c2
-----------------------------------------------------------------------------
(* Plugins: two ids, one of them built in, the other requiring it.          *)

CoreOnly == <<core>>
ExtraOnCore == [i \in {core, extra} |-> IF i = extra THEN {core} ELSE {}]
-----------------------------------------------------------------------------
(* Configuration: the editor's section with its font size, one profile      *)
(* besides the default one.                                                 *)

FontSize == <<"editor", "fontSize">>
Section == <<"editor">>
AllAndSection == {<<>>, Section}
Deletions == {FontSize, Section}

\* The font size at its minimum, one above its maximum, the whole section, and
\* false in place of the section, which only a call without schemas accepts.
EditorEdits == {<<FontSize, Number(8)>>, <<FontSize, Number(33)>>,
                <<Section, Obj("fontSize" :> Number(32))>>, <<Section, Bool(FALSE)>>}
-----------------------------------------------------------------------------
(* Settings: one without a section, two of one section.                     *)

ModalPaths == {<<"theme">>, <<"editor", "tabSize">>, <<"editor", "minimap">>}
-----------------------------------------------------------------------------
(* Palette: queries that find none, one and two of the commands.            *)

Found == ("zzz" :> <<>>) @@ ("sidebar" :> <<"view.toggle-sidebar">>)
         @@ ("zen" :> <<"view.zen", "view.telemetry">>)
-----------------------------------------------------------------------------
Interchangeable == Permutations({c1, c2})

VARIABLE part  \* the part that moves

parts == <<vars, configVars, busVars, netVars, winVars, tabVars, panelVars, modalVars, palVars>>

FrontendInit ==
    /\ part \in {"plugins", "configuration", "bus", "network", "windows",
                "tabs", "events", "settings", "palette"}
    /\ Init /\ ConfigInit /\ BusInit /\ NetInit /\ WinInit
    /\ TabsInit /\ PanelsInit /\ ModalInit /\ PalInit
    /\ part # "palette" => ~controlled

FrontendNext ==
    /\ UNCHANGED part
    /\ \/ /\ part = "plugins" /\ Next
          /\ UNCHANGED <<configVars, busVars, netVars, winVars, tabVars, panelVars, modalVars, palVars>>
       \/ /\ part = "configuration" /\ ConfigNext
          /\ UNCHANGED <<vars, busVars, netVars, winVars, tabVars, panelVars, modalVars, palVars>>
       \/ /\ part = "bus" /\ BusNext
          /\ UNCHANGED <<vars, configVars, netVars, winVars, tabVars, panelVars, modalVars, palVars>>
       \/ /\ part = "network" /\ NetNext
          /\ UNCHANGED <<vars, configVars, busVars, winVars, tabVars, panelVars, modalVars, palVars>>
       \/ /\ part = "windows" /\ WinNext
          /\ UNCHANGED <<vars, configVars, busVars, netVars, tabVars, panelVars, modalVars, palVars>>
       \/ /\ part = "tabs" /\ TabsNext
          /\ UNCHANGED <<vars, configVars, busVars, netVars, winVars, panelVars, modalVars, palVars>>
       \/ /\ part = "events" /\ PanelsNext
          /\ UNCHANGED <<vars, configVars, busVars, netVars, winVars, tabVars, modalVars, palVars>>
       \/ /\ part = "settings" /\ ModalNext
          /\ UNCHANGED <<vars, configVars, busVars, netVars, winVars, tabVars, panelVars, palVars>>
       \/ /\ part = "palette" /\ PalNext
          /\ UNCHANGED <<vars, configVars, busVars, netVars, winVars, tabVars, panelVars, modalVars>>

\* The tables several files declare for each other fit, each where its part is
\* the one that moves: the manifests the kernel registers, the schemas and their
\* widgets, the languages of the scanner, the editor and the servers.
TablesFit ==
    /\ part = "plugins" => ManifestsFit
    /\ part = "configuration" => SchemasFit
    /\ part = "tabs" => LanguagesAgree

FrontendSpec == FrontendInit /\ [][FrontendNext]_<<part, parts>>
=============================================================================
