---------------------------- MODULE MCSettingsModal ----------------------------
(***************************************************************************)
(* A small instance of the settings dialog: one setting without a section,  *)
(* two of one section, and a page that is loaded twice.                     *)
(***************************************************************************)
EXTENDS SettingsModal

ModalPaths == {<<"theme">>, <<"editor", "tabSize">>, <<"editor", "minimap">>}
=============================================================================
