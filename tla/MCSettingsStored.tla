--------------------------- MODULE MCSettingsStored ---------------------------
(***************************************************************************)
(* One call of set on the configuration.                                   *)
(***************************************************************************)
EXTENDS Configuration, ConfigValidation

OneEdit == {<<<<"editor", "fontSize">>, Number(8)>>}
=============================================================================
