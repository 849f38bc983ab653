-------------------------- MODULE MCProxyLifecycle --------------------------
(***************************************************************************)
(* Small instances of ProxyLifecycle.                                      *)
(***************************************************************************)
EXTENDS ProxyLifecycle

CONSTANTS c1, c2
=============================================================================
