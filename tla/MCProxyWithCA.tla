---------------------------- MODULE MCProxyWithCA ----------------------------
(***************************************************************************)
(* Small instances of the proxy's life cycle and its certificate authority. *)
(*                                                                         *)
(* `part' chooses what moves: the life cycle alone, with the browser and a   *)
(* CA that comes and goes as ProxyLifecycle lets it; the CA manager alone,   *)
(* with every configuration of paths; or both, composed, without a browser   *)
(* and with the default paths or one other certificate path.               *)
(***************************************************************************)
EXTENDS ProxyWithCA, TLC

CONSTANTS
    c1, c2, cert_file, other_cert, key_file,
    BothListeners,  \* bound: listeners spawned when both move
    BothPairs,      \* bound: pairs generated when both move
    BothBrowsers    \* bound: Chromium processes launched when both move

Interchangeable == Permutations(Callers)

VARIABLE part

MCInit == CompositionInit /\ part \in {"lifecycle", "ca", "both"}

LifecycleMoves ==
    /\ part = "lifecycle"
    /\ Next
    /\ UNCHANGED <<caVars, compositionVars, part>>

CaMoves ==
    /\ part = "ca"
    /\ CaNext
    /\ UNCHANGED <<vars, compositionVars, part>>

\* The address is the one of the settings; what the last of set_config does to
\* the next start is the business of the first part.
BothMove ==
    /\ part = "both"
    /\ CompositionNext
    /\ Len(listeners') <= BothListeners
    /\ pairs' <= BothPairs
    /\ wanted'.cert = cert_file
    /\ Len(browsers') <= BothBrowsers
    /\ UNCHANGED <<port, part>>

MCNext == LifecycleMoves \/ CaMoves \/ BothMove

MCSpec == MCInit /\ [][MCNext]_<<allVars, part>>
=============================================================================
