----------------------------- MODULE MCProgress ------------------------------
(***************************************************************************)
(* Small instances of the parts that follow something outside the program:  *)
(* the timeline's forwarder, the DevTools client that reconnects, and the   *)
(* view of the target page.                                                 *)
(*                                                                         *)
(* They share no state: in every behaviour one part moves and the others    *)
(* stay as they were made.  Fairness is asked of the forwarder and of the   *)
(* client's timers, in which something has to happen in the end; a frame    *)
(* need not load anything.                                                  *)
(***************************************************************************)
EXTENDS Timeline, DevToolsClient, TargetView

CONSTANTS r1, r2

\* The order of the requests' ids, in the keys of the timeline.
Ordered == [r \in {r1, r2} |-> IF r = r1 THEN 1 ELSE 2]

VARIABLE part   \* the part that moves

ProgressInit ==
    /\ part \in {"timeline", "devtools", "target"}
    /\ Init /\ DtInit /\ TvInit

ProgressNext ==
    /\ UNCHANGED part
    /\ \/ part = "timeline" /\ Next /\ UNCHANGED <<dtVars, tvVars>>
       \/ part = "devtools" /\ DtNext /\ UNCHANGED <<vars, tvVars>>
       \/ part = "target" /\ TvNext /\ UNCHANGED <<vars, dtVars>>

ProgressSpec ==
    /\ ProgressInit /\ [][ProgressNext]_<<part, vars, dtVars, tvVars>>
    /\ Fairness /\ DtFairness
=============================================================================
