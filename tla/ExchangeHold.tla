---------------------------- MODULE ExchangeHold ----------------------------
(***************************************************************************)
(* What the pause/resume feature promises about one intercepted exchange,  *)
(* without its map, its notification or its timer: an exchange that is     *)
(* held is let go exactly once, carrying either no edit or one complete    *)
(* edit that the user submitted for this very exchange; or its client      *)
(* leaves.  No exchange stays held for ever.                               *)
(***************************************************************************)
CONSTANTS
    Requests,   \* intercepted exchanges
    Edits,      \* modification lists a user may submit, the empty one included
    NoEdit      \* the empty modification list

VARIABLES
    state,      \* where each exchange is
    edit,       \* the edit it was forwarded with
    submitted   \* <<exchange, edit>> pairs the user's commands have delivered

holdVars == <<state, edit, submitted>>

HoldInit ==
    /\ state = [r \in Requests |-> "flowing"]
    /\ edit = [r \in Requests |-> NoEdit]
    /\ submitted = {}

Hold(r) ==
    /\ state[r] = "flowing"
    /\ state' = [state EXCEPT ![r] = "held"]
    /\ UNCHANGED <<edit, submitted>>

Submit(r, m) ==
    /\ state[r] # "flowing"
    /\ submitted' = submitted \cup {<<r, m>>}
    /\ UNCHANGED <<state, edit>>

Release(r) ==
    /\ state[r] = "held"
    /\ state' = [state EXCEPT ![r] = "released"]
    /\ \E m \in Edits :
          /\ m = NoEdit \/ <<r, m>> \in submitted
          /\ edit' = [edit EXCEPT ![r] = m]
    /\ UNCHANGED submitted

Leave(r) ==
    /\ state[r] \in {"flowing", "held"}
    /\ state' = [state EXCEPT ![r] = "gone"]
    /\ UNCHANGED <<edit, submitted>>

HoldNext ==
    \E r \in Requests :
        Hold(r) \/ Release(r) \/ Leave(r) \/ \E m \in Edits : Submit(r, m)

HoldSafety == HoldInit /\ [][HoldNext]_holdVars

HoldSpec == HoldSafety /\ \A r \in Requests : WF_holdVars(Release(r) \/ (state[r] = "held" /\ Leave(r)))
=============================================================================
