--------------------------- MODULE DrainThenClose ---------------------------
(***************************************************************************)
(* What a component with a graceful shutdown promises to the users of a    *)
(* resource it owns: users enter while it is open, a drain lets nobody in, *)
(* the resource is closed only when nobody is inside, and a shutdown that  *)
(* gives up waiting leaves the resource alone for good.                    *)
(***************************************************************************)
CONSTANT Users

VARIABLES
    inside, \* the users that may be touching the resource
    phase   \* of the resource's life

dtcVars == <<inside, phase>>

DTCInit == inside = {} /\ phase = "open"

Enter(u) ==
    /\ phase = "open"
    /\ inside' = inside \cup {u}
    /\ UNCHANGED phase

Leave(u) ==
    /\ u \in inside
    /\ inside' = inside \ {u}
    /\ UNCHANGED phase

Drain ==
    /\ phase = "open"
    /\ phase' = "draining"
    /\ UNCHANGED inside

Close ==
    /\ phase = "draining"
    /\ inside = {}
    /\ phase' = "closed"
    /\ UNCHANGED inside

GiveUp ==
    /\ phase = "draining"
    /\ phase' = "gaveUp"
    /\ UNCHANGED inside

DTCNext ==
    \/ \E u \in Users : Enter(u) \/ Leave(u)
    \/ Drain
    \/ Close
    \/ GiveUp

DTCSpec == DTCInit /\ [][DTCNext]_dtcVars
=============================================================================
