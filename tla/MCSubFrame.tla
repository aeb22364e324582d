----------------------------- MODULE MCSubFrame -----------------------------
(***************************************************************************)
(* The page for TLC, with the limits it has.                               *)
(***************************************************************************)
EXTENDS SubFrame

MCLimit ==
    [g \in Graphs |-> CASE g = "Recent"  -> 0
                        [] g = "Minutes" -> 2
                        [] g = "Hours"   -> 5
                        [] g = "Days"    -> 50]
=============================================================================
