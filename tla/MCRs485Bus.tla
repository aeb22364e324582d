----------------------------- MODULE MCRs485Bus -----------------------------
(***************************************************************************)
(* Instances of the bus for TLC: reads with a two cell reply and reads     *)
(* with a three cell reply, addressed to the same controller or to two.    *)
(***************************************************************************)
EXTENDS Rs485Bus, TLC

CONSTANTS a, b, c3, short, long

TwoClients   == {a, b}
ThreeClients == {a, b, c3}
TwoKinds == {short, long}
MCWant == short :> 2 @@ long :> 3
MCUnit == short :> 1 @@ long :> 2

=============================================================================
