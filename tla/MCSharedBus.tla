---------------------------- MODULE MCSharedBus ----------------------------
(***************************************************************************)
(* SharedBus for TLC: one value and its reversal.                          *)
(***************************************************************************)
EXTENDS SharedBus, TLC

ClientSymmetry == Permutations(Clients)

MCReversed == ("1234" :> "3412") @@ ("3412" :> "1234")
=============================================================================
