------------------------- MODULE MCDefinitionBatch -------------------------
(* A small instance of DefinitionBatch for TLC: a kill or a failing         *)
(* operation in a behaviour, not both, and no failing operation beside a    *)
(* living child.  What follows a failure is excused by BatchesEnd, so the   *)
(* constraint hides nothing from it.                                        *)
EXTENDS DefinitionBatch

OneTrouble == crashes + faults <= 1 /\ (faults > 0 => orphan = Nobody)
=============================================================================
