---------------------------- MODULE MCPairRunner ----------------------------
(* A small instance of PairRunner for TLC: four data paths, selections that *)
(* overlap within a run and across runs.                                    *)
EXTENDS PairRunner, TLC

CONSTANTS pa, pb, pc, quick

(* A copy path and below its source a bisync path, a copy path apart from  *)
(* them, and a quick sync into the target of the bisync path.              *)
Between(l, r) == [local  |-> [remote |-> FALSE, path |-> l],
                  remote |-> [remote |-> TRUE,  path |-> r]]
MCWhere == (pa :> Between(<<1>>, <<1>>)) @@ (pb :> Between(<<1, 2>>, <<2>>))
           @@ (pc :> Between(<<3>>, <<3>>)) @@ (quick :> Between(<<4>>, <<2, 1>>))
MCSelections == {<<pa, pb>>, <<pb, pc>>, <<quick>>}
=============================================================================
