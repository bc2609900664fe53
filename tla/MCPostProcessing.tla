-------------------------- MODULE MCPostProcessing --------------------------
(***************************************************************************)
(* Instances of PostProcessing for TLC.                                    *)
(***************************************************************************)
EXTENDS PostProcessing

(* Delayed post-processing from a skip list, immediate from a ring. *)
Usual == {[ring |-> FALSE, delay |-> 2], [ring |-> TRUE, delay |-> 0]}

ImmediateFromRing == {[ring |-> TRUE, delay |-> 0]}

DelayedFromRing == {[ring |-> TRUE, delay |-> 1]}
=============================================================================
