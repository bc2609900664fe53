-------------------------- MODULE MCRequestHandler --------------------------
(***************************************************************************)
(* Instances of RequestHandler for TLC.  They allow for every mixture of   *)
(* MaxWork requests and recordings.                                        *)
(***************************************************************************)
EXTENDS RequestHandler, TLC

CONSTANTS r1, r2, t1, t2, MaxWork

(* Two windows that overlap: for one, data past its end arrive, and it may *)
(* be early, partly there, there or too old; the data stop in the other,   *)
(* which may wait for its timeout.                                         *)
TwoWindowsBegin == (r1 :> 2) @@ (r2 :> 2)
TwoWindowsEnd   == (r1 :> 4) @@ (r2 :> 3)

OneWindowBegin == r1 :> 2
OneWindowEnd   == r1 :> 4

NoWindows == << >>

RequestSymmetry == Permutations({t1, t2})

(* The bound is on commands and requests, which nobody has to give. *)
MCNext == Next /\ Cardinality(dispatched') + recordings' <= MaxWork

MCSpec == Init /\ [][MCNext]_vars

MCFairSpec == MCSpec /\ Fairness
==============================================================================
