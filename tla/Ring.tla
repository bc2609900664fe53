-------------------------------- MODULE Ring --------------------------------
(***************************************************************************)
(* The index arithmetic of IterableQueueModel and of the queues derived    *)
(* from it: a ring of Size slots, of which those from a read index up to   *)
(* (and without) a write index are in use.                                 *)
(*                                                                         *)
(* Here and in the other modules, a definition marked (fault) is a         *)
(* defective variant of the definition after it.  It is used only to show  *)
(* that a property notices the defect.                                     *)
(***************************************************************************)
EXTENDS Integers

CONSTANT Size  \* size_, the number of slots

ASSUME SizeAssumption == Size \in Nat /\ Size >= 2

Slots == 0 .. Size - 1

(* The index of Iterator end(): numeric_limits<uint32_t>::max(), which is  *)
(* no slot.                                                                *)
EndIndex == -1

(* The successor of an index, as every operation computes it. *)
NextRecord(i) == IF i + 1 = Size THEN 0 ELSE i + 1

(* occupancy(), from the two indices it has loaded. *)
OccupancyOf(w, r) == IF w - r < 0 THEN w - r + Size ELSE w - r

(* The slots in use between a read index and a write index. *)
Between(i, r, w) ==
  IF r <= w THEN r <= i /\ i < w ELSE r <= i \/ i < w

(* The slot j places after slot 0, for j less than two rounds. *)
SlotAt(j) == IF j >= Size THEN j - Size ELSE j
==============================================================================
