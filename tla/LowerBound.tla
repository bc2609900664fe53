----------------------------- MODULE LowerBound -----------------------------
(***************************************************************************)
(* lower_bound() of BinarySearchQueueModel and FixedRateQueueModel: where  *)
(* in a latency buffer the data of a readout window begin.                 *)
(*                                                                         *)
(* Both load the indices once.  The producer may write during the search   *)
(* and the caller's lock keeps removals out, so the part of the ring that  *)
(* the search reads does not change: the state is the ring as loaded, any  *)
(* element to search for, and the search's own variables.  What the        *)
(* producer publishes after the load is in FragmentPieces.                 *)
(***************************************************************************)
EXTENDS Ring

CONSTANTS
  MaxTimestamp,             \* bound on the timestamps
  expected_tick_difference, \* ticks between two frames
  num_frames                \* frames in an element, get_num_frames()

ASSUME MaxTimestampAssumption == MaxTimestamp \in Nat
ASSUME ElementAssumption ==
  /\ expected_tick_difference \in Nat \ {0}
  /\ num_frames \in Nat \ {0}

VARIABLES
  timestamp,    \* the timestamp of the element in each slot
  readIndex_,
  loaded_index, \* writeIndex_ as the search has loaded it
  element,      \* the timestamp searched for
  pc,           \* which part of the search comes next
  start_index,  \* the search's interval of slots
  end_index,
  result        \* the index of the returned Iterator

ring == <<timestamp, readIndex_, loaded_index, element>>
vars == <<ring, pc, start_index, end_index, result>>

Timestamps == 0 .. MaxTimestamp

(* Ticks from one element to the next in data without gaps. *)
Ticks == expected_tick_difference * num_frames

(* The elements that the search knows of, which it has loaded. *)
LoadedOccupancy == OccupancyOf(loaded_index, readIndex_)
Loaded(i) == Between(i, readIndex_, loaded_index)

(* How many elements are in front of the one in slot i. *)
Rank(i) == OccupancyOf(i, readIndex_)

(* The elements were written in the order of their timestamps. *)
Sorted ==
  \A i, j \in Slots :
    Loaded(i) /\ Loaded(j) /\ Rank(i) <= Rank(j) => timestamp[i] <= timestamp[j]

(* The elements were written at a fixed rate: no frame is missing. *)
FixedRate ==
  \A i \in Slots : Loaded(i) => timestamp[i] = timestamp[readIndex_] + Rank(i) * Ticks

(* A call on any ring the producer can have filled.  FixedRateQueueModel   *)
(* searches by itself if the caller knows of no missing frame              *)
(* (with_errors = false) and the queue is not empty, which                 *)
(* data_request() tests before; else it calls the binary search.           *)
Init ==
  /\ readIndex_ \in Slots
  /\ loaded_index \in Slots
  /\ timestamp \in [Slots -> Timestamps]
  /\ \A i \in Slots : ~Loaded(i) => timestamp[i] = 0
  /\ Sorted
  /\ element \in Timestamps
  /\ \/ pc = "binary"
     \/ pc = "fixed" /\ FixedRate /\ readIndex_ # loaded_index
  /\ start_index = readIndex_
  /\ end_index = loaded_index
  /\ result = EndIndex

-----------------------------------------------------------------------------
(* BinarySearchQueueModel::lower_bound.                                    *)

Return(i) ==
  /\ result' = i
  /\ pc' = "done"
  /\ UNCHANGED <<ring, start_index, end_index>>

(* The two early returns, or the interval of all elements. *)
BinaryStart ==
  /\ pc = "binary"
  /\ IF start_index = end_index \/ element < timestamp[start_index]
     THEN Return(EndIndex)
     ELSE /\ end_index' = IF end_index = 0 THEN Size - 1 ELSE end_index - 1
          /\ pc' = "search"
          /\ UNCHANGED <<ring, start_index, result>>

(* (fault) The middle is rounded down: an interval of two never shrinks. *)
MiddleRoundedDown == SlotAt(start_index + OccupancyOf(end_index, start_index) \div 2)

(* The slot in the middle of the interval, rounded up. *)
Middle == SlotAt(start_index + (OccupancyOf(end_index, start_index) + 1) \div 2)

(* The half of the interval to go on with. *)
Halve ==
  IF element < timestamp[Middle]
  THEN end_index' = (IF Middle # 0 THEN Middle - 1 ELSE Size - 1) /\ UNCHANGED start_index
  ELSE start_index' = Middle /\ UNCHANGED end_index

(* One round of the loop. *)
BinaryStep ==
  /\ pc = "search"
  /\ IF element = timestamp[Middle]
     THEN Return(Middle)
     ELSE IF start_index = end_index
     THEN Return(IF element < timestamp[Middle] THEN Middle ELSE NextRecord(Middle))
     ELSE Halve /\ UNCHANGED <<ring, pc, result>>

-----------------------------------------------------------------------------
(* FixedRateQueueModel::lower_bound with with_errors = false.              *)

(* (fault) An element between two others is rounded down to the first. *)
ElementOffsetRoundedDown(diff) == diff \div Ticks

(* Elements to skip, rounded up to an element that is not too old. *)
ElementOffset(diff) ==
  diff \div Ticks + (IF diff % Ticks # 0 THEN 1 ELSE 0)

FixedRateLookup ==
  /\ pc = "fixed"
  /\ LET last_ts   == timestamp[start_index]
         newest_ts == last_ts + LoadedOccupancy * Ticks
     IN  IF last_ts > element \/ element > newest_ts
         THEN Return(EndIndex)
         ELSE Return(SlotAt(start_index + ElementOffset(element - last_ts)))

-----------------------------------------------------------------------------
(* The call has returned. *)
Done == pc = "done" /\ UNCHANGED vars

Next == BinaryStart \/ BinaryStep \/ FixedRateLookup \/ Done

Spec == Init /\ [][Next]_vars

-----------------------------------------------------------------------------
(* Properties.                                                             *)

(* Type invariant: the ring of lower_bound() and its local variables.      *)
TypeOK ==
  /\ timestamp \in [Slots -> Timestamps]
  /\ readIndex_ \in Slots
  /\ loaded_index \in Slots
  /\ element \in Timestamps
  /\ pc \in {"idle", "binary", "fixed", "search", "done"}
  /\ start_index \in Slots
  /\ end_index \in Slots
  /\ result \in Slots \cup {EndIndex}

(* The loop of the binary search reads only slots that held an element at  *)
(* the load, however its interval lies across the wrap of the ring.        *)
SearchReadsLiveSlots == pc = "search" => Middle \in Slots /\ Loaded(Middle)

(* A returned index separates the loaded elements before the one searched  *)
(* for from those after it; it is the loaded write index when all of them  *)
(* are before, at which good() is false until the producer publishes       *)
(* another one; and if an element has the very timestamp, the index is at  *)
(* one.                                                                    *)
FoundIsLowerBound ==
  pc = "done" /\ result # EndIndex =>
    /\ Rank(result) <= LoadedOccupancy
    /\ \A i \in Slots :
         Loaded(i) => /\ Rank(i) < Rank(result) => timestamp[i] <= element
                      /\ Rank(i) >= Rank(result) => timestamp[i] >= element
    /\ (\E i \in Slots : Loaded(i) /\ timestamp[i] = element)
         => Loaded(result) /\ timestamp[result] = element

(* end() is returned only when the element is older than the whole buffer  *)
(* as loaded, or newer, or the buffer is empty.                            *)
EndOnlyOutside ==
  pc = "done" /\ result = EndIndex =>
    \/ \A i \in Slots : Loaded(i) => element < timestamp[i]
    \/ \A i \in Slots : Loaded(i) => timestamp[i] < element

(* What callers of both lower_bound()s rely on: they return where the      *)
(* elements not before the one searched for begin, and give up with end()  *)
(* never when the buffer holds an element on either side of it.            *)
ReturnsLowerBound == FoundIsLowerBound /\ EndOnlyOutside
==============================================================================
