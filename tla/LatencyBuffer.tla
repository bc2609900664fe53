---------------------------- MODULE LatencyBuffer ----------------------------
(***************************************************************************)
(* What a ring-buffer latency buffer promises its clients, whatever the    *)
(* interleaving of the thread that writes and the thread that removes: the *)
(* interface LatencyBufferConcept, read as a bounded first-in first-out    *)
(* queue.  A write either appends its element or, when the buffer is full, *)
(* leaves the contents alone and counts an overflow.                       *)
(***************************************************************************)
EXTENDS Naturals, Sequences

CONSTANTS
  Elements,  \* the elements a client may write
  Capacity   \* the number of elements the buffer can hold

VARIABLES
  contents,  \* the elements in the buffer, oldest first
  overflows  \* how many writes were refused because the buffer was full

vars == <<contents, overflows>>

Init ==
  /\ contents = << >>
  /\ overflows = 0

(* LatencyBufferConcept::write that returns true. *)
Write(e) ==
  /\ Len(contents) < Capacity
  /\ contents' = Append(contents, e)
  /\ UNCHANGED overflows

(* LatencyBufferConcept::write that returns false. *)
Refuse ==
  /\ Len(contents) = Capacity
  /\ overflows' = overflows + 1
  /\ UNCHANGED contents

(* One element leaves: read(), or one round of pop() or flush(). *)
Remove ==
  /\ contents # << >>
  /\ contents' = Tail(contents)
  /\ UNCHANGED overflows

Next ==
  \/ \E e \in Elements : Write(e)
  \/ Refuse
  \/ Remove

Spec == Init /\ [][Next]_vars
==============================================================================
