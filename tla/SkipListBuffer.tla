--------------------------- MODULE SkipListBuffer ---------------------------
(***************************************************************************)
(* SkipListLatencyBufferModel with DefaultSkipListRequestHandler's         *)
(* cleanup: a concurrent sorted set of elements, which takes payloads in   *)
(* any order while a cleanup removes what is much older than the newest    *)
(* element, and which is flushed when a run ends.                          *)
(*                                                                         *)
(* Each operation of folly's ConcurrentSkipList (insert, remove, first,    *)
(* last, pop_back, size) is one step.  Elements are known by their         *)
(* timestamps.                                                             *)
(***************************************************************************)
EXTENDS Integers, FiniteSets

CONSTANTS
  MaxTsDiff,     \* m_max_ts_diff
  Word,          \* 2^64, the size of unsigned arithmetic
  MaxTimestamp,  \* bound on timestamps
  MaxRuns        \* bound on runs

ASSUME SkipListAssumption ==
  /\ MaxTsDiff \in Nat \ {0}
  /\ MaxTimestamp \in Nat
  /\ Word \in Nat /\ Word > MaxTimestamp + MaxTsDiff
  /\ MaxRuns \in Nat

VARIABLES
  m_skip_list,   \* the timestamps of the buffered elements
  mpc, runs,     \* the control thread's place; runs started
  cpc,           \* the cleaner's place
  tail, head,    \* its pointers
  num,           \* pops left of a flush
  element,       \* what was read last in this run
  late           \* history: what came below the tail during this cleanup

vars == <<m_skip_list, mpc, runs, cpc, tail, head, num, element, late>>

Timestamps == 1 .. MaxTimestamp

(* A null pointer. *)
Null == 0

(* first() and last() of the list. *)
IsFirst(p) == IF m_skip_list = {} THEN p = Null
              ELSE p \in m_skip_list /\ \A x \in m_skip_list : p <= x
IsLast(p) == IF m_skip_list = {} THEN p = Null
             ELSE p \in m_skip_list /\ \A x \in m_skip_list : x <= p

Pointers == Timestamps \cup {Null}

(* The difference of two uint64_t. *)
Difference(a, b) == IF a >= b THEN a - b ELSE Word + a - b

Init ==
  /\ m_skip_list = {}
  /\ mpc = "stopped" /\ runs = 0
  /\ cpc = "off" /\ tail = Null /\ head = Null
  /\ num = 0 /\ element = Null /\ late = {}

-----------------------------------------------------------------------------
(* A run begins with an empty list: conf() and flush() leave it so. *)
Start ==
  /\ mpc = "stopped" /\ runs < MaxRuns
  /\ mpc' = "running" /\ runs' = runs + 1
  /\ cpc' = "sleep" /\ element' = Null
  /\ UNCHANGED <<m_skip_list, tail, head, num, late>>

(* The consumer has ended, and the cleaner is waited for ... *)
StopBegin ==
  /\ mpc = "running"
  /\ mpc' = "joining"
  /\ UNCHANGED <<m_skip_list, runs, cpc, tail, head, num, element, late>>

(* ... before flush() pops as many elements as there are. *)
FlushBegin ==
  /\ mpc = "joining" /\ cpc = "off"
  /\ num' = Cardinality(m_skip_list)
  /\ mpc' = "flushing"
  /\ UNCHANGED <<m_skip_list, runs, cpc, tail, head, element, late>>

(* pop() removes the newest element, if there is one. *)
PopBack ==
  /\ mpc = "flushing" /\ num > 0
  /\ num' = num - 1
  /\ \E p \in Pointers : IsLast(p) /\ m_skip_list' = m_skip_list \ {p}
  /\ UNCHANGED <<mpc, runs, cpc, tail, head, element, late>>

FlushEnd ==
  /\ mpc = "flushing" /\ num = 0
  /\ mpc' = "stopped"
  /\ UNCHANGED <<m_skip_list, runs, cpc, tail, head, num, element, late>>

-----------------------------------------------------------------------------
(* write(): insert() refuses a timestamp that is there already. *)
Write(ts) ==
  /\ mpc = "running"
  /\ m_skip_list' = m_skip_list \cup {ts}
  /\ late' = IF ts \notin m_skip_list /\ ts < tail THEN late \cup {ts} ELSE late
  /\ UNCHANGED <<mpc, runs, cpc, tail, head, num, element>>

(* read(): a copy of the first element, which stays in the list. *)
Read ==
  /\ mpc = "running" /\ m_skip_list # {}
  /\ \E p \in Pointers : IsFirst(p) /\ element' = p
  /\ UNCHANGED <<m_skip_list, mpc, runs, cpc, tail, head, num, late>>

-----------------------------------------------------------------------------
cleanerFrame == <<mpc, runs, num, element>>

(* The cleaner wakes up and begins, or ends with the run. *)
CleanupBegin ==
  /\ cpc = "sleep" /\ mpc = "running"
  /\ \E p \in Pointers : IsLast(p) /\ tail' = p
  /\ late' = {}
  /\ cpc' = "head"
  /\ UNCHANGED <<cleanerFrame, m_skip_list, head>>

CleanerJoins ==
  /\ cpc = "sleep" /\ mpc = "joining"
  /\ cpc' = "off"
  /\ UNCHANGED <<cleanerFrame, m_skip_list, tail, head, late>>

CleanupHead ==
  /\ cpc = "head"
  /\ \E p \in Pointers : IsFirst(p) /\ head' = p
  /\ cpc' = "check"
  /\ UNCHANGED <<cleanerFrame, m_skip_list, tail, late>>

(* Both are there, and the distance is more than the maximum. *)
CleanupCheck ==
  /\ cpc = "check"
  /\ cpc' = IF tail # Null /\ head # Null /\ Difference(tail, head) > MaxTsDiff
            THEN "remove" ELSE "sleep"
  /\ UNCHANGED <<cleanerFrame, m_skip_list, tail, head, late>>

CleanupRemove ==
  /\ cpc = "remove"
  /\ m_skip_list' = m_skip_list \ {head}
  /\ cpc' = "first"
  /\ UNCHANGED <<cleanerFrame, tail, head, late>>

(* (fault) The front is not read again after it was removed. *)
CleanupFirstKeepsHead ==
  /\ cpc = "first"
  /\ cpc' = "test"
  /\ UNCHANGED <<cleanerFrame, m_skip_list, tail, head, late>>

CleanupFirst ==
  /\ cpc = "first"
  /\ \E p \in Pointers : IsFirst(p) /\ head' = p
  /\ cpc' = "test"
  /\ UNCHANGED <<cleanerFrame, m_skip_list, tail, late>>

(* (fault) What is at the maximum distance is left. *)
TooOldStrictly == Difference(tail, head) > MaxTsDiff

TooOld == Difference(tail, head) >= MaxTsDiff

(* The head is dereferenced, and removed in turn if it is too old. *)
CleanupTest ==
  /\ cpc = "test" /\ head # Null
  /\ cpc' = IF TooOld THEN "remove" ELSE "cleaned"
  /\ UNCHANGED <<cleanerFrame, m_skip_list, tail, head, late>>

CleanupEnd ==
  /\ cpc = "cleaned"
  /\ cpc' = "sleep"
  /\ UNCHANGED <<cleanerFrame, m_skip_list, tail, head, late>>

-----------------------------------------------------------------------------
Cleaner ==
  \/ CleanupBegin \/ CleanerJoins \/ CleanupHead \/ CleanupCheck
  \/ CleanupRemove \/ CleanupFirst \/ CleanupTest \/ CleanupEnd

(* The last run is over. *)
Finished == mpc = "stopped" /\ runs = MaxRuns /\ UNCHANGED vars

Next ==
  \/ Start \/ StopBegin \/ FlushBegin \/ PopBack \/ FlushEnd
  \/ \E ts \in Timestamps : Write(ts)
  \/ Read
  \/ Cleaner
  \/ Finished

Spec == Init /\ [][Next]_vars

(* The cleaner and stop() go on when they can; a run may last for ever.    *)
FairSpec == Spec /\ WF_vars(Cleaner) /\ WF_vars(FlushBegin \/ PopBack \/ FlushEnd)

-----------------------------------------------------------------------------
(* A cleanup removes only what is at least the maximum distance older than *)
(* the newest element (:23, :26), and it removes all of it: when it is     *)
(* over, what is left is younger than that, or came while it went on.      *)
CleanupIsExact ==
  /\ cpc = "remove" => tail - head >= MaxTsDiff
  /\ cpc = "cleaned" =>
       \A x \in m_skip_list : tail - x < MaxTsDiff \/ x \in late

(* A payload comes in that the cleanup under way will have to remove. *)
LateWrite ==
  \E ts \in Timestamps : Write(ts) /\ ts \notin m_skip_list /\ tail - ts >= MaxTsDiff

(* A cleanup ends unless payloads that are too old for it come in for      *)
(* ever: its loop (:26-36) reads first() anew after each removal, so that  *)
(* it takes along what came meanwhile, but it neither meets a null first() *)
(* (:34) nor runs past the tail it began with, whatever younger payloads   *)
(* come in.                                                                *)
CleanupEnds ==
  <>[][~LateWrite]_vars =>
    ((cpc \notin {"off", "sleep"}) ~> (cpc \in {"off", "sleep"}))

(* read() is to "Move object from LB to referenced"                        *)
(* (LatencyBufferConcept.hpp:53): the element it returns leaves the        *)
(* buffer.                                                                 *)
ReadMoves ==
  [][element' \notin {element, Null} => element' \notin m_skip_list']_vars
=============================================================================
