------------------------ MODULE SkipListBuffer_proofs ------------------------
(***************************************************************************)
(* A cleanup of the skip list removes what is too old, nothing else, and   *)
(* never follows a null pointer, for any timestamps, any maximum distance  *)
(* and whatever is inserted meanwhile.                                     *)
(***************************************************************************)
EXTENDS SkipListBuffer, TLAPS

(* The cleaner holds a tail. *)
Cleaning == {"head", "check", "remove", "first", "test", "cleaned"}

TypeOK ==
  /\ m_skip_list \subseteq Timestamps
  /\ tail \in Pointers /\ head \in Pointers
  /\ late \subseteq Timestamps
  /\ cpc \in Cleaning \cup {"off", "sleep"}

(* The flush has the list to itself. *)
FlushAlone == mpc \in {"flushing", "stopped"} => cpc = "off"

(* The cleanup never removes the tail it began with, so that the list does *)
(* not get empty under it and no difference of timestamps wraps.           *)
TailStays ==
  /\ cpc \in Cleaning /\ tail # Null => tail \in m_skip_list
  /\ cpc \in {"remove", "first", "test", "cleaned"} => tail # Null
  /\ cpc \in {"check", "remove", "test", "cleaned"} /\ tail # Null => head # Null /\ head <= tail

(* After the head has been read, what is before it is late. *)
HeadIsFirst ==
  /\ cpc \in {"test", "cleaned"} => \A x \in m_skip_list : head <= x \/ x \in late
  /\ cpc = "cleaned" => tail - head < MaxTsDiff

CleanupInv ==
  /\ TypeOK /\ FlushAlone /\ TailStays /\ HeadIsFirst
  /\ cpc = "remove" => tail - head >= MaxTsDiff

-----------------------------------------------------------------------------
LEMMA CleanupInit == Init => CleanupInv
BY SkipListAssumption DEF Init, CleanupInv, TypeOK, FlushAlone, TailStays, HeadIsFirst, Cleaning,
   Pointers, Timestamps, Null

(* What the other threads do while a cleanup goes on: they insert. *)
LEMMA OthersStep ==
  ASSUME CleanupInv,
         \/ Start \/ StopBegin \/ FlushBegin \/ PopBack \/ FlushEnd \/ Read \/ Finished
         \/ (\E ts \in Timestamps : Write(ts)) \/ UNCHANGED vars
  PROVE  CleanupInv'
<1> USE SkipListAssumption
    DEF CleanupInv, TypeOK, FlushAlone, TailStays, HeadIsFirst, Cleaning, Pointers, Timestamps, Null
<1>1. CASE Start
  BY <1>1 DEF Start
<1>2. CASE StopBegin
  BY <1>2 DEF StopBegin
<1>3. CASE FlushBegin
  BY <1>3 DEF FlushBegin
<1>4. CASE PopBack
  BY <1>4 DEF PopBack
<1>5. CASE FlushEnd \/ Read
  BY <1>5 DEF FlushEnd, Read
<1>6. ASSUME NEW ts \in Timestamps, Write(ts) PROVE CleanupInv'
  BY <1>6 DEF Write
<1>7. CASE Finished \/ UNCHANGED vars
  BY <1>7 DEF Finished, vars
<1> QED BY <1>1, <1>2, <1>3, <1>4, <1>5, <1>6, <1>7

(* The cleaner's own steps. *)
LEMMA CleanerStep == CleanupInv /\ Cleaner => CleanupInv'
<1> SUFFICES ASSUME CleanupInv, Cleaner PROVE CleanupInv'
  OBVIOUS
<1> USE SkipListAssumption
    DEF CleanupInv, TypeOK, FlushAlone, TailStays, HeadIsFirst, Cleaning, Pointers, Timestamps, Null,
        cleanerFrame
<1>1. CASE CleanupBegin
  BY <1>1 DEF CleanupBegin, IsLast
<1>2. CASE CleanerJoins
  BY <1>2 DEF CleanerJoins
<1>3. CASE CleanupHead
  BY <1>3 DEF CleanupHead, IsFirst
<1>4. CASE CleanupCheck
  BY <1>4 DEF CleanupCheck, Difference
<1>5. CASE CleanupRemove
  BY <1>5 DEF CleanupRemove
<1>6. CASE CleanupFirst
  BY <1>6 DEF CleanupFirst, IsFirst
<1>7. CASE CleanupTest
  BY <1>7 DEF CleanupTest, TooOld, Difference
<1>8. CASE CleanupEnd
  BY <1>8 DEF CleanupEnd
<1> QED BY <1>1, <1>2, <1>3, <1>4, <1>5, <1>6, <1>7, <1>8 DEF Cleaner

LEMMA CleanupSafe == Spec => []CleanupInv
<1>1. CleanupInv /\ [Next]_vars => CleanupInv'
  BY OthersStep, CleanerStep DEF Next
<1> QED BY <1>1, CleanupInit, PTL DEF Spec

(* A cleanup removes just what is too old.                                 *)
THEOREM CleanupExact == Spec => []CleanupIsExact
<1>1. CleanupInv => CleanupIsExact
  <2> SUFFICES ASSUME CleanupInv PROVE CleanupIsExact
    OBVIOUS
  <2>1. CASE cpc = "cleaned"
    <3> SUFFICES ASSUME NEW x \in m_skip_list, x \notin late PROVE tail - x < MaxTsDiff
      BY <2>1 DEF CleanupIsExact
    <3>1. head <= x /\ tail - head < MaxTsDiff
      BY <2>1 DEF CleanupInv, HeadIsFirst
    <3>2. x \in Nat /\ head \in Nat /\ tail \in Nat /\ MaxTsDiff \in Nat
      BY SkipListAssumption DEF CleanupInv, TypeOK, Pointers, Timestamps, Null
    <3> QED BY <3>1, <3>2
  <2>2. CASE cpc # "cleaned"
    BY <2>2 DEF CleanupInv, CleanupIsExact
  <2> QED BY <2>1, <2>2
<1> QED BY <1>1, CleanupSafe, PTL

(* first() is never null when the loop dereferences it (:34), although     *)
(* nothing in the loop tests it.                                           *)
THEOREM HeadNeverNull == Spec => [](cpc = "test" => head # Null)
<1>1. CleanupInv => (cpc = "test" => head # Null)
  BY DEF CleanupInv, TailStays
<1> QED BY <1>1, CleanupSafe, PTL
=============================================================================
