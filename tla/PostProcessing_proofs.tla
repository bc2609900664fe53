------------------------ MODULE PostProcessing_proofs ------------------------
(***************************************************************************)
(* Proofs about PostProcessing, for any number of post-processors, any     *)
(* queues and buffers, any timestamps and any number of runs.              *)
(***************************************************************************)
EXTENDS PostProcessing, FiniteSetTheorems, SequenceTheorems, TLAPS

-----------------------------------------------------------------------------
(* Facts about sets of numbers. *)

(* A set of natural numbers has a least element. *)
LEMMA LeastExists ==
  ASSUME NEW S \in SUBSET Nat, S # {}
  PROVE  \E x \in S : \A y \in S : x <= y
<1> DEFINE R == OpToRel(<, Nat)
<1>1. PICK x \in S : \A y \in S : <<y, x>> \notin R
  <2>1. IsWellFoundedOn(R, Nat)
    BY NatLessThanWellFounded
  <2> HIDE DEF R
  <2> QED
    BY <2>1, WFMin
<1>2. ASSUME NEW y \in S PROVE x <= y
  <2>1. x \in Nat /\ y \in Nat
    OBVIOUS
  <2>2. ~(y < x)
    BY <1>1, <2>1 DEF OpToRel
  <2> QED
    BY <2>1, <2>2
<1> QED
  BY <1>2

(* front() is the least, and back() the greatest, of what is buffered. *)
LEMMA MinIsLeast ==
  ASSUME NEW S \in SUBSET Nat, S # {}
  PROVE  Min(S) \in S /\ \A y \in S : Min(S) <= y
BY LeastExists DEF Min

LEMMA MaxIsGreatest ==
  ASSUME NEW n \in Nat, NEW S \in SUBSET (1 .. n), S # {}
  PROVE  Max(S) \in S /\ \A y \in S : y <= Max(S)
<1> DEFINE T == {n - x : x \in S}
<1>1. T \in SUBSET Nat /\ T # {}
  <2>1. \A x \in S : n - x \in Nat
    OBVIOUS
  <2>2. PICK x \in S : TRUE
    OBVIOUS
  <2> QED
    BY <2>1, <2>2
<1>2. PICK t \in T : \A u \in T : t <= u
  <2> HIDE DEF T
  <2> QED
    BY <1>1, LeastExists
<1>3. PICK x \in S : t = n - x
  OBVIOUS
<1>4. \A y \in S : x >= y
  <2> TAKE y \in S
  <2>1. n - y \in T
    OBVIOUS
  <2>2. n - x <= n - y
    BY <1>2, <1>3, <2>1
  <2> QED
    BY <2>2
<1>5. Max(S) \in S /\ \A y \in S : Max(S) >= y
  BY <1>4 DEF Max
<1> QED
  BY <1>5

-----------------------------------------------------------------------------
(* stop() and the threads.                                                 *)

(* Which threads are at work at each place of start() and stop(): the      *)
(* consumer ends before the buffer is flushed, and a post-processor ends   *)
(* only after the processor was told, with an empty queue.                 *)
DrainInv ==
  /\ mpc \in {"stopped", "running", "joining", "draining"}
  /\ m_run_marker <=> (mpc = "running")
  /\ marker <=> (mpc \in {"running", "joining"})
  /\ mpc \in {"stopped", "draining"} => cpc = "off" /\ lb = {}
  /\ ppc = [p \in Processors |-> ppc[p]] /\ queue = [p \in Processors |-> queue[p]]
  /\ \A p \in Processors :
       /\ mpc \in {"running", "joining"} => ppc[p] # "off"
       /\ mpc = "stopped" => ppc[p] = "off"
       /\ ppc[p] = "off" => queue[p] = << >>

LEMMA InitDrainInv == Init => DrainInv
BY DEF Init, DrainInv

LEMMA NextDrainInv == DrainInv /\ [Next]_vars => DrainInv'
<1> SUFFICES ASSUME DrainInv, [Next]_vars PROVE DrainInv'
  OBVIOUS
<1> USE DEF bufferVars, controlVars, walkVars, postVars, threadVars, consumerFrame
<1>1. CASE Start
  BY <1>1 DEF DrainInv, Start
<1>2. CASE StopBegin
  BY <1>2 DEF DrainInv, StopBegin
<1>3. CASE StopFlush
  BY <1>3 DEF DrainInv, StopFlush
<1>4. CASE StopJoins
  BY <1>4 DEF DrainInv, StopJoins
<1>5. CASE Cleanup
  BY <1>5 DEF DrainInv, Cleanup
<1>6. CASE Consumer
  <2>1. mpc \in {"running", "joining"}
    BY <1>6 DEF DrainInv, Consumer, Receive, ReceiveTimeout, ConsumerJoins, Post, NotYet,
                Look, WalkBegin, WalkEnd, WalkElement, WalkDone
  <2>2. UNCHANGED <<mpc, m_run_marker, marker, ppc>>
    BY <1>6 DEF Consumer, Receive, ReceiveTimeout, ConsumerJoins, Post, NotYet,
                Look, WalkBegin, WalkEnd, WalkElement, WalkDone
  <2>3. queue' = [p \in Processors |-> queue'[p]]
    BY <1>6 DEF DrainInv, Consumer, Receive, ReceiveTimeout, ConsumerJoins, Post, NotYet,
                Look, WalkBegin, WalkEnd, WalkElement, WalkDone, PostprocessItem
  <2> QED
    BY <2>1, <2>2, <2>3 DEF DrainInv
<1>7. ASSUME NEW p \in Processors, Processor(p) PROVE DrainInv'
  <2> USE DEF processorFrame
  <2>1. CASE TakeElement(p)
    BY <2>1 DEF DrainInv, TakeElement
  <2>2. CASE ProcessElement(p)
    BY <2>2 DEF DrainInv, ProcessElement
  <2>3. CASE ProcessorSleeps(p)
    BY <2>3 DEF DrainInv, ProcessorSleeps, vars
  <2>4. CASE ProcessorJoins(p)
    BY <2>4 DEF DrainInv, ProcessorJoins
  <2> QED
    BY <1>7, <2>1, <2>2, <2>3, <2>4 DEF Processor
<1>8. CASE UNCHANGED vars
  BY <1>8 DEF DrainInv, vars
<1> QED
  BY <1>1, <1>2, <1>3, <1>4, <1>5, <1>6, <1>7, <1>8 DEF Next, Finished

LEMMA DrainInvAlways == Spec => []DrainInv
BY InitDrainInv, NextDrainInv, PTL DEF Spec

(* When stop() of DataHandlingModel has returned, the consumer and all     *)
(* post-processors have ended, the buffer is empty and no pointer is left  *)
(* in a queue for the next run.                                            *)
THEOREM Drained == Spec => []DrainedWhenStopped
<1>1. DrainInv => DrainedWhenStopped
  BY DEF DrainInv, DrainedWhenStopped
<1> QED
  BY <1>1, DrainInvAlways, PTL

-----------------------------------------------------------------------------
(* The buffer. *)

TypeInv ==
  /\ conf \in Configurations
  /\ lb \in SUBSET Timestamps
  /\ last \in Nat

LEMMA InitTypeInv == Init => TypeInv
BY DEF Init, TypeInv

LEMMA NextTypeInv == TypeInv /\ [Next]_vars => TypeInv'
<1> SUFFICES ASSUME TypeInv, [Next]_vars PROVE TypeInv'
  OBVIOUS
<1> USE DEF bufferVars, controlVars, walkVars, postVars, threadVars, consumerFrame,
            processorFrame
<1>1. ASSUME UNCHANGED bufferVars PROVE TypeInv'
  BY <1>1 DEF TypeInv
<1>2. ASSUME UNCHANGED <<conf, last>>, lb' \in SUBSET lb PROVE TypeInv'
  BY <1>2 DEF TypeInv
<1>3. ASSUME NEW ts \in Timestamps, Receive(ts) PROVE TypeInv'
  BY <1>3 DEF TypeInv, Receive, Timestamps
<1>4. CASE Start \/ StopBegin \/ StopJoins
  BY <1>1, <1>4 DEF Start, StopBegin, StopJoins
<1>5. CASE StopFlush \/ Cleanup
  BY <1>2, <1>5 DEF StopFlush, Cleanup
<1>6. CASE Consumer
  <2>1. (\E ts \in Timestamps : Receive(ts)) \/ UNCHANGED bufferVars
    BY <1>6 DEF Consumer, ReceiveTimeout, ConsumerJoins, Post, NotYet,
                Look, WalkBegin, WalkEnd, WalkElement, WalkDone
  <2> QED
    BY <2>1, <1>1, <1>3
<1>7. ASSUME NEW p \in Processors, Processor(p) PROVE TypeInv'
  <2>1. UNCHANGED bufferVars
    BY <1>7 DEF Processor, TakeElement, ProcessElement, ProcessorSleeps, ProcessorJoins, vars
  <2> QED
    BY <2>1, <1>1
<1>8. CASE UNCHANGED vars
  BY <1>1, <1>8 DEF vars
<1> QED
  BY <1>4, <1>5, <1>6, <1>7, <1>8 DEF Next, Finished

LEMMA TypeInvAlways == Spec => []TypeInv
BY InitTypeInv, NextTypeInv, PTL DEF Spec

LEMMA ConfigurationTypes ==
  ASSUME TypeInv
  PROVE  /\ conf.ring \in BOOLEAN /\ Delay \in Nat
         /\ lb \in SUBSET Nat /\ IsFiniteSet(lb)
<1>1. IsFiniteSet(Timestamps)
  BY FS_Interval, PostProcessingAssumption DEF Timestamps
<1>2. IsFiniteSet(lb)
  BY <1>1, FS_Subset DEF TypeInv
<1>3. lb \in SUBSET Nat
  BY PostProcessingAssumption DEF TypeInv, Timestamps
<1>4. conf.ring \in BOOLEAN /\ Delay \in Nat
  BY PostProcessingAssumption DEF TypeInv, Delay
<1> QED
  BY <1>2, <1>3, <1>4

(* The boundaries of a buffer that is not empty. *)
LEMMA Boundaries ==
  ASSUME TypeInv, lb # {}
  PROVE  /\ Front \in lb /\ Back \in lb
         /\ Front \in Nat /\ Back \in Nat
         /\ \A x \in lb : Front <= x /\ x <= Back
BY ConfigurationTypes, MinIsLeast, MaxIsGreatest, PostProcessingAssumption
   DEF TypeInv, Front, Back, Timestamps

(* A cleanup of either buffer leaves the newest element. *)
LEMMA CleanupKeepsBack ==
  ASSUME TypeInv, MayRemove
  PROVE  lb # {} /\ Front # Back
<1> USE PostProcessingAssumption, ConfigurationTypes
<1>1. CASE Ring
  <2>1. Cardinality(lb) > Keep
    BY <1>1 DEF MayRemove
  <2>2. Cardinality(lb) \in Nat /\ Cardinality(lb) > 1
    BY <2>1, FS_CardinalityType
  <2>3. lb # {}
    BY <2>2, FS_EmptySet
  <2>4. ASSUME Front = Back PROVE FALSE
    <3>1. lb = {Front}
      BY <2>3, <2>4, Boundaries
    <3> QED
      BY <3>1, <2>2, FS_Singleton
  <2> QED
    BY <2>3, <2>4
<1>2. CASE ~Ring
  <2>1. lb # {} /\ Back - Front >= MaxTsDiff
    BY <1>2 DEF MayRemove
  <2> QED
    BY <2>1, Boundaries
<1> QED
  BY <1>1, <1>2

(* What a sequence holds after an element was appended. *)
LEMMA AppendFacts ==
  ASSUME NEW S, NEW s \in Seq(S), NEW x \in S
  PROVE  /\ Append(s, x) \in Seq(S)
         /\ Len(Append(s, x)) = Len(s) + 1
         /\ Len(s) \in Nat
         /\ \A i \in 1 .. Len(s) : Append(s, x)[i] = s[i]
         /\ Append(s, x)[Len(s) + 1] = x
         /\ Range(Append(s, x)) = Range(s) \cup {x}
<1>1. /\ Append(s, x) \in Seq(S)
      /\ Len(Append(s, x)) = Len(s) + 1
      /\ Len(s) \in Nat
      /\ \A i \in 1 .. Len(s) : Append(s, x)[i] = s[i]
      /\ Append(s, x)[Len(s) + 1] = x
  OBVIOUS
<1>2. DOMAIN s = 1 .. Len(s) /\ DOMAIN Append(s, x) = 1 .. Len(s) + 1
  BY <1>1
<1>3. 1 .. Len(s) + 1 = (1 .. Len(s)) \cup {Len(s) + 1}
  BY <1>1
<1>4. Range(Append(s, x)) = Range(s) \cup {x}
  BY <1>1, <1>2, <1>3 DEF Range
<1> QED
  BY <1>1, <1>4

-----------------------------------------------------------------------------
(* Post-processing without a delay, from a ring.                           *)

(* In the loop of run_consume() all that is buffered has been handed on,   *)
(* but for a payload just written, which is the newest; and nothing that   *)
(* was handed on is newer than all that is buffered.                       *)
ImmediateInv ==
  Delay = 0 =>
    /\ cpc \in {"off", "receive", "post"}
    /\ posted \in Seq(Timestamps)
    /\ \A i \in 1 .. Len(posted) - 1 : posted[i] <= posted[i + 1]
    /\ cpc = "post" => lb # {}
    /\ cpc # "off" =>
         /\ \A x \in lb : x <= last
         /\ \A x \in lb : x \in Range(posted) \/ (cpc = "post" /\ x = last)
         /\ \A i \in 1 .. Len(posted) : \E x \in lb : posted[i] <= x

LEMMA EmptyPosted ==
  /\ << >> \in Seq(Timestamps)
  /\ Len(<< >>) = 0
  /\ Range(<< >>) = {}
BY DEF Range

LEMMA InitImmediateInv == Init => ImmediateInv
BY EmptyPosted DEF Init, ImmediateInv

(* A payload is written: it is the newest if it is accepted, and if not    *)
(* the ring is not empty.                                                  *)
LEMMA ReceiveImmediateInv ==
  ASSUME TypeInv, ImmediateInv, Delay = 0, Ring, NEW ts \in Timestamps, Receive(ts)
  PROVE  ImmediateInv'
<1> USE PostProcessingAssumption, ConfigurationTypes
<1>1. /\ ts \in Nat /\ last \in Nat /\ ts > last /\ last' = ts
      /\ lb' \in {lb, lb \cup {ts}}
      /\ cpc = "receive" /\ cpc' = "post"
      /\ UNCHANGED <<conf, posted>>
  BY DEF Receive, TypeInv, Timestamps, postVars, Delay
<1>2. lb' # {}
  <2>1. CASE Accepts(ts)
    BY <2>1 DEF Receive
  <2>2. CASE ~Accepts(ts)
    <3>1. Cardinality(lb) \in Nat /\ Cardinality(lb) > 0
      BY <2>2, FS_CardinalityType DEF Accepts
    <3> QED
      BY <1>1, <3>1, FS_EmptySet
  <2> QED
    BY <2>1, <2>2
<1>3. Delay' = Delay
  BY <1>1 DEF Delay
<1>4. \A x \in lb : x <= last /\ x \in Range(posted) /\ x \in Nat
  BY <1>1 DEF ImmediateInv
<1>5. \A x \in lb' : x <= last' /\ (x \in Range(posted) \/ x = last')
  BY <1>1, <1>4
<1>6. \A i \in 1 .. Len(posted) : \E x \in lb' : posted[i] <= x
  BY <1>1 DEF ImmediateInv
<1>7. /\ posted \in Seq(Timestamps)
      /\ \A i \in 1 .. Len(posted) - 1 : posted[i] <= posted[i + 1]
  BY DEF ImmediateInv
<1> QED
  BY <1>1, <1>2, <1>3, <1>5, <1>6, <1>7 DEF ImmediateInv

(* The newest is handed on: it is not older than what was handed on        *)
(* before.                                                                 *)
LEMMA PostImmediateInv ==
  ASSUME TypeInv, ImmediateInv, Delay = 0, Post
  PROVE  ImmediateInv'
<1>1. /\ cpc = "post" /\ cpc' = "receive" /\ lb # {}
      /\ UNCHANGED <<conf, lb, last>>
      /\ posted' = Append(posted, Back)
  BY DEF ImmediateInv, Post, PostprocessItem, bufferVars
<1>2. /\ Back \in lb /\ Back \in Nat /\ Back \in Timestamps
      /\ \A x \in lb : x <= Back
      /\ lb \in SUBSET Nat
  BY <1>1, Boundaries, ConfigurationTypes DEF TypeInv
<1>3. /\ posted \in Seq(Timestamps) /\ Len(posted) \in Nat
      /\ \A i \in 1 .. Len(posted) : posted[i] \in Nat
  BY PostProcessingAssumption DEF ImmediateInv, Timestamps
<1>4. /\ posted' \in Seq(Timestamps)
      /\ Len(posted') = Len(posted) + 1
      /\ \A i \in 1 .. Len(posted) : posted'[i] = posted[i]
      /\ posted'[Len(posted) + 1] = Back
      /\ Range(posted') = Range(posted) \cup {Back}
  BY <1>1, <1>2, <1>3, AppendFacts
<1>5. \A i \in 1 .. Len(posted) : posted[i] <= Back
  BY <1>1, <1>2, <1>3 DEF ImmediateInv
<1>6. \A i \in 1 .. Len(posted') - 1 : posted'[i] <= posted'[i + 1]
  <2> TAKE i \in 1 .. Len(posted') - 1
  <2>1. i \in 1 .. Len(posted)
    BY <1>3, <1>4
  <2>2. CASE i = Len(posted)
    BY <1>4, <1>5, <2>1, <2>2
  <2>3. CASE i # Len(posted)
    <3>1. i \in 1 .. Len(posted) - 1 /\ i + 1 \in 1 .. Len(posted)
      BY <1>3, <2>1, <2>3
    <3>2. posted[i] <= posted[i + 1]
      BY <1>1, <3>1 DEF ImmediateInv
    <3> QED
      BY <1>4, <2>1, <3>1, <3>2
  <2> QED
    BY <2>2, <2>3
<1>7. \A i \in 1 .. Len(posted') : \E x \in lb' : posted'[i] <= x
  <2> TAKE i \in 1 .. Len(posted')
  <2>1. i = Len(posted) + 1 \/ i \in 1 .. Len(posted)
    BY <1>3, <1>4
  <2> QED
    BY <1>1, <1>2, <1>4, <1>5, <2>1
<1>8. \A x \in lb : x <= last /\ x \in Range(posted')
  <2> TAKE x \in lb
  <2>1. x <= last /\ (x \in Range(posted) \/ x = last)
    BY <1>1 DEF ImmediateInv
  <2>2. ASSUME x = last PROVE x = Back
    <3>1. Back <= last
      BY <1>1, <1>2 DEF ImmediateInv
    <3>2. x <= Back /\ x \in Nat
      BY <1>2
    <3> QED
      BY <1>2, <2>2, <3>1, <3>2
  <2> QED
    BY <1>4, <2>1, <2>2
<1>9. Delay' = Delay
  BY <1>1 DEF Delay
<1> QED
  BY <1>1, <1>4, <1>6, <1>7, <1>8, <1>9 DEF ImmediateInv

LEMMA NextImmediateInv ==
  ASSUME \A c \in Configurations : c.delay = 0 => c.ring
  PROVE  TypeInv /\ DrainInv /\ ImmediateInv /\ [Next]_vars => ImmediateInv'
<1> SUFFICES ASSUME TypeInv, DrainInv, ImmediateInv, [Next]_vars PROVE ImmediateInv'
  OBVIOUS
<1> USE DEF bufferVars, controlVars, walkVars, postVars, threadVars, consumerFrame,
            processorFrame
<1>1. UNCHANGED conf
  BY DEF Next, Start, StopBegin, StopFlush, StopJoins, Cleanup, Consumer, Receive,
         ReceiveTimeout, ConsumerJoins, Post, NotYet, Look, WalkBegin, WalkEnd, WalkElement,
         WalkDone, Processor, TakeElement, ProcessElement, ProcessorSleeps, ProcessorJoins,
         Finished, vars
<1>2. Delay' = Delay
  BY <1>1 DEF Delay
<1>3. CASE Delay # 0
  BY <1>2, <1>3 DEF ImmediateInv
<1>4. CASE Delay = 0
  <2> USE <1>4
  <2>0. Ring
    BY DEF TypeInv, Delay, Ring
  <2>1. cpc \in {"off", "receive", "post"}
    BY DEF ImmediateInv
  <2>2. ASSUME UNCHANGED <<bufferVars, posted>>, cpc' = cpc \/ cpc' = "off"
                 \/ (cpc' = "receive" /\ cpc = "receive")
        PROVE  ImmediateInv'
    BY <1>2, <2>1, <2>2 DEF ImmediateInv
  <2>3. CASE Start
    BY <1>2, <2>3, EmptyPosted DEF Start, DrainInv, ImmediateInv
  <2>4. CASE StopBegin \/ StopJoins
    BY <2>2, <2>4 DEF StopBegin, StopJoins
  <2>5. CASE StopFlush
    BY <1>2, <2>5 DEF StopFlush, ImmediateInv
  <2>6. CASE Cleanup
    <3>1. /\ lb' = lb \ {Front} /\ Back \in lb' /\ \A x \in lb : x <= Back
          /\ lb \in SUBSET Nat
      BY <2>6, CleanupKeepsBack, Boundaries, ConfigurationTypes DEF Cleanup
    <3>2. UNCHANGED <<last, cpc, posted>>
      BY <2>6 DEF Cleanup
    <3>3. \A i \in 1 .. Len(posted) : posted[i] \in Nat
      BY PostProcessingAssumption DEF ImmediateInv, Timestamps
    <3>4. ASSUME cpc # "off", NEW i \in 1 .. Len(posted) PROVE posted[i] <= Back
      BY <3>1, <3>3, <3>4 DEF ImmediateInv
    <3> QED
      BY <1>2, <3>1, <3>2, <3>4 DEF ImmediateInv
  <2>7. CASE Consumer
    <3>1. ASSUME NEW ts \in Timestamps, Receive(ts) PROVE ImmediateInv'
      BY <2>0, <3>1, ReceiveImmediateInv
    <3>2. CASE ReceiveTimeout \/ ConsumerJoins
      BY <2>2, <3>2 DEF ReceiveTimeout, ConsumerJoins
    <3>3. CASE Post
      BY <3>3, PostImmediateInv
    <3>4. ~(NotYet \/ Look \/ WalkBegin \/ WalkEnd \/ WalkElement \/ WalkDone)
      BY <2>1 DEF NotYet, Look, WalkBegin, WalkEnd, WalkElement, WalkDone
    <3> QED
      BY <2>7, <3>1, <3>2, <3>3, <3>4 DEF Consumer
  <2>8. ASSUME NEW p \in Processors, Processor(p) PROVE ImmediateInv'
    <3>1. UNCHANGED <<bufferVars, posted, cpc>>
      BY <2>8 DEF Processor, TakeElement, ProcessElement, ProcessorSleeps, ProcessorJoins, vars
    <3> QED
      BY <2>2, <3>1
  <2>9. CASE UNCHANGED vars
    BY <2>2, <2>9 DEF vars
  <2> QED
    BY <2>3, <2>4, <2>5, <2>6, <2>7, <2>8, <2>9 DEF Next, Finished
<1> QED
  BY <1>3, <1>4

(* Without a delay every element of the ring has been handed to the        *)
(* post-processors when the next payload is received, in the order of      *)
(* timestamps, for every capacity, also when the ring overflows and        *)
(* whatever cleanups remove (process_item of DataHandlingModel).  The      *)
(* buffer has to be a ring, which is fed in the order of timestamps.       *)
THEOREM ImmediateSafety ==
  ASSUME \A c \in Configurations : c.delay = 0 => c.ring
  PROVE  Spec => []EveryAcceptedPosted
<1>1. ImmediateInv => EveryAcceptedPosted
  BY DEF ImmediateInv, EveryAcceptedPosted
<1> QED
  BY <1>1, InitImmediateInv, NextImmediateInv, TypeInvAlways, DrainInvAlways, PTL DEF Spec

-----------------------------------------------------------------------------
(* Post-processing with a delay, from a skip list.                         *)

(* What a pass has yet to hand on begins at from: everything handed on is  *)
(* older, and everything older that is buffered was handed on or came too  *)
(* late.                                                                   *)
HandedOnUpTo(from) ==
  /\ \A i \in 1 .. Len(posted) : posted[i] < from
  /\ \A x \in lb : x < from => x \in Range(posted) \cup tardy

(* The newest timestamp that the pass has read is still the newest.        *)
NewestInv == newest_ts \in lb /\ \A x \in lb : x <= newest_ts

(* Between the two searches: where the walk begins may be removed by a     *)
(* cleanup meanwhile, but not if it is to be left for the next pass.       *)
SearchInv ==
  /\ processed_ts = newest_ts - Delay
  /\ \A x \in lb : x >= processed_ts => iter <= x
  /\ iter >= processed_ts => iter \in lb

(* The walk ends at the first element that is left for the next pass, and  *)
(* meets it, because no cleanup removes it.                                *)
EndInv ==
  /\ processed_ts = newest_ts - Delay
  /\ end_iter \in lb /\ iter <= end_iter /\ processed_ts <= end_iter
  /\ iter # end_iter => iter < processed_ts
  /\ \A x \in lb : x < end_iter => x < processed_ts

(* A run's first pass has no place to go on from; later there is always    *)
(* something buffered from there on.                                       *)
CycleInv ==
  /\ first_cycle => processed_ts = 0 /\ cpc \in {"receive", "look"}
  /\ ~first_cycle => \E y \in lb : processed_ts <= y

PassInv ==
  /\ cpc \in {"receive", "look", "begin", "end", "walk"}
  /\ processed_ts \in Nat /\ newest_ts \in Nat
  /\ CycleInv
  /\ \A i \in 1 .. Len(posted) : posted[i] < processed_ts
  /\ cpc \in {"receive", "look", "begin"} => HandedOnUpTo(processed_ts)
  /\ cpc \in {"begin", "end", "walk"} => NewestInv
  /\ cpc = "begin" => newest_ts - processed_ts > Delay
  /\ cpc \in {"end", "walk"} => iter \in Timestamps /\ HandedOnUpTo(iter)
  /\ cpc = "end" => SearchInv
  /\ cpc = "walk" => EndInv

DelayedInv ==
  Delay > 0 =>
    /\ posted \in Seq(Timestamps)
    /\ \A i \in 1 .. Len(posted) - 1 : posted[i] < posted[i + 1]
    /\ cpc # "off" => PassInv

(* What the steps of a delayed pass start from. *)
Delayed == TypeInv /\ Delay > 0 /\ ~Ring /\ Delay < MaxTsDiff /\ DelayedInv

LEMMA DelayedTypes ==
  ASSUME Delayed
  PROVE  /\ Delay \in Nat /\ lb \in SUBSET Nat /\ Timestamps \in SUBSET Nat
         /\ posted \in Seq(Timestamps) /\ Len(posted) \in Nat
         /\ \A i \in 1 .. Len(posted) : posted[i] \in Nat
<1>1. Timestamps \in SUBSET Nat
  BY PostProcessingAssumption DEF Timestamps
<1>2. posted \in Seq(Timestamps)
  BY DEF Delayed, DelayedInv
<1>3. Len(posted) \in Nat /\ \A i \in 1 .. Len(posted) : posted[i] \in Timestamps
  BY <1>2
<1>4. Delay \in Nat /\ lb \in SUBSET Nat
  BY ConfigurationTypes DEF Delayed
<1> QED
  BY <1>1, <1>2, <1>3, <1>4

(* A payload that comes after its time was over is tardy. *)
LEMMA ReceiveDelayedInv ==
  ASSUME Delayed, NEW ts \in Timestamps, Receive(ts)
  PROVE  DelayedInv'
<1> USE DelayedTypes
<1>1. /\ cpc = "receive" /\ cpc' = "look"
      /\ lb' = lb \cup {ts}
      /\ tardy' = IF ~first_cycle /\ ts < processed_ts THEN tardy \cup {ts} ELSE tardy
      /\ UNCHANGED <<conf, walkVars, posted>>
  BY DEF Delayed, Receive, Accepts, postVars
<1>2. PassInv
  BY <1>1 DEF Delayed, DelayedInv
<1>3. ts \in Nat /\ processed_ts \in Nat /\ ts > 0
  BY <1>2, PostProcessingAssumption DEF PassInv, Timestamps
<1>4. CycleInv'
  BY <1>1, <1>2 DEF PassInv, CycleInv, walkVars
<1>5. HandedOnUpTo(processed_ts)'
  <2>1. HandedOnUpTo(processed_ts)
    BY <1>1, <1>2 DEF PassInv
  <2>2. ts < processed_ts => ts \in tardy'
    BY <1>1, <1>2, <1>3 DEF PassInv, CycleInv
  <2>3. tardy \subseteq tardy'
    BY <1>1
  <2> QED
    BY <1>1, <2>1, <2>2, <2>3 DEF HandedOnUpTo, walkVars
<1>6. PassInv'
  BY <1>1, <1>2, <1>4, <1>5 DEF PassInv, walkVars
<1> QED
  BY <1>1, <1>6 DEF Delayed, DelayedInv, Delay

(* The pass looks at the boundaries of the buffer.  The newest timestamp   *)
(* is not before where the last pass ended, so that the difference does    *)
(* not wrap.                                                               *)
LEMMA LookDelayedInv ==
  ASSUME Delayed, Look
  PROVE  DelayedInv'
<1> USE DelayedTypes
<1>1. /\ cpc = "look" /\ lb # {}
      /\ newest_ts' = Back
      /\ processed_ts' = IF first_cycle THEN Front ELSE processed_ts
      /\ first_cycle' = FALSE
      /\ cpc' = IF newest_ts' < processed_ts' \/ newest_ts' - processed_ts' > Delay
                THEN "begin" ELSE "receive"
      /\ UNCHANGED <<conf, lb, tardy, posted>>
  BY DEF Look, postVars, bufferVars
<1>2. PassInv
  BY <1>1 DEF Delayed, DelayedInv
<1>3. /\ Front \in lb /\ Back \in lb /\ Front \in Nat /\ Back \in Nat
      /\ \A x \in lb : Front <= x /\ x <= Back
  BY <1>1, Boundaries DEF Delayed
<1>4. processed_ts' \in Nat /\ newest_ts' \in Nat
  BY <1>1, <1>2, <1>3 DEF PassInv
<1>5. CycleInv' /\ processed_ts' <= Back
  BY <1>1, <1>2, <1>3 DEF PassInv, CycleInv
<1>6. \A i \in 1 .. Len(posted) : posted[i] < processed_ts'
  BY <1>1, <1>2, <1>3 DEF PassInv, CycleInv
<1>7. HandedOnUpTo(processed_ts)'
  <2>1. \A x \in lb : x < processed_ts' => x \in Range(posted) \cup tardy
    BY <1>1, <1>2, <1>3 DEF PassInv, HandedOnUpTo
  <2> QED
    BY <1>1, <1>6, <2>1 DEF HandedOnUpTo
<1>8. NewestInv'
  BY <1>1, <1>3 DEF NewestInv
<1>9. cpc' = "begin" => newest_ts' - processed_ts' > Delay
  BY <1>1, <1>4, <1>5
<1>10. cpc' \in {"begin", "receive"}
  BY <1>1
<1>11. Delay' = Delay
  BY <1>1 DEF Delay
<1>12. PassInv'
  BY <1>1, <1>4, <1>5, <1>6, <1>7, <1>8, <1>9, <1>10, <1>11 DEF PassInv
<1> QED
  BY <1>1, <1>11, <1>12 DEF Delayed, DelayedInv

(* The least element that is not before ts, which there is. *)
LEMMA LowerBoundFound ==
  ASSUME Delayed, NEW ts \in Nat, \E y \in lb : ts <= y
  PROVE  /\ LowerBound(ts) \in lb /\ LowerBound(ts) >= ts
         /\ \A x \in lb : x >= ts => LowerBound(ts) <= x
<1> USE DelayedTypes
<1> DEFINE above == {x \in lb : x >= ts}
<1>1. above \in SUBSET Nat /\ above # {}
  OBVIOUS
<1>2. LowerBound(ts) = Min(above)
  BY <1>1 DEF LowerBound, Delayed
<1>3. Min(above) \in above /\ \A x \in above : Min(above) <= x
  <2> HIDE DEF above
  <2> QED
    BY <1>1, MinIsLeast
<1> QED
  BY <1>2, <1>3

(* The walk begins at the first element that was not handed on. *)
LEMMA WalkBeginDelayedInv ==
  ASSUME Delayed, WalkBegin
  PROVE  DelayedInv'
<1> USE DelayedTypes
<1>1. /\ cpc = "begin" /\ cpc' = "end"
      /\ iter' = LowerBound(processed_ts)
      /\ processed_ts' = newest_ts - Delay
      /\ UNCHANGED <<conf, lb, tardy, posted, first_cycle, newest_ts>>
  BY DEF WalkBegin, postVars, bufferVars
<1>2. PassInv
  BY <1>1 DEF Delayed, DelayedInv
<1>3. /\ processed_ts \in Nat /\ newest_ts \in Nat /\ newest_ts \in lb
      /\ newest_ts - processed_ts > Delay
      /\ NewestInv /\ HandedOnUpTo(processed_ts) /\ ~first_cycle
  BY <1>1, <1>2 DEF PassInv, NewestInv, CycleInv
<1>4. /\ processed_ts' \in Nat /\ processed_ts < processed_ts' /\ processed_ts' <= newest_ts
      /\ processed_ts <= newest_ts
  BY <1>1, <1>3
<1>5. /\ iter' \in lb /\ iter' >= processed_ts /\ iter' \in Nat
      /\ \A x \in lb : x >= processed_ts => iter' <= x
  BY <1>1, <1>3, <1>4, LowerBoundFound
<1>6. HandedOnUpTo(iter)'
  BY <1>1, <1>3, <1>5 DEF HandedOnUpTo
<1>7. SearchInv'
  BY <1>1, <1>3, <1>4, <1>5 DEF SearchInv, Delay
<1>8. CycleInv' /\ NewestInv'
  BY <1>1, <1>3, <1>4 DEF CycleInv, NewestInv
<1>9. \A i \in 1 .. Len(posted) : posted[i] < processed_ts'
  BY <1>3, <1>4 DEF HandedOnUpTo
<1>10. PassInv'
  BY <1>1, <1>3, <1>4, <1>5, <1>6, <1>7, <1>8, <1>9 DEF PassInv, Delayed, TypeInv
<1> QED
  BY <1>1, <1>10 DEF Delayed, DelayedInv, Delay

(* It ends at the first element that is left for the next pass. *)
LEMMA WalkEndDelayedInv ==
  ASSUME Delayed, WalkEnd
  PROVE  DelayedInv'
<1> USE DelayedTypes
<1>1. /\ cpc = "end" /\ cpc' = "walk"
      /\ end_iter' = LowerBound(processed_ts)
      /\ UNCHANGED <<conf, lb, tardy, posted, first_cycle, newest_ts, processed_ts, iter>>
  BY DEF WalkEnd, postVars, bufferVars
<1>2. PassInv
  BY <1>1 DEF Delayed, DelayedInv
<1>3. /\ processed_ts \in Nat /\ newest_ts \in Nat /\ ~first_cycle
      /\ iter \in Timestamps /\ HandedOnUpTo(iter)
      /\ SearchInv /\ NewestInv
  BY <1>1, <1>2 DEF PassInv, CycleInv
<1>4. \E y \in lb : processed_ts <= y
  BY <1>2, <1>3 DEF PassInv, CycleInv
<1>5. /\ end_iter' \in lb /\ end_iter' >= processed_ts
      /\ \A x \in lb : x >= processed_ts => end_iter' <= x
  BY <1>1, <1>3, <1>4, LowerBoundFound
<1>6. EndInv'
  <2>1. iter <= end_iter' /\ iter \in Nat /\ end_iter' \in Nat
    BY <1>3, <1>5 DEF SearchInv
  <2>2. iter # end_iter' => iter < processed_ts
    BY <1>3, <1>5, <2>1 DEF SearchInv
  <2>3. \A x \in lb : x < end_iter' => x < processed_ts
    BY <1>3, <1>5, <2>1
  <2>4. processed_ts' = newest_ts' - Delay'
    BY <1>1, <1>3 DEF SearchInv, Delay
  <2> QED
    BY <1>1, <1>5, <2>1, <2>2, <2>3, <2>4 DEF EndInv
<1>7. HandedOnUpTo(iter)' /\ CycleInv' /\ NewestInv'
  BY <1>1, <1>2, <1>3, <1>4 DEF HandedOnUpTo, CycleInv, NewestInv
<1>8. PassInv'
  BY <1>1, <1>2, <1>3, <1>6, <1>7 DEF PassInv
<1> QED
  BY <1>1, <1>8 DEF Delayed, DelayedInv, Delay

(* An element is handed on.  It is newer than what was handed on before,   *)
(* and older than where the pass will go on.                               *)
LEMMA WalkElementDelayedInv ==
  ASSUME Delayed, WalkElement
  PROVE  DelayedInv'
<1> USE DelayedTypes
<1>1. /\ cpc = "walk" /\ cpc' = "walk" /\ iter # end_iter
      /\ posted' = Append(posted, iter)
      /\ iter' = Successor(iter)
      /\ UNCHANGED <<conf, lb, tardy, first_cycle, newest_ts, processed_ts, end_iter>>
  BY DEF WalkElement, PostprocessItem, bufferVars
<1>2. PassInv
  BY <1>1 DEF Delayed, DelayedInv
<1>3. /\ processed_ts \in Nat
      /\ lb \subseteq Timestamps /\ iter \in Timestamps /\ HandedOnUpTo(iter)
      /\ end_iter \in lb /\ iter <= end_iter
      /\ iter \in Nat /\ end_iter \in Nat
      /\ iter # end_iter => iter < processed_ts
      /\ \A x \in lb : x < end_iter => x < processed_ts
  BY <1>1, <1>2 DEF PassInv, EndInv, Delayed, TypeInv
<1>4. iter < end_iter /\ iter < processed_ts
  BY <1>1, <1>3
<1>5. /\ posted' \in Seq(Timestamps)
      /\ Len(posted') = Len(posted) + 1
      /\ \A i \in 1 .. Len(posted) : posted'[i] = posted[i]
      /\ posted'[Len(posted) + 1] = iter
      /\ Range(posted') = Range(posted) \cup {iter}
  BY <1>1, <1>3, AppendFacts
<1>6. /\ iter' \in lb /\ iter' > iter /\ iter' \in Nat
      /\ \A y \in lb : y > iter => iter' <= y
  <2> DEFINE after == {y \in lb : y > iter}
  <2>1. after \in SUBSET Nat /\ after # {}
    BY <1>3, <1>4
  <2>2. iter' = Min(after)
    BY <1>1, <2>1 DEF Successor, Delayed
  <2>3. Min(after) \in after /\ \A y \in after : Min(after) <= y
    <3> HIDE DEF after
    <3> QED
      BY <2>1, MinIsLeast
  <2> QED
    BY <2>1, <2>2, <2>3
<1>7. \A i \in 1 .. Len(posted') : posted'[i] < processed_ts /\ posted'[i] < iter'
  <2> TAKE i \in 1 .. Len(posted')
  <2>1. i = Len(posted) + 1 \/ i \in 1 .. Len(posted)
    BY <1>5
  <2>2. CASE i = Len(posted) + 1
    BY <1>4, <1>5, <1>6, <2>2
  <2>3. CASE i \in 1 .. Len(posted)
    <3>1. posted[i] < iter /\ posted[i] \in Nat
      BY <1>3, <2>3 DEF HandedOnUpTo
    <3> QED
      BY <1>3, <1>4, <1>5, <1>6, <2>3, <3>1
  <2> QED
    BY <2>1, <2>2, <2>3
<1>8. HandedOnUpTo(iter)'
  <2>1. ASSUME NEW x \in lb, x < iter' PROVE x \in Range(posted') \cup tardy
    <3>1. x \in Nat /\ ~(x > iter)
      BY <1>3, <1>6, <2>1
    <3>2. x < iter \/ x = iter
      BY <1>3, <3>1
    <3> QED
      BY <1>3, <1>5, <2>1, <3>2 DEF HandedOnUpTo
  <2> QED
    BY <1>1, <1>7, <2>1 DEF HandedOnUpTo
<1>9. \A i \in 1 .. Len(posted') - 1 : posted'[i] < posted'[i + 1]
  <2> TAKE i \in 1 .. Len(posted') - 1
  <2>1. i \in 1 .. Len(posted)
    BY <1>5
  <2>2. CASE i = Len(posted)
    <3>1. posted[i] < iter
      BY <1>3, <2>1 DEF HandedOnUpTo
    <3> QED
      BY <1>5, <2>1, <2>2, <3>1
  <2>3. CASE i # Len(posted)
    <3>1. i \in 1 .. Len(posted) - 1 /\ i + 1 \in 1 .. Len(posted)
      BY <2>1, <2>3
    <3>2. posted[i] < posted[i + 1]
      BY <3>1 DEF Delayed, DelayedInv
    <3> QED
      BY <1>5, <2>1, <3>1, <3>2
  <2> QED
    BY <2>2, <2>3
<1>10. EndInv' /\ CycleInv' /\ NewestInv'
  <2>1. iter' <= end_iter /\ (iter' # end_iter => iter' < processed_ts)
    BY <1>3, <1>4, <1>6
  <2>2. Delay' = Delay
    BY <1>1 DEF Delay
  <2> QED
    BY <1>1, <1>2, <1>3, <2>1, <2>2 DEF PassInv, EndInv, CycleInv, NewestInv
<1>11. PassInv'
  BY <1>1, <1>2, <1>3, <1>6, <1>7, <1>8, <1>10 DEF PassInv
<1> QED
  BY <1>1, <1>5, <1>9, <1>11 DEF DelayedInv

(* The pass is over: all that is older than where the next one begins was  *)
(* handed on.                                                              *)
LEMMA WalkDoneDelayedInv ==
  ASSUME Delayed, WalkDone
  PROVE  DelayedInv'
<1> USE DelayedTypes
<1>1. /\ cpc = "walk" /\ cpc' = "receive" /\ iter = end_iter
      /\ UNCHANGED <<conf, lb, tardy, posted, walkVars>>
  BY DEF WalkDone, bufferVars, postVars
<1>2. PassInv
  BY <1>1 DEF Delayed, DelayedInv
<1>3. /\ processed_ts \in Nat /\ processed_ts <= iter /\ iter \in Nat /\ HandedOnUpTo(iter)
      /\ \A i \in 1 .. Len(posted) : posted[i] < processed_ts
  BY <1>1, <1>2 DEF PassInv, EndInv
<1>4. HandedOnUpTo(processed_ts)'
  BY <1>1, <1>3 DEF HandedOnUpTo, walkVars
<1>5. CycleInv'
  BY <1>1, <1>2 DEF PassInv, CycleInv, walkVars
<1>6. PassInv'
  BY <1>1, <1>2, <1>4, <1>5 DEF PassInv, walkVars
<1> QED
  BY <1>1, <1>6 DEF Delayed, DelayedInv, Delay

(* A cleanup takes nothing that the present walk leaves for the next pass: *)
(* that is at most Delay older than the newest.                            *)
LEMMA CleanupDelayedInv ==
  ASSUME Delayed, Cleanup
  PROVE  DelayedInv'
<1> USE DelayedTypes
<1>1. /\ lb # {} /\ Front # Back /\ lb' = lb \ {Front}
      /\ Back - Front >= MaxTsDiff
      /\ UNCHANGED <<conf, cpc, tardy, posted, walkVars>>
  BY CleanupKeepsBack DEF Cleanup, MayRemove, Delayed, postVars
<1>2. /\ Front \in lb /\ Back \in lb /\ Front \in Nat /\ Back \in Nat
      /\ \A x \in lb : Front <= x /\ x <= Back
      /\ Back \in lb'
  BY <1>1, Boundaries DEF Delayed
<1>3. ASSUME cpc # "off" PROVE PassInv'
  <2>1. PassInv
    BY <1>3 DEF Delayed, DelayedInv
  <2>2. CycleInv'
    BY <1>1, <1>2, <2>1 DEF PassInv, CycleInv, walkVars
  <2>3. \A y : HandedOnUpTo(y) => HandedOnUpTo(y)'
    BY <1>1 DEF HandedOnUpTo
  <2>4. NewestInv => NewestInv' /\ newest_ts = Back
    BY <1>1, <1>2 DEF NewestInv, walkVars
  <2>5. CASE cpc = "end"
    <3>1. /\ NewestInv /\ SearchInv /\ iter \in Timestamps
          /\ processed_ts \in Nat /\ newest_ts \in Nat
      BY <2>1, <2>5 DEF PassInv
    <3>2. Front < processed_ts
      BY <1>1, <1>2, <2>4, <3>1, PostProcessingAssumption DEF SearchInv, Delayed
    <3>3. SearchInv'
      BY <1>1, <1>2, <3>1, <3>2 DEF SearchInv, walkVars, Delay
    <3>4. HandedOnUpTo(iter)'
      BY <1>1, <2>1, <2>5 DEF PassInv, HandedOnUpTo, walkVars
    <3> QED
      BY <1>1, <2>1, <2>2, <2>4, <2>5, <3>1, <3>3, <3>4 DEF PassInv, walkVars
  <2>6. CASE cpc = "walk"
    <3>1. /\ NewestInv /\ EndInv /\ iter \in Timestamps
          /\ processed_ts \in Nat /\ newest_ts \in Nat
      BY <2>1, <2>6 DEF PassInv
    <3>2. Front < processed_ts
      BY <1>1, <1>2, <2>4, <3>1, PostProcessingAssumption DEF EndInv, Delayed
    <3>3. end_iter \in lb'
      BY <1>1, <1>2, <3>1, <3>2 DEF EndInv
    <3>4. EndInv'
      BY <1>1, <3>1, <3>3 DEF EndInv, walkVars, Delay
    <3>5. HandedOnUpTo(iter)'
      BY <1>1, <2>1, <2>6 DEF PassInv, HandedOnUpTo, walkVars
    <3> QED
      BY <1>1, <2>1, <2>2, <2>4, <2>6, <3>1, <3>4, <3>5 DEF PassInv, walkVars
  <2>7. CASE cpc \in {"receive", "look", "begin"}
    <3>1. HandedOnUpTo(processed_ts)'
      BY <1>1, <2>1, <2>7 DEF PassInv, HandedOnUpTo, walkVars
    <3>2. Delay' = Delay
      BY <1>1 DEF Delay
    <3> QED
      BY <1>1, <2>1, <2>2, <2>4, <2>7, <3>1, <3>2 DEF PassInv, walkVars
  <2> QED
    BY <2>1, <2>5, <2>6, <2>7 DEF PassInv
<1> QED
  BY <1>1, <1>3 DEF Delayed, DelayedInv, Delay

LEMMA InitDelayedInv == Init => DelayedInv
BY EmptyPosted DEF Init, DelayedInv

LEMMA NextDelayedInv ==
  ASSUME \A c \in Configurations : c.delay > 0 => ~c.ring /\ c.delay < MaxTsDiff
  PROVE  TypeInv /\ DrainInv /\ DelayedInv /\ [Next]_vars => DelayedInv'
<1> SUFFICES ASSUME TypeInv, DrainInv, DelayedInv, [Next]_vars PROVE DelayedInv'
  OBVIOUS
<1> USE DEF bufferVars, controlVars, postVars, threadVars, consumerFrame, processorFrame
<1>1. UNCHANGED conf
  BY DEF Next, Start, StopBegin, StopFlush, StopJoins, Cleanup, Consumer, Receive,
         ReceiveTimeout, ConsumerJoins, Post, NotYet, Look, WalkBegin, WalkEnd, WalkElement,
         WalkDone, Processor, TakeElement, ProcessElement, ProcessorSleeps, ProcessorJoins,
         Finished, vars
<1>2. Delay' = Delay
  BY <1>1 DEF Delay
<1>3. CASE ~(Delay > 0)
  BY <1>2, <1>3 DEF DelayedInv
<1>4. CASE Delay > 0
  <2>0. Delayed
    BY <1>4 DEF TypeInv, Delay, Ring, Delayed
  <2>1. ASSUME UNCHANGED <<conf, lb, tardy, posted, walkVars>>,
               \/ cpc' \in {cpc, "off"}
               \/ cpc \in {"receive", "look"} /\ cpc' \in {"receive", "look"}
        PROVE  DelayedInv'
    <3>1. ASSUME cpc' # "off" PROVE PassInv'
      <4>1. PassInv
        BY <1>4, <2>1, <3>1 DEF DelayedInv
      <4>2. /\ CycleInv' /\ NewestInv' = NewestInv
            /\ SearchInv' = SearchInv /\ EndInv' = EndInv
            /\ HandedOnUpTo(iter)' = HandedOnUpTo(iter)
            /\ HandedOnUpTo(processed_ts)' = HandedOnUpTo(processed_ts)
        BY <1>2, <2>1, <3>1, <4>1 DEF PassInv, CycleInv, NewestInv, SearchInv, EndInv,
                                      HandedOnUpTo, walkVars
      <4> QED
        BY <1>2, <2>1, <3>1, <4>1, <4>2 DEF PassInv, walkVars
    <3> QED
      BY <1>2, <1>4, <2>1, <3>1 DEF DelayedInv
  <2>2. CASE Start
    <3>1. /\ lb = {} /\ UNCHANGED lb /\ posted' = << >> /\ cpc' = "receive"
          /\ first_cycle' /\ newest_ts' = 0 /\ processed_ts' = 0
      BY <2>2 DEF Start, DrainInv
    <3>2. CycleInv' /\ HandedOnUpTo(processed_ts)'
      BY <3>1, EmptyPosted DEF CycleInv, HandedOnUpTo
    <3>3. PassInv'
      BY <3>1, <3>2, EmptyPosted DEF PassInv
    <3> QED
      BY <3>1, <3>3, EmptyPosted DEF DelayedInv
  <2>3. CASE StopBegin \/ StopJoins
    BY <2>1, <2>3 DEF StopBegin, StopJoins
  <2>4. CASE StopFlush
    BY <1>2, <1>4, <2>4 DEF StopFlush, DelayedInv
  <2>5. CASE Cleanup
    BY <2>0, <2>5, CleanupDelayedInv
  <2>6. CASE Consumer
    <3>1. ASSUME NEW ts \in Timestamps, Receive(ts) PROVE DelayedInv'
      BY <2>0, <3>1, ReceiveDelayedInv
    <3>2. CASE ReceiveTimeout \/ ConsumerJoins \/ NotYet
      BY <1>4, <2>1, <3>2 DEF ReceiveTimeout, ConsumerJoins, NotYet
    <3>3. ~Post
      BY <1>4 DEF Post, DelayedInv, PassInv
    <3> QED
      BY <2>0, <2>6, <3>1, <3>2, <3>3, LookDelayedInv, WalkBeginDelayedInv, WalkEndDelayedInv,
         WalkElementDelayedInv, WalkDoneDelayedInv DEF Consumer
  <2>7. ASSUME NEW p \in Processors, Processor(p) PROVE DelayedInv'
    <3>1. UNCHANGED <<conf, lb, tardy, posted, walkVars, cpc>>
      BY <2>7 DEF Processor, TakeElement, ProcessElement, ProcessorSleeps, ProcessorJoins, vars
    <3> QED
      BY <2>1, <3>1
  <2>8. CASE UNCHANGED vars
    BY <2>1, <2>8 DEF vars
  <2> QED
    BY <2>2, <2>3, <2>4, <2>5, <2>6, <2>7, <2>8 DEF Next, Finished
<1> QED
  BY <1>3, <1>4

(* With a delay, and a skip list, an element is handed to the              *)
(* post-processors at most once and in the order of timestamps, however    *)
(* late payloads come, and all that is older than where the next pass      *)
(* begins was handed on or came too late (run_consume of                   *)
(* DataHandlingModel).  The delay has to be less than the age at which the *)
(* skip list's cleanup removes elements.                                   *)
THEOREM DelayedSafety ==
  ASSUME \A c \in Configurations : c.delay > 0 => ~c.ring /\ c.delay < MaxTsDiff
  PROVE  Spec => []PostedOnceInOrder
<1>1. TypeInv /\ DelayedInv => PostedOnceInOrder
  BY DEF DelayedInv, PassInv, HandedOnUpTo, PostedOnceInOrder
<1> QED
  BY <1>1, InitDelayedInv, NextDelayedInv, TypeInvAlways, DrainInvAlways, PTL DEF Spec

(* In these configurations no walk hands on end(), and no post-processor   *)
(* is given the back() of an empty buffer (process_item and run_consume of *)
(* DataHandlingModel).                                                     *)
THEOREM PostsElements ==
  ASSUME \A c \in Configurations :
           IF c.delay = 0 THEN c.ring ELSE ~c.ring /\ c.delay < MaxTsDiff
  PROVE  Spec => []PostsElementsOnly
<1>1. ASSUME NEW c \in Configurations
      PROVE  (c.delay = 0 => c.ring) /\ (c.delay > 0 => ~c.ring /\ c.delay < MaxTsDiff)
  BY PostProcessingAssumption
<1>2. ASSUME TypeInv, ImmediateInv, DelayedInv PROVE PostsElementsOnly
  <2>1. posted \in Seq(Timestamps)
    BY <1>2, ConfigurationTypes DEF ImmediateInv, DelayedInv
  <2>2. \A i \in DOMAIN posted : posted[i] \in Timestamps
    BY <2>1
  <2>3. End \notin Timestamps
    BY PostProcessingAssumption DEF End, Timestamps
  <2> QED
    BY <2>2, <2>3 DEF PostsElementsOnly, Range
<1>3. TypeInv /\ DrainInv /\ ImmediateInv /\ [Next]_vars => ImmediateInv'
  BY <1>1, NextImmediateInv
<1>4. TypeInv /\ DrainInv /\ DelayedInv /\ [Next]_vars => DelayedInv'
  BY <1>1, NextDelayedInv
<1> QED
  BY <1>2, <1>3, <1>4, InitImmediateInv, InitDelayedInv, TypeInvAlways, DrainInvAlways, PTL DEF Spec
==============================================================================
