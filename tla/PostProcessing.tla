--------------------------- MODULE PostProcessing ---------------------------
(***************************************************************************)
(* DataHandlingModel's consumer and TaskRawDataProcessorModel: payloads    *)
(* are written to the latency buffer, and pointers to the buffered         *)
(* elements are handed to the post-processors, each with a queue and a     *)
(* thread of its own, at once or after a delay.                            *)
(*                                                                         *)
(*   - the consumer: run_consume() and process_item();                     *)
(*   - the post-processing threads: run_post_processing_thread();          *)
(*   - the request handler's cleanup, which removes the oldest elements;   *)
(*   - the control thread: start() and stop().                             *)
(*                                                                         *)
(* Elements are known by their timestamps, and a pointer to an element is  *)
(* its timestamp too: it dangles once the element has left the buffer.     *)
(* The buffer is a ring, which is fed in the order of timestamps and       *)
(* refuses payloads when it is full, or a skip list, which takes payloads  *)
(* in any order and refuses those whose timestamp it holds already.  Which *)
(* one, and the delay, are settled when the module is configured.          *)
(***************************************************************************)
EXTENDS Integers, Sequences, FiniteSets, FiniteSetsExt, Functions

CONSTANTS
  Processors,    \* the post-processing functions
  QueueSize,     \* m_postprocess_queue_sizes: a queue holds QueueSize - 1
  Configurations,\* pairs of a kind of buffer and m_processing_delay_ticks
  Capacity,      \* most elements of the ring
  Keep,          \* fewest elements a cleanup leaves in the ring
  MaxTsDiff,     \* m_max_ts_diff of the skip list's cleanup
  MaxTimestamp,  \* bound on timestamps
  MaxRuns        \* bound on runs

ASSUME PostProcessingAssumption ==
  /\ IsFiniteSet(Processors)
  /\ QueueSize \in Nat /\ QueueSize >= 2
  /\ Configurations \subseteq [ring : BOOLEAN, delay : Nat]
  /\ Capacity \in Nat \ {0} /\ Keep \in Nat \ {0}
  /\ MaxTsDiff \in Nat \ {0}
  /\ MaxTimestamp \in Nat

VARIABLES
  conf,                \* the module's configuration
  lb,                  \* the latency buffer
  last,                \* the last timestamp received
  m_run_marker,        \* the module's run marker
  mpc, runs,           \* the control thread's place; runs started
  cpc,                 \* the consumer's place
  first_cycle, newest_ts, processed_ts,  \* its book-keeping
  iter, end_iter,      \* its iterators
  marker,              \* the raw processor's run marker
  queue,               \* m_items_to_postprocess_queues
  ppc, element,        \* each post-processing thread: its place, its element
  posted,              \* history: what was handed to the post-processors in this run
  tardy                \* history: what came too late for the delayed walk

bufferVars   == <<conf, lb, last>>
controlVars  == <<m_run_marker, mpc, runs>>
walkVars     == <<first_cycle, newest_ts, processed_ts, iter, end_iter>>
postVars     == <<queue, posted>>
threadVars   == <<ppc, element>>
vars == <<bufferVars, controlVars, cpc, tardy, walkVars, marker, postVars, threadVars>>

(* Whether the buffer is a ring, not a skip list. *)
Ring == conf.ring

(* m_processing_delay_ticks *)
Delay == conf.delay

Timestamps == 1 .. MaxTimestamp

(* end(): an index outside of the ring, or a null node of the skip list. *)
End == MaxTimestamp + 1

Front == Min(lb)
Back  == Max(lb)

Init ==
  /\ conf \in Configurations
  /\ lb = {} /\ last = 0
  /\ m_run_marker = FALSE /\ mpc = "stopped" /\ runs = 0
  /\ cpc = "off" /\ tardy = {}
  /\ first_cycle = TRUE /\ newest_ts = 0 /\ processed_ts = 0
  /\ iter = End /\ end_iter = End
  /\ marker = FALSE
  /\ queue = [p \in Processors |-> << >>] /\ posted = << >>
  /\ ppc = [p \in Processors |-> "off"] /\ element = [p \in Processors |-> 0]

-----------------------------------------------------------------------------
(* start(): the processor's threads, then the consumer's. *)
Start ==
  /\ mpc = "stopped" /\ runs < MaxRuns
  /\ mpc' = "running" /\ runs' = runs + 1
  /\ m_run_marker' = TRUE /\ marker' = TRUE
  /\ ppc' = [p \in Processors |-> "loop"]
  /\ cpc' = "receive"
  /\ first_cycle' = TRUE /\ newest_ts' = 0 /\ processed_ts' = 0
  /\ posted' = << >> /\ tardy' = {}
  /\ UNCHANGED <<bufferVars, iter, end_iter, queue, element>>

(* The run ends.  stop() waits for the request handler, whose cleanups end *)
(* with it, and for the consumer ...                                       *)
StopBegin ==
  /\ mpc = "running"
  /\ mpc' = "joining" /\ m_run_marker' = FALSE
  /\ UNCHANGED <<bufferVars, runs, cpc, tardy, walkVars, marker, postVars, threadVars>>

(* (fault) The processor's threads are not told. *)
StopFlushKeepsMarker ==
  /\ mpc = "joining" /\ cpc = "off"
  /\ lb' = {}
  /\ mpc' = "draining"
  /\ UNCHANGED <<conf, last, m_run_marker, runs, cpc, tardy, walkVars, marker, postVars,
                 threadVars>>

(* ... then flushes the buffer, and only then tells the processor to stop. *)
StopFlush ==
  /\ mpc = "joining" /\ cpc = "off"
  /\ lb' = {}
  /\ mpc' = "draining" /\ marker' = FALSE
  /\ UNCHANGED <<conf, last, m_run_marker, runs, cpc, tardy, walkVars, postVars, threadVars>>

StopJoins ==
  /\ mpc = "draining"
  /\ \A p \in Processors : ppc[p] = "off"
  /\ mpc' = "stopped"
  /\ UNCHANGED <<bufferVars, m_run_marker, runs, cpc, tardy, walkVars, marker,
                 postVars, threadVars>>

-----------------------------------------------------------------------------
(* A cleanup of the ring leaves a part of its elements; one of the skip    *)
(* list removes what is MaxTsDiff older than the newest element.           *)
MayRemove ==
  IF Ring THEN Cardinality(lb) > Keep ELSE lb # {} /\ Back - Front >= MaxTsDiff

(* One removal of a cleanup. *)
Cleanup ==
  /\ mpc \in {"running", "joining"}
  /\ MayRemove
  /\ lb' = lb \ {Front}
  /\ UNCHANGED <<conf, last, controlVars, cpc, tardy, walkVars, marker, postVars, threadVars>>

-----------------------------------------------------------------------------
consumerFrame == <<controlVars, marker, threadVars>>

Accepts(ts) == IF Ring THEN Cardinality(lb) < Capacity ELSE ts \notin lb

(* The loop of run_consume(): a payload arrives and is written ... *)
Receive(ts) ==
  /\ cpc = "receive" /\ m_run_marker
  /\ Ring => ts > last
  /\ last' = ts
  /\ lb' = IF Accepts(ts) THEN lb \cup {ts} ELSE lb
  /\ tardy' = IF ~first_cycle /\ ts < processed_ts THEN tardy \cup {ts} ELSE tardy
  /\ cpc' = IF Delay = 0 THEN "post" ELSE "look"
  /\ UNCHANGED <<consumerFrame, conf, walkVars, postVars>>

(* ... or none does before the timeout ... *)
ReceiveTimeout ==
  /\ cpc = "receive" /\ m_run_marker
  /\ cpc' = IF Delay = 0 THEN "receive" ELSE "look"
  /\ UNCHANGED <<consumerFrame, bufferVars, tardy, walkVars, postVars>>

(* ... until the run ends. *)
ConsumerJoins ==
  /\ cpc = "receive" /\ ~m_run_marker
  /\ cpc' = "off"
  /\ UNCHANGED <<consumerFrame, bufferVars, tardy, walkVars, postVars>>

(* postprocess_item(): a queue that is full misses the element. *)
PostprocessItem(x) ==
  /\ queue' = [p \in Processors |->
                IF Len(queue[p]) < QueueSize - 1 THEN Append(queue[p], x) ELSE queue[p]]
  /\ posted' = Append(posted, x)

(* (fault) What is handed on is the front. *)
PostFront ==
  /\ cpc = "post"
  /\ PostprocessItem(Front)
  /\ cpc' = "receive"
  /\ UNCHANGED <<consumerFrame, bufferVars, tardy, walkVars>>

(* Without a delay, process_item() hands on the newest element. *)
Post ==
  /\ cpc = "post"
  /\ PostprocessItem(Back)
  /\ cpc' = "receive"
  /\ UNCHANGED <<consumerFrame, bufferVars, tardy, walkVars>>

(* With a delay: too early since the last pass, or nothing buffered. *)
NotYet ==
  /\ cpc = "look"
  /\ cpc' = "receive"
  /\ UNCHANGED <<consumerFrame, bufferVars, tardy, walkVars, postVars>>

(* The pass begins with the boundaries of the buffer.  The difference is   *)
(* one of unsigned integers.                                               *)
Look ==
  /\ cpc = "look"
  /\ lb # {}
  /\ newest_ts' = Back
  /\ processed_ts' = IF first_cycle THEN Front ELSE processed_ts
  /\ first_cycle' = FALSE
  /\ cpc' = IF newest_ts' < processed_ts' \/ newest_ts' - processed_ts' > Delay
            THEN "begin" ELSE "receive"
  /\ UNCHANGED <<consumerFrame, bufferVars, tardy, iter, end_iter, postVars>>

(* lower_bound(): the ring has end() for what is older than its front. *)
LowerBound(ts) ==
  LET above == {x \in lb : x >= ts}
  IN  IF above = {} \/ (Ring /\ ts < Front) THEN End ELSE Min(above)

(* (fault) Where to go on is set before the search for where to begin. *)
WalkBeginTooLate ==
  /\ cpc = "begin"
  /\ iter' = LowerBound(newest_ts - Delay)
  /\ processed_ts' = newest_ts - Delay
  /\ cpc' = "end"
  /\ UNCHANGED <<consumerFrame, bufferVars, tardy, first_cycle, newest_ts, end_iter,
                 postVars>>

(* From the last processed element up to Delay before the newest. *)
WalkBegin ==
  /\ cpc = "begin"
  /\ iter' = LowerBound(processed_ts)
  /\ processed_ts' = newest_ts - Delay
  /\ cpc' = "end"
  /\ UNCHANGED <<consumerFrame, bufferVars, tardy, first_cycle, newest_ts, end_iter,
                 postVars>>

WalkEnd ==
  /\ cpc = "end"
  /\ end_iter' = LowerBound(processed_ts)
  /\ cpc' = "walk"
  /\ UNCHANGED <<consumerFrame, bufferVars, tardy, first_cycle, newest_ts,
                 processed_ts, iter, postVars>>

(* Iterator::operator++.  Only the consumer writes and cleanups remove     *)
(* from the front, so that a node of the skip list, removed or not, leads  *)
(* over the removed nodes, which next() skips, to the first element after  *)
(* it.  In the ring the iterator becomes end() at an element that has been *)
(* popped, and stays there.                                                *)
Successor(x) ==
  LET after == {y \in lb : y > x}
  IN  IF after = {} \/ (Ring /\ x \notin lb) THEN End ELSE Min(after)

(* The loop hands on the elements up to end_iter. *)
WalkElement ==
  /\ cpc = "walk"
  /\ iter # end_iter
  /\ PostprocessItem(iter)
  /\ iter' = Successor(iter)
  /\ UNCHANGED <<consumerFrame, bufferVars, cpc, tardy, first_cycle, newest_ts,
                 processed_ts, end_iter>>

WalkDone ==
  /\ cpc = "walk"
  /\ iter = end_iter
  /\ cpc' = "receive"
  /\ UNCHANGED <<consumerFrame, bufferVars, tardy, walkVars, postVars>>

-----------------------------------------------------------------------------
processorFrame == <<bufferVars, controlVars, cpc, tardy, walkVars, marker, posted>>

(* A post-processing thread takes a pointer from its queue ... *)
TakeElement(p) ==
  /\ ppc[p] = "loop"
  /\ queue[p] # << >>
  /\ element' = [element EXCEPT ![p] = Head(queue[p])]
  /\ queue' = [queue EXCEPT ![p] = Tail(queue[p])]
  /\ ppc' = [ppc EXCEPT ![p] = "function"]
  /\ UNCHANGED processorFrame

(* ... and calls its function on it. *)
ProcessElement(p) ==
  /\ ppc[p] = "function"
  /\ ppc' = [ppc EXCEPT ![p] = "loop"]
  /\ UNCHANGED <<processorFrame, queue, element>>

(* It sleeps when there is nothing to take. *)
ProcessorSleeps(p) ==
  /\ ppc[p] = "loop"
  /\ marker /\ queue[p] = << >>
  /\ UNCHANGED vars

(* (fault) The thread ends with the run, whatever is in its queue. *)
ProcessorJoinsAtOnce(p) ==
  /\ ppc[p] = "loop"
  /\ ~marker
  /\ ppc' = [ppc EXCEPT ![p] = "off"]
  /\ UNCHANGED <<processorFrame, queue, element>>

(* It ends when the run has, and its queue is empty. *)
ProcessorJoins(p) ==
  /\ ppc[p] = "loop"
  /\ ~marker /\ queue[p] = << >>
  /\ ppc' = [ppc EXCEPT ![p] = "off"]
  /\ UNCHANGED <<processorFrame, queue, element>>

-----------------------------------------------------------------------------
Consumer ==
  \/ \E ts \in Timestamps : Receive(ts)
  \/ ReceiveTimeout \/ ConsumerJoins
  \/ Post
  \/ NotYet \/ Look \/ WalkBegin \/ WalkEnd \/ WalkElement \/ WalkDone

Processor(p) == TakeElement(p) \/ ProcessElement(p) \/ ProcessorSleeps(p) \/ ProcessorJoins(p)

(* The last run is over. *)
Finished == mpc = "stopped" /\ runs = MaxRuns /\ UNCHANGED vars

Next ==
  \/ Start \/ StopBegin \/ StopFlush \/ StopJoins
  \/ Cleanup
  \/ Consumer
  \/ \E p \in Processors : Processor(p)
  \/ Finished

Spec == Init /\ [][Next]_vars

(* Threads that can go on do.  A run may last for ever.                    *)
FairSpec ==
  /\ Spec
  /\ WF_vars(StopFlush \/ StopJoins)
  /\ WF_vars(Consumer)
  /\ \A p \in Processors : WF_vars(Processor(p))

-----------------------------------------------------------------------------
(* Properties.                                                             *)

(* With a delay, and a skip list that sorts what arrives, an element is    *)
(* handed to the post-processors at most once, and in the order of         *)
(* timestamps, however late payloads come and whatever cleanups remove     *)
(* meanwhile (DataHandlingModel.hxx:266).  And nothing is left out: an     *)
(* element older than where the pass will go on was handed on, is ahead in *)
(* the present walk, or came after its time was over (:267, :288).         *)
PostedOnceInOrder ==
  Delay > 0 =>
    /\ \A i \in 1 .. Len(posted) - 1 : posted[i] < posted[i + 1]
    /\ \A x \in lb :
         (x < processed_ts /\ cpc \in {"receive", "look", "post"})
           => x \in Range(posted) \cup tardy

(* What the walk hands on are pointers to elements: it processes "all data *)
(* since the last post-processed element up to that value"                 *)
(* (DataHandlingModel.hxx:267), not end().                                 *)
PostsElementsOnly == End \notin Range(posted)

(* Without a delay every element in the ring has been handed on, in order, *)
(* by the time the next payload is received (:213).                        *)
EveryAcceptedPosted ==
  (Delay = 0 /\ cpc = "receive") =>
    /\ \A x \in lb : x \in Range(posted)
    /\ \A i \in 1 .. Len(posted) - 1 : posted[i] <= posted[i + 1]

(* When stop() has returned, the processors have finished what was queued: *)
(* no pointer of this run is met in the next one                           *)
(* (TaskRawDataProcessorModel.hxx:51, :111).                               *)
DrainedWhenStopped ==
  mpc = "stopped" =>
    /\ cpc = "off" /\ lb = {}
    /\ \A p \in Processors : ppc[p] = "off" /\ queue[p] = << >>

(* stop() returns: the consumer's walk ends, and the processors catch up   *)
(* (DataHandlingModel.hxx:160, TaskRawDataProcessorModel.hxx:52).          *)
StopReturns == (mpc = "joining") ~> (mpc = "stopped")

(* A function is called on an element that is in the buffer                *)
(* (RawDataProcessorConcept.hpp:48: "Postprocess one element").            *)
ProcessesBufferedElement ==
  \A p \in Processors : ppc[p] = "function" => element[p] \in lb

(* When the buffer is full "data was overwritten"                          *)
(* (DataHandlingModel.hxx:323, :210): the new payload replaces old data.   *)
FullBufferIsOverwritten == (Ring /\ cpc = "post") => last \in lb
=============================================================================
