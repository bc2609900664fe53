--------------------------- MODULE RequestHandler ---------------------------
(***************************************************************************)
(* DefaultRequestHandlerModel: the threads that share a latency buffer     *)
(* between data taking, data requests, recording and cleanup.              *)
(*                                                                         *)
(*   - request threads: the thread pool that runs issue_request()'s tasks; *)
(*   - the cleaner: periodic_cleanups(), cleanup_check() and cleanup();    *)
(*   - the waiter: check_waiting_requests();                               *)
(*   - the recorder: the lambda of record();                               *)
(*   - the producer, which writes to the buffer;                           *)
(*   - the control thread: start() and stop(), and the flush of the buffer *)
(*     that DataHandlingModel::stop() does afterwards.                     *)
(*                                                                         *)
(* Elements hold one frame each and are known by their timestamps, which   *)
(* are consecutive, so that the buffer is the interval of timestamps from  *)
(* oldest up to, and without, newest.  FragmentPieces has the search in    *)
(* detail; here it is one step, inside the section that the handler's lock *)
(* is to protect.  The counters for monitoring are left out.               *)
(***************************************************************************)
EXTENDS Integers, Sequences, FiniteSets

CONSTANTS
  Threads,       \* the request handling threads
  Recorder,      \* the recording thread
  Cleaner,       \* the cleanup thread
  Requests,      \* the data requests
  NoTask,        \* a request thread without a task
  WindowBegin,   \* request_information.window_begin of each request
  WindowEnd,     \* request_information.window_end of each request
  Size,          \* size of the latency buffer: it holds Size - 1 elements
  PopLimit,      \* m_pop_limit_size
  PopNum, PopDen,\* m_pop_size_pct, as a fraction
  RetryEnabled,  \* m_request_timeout_ms > 0
  BatchSize,     \* most elements recorded in one loop (1000)
  MaxTimestamp,  \* bound: the last timestamp that is written
  MaxRecordings, \* bound on record commands
  MaxRuns        \* bound on runs

ASSUME HandlerAssumption ==
  /\ IsFiniteSet(Threads)
  /\ NoTask \notin [request : Requests, is_retry : BOOLEAN]
  /\ Recorder \notin Threads /\ Cleaner \notin Threads /\ Recorder # Cleaner
  /\ WindowBegin \in [Requests -> Nat] /\ WindowEnd \in [Requests -> Nat]
  /\ Size \in Nat /\ Size >= 2
  /\ PopLimit \in Nat
  /\ PopNum \in Nat /\ PopDen \in Nat \ {0} /\ PopNum <= PopDen
  /\ RetryEnabled \in BOOLEAN
  /\ BatchSize \in Nat \ {0}
  /\ MaxTimestamp \in Nat

VARIABLES
  oldest, newest,             \* the latency buffer
  m_run_marker,
  mpc,                        \* the control thread's place in start and stop
  runs,                       \* runs started
  m_cleanup_requested,
  m_requests_running,
  m_cv,                       \* the threads asleep in m_cv.wait()
  cpc, to_pop,                \* the cleaner's place, elements left to pop
  upc,                        \* the place of each request thread and of the recorder
  pool,                       \* tasks posted and not yet begun
  task,                       \* the task of each request thread
  result_code, frag_pieces,   \* what its search gave
  m_waiting_requests,
  expired,                    \* waiting requests whose timeout has passed
  wpc,                        \* the waiter's place
  dispatched,                 \* requests that have arrived
  due,                        \* requests reissued because their data arrived
  responses,                  \* fragments made for each request
  m_next_timestamp_to_record,
  chunk_iter, processed,      \* the recorder's iterator and batch count
  recorded,                   \* what this recording has written to the file
  recordings                  \* record commands so far

bufferVars  == <<oldest, newest>>
controlVars == <<m_run_marker, mpc, runs>>
lockVars    == <<m_cleanup_requested, m_requests_running, m_cv>>
cleanerVars == <<cpc, to_pop>>
requestVars == <<pool, task, result_code, frag_pieces, responses, dispatched>>
waitVars    == <<m_waiting_requests, expired, wpc, due>>
recordVars  == <<m_next_timestamp_to_record, chunk_iter, processed, recorded, recordings>>
vars == <<bufferVars, controlVars, lockVars, cleanerVars, upc, requestVars,
          waitVars, recordVars>>

(* What the steps of the cleaner, of the recorder, of a request thread,    *)
(* and of either of these at the lock leave alone.                         *)
cleanerFrame  == <<controlVars, upc, requestVars, waitVars, recordVars>>
recorderFrame == <<bufferVars, controlVars, lockVars, cleanerVars, requestVars, waitVars>>
threadFrame   == <<bufferVars, controlVars, lockVars, cleanerVars, recordVars>>
lockFrame     == <<bufferVars, controlVars, cleanerVars, requestVars, waitVars, recordVars>>

Users == Threads \cup {Recorder}

(* A posted task: issue_request's arguments. *)
Tasks == [request : Requests, is_retry : BOOLEAN]

Occupancy == newest - oldest
Buffered == oldest .. newest - 1

(* numeric_limits<uint64_t>::max(): no recording is going on. *)
NoCursor == MaxTimestamp + 2

(* The cleaner holds m_cv_mutex from cleanup_check() to the end of         *)
(* cleanup(), but for the time it is asleep.  All others hold it only      *)
(* within one step.                                                        *)
MutexHeld == cpc \in {"size", "pop", "popping", "errors", "finish"}

Init ==
  /\ oldest = 1 /\ newest = 1
  /\ m_run_marker = FALSE
  /\ mpc = "stopped"
  /\ runs = 0
  /\ m_cleanup_requested = FALSE
  /\ m_requests_running = 0
  /\ m_cv = {}
  /\ cpc = "off" /\ to_pop = 0
  /\ upc = [u \in Users |-> "idle"]
  /\ pool = {}
  /\ task = [t \in Threads |-> NoTask]
  /\ result_code = [t \in Threads |-> "kUnknown"]
  /\ frag_pieces = [t \in Threads |-> {}]
  /\ responses = [r \in Requests |-> 0]
  /\ m_waiting_requests = {} /\ expired = {} /\ due = {}
  /\ wpc = "off"
  /\ dispatched = {}
  /\ m_next_timestamp_to_record = NoCursor
  /\ chunk_iter = -1 /\ processed = 0
  /\ recorded = << >>
  /\ recordings = 0

-----------------------------------------------------------------------------
(* The producer: a write to the buffer, when it is not full.  In callback  *)
(* mode it may come at any time, between runs too.                         *)
Produce ==
  /\ Occupancy < Size - 1
  /\ newest <= MaxTimestamp
  /\ newest' = newest + 1
  /\ UNCHANGED <<cleanerFrame, oldest, lockVars, cleanerVars>>

-----------------------------------------------------------------------------
(* The control thread. *)

Start ==
  /\ mpc = "stopped"
  /\ runs < MaxRuns
  /\ runs' = runs + 1
  /\ m_run_marker' = TRUE
  /\ mpc' = "running"
  /\ cpc' = "loop"
  /\ wpc' = "loop"
  /\ UNCHANGED <<bufferVars, lockVars, to_pop, upc, requestVars, m_waiting_requests,
                 expired, due, recordVars>>

(* (fault) The threads are not told. *)
StopBeginKeepsMarker ==
  /\ mpc = "running"
  /\ mpc' = "stopping"
  /\ UNCHANGED <<bufferVars, m_run_marker, runs, lockVars, cleanerVars, upc,
                 requestVars, waitVars, recordVars>>

(* The request receiver's callback is removed, then stop() begins. *)
StopBegin ==
  /\ mpc = "running"
  /\ m_run_marker' = FALSE
  /\ mpc' = "stopping"
  /\ UNCHANGED <<bufferVars, runs, lockVars, cleanerVars, upc, requestVars, waitVars,
                 recordVars>>

(* (fault) The thread pool is not waited for. *)
StopJoinsWithoutPool ==
  /\ mpc = "stopping"
  /\ upc[Recorder] = "idle"
  /\ cpc = "off"
  /\ wpc = "off"
  /\ mpc' = "joined"
  /\ UNCHANGED <<bufferVars, m_run_marker, runs, lockVars, cleanerVars, upc,
                 requestVars, waitVars, recordVars>>

(* stop() waits for the recorder, the cleaner, the waiter and the thread   *)
(* pool, in this order; none of them starts again in between.              *)
StopJoins ==
  /\ mpc = "stopping"
  /\ upc[Recorder] = "idle"
  /\ cpc = "off"
  /\ wpc = "off"
  /\ pool = {} /\ \A t \in Threads : upc[t] = "idle"
  /\ mpc' = "joined"
  /\ UNCHANGED <<bufferVars, m_run_marker, runs, lockVars, cleanerVars, upc,
                 requestVars, waitVars, recordVars>>

(* DataHandlingModel::stop() flushes the buffer. *)
Flush ==
  /\ mpc = "joined"
  /\ oldest' = newest
  /\ mpc' = "stopped"
  /\ UNCHANGED <<newest, m_run_marker, runs, lockVars, cleanerVars, upc, requestVars,
                 waitVars, recordVars>>

-----------------------------------------------------------------------------
(* The protected section, which request threads and the recorder enter and *)
(* leave in the same way.                                                  *)

(* Under m_cv_mutex: while a cleanup is requested, wait ... *)
WaitForCleanup(u) ==
  /\ upc[u] = "enter"
  /\ u \notin m_cv
  /\ ~MutexHeld
  /\ m_cleanup_requested
  /\ m_cv' = m_cv \cup {u}
  /\ UNCHANGED <<lockFrame, m_cleanup_requested, m_requests_running, upc>>

(* ... and when it is over, count oneself in and, after the unlock, notify. *)
Enter(u) ==
  /\ upc[u] = "enter"
  /\ u \notin m_cv
  /\ ~MutexHeld
  /\ ~m_cleanup_requested
  /\ m_requests_running' = m_requests_running + 1
  /\ m_cv' = {}
  /\ upc' = [upc EXCEPT ![u] = "inside"]
  /\ UNCHANGED <<lockFrame, m_cleanup_requested>>

(* Under m_cv_mutex: count oneself out. *)
Leave(u) ==
  /\ upc[u] = "leave"
  /\ ~MutexHeld
  /\ m_requests_running' = m_requests_running - 1
  /\ upc' = [upc EXCEPT ![u] = "notify"]
  /\ UNCHANGED <<lockFrame, m_cleanup_requested, m_cv>>

(* m_cv.notify_all(), after the unlock. *)
Notify(u) ==
  /\ upc[u] = "notify"
  /\ m_cv' = {}
  /\ upc' = [upc EXCEPT ![u] = IF u = Recorder THEN "walk" ELSE "respond"]
  /\ UNCHANGED <<lockFrame, m_cleanup_requested, m_requests_running>>

-----------------------------------------------------------------------------
(* Requests: dispatch_requests() and the task that issue_request() posts. *)

(* A request arrives while the receiver's callback is registered. *)
Dispatch(r) ==
  /\ mpc = "running"
  /\ r \notin dispatched
  /\ dispatched' = dispatched \cup {r}
  /\ pool' = pool \cup {[request |-> r, is_retry |-> FALSE]}
  /\ UNCHANGED <<threadFrame, upc, task, result_code, frag_pieces, responses, waitVars>>

TaskStart(t) ==
  /\ upc[t] = "idle"
  /\ \E k \in pool :
       /\ task' = [task EXCEPT ![t] = k]
       /\ pool' = pool \ {k}
  /\ upc' = [upc EXCEPT ![t] = "enter"]
  /\ UNCHANGED <<threadFrame, result_code, frag_pieces, responses, dispatched,
                 waitVars>>

(* The result of data_request() for a window, with elements of one frame   *)
(* and one tick: the search key is one before the window.                  *)
ResultFor(begin, end) ==
  IF Occupancy = 0 THEN "kNotFound"
  ELSE IF begin > newest - 1 THEN "kNotYet"
  ELSE IF end < oldest THEN "kTooOld"
  ELSE IF begin - 1 < oldest THEN "kNotFound"
  ELSE IF end > newest - 1 THEN "kPartial"
  ELSE "kFound"

(* data_request(): the elements are found ... *)
Collect(t) ==
  /\ upc[t] = "inside"
  /\ LET begin == WindowBegin[task[t].request]
         end   == WindowEnd[task[t].request]
         code  == ResultFor(begin, end)
     IN  /\ result_code' = [result_code EXCEPT ![t] = code]
         /\ frag_pieces' = [frag_pieces EXCEPT ![t] =
              IF code \in {"kFound", "kPartial"} THEN (begin .. end - 1) \cap Buffered ELSE {}]
  /\ upc' = [upc EXCEPT ![t] = "collected"]
  /\ UNCHANGED <<threadFrame, pool, task, responses, dispatched, waitVars>>

(* ... and copied into the fragment. *)
CopyPieces(t) ==
  /\ upc[t] = "collected"
  /\ frag_pieces' = [frag_pieces EXCEPT ![t] = {}]
  /\ upc' = [upc EXCEPT ![t] = "leave"]
  /\ UNCHANGED <<threadFrame, pool, task, result_code, responses, dispatched, waitVars>>

(* (fault) A request that was reissued may wait again. *)
WaitsForDataAgain(t) == result_code[t] \in {"kNotYet", "kPartial"} /\ RetryEnabled

(* Whether the request is put aside until more data are there. *)
WaitsForData(t) ==
  /\ result_code[t] \in {"kNotYet", "kPartial"}
  /\ RetryEnabled
  /\ ~task[t].is_retry

(* The request is re-queued. *)
Requeue(t) ==
  /\ upc[t] = "respond"
  /\ WaitsForData(t)
  /\ m_waiting_requests' = m_waiting_requests \cup {task[t].request}
  /\ task' = [task EXCEPT ![t] = NoTask]
  /\ result_code' = [result_code EXCEPT ![t] = "kUnknown"]
  /\ upc' = [upc EXCEPT ![t] = "idle"]
  /\ UNCHANGED <<threadFrame, pool, frag_pieces, responses, dispatched, expired, wpc,
                 due>>

(* The fragment is sent; a failure of the send is only reported. *)
SendFragment(t) ==
  /\ upc[t] = "respond"
  /\ ~WaitsForData(t)
  /\ responses' = [responses EXCEPT ![task[t].request] = @ + 1]
  /\ task' = [task EXCEPT ![t] = NoTask]
  /\ result_code' = [result_code EXCEPT ![t] = "kUnknown"]
  /\ upc' = [upc EXCEPT ![t] = "idle"]
  /\ UNCHANGED <<threadFrame, pool, frag_pieces, dispatched, waitVars>>

-----------------------------------------------------------------------------
(* The waiter: check_waiting_requests(). *)

(* Time passes: m_request_timeout_ms after it was put aside. *)
Expire(r) ==
  /\ r \in m_waiting_requests \ expired
  /\ expired' = expired \cup {r}
  /\ UNCHANGED <<threadFrame, upc, requestVars, m_waiting_requests, wpc, due>>

WaiterLoop ==
  /\ wpc = "loop"
  /\ wpc' = IF m_run_marker THEN "scan" ELSE "off"
  /\ UNCHANGED <<threadFrame, upc, requestVars, m_waiting_requests, expired, due>>

(* (fault) The window's begin is compared with the newest data. *)
DataArrivedAtBegin(r) == WindowBegin[r] < newest - 1

(* Data past the end of the window are in the buffer: back() is newer. *)
DataArrived(r) == Occupancy > 0 /\ WindowEnd[r] < newest - 1

(* (fault) The reissued requests stay in the list. *)
ScanWithoutErase ==
  /\ wpc = "scan"
  /\ LET arrived == {r \in m_waiting_requests : DataArrived(r)}
         gone    == arrived \cup (m_waiting_requests \cap expired)
     IN  /\ pool' = pool \cup [request : gone, is_retry : {TRUE}]
         /\ due' = due \cup arrived
  /\ wpc' = "loop"
  /\ UNCHANGED <<threadFrame, upc, task, result_code, frag_pieces, responses,
                 dispatched, m_waiting_requests, expired>>

(* One pass over the list, under m_waiting_requests_lock: requests whose   *)
(* data have arrived or whose time is up are reissued as retries.          *)
Scan ==
  /\ wpc = "scan"
  /\ LET arrived == {r \in m_waiting_requests : DataArrived(r)}
         gone    == arrived \cup (m_waiting_requests \cap expired)
     IN  /\ pool' = pool \cup [request : gone, is_retry : {TRUE}]
         /\ due' = due \cup arrived
         /\ m_waiting_requests' = m_waiting_requests \ gone
         /\ expired' = expired \ gone
  /\ wpc' = "loop"
  /\ UNCHANGED <<threadFrame, upc, task, result_code, frag_pieces, responses,
                 dispatched>>

-----------------------------------------------------------------------------
(* The cleaner: periodic_cleanups(), cleanup_check() and cleanup(). *)

CleanerLoop ==
  /\ cpc = "loop"
  /\ cpc' = IF m_run_marker THEN "check" ELSE "off"
  /\ UNCHANGED <<cleanerFrame, bufferVars, lockVars, to_pop>>

(* (fault) The cleanup does not wait for those who are inside. *)
CleanerMayGoOnAlways == TRUE

(* The condition of the cleaner's wait. *)
CleanerMayGoOn == m_requests_running = 0

(* Under m_cv_mutex: request a cleanup, and wait until nobody is inside. *)
CleanupCheck ==
  /\ cpc = "check"
  /\ IF Occupancy > PopLimit /\ ~m_cleanup_requested
     THEN /\ m_cleanup_requested' = TRUE
          /\ IF CleanerMayGoOn
             THEN cpc' = "size" /\ UNCHANGED m_cv
             ELSE cpc' = "wait" /\ m_cv' = m_cv \cup {Cleaner}
     ELSE cpc' = "loop" /\ UNCHANGED <<m_cleanup_requested, m_cv>>
  /\ UNCHANGED <<cleanerFrame, bufferVars, m_requests_running, to_pop>>

(* The cleaner is woken, and sleeps again if it is too early. *)
CleanerWakes ==
  /\ cpc = "wait"
  /\ Cleaner \notin m_cv
  /\ IF CleanerMayGoOn
     THEN cpc' = "size" /\ UNCHANGED m_cv
     ELSE m_cv' = m_cv \cup {Cleaner} /\ UNCHANGED cpc
  /\ UNCHANGED <<cleanerFrame, bufferVars, m_cleanup_requested, m_requests_running,
                 to_pop>>

(* (fault) All elements are to be popped, not a part of them. *)
CleanupSizeAll ==
  /\ cpc = "size"
  /\ IF Occupancy > PopLimit
     THEN cpc' = "pop" /\ to_pop' = Occupancy
     ELSE cpc' = "finish" /\ UNCHANGED to_pop
  /\ UNCHANGED <<cleanerFrame, bufferVars, lockVars>>

(* How many elements to pop. *)
CleanupSize ==
  /\ cpc = "size"
  /\ IF Occupancy > PopLimit
     THEN cpc' = "pop" /\ to_pop' = (PopNum * Occupancy) \div PopDen
     ELSE cpc' = "finish" /\ UNCHANGED to_pop
  /\ UNCHANGED <<cleanerFrame, bufferVars, lockVars>>

(* (fault) Elements are popped whether they have been recorded or not. *)
FrontMayGoAlways == TRUE

(* The front is popped only if the recorder has passed it. *)
FrontMayGo == oldest < m_next_timestamp_to_record

(* The loop's test; it dereferences front(), which must not be null. *)
CleanupTest ==
  /\ cpc = "pop"
  /\ to_pop > 0 => Occupancy > 0
  /\ cpc' = IF to_pop > 0 /\ FrontMayGo THEN "popping" ELSE "errors"
  /\ UNCHANGED <<cleanerFrame, bufferVars, lockVars, to_pop>>

CleanupPop ==
  /\ cpc = "popping"
  /\ oldest' = oldest + 1
  /\ to_pop' = to_pop - 1
  /\ cpc' = "pop"
  /\ UNCHANGED <<cleanerFrame, newest, lockVars>>

(* remove_errors_until() is called with the timestamp of front(). *)
CleanupErrors ==
  /\ cpc = "errors"
  /\ Occupancy > 0
  /\ cpc' = "finish"
  /\ UNCHANGED <<cleanerFrame, bufferVars, lockVars, to_pop>>

CleanupFinish ==
  /\ cpc = "finish"
  /\ m_cleanup_requested' = FALSE
  /\ m_cv' = {}
  /\ cpc' = "loop"
  /\ UNCHANGED <<cleanerFrame, bufferVars, m_requests_running, to_pop>>

-----------------------------------------------------------------------------
(* The recorder: record().  Its iterator is an index into the ring, so it  *)
(* is modelled as a slot: popped and refilled, the slot has another        *)
(* element.                                                                *)

Slot(ts) == ts % Size
EndSlot == -1
GoodSlot(s) == \E ts \in Buffered : Slot(ts) = s
ElementAt(s) == CHOOSE ts \in Buffered : Slot(ts) = s

(* The record command, when no recording is running. *)
Record ==
  /\ mpc = "running"
  /\ upc[Recorder] = "idle"
  /\ recordings < MaxRecordings
  /\ recordings' = recordings + 1
  /\ upc' = [upc EXCEPT ![Recorder] = "begin"]
  /\ UNCHANGED <<recorderFrame, m_next_timestamp_to_record, chunk_iter, processed,
                 recorded>>

RecordBegin ==
  /\ upc[Recorder] = "begin"
  /\ m_next_timestamp_to_record' = 0
  /\ recorded' = << >>
  /\ upc' = [upc EXCEPT ![Recorder] = "loop"]
  /\ UNCHANGED <<recorderFrame, chunk_iter, processed, recordings>>

(* The loop's test, while the duration lasts.  Without a cursor yet, it is *)
(* set to the front, whether a cleanup is going on or not.                 *)
RecordLoop ==
  /\ upc[Recorder] = "loop"
  /\ IF m_next_timestamp_to_record = 0
     THEN m_next_timestamp_to_record' = IF Occupancy = 0 THEN 0 ELSE oldest
     ELSE ~m_cleanup_requested /\ UNCHANGED m_next_timestamp_to_record
  /\ upc' = [upc EXCEPT ![Recorder] = "enter"]
  /\ UNCHANGED <<recorderFrame, chunk_iter, processed, recorded, recordings>>

(* lower_bound() of a ring queue, in the protected section. *)
RecordSearch ==
  /\ upc[Recorder] = "inside"
  /\ chunk_iter' = IF Occupancy = 0 \/ m_next_timestamp_to_record < oldest THEN EndSlot
                   ELSE IF m_next_timestamp_to_record >= newest THEN Slot(newest)
                   ELSE Slot(m_next_timestamp_to_record)
  /\ processed' = 0
  /\ upc' = [upc EXCEPT ![Recorder] = "leave"]
  /\ UNCHANGED <<recorderFrame, m_next_timestamp_to_record, recorded, recordings>>

(* The element is written to the file, if it is not older than the cursor. *)
RecordElement ==
  /\ upc[Recorder] = "walk"
  /\ GoodSlot(chunk_iter)
  /\ processed < BatchSize
  /\ IF ElementAt(chunk_iter) >= m_next_timestamp_to_record
     THEN /\ recorded' = Append(recorded, ElementAt(chunk_iter))
          /\ processed' = processed + 1
          /\ upc' = [upc EXCEPT ![Recorder] = "store"]
     ELSE /\ upc' = [upc EXCEPT ![Recorder] = "next"]
          /\ UNCHANGED <<recorded, processed>>
  /\ UNCHANGED <<recorderFrame, m_next_timestamp_to_record, chunk_iter, recordings>>

(* (fault) The cursor skips an element. *)
StoreCursorTooFar ==
  /\ upc[Recorder] = "store"
  /\ m_next_timestamp_to_record' = ElementAt(chunk_iter) + 2
  /\ upc' = [upc EXCEPT ![Recorder] = "next"]
  /\ UNCHANGED <<recorderFrame, chunk_iter, processed, recorded, recordings>>

(* The cursor is moved past the element: from here on it may be popped. *)
StoreCursor ==
  /\ upc[Recorder] = "store"
  /\ m_next_timestamp_to_record' = ElementAt(chunk_iter) + 1
  /\ upc' = [upc EXCEPT ![Recorder] = "next"]
  /\ UNCHANGED <<recorderFrame, chunk_iter, processed, recorded, recordings>>

(* ++chunk_iter, whose element may have been popped meanwhile. *)
NextChunk ==
  /\ upc[Recorder] = "next"
  /\ chunk_iter' = IF GoodSlot(chunk_iter) /\ GoodSlot((chunk_iter + 1) % Size)
                   THEN (chunk_iter + 1) % Size ELSE EndSlot
  /\ upc' = [upc EXCEPT ![Recorder] = "walk"]
  /\ UNCHANGED <<recorderFrame, m_next_timestamp_to_record, processed, recorded,
                 recordings>>

RecordWalkEnds ==
  /\ upc[Recorder] = "walk"
  /\ ~GoodSlot(chunk_iter) \/ processed = BatchSize
  /\ chunk_iter' = EndSlot
  /\ processed' = 0
  /\ upc' = [upc EXCEPT ![Recorder] = "loop"]
  /\ UNCHANGED <<recorderFrame, m_next_timestamp_to_record, recorded, recordings>>

(* The duration is over. *)
RecordEnd ==
  /\ upc[Recorder] = "loop"
  /\ m_next_timestamp_to_record' = NoCursor
  /\ upc' = [upc EXCEPT ![Recorder] = "idle"]
  /\ UNCHANGED <<recorderFrame, chunk_iter, processed, recorded, recordings>>

-----------------------------------------------------------------------------
ThreadStep(t) ==
  \/ TaskStart(t)
  \/ WaitForCleanup(t)
  \/ Enter(t)
  \/ Collect(t)
  \/ CopyPieces(t)
  \/ Leave(t)
  \/ Notify(t)
  \/ Requeue(t)
  \/ SendFragment(t)

CleanerStep ==
  \/ CleanerLoop
  \/ CleanupCheck
  \/ CleanerWakes
  \/ CleanupSize
  \/ CleanupTest
  \/ CleanupPop
  \/ CleanupErrors
  \/ CleanupFinish

WaiterStep == WaiterLoop \/ Scan

RecorderStep ==
  \/ RecordBegin
  \/ RecordLoop
  \/ WaitForCleanup(Recorder)
  \/ Enter(Recorder)
  \/ RecordSearch
  \/ Leave(Recorder)
  \/ Notify(Recorder)
  \/ RecordElement
  \/ StoreCursor
  \/ NextChunk
  \/ RecordWalkEnds
  \/ RecordEnd

StopStep == StopJoins \/ Flush

(* Nothing is left to do within the bounds: no command comes any more. *)
Finished ==
  /\ mpc = "stopped" /\ runs = MaxRuns
  /\ UNCHANGED vars

Next ==
  \/ Produce
  \/ Start
  \/ StopBegin
  \/ StopStep
  \/ \E r \in Requests : Dispatch(r) \/ Expire(r)
  \/ \E t \in Threads : ThreadStep(t)
  \/ WaiterStep
  \/ CleanerStep
  \/ Record
  \/ RecorderStep
  \/ Finished

Spec == Init /\ [][Next]_vars

(* Every thread of the handler is scheduled, time passes (a waiting        *)
(* request expires, a recording reaches its duration), and stop() goes on  *)
(* when what it waits for is done.  The cleaner sleeps 50 ms between two   *)
(* checks and leaves m_cv_mutex free, so a thread that wants it gets it at *)
(* last.  Data, requests and commands may come or not.                     *)
Fairness ==
  /\ \A t \in Threads : WF_vars(ThreadStep(t))
  /\ \A u \in Users : SF_vars(Enter(u))
  /\ WF_vars(WaiterStep)
  /\ WF_vars(CleanerStep)
  /\ WF_vars(RecorderStep)
  /\ SF_vars(RecordEnd)
  /\ WF_vars(StopStep)
  /\ \A r \in Requests : WF_vars(Expire(r))

FairSpec == Spec /\ Fairness

-----------------------------------------------------------------------------
(* Properties. *)

(* Type invariant: the members of DefaultRequestHandlerModel and the       *)
(* program counters of its threads.                                        *)
TypeOK ==
  /\ oldest \in Nat /\ newest \in Nat
  /\ m_run_marker \in BOOLEAN
  /\ mpc \in {"stopped", "running", "stopping", "joined"}
  /\ runs \in Nat
  /\ m_cleanup_requested \in BOOLEAN
  /\ m_requests_running \in Nat
  /\ m_cv \subseteq Users \cup {Cleaner}
  /\ cpc \in {"off", "loop", "check", "wait", "size", "pop", "popping", "errors", "finish"}
  /\ to_pop \in Nat
  /\ upc \in [Users -> {"idle", "enter", "inside", "collected", "leave", "notify", "respond",
                        "begin", "loop", "walk", "store", "next"}]
  /\ pool \subseteq Tasks
  /\ task \in [Threads -> Tasks \cup {NoTask}]
  /\ result_code \in [Threads -> {"kUnknown", "kNotFound", "kNotYet", "kTooOld",
                                  "kPartial", "kFound"}]
  /\ frag_pieces \in [Threads -> SUBSET Int]
  /\ responses \in [Requests -> Nat]
  /\ m_waiting_requests \subseteq Requests
  /\ expired \subseteq Requests
  /\ due \subseteq Requests
  /\ wpc \in {"off", "loop", "scan"}
  /\ dispatched \subseteq Requests
  /\ m_next_timestamp_to_record \in Nat
  /\ chunk_iter \in -1 .. Size - 1
  /\ processed \in Nat
  /\ recorded \in Seq(Nat)
  /\ recordings \in Nat

(* The users in the protected section. *)
Inside == {u \in Users : upc[u] \in {"inside", "collected", "leave"}}

(* While cleanup() removes elements, no request thread and no recorder is  *)
(* searching the buffer: the mutex, the flag, the counter and the wait on  *)
(* the condition variable together are a lock between one cleaner and many *)
(* readers.                                                                *)
CleanupExcludesReaders == MutexHeld => Inside = {}

(* The elements that a request thread has found are still in the buffer    *)
(* when it copies them into the fragment.                                  *)
PiecesStayBuffered ==
  \A t \in Threads : upc[t] = "collected" => frag_pieces[t] \subseteq Buffered

(* Where a request can be: in the pool, with a thread, waiting, answered. *)
TasksOf(r) == {k \in pool : k.request = r}
ThreadsOf(r) == {t \in Threads : task[t] # NoTask /\ task[t].request = r}
Places(r) ==
  Cardinality(TasksOf(r)) + Cardinality(ThreadsOf(r))
    + (IF r \in m_waiting_requests THEN 1 ELSE 0) + responses[r]

(* A request that has arrived is at exactly one place: with the pool, a    *)
(* thread or the waiting list, or it has been answered.  No race of pool,  *)
(* waiter and timeout loses one or answers one twice.                      *)
RequestsAtOnePlace ==
  \A r \in Requests : Places(r) = IF r \in dispatched THEN 1 ELSE 0

(* A request reissued because data past its window had arrived is answered *)
(* with all its data, or as too old for them: the test in the waiter and   *)
(* the one in get_fragment_pieces() agree, although the buffer may have    *)
(* been cleaned up in between.                                             *)
DueRetriesConclude ==
  \A t \in Threads :
    upc[t] = "collected" /\ m_run_marker /\ task[t].request \in due
      => result_code[t] \notin {"kNotYet", "kPartial"}

(* No task and no thread survives stop(), so that the flush that follows   *)
(* and the next run find no reader.                                        *)
QuietWhenStopped ==
  mpc \in {"joined", "stopped"} =>
    /\ pool = {}
    /\ \A u \in Users : upc[u] = "idle"
    /\ cpc = "off" /\ ~m_cleanup_requested
    /\ m_requests_running = 0

(* cleanup() calls front() only on a buffer that has a front. *)
FrontNeverNull == (cpc = "pop" /\ to_pop > 0) \/ cpc \in {"popping", "errors"} => Occupancy > 0

(* A recording has no gap and no repetition: each element written to the   *)
(* file is the successor of the one before it, across wraps of the ring    *)
(* and cleanups that run between two steps of the walk.                    *)
RecordingHasNoGap ==
  \A i \in 1 .. Len(recorded) - 1 : recorded[i + 1] = recorded[i] + 1

(* The element that the recorder is writing to the file is in the buffer   *)
(* until the cursor has passed it: the walk is outside of the protected    *)
(* section and relies on the cursor alone.                                 *)
RecordsBufferedElement ==
  upc[Recorder] = "store" =>
    GoodSlot(chunk_iter) /\ recorded # << >> /\ recorded[Len(recorded)] = ElementAt(chunk_iter)

(* The documentation promises that, while recording, the data that leave   *)
(* the buffer are streamed to the store: the cursor is never behind the    *)
(* front, or the recorder would have missed data and cannot find its place.*)
CursorNotOverrun ==
  m_next_timestamp_to_record \notin {0, NoCursor} => oldest <= m_next_timestamp_to_record

(* The comment in check_waiting_requests(): at run stop, all waiting       *)
(* requests have been served or have timed out.                            *)
NoRequestWaitsWhenStopped == mpc = "stopped" => m_waiting_requests = {}

(* While the run goes on, every request is answered at last: after its     *)
(* data arrived or its timeout passed, and in spite of cleanups.           *)
EveryRequestAnswered ==
  \A r \in Requests : r \in dispatched ~> (responses[r] > 0 \/ ~m_run_marker)

(* stop() returns, whatever requests, recordings and cleanups are going    *)
(* on: no wake-up is lost between those who leave the protected section    *)
(* and the cleaner who waits for them.                                     *)
StopReturns == mpc = "stopping" ~> mpc = "stopped"
==============================================================================
