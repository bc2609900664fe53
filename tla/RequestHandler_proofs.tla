------------------------ MODULE RequestHandler_proofs ------------------------
(***************************************************************************)
(* Proofs about RequestHandler, for any number of threads and requests,    *)
(* any buffer and any windows.                                             *)
(*                                                                         *)
(* The lock works because the counter is the number of users inside and    *)
(* the flag is set from the cleaner's check to the end of its cleanup:     *)
(* while the cleaner waits the users can only leave, and when it goes on   *)
(* none is inside.                                                         *)
(*                                                                         *)
(* The first part proves the lock and what follows from it; the others add *)
(* to its invariant what the recorder, the places of requests and their    *)
(* retries need.                                                           *)
(***************************************************************************)
EXTENDS RequestHandler, FiniteSetTheorems, SequenceTheorems, TLAPS

(* The flag, the counter and the cleaner's place. *)
LockInv ==
  /\ m_requests_running = Cardinality(Inside)
  /\ m_cleanup_requested <=> (MutexHeld \/ cpc = "wait")
  /\ MutexHeld => m_requests_running = 0

(* Nothing is posted, run or started after the joins of stop(). *)
QuietInv ==
  mpc \in {"joined", "stopped"} =>
    /\ pool = {}
    /\ \A u \in Users : upc[u] = "idle"
    /\ cpc = "off" /\ wpc = "off"

(* A request thread at work has a task. *)
TaskInv == \A t \in Threads : upc[t] # "idle" => task[t] \in Tasks

(* A pop has an element left to count. *)
PopInv == cpc = "popping" => to_pop > 0

(* Once it has entered, the recorder has a cursor that cleanups respect,   *)
(* and the element it writes is at or after the cursor.                    *)
RecorderInv ==
  /\ upc[Recorder] \in {"inside", "leave", "notify", "walk", "store", "next"} /\ cpc = "popping"
       => oldest < m_next_timestamp_to_record
  /\ upc[Recorder] = "store" =>
       \E ts \in Buffered : Slot(ts) = chunk_iter /\ ts >= m_next_timestamp_to_record

IInv ==
  /\ TypeOK
  /\ LockInv
  /\ QuietInv
  /\ TaskInv
  /\ PopInv
  /\ RecorderInv
  /\ PiecesStayBuffered

-----------------------------------------------------------------------------
(* The constants, one fact each. *)
LEMMA Constants ==
  /\ IsFiniteSet(Users)
  /\ Recorder \in Users
  /\ \A t \in Threads : t \in Users /\ t # Recorder
  /\ Size \in Nat /\ Size >= 2
  /\ MaxTimestamp \in Nat /\ NoCursor \in Nat
<1>1. IsFiniteSet({Recorder})
  BY FS_Singleton
<1>2. IsFiniteSet(Users)
  BY <1>1, FS_Union, HandlerAssumption DEF Users
<1> QED
  BY <1>2, HandlerAssumption DEF Users, NoCursor

(* The users inside are finitely many. *)
LEMMA InsideFinite == IsFiniteSet(Inside)
BY Constants, FS_Subset DEF Inside

(* Products and quotients of natural numbers. *)
LEMMA NatProduct == ASSUME NEW a \in Nat, NEW b \in Nat PROVE a * b \in Nat
OBVIOUS

LEMMA NatQuotient == ASSUME NEW a \in Nat, NEW d \in Nat \ {0} PROVE a \div d \in Nat
OBVIOUS

(* What the ring's slots are. *)
LEMMA SlotType ==
  ASSUME NEW ts \in Nat
  PROVE  Slot(ts) \in 0 .. Size - 1
BY Constants DEF Slot

(* A good slot has an element. *)
LEMMA ElementOfGoodSlot ==
  ASSUME NEW s, GoodSlot(s)
  PROVE  ElementAt(s) \in Buffered /\ Slot(ElementAt(s)) = s
BY DEF GoodSlot, ElementAt

(* Timestamps in the buffer are natural numbers. *)
LEMMA BufferedType ==
  ASSUME oldest \in Nat, newest \in Nat, NEW ts \in Buffered
  PROVE  ts \in Nat /\ oldest <= ts /\ ts < newest
BY DEF Buffered

-----------------------------------------------------------------------------
(* The initial states satisfy the inductive invariant. *)
LEMMA InitIInv == Init => IInv
<1> SUFFICES ASSUME Init PROVE IInv
  OBVIOUS
<1>1. TypeOK
  <2>1. /\ upc \in [Users -> {"idle"}]
        /\ task \in [Threads -> {NoTask}]
        /\ result_code \in [Threads -> {"kUnknown"}]
        /\ frag_pieces \in [Threads -> {{}}]
        /\ responses \in [Requests -> {0}]
    BY DEF Init
  <2>2. m_next_timestamp_to_record \in Nat /\ chunk_iter \in -1 .. Size - 1
    BY Constants DEF Init
  <2>3. recorded \in Seq(Nat)
    BY DEF Init
  <2> QED
    BY <2>1, <2>2, <2>3 DEF Init, TypeOK, Tasks
<1>2. LockInv
  <2>1. Inside = {}
    BY DEF Init, Inside
  <2> QED
    BY <2>1, FS_EmptySet DEF Init, LockInv, MutexHeld
<1>3. QuietInv /\ TaskInv /\ PopInv /\ RecorderInv /\ PiecesStayBuffered
  BY Constants DEF Init, QuietInv, TaskInv, PopInv, RecorderInv, PiecesStayBuffered
<1> QED
  BY <1>1, <1>2, <1>3 DEF IInv

-----------------------------------------------------------------------------
(* Each step keeps the types. *)
LEMMA TypeStep == IInv /\ [Next]_vars => TypeOK'
<1> SUFFICES ASSUME TypeOK, LockInv, QuietInv, TaskInv, PopInv, RecorderInv, [Next]_vars
             PROVE  TypeOK'
  BY DEF IInv
<1> USE Constants
<1> USE DEF TypeOK, cleanerFrame, recorderFrame, threadFrame, lockFrame, bufferVars, controlVars,
            lockVars, cleanerVars, requestVars, waitVars, recordVars
<1>1. CASE Produce
  BY <1>1 DEF Produce
<1>2. CASE Start
  BY <1>2 DEF Start
<1>3. CASE StopBegin
  BY <1>3 DEF StopBegin
<1>4. CASE StopJoins
  BY <1>4 DEF StopJoins
<1>5. CASE Flush
  BY <1>5 DEF Flush
<1>6. ASSUME NEW r \in Requests, Dispatch(r)
      PROVE  TypeOK'
  <2>1. [request |-> r, is_retry |-> FALSE] \in Tasks
    BY DEF Tasks
  <2> QED
    BY <1>6, <2>1 DEF Dispatch
<1>7. ASSUME NEW r \in Requests, Expire(r)
      PROVE  TypeOK'
  BY <1>7 DEF Expire
<1>8. ASSUME NEW t \in Threads, TaskStart(t)
      PROVE  TypeOK'
  BY <1>8 DEF TaskStart, Tasks
<1>9. ASSUME NEW u \in Users, WaitForCleanup(u)
      PROVE  TypeOK'
  BY <1>9 DEF WaitForCleanup
<1>10. ASSUME NEW u \in Users, Enter(u)
      PROVE  TypeOK'
  BY <1>10 DEF Enter
<1>11. ASSUME NEW t \in Threads, Collect(t)
      PROVE  TypeOK'
  BY <1>11 DEF Collect, ResultFor, Buffered
<1>12. ASSUME NEW t \in Threads, CopyPieces(t)
      PROVE  TypeOK'
  BY <1>12 DEF CopyPieces
<1>13. ASSUME NEW u \in Users, Leave(u)
      PROVE  TypeOK'
  <2>1. u \in Inside
    BY <1>13 DEF Leave, Inside
  <2>2. m_requests_running - 1 \in Nat
    BY <2>1, InsideFinite, FS_EmptySet, FS_CardinalityType DEF LockInv
  <2> QED
    BY <1>13, <2>2 DEF Leave
<1>14. ASSUME NEW u \in Users, Notify(u)
      PROVE  TypeOK'
  BY <1>14 DEF Notify
<1>15. ASSUME NEW t \in Threads, Requeue(t)
      PROVE  TypeOK'
  <2>1. task[t] \in Tasks
    BY <1>15 DEF Requeue, TaskInv
  <2> QED
    BY <1>15, <2>1 DEF Requeue, Tasks
<1>16. ASSUME NEW t \in Threads, SendFragment(t)
      PROVE  TypeOK'
  <2>1. task[t].request \in Requests
    BY <1>16 DEF SendFragment, TaskInv, Tasks
  <2>2. responses' \in [Requests -> Nat]
    BY <1>16, <2>1 DEF SendFragment
  <2> QED
    BY <1>16, <2>2 DEF SendFragment
<1>17. CASE WaiterLoop
  BY <1>17 DEF WaiterLoop
<1>18. CASE Scan
  <2>1. ASSUME NEW g, g \subseteq Requests
        PROVE  [request : g, is_retry : {TRUE}] \subseteq Tasks
    BY <2>1 DEF Tasks
  <2> QED
    BY <1>18, <2>1 DEF Scan
<1>19. CASE CleanerLoop
  BY <1>19 DEF CleanerLoop
<1>20. CASE CleanupCheck
  BY <1>20 DEF CleanupCheck
<1>21. CASE CleanerWakes
  BY <1>21 DEF CleanerWakes
<1>22. CASE CleanupSize
  <2>1. CASE Occupancy > PopLimit
    <3>1. (PopNum * Occupancy) \div PopDen \in Nat
      <4>1. Occupancy \in Nat
        BY <2>1, HandlerAssumption DEF Occupancy
      <4>2. PopNum * Occupancy \in Nat
        BY <4>1, HandlerAssumption, NatProduct
      <4> QED
        BY <4>2, HandlerAssumption, NatQuotient
    <3> QED
      BY <1>22, <3>1, <2>1 DEF CleanupSize
  <2>2. CASE ~(Occupancy > PopLimit)
    BY <1>22, <2>2 DEF CleanupSize
  <2> QED
    BY <2>1, <2>2
<1>23. CASE CleanupTest
  BY <1>23 DEF CleanupTest
<1>24. CASE CleanupPop
  <2>1. oldest + 1 \in Nat /\ to_pop - 1 \in Nat
    BY <1>24 DEF CleanupPop, PopInv
  <2> QED
    BY <1>24, <2>1 DEF CleanupPop
<1>25. CASE CleanupErrors
  BY <1>25 DEF CleanupErrors
<1>26. CASE CleanupFinish
  BY <1>26 DEF CleanupFinish
<1>27. CASE Record
  BY <1>27 DEF Record
<1>28. CASE RecordBegin
  BY <1>28 DEF RecordBegin
<1>29. CASE RecordLoop
  BY <1>29 DEF RecordLoop
<1>30. CASE RecordSearch
  <2>1. Slot(newest) \in 0 .. Size - 1 /\ Slot(m_next_timestamp_to_record) \in 0 .. Size - 1
    BY SlotType
  <2>2. chunk_iter' \in {EndSlot, Slot(newest), Slot(m_next_timestamp_to_record)}
    BY <1>30 DEF RecordSearch
  <2>3. chunk_iter' \in -1 .. Size - 1
    BY <2>1, <2>2 DEF EndSlot
  <2> QED
    BY <1>30, <2>3 DEF RecordSearch
<1>31. CASE RecordElement
  <2>1. ElementAt(chunk_iter) \in Nat
    BY <1>31, ElementOfGoodSlot, BufferedType DEF RecordElement
  <2>2. recorded' \in Seq(Nat)
    <3>1. Append(recorded, ElementAt(chunk_iter)) \in Seq(Nat)
      BY <2>1, AppendProperties
    <3>2. recorded' = Append(recorded, ElementAt(chunk_iter)) \/ recorded' = recorded
      BY <1>31 DEF RecordElement
    <3> QED
      BY <3>1, <3>2
  <2>3. processed' \in Nat
    BY <1>31 DEF RecordElement
  <2> QED
    BY <1>31, <2>2, <2>3 DEF RecordElement
<1>32. CASE StoreCursor
  <2>1. GoodSlot(chunk_iter)
    BY <1>32 DEF StoreCursor, RecorderInv, GoodSlot
  <2>2. ElementAt(chunk_iter) + 1 \in Nat
    BY <2>1, ElementOfGoodSlot, BufferedType
  <2> QED
    BY <1>32, <2>2 DEF StoreCursor
<1>33. CASE NextChunk
  <2>1. chunk_iter' \in -1 .. Size - 1
    BY <1>33 DEF NextChunk, EndSlot
  <2> QED
    BY <1>33, <2>1 DEF NextChunk
<1>34. CASE RecordWalkEnds
  <2>1. EndSlot \in -1 .. Size - 1
    BY DEF EndSlot
  <2> QED
    BY <1>34, <2>1 DEF RecordWalkEnds
<1>35. CASE RecordEnd
  BY <1>35 DEF RecordEnd
<1>36. CASE UNCHANGED vars
  BY <1>36 DEF vars
<1> QED
  BY <1>1, <1>2, <1>3, <1>4, <1>5, <1>6, <1>7, <1>8, <1>9, <1>10, <1>11, <1>12, <1>13, <1>14, <1>15, <1>16, <1>17, <1>18, <1>19, <1>20, <1>21, <1>22, <1>23, <1>24, <1>25, <1>26, <1>27, <1>28, <1>29, <1>30, <1>31, <1>32, <1>33, <1>34, <1>35, <1>36 DEF Next, StopStep, ThreadStep, WaiterStep,
     CleanerStep, RecorderStep, Finished, Users

-----------------------------------------------------------------------------
(* Each step keeps the lock.  Most leave the flag, the counter, the        *)
(* cleaner's place and the set of users inside alone.                      *)
LEMMA LockStep == IInv /\ [Next]_vars => LockInv'
<1> SUFFICES ASSUME TypeOK, LockInv, QuietInv, [Next]_vars
             PROVE  LockInv'
  BY DEF IInv
<1> USE Constants
<1> USE DEF TypeOK, cleanerFrame, recorderFrame, threadFrame, lockFrame, bufferVars, controlVars,
            lockVars, cleanerVars, requestVars, waitVars, recordVars
<1>1. ASSUME Inside' = Inside,
             UNCHANGED <<m_cleanup_requested, m_requests_running, cpc>>
      PROVE  LockInv'
  BY <1>1 DEF LockInv, MutexHeld
<1>2. ASSUME Inside' = Inside, UNCHANGED <<m_cleanup_requested, m_requests_running>>,
             ~MutexHeld, cpc # "wait", ~MutexHeld', cpc' # "wait"
      PROVE  LockInv'
  BY <1>2 DEF LockInv
<1>3. ASSUME UNCHANGED upc
      PROVE  Inside' = Inside
  BY <1>3 DEF Inside
<1>4. ASSUME Inside' = Inside, UNCHANGED m_requests_running,
             MutexHeld', m_cleanup_requested', m_requests_running = 0
      PROVE  LockInv'
  BY <1>4 DEF LockInv
<1>5. CASE Start
  BY <1>5, <1>2, <1>3 DEF Start, QuietInv, MutexHeld
<1>6. CASE Produce
  BY <1>6, <1>1, <1>3 DEF Produce
<1>7. CASE StopBegin
  BY <1>7, <1>1, <1>3 DEF StopBegin
<1>8. CASE StopJoins
  BY <1>8, <1>1, <1>3 DEF StopJoins
<1>9. CASE Flush
  BY <1>9, <1>1, <1>3 DEF Flush
<1>10. ASSUME NEW r \in Requests, Dispatch(r)
       PROVE  LockInv'
  BY <1>10, <1>1, <1>3 DEF Dispatch
<1>11. ASSUME NEW r \in Requests, Expire(r)
       PROVE  LockInv'
  BY <1>11, <1>1, <1>3 DEF Expire
<1>12. ASSUME NEW t \in Threads, TaskStart(t)
       PROVE  LockInv'
  <2>1. Inside' = Inside
    BY <1>12 DEF TaskStart, Inside
  <2> QED
    BY <1>12, <1>1, <2>1 DEF TaskStart
<1>13. ASSUME NEW t \in Threads, Collect(t)
       PROVE  LockInv'
  <2>1. Inside' = Inside
    BY <1>13 DEF Collect, Inside
  <2> QED
    BY <1>13, <1>1, <2>1 DEF Collect
<1>14. ASSUME NEW t \in Threads, CopyPieces(t)
       PROVE  LockInv'
  <2>1. Inside' = Inside
    BY <1>14 DEF CopyPieces, Inside
  <2> QED
    BY <1>14, <1>1, <2>1 DEF CopyPieces
<1>15. ASSUME NEW t \in Threads, Requeue(t)
       PROVE  LockInv'
  <2>1. Inside' = Inside
    BY <1>15 DEF Requeue, Inside
  <2> QED
    BY <1>15, <1>1, <2>1 DEF Requeue
<1>16. ASSUME NEW t \in Threads, SendFragment(t)
       PROVE  LockInv'
  <2>1. Inside' = Inside
    BY <1>16 DEF SendFragment, Inside
  <2> QED
    BY <1>16, <1>1, <2>1 DEF SendFragment
<1>17. ASSUME NEW u \in Users, Enter(u)
       PROVE  LockInv'
  <2>1. u \notin Inside /\ Inside' = Inside \cup {u}
    BY <1>17 DEF Enter, Inside
  <2>2. Cardinality(Inside') = Cardinality(Inside) + 1
    BY <2>1, InsideFinite, FS_AddElement
  <2> QED
    BY <1>17, <2>2 DEF Enter, LockInv, MutexHeld
<1>18. ASSUME NEW u \in Users, Leave(u)
       PROVE  LockInv'
  <2>1. u \in Inside /\ Inside' = Inside \ {u}
    BY <1>18 DEF Leave, Inside
  <2>2. Cardinality(Inside') = Cardinality(Inside) - 1
    BY <2>1, InsideFinite, FS_RemoveElement
  <2> QED
    BY <1>18, <2>2 DEF Leave, LockInv, MutexHeld
<1>19. ASSUME NEW u \in Users, WaitForCleanup(u)
       PROVE  LockInv'
  BY <1>19, <1>1, <1>3 DEF WaitForCleanup
<1>20. ASSUME NEW u \in Users, Notify(u)
       PROVE  LockInv'
  <2>1. Inside' = Inside
    BY <1>20 DEF Notify, Inside
  <2> QED
    BY <1>20, <1>1, <2>1 DEF Notify
<1>21. CASE WaiterLoop
  BY <1>21, <1>1, <1>3 DEF WaiterLoop
<1>22. CASE Scan
  BY <1>22, <1>1, <1>3 DEF Scan
<1>23. CASE CleanerLoop
  BY <1>23, <1>2, <1>3 DEF CleanerLoop, MutexHeld
<1>24. CASE CleanupCheck
  BY <1>24, <1>3 DEF CleanupCheck, CleanerMayGoOn, LockInv, MutexHeld
<1>25. CASE CleanerWakes
  BY <1>25, <1>3 DEF CleanerWakes, CleanerMayGoOn, LockInv, MutexHeld
<1>26. CASE CleanupSize
  BY <1>26, <1>3, <1>4 DEF CleanupSize, LockInv, MutexHeld
<1>27. CASE CleanupTest
  BY <1>27, <1>3, <1>4 DEF CleanupTest, LockInv, MutexHeld
<1>28. CASE CleanupPop
  BY <1>28, <1>3, <1>4 DEF CleanupPop, LockInv, MutexHeld
<1>29. CASE CleanupErrors
  BY <1>29, <1>3, <1>4 DEF CleanupErrors, LockInv, MutexHeld
<1>30. CASE CleanupFinish
  BY <1>30, <1>3 DEF CleanupFinish, LockInv, MutexHeld
<1>31. CASE Record
  <2>1. Inside' = Inside
    BY <1>31 DEF Record, Inside
  <2> QED
    BY <1>31, <1>1, <2>1 DEF Record
<1>32. CASE RecordBegin
  <2>1. Inside' = Inside
    BY <1>32 DEF RecordBegin, Inside
  <2> QED
    BY <1>32, <1>1, <2>1 DEF RecordBegin
<1>33. CASE RecordLoop
  <2>1. Inside' = Inside
    BY <1>33 DEF RecordLoop, Inside
  <2> QED
    BY <1>33, <1>1, <2>1 DEF RecordLoop
<1>34. CASE RecordSearch
  <2>1. Inside' = Inside
    BY <1>34 DEF RecordSearch, Inside
  <2> QED
    BY <1>34, <1>1, <2>1 DEF RecordSearch
<1>35. CASE RecordElement
  <2>1. Inside' = Inside
    BY <1>35 DEF RecordElement, Inside
  <2> QED
    BY <1>35, <1>1, <2>1 DEF RecordElement
<1>36. CASE StoreCursor
  <2>1. Inside' = Inside
    BY <1>36 DEF StoreCursor, Inside
  <2> QED
    BY <1>36, <1>1, <2>1 DEF StoreCursor
<1>37. CASE NextChunk
  <2>1. Inside' = Inside
    BY <1>37 DEF NextChunk, Inside
  <2> QED
    BY <1>37, <1>1, <2>1 DEF NextChunk
<1>38. CASE RecordWalkEnds
  <2>1. Inside' = Inside
    BY <1>38 DEF RecordWalkEnds, Inside
  <2> QED
    BY <1>38, <1>1, <2>1 DEF RecordWalkEnds
<1>39. CASE RecordEnd
  <2>1. Inside' = Inside
    BY <1>39 DEF RecordEnd, Inside
  <2> QED
    BY <1>39, <1>1, <2>1 DEF RecordEnd
<1>40. CASE UNCHANGED vars
  BY <1>40, <1>1, <1>3 DEF vars
<1> QED
  BY <1>5, <1>6, <1>7, <1>8, <1>9, <1>10, <1>11, <1>12, <1>13, <1>14, <1>15, <1>16,
     <1>17, <1>18, <1>19, <1>20, <1>21, <1>22, <1>23, <1>24, <1>25, <1>26, <1>27, <1>28,
     <1>29, <1>30, <1>31, <1>32, <1>33, <1>34, <1>35, <1>36, <1>37, <1>38, <1>39, <1>40
  DEF Next, StopStep, ThreadStep, WaiterStep, CleanerStep, RecorderStep, Finished, Users

-----------------------------------------------------------------------------
(* Each step keeps what the joins of stop() have reached. *)
LEMMA QuietStep == IInv /\ [Next]_vars => QuietInv'
<1> SUFFICES ASSUME TypeOK, LockInv, QuietInv, [Next]_vars
             PROVE  QuietInv'
  BY DEF IInv
<1> USE Constants
<1> USE DEF TypeOK, cleanerFrame, recorderFrame, threadFrame, lockFrame, bufferVars, controlVars,
            lockVars, cleanerVars, requestVars, waitVars, recordVars
<1>1. ASSUME mpc' \notin {"joined", "stopped"}
      PROVE  QuietInv'
  BY <1>1 DEF QuietInv
<1>2. ASSUME mpc' = mpc, mpc \notin {"joined", "stopped"}
      PROVE  QuietInv'
  BY <1>2 DEF QuietInv
<1>3. CASE Produce
  BY <1>3, <1>2 DEF Produce, QuietInv
<1>4. CASE Start
  BY <1>4, <1>1 DEF Start
<1>5. CASE StopBegin
  BY <1>5, <1>1 DEF StopBegin
<1>6. CASE StopJoins
  BY <1>6 DEF StopJoins, QuietInv, Users
<1>7. CASE Flush
  BY <1>7, <1>2 DEF Flush, QuietInv
<1>8. ASSUME NEW r \in Requests, Dispatch(r)
      PROVE  QuietInv'
  BY <1>8, <1>2 DEF Dispatch, QuietInv
<1>9. ASSUME NEW r \in Requests, Expire(r)
      PROVE  QuietInv'
  BY <1>9, <1>2 DEF Expire, QuietInv
<1>10. ASSUME NEW t \in Threads, TaskStart(t)
       PROVE  QuietInv'
  BY <1>10, <1>2 DEF TaskStart, QuietInv
<1>11. ASSUME NEW u \in Users, WaitForCleanup(u)
       PROVE  QuietInv'
  BY <1>11, <1>2 DEF WaitForCleanup, QuietInv
<1>12. ASSUME NEW u \in Users, Enter(u)
       PROVE  QuietInv'
  BY <1>12, <1>2 DEF Enter, QuietInv
<1>13. ASSUME NEW t \in Threads, Collect(t)
       PROVE  QuietInv'
  BY <1>13, <1>2 DEF Collect, QuietInv
<1>14. ASSUME NEW t \in Threads, CopyPieces(t)
       PROVE  QuietInv'
  BY <1>14, <1>2 DEF CopyPieces, QuietInv
<1>15. ASSUME NEW u \in Users, Leave(u)
       PROVE  QuietInv'
  BY <1>15, <1>2 DEF Leave, QuietInv
<1>16. ASSUME NEW u \in Users, Notify(u)
       PROVE  QuietInv'
  BY <1>16, <1>2 DEF Notify, QuietInv
<1>17. ASSUME NEW t \in Threads, Requeue(t)
       PROVE  QuietInv'
  BY <1>17, <1>2 DEF Requeue, QuietInv
<1>18. ASSUME NEW t \in Threads, SendFragment(t)
       PROVE  QuietInv'
  BY <1>18, <1>2 DEF SendFragment, QuietInv
<1>19. CASE WaiterLoop
  BY <1>19, <1>2 DEF WaiterLoop, QuietInv
<1>20. CASE Scan
  BY <1>20, <1>2 DEF Scan, QuietInv
<1>21. CASE CleanerLoop
  BY <1>21, <1>2 DEF CleanerLoop, QuietInv
<1>22. CASE CleanupCheck
  BY <1>22, <1>2 DEF CleanupCheck, QuietInv
<1>23. CASE CleanerWakes
  BY <1>23, <1>2 DEF CleanerWakes, QuietInv
<1>24. CASE CleanupSize
  BY <1>24, <1>2 DEF CleanupSize, QuietInv
<1>25. CASE CleanupTest
  BY <1>25, <1>2 DEF CleanupTest, QuietInv
<1>26. CASE CleanupPop
  BY <1>26, <1>2 DEF CleanupPop, QuietInv
<1>27. CASE CleanupErrors
  BY <1>27, <1>2 DEF CleanupErrors, QuietInv
<1>28. CASE CleanupFinish
  BY <1>28, <1>2 DEF CleanupFinish, QuietInv
<1>29. CASE Record
  BY <1>29, <1>2 DEF Record, QuietInv
<1>30. CASE RecordBegin
  BY <1>30, <1>2 DEF RecordBegin, QuietInv
<1>31. CASE RecordLoop
  BY <1>31, <1>2 DEF RecordLoop, QuietInv
<1>32. CASE RecordSearch
  BY <1>32, <1>2 DEF RecordSearch, QuietInv
<1>33. CASE RecordElement
  BY <1>33, <1>2 DEF RecordElement, QuietInv
<1>34. CASE StoreCursor
  BY <1>34, <1>2 DEF StoreCursor, QuietInv
<1>35. CASE NextChunk
  BY <1>35, <1>2 DEF NextChunk, QuietInv
<1>36. CASE RecordWalkEnds
  BY <1>36, <1>2 DEF RecordWalkEnds, QuietInv
<1>37. CASE RecordEnd
  BY <1>37, <1>2 DEF RecordEnd, QuietInv
<1>38. CASE UNCHANGED vars
  BY <1>38, <1>2 DEF vars, QuietInv
<1> QED
  BY <1>3, <1>4, <1>5, <1>6, <1>7, <1>8, <1>9, <1>10, <1>11, <1>12, <1>13, <1>14,
     <1>15, <1>16, <1>17, <1>18, <1>19, <1>20, <1>21, <1>22, <1>23, <1>24, <1>25, <1>26,
     <1>27, <1>28, <1>29, <1>30, <1>31, <1>32, <1>33, <1>34, <1>35, <1>36, <1>37, <1>38
  DEF Next, StopStep, ThreadStep, WaiterStep, CleanerStep, RecorderStep, Finished, Users

-----------------------------------------------------------------------------
(* Each step keeps the tasks of the threads at work. *)
LEMMA TaskStep == IInv /\ [Next]_vars => TaskInv'
<1> SUFFICES ASSUME TypeOK, TaskInv, [Next]_vars
             PROVE  TaskInv'
  BY DEF IInv
<1> USE Constants
<1> USE DEF TypeOK, cleanerFrame, recorderFrame, threadFrame, lockFrame, bufferVars, controlVars,
            lockVars, cleanerVars, requestVars, waitVars, recordVars
<1>1. ASSUME UNCHANGED <<upc, task>>
      PROVE  TaskInv'
  BY <1>1 DEF TaskInv
<1>2. ASSUME NEW p, upc' = [upc EXCEPT ![Recorder] = p], UNCHANGED task
      PROVE  TaskInv'
  BY <1>2 DEF TaskInv
<1>3. CASE Produce
  BY <1>3, <1>1 DEF Produce
<1>4. CASE Start
  BY <1>4, <1>1 DEF Start
<1>5. CASE StopBegin
  BY <1>5, <1>1 DEF StopBegin
<1>6. CASE StopJoins
  BY <1>6, <1>1 DEF StopJoins
<1>7. CASE Flush
  BY <1>7, <1>1 DEF Flush
<1>8. ASSUME NEW r \in Requests, Dispatch(r)
      PROVE  TaskInv'
  BY <1>8, <1>1 DEF Dispatch
<1>9. ASSUME NEW r \in Requests, Expire(r)
      PROVE  TaskInv'
  BY <1>9, <1>1 DEF Expire
<1>10. ASSUME NEW t \in Threads, TaskStart(t)
       PROVE  TaskInv'
  BY <1>10 DEF TaskStart, TaskInv
<1>11. ASSUME NEW u \in Users, WaitForCleanup(u)
       PROVE  TaskInv'
  BY <1>11, <1>1 DEF WaitForCleanup
<1>12. ASSUME NEW u \in Users, Enter(u)
       PROVE  TaskInv'
  BY <1>12 DEF Enter, TaskInv
<1>13. ASSUME NEW t \in Threads, Collect(t)
       PROVE  TaskInv'
  BY <1>13 DEF Collect, TaskInv
<1>14. ASSUME NEW t \in Threads, CopyPieces(t)
       PROVE  TaskInv'
  BY <1>14 DEF CopyPieces, TaskInv
<1>15. ASSUME NEW u \in Users, Leave(u)
       PROVE  TaskInv'
  BY <1>15 DEF Leave, TaskInv
<1>16. ASSUME NEW u \in Users, Notify(u)
       PROVE  TaskInv'
  BY <1>16 DEF Notify, TaskInv
<1>17. ASSUME NEW t \in Threads, Requeue(t)
       PROVE  TaskInv'
  BY <1>17 DEF Requeue, TaskInv
<1>18. ASSUME NEW t \in Threads, SendFragment(t)
       PROVE  TaskInv'
  BY <1>18 DEF SendFragment, TaskInv
<1>19. CASE WaiterLoop
  BY <1>19, <1>1 DEF WaiterLoop
<1>20. CASE Scan
  BY <1>20, <1>1 DEF Scan
<1>21. CASE CleanerLoop
  BY <1>21, <1>1 DEF CleanerLoop
<1>22. CASE CleanupCheck
  BY <1>22, <1>1 DEF CleanupCheck
<1>23. CASE CleanerWakes
  BY <1>23, <1>1 DEF CleanerWakes
<1>24. CASE CleanupSize
  BY <1>24, <1>1 DEF CleanupSize
<1>25. CASE CleanupTest
  BY <1>25, <1>1 DEF CleanupTest
<1>26. CASE CleanupPop
  BY <1>26, <1>1 DEF CleanupPop
<1>27. CASE CleanupErrors
  BY <1>27, <1>1 DEF CleanupErrors
<1>28. CASE CleanupFinish
  BY <1>28, <1>1 DEF CleanupFinish
<1>29. CASE Record
  BY <1>29, <1>2 DEF Record
<1>30. CASE RecordBegin
  BY <1>30, <1>2 DEF RecordBegin
<1>31. CASE RecordLoop
  BY <1>31, <1>2 DEF RecordLoop
<1>32. CASE RecordSearch
  BY <1>32, <1>2 DEF RecordSearch
<1>33. CASE RecordElement
  BY <1>33, <1>2 DEF RecordElement
<1>34. CASE StoreCursor
  BY <1>34, <1>2 DEF StoreCursor
<1>35. CASE NextChunk
  BY <1>35, <1>2 DEF NextChunk
<1>36. CASE RecordWalkEnds
  BY <1>36, <1>2 DEF RecordWalkEnds
<1>37. CASE RecordEnd
  BY <1>37, <1>2 DEF RecordEnd
<1>38. CASE UNCHANGED vars
  BY <1>38, <1>1 DEF vars
<1> QED
  BY <1>3, <1>4, <1>5, <1>6, <1>7, <1>8, <1>9, <1>10, <1>11, <1>12, <1>13, <1>14,
     <1>15, <1>16, <1>17, <1>18, <1>19, <1>20, <1>21, <1>22, <1>23, <1>24, <1>25, <1>26,
     <1>27, <1>28, <1>29, <1>30, <1>31, <1>32, <1>33, <1>34, <1>35, <1>36, <1>37, <1>38
  DEF Next, StopStep, ThreadStep, WaiterStep, CleanerStep, RecorderStep, Finished, Users

-----------------------------------------------------------------------------
(* Each step keeps the count of elements to pop. *)
LEMMA PopStep == IInv /\ [Next]_vars => PopInv'
<1> SUFFICES ASSUME TypeOK, PopInv, QuietInv, [Next]_vars
             PROVE  PopInv'
  BY DEF IInv
<1> USE DEF TypeOK, cleanerFrame, recorderFrame, threadFrame, lockFrame, bufferVars, controlVars,
            lockVars, cleanerVars, requestVars, waitVars, recordVars
<1>1. CASE CleanerStep
  BY <1>1 DEF CleanerStep, CleanerLoop, CleanupCheck, CleanerWakes, CleanupSize, CleanupTest,
              CleanupPop, CleanupErrors, CleanupFinish, PopInv
<1>2. CASE Start
  BY <1>2 DEF Start, PopInv
<1>3. ASSUME UNCHANGED cleanerVars
      PROVE  PopInv'
  BY <1>3 DEF PopInv
<1>4. CASE Produce \/ StopBegin \/ StopStep \/ WaiterStep \/ Record
  BY <1>4, <1>3 DEF Produce, StopBegin, StopStep, StopJoins, Flush, WaiterStep, WaiterLoop,
                    Scan, Record
<1>5. CASE \E r \in Requests : Dispatch(r) \/ Expire(r)
  BY <1>5, <1>3 DEF Dispatch, Expire
<1>6. CASE \E t \in Threads : ThreadStep(t)
  BY <1>6, <1>3 DEF ThreadStep, TaskStart, WaitForCleanup, Enter, Collect, CopyPieces, Leave,
                    Notify, Requeue, SendFragment
<1>7. CASE RecorderStep
  BY <1>7, <1>3 DEF RecorderStep, RecordBegin, RecordLoop, WaitForCleanup, Enter, RecordSearch,
                    Leave, Notify, RecordElement, StoreCursor, NextChunk, RecordWalkEnds,
                    RecordEnd
<1>8. CASE UNCHANGED vars
  BY <1>8, <1>3 DEF vars
<1> QED
  BY <1>1, <1>2, <1>4, <1>5, <1>6, <1>7, <1>8 DEF Next, Finished

-----------------------------------------------------------------------------
(* Each step keeps the element that the recorder writes.  A cleanup that   *)
(* tested the front before a recording began is over when the recorder     *)
(* enters, and every later test has seen the cursor.                       *)
LEMMA RecorderKept == IInv /\ [Next]_vars => RecorderInv'
<1> SUFFICES ASSUME TypeOK, LockInv, QuietInv, RecorderInv, [Next]_vars
             PROVE  RecorderInv'
  BY DEF IInv
<1> USE Constants
<1> USE DEF TypeOK, cleanerFrame, recorderFrame, threadFrame, lockFrame, bufferVars, controlVars,
            lockVars, cleanerVars, requestVars, waitVars, recordVars
<1>1. ASSUME upc'[Recorder] = upc[Recorder],
             UNCHANGED <<bufferVars, cpc, m_next_timestamp_to_record, chunk_iter>>
      PROVE  RecorderInv'
  BY <1>1 DEF RecorderInv, Buffered
<1>2. ASSUME UNCHANGED <<upc, bufferVars, recordVars>>, cpc' # "popping"
      PROVE  RecorderInv'
  BY <1>2 DEF RecorderInv, Buffered
<1>3. CASE Produce
  <2>1. Buffered \subseteq Buffered'
    BY <1>3 DEF Produce, Buffered
  <2> QED
    BY <1>3, <2>1 DEF Produce, RecorderInv
<1>4. CASE Start
  BY <1>4, <1>2 DEF Start
<1>5. CASE StopBegin
  BY <1>5, <1>1 DEF StopBegin
<1>6. CASE StopJoins
  BY <1>6, <1>1 DEF StopJoins
<1>7. CASE Flush
  <2>1. upc[Recorder] = "idle"
    BY <1>7 DEF Flush, QuietInv
  <2> QED
    BY <1>7, <2>1 DEF Flush, RecorderInv
<1>8. ASSUME NEW r \in Requests, Dispatch(r)
      PROVE  RecorderInv'
  BY <1>8, <1>1 DEF Dispatch
<1>9. ASSUME NEW r \in Requests, Expire(r)
      PROVE  RecorderInv'
  BY <1>9, <1>1 DEF Expire
<1>10. ASSUME NEW t \in Threads, TaskStart(t)
       PROVE  RecorderInv'
  BY <1>10, <1>1 DEF TaskStart
<1>11. ASSUME NEW u \in Users, WaitForCleanup(u)
       PROVE  RecorderInv'
  BY <1>11, <1>1 DEF WaitForCleanup
<1>12. ASSUME NEW u \in Users, Enter(u)
       PROVE  RecorderInv'
  <2>1. cpc # "popping"
    BY <1>12 DEF Enter, MutexHeld
  <2>2. upc'[Recorder] = "store" => upc[Recorder] = "store"
    BY <1>12 DEF Enter
  <2> QED
    BY <1>12, <2>1, <2>2 DEF Enter, RecorderInv, Buffered
<1>13. ASSUME NEW t \in Threads, Collect(t)
       PROVE  RecorderInv'
  BY <1>13, <1>1 DEF Collect
<1>14. ASSUME NEW t \in Threads, CopyPieces(t)
       PROVE  RecorderInv'
  BY <1>14, <1>1 DEF CopyPieces
<1>15. ASSUME NEW u \in Users, Leave(u)
       PROVE  RecorderInv'
  <2>1. /\ upc'[Recorder] = "store" => upc[Recorder] = "store"
        /\ upc'[Recorder] = "notify" => upc[Recorder] \in {"leave", "notify"}
        /\ upc'[Recorder] \in {"inside", "leave", "walk", "next"} => upc'[Recorder] = upc[Recorder]
    BY <1>15 DEF Leave
  <2> QED
    BY <1>15, <2>1 DEF Leave, RecorderInv, Buffered
<1>16. ASSUME NEW u \in Users, Notify(u)
       PROVE  RecorderInv'
  <2>1. /\ upc'[Recorder] = "store" => upc[Recorder] = "store"
        /\ upc'[Recorder] = "walk" => upc[Recorder] \in {"notify", "walk"}
        /\ upc'[Recorder] \in {"inside", "leave", "notify", "next"}
             => upc'[Recorder] = upc[Recorder]
    BY <1>16 DEF Notify
  <2> QED
    BY <1>16, <2>1 DEF Notify, RecorderInv, Buffered
<1>17. ASSUME NEW t \in Threads, Requeue(t)
       PROVE  RecorderInv'
  BY <1>17, <1>1 DEF Requeue
<1>18. ASSUME NEW t \in Threads, SendFragment(t)
       PROVE  RecorderInv'
  BY <1>18, <1>1 DEF SendFragment
<1>19. CASE WaiterLoop
  BY <1>19, <1>1 DEF WaiterLoop
<1>20. CASE Scan
  BY <1>20, <1>1 DEF Scan
<1>21. CASE CleanerLoop
  BY <1>21, <1>2 DEF CleanerLoop
<1>22. CASE CleanupCheck
  BY <1>22, <1>2 DEF CleanupCheck
<1>23. CASE CleanerWakes
  BY <1>23, <1>2 DEF CleanerWakes
<1>24. CASE CleanupSize
  BY <1>24, <1>2 DEF CleanupSize
<1>25. CASE CleanupTest
  BY <1>25 DEF CleanupTest, FrontMayGo, RecorderInv, Buffered
<1>26. CASE CleanupPop
  <2>1. ASSUME upc[Recorder] = "store"
        PROVE  oldest < m_next_timestamp_to_record
    BY <1>26, <2>1 DEF CleanupPop, RecorderInv
  <2>2. ASSUME upc[Recorder] = "store", NEW ts \in Buffered, ts >= m_next_timestamp_to_record
        PROVE  ts \in Buffered'
    BY <1>26, <2>1, <2>2 DEF CleanupPop, Buffered
  <2> QED
    BY <1>26, <2>2 DEF CleanupPop, RecorderInv
<1>27. CASE CleanupErrors
  BY <1>27, <1>2 DEF CleanupErrors
<1>28. CASE CleanupFinish
  BY <1>28, <1>2 DEF CleanupFinish
<1>29. CASE Record
  BY <1>29 DEF Record, RecorderInv
<1>30. CASE RecordBegin
  BY <1>30 DEF RecordBegin, RecorderInv
<1>31. CASE RecordLoop
  BY <1>31 DEF RecordLoop, RecorderInv
<1>32. CASE RecordSearch
  BY <1>32 DEF RecordSearch, RecorderInv
<1>33. CASE RecordElement
  <2>1. ElementAt(chunk_iter) \in Buffered /\ Slot(ElementAt(chunk_iter)) = chunk_iter
    BY <1>33, ElementOfGoodSlot DEF RecordElement
  <2>2. Buffered' = Buffered
    BY <1>33 DEF RecordElement, Buffered
  <2> QED
    BY <1>33, <2>1, <2>2 DEF RecordElement, RecorderInv
<1>34. CASE StoreCursor
  <2>1. GoodSlot(chunk_iter)
    BY <1>34 DEF StoreCursor, RecorderInv, GoodSlot
  <2>2. ElementAt(chunk_iter) \in Nat /\ oldest <= ElementAt(chunk_iter)
    BY <2>1, ElementOfGoodSlot, BufferedType
  <2> QED
    BY <1>34, <2>2 DEF StoreCursor, RecorderInv
<1>35. CASE NextChunk
  BY <1>35 DEF NextChunk, RecorderInv
<1>36. CASE RecordWalkEnds
  BY <1>36 DEF RecordWalkEnds, RecorderInv
<1>37. CASE RecordEnd
  BY <1>37 DEF RecordEnd, RecorderInv
<1>38. CASE UNCHANGED vars
  BY <1>38, <1>1 DEF vars
<1> QED
  BY <1>3, <1>4, <1>5, <1>6, <1>7, <1>8, <1>9, <1>10, <1>11, <1>12, <1>13, <1>14,
     <1>15, <1>16, <1>17, <1>18, <1>19, <1>20, <1>21, <1>22, <1>23, <1>24, <1>25, <1>26,
     <1>27, <1>28, <1>29, <1>30, <1>31, <1>32, <1>33, <1>34, <1>35, <1>36, <1>37, <1>38
  DEF Next, StopStep, ThreadStep, WaiterStep, CleanerStep, RecorderStep, Finished, Users

-----------------------------------------------------------------------------
(* Each step keeps the pieces found in the buffer.  Only cleanups and the   *)
(* flush remove elements, and neither meets a thread inside.               *)
LEMMA PiecesStep == IInv /\ [Next]_vars => PiecesStayBuffered'
<1> SUFFICES ASSUME TypeOK, LockInv, QuietInv, PiecesStayBuffered, [Next]_vars
             PROVE  PiecesStayBuffered'
  BY DEF IInv
<1> USE Constants
<1> USE DEF TypeOK, cleanerFrame, recorderFrame, threadFrame, lockFrame, bufferVars, controlVars,
            lockVars, cleanerVars, requestVars, waitVars, recordVars
<1>1. ASSUME UNCHANGED <<bufferVars, frag_pieces>>,
             \A t \in Threads : upc'[t] = "collected" => upc[t] = "collected"
      PROVE  PiecesStayBuffered'
  BY <1>1 DEF PiecesStayBuffered, Buffered
<1>2. CASE Produce
  <2>1. Buffered \subseteq Buffered'
    BY <1>2 DEF Produce, Buffered
  <2> QED
    BY <1>2, <2>1 DEF Produce, PiecesStayBuffered
<1>3. CASE Start
  BY <1>3, <1>1 DEF Start
<1>4. CASE StopBegin
  BY <1>4, <1>1 DEF StopBegin
<1>5. CASE StopJoins
  BY <1>5, <1>1 DEF StopJoins
<1>6. CASE Flush
  <2>1. \A t \in Threads : upc[t] = "idle"
    BY <1>6 DEF Flush, QuietInv
  <2> QED
    BY <1>6, <2>1 DEF Flush, PiecesStayBuffered
<1>7. ASSUME NEW r \in Requests, Dispatch(r)
      PROVE  PiecesStayBuffered'
  BY <1>7, <1>1 DEF Dispatch
<1>8. ASSUME NEW r \in Requests, Expire(r)
      PROVE  PiecesStayBuffered'
  BY <1>8, <1>1 DEF Expire
<1>9. ASSUME NEW t \in Threads, TaskStart(t)
      PROVE  PiecesStayBuffered'
  BY <1>9, <1>1 DEF TaskStart
<1>10. ASSUME NEW u \in Users, WaitForCleanup(u)
       PROVE  PiecesStayBuffered'
  BY <1>10, <1>1 DEF WaitForCleanup
<1>11. ASSUME NEW u \in Users, Enter(u)
       PROVE  PiecesStayBuffered'
  BY <1>11, <1>1 DEF Enter
<1>12. ASSUME NEW t \in Threads, Collect(t)
       PROVE  PiecesStayBuffered'
  <2>1. frag_pieces'[t] \subseteq Buffered
    BY <1>12 DEF Collect
  <2>2. Buffered' = Buffered
    BY <1>12 DEF Collect, Buffered
  <2>3. \A q \in Threads : q # t => upc'[q] = upc[q] /\ frag_pieces'[q] = frag_pieces[q]
    BY <1>12 DEF Collect
  <2> QED
    BY <2>1, <2>2, <2>3 DEF PiecesStayBuffered
<1>13. ASSUME NEW t \in Threads, CopyPieces(t)
       PROVE  PiecesStayBuffered'
  <2>1. upc'[t] = "leave" /\ Buffered' = Buffered
    BY <1>13 DEF CopyPieces, Buffered
  <2>2. \A q \in Threads : q # t => upc'[q] = upc[q] /\ frag_pieces'[q] = frag_pieces[q]
    BY <1>13 DEF CopyPieces
  <2> QED
    BY <2>1, <2>2 DEF PiecesStayBuffered
<1>14. ASSUME NEW u \in Users, Leave(u)
       PROVE  PiecesStayBuffered'
  BY <1>14, <1>1 DEF Leave
<1>15. ASSUME NEW u \in Users, Notify(u)
       PROVE  PiecesStayBuffered'
  BY <1>15, <1>1 DEF Notify
<1>16. ASSUME NEW t \in Threads, Requeue(t)
       PROVE  PiecesStayBuffered'
  BY <1>16, <1>1 DEF Requeue
<1>17. ASSUME NEW t \in Threads, SendFragment(t)
       PROVE  PiecesStayBuffered'
  BY <1>17, <1>1 DEF SendFragment
<1>18. CASE WaiterLoop
  BY <1>18, <1>1 DEF WaiterLoop
<1>19. CASE Scan
  BY <1>19, <1>1 DEF Scan
<1>20. CASE CleanerLoop
  BY <1>20, <1>1 DEF CleanerLoop
<1>21. CASE CleanupCheck
  BY <1>21, <1>1 DEF CleanupCheck
<1>22. CASE CleanerWakes
  BY <1>22, <1>1 DEF CleanerWakes
<1>23. CASE CleanupSize
  BY <1>23, <1>1 DEF CleanupSize
<1>24. CASE CleanupTest
  BY <1>24, <1>1 DEF CleanupTest
<1>25. CASE CleanupPop
  <2>1. Inside = {}
    BY <1>25, InsideFinite, FS_EmptySet DEF CleanupPop, LockInv, MutexHeld
  <2>2. \A t \in Threads : upc[t] # "collected"
    BY <2>1 DEF Inside
  <2> QED
    BY <1>25, <2>2 DEF CleanupPop, PiecesStayBuffered
<1>26. CASE CleanupErrors
  BY <1>26, <1>1 DEF CleanupErrors
<1>27. CASE CleanupFinish
  BY <1>27, <1>1 DEF CleanupFinish
<1>28. CASE Record
  BY <1>28, <1>1 DEF Record
<1>29. CASE RecordBegin
  BY <1>29, <1>1 DEF RecordBegin
<1>30. CASE RecordLoop
  BY <1>30, <1>1 DEF RecordLoop
<1>31. CASE RecordSearch
  BY <1>31, <1>1 DEF RecordSearch
<1>32. CASE RecordElement
  BY <1>32, <1>1 DEF RecordElement
<1>33. CASE StoreCursor
  BY <1>33, <1>1 DEF StoreCursor
<1>34. CASE NextChunk
  BY <1>34, <1>1 DEF NextChunk
<1>35. CASE RecordWalkEnds
  BY <1>35, <1>1 DEF RecordWalkEnds
<1>36. CASE RecordEnd
  BY <1>36, <1>1 DEF RecordEnd
<1>37. CASE UNCHANGED vars
  BY <1>37, <1>1 DEF vars
<1> QED
  BY <1>2, <1>3, <1>4, <1>5, <1>6, <1>7, <1>8, <1>9, <1>10, <1>11, <1>12, <1>13,
     <1>14, <1>15, <1>16, <1>17, <1>18, <1>19, <1>20, <1>21, <1>22, <1>23, <1>24, <1>25,
     <1>26, <1>27, <1>28, <1>29, <1>30, <1>31, <1>32, <1>33, <1>34, <1>35, <1>36, <1>37
  DEF Next, StopStep, ThreadStep, WaiterStep, CleanerStep, RecorderStep, Finished, Users

-----------------------------------------------------------------------------
(* The invariant is inductive. *)
LEMMA IInvStep == IInv /\ [Next]_vars => IInv'
BY TypeStep, LockStep, QuietStep, TaskStep, PopStep, RecorderKept, PiecesStep DEF IInv

LEMMA IInvAlways == Spec => []IInv
BY InitIInv, IInvStep, PTL DEF Spec

(* The members of DefaultRequestHandlerModel keep their types: the counter *)
(* m_requests_running never goes below zero and the recorder's iterator    *)
(* never leaves the ring.                                                  *)
THEOREM HandlerTypeCorrect == Spec => []TypeOK
<1>1. IInv => TypeOK
  BY DEF IInv
<1> QED
  BY <1>1, IInvAlways, PTL

(* cleanup() never runs while a request thread or the recorder searches    *)
(* the buffer, for any number of threads.                                  *)
THEOREM Exclusion == Spec => []CleanupExcludesReaders
<1>1. IInv => CleanupExcludesReaders
  BY InsideFinite, FS_EmptySet DEF IInv, LockInv, CleanupExcludesReaders
<1> QED
  BY <1>1, IInvAlways, PTL

(* The elements that data_request() found are in the buffer until they are *)
(* copied, whatever cleanups, stops and flushes come.                      *)
THEOREM PiecesSafety == Spec => []PiecesStayBuffered
<1>1. IInv => PiecesStayBuffered
  BY DEF IInv
<1> QED
  BY <1>1, IInvAlways, PTL

(* stop() leaves no task, thread, cleanup or count behind. *)
THEOREM StopSafety == Spec => []QuietWhenStopped
<1>1. IInv => QuietWhenStopped
  <2> SUFFICES ASSUME IInv, mpc \in {"joined", "stopped"}
               PROVE  /\ pool = {}
                      /\ \A u \in Users : upc[u] = "idle"
                      /\ cpc = "off" /\ ~m_cleanup_requested
                      /\ m_requests_running = 0
    BY DEF QuietWhenStopped
  <2>1. pool = {} /\ (\A u \in Users : upc[u] = "idle") /\ cpc = "off"
    BY DEF IInv, QuietInv
  <2>2. ~m_cleanup_requested
    BY <2>1 DEF IInv, LockInv, MutexHeld
  <2>3. Inside = {}
    BY <2>1 DEF Inside
  <2>4. m_requests_running = 0
    BY <2>3, FS_EmptySet DEF IInv, LockInv
  <2> QED
    BY <2>1, <2>2, <2>4
<1> QED
  BY <1>1, IInvAlways, PTL

-----------------------------------------------------------------------------
(* Fewer elements are to be popped than there are. *)
FrontInv ==
  /\ cpc \in {"pop", "popping"} => to_pop < Occupancy
  /\ cpc = "errors" => Occupancy > 0

(* A proper fraction of a positive number, rounded down, is less. *)
LEMMA ProperFraction ==
  ASSUME NEW n \in Nat, NEW d \in Nat \ {0}, n < d, NEW o \in Nat \ {0}
  PROVE  (n * o) \div d < o
<1> DEFINE q == (n * o) \div d
<1>1. n * o \in Nat
  BY NatProduct
<1>2. q \in Nat
  BY <1>1, NatQuotient
<1>3. d * q <= n * o
  BY <1>1
<1>4. n * o < d * o
  OBVIOUS
<1>5. q >= o => d * q >= d * o
  BY <1>2
<1> QED
  BY <1>1, <1>2, <1>3, <1>4, <1>5

LEMMA FrontStep ==
  ASSUME PopNum < PopDen, IInv, FrontInv, [Next]_vars
  PROVE  FrontInv'
<1> USE Constants
<1> USE DEF IInv, TypeOK, cleanerFrame, recorderFrame, threadFrame, lockFrame, bufferVars, controlVars,
            lockVars, cleanerVars, requestVars, waitVars, recordVars
<1>1. CASE Produce
  BY <1>1 DEF Produce, FrontInv, Occupancy
<1>2. ASSUME cpc' \notin {"pop", "popping", "errors"}
      PROVE  FrontInv'
  BY <1>2 DEF FrontInv
<1>3. CASE Start
  BY <1>2, <1>3 DEF Start
<1>4. CASE StopStep
  BY <1>2, <1>4 DEF StopStep, StopJoins, Flush, QuietInv
<1>5. CASE CleanupSize
  <2>1. ASSUME Occupancy > PopLimit
        PROVE  (PopNum * Occupancy) \div PopDen < Occupancy
    <3>1. Occupancy \in Nat \ {0}
      BY <2>1, HandlerAssumption DEF Occupancy
    <3> QED
      BY <3>1, HandlerAssumption, ProperFraction
  <2>2. Occupancy' = Occupancy
    BY <1>5 DEF CleanupSize, Occupancy
  <2> QED
    BY <1>5, <2>1, <2>2 DEF CleanupSize, FrontInv
<1>6. CASE CleanupTest
  BY <1>6 DEF CleanupTest, FrontInv, Occupancy
<1>7. CASE CleanupPop
  BY <1>7 DEF CleanupPop, FrontInv, PopInv, Occupancy
<1>8. CASE CleanerLoop \/ CleanupCheck \/ CleanerWakes \/ CleanupErrors \/ CleanupFinish
  BY <1>2, <1>8 DEF CleanerLoop, CleanupCheck, CleanerWakes, CleanupErrors, CleanupFinish
<1>9. ASSUME UNCHANGED <<bufferVars, cleanerVars>>
      PROVE  FrontInv'
  BY <1>9 DEF FrontInv, Occupancy
<1>10. CASE StopBegin \/ WaiterStep \/ Record
  BY <1>9, <1>10 DEF StopBegin, WaiterStep, WaiterLoop, Scan, Record
<1>11. CASE \E r \in Requests : Dispatch(r) \/ Expire(r)
  BY <1>9, <1>11 DEF Dispatch, Expire
<1>12. CASE \E t \in Threads : ThreadStep(t)
  BY <1>9, <1>12 DEF ThreadStep, TaskStart, WaitForCleanup, Enter, Collect, CopyPieces, Leave,
                     Notify, Requeue, SendFragment
<1>13. CASE RecorderStep
  BY <1>9, <1>13 DEF RecorderStep, RecordBegin, RecordLoop, WaitForCleanup, Enter, RecordSearch,
                     Leave, Notify, RecordElement, StoreCursor, NextChunk, RecordWalkEnds,
                     RecordEnd
<1>14. CASE UNCHANGED vars
  BY <1>9, <1>14 DEF vars
<1> QED
  BY <1>1, <1>3, <1>4, <1>5, <1>6, <1>7, <1>8, <1>10, <1>11, <1>12, <1>13, <1>14
  DEF Next, CleanerStep, Finished

(* With a pop percentage below one, cleanup() never dereferences the null  *)
(* front() of an empty buffer.  (With one, it does: RequestHandler_PopAll.)*)
THEOREM FrontSafety ==
  ASSUME PopNum < PopDen
  PROVE  Spec => []FrontNeverNull
<1>1. Init => FrontInv
  BY DEF Init, FrontInv
<1>2. IInv /\ FrontInv /\ [Next]_vars => FrontInv'
  BY FrontStep
<1>3. IInv /\ FrontInv => FrontNeverNull
  BY DEF IInv, TypeOK, PopInv, FrontInv, FrontNeverNull, Occupancy
<1> QED
  BY <1>1, <1>2, <1>3, IInvAlways, PTL DEF Spec

-----------------------------------------------------------------------------
(* The recorder. *)

(* The buffer never has more elements than slots to tell them apart, and a *)
(* pop never passes the newest one.                                        *)
RingInv ==
  /\ 0 <= Occupancy /\ Occupancy < Size
  /\ cpc = "popping" => Occupancy > 0

(* What has just been written to the file is in the slot of the iterator, *)
(* not yet passed by the cursor and, with that, still in the buffer.       *)
WriteInv ==
  upc[Recorder] = "store" =>
    /\ recorded # << >>
    /\ recorded[Len(recorded)] \in Buffered
    /\ Slot(recorded[Len(recorded)]) = chunk_iter
    /\ recorded[Len(recorded)] >= m_next_timestamp_to_record

(* A product of a natural number and a positive one is not less. *)
LEMMA ProductGrows ==
  ASSUME NEW s \in Nat, NEW k \in Int, k >= 1
  PROVE  s * k >= s
OBVIOUS

(* Two timestamps less than a ring apart are in different slots. *)
LEMMA SlotInjective ==
  ASSUME NEW a \in Nat, NEW b \in Nat, a <= b, b < a + Size, Slot(a) = Slot(b)
  PROVE  a = b
<1> DEFINE p == a \div Size
           q == b \div Size
<1>1. /\ p \in Int /\ q \in Int
      /\ a = Size * p + Slot(a)
      /\ b = Size * q + Slot(b)
      /\ Slot(a) \in Int
  BY Constants DEF Slot
<1> HIDE DEF p, q
<1>2. b - a = Size * (q - p)
  BY <1>1, Constants
<1>3. q - p >= 1 => b - a >= Size
  BY <1>1, <1>2, Constants, ProductGrows
<1>4. p - q >= 1 => a - b >= Size
  <2>1. a - b = Size * (p - q)
    BY <1>1, Constants
  <2> QED
    BY <1>1, <2>1, Constants, ProductGrows
<1>5. p = q
  BY <1>1, <1>3, <1>4, Constants
<1> QED
  BY <1>1, <1>5

(* In such a buffer the slot of an element has that element. *)
LEMMA ElementOfSlot ==
  ASSUME TypeOK, RingInv, NEW ts \in Buffered
  PROVE  GoodSlot(Slot(ts)) /\ ElementAt(Slot(ts)) = ts
<1>1. GoodSlot(Slot(ts))
  BY DEF GoodSlot
<1> DEFINE e == ElementAt(Slot(ts))
<1>2. e \in Buffered /\ Slot(e) = Slot(ts)
  BY <1>1, ElementOfGoodSlot
<1> HIDE DEF e
<1>3. /\ e \in Nat /\ ts \in Nat /\ Size \in Nat
      /\ e < ts + Size /\ ts < e + Size
  BY <1>2, Constants DEF TypeOK, RingInv, Buffered, Occupancy
<1>4. e <= ts \/ ts <= e
  BY <1>3
<1>5. e = ts
  BY <1>2, <1>3, <1>4, SlotInjective
<1> QED
  BY <1>1, <1>5 DEF e

LEMMA RingStep == IInv /\ RingInv /\ [Next]_vars => RingInv'
<1> SUFFICES ASSUME IInv, RingInv, [Next]_vars
             PROVE  RingInv'
  OBVIOUS
<1> USE Constants
<1> USE DEF IInv, TypeOK, cleanerFrame, recorderFrame, threadFrame, lockFrame, bufferVars, controlVars,
            lockVars, cleanerVars, requestVars, waitVars, recordVars
<1>1. CASE Produce
  BY <1>1 DEF Produce, RingInv, Occupancy
<1>2. CASE Start
  BY <1>2 DEF Start, RingInv, Occupancy
<1>3. CASE StopStep
  BY <1>3 DEF StopStep, StopJoins, Flush, QuietInv, RingInv, Occupancy
<1>4. CASE CleanupTest
  BY <1>4 DEF CleanupTest, RingInv, Occupancy
<1>5. CASE CleanupPop
  BY <1>5 DEF CleanupPop, RingInv, Occupancy
<1>6. ASSUME UNCHANGED bufferVars, cpc' # "popping"
      PROVE  RingInv'
  BY <1>6 DEF RingInv, Occupancy
<1>7. CASE CleanerLoop \/ CleanupCheck \/ CleanerWakes \/ CleanupSize \/ CleanupErrors
             \/ CleanupFinish
  BY <1>6, <1>7 DEF CleanerLoop, CleanupCheck, CleanerWakes, CleanupSize, CleanupErrors,
                    CleanupFinish
<1>8. ASSUME UNCHANGED <<bufferVars, cpc>>
      PROVE  RingInv'
  BY <1>8 DEF RingInv, Occupancy
<1>9. CASE StopBegin \/ WaiterStep \/ Record
  BY <1>8, <1>9 DEF StopBegin, WaiterStep, WaiterLoop, Scan, Record
<1>10. CASE \E r \in Requests : Dispatch(r) \/ Expire(r)
  BY <1>8, <1>10 DEF Dispatch, Expire
<1>11. CASE \E t \in Threads : ThreadStep(t)
  BY <1>8, <1>11 DEF ThreadStep, TaskStart, WaitForCleanup, Enter, Collect, CopyPieces, Leave,
                     Notify, Requeue, SendFragment
<1>12. CASE RecorderStep
  BY <1>8, <1>12 DEF RecorderStep, RecordBegin, RecordLoop, WaitForCleanup, Enter, RecordSearch,
                     Leave, Notify, RecordElement, StoreCursor, NextChunk, RecordWalkEnds,
                     RecordEnd
<1>13. CASE UNCHANGED vars
  BY <1>8, <1>13 DEF vars
<1> QED
  BY <1>1, <1>2, <1>3, <1>4, <1>5, <1>7, <1>9, <1>10, <1>11, <1>12, <1>13
  DEF Next, CleanerStep, Finished

LEMMA WriteStep == IInv /\ WriteInv /\ [Next]_vars => WriteInv'
<1> SUFFICES ASSUME TypeOK, QuietInv, RecorderInv, WriteInv, [Next]_vars
             PROVE  WriteInv'
  BY DEF IInv
<1> USE Constants
<1> USE DEF cleanerFrame, recorderFrame, threadFrame, lockFrame, bufferVars, controlVars,
            lockVars, cleanerVars, requestVars, waitVars, recordVars
<1>1. ASSUME UNCHANGED <<bufferVars, recordVars>>,
             upc'[Recorder] = "store" => upc[Recorder] = "store"
      PROVE  WriteInv'
  BY <1>1 DEF WriteInv, Buffered
<1>2. ASSUME upc'[Recorder] # "store"
      PROVE  WriteInv'
  BY <1>2 DEF WriteInv
<1>3. upc \in [Users -> {"idle", "enter", "inside", "collected", "leave", "notify", "respond",
                         "begin", "loop", "walk", "store", "next"}]
  BY DEF TypeOK
<1>4. CASE Produce
  <2>1. Buffered \subseteq Buffered'
    BY <1>4 DEF Produce, Buffered, TypeOK
  <2> QED
    BY <1>4, <2>1 DEF Produce, WriteInv
<1>5. CASE Start \/ StopBegin \/ StopJoins
  BY <1>1, <1>5 DEF Start, StopBegin, StopJoins
<1>6. CASE Flush
  BY <1>2, <1>6 DEF Flush, QuietInv
<1>7. CASE CleanupPop
  <2>1. ASSUME upc[Recorder] = "store"
        PROVE  recorded[Len(recorded)] \in Buffered'
    <3>1. oldest < m_next_timestamp_to_record
      BY <1>7, <2>1 DEF CleanupPop, RecorderInv
    <3>2. /\ recorded[Len(recorded)] \in Buffered
          /\ recorded[Len(recorded)] >= m_next_timestamp_to_record
      BY <2>1 DEF WriteInv
    <3>3. oldest \in Nat /\ newest \in Nat /\ m_next_timestamp_to_record \in Nat
      BY DEF TypeOK
    <3> QED
      BY <1>7, <3>1, <3>2, <3>3 DEF CleanupPop, Buffered
  <2> QED
    BY <1>7, <2>1 DEF CleanupPop, WriteInv
<1>8. CASE CleanerLoop \/ CleanupCheck \/ CleanerWakes \/ CleanupSize \/ CleanupTest
             \/ CleanupErrors \/ CleanupFinish
  BY <1>1, <1>8 DEF CleanerLoop, CleanupCheck, CleanerWakes, CleanupSize, CleanupTest,
                    CleanupErrors, CleanupFinish
<1>9. CASE WaiterStep
  BY <1>1, <1>9 DEF WaiterStep, WaiterLoop, Scan
<1>10. CASE \E r \in Requests : Dispatch(r) \/ Expire(r)
  BY <1>1, <1>10 DEF Dispatch, Expire
<1>11. ASSUME NEW t \in Threads, TaskStart(t) \/ Collect(t) \/ CopyPieces(t) \/ Requeue(t)
                                   \/ SendFragment(t)
       PROVE  WriteInv'
  BY <1>1, <1>3, <1>11 DEF TaskStart, Collect, CopyPieces, Requeue, SendFragment
<1>12. ASSUME NEW u \in Users, WaitForCleanup(u) \/ Enter(u) \/ Leave(u) \/ Notify(u)
       PROVE  WriteInv'
  BY <1>1, <1>3, <1>12 DEF WaitForCleanup, Enter, Leave, Notify
<1>13. CASE RecordElement
  <2> DEFINE e == ElementAt(chunk_iter)
  <2>1. e \in Buffered /\ Slot(e) = chunk_iter
    BY <1>13, ElementOfGoodSlot DEF RecordElement
  <2>2. e \in Nat /\ recorded \in Seq(Nat)
    BY <2>1, BufferedType DEF TypeOK
  <2> HIDE DEF e
  <2>3. ASSUME upc'[Recorder] = "store"
        PROVE  recorded' = Append(recorded, e) /\ e >= m_next_timestamp_to_record
    BY <1>3, <1>13, <2>3 DEF RecordElement, e
  <2>4. ASSUME recorded' = Append(recorded, e)
        PROVE  recorded' # << >> /\ recorded'[Len(recorded')] = e
    BY <2>2, <2>4, AppendProperties
  <2>5. Buffered' = Buffered
    BY <1>13 DEF RecordElement, Buffered
  <2> QED
    BY <1>13, <2>1, <2>3, <2>4, <2>5 DEF RecordElement, WriteInv
<1>14. CASE Record \/ RecordBegin \/ RecordLoop \/ RecordSearch \/ StoreCursor \/ NextChunk
              \/ RecordWalkEnds \/ RecordEnd
  BY <1>2, <1>3, <1>14 DEF Record, RecordBegin, RecordLoop, RecordSearch, StoreCursor, NextChunk,
                           RecordWalkEnds, RecordEnd
<1>15. CASE UNCHANGED vars
  BY <1>1, <1>15 DEF vars
<1> QED
  BY <1>4, <1>5, <1>6, <1>7, <1>8, <1>9, <1>10, <1>11, <1>12, <1>13, <1>14, <1>15
  DEF Next, StopStep, ThreadStep, CleanerStep, RecorderStep, Finished, Users

(* What record() is writing to the file is the element in the iterator's   *)
(* slot and stays in the buffer until the cursor has passed it, although   *)
(* the walk is not protected from cleanup(): the cursor is enough.         *)
THEOREM RecordingSafety == Spec => []RecordsBufferedElement
<1>1. Init => RingInv /\ WriteInv
  BY Constants DEF Init, RingInv, WriteInv, Occupancy
<1>2. IInv /\ RingInv /\ WriteInv => RecordsBufferedElement
  BY ElementOfSlot DEF IInv, WriteInv, RecordsBufferedElement
<1> QED
  BY <1>1, <1>2, RingStep, WriteStep, IInvAlways, PTL DEF Spec

-----------------------------------------------------------------------------
(* The recording has no gap. *)

Last == recorded[Len(recorded)]

(* Between the elements of a recording the cursor is the successor of the  *)
(* last one written, and the iterator is at the end or in the slot that    *)
(* the cursor's element has or will have; the cursor is then within the    *)
(* buffer or at its end, so that slot can have no other element.           *)
CursorInv ==
  /\ upc[Recorder] \notin {"idle", "begin"} => m_next_timestamp_to_record <= newest
  /\ upc[Recorder] \in {"leave", "notify", "walk"} =>
       \/ chunk_iter = EndSlot
       \/ chunk_iter = Slot(m_next_timestamp_to_record) /\ oldest <= m_next_timestamp_to_record
  /\ upc[Recorder] = "store" => Last = m_next_timestamp_to_record
  /\ upc[Recorder] = "next" =>
       /\ m_next_timestamp_to_record >= 1
       /\ chunk_iter = Slot(m_next_timestamp_to_record - 1)
       /\ oldest <= m_next_timestamp_to_record
  /\ upc[Recorder] \notin {"idle", "begin", "store"} /\ recorded # << >> =>
       m_next_timestamp_to_record = Last + 1

GapInv == CursorInv /\ RecordingHasNoGap

(* A number is its slot and a number of rounds. *)
LEMMA SlotQuotient ==
  ASSUME NEW n \in Nat
  PROVE  \E k \in Int : n = Size * k + Slot(n)
<1>1. n \div Size \in Int /\ n = Size * (n \div Size) + Slot(n)
  BY Constants DEF Slot
<1> QED
  BY <1>1

(* Sums of rounds and slots, and their differences. *)
LEMMA RoundsAndSlots ==
  ASSUME NEW a \in Int, NEW i \in Int, NEW x \in Int, NEW y \in Int, NEW z \in Int,
         NEW j \in Int, NEW k \in Int,
         a = x + i, i + 1 = y + j, a + 1 = z + k
  PROVE  k - j = x + y - z /\ j - k = 0 - (x + y - z)
OBVIOUS

(* The successor of a slot is the slot of the successor. *)
LEMMA SlotSuccessor ==
  ASSUME NEW a \in Nat
  PROVE  (Slot(a) + 1) % Size = Slot(a + 1)
<1> DEFINE n == Slot(a) + 1
<1>1. n \in Nat /\ Slot(a) \in Int /\ Slot(n) \in 0 .. Size - 1 /\ Slot(a + 1) \in 0 .. Size - 1
  BY SlotType, Constants
<1>2. PICK p \in Int : a = Size * p + Slot(a)
  BY SlotQuotient
<1>3. PICK q \in Int : n = Size * q + Slot(n)
  BY <1>1, SlotQuotient
<1>4. PICK v \in Int : a + 1 = Size * v + Slot(a + 1)
  BY SlotQuotient
<1> DEFINE d == p + q - v
<1>5. d \in Int /\ Slot(a + 1) - Slot(n) = Size * d /\ Slot(n) - Slot(a + 1) = Size * (0 - d)
  <2>1. /\ Size \in Int /\ Size * p \in Int /\ Size * q \in Int /\ Size * v \in Int
        /\ Size * d = Size * p + Size * q - Size * v
        /\ Size * (0 - d) = 0 - Size * d
        /\ d \in Int
    BY Constants
  <2>2. n = Slot(a) + 1
    OBVIOUS
  <2> HIDE DEF n
  <2> HIDE DEF d
  <2>3. Slot(n) \in Int /\ Slot(a + 1) \in Int
    BY <1>1, <2>1
  <2>4. /\ Slot(a + 1) - Slot(n) = Size * p + Size * q - Size * v
        /\ Slot(n) - Slot(a + 1) = 0 - (Size * p + Size * q - Size * v)
    BY <1>1, <1>2, <1>3, <1>4, <2>1, <2>2, <2>3, RoundsAndSlots
  <2> QED
    BY <2>1, <2>4
<1> HIDE DEF d, n
<1>6. ~(d >= 1)
  BY <1>1, <1>5, Constants, ProductGrows
<1>7. ~(0 - d >= 1)
  BY <1>1, <1>5, Constants, ProductGrows
<1>8. d = 0
  BY <1>5, <1>6, <1>7
<1>9. Slot(n) = Slot(a + 1)
  BY <1>1, <1>5, <1>8, Constants
<1> QED
  BY <1>9 DEF n, Slot

(* The end has no element. *)
LEMMA EndSlotNotGood == TypeOK => ~GoodSlot(EndSlot)
<1> SUFFICES ASSUME TypeOK, NEW ts \in Buffered, Slot(ts) = EndSlot
             PROVE  FALSE
  BY DEF GoodSlot
<1> QED
  BY BufferedType, SlotType DEF TypeOK, EndSlot

(* Only the cursor's element can be in its slot. *)
LEMMA ElementAtCursor ==
  ASSUME TypeOK, RingInv, NEW c \in Nat, oldest <= c, c <= newest, GoodSlot(Slot(c))
  PROVE  ElementAt(Slot(c)) = c /\ c < newest
<1> DEFINE e == ElementAt(Slot(c))
<1>1. e \in Buffered /\ Slot(e) = Slot(c)
  BY ElementOfGoodSlot
<1> HIDE DEF e
<1>2. /\ e \in Nat /\ Size \in Nat /\ e < newest
      /\ e < c + Size /\ c < e + Size
  BY <1>1, Constants DEF TypeOK, RingInv, Buffered, Occupancy
<1>3. e <= c \/ c <= e
  BY <1>2
<1>4. e = c
  BY <1>1, <1>2, <1>3, SlotInjective
<1> QED
  BY <1>2, <1>4 DEF e

(* A step of the recorder along the buffer. *)
LEMMA RecordElementKeepsGapInv ==
  ASSUME IInv, RingInv, GapInv, RecordElement
  PROVE  GapInv'
<1> DEFINE c == m_next_timestamp_to_record
<1> USE DEF recorderFrame, bufferVars
<1>1. /\ upc \in [Users -> {"idle", "enter", "inside", "collected", "leave", "notify", "respond",
                            "begin", "loop", "walk", "store", "next"}]
      /\ Recorder \in Users
      /\ c \in Nat /\ oldest \in Nat /\ newest \in Nat
      /\ recorded \in Seq(Nat)
  BY Constants DEF IInv, TypeOK
<1>2. chunk_iter = Slot(c) /\ oldest <= c /\ c <= newest
  BY EndSlotNotGood DEF RecordElement, IInv, GapInv, CursorInv
<1>3. ElementAt(chunk_iter) = c /\ c < newest
  BY <1>1, <1>2, ElementAtCursor DEF RecordElement, IInv
<1>4. recorded' = Append(recorded, c) /\ upc' = [upc EXCEPT ![Recorder] = "store"]
  BY <1>1, <1>3 DEF RecordElement
<1>5. /\ Len(recorded') = Len(recorded) + 1 /\ Len(recorded) \in Nat
      /\ recorded'[Len(recorded) + 1] = c
      /\ \A i \in 1 .. Len(recorded) : recorded'[i] = recorded[i]
  BY <1>1, <1>4, AppendProperties
<1>6. recorded # << >> => Len(recorded) >= 1 /\ c = recorded[Len(recorded)] + 1
  <2>1. recorded # << >> => Len(recorded) >= 1
    BY <1>1, EmptySeq
  <2>2. recorded # << >> => c = recorded[Len(recorded)] + 1
    BY DEF RecordElement, GapInv, CursorInv, Last
  <2> QED
    BY <2>1, <2>2
<1>7. RecordingHasNoGap'
  <2> SUFFICES ASSUME NEW i \in 1 .. Len(recorded') - 1
               PROVE  recorded'[i + 1] = recorded'[i] + 1
    BY DEF RecordingHasNoGap
  <2>1. i \in 1 .. Len(recorded) /\ recorded # << >>
    BY <1>5, <1>1, EmptySeq
  <2>2. CASE i = Len(recorded)
    BY <1>5, <1>6, <2>1, <2>2
  <2>3. CASE i # Len(recorded)
    <3>1. i \in 1 .. Len(recorded) - 1 /\ i + 1 \in 1 .. Len(recorded)
      BY <1>5, <2>1, <2>3
    <3> QED
      BY <1>5, <2>1, <3>1 DEF GapInv, RecordingHasNoGap
  <2> QED
    BY <2>2, <2>3
<1>8. CursorInv'
  BY <1>1, <1>2, <1>4, <1>5 DEF RecordElement, CursorInv, Last
<1> QED
  BY <1>7, <1>8 DEF GapInv

LEMMA GapStep == IInv /\ RingInv /\ WriteInv /\ GapInv /\ [Next]_vars => GapInv'
<1> SUFFICES ASSUME IInv, RingInv, WriteInv, GapInv, [Next]_vars
             PROVE  GapInv'
  OBVIOUS
<1> USE Constants
<1> USE DEF cleanerFrame, recorderFrame, threadFrame, lockFrame, bufferVars, controlVars,
            lockVars, cleanerVars, requestVars, waitVars, recordVars
<1>1. /\ upc \in [Users -> {"idle", "enter", "inside", "collected", "leave", "notify", "respond",
                            "begin", "loop", "walk", "store", "next"}]
      /\ m_next_timestamp_to_record \in Nat /\ oldest \in Nat /\ newest \in Nat
      /\ chunk_iter \in -1 .. Size - 1
      /\ recorded \in Seq(Nat)
  BY DEF IInv, TypeOK
<1>2. ASSUME UNCHANGED <<recorded, m_next_timestamp_to_record, chunk_iter, oldest>>,
             newest' >= newest, newest' \in Nat, upc'[Recorder] = upc[Recorder]
      PROVE  GapInv'
  BY <1>1, <1>2 DEF GapInv, CursorInv, RecordingHasNoGap, Last
<1>3. ASSUME UNCHANGED recorded, upc'[Recorder] \in {"idle", "begin"}
      PROVE  GapInv'
  BY <1>3 DEF GapInv, CursorInv, RecordingHasNoGap
<1>4. CASE Produce
  BY <1>1, <1>2, <1>4 DEF Produce
<1>5. CASE Start \/ StopBegin \/ StopJoins
  BY <1>1, <1>2, <1>5 DEF Start, StopBegin, StopJoins
<1>6. CASE Flush
  BY <1>3, <1>6 DEF Flush, IInv, QuietInv
<1>7. CASE CleanupPop
  <2>1. upc[Recorder] \in {"inside", "leave", "notify", "walk", "store", "next"}
          => oldest' <= m_next_timestamp_to_record
    BY <1>1, <1>7 DEF CleanupPop, IInv, RecorderInv
  <2> QED
    BY <1>1, <1>7, <2>1 DEF CleanupPop, GapInv, CursorInv, RecordingHasNoGap, Last
<1>8. CASE CleanerLoop \/ CleanupCheck \/ CleanerWakes \/ CleanupSize \/ CleanupTest
             \/ CleanupErrors \/ CleanupFinish
  BY <1>1, <1>2, <1>8 DEF CleanerLoop, CleanupCheck, CleanerWakes, CleanupSize, CleanupTest,
                          CleanupErrors, CleanupFinish
<1>9. CASE WaiterStep
  <2>1. UNCHANGED <<upc, recordVars, bufferVars>>
    BY <1>9 DEF WaiterStep, WaiterLoop, Scan
  <2> QED
    BY <1>1, <1>2, <2>1
<1>10. CASE \E r \in Requests : Dispatch(r) \/ Expire(r)
  BY <1>1, <1>2, <1>10 DEF Dispatch, Expire
<1>11. ASSUME NEW t \in Threads, TaskStart(t) \/ Collect(t) \/ CopyPieces(t) \/ Requeue(t)
                                   \/ SendFragment(t)
       PROVE  GapInv'
  BY <1>1, <1>2, <1>11 DEF TaskStart, Collect, CopyPieces, Requeue, SendFragment
<1>12. ASSUME NEW t \in Threads, WaitForCleanup(t) \/ Enter(t) \/ Leave(t) \/ Notify(t)
       PROVE  GapInv'
  BY <1>1, <1>2, <1>12 DEF WaitForCleanup, Enter, Leave, Notify
<1>13. CASE WaitForCleanup(Recorder)
  BY <1>1, <1>2, <1>13 DEF WaitForCleanup
<1>14. CASE Enter(Recorder)
  BY <1>1, <1>14 DEF Enter, GapInv, CursorInv, RecordingHasNoGap, Last
<1>15. CASE Leave(Recorder)
  BY <1>1, <1>15 DEF Leave, GapInv, CursorInv, RecordingHasNoGap, Last
<1>16. CASE Notify(Recorder)
  BY <1>1, <1>16 DEF Notify, GapInv, CursorInv, RecordingHasNoGap, Last
<1>17. CASE Record
  BY <1>1, <1>3, <1>17 DEF Record
<1>18. CASE RecordBegin
  BY <1>1, <1>18 DEF RecordBegin, GapInv, CursorInv, RecordingHasNoGap
<1>19. CASE RecordLoop
  <2>1. recorded # << >> => Last \in Nat
    BY <1>1, EmptySeq DEF Last
  <2>2. recorded # << >> => m_next_timestamp_to_record # 0
    BY <1>19, <2>1 DEF RecordLoop, GapInv, CursorInv
  <2> QED
    BY <1>1, <1>19, <2>2 DEF RecordLoop, GapInv, CursorInv, RecordingHasNoGap, Last, RingInv,
                             Occupancy
<1>20. CASE RecordSearch
  <2>1. \/ chunk_iter' = EndSlot
        \/ chunk_iter' = Slot(m_next_timestamp_to_record) /\ oldest <= m_next_timestamp_to_record
    BY <1>1, <1>20 DEF RecordSearch, GapInv, CursorInv
  <2> QED
    BY <1>1, <1>20, <2>1 DEF RecordSearch, GapInv, CursorInv, RecordingHasNoGap, Last
<1>21. CASE RecordElement
  BY <1>21, RecordElementKeepsGapInv
<1>22. CASE StoreCursor
  <2>1. /\ Last \in Buffered /\ Slot(Last) = chunk_iter /\ ElementAt(chunk_iter) = Last
        /\ m_next_timestamp_to_record' = Last + 1
    BY <1>22, ElementOfSlot DEF StoreCursor, WriteInv, IInv, Last
  <2>2. Last \in Nat /\ oldest <= Last /\ Last < newest
    BY <1>1, <2>1, BufferedType
  <2>3. Last + 1 - 1 = Last
    BY <2>2
  <2>4. CursorInv'
    BY <1>1, <1>22, <2>1, <2>2, <2>3 DEF StoreCursor, CursorInv, Last
  <2> QED
    BY <1>22, <2>4 DEF StoreCursor, GapInv, RecordingHasNoGap
<1>23. CASE NextChunk
  <2> DEFINE a == m_next_timestamp_to_record - 1
  <2>1. a \in Nat /\ chunk_iter = Slot(a) /\ a + 1 = m_next_timestamp_to_record
    BY <1>1, <1>23 DEF NextChunk, GapInv, CursorInv
  <2> HIDE DEF a
  <2>2. (chunk_iter + 1) % Size = Slot(m_next_timestamp_to_record)
    BY <2>1, SlotSuccessor
  <2> QED
    BY <1>1, <1>23, <2>2 DEF NextChunk, GapInv, CursorInv, RecordingHasNoGap, Last
<1>24. CASE RecordWalkEnds
  BY <1>1, <1>24 DEF RecordWalkEnds, GapInv, CursorInv, RecordingHasNoGap, Last
<1>25. CASE RecordEnd
  BY <1>1, <1>3, <1>25 DEF RecordEnd
<1>26. CASE UNCHANGED vars
  BY <1>1, <1>2, <1>26 DEF vars
<1> QED
  BY <1>4, <1>5, <1>6, <1>7, <1>8, <1>9, <1>10, <1>11, <1>12, <1>13, <1>14, <1>15, <1>16, <1>17,
     <1>18, <1>19, <1>20, <1>21, <1>22, <1>23, <1>24, <1>25, <1>26
  DEF Next, StopStep, ThreadStep, CleanerStep, RecorderStep, Finished

(* The file of a recording has no gap and no repetition: it goes on with   *)
(* the element after the last one, in spite of cleanups between any two of *)
(* its steps, of wraps of the ring and of searches that found nothing.     *)
THEOREM RecordingContiguous == Spec => []RecordingHasNoGap
<1>1. Init => RingInv /\ WriteInv /\ GapInv
  BY Constants DEF Init, RingInv, WriteInv, GapInv, CursorInv, RecordingHasNoGap, Occupancy
<1>2. GapInv => RecordingHasNoGap
  BY DEF GapInv
<1> QED
  BY <1>1, <1>2, RingStep, WriteStep, GapStep, IInvAlways, PTL DEF Spec

-----------------------------------------------------------------------------
(* The requests. *)

(* A request thread without work has no task. *)
IdleInv == \A t \in Threads : upc[t] = "idle" => task[t] = NoTask

PlaceInv == IdleInv /\ RequestsAtOnePlace

Waits(r) == IF r \in m_waiting_requests THEN 1 ELSE 0

(* The places of a request are counted by natural numbers. *)
LEMMA PlacesType ==
  ASSUME TypeOK, NEW r \in Requests
  PROVE  /\ IsFiniteSet(TasksOf(r)) /\ Cardinality(TasksOf(r)) \in Nat
         /\ IsFiniteSet(ThreadsOf(r)) /\ Cardinality(ThreadsOf(r)) \in Nat
         /\ responses[r] \in Nat
         /\ Waits(r) \in {0, 1}
         /\ Places(r) = Cardinality(TasksOf(r)) + Cardinality(ThreadsOf(r)) + Waits(r)
                          + responses[r]
<1> DEFINE k1 == [request |-> r, is_retry |-> TRUE]
           k2 == [request |-> r, is_retry |-> FALSE]
<1>1. TasksOf(r) \subseteq {k1, k2}
  BY DEF TypeOK, TasksOf, Tasks
<1> HIDE DEF k1, k2
<1>2. IsFiniteSet({k1, k2})
  <2>1. IsFiniteSet({k1})
    BY FS_Singleton
  <2>2. IsFiniteSet({k1} \cup {k2})
    BY <2>1, FS_AddElement
  <2>3. {k1, k2} = {k1} \cup {k2}
    OBVIOUS
  <2> QED
    BY <2>2, <2>3
<1>3. IsFiniteSet(TasksOf(r)) /\ Cardinality(TasksOf(r)) \in Nat
  BY <1>1, <1>2, FS_Subset, FS_CardinalityType
<1>4. ThreadsOf(r) \subseteq Threads
  BY DEF ThreadsOf
<1>5. IsFiniteSet(ThreadsOf(r)) /\ Cardinality(ThreadsOf(r)) \in Nat
  BY <1>4, HandlerAssumption, FS_Subset, FS_CardinalityType
<1>6. responses[r] \in Nat /\ Waits(r) \in {0, 1}
  BY DEF TypeOK, Waits
<1> QED
  BY <1>3, <1>5, <1>6 DEF Places, Waits

(* A step that touches none of the places of a request keeps their number. *)
LEMMA PlacesUnchanged ==
  ASSUME NEW r \in Requests, UNCHANGED <<TasksOf(r), ThreadsOf(r), responses[r]>>,
         r \in m_waiting_requests' <=> r \in m_waiting_requests
  PROVE  Places(r)' = Places(r)
<1>1. Waits(r)' = Waits(r)
  BY DEF Waits
<1> QED
  BY <1>1 DEF Places, Waits

(* A request arrives: until now it was nowhere. *)
LEMMA DispatchPlaces ==
  ASSUME IInv, TypeOK', PlaceInv, NEW q \in Requests, Dispatch(q)
  PROVE  RequestsAtOnePlace'
<1> USE DEF threadFrame, waitVars
<1> SUFFICES ASSUME NEW r \in Requests
             PROVE  Places(r)' = IF r \in dispatched' THEN 1 ELSE 0
  BY DEF RequestsAtOnePlace
<1>1. TypeOK /\ Places(r) = IF r \in dispatched THEN 1 ELSE 0
  BY DEF IInv, PlaceInv, RequestsAtOnePlace
<1>2. UNCHANGED <<ThreadsOf(r), responses, m_waiting_requests>> /\ Waits(r)' = Waits(r)
  BY DEF Dispatch, ThreadsOf, Waits
<1>3. CASE r # q
  <2>1. TasksOf(r)' = TasksOf(r)
    BY <1>3 DEF Dispatch, TasksOf
  <2>2. Places(r)' = Places(r)
    BY <1>2, <2>1, PlacesUnchanged
  <2> QED
    BY <1>1, <1>3, <2>2 DEF Dispatch
<1>4. CASE r = q
  <2>1. Cardinality(TasksOf(r)) = 0 /\ Cardinality(ThreadsOf(r)) = 0 /\ Waits(r) = 0
        /\ responses[r] = 0
    BY <1>1, <1>4, PlacesType DEF Dispatch
  <2>2. TasksOf(r) = {}
    BY <1>1, <2>1, PlacesType, FS_EmptySet
  <2>3. TasksOf(r)' = {[request |-> r, is_retry |-> FALSE]}
    BY <1>4, <2>2 DEF Dispatch, TasksOf
  <2>4. Cardinality(TasksOf(r)') = 1
    BY <2>3, FS_Singleton
  <2>5. Places(r)' = 1
    BY <1>2, <2>1, <2>4 DEF Places, Waits
  <2> QED
    BY <1>4, <2>5 DEF Dispatch
<1> QED
  BY <1>3, <1>4

(* A task goes from the pool to a thread. *)
LEMMA TaskStartPlaces ==
  ASSUME IInv, TypeOK', PlaceInv, NEW t \in Threads, TaskStart(t)
  PROVE  RequestsAtOnePlace'
<1> USE DEF threadFrame, waitVars
<1> SUFFICES ASSUME NEW r \in Requests
             PROVE  Places(r)' = IF r \in dispatched' THEN 1 ELSE 0
  BY DEF RequestsAtOnePlace
<1>1. TypeOK /\ Places(r) = (IF r \in dispatched THEN 1 ELSE 0) /\ dispatched' = dispatched
  BY DEF IInv, PlaceInv, RequestsAtOnePlace, TaskStart
<1>2. PICK k \in pool : task' = [task EXCEPT ![t] = k] /\ pool' = pool \ {k}
  BY DEF TaskStart
<1>3. /\ k \in Tasks /\ k # NoTask /\ task[t] = NoTask
      /\ task \in [Threads -> Tasks \cup {NoTask}]
  BY <1>1, HandlerAssumption DEF TypeOK, Tasks, PlaceInv, IdleInv, TaskStart
<1>4. UNCHANGED <<responses, m_waiting_requests>>
  BY DEF TaskStart
<1>5. CASE r # k.request
  <2>1. TasksOf(r)' = TasksOf(r)
    BY <1>2, <1>5 DEF TasksOf
  <2>2. ThreadsOf(r)' = ThreadsOf(r)
    BY <1>2, <1>3, <1>5 DEF ThreadsOf
  <2> QED
    BY <1>1, <1>4, <2>1, <2>2, PlacesUnchanged
<1>6. CASE r = k.request
  <2>1. k \in TasksOf(r) /\ TasksOf(r)' = TasksOf(r) \ {k}
    BY <1>2, <1>6 DEF TasksOf
  <2>2. t \notin ThreadsOf(r) /\ ThreadsOf(r)' = ThreadsOf(r) \cup {t}
    BY <1>2, <1>3, <1>6 DEF ThreadsOf
  <2>3. Cardinality(TasksOf(r)') = Cardinality(TasksOf(r)) - 1
    BY <1>1, <2>1, PlacesType, FS_RemoveElement
  <2>4. Cardinality(ThreadsOf(r)') = Cardinality(ThreadsOf(r)) + 1
    <3>1. IsFiniteSet(ThreadsOf(r))
      BY <1>1, PlacesType
    <3>2. Cardinality(ThreadsOf(r) \cup {t}) = Cardinality(ThreadsOf(r)) + 1
      BY <2>2, <3>1, FS_AddElement
    <3> QED
      BY <2>2, <3>2
  <2>5. Places(r)' = Places(r)
    BY <1>1, <1>4, <2>3, <2>4, PlacesType DEF Places
  <2> QED
    BY <1>1, <2>5
<1> QED
  BY <1>5, <1>6

(* The request of a thread that gives up its task, and the other requests. *)
LEMMA TaskEnd ==
  ASSUME TypeOK, RequestsAtOnePlace, NEW t \in Threads, task[t] \in Tasks,
         task' = [task EXCEPT ![t] = NoTask], pool' = pool, NEW r \in Requests
  PROVE  /\ TasksOf(r)' = TasksOf(r)
         /\ r # task[t].request => ThreadsOf(r)' = ThreadsOf(r)
         /\ r = task[t].request =>
              /\ Cardinality(ThreadsOf(r)') = Cardinality(ThreadsOf(r)) - 1
              /\ Places(r) = 1
              /\ r \notin m_waiting_requests
              /\ responses[r] = 0
<1>1. task[t] # NoTask /\ task \in [Threads -> Tasks \cup {NoTask}]
  BY HandlerAssumption DEF TypeOK, Tasks
<1>2. TasksOf(r)' = TasksOf(r)
  BY DEF TasksOf
<1>3. ASSUME r # task[t].request
      PROVE  ThreadsOf(r)' = ThreadsOf(r)
  BY <1>1, <1>3 DEF ThreadsOf
<1>4. ASSUME r = task[t].request
      PROVE  /\ Cardinality(ThreadsOf(r)') = Cardinality(ThreadsOf(r)) - 1
             /\ Places(r) = 1
             /\ r \notin m_waiting_requests
             /\ responses[r] = 0
  <2>1. t \in ThreadsOf(r) /\ ThreadsOf(r)' = ThreadsOf(r) \ {t}
    BY <1>1, <1>4 DEF ThreadsOf
  <2>2. Cardinality(ThreadsOf(r)') = Cardinality(ThreadsOf(r)) - 1
    BY <2>1, PlacesType, FS_RemoveElement
  <2>3. Cardinality(ThreadsOf(r)) # 0
    BY <2>1, PlacesType, FS_EmptySet
  <2>4. Places(r) \in {0, 1}
    BY DEF RequestsAtOnePlace
  <2>5. Places(r) = 1 /\ Waits(r) = 0 /\ responses[r] = 0
    BY <2>3, <2>4, PlacesType
  <2> QED
    BY <2>2, <2>5 DEF Waits
<1> QED
  BY <1>2, <1>3, <1>4

(* A request goes from a thread to the waiting list. *)
LEMMA RequeuePlaces ==
  ASSUME IInv, TypeOK', PlaceInv, NEW t \in Threads, Requeue(t)
  PROVE  RequestsAtOnePlace'
<1> USE DEF threadFrame
<1> SUFFICES ASSUME NEW r \in Requests
             PROVE  Places(r)' = IF r \in dispatched' THEN 1 ELSE 0
  BY DEF RequestsAtOnePlace
<1>1. TypeOK /\ Places(r) = (IF r \in dispatched THEN 1 ELSE 0) /\ dispatched' = dispatched
  BY DEF IInv, PlaceInv, RequestsAtOnePlace, Requeue
<1>2. task[t] \in Tasks
  BY DEF IInv, TaskInv, Requeue
<1>3. /\ task' = [task EXCEPT ![t] = NoTask] /\ pool' = pool /\ responses' = responses
      /\ m_waiting_requests' = m_waiting_requests \cup {task[t].request}
  BY DEF Requeue
<1>4. CASE r # task[t].request
  BY <1>1, <1>2, <1>3, <1>4, TaskEnd, PlacesUnchanged DEF PlaceInv
<1>5. CASE r = task[t].request
  <2>1. /\ TasksOf(r)' = TasksOf(r)
        /\ Cardinality(ThreadsOf(r)') = Cardinality(ThreadsOf(r)) - 1
        /\ r \notin m_waiting_requests
    BY <1>1, <1>2, <1>3, <1>5, TaskEnd DEF PlaceInv
  <2>2. r \in m_waiting_requests'
    BY <1>3, <1>5
  <2>3. Places(r)' = Places(r)
    BY <1>1, <1>3, <2>1, <2>2, PlacesType DEF Places
  <2> QED
    BY <1>1, <2>3
<1> QED
  BY <1>4, <1>5

(* A request is answered by its thread. *)
LEMMA SendFragmentPlaces ==
  ASSUME IInv, TypeOK', PlaceInv, NEW t \in Threads, SendFragment(t)
  PROVE  RequestsAtOnePlace'
<1> USE DEF threadFrame, waitVars
<1> SUFFICES ASSUME NEW r \in Requests
             PROVE  Places(r)' = IF r \in dispatched' THEN 1 ELSE 0
  BY DEF RequestsAtOnePlace
<1>1. TypeOK /\ Places(r) = (IF r \in dispatched THEN 1 ELSE 0) /\ dispatched' = dispatched
  BY DEF IInv, PlaceInv, RequestsAtOnePlace, SendFragment
<1>2. task[t] \in Tasks
  BY DEF IInv, TaskInv, SendFragment
<1>3. /\ task' = [task EXCEPT ![t] = NoTask] /\ pool' = pool
      /\ m_waiting_requests' = m_waiting_requests
      /\ responses' = [responses EXCEPT ![task[t].request] = @ + 1]
      /\ responses \in [Requests -> Nat]
  BY <1>1 DEF SendFragment, TypeOK
<1>4. CASE r # task[t].request
  <2>1. responses'[r] = responses[r]
    BY <1>3, <1>4
  <2>2. TasksOf(r)' = TasksOf(r) /\ ThreadsOf(r)' = ThreadsOf(r)
    BY <1>1, <1>2, <1>3, <1>4, TaskEnd DEF PlaceInv
  <2> QED
    BY <1>1, <1>3, <2>1, <2>2, PlacesUnchanged
<1>5. CASE r = task[t].request
  <2>1. /\ TasksOf(r)' = TasksOf(r)
        /\ Cardinality(ThreadsOf(r)') = Cardinality(ThreadsOf(r)) - 1
    BY <1>1, <1>2, <1>3, <1>5, TaskEnd DEF PlaceInv
  <2>2. responses'[r] = responses[r] + 1
    BY <1>3, <1>5
  <2>3. Places(r)' = Places(r)
    BY <1>1, <1>3, <2>1, <2>2, PlacesType DEF Places
  <2> QED
    BY <1>1, <2>3
<1> QED
  BY <1>4, <1>5

(* Waiting requests go back to the pool. *)
LEMMA ScanPlaces ==
  ASSUME IInv, TypeOK', PlaceInv, Scan
  PROVE  RequestsAtOnePlace'
<1> USE DEF threadFrame
<1> SUFFICES ASSUME NEW r \in Requests
             PROVE  Places(r)' = IF r \in dispatched' THEN 1 ELSE 0
  BY DEF RequestsAtOnePlace
<1>1. TypeOK /\ Places(r) = (IF r \in dispatched THEN 1 ELSE 0) /\ dispatched' = dispatched
  BY DEF IInv, PlaceInv, RequestsAtOnePlace, Scan
<1> DEFINE gone == {q \in m_waiting_requests : DataArrived(q)} \cup (m_waiting_requests \cap expired)
<1>2. /\ pool' = pool \cup [request : gone, is_retry : {TRUE}]
      /\ m_waiting_requests' = m_waiting_requests \ gone
      /\ UNCHANGED <<task, responses>>
      /\ gone \subseteq m_waiting_requests
  BY DEF Scan
<1> HIDE DEF gone
<1>3. ThreadsOf(r)' = ThreadsOf(r)
  BY <1>2 DEF ThreadsOf
<1>4. CASE r \notin gone
  <2>1. TasksOf(r)' = TasksOf(r)
    BY <1>2, <1>4 DEF TasksOf
  <2> QED
    BY <1>1, <1>2, <1>3, <1>4, <2>1, PlacesUnchanged
<1>5. CASE r \in gone
  <2>1. Waits(r) = 1
    BY <1>2, <1>5 DEF Waits
  <2>2. Cardinality(TasksOf(r)) = 0
    BY <1>1, <2>1, PlacesType
  <2>3. TasksOf(r) = {}
    BY <1>1, <2>2, PlacesType, FS_EmptySet
  <2>4. TasksOf(r)' = {[request |-> r, is_retry |-> TRUE]}
    <3>1. [request |-> r, is_retry |-> TRUE] \in TasksOf(r)'
      BY <1>2, <1>5 DEF TasksOf
    <3>2. ASSUME NEW k \in TasksOf(r)'
          PROVE  k = [request |-> r, is_retry |-> TRUE]
      <4>1. k \in [request : gone, is_retry : {TRUE}] /\ k.request = r
        BY <1>2, <2>3 DEF TasksOf
      <4> QED
        BY <4>1
    <3> QED
      BY <3>1, <3>2
  <2>5. Cardinality(TasksOf(r)') = 1
    BY <2>4, FS_Singleton
  <2>6. r \notin m_waiting_requests'
    BY <1>2, <1>5
  <2>7. Places(r)' = Places(r)
    BY <1>1, <1>2, <1>3, <2>1, <2>2, <2>5, <2>6, PlacesType DEF Places
  <2> QED
    BY <1>1, <2>7
<1> QED
  BY <1>4, <1>5

LEMMA IdleStep == IInv /\ IdleInv /\ [Next]_vars => IdleInv'
<1> SUFFICES ASSUME IInv, IdleInv, [Next]_vars
             PROVE  IdleInv'
  OBVIOUS
<1> USE Constants
<1> USE DEF cleanerFrame, recorderFrame, threadFrame, lockFrame, bufferVars, controlVars,
            lockVars, cleanerVars, requestVars, waitVars, recordVars
<1>1. /\ upc \in [Users -> {"idle", "enter", "inside", "collected", "leave", "notify", "respond",
                            "begin", "loop", "walk", "store", "next"}]
      /\ task \in [Threads -> Tasks \cup {NoTask}]
  BY DEF IInv, TypeOK
<1>2. ASSUME UNCHANGED task, \A t \in Threads : upc'[t] = "idle" => upc[t] = "idle"
      PROVE  IdleInv'
  BY <1>2 DEF IdleInv
<1>3. CASE Produce \/ Start \/ StopBegin \/ StopStep \/ CleanerStep
  <2>1. UNCHANGED <<upc, task>>
    BY <1>3 DEF Produce, Start, StopBegin, StopStep, StopJoins, Flush, CleanerStep, CleanerLoop,
                CleanupCheck, CleanerWakes, CleanupSize, CleanupTest, CleanupPop, CleanupErrors,
                CleanupFinish
  <2> QED
    BY <1>2, <2>1
<1>4. CASE WaiterStep \/ \E r \in Requests : Dispatch(r) \/ Expire(r)
  <2>1. UNCHANGED <<upc, task>>
    BY <1>4 DEF WaiterStep, WaiterLoop, Scan, Dispatch, Expire
  <2> QED
    BY <1>2, <2>1
<1>5. ASSUME NEW t \in Threads, TaskStart(t)
      PROVE  IdleInv'
  BY <1>1, <1>5 DEF TaskStart, IdleInv
<1>6. ASSUME NEW t \in Threads, Requeue(t) \/ SendFragment(t)
      PROVE  IdleInv'
  <2>1. task' = [task EXCEPT ![t] = NoTask] /\ upc' = [upc EXCEPT ![t] = "idle"]
    BY <1>6 DEF Requeue, SendFragment
  <2> QED
    BY <1>1, <2>1 DEF IdleInv
<1>7. ASSUME NEW t \in Threads, Collect(t) \/ CopyPieces(t)
      PROVE  IdleInv'
  BY <1>1, <1>2, <1>7 DEF Collect, CopyPieces
<1>8. ASSUME NEW u \in Users, WaitForCleanup(u) \/ Enter(u) \/ Leave(u) \/ Notify(u)
      PROVE  IdleInv'
  BY <1>1, <1>2, <1>8 DEF WaitForCleanup, Enter, Leave, Notify
<1>9. CASE Record \/ RecordBegin \/ RecordLoop \/ RecordSearch \/ RecordElement \/ StoreCursor
             \/ NextChunk \/ RecordWalkEnds \/ RecordEnd
  <2>1. UNCHANGED task /\ \A t \in Threads : upc'[t] = upc[t]
    BY <1>1, <1>9 DEF Record, RecordBegin, RecordLoop, RecordSearch, RecordElement, StoreCursor,
                      NextChunk, RecordWalkEnds, RecordEnd
  <2> QED
    BY <1>2, <2>1
<1>10. CASE UNCHANGED vars
  BY <1>2, <1>10 DEF vars
<1> QED
  BY <1>3, <1>4, <1>5, <1>6, <1>7, <1>8, <1>9, <1>10
  DEF Next, ThreadStep, RecorderStep, Finished, Users

LEMMA PlaceStep == IInv /\ PlaceInv /\ [Next]_vars => PlaceInv'
<1> SUFFICES ASSUME IInv, PlaceInv, [Next]_vars
             PROVE  RequestsAtOnePlace'
  BY IdleStep DEF PlaceInv
<1> USE DEF cleanerFrame, recorderFrame, threadFrame, lockFrame, bufferVars, controlVars,
            lockVars, cleanerVars, requestVars, waitVars, recordVars
<1>1. TypeOK'
  BY TypeStep
<1>2. ASSUME UNCHANGED <<pool, task, responses, m_waiting_requests, dispatched>>
      PROVE  RequestsAtOnePlace'
  <2>1. ASSUME NEW r \in Requests
        PROVE  Places(r)' = Places(r)
    BY <1>2, PlacesUnchanged DEF TasksOf, ThreadsOf
  <2> QED
    BY <1>2, <2>1 DEF PlaceInv, RequestsAtOnePlace
<1>3. CASE Produce \/ Start \/ StopBegin \/ StopStep \/ CleanerStep
  <2>1. UNCHANGED <<pool, task, responses, m_waiting_requests, dispatched>>
    BY <1>3 DEF Produce, Start, StopBegin, StopStep, StopJoins, Flush, CleanerStep, CleanerLoop,
                CleanupCheck, CleanerWakes, CleanupSize, CleanupTest, CleanupPop, CleanupErrors,
                CleanupFinish
  <2> QED
    BY <1>2, <2>1
<1>4. CASE WaiterLoop \/ \E r \in Requests : Expire(r)
  BY <1>2, <1>4 DEF WaiterLoop, Expire
<1>5. CASE Scan
  BY <1>1, <1>5, ScanPlaces
<1>6. ASSUME NEW r \in Requests, Dispatch(r)
      PROVE  RequestsAtOnePlace'
  BY <1>1, <1>6, DispatchPlaces
<1>7. ASSUME NEW t \in Threads, TaskStart(t)
      PROVE  RequestsAtOnePlace'
  BY <1>1, <1>7, TaskStartPlaces
<1>8. ASSUME NEW t \in Threads, Requeue(t)
      PROVE  RequestsAtOnePlace'
  BY <1>1, <1>8, RequeuePlaces
<1>9. ASSUME NEW t \in Threads, SendFragment(t)
      PROVE  RequestsAtOnePlace'
  BY <1>1, <1>9, SendFragmentPlaces
<1>10. ASSUME NEW t \in Threads, Collect(t) \/ CopyPieces(t)
       PROVE  RequestsAtOnePlace'
  BY <1>2, <1>10 DEF Collect, CopyPieces
<1>11. ASSUME NEW u \in Users, WaitForCleanup(u) \/ Enter(u) \/ Leave(u) \/ Notify(u)
       PROVE  RequestsAtOnePlace'
  BY <1>2, <1>11 DEF WaitForCleanup, Enter, Leave, Notify
<1>12. CASE Record \/ RecordBegin \/ RecordLoop \/ RecordSearch \/ RecordElement \/ StoreCursor
              \/ NextChunk \/ RecordWalkEnds \/ RecordEnd
  <2>1. UNCHANGED <<pool, task, responses, m_waiting_requests, dispatched>>
    BY <1>12 DEF Record, RecordBegin, RecordLoop, RecordSearch, RecordElement, StoreCursor,
                 NextChunk, RecordWalkEnds, RecordEnd
  <2> QED
    BY <1>2, <2>1
<1>13. CASE UNCHANGED vars
  BY <1>2, <1>13 DEF vars
<1> QED
  BY <1>3, <1>4, <1>5, <1>6, <1>7, <1>8, <1>9, <1>10, <1>11, <1>12, <1>13
  DEF Next, WaiterStep, ThreadStep, RecorderStep, Finished, Users

LEMMA InitPlaceInv == Init => PlaceInv
<1> SUFFICES ASSUME Init PROVE PlaceInv
  OBVIOUS
<1>1. IdleInv
  BY DEF Init, IdleInv
<1>2. ASSUME NEW r \in Requests
      PROVE  Places(r) = 0
  <2>1. TasksOf(r) = {} /\ ThreadsOf(r) = {}
    BY DEF Init, TasksOf, ThreadsOf
  <2> QED
    BY <2>1, FS_EmptySet DEF Init, Places
<1>3. RequestsAtOnePlace
  BY <1>2 DEF Init, RequestsAtOnePlace
<1> QED
  BY <1>1, <1>3 DEF PlaceInv

LEMMA PlaceInvAlways == Spec => []PlaceInv
BY InitPlaceInv, PlaceStep, IInvAlways, PTL DEF Spec

(* A request that has arrived is with the pool, a thread or the waiting    *)
(* list, or it has been answered, and at one of these only: whatever the   *)
(* interleaving of threads, waiter and timeouts, none is lost and none is  *)
(* answered twice.                                                         *)
THEOREM RequestSafety == Spec => []RequestsAtOnePlace
<1>1. PlaceInv => RequestsAtOnePlace
  BY DEF PlaceInv
<1> QED
  BY <1>1, PlaceInvAlways, PTL

-----------------------------------------------------------------------------
(* Reissued requests. *)

(* Data newer than the window of a request that was reissued for them have *)
(* been written, and a search that was made for it since then knows it.    *)
DueInv ==
  /\ \A r \in due : WindowEnd[r] < newest - 1
  /\ \A t \in Threads : upc[t] = "collected" /\ task[t].request \in due =>
       result_code[t] \notin {"kNotYet", "kPartial"}

(* A request that waits is with no thread. *)
LEMMA WaitingHasNoThread ==
  ASSUME TypeOK, RequestsAtOnePlace, NEW t \in Threads, task[t] \in Tasks
  PROVE  task[t].request \notin m_waiting_requests
<1> DEFINE r == task[t].request
<1>1. r \in Requests /\ t \in ThreadsOf(r)
  BY HandlerAssumption DEF Tasks, ThreadsOf
<1> HIDE DEF r
<1>2. Cardinality(ThreadsOf(r)) # 0
  BY <1>1, PlacesType, FS_EmptySet
<1>3. Places(r) \in {0, 1}
  BY <1>1 DEF RequestsAtOnePlace
<1>4. Waits(r) = 0
  BY <1>1, <1>2, <1>3, PlacesType
<1> QED
  BY <1>4 DEF Waits, r

LEMMA DueStep ==
  ASSUME \A r \in Requests : WindowBegin[r] <= WindowEnd[r]
  PROVE  IInv /\ PlaceInv /\ DueInv /\ [Next]_vars => DueInv'
<1> SUFFICES ASSUME IInv, PlaceInv, DueInv, [Next]_vars
             PROVE  DueInv'
  OBVIOUS
<1> USE Constants
<1> USE DEF cleanerFrame, recorderFrame, threadFrame, lockFrame, bufferVars, controlVars,
            lockVars, cleanerVars, requestVars, waitVars, recordVars
<1>1. /\ upc \in [Users -> {"idle", "enter", "inside", "collected", "leave", "notify", "respond",
                            "begin", "loop", "walk", "store", "next"}]
      /\ oldest \in Nat /\ newest \in Nat /\ due \subseteq Requests
      /\ WindowEnd \in [Requests -> Nat] /\ WindowBegin \in [Requests -> Nat]
  BY HandlerAssumption DEF IInv, TypeOK
<1>2. task \in [Threads -> Tasks \cup {NoTask}] /\ m_waiting_requests \subseteq Requests
  BY DEF IInv, TypeOK
<1>3. result_code \in [Threads -> {"kUnknown", "kNotFound", "kNotYet", "kTooOld",
                                   "kPartial", "kFound"}]
  BY DEF IInv, TypeOK
<1>4. ASSUME UNCHANGED <<due, newest>>,
             \A t \in Threads : upc'[t] = "collected" =>
               /\ upc[t] = "collected"
               /\ task'[t] = task[t] /\ result_code'[t] = result_code[t]
      PROVE  DueInv'
  BY <1>4 DEF DueInv
<1>5. CASE Produce
  BY <1>1, <1>5 DEF Produce, DueInv
<1>6. CASE Start \/ StopBegin \/ StopStep \/ CleanerStep
  <2>1. UNCHANGED <<due, newest, upc, task, result_code>>
    BY <1>6 DEF Start, StopBegin, StopStep, StopJoins, Flush, CleanerStep, CleanerLoop,
                CleanupCheck, CleanerWakes, CleanupSize, CleanupTest, CleanupPop, CleanupErrors,
                CleanupFinish
  <2> QED
    BY <1>4, <2>1
<1>7. CASE WaiterLoop \/ \E r \in Requests : Dispatch(r) \/ Expire(r)
  BY <1>4, <1>7 DEF WaiterLoop, Dispatch, Expire
<1>8. CASE Scan
  <2> DEFINE arrived == {r \in m_waiting_requests : DataArrived(r)}
  <2>1. due' = due \cup arrived /\ UNCHANGED <<newest, upc, task, result_code>>
    BY <1>8 DEF Scan
  <2>2. \A r \in arrived : WindowEnd[r] < newest - 1
    BY DEF DataArrived
  <2>3. ASSUME NEW t \in Threads, upc[t] = "collected"
        PROVE  task[t].request \notin arrived
    BY <2>3, WaitingHasNoThread DEF IInv, TaskInv, PlaceInv
  <2> HIDE DEF arrived
  <2> QED
    BY <2>1, <2>2, <2>3 DEF DueInv
<1>9. ASSUME NEW t \in Threads, TaskStart(t)
      PROVE  DueInv'
  <2>1. PICK k \in pool : task' = [task EXCEPT ![t] = k]
    BY <1>9 DEF TaskStart
  <2>2. upc' = [upc EXCEPT ![t] = "enter"] /\ UNCHANGED <<due, newest, result_code>>
    BY <1>9 DEF TaskStart
  <2> QED
    BY <1>1, <1>2, <1>4, <2>1, <2>2
<1>10. ASSUME NEW t \in Threads, Collect(t)
       PROVE  DueInv'
  <2> DEFINE r == task[t].request
  <2>1. r \in Requests
    BY <1>10 DEF Collect, IInv, TaskInv, Tasks
  <2>2. /\ result_code' = [result_code EXCEPT ![t] = ResultFor(WindowBegin[r], WindowEnd[r])]
        /\ upc' = [upc EXCEPT ![t] = "collected"]
        /\ UNCHANGED <<due, newest, task>>
    BY <1>10 DEF Collect
  <2>3. ASSUME r \in due
        PROVE  result_code'[t] \notin {"kNotYet", "kPartial"}
    <3>1. WindowEnd[r] < newest - 1 /\ WindowBegin[r] <= WindowEnd[r]
      BY <2>1, <2>3 DEF DueInv
    <3>2. WindowBegin[r] \in Nat /\ WindowEnd[r] \in Nat
      BY <1>1, <2>1
    <3>3. ResultFor(WindowBegin[r], WindowEnd[r]) \notin {"kNotYet", "kPartial"}
      BY <1>1, <3>1, <3>2 DEF ResultFor
    <3> QED
      BY <1>3, <2>2, <3>3
  <2>4. ASSUME NEW q \in Threads, q # t
        PROVE  upc'[q] = upc[q] /\ result_code'[q] = result_code[q]
    BY <1>1, <1>3, <2>2, <2>4
  <2> QED
    BY <2>2, <2>3, <2>4 DEF DueInv
<1>11. ASSUME NEW t \in Threads, CopyPieces(t)
       PROVE  DueInv'
  BY <1>1, <1>4, <1>11 DEF CopyPieces
<1>12. ASSUME NEW t \in Threads, Requeue(t) \/ SendFragment(t)
       PROVE  DueInv'
  <2>1. /\ task' = [task EXCEPT ![t] = NoTask] /\ upc' = [upc EXCEPT ![t] = "idle"]
        /\ result_code' = [result_code EXCEPT ![t] = "kUnknown"]
        /\ UNCHANGED <<due, newest>>
    BY <1>12 DEF Requeue, SendFragment
  <2>2. ASSUME NEW q \in Threads, upc'[q] = "collected"
        PROVE  upc[q] = "collected" /\ task'[q] = task[q] /\ result_code'[q] = result_code[q]
    BY <1>1, <1>2, <1>3, <2>1, <2>2
  <2> QED
    BY <1>4, <2>1, <2>2
<1>13. ASSUME NEW u \in Users, WaitForCleanup(u) \/ Enter(u) \/ Leave(u) \/ Notify(u)
       PROVE  DueInv'
  BY <1>1, <1>4, <1>13 DEF WaitForCleanup, Enter, Leave, Notify
<1>14. CASE Record \/ RecordBegin \/ RecordLoop \/ RecordSearch \/ RecordElement \/ StoreCursor
              \/ NextChunk \/ RecordWalkEnds \/ RecordEnd
  <2>1. UNCHANGED <<due, newest, task, result_code>> /\ \A t \in Threads : upc'[t] = upc[t]
    BY <1>1, <1>14 DEF Record, RecordBegin, RecordLoop, RecordSearch, RecordElement, StoreCursor,
                       NextChunk, RecordWalkEnds, RecordEnd
  <2> QED
    BY <1>4, <2>1
<1>15. CASE UNCHANGED vars
  BY <1>4, <1>15 DEF vars
<1> QED
  BY <1>5, <1>6, <1>7, <1>8, <1>9, <1>10, <1>11, <1>12, <1>13, <1>14, <1>15
  DEF Next, WaiterStep, ThreadStep, RecorderStep, Finished, Users

(* A request reissued because data past its window had arrived is never    *)
(* put aside or answered in part again: the waiter's test of back() and    *)
(* the one in get_fragment_pieces() agree, whatever is written and cleaned *)
(* up in between, for windows that do not end before they begin.           *)
THEOREM RetrySafety ==
  ASSUME \A r \in Requests : WindowBegin[r] <= WindowEnd[r]
  PROVE  Spec => []DueRetriesConclude
<1>1. Init => DueInv
  BY DEF Init, DueInv
<1>2. DueInv => DueRetriesConclude
  BY DEF DueInv, DueRetriesConclude
<1>3. IInv /\ PlaceInv /\ DueInv /\ [Next]_vars => DueInv'
  BY DueStep
<1> QED
  BY <1>1, <1>2, <1>3, PlaceInvAlways, IInvAlways, PTL DEF Spec
==============================================================================
