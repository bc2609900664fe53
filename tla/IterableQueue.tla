---------------------------- MODULE IterableQueue ----------------------------
(***************************************************************************)
(* IterableQueueModel: the lock-free single-producer single-consumer ring  *)
(* under the latency buffers.  Every load or store of an index that        *)
(* another thread can see, and every construction or destruction of an     *)
(* element, is a step of its own, so that all interleavings of four        *)
(* threads are covered:                                                    *)
(*   - the producer, which calls write();                                  *)
(*   - the consumer, which calls read(), pop() and flush();                *)
(*   - a reader, which walks the queue with an Iterator.  Its callers keep *)
(*     it apart from the consumer with the request handler's lock, and the *)
(*     model assumes this and nothing else about it (RequestHandler shows  *)
(*     that the lock does it);                                             *)
(*   - the monitor, which publishes occupancy() without any exclusion.     *)
(* A slot without an element is raw memory, written NoElement.             *)
(***************************************************************************)
EXTENDS Ring, Sequences

CONSTANTS
  Elements,     \* the elements that clients write
  NoElement,    \* a slot in which no element is constructed
  MaxOverflow   \* bound on overflow_ctr, for model checking only

ASSUME NoElementAssumption == NoElement \notin Elements
ASSUME MaxOverflowAssumption == MaxOverflow \in Nat

VARIABLES
  records_,     \* the slots
  readIndex_,   \* the slot of the oldest element
  writeIndex_,  \* the slot the next element goes to
  overflow_ctr, \* failed writes
  ppc,          \* the producer's place in write()
  payload,      \* the argument of write()
  cpc,          \* the consumer's place in read(), pop() or flush()
  toPop,        \* elements the consumer's call has still to remove
  record,       \* the element being removed (what read() hands out)
  ipc,          \* the reader's place in its walk
  m_index,      \* the slot its Iterator is at, or EndIndex
  visited,      \* elements the walk has been at
  present,      \* elements in the queue when the walk began
  monitored,    \* the write index the monitor has loaded, or EndIndex
  guess         \* the occupancy it published last

producerVars == <<ppc, payload, overflow_ctr>>
consumerVars == <<cpc, toPop, record>>
readerVars   == <<ipc, m_index, visited, present>>
monitorVars  == <<monitored, guess>>
vars == <<records_, readIndex_, writeIndex_,
          producerVars, consumerVars, readerVars, monitorVars>>

-----------------------------------------------------------------------------
(* (fault) An iterator at the write index is good. *)
GoodAtWriteIndex(i) ==
  /\ i # EndIndex
  /\ \/ i >= readIndex_ /\ i <= writeIndex_
     \/ writeIndex_ < readIndex_ /\ (i >= readIndex_ \/ i <= writeIndex_)

(* (fault) The case of an iterator that has wrapped is missing. *)
GoodBeforeWrap(i) ==
  /\ i # EndIndex
  /\ \/ i >= readIndex_ /\ i < writeIndex_
     \/ i >= readIndex_ /\ writeIndex_ < readIndex_

(* Iterator::good(), for an iterator at i. *)
Good(i) ==
  /\ i # EndIndex
  /\ \/ i >= readIndex_ /\ i < writeIndex_
     \/ i >= readIndex_ /\ writeIndex_ < readIndex_
     \/ writeIndex_ < readIndex_ /\ i < readIndex_ /\ i < writeIndex_

-----------------------------------------------------------------------------
(* The default state after conf(): raw slots and no call under way.        *)
Init ==
  /\ records_ = [i \in Slots |-> NoElement]
  /\ readIndex_ = 0
  /\ writeIndex_ = 0
  /\ overflow_ctr = 0
  /\ ppc = "idle"
  /\ payload = NoElement
  /\ cpc = "idle"
  /\ toPop = 0
  /\ record = NoElement
  /\ ipc = "idle"
  /\ m_index = EndIndex
  /\ visited = 0
  /\ present = 0
  /\ monitored = EndIndex
  /\ guess = 0

-----------------------------------------------------------------------------
(* The producer: write().                                                  *)

(* (fault) The slot is taken without the test that the queue is not full. *)
WriteAcceptWhenFull(e) ==
  /\ ppc = "idle"
  /\ ppc' = "construct"
  /\ payload' = e
  /\ UNCHANGED <<records_, readIndex_, writeIndex_, overflow_ctr,
                 consumerVars, readerVars, monitorVars>>

(* It finds a slot free: the slot after it is not the one being read. *)
WriteAccept(e) ==
  /\ ppc = "idle"
  /\ NextRecord(writeIndex_) # readIndex_
  /\ ppc' = "construct"
  /\ payload' = e
  /\ UNCHANGED <<records_, readIndex_, writeIndex_, overflow_ctr,
                 consumerVars, readerVars, monitorVars>>

(* (fault) The full test looks one slot too far and refuses early. *)
WriteRejectEarly ==
  /\ ppc = "idle"
  /\ NextRecord(NextRecord(writeIndex_)) = readIndex_
  /\ overflow_ctr < MaxOverflow
  /\ overflow_ctr' = overflow_ctr + 1
  /\ UNCHANGED <<records_, readIndex_, writeIndex_, ppc, payload,
                 consumerVars, readerVars, monitorVars>>

(* The queue is full: the element is not taken. *)
WriteReject ==
  /\ ppc = "idle"
  /\ NextRecord(writeIndex_) = readIndex_
  /\ overflow_ctr < MaxOverflow
  /\ overflow_ctr' = overflow_ctr + 1
  /\ UNCHANGED <<records_, readIndex_, writeIndex_, ppc, payload,
                 consumerVars, readerVars, monitorVars>>

(* Placement new in the slot at the write index. *)
Construct ==
  /\ ppc = "construct"
  /\ records_' = [records_ EXCEPT ![writeIndex_] = payload]
  /\ ppc' = "publish"
  /\ UNCHANGED <<readIndex_, writeIndex_, overflow_ctr, payload,
                 consumerVars, readerVars, monitorVars>>

(* The store to writeIndex_ makes the element visible. *)
Publish ==
  /\ ppc = "publish"
  /\ writeIndex_' = NextRecord(writeIndex_)
  /\ ppc' = "idle"
  /\ payload' = NoElement
  /\ UNCHANGED <<records_, readIndex_, overflow_ctr,
                 consumerVars, readerVars, monitorVars>>

-----------------------------------------------------------------------------
(* The consumer: read(), pop(x) and flush().                               *)

(* A call that removes n elements begins. *)
BeginRemoval(n) ==
  /\ cpc = "idle"
  /\ ipc = "idle"
  /\ toPop' = n
  /\ cpc' = "destroy"
  /\ UNCHANGED <<records_, readIndex_, writeIndex_, record,
                 producerVars, readerVars, monitorVars>>

(* read() finds an element. *)
Read ==
  /\ readIndex_ # writeIndex_
  /\ BeginRemoval(1)

(* pop(x), for an x the caller has derived from occupancy(). *)
Pop(x) ==
  /\ x \in 1 .. OccupancyOf(writeIndex_, readIndex_)
  /\ BeginRemoval(x)

(* flush() pops what occupancy() returned. *)
Flush ==
  /\ readIndex_ # writeIndex_
  /\ BeginRemoval(OccupancyOf(writeIndex_, readIndex_))

(* popFront(), or the body of read(): the front element is destroyed... *)
Destroy ==
  /\ cpc = "destroy"
  /\ record' = records_[readIndex_]
  /\ records_' = [records_ EXCEPT ![readIndex_] = NoElement]
  /\ cpc' = "store"
  /\ UNCHANGED <<readIndex_, writeIndex_, toPop,
                 producerVars, readerVars, monitorVars>>

(* ... and its slot given to the producer. *)
StoreReadIndex ==
  /\ cpc = "store"
  /\ readIndex_' = NextRecord(readIndex_)
  /\ toPop' = toPop - 1
  /\ cpc' = IF toPop = 1 THEN "idle" ELSE "destroy"
  /\ record' = NoElement
  /\ UNCHANGED <<records_, writeIndex_,
                 producerVars, readerVars, monitorVars>>

-----------------------------------------------------------------------------
(* The reader: a walk from begin() to end().                               *)

(* begin() on a queue that is not empty. *)
Begin ==
  /\ ipc = "idle"
  /\ cpc = "idle"
  /\ readIndex_ # writeIndex_
  /\ m_index' = readIndex_
  /\ visited' = 1
  /\ present' = OccupancyOf(writeIndex_, readIndex_)
  /\ ipc' = "at"
  /\ UNCHANGED <<records_, readIndex_, writeIndex_,
                 producerVars, consumerVars, monitorVars>>

(* operator++ up to its second call of good(). *)
Advance ==
  /\ ipc = "at"
  /\ m_index' = IF Good(m_index) THEN NextRecord(m_index) ELSE m_index
  /\ ipc' = "settle"
  /\ UNCHANGED <<records_, readIndex_, writeIndex_, visited, present,
                 producerVars, consumerVars, monitorVars>>

(* The rest of operator++: at an element, or at end(). *)
Settle ==
  /\ ipc = "settle"
  /\ IF Good(m_index)
     THEN /\ ipc' = "at"
          /\ visited' = visited + 1
          /\ UNCHANGED m_index
     ELSE /\ ipc' = "end"
          /\ m_index' = EndIndex
          /\ UNCHANGED visited
  /\ UNCHANGED <<records_, readIndex_, writeIndex_, present,
                 producerVars, consumerVars, monitorVars>>

(* The caller stops walking, at end() or before it. *)
Leave ==
  /\ ipc \in {"at", "end"}
  /\ ipc' = "idle"
  /\ m_index' = EndIndex
  /\ visited' = 0
  /\ present' = 0
  /\ UNCHANGED <<records_, readIndex_, writeIndex_,
                 producerVars, consumerVars, monitorVars>>

-----------------------------------------------------------------------------
(* The monitor: generate_opmon_data() calls occupancy().                   *)

MonitorLoadsWrite ==
  /\ monitored = EndIndex
  /\ monitored' = writeIndex_
  /\ UNCHANGED <<records_, readIndex_, writeIndex_, guess,
                 producerVars, consumerVars, readerVars>>

MonitorLoadsRead ==
  /\ monitored # EndIndex
  /\ guess' = OccupancyOf(monitored, readIndex_)
  /\ monitored' = EndIndex
  /\ UNCHANGED <<records_, readIndex_, writeIndex_,
                 producerVars, consumerVars, readerVars>>

-----------------------------------------------------------------------------
Next ==
  \/ \E e \in Elements : WriteAccept(e)
  \/ WriteReject
  \/ Construct
  \/ Publish
  \/ Read
  \/ \E x \in 1 .. Size - 1 : Pop(x)
  \/ Flush
  \/ Destroy
  \/ StoreReadIndex
  \/ Begin
  \/ Advance
  \/ Settle
  \/ Leave
  \/ MonitorLoadsWrite
  \/ MonitorLoadsRead

Spec == Init /\ [][Next]_vars

-----------------------------------------------------------------------------
(* Properties.                                                             *)

Occupancy == OccupancyOf(writeIndex_, readIndex_)

(* The slots between the read index and the write index. *)
Live(i) == Between(i, readIndex_, writeIndex_)

(* Type invariant: what the indices, slots and program counters of         *)
(* IterableQueueModel and of its callers may hold.                         *)
TypeOK ==
  /\ records_ \in [Slots -> Elements \cup {NoElement}]
  /\ readIndex_ \in Slots
  /\ writeIndex_ \in Slots
  /\ overflow_ctr \in Nat
  /\ ppc \in {"idle", "construct", "publish"}
  /\ payload \in Elements \cup {NoElement}
  /\ cpc \in {"idle", "destroy", "store"}
  /\ toPop \in Nat
  /\ record \in Elements \cup {NoElement}
  /\ ipc \in {"idle", "at", "settle", "end"}
  /\ m_index \in Slots \cup {EndIndex}
  /\ visited \in Nat
  /\ present \in Nat
  /\ monitored \in Slots \cup {EndIndex}
  /\ guess \in Int

(* An element is constructed in exactly the slots between the indices,     *)
(* but for the one the producer is about to publish and the one the        *)
(* consumer has just destroyed.  So write() never constructs over a live   *)
(* element (the leak and lost data that a wrong full test would cause) and *)
(* popFront() and read() never destroy raw memory.                         *)
SlotsMatchIndices ==
  \A i \in Slots :
    records_[i] # NoElement <=>
      \/ Live(i) /\ ~(cpc = "store" /\ i = readIndex_)
      \/ ppc = "publish" /\ i = writeIndex_

(* The consumer of pop(x) and flush() has never more to remove than the    *)
(* queue holds, although the producer writes meanwhile: the assertion in   *)
(* popFront(), for every round of its caller's loop, and the promise of    *)
(* the comment on occupancy() to a consumer ("true size may be more").     *)
PopsWithinOccupancy ==
  /\ toPop <= Occupancy
  /\ cpc # "idle" => toPop >= 1 /\ readIndex_ # writeIndex_

(* A reader that dereferences its Iterator gets a constructed element, the *)
(* one after those it has been at, whatever the producer writes during the *)
(* walk and wherever the ring wraps.                                       *)
IteratorAtLiveElement ==
  ipc = "at" =>
    /\ records_[m_index] # NoElement
    /\ OccupancyOf(m_index, readIndex_) = visited - 1

(* A walk that reaches end() has been at every element that was in the     *)
(* queue when it began: operator++ never gives up early at the wrap or     *)
(* when a write moves the write index between its two calls of good().     *)
IteratorReachesAll == ipc = "end" => visited >= present

(* What the monitor publishes is a number of elements the queue can hold,  *)
(* although both indices may move (and wrap) between its two loads, a call *)
(* that the comment on occupancy() leaves undefined.                       *)
GuessInRange == guess \in 0 .. Size - 1

(* The refinement mapping.  An element being removed still counts until    *)
(* its slot is given up.                                                   *)
Contents ==
  [k \in 1 .. Occupancy |->
     IF k = 1 /\ cpc = "store" THEN record ELSE records_[SlotAt(readIndex_ + k - 1)]]

Abstract == INSTANCE LatencyBuffer
              WITH Capacity  <- Size - 1,
                   contents  <- Contents,
                   overflows <- overflow_ctr

(* The ring implements the bounded queue of LatencyBuffer: elements come   *)
(* out in the order they were written, none lost, changed or duplicated,   *)
(* a write is refused only when size - 1 elements are in the queue, and    *)
(* every refusal is counted.                                               *)
ImplementsLatencyBuffer == Abstract!Spec
==============================================================================
