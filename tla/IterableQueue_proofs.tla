------------------------- MODULE IterableQueue_proofs -------------------------
(***************************************************************************)
(* Proofs about IterableQueue, for every size of the ring and every set of *)
(* elements.                                                               *)
(***************************************************************************)
EXTENDS IterableQueue, SequenceTheorems, TLAPS

(* A write under way found a free slot, and has it still: only its own     *)
(* Publish can take it.  Once constructed, the element stays there.        *)
ProducerInv ==
  /\ ppc # "idle" => payload \in Elements /\ NextRecord(writeIndex_) # readIndex_
  /\ ppc = "publish" => records_[writeIndex_] = payload

(* The removal under way holds the element it has destroyed; removals and  *)
(* walks exclude each other.                                               *)
ConsumerInv ==
  /\ cpc = "store" => record \in Elements
  /\ ipc # "idle" => cpc = "idle"

(* Where the iterator is, in terms of the elements it has been at. *)
ReaderInv ==
  /\ ipc = "at" =>
       /\ m_index \in Slots
       /\ Live(m_index)
       /\ OccupancyOf(m_index, readIndex_) = visited - 1
       /\ present <= Occupancy
  /\ ipc = "settle" =>
       /\ m_index \in Slots
       /\ OccupancyOf(m_index, readIndex_) = visited
       /\ visited <= Occupancy
       /\ present <= Occupancy
  /\ ipc = "end" => visited >= present

(* The inductive invariant. *)
IInv ==
  /\ TypeOK
  /\ SlotsMatchIndices
  /\ PopsWithinOccupancy
  /\ GuessInRange
  /\ ProducerInv
  /\ ConsumerInv
  /\ ReaderInv

-----------------------------------------------------------------------------
(* Facts about ring indices. *)

(* The successor of a slot is a slot, and another one. *)
LEMMA NextRecordSlot ==
  ASSUME NEW i \in Slots
  PROVE  NextRecord(i) \in Slots /\ NextRecord(i) # i
BY SizeAssumption DEF Slots, NextRecord

(* occupancy() of two slots is a number of elements the ring can hold, and *)
(* it is zero exactly when the indices agree.                              *)
LEMMA OccupancyRange ==
  ASSUME NEW w \in Slots, NEW r \in Slots
  PROVE  /\ OccupancyOf(w, r) \in 0 .. Size - 1
         /\ OccupancyOf(w, r) = 0 <=> w = r
BY SizeAssumption DEF Slots, OccupancyOf

(* Publishing adds one element, if the slot after it is not the front. *)
LEMMA OccupancyGrows ==
  ASSUME NEW w \in Slots, NEW r \in Slots, NextRecord(w) # r
  PROVE  OccupancyOf(NextRecord(w), r) = OccupancyOf(w, r) + 1
BY SizeAssumption DEF Slots, OccupancyOf, NextRecord

(* Giving up the front slot of a queue that is not empty removes one. *)
LEMMA OccupancyShrinks ==
  ASSUME NEW w \in Slots, NEW r \in Slots, w # r
  PROVE  OccupancyOf(w, NextRecord(r)) = OccupancyOf(w, r) - 1
BY SizeAssumption DEF Slots, OccupancyOf, NextRecord

-----------------------------------------------------------------------------
(* The iterator and the ring.                                              *)

(* The three cases of good() are together the slots between the indices,   *)
(* and these are the slots nearer to the front than the write index is.    *)
LEMMA GoodIsLive ==
  ASSUME NEW i \in Slots, readIndex_ \in Slots, writeIndex_ \in Slots
  PROVE  /\ Good(i) <=> Live(i)
         /\ Live(i) <=> OccupancyOf(i, readIndex_) < Occupancy
BY SizeAssumption DEF Slots, Good, Live, Between, Occupancy, OccupancyOf, EndIndex

-----------------------------------------------------------------------------
(* The inductive invariant holds initially. *)
LEMMA InitIInv == Init => IInv
BY SizeAssumption, NoElementAssumption
   DEF Init, IInv, TypeOK, SlotsMatchIndices, PopsWithinOccupancy, GuessInRange,
       ProducerInv, ConsumerInv, ReaderInv, Live, Between, Occupancy, OccupancyOf, Slots,
       EndIndex

(* Every step of the producer preserves it. *)
LEMMA ProducerSteps ==
  ASSUME IInv,
         (\E e \in Elements : WriteAccept(e)) \/ WriteReject \/ Construct \/ Publish
  PROVE  IInv'
<1> USE DEF IInv, producerVars, consumerVars, readerVars, monitorVars
<1>1. CASE \E e \in Elements : WriteAccept(e)
  BY <1>1 DEF WriteAccept, TypeOK, SlotsMatchIndices, PopsWithinOccupancy,
     GuessInRange, ProducerInv, ConsumerInv, ReaderInv, Live, Between, Occupancy
<1>2. CASE WriteReject
  BY <1>2 DEF WriteReject, TypeOK, SlotsMatchIndices, PopsWithinOccupancy,
     GuessInRange, ProducerInv, ConsumerInv, ReaderInv, Live, Between, Occupancy
<1>3. CASE Construct
  <2>1. TypeOK'
    BY <1>3, NextRecordSlot DEF Construct, TypeOK, ProducerInv
  <2>2. SlotsMatchIndices'
    BY <1>3, NoElementAssumption
       DEF Construct, TypeOK, ProducerInv, SlotsMatchIndices, Live, Between
  <2>3. (PopsWithinOccupancy /\ GuessInRange /\ ProducerInv /\ ConsumerInv /\ ReaderInv)'
    BY <1>3 DEF Construct, TypeOK, PopsWithinOccupancy, GuessInRange, ProducerInv,
       ConsumerInv, ReaderInv, Live, Between, Occupancy
  <2>4. QED BY <2>1, <2>2, <2>3
<1>4. CASE Publish
  <2>0. readIndex_ \in Slots /\ writeIndex_ \in Slots /\ NextRecord(writeIndex_) # readIndex_
    BY <1>4 DEF Publish, TypeOK, ProducerInv
  <2>1. TypeOK'
    BY <1>4, <2>0, NextRecordSlot DEF Publish, TypeOK
  <2>2. SlotsMatchIndices'
    <3>1. \A i \in Slots : Live(i)' <=> Live(i) \/ i = writeIndex_
      BY <1>4, <2>0, SizeAssumption DEF Publish, Live, Between, Slots, NextRecord
    <3>2. \A i \in Slots : i = readIndex_ /\ cpc = "store" => i # writeIndex_
      BY DEF PopsWithinOccupancy
    <3>3. QED BY <1>4, <3>1, <3>2 DEF Publish, SlotsMatchIndices
  <2>3. Occupancy' = Occupancy + 1
    BY <1>4, <2>0, OccupancyGrows DEF Publish, Occupancy
  <2>4. Occupancy \in Nat
    BY <2>0, OccupancyRange DEF Occupancy
  <2>5. PopsWithinOccupancy'
    BY <1>4, <2>0, <2>3, <2>4 DEF Publish, PopsWithinOccupancy, TypeOK
  <2>6. ReaderInv'
    <3>1. ASSUME ipc = "at" PROVE Live(m_index)'
      BY <1>4, <2>0, <3>1, SizeAssumption DEF Publish, Live, Between, Slots, NextRecord, ReaderInv
    <3>2. QED BY <1>4, <2>3, <2>4, <3>1 DEF Publish, ReaderInv, TypeOK
  <2>7. (GuessInRange /\ ProducerInv /\ ConsumerInv)'
    BY <1>4 DEF Publish, GuessInRange, ProducerInv, ConsumerInv
  <2>8. QED BY <2>1, <2>2, <2>5, <2>6, <2>7
<1>5. QED BY <1>1, <1>2, <1>3, <1>4

(* Every step of the consumer preserves it. *)
LEMMA ConsumerSteps ==
  ASSUME IInv,
         Read \/ (\E x \in 1 .. Size - 1 : Pop(x)) \/ Flush \/ Destroy \/ StoreReadIndex
  PROVE  IInv'
<1> USE DEF IInv, producerVars, consumerVars, readerVars, monitorVars
<1>0. readIndex_ \in Slots /\ writeIndex_ \in Slots
  BY DEF TypeOK
<1>1. Occupancy \in 0 .. Size - 1 /\ (Occupancy = 0 <=> readIndex_ = writeIndex_)
  BY <1>0, OccupancyRange DEF Occupancy
<1>2. ASSUME NEW n \in 1 .. Occupancy, BeginRemoval(n)
      PROVE  IInv'
  BY <1>1, <1>2 DEF BeginRemoval, TypeOK, SlotsMatchIndices, PopsWithinOccupancy,
     GuessInRange, ProducerInv, ConsumerInv, ReaderInv, Live, Between, Occupancy
<1>3. CASE Read
  BY <1>1, <1>2, <1>3 DEF Read
<1>4. CASE \E x \in 1 .. Size - 1 : Pop(x)
  BY <1>2, <1>4 DEF Pop, Occupancy
<1>5. CASE Flush
  BY <1>1, <1>2, <1>5 DEF Flush, Occupancy
<1>6. CASE Destroy
  <2>1. readIndex_ # writeIndex_ /\ Live(readIndex_)
    BY <1>0, <1>6 DEF Destroy, PopsWithinOccupancy, Live, Between, Slots
  <2>2. records_[readIndex_] \in Elements
    BY <1>0, <1>6, <2>1 DEF Destroy, SlotsMatchIndices, TypeOK
  <2>3. TypeOK'
    BY <1>6, <2>2 DEF Destroy, TypeOK
  <2>4. SlotsMatchIndices'
    BY <1>6, <2>1 DEF Destroy, TypeOK, SlotsMatchIndices, Live, Between
  <2>5. (PopsWithinOccupancy /\ GuessInRange /\ ProducerInv /\ ConsumerInv /\ ReaderInv)'
    BY <1>6, <2>2 DEF Destroy, PopsWithinOccupancy, GuessInRange, ProducerInv,
       ConsumerInv, ReaderInv, Live, Between, Occupancy
  <2>6. QED BY <2>3, <2>4, <2>5
<1>7. CASE StoreReadIndex
  <2>1. readIndex_ # writeIndex_ /\ toPop \in Nat /\ toPop >= 1 /\ toPop <= Occupancy
    BY <1>7 DEF StoreReadIndex, PopsWithinOccupancy, TypeOK
  <2>2. Occupancy' = Occupancy - 1
    BY <1>0, <1>7, <2>1, OccupancyShrinks DEF StoreReadIndex, Occupancy
  <2>3. TypeOK'
    BY <1>0, <1>7, <2>1, NextRecordSlot DEF StoreReadIndex, TypeOK
  <2>4. SlotsMatchIndices'
    <3>1. \A i \in Slots : Live(i)' <=> Live(i) /\ i # readIndex_
      BY <1>0, <1>7, <2>1, SizeAssumption DEF StoreReadIndex, Live, Between, Slots, NextRecord
    <3>2. QED BY <1>7, <3>1 DEF StoreReadIndex, SlotsMatchIndices
  <2>5. PopsWithinOccupancy'
    <3>1. Occupancy' \in 0 .. Size - 1 /\ (Occupancy' = 0 <=> readIndex_' = writeIndex_')
      BY <2>3, OccupancyRange DEF Occupancy, TypeOK
    <3>2. QED BY <1>7, <1>1, <2>1, <2>2, <3>1 DEF StoreReadIndex, PopsWithinOccupancy
  <2>6. ProducerInv'
    BY <1>0, <1>7, <2>1, SizeAssumption DEF StoreReadIndex, ProducerInv, NextRecord, Slots
  <2>7. (GuessInRange /\ ConsumerInv /\ ReaderInv)'
    BY <1>7 DEF StoreReadIndex, GuessInRange, ConsumerInv, ReaderInv
  <2>8. QED BY <2>3, <2>4, <2>5, <2>6, <2>7
<1>8. QED BY <1>3, <1>4, <1>5, <1>6, <1>7

(* Every step of the reader and of the monitor preserves it. *)
LEMMA ReaderSteps ==
  ASSUME IInv,
         Begin \/ Advance \/ Settle \/ Leave \/ MonitorLoadsWrite \/ MonitorLoadsRead
  PROVE  IInv'
<1> USE DEF IInv, producerVars, consumerVars, readerVars, monitorVars
<1>0. readIndex_ \in Slots /\ writeIndex_ \in Slots
  BY DEF TypeOK
<1>1. Occupancy \in 0 .. Size - 1 /\ (Occupancy = 0 <=> readIndex_ = writeIndex_)
  BY <1>0, OccupancyRange DEF Occupancy
<1>2. ASSUME UNCHANGED <<records_, readIndex_, writeIndex_, producerVars, consumerVars>>
      PROVE  (SlotsMatchIndices /\ PopsWithinOccupancy /\ ProducerInv)' /\ Occupancy' = Occupancy
             /\ \A i : Live(i)' <=> Live(i)
  BY <1>2 DEF SlotsMatchIndices, PopsWithinOccupancy, ProducerInv, Live, Between, Occupancy
<1>3. CASE Begin
  <2>1. /\ readIndex_ # writeIndex_
        /\ OccupancyOf(readIndex_, readIndex_) = 0
        /\ Live(readIndex_)
    BY <1>0, <1>3, OccupancyRange DEF Begin, Live, Between, Slots
  <2>2. TypeOK'
    BY <1>0, <1>1, <1>3 DEF Begin, TypeOK, Occupancy
  <2>3. ReaderInv'
    BY <1>0, <1>1, <1>2, <1>3, <2>1 DEF Begin, ReaderInv, Occupancy
  <2>4. QED BY <1>2, <1>3, <2>2, <2>3 DEF Begin, GuessInRange, ConsumerInv
<1>4. CASE Advance
  <2>1. Good(m_index)
    BY <1>0, <1>4, GoodIsLive DEF Advance, ReaderInv
  <2>2. /\ m_index' = NextRecord(m_index)
        /\ m_index \in Slots
        /\ OccupancyOf(m_index, readIndex_) < Occupancy
        /\ OccupancyOf(m_index, readIndex_) = visited - 1
        /\ present <= Occupancy
    BY <1>0, <1>4, <2>1, GoodIsLive DEF Advance, ReaderInv
  <2>3. OccupancyOf(NextRecord(m_index), readIndex_) = OccupancyOf(m_index, readIndex_) + 1
    <3>1. NextRecord(m_index) # readIndex_
      BY <1>0, <1>1, <2>2, SizeAssumption DEF NextRecord, OccupancyOf, Slots
    <3>2. QED BY <1>0, <2>2, <3>1, OccupancyGrows
  <2>4. TypeOK'
    BY <1>4, <2>2, NextRecordSlot DEF Advance, TypeOK
  <2>5. ReaderInv'
    <3>1. m_index' \in Slots /\ OccupancyOf(m_index, readIndex_) \in Nat /\ visited \in Nat
      BY <1>0, <2>2, NextRecordSlot, OccupancyRange DEF TypeOK
    <3>2. OccupancyOf(m_index, readIndex_)' = visited /\ visited <= Occupancy
      BY <1>1, <1>4, <2>2, <2>3, <3>1 DEF Advance
    <3>3. QED BY <1>2, <1>4, <2>2, <3>1, <3>2 DEF Advance, ReaderInv
  <2>6. QED BY <1>2, <1>4, <2>4, <2>5 DEF Advance, GuessInRange, ConsumerInv
<1>5. CASE Settle
  <2>1. /\ m_index \in Slots
        /\ OccupancyOf(m_index, readIndex_) = visited
        /\ visited \in Nat
        /\ visited <= Occupancy
        /\ present \in Nat
        /\ present <= Occupancy
    BY <1>5 DEF Settle, ReaderInv, TypeOK
  <2>2. TypeOK'
    BY <1>5 DEF Settle, TypeOK
  <2>3. CASE Good(m_index)
    <3>1. Live(m_index)
      BY <1>0, <2>1, <2>3, GoodIsLive
    <3>2. ReaderInv'
      BY <1>2, <1>5, <2>1, <2>3, <3>1 DEF Settle, ReaderInv
    <3>3. QED BY <1>2, <1>5, <2>2, <3>2 DEF Settle, GuessInRange, ConsumerInv
  <2>4. CASE ~Good(m_index)
    <3>1. visited >= present
      BY <1>0, <1>1, <2>1, <2>4, GoodIsLive
    <3>2. ReaderInv'
      BY <1>5, <2>4, <3>1 DEF Settle, ReaderInv
    <3>3. QED BY <1>2, <1>5, <2>2, <3>2 DEF Settle, GuessInRange, ConsumerInv
  <2>5. QED BY <2>3, <2>4
<1>6. CASE Leave
  BY <1>2, <1>6 DEF Leave, TypeOK, GuessInRange, ConsumerInv, ReaderInv
<1>7. CASE MonitorLoadsWrite
  BY <1>2, <1>7 DEF MonitorLoadsWrite, TypeOK, GuessInRange, ConsumerInv, ReaderInv
<1>8. CASE MonitorLoadsRead
  <2>1. OccupancyOf(monitored, readIndex_) \in 0 .. Size - 1
    BY <1>0, <1>8, OccupancyRange DEF MonitorLoadsRead, TypeOK
  <2>2. QED
    BY <1>2, <1>8, <2>1, SizeAssumption
       DEF MonitorLoadsRead, TypeOK, GuessInRange, ConsumerInv, ReaderInv
<1>9. QED BY <1>3, <1>4, <1>5, <1>6, <1>7, <1>8

(* The invariant is inductive. *)
LEMMA NextIInv == IInv /\ [Next]_vars => IInv'
<1> SUFFICES ASSUME IInv, [Next]_vars PROVE IInv'
  OBVIOUS
<1>1. CASE UNCHANGED vars
  BY <1>1 DEF vars, producerVars, consumerVars, readerVars, monitorVars, IInv, TypeOK,
     SlotsMatchIndices, PopsWithinOccupancy, GuessInRange, ProducerInv, ConsumerInv,
     ReaderInv, Live, Between, Occupancy
<1>2. CASE Next
  BY <1>2, ProducerSteps, ConsumerSteps, ReaderSteps DEF Next
<1>3. QED BY <1>1, <1>2

(* The inductive invariant holds in every reachable state. *)
LEMMA Invariance == Spec => []IInv
BY InitIInv, NextIInv, PTL DEF Spec

(* Every reachable state is of its type. *)
THEOREM TypeCorrect == Spec => []TypeOK
BY Invariance, PTL DEF IInv

(* No element is constructed over another, and none is destroyed twice,    *)
(* whatever the interleaving of write() with read(), pop() and flush().    *)
THEOREM SlotSafety == Spec => []SlotsMatchIndices
BY Invariance, PTL DEF IInv

(* The assertion in popFront() never fails. *)
THEOREM PopSafety == Spec => []PopsWithinOccupancy
BY Invariance, PTL DEF IInv

(* occupancy() is in range, whoever calls it. *)
THEOREM GuessSafety == Spec => []GuessInRange
BY Invariance, PTL DEF IInv

(* An Iterator is only ever dereferenced at a constructed element. *)
THEOREM IteratorSafety == Spec => []IteratorAtLiveElement
<1>1. IInv => IteratorAtLiveElement
  BY DEF IInv, ReaderInv, ConsumerInv, SlotsMatchIndices, IteratorAtLiveElement
<1>2. QED BY <1>1, Invariance, PTL

(* A walk to end() misses none of the elements present when it began. *)
THEOREM IteratorComplete == Spec => []IteratorReachesAll
<1>1. IInv => IteratorReachesAll
  BY DEF IInv, ReaderInv, IteratorReachesAll
<1>2. QED BY <1>1, Invariance, PTL

-----------------------------------------------------------------------------
(* The ring implements LatencyBuffer.                                      *)

(* The slot of the k-th element is live, and the slots of different        *)
(* elements are different.                                                 *)
LEMMA SlotAtLive ==
  ASSUME readIndex_ \in Slots, writeIndex_ \in Slots, NEW k \in 1 .. Occupancy
  PROVE  /\ SlotAt(readIndex_ + k - 1) \in Slots
         /\ Live(SlotAt(readIndex_ + k - 1))
         /\ SlotAt(readIndex_ + k - 1) # writeIndex_
         /\ SlotAt(readIndex_ + k - 1) = readIndex_ <=> k = 1
BY SizeAssumption DEF Slots, Live, Between, Occupancy, OccupancyOf, SlotAt

(* The mapped contents are a sequence of elements, one for each slot       *)
(* between the indices.                                                    *)
LEMMA ContentsType ==
  ASSUME IInv
  PROVE  /\ Occupancy \in 0 .. Size - 1
         /\ Contents \in Seq(Elements)
         /\ Len(Contents) = Occupancy
         /\ DOMAIN Contents = 1 .. Occupancy
<1>0. readIndex_ \in Slots /\ writeIndex_ \in Slots
  BY DEF IInv, TypeOK
<1>1. Occupancy \in 0 .. Size - 1
  BY <1>0, OccupancyRange DEF Occupancy
<1>2. ASSUME NEW k \in 1 .. Occupancy
      PROVE  (IF k = 1 /\ cpc = "store" THEN record ELSE records_[SlotAt(readIndex_ + k - 1)])
               \in Elements
  BY <1>0, SlotAtLive DEF IInv, TypeOK, SlotsMatchIndices, ConsumerInv
<1>3. Contents \in [1 .. Occupancy -> Elements]
  BY <1>2 DEF Contents
<1>4. QED BY <1>1, <1>3, SizeAssumption

(* A step that leaves the mapped variables alone. *)
LEMMA ContentsUnchanged ==
  ASSUME UNCHANGED <<records_, readIndex_, writeIndex_, record>>,
         cpc = "store" <=> cpc' = "store"
  PROVE  Contents' = Contents
BY DEF Contents, Occupancy, SlotAt

(* A function that agrees with a sequence and has one more element at its  *)
(* end is that sequence with the element appended.                         *)
LEMMA AppendByElements ==
  ASSUME NEW S, NEW s \in Seq(S), NEW e \in S, NEW t,
         DOMAIN t = 1 .. Len(s) + 1, t = [k \in DOMAIN t |-> t[k]],
         \A k \in 1 .. Len(s) : t[k] = s[k],
         t[Len(s) + 1] = e
  PROVE  t = Append(s, e)
<1>1. Len(s) \in Nat /\ \A k \in 1 .. Len(s) : s[k] \in S
  BY LenProperties, ElementOfSeq
<1>2. \A k \in 1 .. Len(s) + 1 : t[k] \in S
  BY <1>1
<1>3. t \in [1 .. Len(s) + 1 -> S]
  BY <1>2
<1>4. t \in Seq(S) /\ Len(t) = Len(s) + 1
  BY <1>1, <1>3
<1>5. /\ Append(s, e) \in Seq(S)
      /\ Len(Append(s, e)) = Len(s) + 1
      /\ \A k \in 1 .. Len(s) : Append(s, e)[k] = s[k]
      /\ Append(s, e)[Len(s) + 1] = e
  BY AppendProperties
<1>6. \A k \in 1 .. Len(t) : t[k] = Append(s, e)[k]
  BY <1>1, <1>4, <1>5
<1>7. QED BY <1>4, <1>5, <1>6, SeqEqual

(* The store to the write index appends the element. *)
LEMMA PublishAppends ==
  ASSUME IInv, IInv', Publish
  PROVE  Abstract!Write(payload)
<1>0. readIndex_ \in Slots /\ writeIndex_ \in Slots /\ NextRecord(writeIndex_) # readIndex_
  BY DEF IInv, TypeOK, ProducerInv, Publish
<1>1. Occupancy' = Occupancy + 1
  BY <1>0, OccupancyGrows DEF Publish, Occupancy
<1>2. Occupancy \in 0 .. Size - 2
  <2>1. NextRecord(writeIndex_) \in Slots
    BY <1>0, NextRecordSlot
  <2>2. Occupancy \in 0 .. Size - 1 /\ Occupancy' \in 0 .. Size - 1
    BY <1>0, <2>1, OccupancyRange DEF Occupancy, Publish
  <2>3. QED BY <1>1, <2>2, SizeAssumption
<1>3. SlotAt(readIndex_ + Occupancy) = writeIndex_
  BY <1>0, SizeAssumption DEF SlotAt, Occupancy, OccupancyOf, Slots
<1>4. payload \in Elements /\ records_[writeIndex_] = payload
  BY DEF IInv, ProducerInv, Publish
<1>5. Contents' = Append(Contents, payload)
  <2> DEFINE element(k) == IF k = 1 /\ cpc = "store" THEN record
                           ELSE records_[SlotAt(readIndex_ + k - 1)]
  <2>1. Contents' = [k \in 1 .. Occupancy + 1 |-> element(k)]
    BY <1>1 DEF Publish, consumerVars, Contents, SlotAt
  <2>2. \A k \in 1 .. Occupancy : Contents[k] = element(k)
    BY DEF Contents
  <2>3. element(Occupancy + 1) = payload
    <3>1. readIndex_ + (Occupancy + 1) - 1 = readIndex_ + Occupancy
      BY <1>0, <1>2 DEF Slots
    <3>2. ~(Occupancy + 1 = 1 /\ cpc = "store")
      BY <1>0, <1>2, OccupancyRange DEF IInv, PopsWithinOccupancy, Occupancy
    <3>3. QED BY <1>3, <1>4, <3>1, <3>2
  <2> HIDE DEF element
  <2>4. Contents \in Seq(Elements) /\ Len(Contents) = Occupancy
    BY ContentsType
  <2>5. [k \in 1 .. Occupancy + 1 |-> element(k)] = Append(Contents, payload)
    <3> DEFINE t == [k \in 1 .. Occupancy + 1 |-> element(k)]
    <3>1. DOMAIN t = 1 .. Occupancy + 1 /\ t = [k \in DOMAIN t |-> t[k]]
      OBVIOUS
    <3>2. \A k \in 1 .. Occupancy : t[k] = Contents[k]
      BY <1>2, <2>2
    <3>3. t[Occupancy + 1] = payload
      BY <1>2, <2>3
    <3> HIDE DEF t
    <3>4. t = Append(Contents, payload)
      <4>1. /\ DOMAIN t = 1 .. Len(Contents) + 1
            /\ \A k \in 1 .. Len(Contents) : t[k] = Contents[k]
            /\ t[Len(Contents) + 1] = payload
        BY <2>4, <3>1, <3>2, <3>3
      <4>2. QED BY <1>4, <2>4, <3>1, <4>1, AppendByElements
    <3>5. QED BY <3>4 DEF t
  <2>6. QED BY <2>1, <2>5
<1>6. QED
  BY <1>2, <1>5, ContentsType, SizeAssumption DEF Abstract!Write, Publish

(* The store to the read index removes the oldest element. *)
LEMMA StoreRemoves ==
  ASSUME IInv, IInv', StoreReadIndex
  PROVE  Abstract!Remove
<1>0. readIndex_ \in Slots /\ writeIndex_ \in Slots /\ writeIndex_ # readIndex_
  BY DEF IInv, TypeOK, PopsWithinOccupancy, StoreReadIndex
<1>1. Occupancy' = Occupancy - 1 /\ Occupancy \in 1 .. Size - 1
  BY <1>0, OccupancyShrinks, OccupancyRange, SizeAssumption DEF StoreReadIndex, Occupancy
<1>2. Contents # << >>
  BY <1>1, ContentsType
<1>3. Contents' = Tail(Contents)
  <2>1. Contents' = [k \in 1 .. Occupancy - 1 |-> records_[SlotAt(NextRecord(readIndex_) + k - 1)]]
    BY <1>1 DEF StoreReadIndex, Contents, SlotAt
  <2>2. Tail(Contents) = [k \in 1 .. Occupancy - 1 |-> Contents[k + 1]]
    <3>1. /\ Tail(Contents) \in Seq(Elements)
          /\ Len(Tail(Contents)) = Occupancy - 1
          /\ \A k \in 1 .. Len(Tail(Contents)) : Tail(Contents)[k] = Contents[k + 1]
      BY <1>2, ContentsType, HeadTailProperties
    <3>2. Tail(Contents) \in [1 .. Occupancy - 1 -> Elements]
      BY <3>1, LenProperties
    <3>3. QED BY <3>1, <3>2
  <2>3. ASSUME NEW k \in 1 .. Occupancy - 1
        PROVE  records_[SlotAt(NextRecord(readIndex_) + k - 1)] = Contents[k + 1]
    <3>1. SlotAt(NextRecord(readIndex_) + k - 1) = SlotAt(readIndex_ + (k + 1) - 1)
      BY <1>0, <1>1, SizeAssumption DEF SlotAt, NextRecord, Slots
    <3>2. k + 1 \in 1 .. Occupancy /\ k + 1 # 1
      BY <1>1, SizeAssumption
    <3>3. QED BY <3>1, <3>2 DEF Contents
  <2>4. QED BY <2>1, <2>2, <2>3
<1>4. QED BY <1>2, <1>3 DEF Abstract!Remove, StoreReadIndex, producerVars

(* A construction is not visible before it is published. *)
LEMMA ConstructInvisible ==
  ASSUME IInv, Construct
  PROVE  Contents' = Contents
<1>1. ASSUME NEW k \in 1 .. Occupancy
      PROVE  records_'[SlotAt(readIndex_ + k - 1)] = records_[SlotAt(readIndex_ + k - 1)]
  BY SlotAtLive DEF IInv, TypeOK, Construct
<1>2. QED BY <1>1 DEF Construct, consumerVars, Contents, Occupancy, SlotAt

(* A destruction is not visible before its slot is given up. *)
LEMMA DestroyInvisible ==
  ASSUME IInv, Destroy
  PROVE  Contents' = Contents
<1>0. readIndex_ \in Slots
  BY DEF IInv, TypeOK
<1>1. ASSUME NEW k \in 1 .. Occupancy
      PROVE  (IF k = 1 THEN record' ELSE records_'[SlotAt(readIndex_ + k - 1)])
               = records_[SlotAt(readIndex_ + k - 1)]
  BY <1>0, SlotAtLive DEF IInv, TypeOK, Destroy
<1>2. QED BY <1>1 DEF Destroy, Contents, Occupancy, SlotAt

(* Every step of the ring is a step of the abstract queue or a stutter. *)
LEMMA StepRefines ==
  ASSUME IInv, IInv', [Next]_vars
  PROVE  [Abstract!Next]_Abstract!vars
<1> USE DEF producerVars, consumerVars, readerVars, monitorVars
<1>1. ASSUME Contents' = Contents, UNCHANGED overflow_ctr
      PROVE  UNCHANGED Abstract!vars
  BY <1>1 DEF Abstract!vars
<1>2. CASE \E e \in Elements : WriteAccept(e)
  BY <1>1, <1>2, ContentsUnchanged DEF WriteAccept
<1>3. CASE WriteReject
  <2>1. Contents' = Contents
    BY <1>3, ContentsUnchanged DEF WriteReject
  <2>2. Occupancy = Size - 1
    BY <1>3, SizeAssumption
       DEF WriteReject, IInv, TypeOK, Slots, Occupancy, OccupancyOf, NextRecord
  <2>3. Abstract!Refuse
    BY <1>3, <2>1, <2>2, ContentsType DEF WriteReject, Abstract!Refuse
  <2>4. QED BY <2>3 DEF Abstract!Next
<1>4. CASE Construct
  BY <1>1, <1>4, ConstructInvisible DEF Construct
<1>5. CASE Publish
  <2>1. payload \in Elements
    BY <1>5 DEF Publish, IInv, ProducerInv
  <2>2. QED BY <1>5, <2>1, PublishAppends DEF Abstract!Next
<1>6. ASSUME NEW n, BeginRemoval(n)
      PROVE  UNCHANGED Abstract!vars
  BY <1>1, <1>6, ContentsUnchanged DEF BeginRemoval
<1>7. CASE Read \/ (\E x \in 1 .. Size - 1 : Pop(x)) \/ Flush
  BY <1>6, <1>7 DEF Read, Pop, Flush
<1>8. CASE Destroy
  BY <1>1, <1>8, DestroyInvisible DEF Destroy
<1>9. CASE StoreReadIndex
  BY <1>9, StoreRemoves DEF Abstract!Next
<1>10. CASE Begin \/ Advance \/ Settle \/ Leave \/ MonitorLoadsWrite \/ MonitorLoadsRead
  <2>1. UNCHANGED <<records_, readIndex_, writeIndex_, record, cpc, overflow_ctr>>
    BY <1>10 DEF Begin, Advance, Settle, Leave, MonitorLoadsWrite, MonitorLoadsRead
  <2>2. QED BY <1>1, <2>1, ContentsUnchanged
<1>11. CASE UNCHANGED vars
  BY <1>1, <1>11, ContentsUnchanged DEF vars
<1>12. QED
  BY <1>2, <1>3, <1>4, <1>5, <1>7, <1>8, <1>9, <1>10, <1>11 DEF Next

(* The initial ring is the empty queue. *)
LEMMA InitRefines == Init => Abstract!Init
<1> SUFFICES ASSUME Init PROVE Abstract!Init
  OBVIOUS
<1>1. IInv /\ Occupancy = 0
  BY InitIInv, SizeAssumption DEF Init, Occupancy, OccupancyOf
<1>2. Contents = << >>
  BY <1>1, ContentsType
<1>3. QED BY <1>2 DEF Init, Abstract!Init

(* The lock-free ring is a bounded first-in first-out queue of size - 1    *)
(* elements, for every size and under every interleaving of its threads.   *)
THEOREM Refinement == Spec => ImplementsLatencyBuffer
<1>1. IInv /\ IInv' /\ [Next]_vars => [Abstract!Next]_Abstract!vars
  BY StepRefines
<1>2. QED
  BY <1>1, InitRefines, Invariance, PTL DEF Spec, ImplementsLatencyBuffer, Abstract!Spec
==============================================================================
