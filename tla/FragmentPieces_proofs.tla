------------------------ MODULE FragmentPieces_proofs ------------------------
(***************************************************************************)
(* Proofs about LowerBound and FragmentPieces.  lower_bound() is right for *)
(* every ring size, every content the producer can have written and every  *)
(* element searched for; and a request is answered with what it asks for,  *)
(* whatever the producer writes meanwhile.                                 *)
(***************************************************************************)
EXTENDS FragmentPieces, WellFoundedInduction, TLAPS

(* The types of LowerBound, with any element searched for: the key of a    *)
(* request may have wrapped around.                                        *)
SearchType ==
  /\ timestamp \in [Slots -> Timestamps]
  /\ readIndex_ \in Slots
  /\ loaded_index \in Slots
  /\ element \in Nat
  /\ pc \in {"idle", "binary", "fixed", "search", "done"}
  /\ start_index \in Slots
  /\ end_index \in Slots
  /\ result \in Slots \cup {EndIndex}

(* The interval of the binary search: its first element is not newer than  *)
(* the one searched for, and all elements after the interval are newer.    *)
SearchInv ==
  pc = "search" =>
    /\ Loaded(start_index)
    /\ Loaded(end_index)
    /\ Rank(start_index) <= Rank(end_index)
    /\ timestamp[start_index] <= element
    /\ \A i \in Slots : Loaded(i) /\ Rank(i) > Rank(end_index) => element < timestamp[i]

(* What a search finds before its first step. *)
EntryInv ==
  /\ pc \in {"binary", "fixed"} => start_index = readIndex_ /\ end_index = loaded_index
  /\ pc = "fixed" => readIndex_ # loaded_index

(* What holds of a search in a sorted ring, also of a lookup by division   *)
(* in a ring where that is of no use.                                      *)
BaseInv == SearchType /\ Sorted /\ EntryInv /\ SearchInv

(* What a lookup by division needs: each element is where a fixed rate     *)
(* puts it, or it and its place are beyond the element searched for, or    *)
(* that is beyond all elements and places.                                 *)
FixedNearKey ==
  \A i \in Slots : Loaded(i) =>
    \/ timestamp[i] = timestamp[readIndex_] + Rank(i) * Ticks
    \/ element < timestamp[i] /\ element <= timestamp[readIndex_] + Rank(i) * Ticks
    \/ timestamp[i] < element /\ timestamp[readIndex_] + LoadedOccupancy * Ticks < element

(* The inductive invariant. *)
IInv ==
  /\ BaseInv
  /\ pc = "fixed" => FixedNearKey
  /\ FoundIsLowerBound
  /\ EndOnlyOutside

-----------------------------------------------------------------------------
(* Facts about ring indices. *)

(* The successor of a slot is a slot, and another one. *)
LEMMA NextRecordSlot ==
  ASSUME NEW i \in Slots
  PROVE  NextRecord(i) \in Slots /\ NextRecord(i) # i
BY SizeAssumption DEF Slots, NextRecord

(* occupancy() of two slots is a number of elements the ring can hold, and *)
(* it is zero exactly when the indices agree.                              *)
LEMMA OccupancyRange ==
  ASSUME NEW w \in Slots, NEW r \in Slots
  PROVE  /\ OccupancyOf(w, r) \in 0 .. Size - 1
         /\ OccupancyOf(w, r) = 0 <=> w = r
BY SizeAssumption DEF Slots, OccupancyOf

(* Slots at the same distance from the read index are the same slot. *)
LEMMA OccupancyInjective ==
  ASSUME NEW i \in Slots, NEW j \in Slots, NEW r \in Slots,
         OccupancyOf(i, r) = OccupancyOf(j, r)
  PROVE  i = j
BY SizeAssumption DEF Slots, OccupancyOf

(* Publishing adds one element, if the slot after it is not the front. *)
LEMMA OccupancyGrows ==
  ASSUME NEW w \in Slots, NEW r \in Slots, NextRecord(w) # r
  PROVE  OccupancyOf(NextRecord(w), r) = OccupancyOf(w, r) + 1
BY SizeAssumption DEF Slots, OccupancyOf, NextRecord

(* The slots in use are those nearer to the read index than the write      *)
(* index is.                                                               *)
LEMMA BetweenIsNearer ==
  ASSUME NEW i \in Slots, NEW r \in Slots, NEW w \in Slots
  PROVE  Between(i, r, w) <=> OccupancyOf(i, r) < OccupancyOf(w, r)
BY SizeAssumption DEF Slots, Between, OccupancyOf

(* Half of a number, rounded up, lies between it and zero, and strictly if *)
(* there is more than one.                                                 *)
LEMMA HalfBounds ==
  ASSUME NEW d \in Nat
  PROVE  /\ (d + 1) \div 2 \in 0 .. d
         /\ d # 0 => (d + 1) \div 2 \in 1 .. d
         /\ d = 0 => (d + 1) \div 2 = 0
OBVIOUS

(* The slot before one that is not the front is one nearer to the front. *)
LEMMA PredecessorRank ==
  ASSUME NEW i \in Slots, readIndex_ \in Slots, i # readIndex_
  PROVE  LET p == IF i # 0 THEN i - 1 ELSE Size - 1
         IN  p \in Slots /\ Rank(p) = Rank(i) - 1
BY SizeAssumption DEF Slots, Rank, OccupancyOf

(* Where the middle of the interval is. *)
LEMMA MiddleRank ==
  ASSUME SearchType, SearchInv, pc = "search"
  PROVE  /\ Middle \in Slots
         /\ Loaded(Middle)
         /\ Rank(Middle) \in Rank(start_index) .. Rank(end_index)
         /\ start_index # end_index => Rank(Middle) > Rank(start_index)
         /\ start_index = end_index => Middle = start_index
<1> DEFINE d == OccupancyOf(end_index, start_index)
<1>0. /\ readIndex_ \in Slots /\ loaded_index \in Slots
      /\ start_index \in Slots /\ end_index \in Slots
  BY DEF SearchType
<1>1. /\ Rank(start_index) \in 0 .. Size - 1
      /\ Rank(end_index) \in 0 .. Size - 1
      /\ Rank(start_index) <= Rank(end_index)
      /\ Rank(end_index) < LoadedOccupancy
      /\ LoadedOccupancy \in 0 .. Size - 1
  BY <1>0, OccupancyRange, BetweenIsNearer DEF SearchInv, Rank, Loaded, LoadedOccupancy
<1>2. d = Rank(end_index) - Rank(start_index) /\ d \in Nat
  BY <1>0, <1>1, SizeAssumption DEF Rank, OccupancyOf, Slots
<1>3. d = 0 <=> start_index = end_index
  BY <1>0, OccupancyRange
<1> HIDE DEF d
<1> DEFINE h == (d + 1) \div 2
<1>4. h \in 0 .. d /\ (d # 0 => h >= 1) /\ (d = 0 => h = 0)
  BY <1>2, HalfBounds
<1>5. Middle = SlotAt(start_index + h)
  BY DEF Middle, d
<1> HIDE DEF h
<1>6. Middle \in Slots /\ Rank(Middle) = Rank(start_index) + h
  BY <1>0, <1>1, <1>2, <1>4, <1>5, SizeAssumption DEF SlotAt, Rank, OccupancyOf, Slots
<1>7. Loaded(Middle)
  BY <1>0, <1>1, <1>2, <1>4, <1>6, BetweenIsNearer DEF Loaded, Rank, LoadedOccupancy
<1>8. start_index = end_index => Middle = start_index
  BY <1>0, <1>1, <1>3, <1>4, <1>6, OccupancyInjective DEF Rank
<1>9. QED BY <1>1, <1>2, <1>3, <1>4, <1>6, <1>7, <1>8

(* A product grows with its factor. *)
LEMMA ProductMonotonic ==
  ASSUME NEW a \in Nat, NEW b \in Nat, NEW t \in Nat, a <= b
  PROVE  a * t <= b * t
OBVIOUS

(* ElementOffset is the quotient rounded up. *)
LEMMA ElementOffsetRoundsUp ==
  ASSUME NEW diff \in Nat
  PROVE  /\ Ticks \in Nat \ {0}
         /\ ElementOffset(diff) \in Nat
         /\ diff <= ElementOffset(diff) * Ticks
         /\ ElementOffset(diff) # 0 => (ElementOffset(diff) - 1) * Ticks < diff
<1>1. Ticks \in Nat \ {0}
  BY ElementAssumption DEF Ticks
<1> DEFINE q == diff \div Ticks
           r == diff % Ticks
<1>2. q \in Nat /\ r \in 0 .. Ticks - 1 /\ diff = Ticks * q + r
  BY <1>1
<1>3. ElementOffset(diff) = IF r # 0 THEN q + 1 ELSE q
  BY <1>2 DEF ElementOffset
<1> HIDE DEF q, r
<1>4. CASE r = 0
  BY <1>1, <1>2, <1>3, <1>4
<1>5. CASE r # 0
  BY <1>1, <1>2, <1>3, <1>5
<1>6. QED BY <1>1, <1>4, <1>5

-----------------------------------------------------------------------------
(* The inductive invariant holds initially. *)
LEMMA InitIInv == Init => IInv
BY SizeAssumption, MaxTimestampAssumption DEF Init, IInv, BaseInv, SearchType, EntryInv, Timestamps, FixedRate, FixedNearKey, SearchInv, FoundIsLowerBound, EndOnlyOutside

(* The invariant holds after a return, if the returned index is right. *)
LEMMA ReturnIInv ==
  ASSUME IInv, NEW i \in Slots \cup {EndIndex}, Return(i),
         (FoundIsLowerBound /\ EndOnlyOutside)'
  PROVE  IInv'
BY DEF IInv, BaseInv, Return, ring, SearchType, Sorted, EntryInv, SearchInv, Loaded, Rank

(* The first step of the binary search. *)
LEMMA BinaryStartIInv ==
  ASSUME IInv, BinaryStart
  PROVE  IInv'
<1>0. /\ readIndex_ \in Slots /\ loaded_index \in Slots
      /\ start_index = readIndex_ /\ end_index = loaded_index
      /\ timestamp \in [Slots -> Timestamps] /\ element \in Nat
  BY DEF IInv, BaseInv, SearchType, EntryInv, BinaryStart
<1>1. CASE start_index = end_index \/ element < timestamp[start_index]
  <2>1. Return(EndIndex)
    BY <1>1 DEF BinaryStart
  <2>2. FoundIsLowerBound'
    BY <2>1 DEF Return, FoundIsLowerBound
  <2>3. CASE start_index = end_index
    <3>1. \A i \in Slots : ~Loaded(i)
      BY <1>0, <2>3 DEF Loaded, Between, Slots
    <3>2. EndOnlyOutside'
      BY <2>1, <3>1 DEF Return, ring, EndOnlyOutside, Loaded
    <3>3. QED BY <2>1, <2>2, <3>2, ReturnIInv
  <2>4. CASE start_index # end_index /\ element < timestamp[start_index]
    <3>1. Rank(readIndex_) = 0 /\ Loaded(readIndex_)
      BY <1>0, <2>4, OccupancyRange DEF Rank, Loaded, Between, Slots
    <3>2. \A i \in Slots : Rank(i) >= 0
      BY <1>0, OccupancyRange DEF Rank
    <3>3. \A i \in Slots : Loaded(i) => timestamp[readIndex_] <= timestamp[i]
      BY <1>0, <3>1, <3>2 DEF IInv, BaseInv, Sorted
    <3>4. \A i \in Slots : Loaded(i) => element < timestamp[i]
      BY <1>0, <2>4, <3>3, MaxTimestampAssumption DEF Timestamps
    <3>5. EndOnlyOutside'
      BY <2>1, <3>4 DEF Return, ring, EndOnlyOutside, Loaded
    <3>6. QED BY <2>1, <2>2, <3>5, ReturnIInv
  <2>5. QED BY <1>1, <2>3, <2>4
<1>2. CASE start_index # end_index /\ ~(element < timestamp[start_index])
  <2>1. /\ end_index' = IF loaded_index # 0 THEN loaded_index - 1 ELSE Size - 1
        /\ pc' = "search"
        /\ UNCHANGED <<ring, start_index, result>>
    BY <1>0, <1>2 DEF BinaryStart
  <2>2. end_index' \in Slots /\ Rank(end_index') = LoadedOccupancy - 1
    BY <1>0, <1>2, <2>1, PredecessorRank DEF Rank, LoadedOccupancy
  <2>3. LoadedOccupancy \in 1 .. Size - 1 /\ Rank(readIndex_) = 0
    BY <1>0, <1>2, OccupancyRange, SizeAssumption DEF LoadedOccupancy, Rank
  <2>4. Loaded(end_index') /\ Loaded(readIndex_)
    BY <1>0, <2>2, <2>3, BetweenIsNearer DEF Loaded, Rank, LoadedOccupancy
  <2>5. \A i \in Slots : Loaded(i) => ~(Rank(i) > Rank(end_index'))
    BY <1>0, <2>2, <2>3, OccupancyRange, BetweenIsNearer DEF Loaded, Rank, LoadedOccupancy
  <2>6. timestamp[readIndex_] <= element
    BY <1>0, <1>2, MaxTimestampAssumption DEF Timestamps
  <2>7. SearchInv'
    BY <1>0, <2>1, <2>2, <2>3, <2>4, <2>5, <2>6 DEF SearchInv, ring, Loaded, Rank
  <2>8. (SearchType /\ Sorted /\ EntryInv)'
    BY <2>1, <2>2 DEF IInv, BaseInv, SearchType, Sorted, EntryInv, ring, Loaded, Rank
  <2>9. (FoundIsLowerBound /\ EndOnlyOutside)'
    BY <2>1 DEF FoundIsLowerBound, EndOnlyOutside
  <2>10. QED BY <2>1, <2>7, <2>8, <2>9 DEF IInv, BaseInv
<1>3. QED BY <1>1, <1>2

(* A return of the slot m, if the elements before m are not newer and      *)
(* those from m on not older than the one searched for.                    *)
LEMMA ReturnSlot ==
  ASSUME IInv, NEW m \in Slots, Return(m),
         Rank(m) <= LoadedOccupancy,
         \A i \in Slots : Loaded(i) /\ Rank(i) < Rank(m) => timestamp[i] <= element,
         \A i \in Slots : Loaded(i) /\ Rank(i) >= Rank(m) => timestamp[i] >= element,
         (\E i \in Slots : Loaded(i) /\ timestamp[i] = element)
           => Loaded(m) /\ timestamp[m] = element
  PROVE  IInv'
<1>1. FoundIsLowerBound'
  BY DEF Return, ring, FoundIsLowerBound, Loaded, Rank, LoadedOccupancy
<1>2. EndOnlyOutside'
  BY SizeAssumption DEF Return, EndOnlyOutside, EndIndex, Slots
<1>3. QED BY <1>1, <1>2, ReturnIInv

(* A round of the binary search. *)
LEMMA BinaryStepIInv ==
  ASSUME IInv, BinaryStep
  PROVE  IInv'
<1>0. /\ pc = "search"
      /\ readIndex_ \in Slots /\ loaded_index \in Slots
      /\ start_index \in Slots /\ end_index \in Slots
      /\ element \in Int
      /\ \A i \in Slots : timestamp[i] \in Int
      /\ SearchType /\ Sorted /\ SearchInv
  BY MaxTimestampAssumption DEF IInv, BaseInv, SearchType, Timestamps, BinaryStep
<1>1. /\ Middle \in Slots
      /\ Loaded(Middle)
      /\ Rank(Middle) \in Rank(start_index) .. Rank(end_index)
      /\ start_index # end_index => Rank(Middle) > Rank(start_index)
      /\ start_index = end_index => Middle = start_index
  BY <1>0, MiddleRank
<1>2. \A i \in Slots : /\ Rank(i) \in 0 .. Size - 1
                       /\ Loaded(i) <=> Rank(i) < LoadedOccupancy
  BY <1>0, OccupancyRange, BetweenIsNearer DEF Rank, Loaded, LoadedOccupancy
<1>3. LoadedOccupancy \in 0 .. Size - 1
  BY <1>0, OccupancyRange DEF LoadedOccupancy
<1>4. \A i \in Slots : Loaded(i) => /\ Rank(i) <= Rank(Middle) => timestamp[i] <= timestamp[Middle]
                                    /\ Rank(i) >= Rank(Middle) => timestamp[i] >= timestamp[Middle]
  BY <1>0, <1>1, <1>2 DEF Sorted
<1>5. CASE element = timestamp[Middle]
  <2>1. Return(Middle)
    BY <1>5 DEF BinaryStep
  <2>2. Rank(Middle) <= LoadedOccupancy
    BY <1>1, <1>2, <1>3
  <2>3. \A i \in Slots : Loaded(i) => /\ Rank(i) < Rank(Middle) => timestamp[i] <= element
                                      /\ Rank(i) >= Rank(Middle) => timestamp[i] >= element
    BY <1>1, <1>2, <1>4, <1>5
  <2>4. QED BY <1>1, <1>5, <2>1, <2>2, <2>3, ReturnSlot
<1>6. CASE element # timestamp[Middle] /\ start_index = end_index
  <2>1. Middle = start_index /\ timestamp[Middle] < element
    BY <1>0, <1>1, <1>6 DEF SearchInv
  <2>2. Return(NextRecord(Middle))
    BY <1>0, <1>1, <1>6, <2>1 DEF BinaryStep
  <2>3. NextRecord(Middle) \in Slots /\ Rank(NextRecord(Middle)) = Rank(Middle) + 1
    <3>1. NextRecord(Middle) # readIndex_
      BY <1>0, <1>1, <1>2, <1>3, SizeAssumption DEF NextRecord, Rank, OccupancyOf, Slots
    <3>2. QED BY <1>0, <1>1, <3>1, OccupancyGrows, NextRecordSlot DEF Rank
  <2>4. Rank(NextRecord(Middle)) <= LoadedOccupancy
    BY <1>1, <1>2, <1>3, <2>3
  <2>5. \A i \in Slots : Loaded(i) /\ Rank(i) < Rank(NextRecord(Middle)) => timestamp[i] < element
    <3>1. \A i \in Slots : Rank(i) < Rank(NextRecord(Middle)) => Rank(i) <= Rank(Middle)
      BY <1>1, <1>2, <2>3
    <3>2. \A i \in Slots : timestamp[i] <= timestamp[Middle] => timestamp[i] < element
      BY <1>0, <1>1, <2>1
    <3>3. QED BY <1>4, <3>1, <3>2
  <2>6. \A i \in Slots : Loaded(i) /\ Rank(i) >= Rank(NextRecord(Middle)) => timestamp[i] > element
    BY <1>0, <1>1, <1>2, <1>6, <2>1, <2>3 DEF SearchInv
  <2>7. ~ \E i \in Slots : Loaded(i) /\ timestamp[i] = element
    BY <1>0, <1>2, <2>3, <2>5, <2>6
  <2>8. QED BY <1>0, <2>2, <2>3, <2>4, <2>5, <2>6, <2>7, ReturnSlot
<1>7. CASE element # timestamp[Middle] /\ start_index # end_index
  <2>1. Halve /\ UNCHANGED <<ring, pc, result>>
    BY <1>7 DEF BinaryStep
  <2>2. CASE element < timestamp[Middle]
    <3>1. /\ end_index' = IF Middle # 0 THEN Middle - 1 ELSE Size - 1
          /\ start_index' = start_index
      BY <2>1, <2>2 DEF Halve
    <3>2. Middle # readIndex_
      BY <1>0, <1>1, <1>2, <1>7, OccupancyRange DEF Rank
    <3>3. end_index' \in Slots /\ Rank(end_index') = Rank(Middle) - 1
      BY <1>0, <1>1, <3>1, <3>2, PredecessorRank
    <3>4. Loaded(end_index') /\ Rank(start_index) <= Rank(end_index')
      BY <1>0, <1>1, <1>2, <1>3, <1>7, <3>3
    <3>5. \A i \in Slots : Loaded(i) /\ Rank(i) > Rank(end_index') => element < timestamp[i]
      BY <1>0, <1>1, <1>2, <1>4, <2>2, <3>3
    <3>6. SearchInv'
      BY <1>0, <2>1, <3>1, <3>4, <3>5 DEF SearchInv, ring, Loaded, Rank
    <3>7. SearchType'
      BY <1>0, <2>1, <3>1, <3>3 DEF SearchType, ring
    <3>8. QED
      BY <1>0, <2>1, <3>6, <3>7
         DEF IInv, BaseInv, Sorted, EntryInv, FoundIsLowerBound, EndOnlyOutside, ring, Loaded, Rank
  <2>3. CASE ~(element < timestamp[Middle])
    <3>1. start_index' = Middle /\ end_index' = end_index /\ timestamp[Middle] <= element
      BY <1>0, <1>1, <2>1, <2>3 DEF Halve
    <3>2. SearchInv'
      BY <1>0, <1>1, <2>1, <3>1 DEF SearchInv, ring, Loaded, Rank
    <3>3. SearchType'
      BY <1>0, <1>1, <2>1, <3>1 DEF SearchType, ring
    <3>4. QED
      BY <1>0, <2>1, <3>2, <3>3
         DEF IInv, BaseInv, Sorted, EntryInv, FoundIsLowerBound, EndOnlyOutside, ring, Loaded, Rank
  <2>4. QED BY <2>2, <2>3
<1>8. QED BY <1>5, <1>6, <1>7

(* The slot of a rank. *)
LEMMA SlotOfRank ==
  ASSUME NEW r \in Slots, NEW k \in 0 .. Size - 1
  PROVE  SlotAt(r + k) \in Slots /\ OccupancyOf(SlotAt(r + k), r) = k
BY SizeAssumption DEF SlotAt, OccupancyOf, Slots

(* The slot that the lookup by division returns, in any ring. *)
LEMMA FixedRateSlot ==
  ASSUME SearchType, EntryInv, FixedRateLookup,
         NEW k, k = ElementOffset(element - timestamp[readIndex_]),
         ~(timestamp[readIndex_] > element),
         ~(element > timestamp[readIndex_] + LoadedOccupancy * Ticks)
  PROVE  /\ Return(SlotAt(readIndex_ + k))
         /\ SlotAt(readIndex_ + k) \in Slots /\ Rank(SlotAt(readIndex_ + k)) = k
         /\ k \in Nat /\ k <= LoadedOccupancy
         /\ \A n \in Nat : n < k => n * Ticks < element - timestamp[readIndex_]
         /\ \A n \in Nat : n >= k => n * Ticks >= element - timestamp[readIndex_]
<1> DEFINE diff == element - timestamp[readIndex_]
           m == SlotAt(readIndex_ + k)
<1>0. /\ readIndex_ \in Slots /\ loaded_index \in Slots
      /\ start_index = readIndex_
      /\ element \in Int /\ timestamp[readIndex_] \in Int
  BY MaxTimestampAssumption DEF SearchType, Timestamps, EntryInv, FixedRateLookup
<1>1. LoadedOccupancy \in 0 .. Size - 1 /\ Ticks \in Nat \ {0}
  BY <1>0, OccupancyRange, ElementAssumption DEF LoadedOccupancy, Ticks
<1>2. Return(m)
  BY <1>0 DEF FixedRateLookup
<1>3. LoadedOccupancy * Ticks \in Nat
  BY <1>1, SizeAssumption
<1>4. diff \in Nat /\ diff <= LoadedOccupancy * Ticks
  BY <1>0, <1>3
<1>5. /\ k \in Nat
      /\ diff <= k * Ticks
      /\ k # 0 => (k - 1) * Ticks < diff
  BY <1>4, ElementOffsetRoundsUp
<1>6. \A n \in Nat : n < k => n * Ticks < diff
  <2> SUFFICES ASSUME NEW n \in Nat, n < k PROVE n * Ticks < diff
    OBVIOUS
  <2>1. n * Ticks <= (k - 1) * Ticks
    BY <1>1, <1>5, ProductMonotonic
  <2>2. n * Ticks \in Int /\ (k - 1) * Ticks \in Int
    BY <1>1, <1>5
  <2>3. QED BY <1>4, <1>5, <2>1, <2>2
<1>7. \A n \in Nat : n >= k => n * Ticks >= diff
  <2> SUFFICES ASSUME NEW n \in Nat, n >= k PROVE n * Ticks >= diff
    OBVIOUS
  <2>1. n * Ticks >= k * Ticks
    BY <1>1, <1>5, ProductMonotonic
  <2>2. n * Ticks \in Int /\ k * Ticks \in Int
    BY <1>1, <1>5
  <2>3. QED BY <1>4, <1>5, <2>1, <2>2
<1>8. k <= LoadedOccupancy
  BY <1>1, <1>3, <1>4, <1>5, <1>6, SizeAssumption
<1>9. m \in Slots /\ Rank(m) = k
  <2>1. k \in 0 .. Size - 1
    BY <1>1, <1>5, <1>8, SizeAssumption
  <2>2. QED BY <1>0, <2>1, SlotOfRank DEF Rank
<1>10. QED BY <1>2, <1>5, <1>6, <1>7, <1>8, <1>9

(* The lookup by division, where it is of use. *)
LEMMA FixedRateIInv ==
  ASSUME IInv, FixedRateLookup
  PROVE  IInv'
<1> DEFINE front == timestamp[readIndex_]
           k == ElementOffset(element - front)
           m == SlotAt(readIndex_ + k)
           Place(i) == front + Rank(i) * Ticks
<1>0. /\ readIndex_ \in Slots /\ loaded_index \in Slots
      /\ start_index = readIndex_
      /\ element \in Int
      /\ \A i \in Slots : timestamp[i] \in Int
      /\ front \in Int
      /\ SearchType /\ EntryInv
  BY MaxTimestampAssumption DEF IInv, BaseInv, SearchType, Timestamps, EntryInv, FixedRateLookup
<1>1. \A i \in Slots : /\ Rank(i) \in 0 .. Size - 1
                       /\ Loaded(i) <=> Rank(i) < LoadedOccupancy
  BY <1>0, OccupancyRange, BetweenIsNearer DEF Rank, Loaded, LoadedOccupancy
<1>2. LoadedOccupancy \in 0 .. Size - 1 /\ Ticks \in Nat \ {0}
  BY <1>0, OccupancyRange, ElementAssumption DEF LoadedOccupancy, Ticks
<1>3. \A i \in Slots : Rank(i) \in Nat /\ Rank(i) * Ticks \in Nat /\ LoadedOccupancy * Ticks \in Nat
  BY <1>1, <1>2, SizeAssumption
<1>4. \A i \in Slots : Loaded(i) => Rank(i) * Ticks <= LoadedOccupancy * Ticks
  BY <1>1, <1>2, SizeAssumption, ProductMonotonic
<1>5. \A i \in Slots : Loaded(i) =>
        \/ timestamp[i] = Place(i)
        \/ element < timestamp[i] /\ element <= Place(i)
        \/ timestamp[i] < element /\ front + LoadedOccupancy * Ticks < element
  BY DEF IInv, FixedNearKey, FixedRateLookup
<1>6. CASE front > element
  <2>1. Return(EndIndex)
    BY <1>0, <1>6 DEF FixedRateLookup
  <2>2. \A i \in Slots : Loaded(i) => element < timestamp[i]
    BY <1>0, <1>3, <1>5, <1>6
  <2>3. (FoundIsLowerBound /\ EndOnlyOutside)'
    BY <2>1, <2>2 DEF Return, ring, FoundIsLowerBound, EndOnlyOutside, Loaded
  <2>4. QED BY <2>1, <2>3, ReturnIInv
<1>7. CASE element > front + LoadedOccupancy * Ticks
  <2>1. Return(EndIndex)
    BY <1>0, <1>7 DEF FixedRateLookup
  <2>2. \A i \in Slots : Loaded(i) => timestamp[i] < element
    BY <1>0, <1>3, <1>4, <1>5, <1>7
  <2>3. (FoundIsLowerBound /\ EndOnlyOutside)'
    BY <2>1, <2>2 DEF Return, ring, FoundIsLowerBound, EndOnlyOutside, Loaded
  <2>4. QED BY <2>1, <2>3, ReturnIInv
<1>8. CASE ~(front > element) /\ ~(element > front + LoadedOccupancy * Ticks)
  <2>1. /\ Return(m) /\ m \in Slots /\ Rank(m) = k /\ k \in Nat /\ k <= LoadedOccupancy
        /\ \A n \in Nat : n < k => n * Ticks < element - front
        /\ \A n \in Nat : n >= k => n * Ticks >= element - front
    BY <1>0, <1>8, FixedRateSlot
  <2> HIDE DEF k
  <2>2. \A i \in Slots : Loaded(i) /\ Rank(i) < k => timestamp[i] < element
    BY <1>0, <1>3, <1>5, <1>8, <2>1
  <2>3. \A i \in Slots : Loaded(i) /\ Rank(i) >= k => timestamp[i] >= element
    BY <1>0, <1>3, <1>5, <1>8, <2>1
  <2>4. ASSUME NEW i \in Slots, Loaded(i), timestamp[i] = element
        PROVE  Loaded(m) /\ timestamp[m] = element
    <3>1. Rank(i) >= k
      BY <1>0, <1>3, <2>1, <2>2, <2>4
    <3>2. Loaded(m)
      BY <1>1, <1>2, <1>3, <2>1, <2>4, <3>1
    <3>3. timestamp[m] >= element
      BY <2>1, <2>3, <3>2
    <3>4. timestamp[m] <= timestamp[i]
      BY <2>1, <2>4, <3>1, <3>2 DEF IInv, BaseInv, Sorted
    <3>5. QED BY <1>0, <2>1, <2>4, <3>2, <3>3, <3>4
  <2> HIDE DEF m
  <2>5. \A i \in Slots : Loaded(i) /\ Rank(i) < Rank(m) => timestamp[i] <= element
    BY <1>0, <2>1, <2>2
  <2>6. QED
    BY <2>1, <2>3, <2>4, <2>5, ReturnSlot
<1>9. QED BY <1>6, <1>7, <1>8

(* The invariant is inductive. *)
LEMMA NextIInv == IInv /\ [Next]_vars => IInv'
<1> SUFFICES ASSUME IInv, [Next]_vars PROVE IInv'
  OBVIOUS
<1>1. CASE UNCHANGED vars
  BY <1>1 DEF vars, ring, IInv, BaseInv, SearchType, Sorted, EntryInv, FixedNearKey, SearchInv,
     FoundIsLowerBound, EndOnlyOutside, Loaded, Rank, LoadedOccupancy
<1>2. CASE Next
  BY <1>1, <1>2, BinaryStartIInv, BinaryStepIInv, FixedRateIInv DEF Next, Done
<1>3. QED BY <1>1, <1>2

(* The inductive invariant holds in every reachable state. *)
LEMMA Invariance == Spec => []IInv
BY InitIInv, NextIInv, PTL DEF Spec

(* The indices and timestamps of a search are always of their type. *)
THEOREM SearchTypeCorrect == Spec => []TypeOK
<1>1. Init => element \in Timestamps
  BY DEF Init
<1>2. element \in Timestamps /\ [Next]_vars => (element \in Timestamps)'
  BY DEF Next, BinaryStart, BinaryStep, FixedRateLookup, Halve, Done, Return, ring, vars
<1>3. IInv /\ element \in Timestamps => TypeOK
  BY DEF IInv, BaseInv, SearchType, TypeOK
<1> QED
  BY <1>1, <1>2, <1>3, Invariance, PTL DEF Spec

(* No search reads a slot without an element. *)
THEOREM SearchSafety == Spec => []SearchReadsLiveSlots
<1>1. IInv => SearchReadsLiveSlots
  BY MiddleRank DEF IInv, BaseInv, SearchReadsLiveSlots
<1>2. QED BY <1>1, Invariance, PTL

(* Both searches return the lower bound of the element searched for, and   *)
(* give up only outside of the buffer's timestamps.                        *)
THEOREM LowerBoundCorrect == Spec => []ReturnsLowerBound
BY Invariance, PTL DEF IInv, ReturnsLowerBound

-----------------------------------------------------------------------------
(* Facts about numbers for the requests.                                   *)

(* A set that holds 0, and the successor of each of its elements below n,  *)
(* holds all numbers up to n.                                              *)
LEMMA UpTo ==
  ASSUME NEW n \in Nat, NEW S, 0 \in S,
         \A k \in 0 .. n - 1 : k \in S => k + 1 \in S
  PROVE  0 .. n \subseteq S
<1> DEFINE T == (0 .. n) \ S
           R == OpToRel(<, Nat)
<1> SUFFICES ASSUME T # {} PROVE FALSE
  OBVIOUS
<1>1. PICK m \in T : \A y \in T : <<y, m>> \notin R
  <2>1. IsWellFoundedOn(R, Nat)
    BY NatLessThanWellFounded
  <2>2. T \subseteq Nat
    OBVIOUS
  <2> HIDE DEF R, T
  <2> QED
    BY <2>1, <2>2, WFMin
<1>2. m \in 0 .. n /\ m \notin S
  OBVIOUS
<1>3. m # 0 /\ m - 1 \in 0 .. n - 1 /\ m - 1 \in 0 .. n /\ (m - 1) + 1 = m
  <2>1. m # 0
    BY <1>2
  <2> HIDE DEF T, R
  <2> QED
    BY <1>2, <2>1
<1>4. m - 1 \in S
  <2>1. m - 1 \in Nat /\ m \in Nat /\ m - 1 < m
    BY <1>3
  <2>2. <<m - 1, m>> \in R
    BY <2>1 DEF OpToRel
  <2>3. m - 1 \notin T
    <3> HIDE DEF T, R
    <3> QED
      BY <1>1, <2>2
  <2> QED
    BY <1>3, <2>3
<1> HIDE DEF T, R
<1> QED
  BY <1>2, <1>3, <1>4

LEMMA SumOfProducts ==
  ASSUME NEW a \in Int, NEW b \in Int, NEW t \in Int
  PROVE  (a + b) * t = a * t + b * t /\ t * a = a * t /\ 1 * t = t /\ 0 * t = 0
OBVIOUS

(* A number is determined modulo m by its interval. *)
LEMMA Modulo ==
  ASSUME NEW a \in Int, NEW m \in Nat \ {0}
  PROVE  /\ a % m \in 0 .. m - 1
         /\ a \in 0 .. m - 1 => a % m = a
         /\ a \in (0 - m) .. -1 => a % m = a + m
<1> DEFINE q == a \div m
           r == a % m
<1>1. q \in Int /\ r \in 0 .. m - 1 /\ a = m * q + r
  OBVIOUS
<1> HIDE DEF q, r
<1>2. m * q \in Int
  BY <1>1
<1>3. ASSUME q >= 1 PROVE m * q >= m
  BY <1>1, <1>3
<1>4. ASSUME q <= -1 PROVE m * q <= 0 - m
  BY <1>1, <1>4
<1>5. ASSUME q <= -2 PROVE m * q <= 0 - m - m
  BY <1>1, <1>5
<1>6. a \in 0 .. m - 1 => r = a
  <2> SUFFICES ASSUME a \in 0 .. m - 1 PROVE r = a
    OBVIOUS
  <2>1. ~(q >= 1) /\ ~(q <= -1)
    BY <1>1, <1>2, <1>3, <1>4
  <2>2. q = 0
    BY <1>1, <2>1
  <2>3. m * q = 0
    BY <2>2
  <2> QED
    BY <1>1, <2>3
<1>7. a \in (0 - m) .. -1 => r = a + m
  <2> SUFFICES ASSUME a \in (0 - m) .. -1 PROVE r = a + m
    OBVIOUS
  <2>1. ~(q >= 1) /\ ~(q <= -2) /\ q # 0
    <3>1. q = 0 => m * q = 0
      OBVIOUS
    <3> QED
      BY <1>1, <1>2, <1>3, <1>5, <3>1
  <2>2. q = -1
    BY <1>1, <2>1
  <2>3. m * q = 0 - m
    BY <2>2
  <2> QED
    BY <1>1, <2>3
<1> QED
  BY <1>1, <1>6, <1>7 DEF r

-----------------------------------------------------------------------------
(* The frames of an element.                                               *)

Increasing(s) == \A k \in 1 .. Len(s) - 1 : s[k] < s[k + 1]

(* The frames of an element that reach into the window. *)
WindowFramesOf(e) ==
  {f \in Range(FramesOf(e)) : f + expected_tick_difference > window.begin /\ f < window.end}

LEMMA TicksType == /\ Ticks \in Nat \ {0} /\ expected_tick_difference \in Nat \ {0}
                   /\ num_frames \in Nat \ {0} /\ Ticks = num_frames * expected_tick_difference
BY ElementAssumption DEF Ticks

LEMMA FrameFacts ==
  ASSUME NEW e \in Nat
  PROVE  /\ FramesOf(e) \in Seq(Nat) /\ Len(FramesOf(e)) = num_frames
         /\ \A k \in 1 .. num_frames :
              /\ FramesOf(e)[k] \in Nat /\ e <= FramesOf(e)[k]
              /\ FramesOf(e)[k] + expected_tick_difference <= e + Ticks
         /\ \A j, k \in 1 .. num_frames : j < k => FramesOf(e)[j] < FramesOf(e)[k]
<1> DEFINE t == expected_tick_difference
<1>0. t \in Nat \ {0} /\ num_frames \in Nat \ {0} /\ Ticks \in Nat /\ Ticks = num_frames * t
  BY TicksType
<1> HIDE DEF t
<1>1. ASSUME NEW k \in 1 .. num_frames
      PROVE  /\ FramesOf(e)[k] = e + (k - 1) * t /\ (k - 1) * t \in Nat
             /\ (k - 1) * t + t <= Ticks
  <2>1. FramesOf(e)[k] = e + (k - 1) * t
    BY DEF FramesOf, t
  <2>2. (k - 1) * t \in Nat /\ k * t = (k - 1) * t + t
    BY <1>0
  <2>3. k * t <= num_frames * t
    BY <1>0, ProductMonotonic
  <2> QED
    BY <1>0, <2>1, <2>2, <2>3
<1>2. \A k \in 1 .. num_frames :
        /\ FramesOf(e)[k] \in Nat /\ e <= FramesOf(e)[k]
        /\ FramesOf(e)[k] + t <= e + Ticks
  BY <1>0, <1>1
<1>3. FramesOf(e) \in Seq(Nat) /\ Len(FramesOf(e)) = num_frames
  <2>1. \A k \in 1 .. num_frames : e + (k - 1) * expected_tick_difference \in Nat
    BY <1>1 DEF t
  <2> QED
    BY <1>0, <2>1 DEF FramesOf
<1>4. ASSUME NEW j \in 1 .. num_frames, NEW k \in 1 .. num_frames, j < k
      PROVE  FramesOf(e)[j] < FramesOf(e)[k]
  <2>1. j \in Nat /\ k - 1 \in Nat /\ j <= k - 1
    BY <1>0, <1>4
  <2>2. j * t <= (k - 1) * t /\ j * t = (j - 1) * t + t
    BY <1>0, <2>1, ProductMonotonic
  <2> QED
    BY <1>0, <1>1, <2>2
<1> QED
  BY <1>2, <1>3, <1>4 DEF t

(* One round of the loop over the frames. *)
Selected(e, n, before) ==
  IF FrameInWindow(FramesOf(e)[n]) THEN Append(before, FramesOf(e)[n]) ELSE before

(* The loop over the frames has a result: it is built up one frame after   *)
(* the other.                                                              *)
LEMMA SelectedFramesIs ==
  ASSUME NEW e
  PROVE  \E u : /\ SelectedFrames(e) = u[num_frames] /\ u[0] = << >>
                /\ \A n \in 1 .. num_frames : u[n] = Selected(e, n, u[n - 1])
<1> DEFINE Is(u, m) == u = [n \in 0 .. m |->
                              IF n = 0 THEN << >> ELSE Selected(e, n, u[n - 1])]
           S == {m \in 0 .. num_frames : \E u : Is(u, m)}
<1>0. num_frames \in Nat
  BY TicksType
<1>1. 0 \in S
  <2>1. Is([n \in 0 .. 0 |-> << >>], 0)
    OBVIOUS
  <2>2. 0 \in 0 .. num_frames
    BY <1>0
  <2> HIDE DEF Is
  <2> QED
    BY <2>1, <2>2
<1>2. ASSUME NEW k \in 0 .. num_frames - 1, k \in S PROVE k + 1 \in S
  <2>1. PICK u : Is(u, k)
    BY <1>2
  <2> DEFINE v == [n \in 0 .. k + 1 |-> IF n = k + 1 THEN Selected(e, k + 1, u[k]) ELSE u[n]]
  <2>2. ASSUME NEW n \in 0 .. k + 1
        PROVE  v[n] = IF n = 0 THEN << >> ELSE Selected(e, n, v[n - 1])
    <3>1. CASE n = k + 1
      <4>1. n # 0 /\ n - 1 = k /\ k \in 0 .. k + 1 /\ k # k + 1
        BY <1>0, <3>1
      <4>2. v[k] = u[k] /\ v[n] = Selected(e, k + 1, u[k])
        BY <3>1, <4>1
      <4> HIDE DEF v
      <4> QED
        BY <3>1, <4>1, <4>2
    <3>2. CASE n # k + 1
      <4>1. n \in 0 .. k /\ (n # 0 => n - 1 \in 0 .. k /\ n - 1 \in 0 .. k + 1 /\ n - 1 # k + 1)
        BY <1>0, <3>2
      <4>2. u[n] = IF n = 0 THEN << >> ELSE Selected(e, n, u[n - 1])
        BY <2>1, <4>1
      <4>3. v[n] = u[n] /\ (n # 0 => v[n - 1] = u[n - 1])
        BY <3>2, <4>1
      <4> HIDE DEF v
      <4> QED
        BY <4>2, <4>3
    <3> QED
      BY <3>1, <3>2
  <2>3. v = [n \in 0 .. k + 1 |-> v[n]]
    OBVIOUS
  <2>4. Is(v, k + 1)
    <3> HIDE DEF v
    <3> QED
      BY <2>2, <2>3
  <2>5. k + 1 \in 0 .. num_frames
    BY <1>0
  <2> HIDE DEF v, Is
  <2> QED
    BY <2>4, <2>5
<1>3. \E u : Is(u, num_frames)
  <2>1. 0 .. num_frames \subseteq S
    <3> HIDE DEF S
    <3> QED
      BY <1>0, <1>1, <1>2, UpTo
  <2>2. num_frames \in S
    BY <1>0, <2>1
  <2> QED
    BY <2>2
<1> DEFINE upTo == CHOOSE u : Is(u, num_frames)
<1>4. Is(upTo, num_frames)
  BY <1>3
<1>5. SelectedFrames(e) = upTo[num_frames]
  BY DEF SelectedFrames, Selected
<1>6. 0 \in 0 .. num_frames /\ \A n \in 1 .. num_frames : n \in 0 .. num_frames /\ n # 0
  BY <1>0
<1> HIDE DEF upTo
<1>7. upTo[0] = << >> /\ \A n \in 1 .. num_frames : upTo[n] = Selected(e, n, upTo[n - 1])
  BY <1>4, <1>6
<1> QED
  BY <1>5, <1>7

(* The loop over the frames selects those in the window, in their order. *)
LEMMA SelectedFramesFacts ==
  ASSUME NEW e \in Nat
  PROVE  /\ SelectedFrames(e) \in Seq(Nat)
         /\ Increasing(SelectedFrames(e))
         /\ \A f : f \in Range(SelectedFrames(e)) <=>
                     f \in Range(FramesOf(e)) /\ FrameInWindow(f)
<1> DEFINE F == FramesOf(e)
<1>0. /\ num_frames \in Nat /\ F \in Seq(Nat) /\ Len(F) = num_frames
      /\ \A k \in 1 .. num_frames : F[k] \in Nat
      /\ \A j, k \in 1 .. num_frames : j < k => F[j] < F[k]
  BY TicksType, FrameFacts
<1>1. PICK u : /\ SelectedFrames(e) = u[num_frames] /\ u[0] = << >>
               /\ \A n \in 1 .. num_frames : u[n] = Selected(e, n, u[n - 1])
  BY SelectedFramesIs
<1> DEFINE OK(n) == /\ u[n] \in Seq(Nat) /\ Increasing(u[n])
                    /\ \A f : (\E k \in 1 .. Len(u[n]) : f = u[n][k])
                              <=> \E k \in 1 .. n : f = F[k] /\ FrameInWindow(f)
           S == {n \in 0 .. num_frames : OK(n)}
<1>2. 0 \in S
  <2>1. 0 \in 0 .. num_frames
    BY <1>0
  <2>2. u[0] \in Seq(Nat) /\ Len(u[0]) = 0
    BY <1>1
  <2>3. OK(0)
    BY <2>2 DEF Increasing
  <2> HIDE DEF OK
  <2> QED
    BY <2>1, <2>3
<1>3. ASSUME NEW k \in 0 .. num_frames - 1, k \in S PROVE k + 1 \in S
  <2>1. /\ k + 1 \in 0 .. num_frames /\ k + 1 \in 1 .. num_frames /\ (k + 1) - 1 = k
        /\ \A j \in 1 .. k : j \in 1 .. num_frames /\ j < k + 1
        /\ \A j \in 1 .. k + 1 : j \in 1 .. k \/ j = k + 1
        /\ \A j \in 1 .. k : j \in 1 .. k + 1
        /\ k + 1 \in 1 .. k + 1
    BY <1>0
  <2>2. u[k + 1] = IF FrameInWindow(F[k + 1]) THEN Append(u[k], F[k + 1]) ELSE u[k]
    BY <1>1, <2>1 DEF Selected
  <2>3. OK(k)
    BY <1>3
  <2>4. CASE ~FrameInWindow(F[k + 1])
    <3>1. u[k + 1] = u[k]
      BY <2>2, <2>4
    <3>2. \A f : (\E j \in 1 .. k : f = F[j] /\ FrameInWindow(f))
                 <=> \E j \in 1 .. k + 1 : f = F[j] /\ FrameInWindow(f)
      <4> HIDE DEF F
      <4> QED
        BY <2>1, <2>4
    <3>3. OK(k + 1)
      BY <2>3, <3>1, <3>2
    <3> HIDE DEF OK
    <3> QED
      BY <2>1, <3>3
  <2>5. CASE FrameInWindow(F[k + 1])
    <3> DEFINE s == u[k]
               x == F[k + 1]
               t == Append(s, x)
    <3>1. u[k + 1] = t /\ s \in Seq(Nat) /\ x \in Nat
      BY <1>0, <2>1, <2>2, <2>3, <2>5
    <3>2. \A j \in 1 .. Len(s) : s[j] < x
      <4> SUFFICES ASSUME NEW j \in 1 .. Len(s) PROVE s[j] < x
        OBVIOUS
      <4>1. PICK n \in 1 .. k : s[j] = F[n]
        BY <2>3
      <4> QED
        BY <1>0, <2>1, <4>1
    <3>3. Increasing(s)
      BY <2>3
    <3>4. \A f : (\E j \in 1 .. Len(s) : f = s[j]) <=> \E j \in 1 .. k : f = F[j] /\ FrameInWindow(f)
      BY <2>3
    <3> HIDE DEF s, OK
    <3>5. t \in Seq(Nat) /\ Len(t) = Len(s) + 1 /\ t[Len(s) + 1] = x
          /\ \A j \in 1 .. Len(s) : t[j] = s[j]
      BY <3>1
    <3> HIDE DEF x, t
    <3>6. Increasing(t)
      <4> SUFFICES ASSUME NEW j \in 1 .. Len(t) - 1 PROVE t[j] < t[j + 1]
        BY DEF Increasing
      <4>1. Len(s) \in Nat /\ j \in 1 .. Len(s)
        BY <3>1, <3>5
      <4>2. CASE j = Len(s)
        BY <3>2, <3>5, <4>1, <4>2
      <4>3. CASE j # Len(s)
        <5>1. j \in 1 .. Len(s) - 1 /\ j + 1 \in 1 .. Len(s)
          BY <4>1, <4>3
        <5> QED
          BY <3>3, <3>5, <4>1, <5>1 DEF Increasing
      <4> QED
        BY <4>2, <4>3
    <3>7. \A f : (\E j \in 1 .. Len(t) : f = t[j]) <=> (\E j \in 1 .. Len(s) : f = s[j]) \/ f = x
      <4>1. Len(s) \in Nat
        BY <3>1
      <4>2. \A j \in 1 .. Len(t) : j \in 1 .. Len(s) \/ j = Len(s) + 1
        BY <3>5, <4>1
      <4>3. Len(s) + 1 \in 1 .. Len(t) /\ \A j \in 1 .. Len(s) : j \in 1 .. Len(t)
        BY <3>5, <4>1
      <4> QED
        BY <3>5, <4>2, <4>3
    <3>8. \A f : (\E j \in 1 .. k + 1 : f = F[j] /\ FrameInWindow(f))
                 <=> (\E j \in 1 .. k : f = F[j] /\ FrameInWindow(f)) \/ f = x
      <4> HIDE DEF F
      <4> QED
        BY <2>1, <2>5 DEF x
    <3>9. \A f : (\E j \in 1 .. Len(t) : f = t[j])
                 <=> \E j \in 1 .. k + 1 : f = F[j] /\ FrameInWindow(f)
      BY <3>4, <3>7, <3>8
    <3>10. OK(k + 1)
      BY <3>1, <3>5, <3>6, <3>9 DEF OK
    <3> QED
      BY <2>1, <3>10
  <2> QED
    BY <2>4, <2>5
<1>4. OK(num_frames)
  <2>1. 0 .. num_frames \subseteq S
    <3> HIDE DEF S
    <3> QED
      BY <1>0, <1>2, <1>3, UpTo
  <2>2. num_frames \in 0 .. num_frames
    BY <1>0
  <2> HIDE DEF OK
  <2> QED
    BY <2>1, <2>2
<1>5. ASSUME NEW s \in Seq(Nat) PROVE \A f : f \in Range(s) <=> \E k \in 1 .. Len(s) : f = s[k]
  <2>1. DOMAIN s = 1 .. Len(s)
    OBVIOUS
  <2> QED
    BY <2>1 DEF Range
<1>6. \A f : f \in Range(F) <=> \E k \in 1 .. num_frames : f = F[k]
  BY <1>0, <1>5
<1> QED
  BY <1>1, <1>4, <1>5, <1>6

LEMMA RangeOf == ASSUME NEW T, NEW s \in Seq(T)
                 PROVE  \A f : f \in Range(s) <=> \E k \in 1 .. Len(s) : f = s[k]
<1>1. DOMAIN s = 1 .. Len(s)
  OBVIOUS
<1> QED
  BY <1>1 DEF Range

WindowType == window \in [begin : 0 .. MaxWindow, end : 0 .. MaxWindow]

(* The begin of the window, moved back: it wraps below zero. *)
LEMMA WrappedBegin ==
  ASSUME WindowType, NEW d \in Nat, d <= Modulus
  PROVE  /\ (window.begin - d) % Modulus \in Nat
         /\ window.begin >= d => (window.begin - d) % Modulus = window.begin - d
         /\ window.begin < d => (window.begin - d) % Modulus = window.begin - d + Modulus
<1> DEFINE b == window.begin
<1>0. b \in 0 .. MaxWindow
  BY DEF WindowType
<1> HIDE DEF b
<1>1. b \in Nat /\ b < Modulus /\ Modulus \in Nat \ {0}
  <2>1. MaxWindow \in Nat /\ Modulus \in Nat /\ Modulus > MaxWindow
    BY FragmentAssumption
  <2> QED
    BY <1>0, <2>1
<1>2. /\ b - d \in Int /\ (b >= d => b - d \in 0 .. Modulus - 1)
      /\ (b < d => b - d \in (0 - Modulus) .. -1)
  BY <1>1
<1>3. /\ (b - d) % Modulus \in 0 .. Modulus - 1
      /\ b - d \in 0 .. Modulus - 1 => (b - d) % Modulus = b - d
      /\ b - d \in (0 - Modulus) .. -1 => (b - d) % Modulus = b - d + Modulus
  BY <1>1, <1>2, Modulo
<1>4. (b - d) % Modulus \in Nat
  BY <1>3
<1> QED
  BY <1>2, <1>3, <1>4 DEF b

LEMMA ModulusBounds == /\ Ticks <= Modulus /\ expected_tick_difference <= Modulus
                       /\ Modulus \in Nat /\ expected_tick_difference <= Ticks
                       /\ Modulus > MaxTimestamp + Ticks + Ticks
<1>1. /\ Modulus \in Nat /\ MaxTimestamp \in Nat /\ Ticks \in Nat
      /\ Modulus > MaxTimestamp + 2 * Ticks
      /\ num_frames \in Nat \ {0} /\ expected_tick_difference \in Nat
      /\ Ticks = num_frames * expected_tick_difference
  BY FragmentAssumption, MaxTimestampAssumption, TicksType
<1>2. 1 * expected_tick_difference <= num_frames * expected_tick_difference
  BY <1>1, ProductMonotonic
<1>3. expected_tick_difference <= Ticks
  BY <1>1, <1>2
<1> HIDE DEF Ticks
<1>4. 2 * Ticks = Ticks + Ticks
  BY <1>1
<1> QED
  BY <1>1, <1>3, <1>4

(* A selected frame reaches into the window; and where the begin of the    *)
(* window does not wrap, all that do are selected.                         *)
LEMMA FrameInWindowFacts ==
  ASSUME WindowType, NEW f \in Nat
  PROVE  /\ FrameInWindow(f) =>
              f + expected_tick_difference > window.begin /\ f < window.end
         /\ window.begin >= Ticks /\ f + expected_tick_difference > window.begin /\ f < window.end
              => FrameInWindow(f)
<1> DEFINE d == expected_tick_difference
           w == (window.begin - d) % Modulus
<1>1. /\ d \in Nat /\ d <= Modulus /\ d <= Ticks /\ Modulus \in Nat /\ Ticks \in Nat
      /\ window.begin \in Nat /\ window.end \in Nat
  BY ModulusBounds, TicksType DEF WindowType
<1>2. /\ w \in Nat
      /\ window.begin >= d => w = window.begin - d
      /\ window.begin < d => w = window.begin - d + Modulus
  BY <1>1, WrappedBegin
<1>3. FrameInWindow(f) <=> f > w /\ f < window.end
  BY DEF FrameInWindow
<1> HIDE DEF w, d
<1> QED
  BY <1>1, <1>2, <1>3 DEF d

(* What an element before the end of the window contributes: frames in the *)
(* window, in their order, and all of them.                                *)
LEMMA PiecesFacts ==
  ASSUME WindowType, NEW e \in Nat, e < window.end
  PROVE  /\ PiecesOf(e) \in Seq(Nat)
         /\ Increasing(PiecesOf(e))
         /\ Range(PiecesOf(e)) \subseteq WindowFramesOf(e)
         /\ window.begin >= Ticks => WindowFramesOf(e) \subseteq Range(PiecesOf(e))
<1> DEFINE d == expected_tick_difference
<1>0. /\ window.begin \in Nat /\ window.end \in Nat /\ d \in Nat \ {0}
      /\ Ticks \in Nat /\ num_frames \in Nat \ {0} /\ Ticks = num_frames * d
  BY TicksType DEF WindowType
<1>1. /\ FramesOf(e) \in Seq(Nat) /\ Len(FramesOf(e)) = num_frames
      /\ \A k \in 1 .. num_frames :
           /\ FramesOf(e)[k] \in Nat /\ e <= FramesOf(e)[k]
           /\ FramesOf(e)[k] + d <= e + Ticks
      /\ \A j, k \in 1 .. num_frames : j < k => FramesOf(e)[j] < FramesOf(e)[k]
  BY FrameFacts
<1>2. \A f \in Range(FramesOf(e)) : f \in Nat /\ e <= f /\ f + d <= e + Ticks
  BY <1>1, RangeOf
<1>3. CASE e + Ticks <= window.begin
  <2>1. PiecesOf(e) = << >>
    BY <1>3 DEF PiecesOf
  <2>2. WindowFramesOf(e) = {}
    <3> SUFFICES ASSUME NEW f \in Range(FramesOf(e)), f + d > window.begin PROVE FALSE
      BY DEF WindowFramesOf
    <3> HIDE DEF d
    <3> QED
      BY <1>0, <1>2, <1>3
  <2>3. /\ << >> \in Seq(Nat) /\ Len(<< >>) = 0 /\ Increasing(<< >>)
    BY DEF Increasing
  <2>4. Range(<< >>) = {}
    <3> DEFINE none == << >>
    <3>1. none \in Seq(Nat) /\ Len(none) = 0
      BY <2>3
    <3> HIDE DEF none
    <3>2. Range(none) = {}
      <4>1. \A f : f \in Range(none) <=> \E k \in 1 .. Len(none) : f = none[k]
        BY <3>1, RangeOf
      <4>2. 1 .. Len(none) = {}
        BY <3>1
      <4> QED
        BY <4>1, <4>2
    <3> QED
      BY <3>2 DEF none
  <2> QED
    BY <2>1, <2>2, <2>3, <2>4
<1>4. CASE /\ ~(e + Ticks <= window.begin)
           /\ num_frames > 1 /\ (e < window.begin \/ e + Ticks > window.end)
  <2>1. PiecesOf(e) = SelectedFrames(e)
    BY <1>4 DEF PiecesOf
  <2>2. /\ SelectedFrames(e) \in Seq(Nat)
        /\ Increasing(SelectedFrames(e))
        /\ \A f : f \in Range(SelectedFrames(e)) <=>
                    f \in Range(FramesOf(e)) /\ FrameInWindow(f)
    BY SelectedFramesFacts
  <2>3. \A f \in Range(FramesOf(e)) :
          /\ FrameInWindow(f) => f + d > window.begin /\ f < window.end
          /\ window.begin >= Ticks /\ f + d > window.begin /\ f < window.end => FrameInWindow(f)
    BY <1>2, FrameInWindowFacts
  <2> QED
    BY <2>1, <2>2, <2>3 DEF WindowFramesOf
<1>5. CASE /\ ~(e + Ticks <= window.begin)
           /\ ~(num_frames > 1 /\ (e < window.begin \/ e + Ticks > window.end))
  <2>1. PiecesOf(e) = FramesOf(e)
    BY <1>5 DEF PiecesOf
  <2>2. Increasing(FramesOf(e))
    BY <1>0, <1>1 DEF Increasing
  <2>3. \A f \in Range(FramesOf(e)) : f + d > window.begin /\ f < window.end
    <3> SUFFICES ASSUME NEW f \in Range(FramesOf(e))
                 PROVE  f + d > window.begin /\ f < window.end
      OBVIOUS
    <3>1. f \in Nat /\ e <= f /\ f + d <= e + Ticks
      BY <1>2
    <3>2. CASE num_frames > 1
      <4>1. ~(e < window.begin) /\ ~(e + Ticks > window.end)
        BY <1>5, <3>2
      <4> HIDE DEF d
      <4> QED
        BY <1>0, <3>1, <4>1
    <3>3. CASE ~(num_frames > 1)
      <4>1. num_frames = 1 /\ num_frames * d = d
        <5>1. num_frames = 1
          BY <1>0, <3>3
        <5> QED
          BY <1>0, <5>1
      <4>2. Ticks = d
        BY <1>0, <4>1
      <4> HIDE DEF d
      <4> QED
        BY <1>0, <1>5, <3>1, <4>2
    <3> QED
      BY <3>2, <3>3
  <2> QED
    BY <1>1, <2>1, <2>2, <2>3 DEF WindowFramesOf
<1> QED
  BY <1>3, <1>4, <1>5

-----------------------------------------------------------------------------
(* What the consumer and a cleanup do to the ring.                         *)

TypeInv == SearchType /\ writeIndex_ \in Slots

LEMMA RingFacts ==
  ASSUME TypeInv
  PROVE  /\ Occupancy \in 0 .. Size - 1
         /\ Occupancy = 0 <=> writeIndex_ = readIndex_
         /\ \A i \in Slots : /\ Rank(i) \in 0 .. Size - 1 /\ (Live(i) <=> Rank(i) < Occupancy)
                             /\ timestamp[i] \in 0 .. MaxTimestamp
BY OccupancyRange, BetweenIsNearer DEF TypeInv, SearchType, Rank, Live, Occupancy, Timestamps

(* A payload is written behind all others. *)
LEMMA WriteRing ==
  ASSUME TypeInv, NEW ts, Occupancy < Size - 1,
         timestamp' = [timestamp EXCEPT ![writeIndex_] = ts],
         writeIndex_' = NextRecord(writeIndex_), readIndex_' = readIndex_
  PROVE  /\ writeIndex_' \in Slots /\ Occupancy' = Occupancy + 1
         /\ Rank(writeIndex_) = Occupancy /\ ~Live(writeIndex_)
         /\ timestamp'[writeIndex_] = ts
         /\ \A i \in Slots : /\ Rank(i)' = Rank(i)
                             /\ Live(i)' <=> Live(i) \/ i = writeIndex_
                             /\ Live(i) => timestamp'[i] = timestamp[i]
<1>0. readIndex_ \in Slots /\ writeIndex_ \in Slots /\ timestamp \in [Slots -> Timestamps]
  BY DEF TypeInv, SearchType
<1>1. NextRecord(writeIndex_) \in Slots /\ NextRecord(writeIndex_) # readIndex_
  BY <1>0, SizeAssumption DEF NextRecord, Slots, Occupancy, OccupancyOf
<1>2. Occupancy' = Occupancy + 1
  BY <1>0, <1>1, OccupancyGrows DEF Occupancy
<1>3. Rank(writeIndex_) = Occupancy
  BY DEF Rank, Occupancy
<1>4. \A i \in Slots : Rank(i)' = Rank(i)
  BY DEF Rank
<1>5. Occupancy \in 0 .. Size - 1 /\ \A i \in Slots : Rank(i) \in 0 .. Size - 1 /\ (Live(i) <=> Rank(i) < Occupancy)
  BY RingFacts
<1>6. \A i \in Slots : Live(i)' <=> Rank(i) < Occupancy + 1
  <2>1. \A i \in Slots : Live(i)' <=> OccupancyOf(i, readIndex_) < OccupancyOf(writeIndex_', readIndex_)
    BY <1>0, <1>1, BetweenIsNearer DEF Live
  <2> QED
    BY <1>2, <2>1 DEF Rank, Occupancy
<1>7. \A i \in Slots : Rank(i) = Occupancy => i = writeIndex_
  BY <1>0, <1>3, OccupancyInjective DEF Rank, Occupancy
<1>8. \A i \in Slots : Live(i)' <=> Live(i) \/ i = writeIndex_
  BY <1>3, <1>5, <1>6, <1>7
<1>9. ~Live(writeIndex_)
  BY <1>0, <1>3, <1>5
<1>10. timestamp'[writeIndex_] = ts /\ \A i \in Slots : Live(i) => timestamp'[i] = timestamp[i]
  BY <1>0, <1>9
<1> QED
  BY <1>1, <1>2, <1>3, <1>4, <1>8, <1>9, <1>10

(* Distances from a slot before, and from one further on. *)
LEMMA Distances ==
  ASSUME NEW r \in Slots, NEW q \in Slots, NEW i \in Slots, NEW n \in 0 .. Size - 1,
         OccupancyOf(i, q) < n - OccupancyOf(q, r)
  PROVE  OccupancyOf(i, r) = OccupancyOf(i, q) + OccupancyOf(q, r) /\ OccupancyOf(i, q) \in Nat
BY SizeAssumption DEF OccupancyOf, Slots

(* The first elements are removed, and the others keep their order. *)
LEMMA CleanupRing ==
  ASSUME TypeInv, NEW popped \in 1 .. Occupancy - 1,
         readIndex_' = SlotAt(readIndex_ + popped), writeIndex_' = writeIndex_,
         timestamp' = [j \in Slots |->
                         IF Between(j, readIndex_', writeIndex_) THEN timestamp[j] ELSE 0]
  PROVE  /\ readIndex_' \in Slots /\ Occupancy' = Occupancy - popped
         /\ timestamp' \in [Slots -> Timestamps]
         /\ \A i \in Slots : Live(i)' => /\ Live(i) /\ Rank(i) >= popped
                                         /\ Rank(i)' = Rank(i) - popped
                                         /\ timestamp'[i] = timestamp[i]
<1>0. readIndex_ \in Slots /\ writeIndex_ \in Slots /\ timestamp \in [Slots -> Timestamps]
      /\ Occupancy \in 0 .. Size - 1 /\ popped \in 0 .. Size - 1
  BY RingFacts, SizeAssumption DEF TypeInv, SearchType
<1>1. readIndex_' \in Slots /\ OccupancyOf(readIndex_', readIndex_) = popped
  BY <1>0, SlotOfRank
<1>2. Occupancy' = Occupancy - popped
  BY <1>0, <1>1, SizeAssumption DEF Occupancy, OccupancyOf, Slots
<1>3. timestamp' \in [Slots -> Timestamps]
  BY <1>0, MaxTimestampAssumption DEF Timestamps
<1>4. ASSUME NEW i \in Slots, Live(i)'
      PROVE  /\ Live(i) /\ Rank(i) >= popped
             /\ Rank(i)' = Rank(i) - popped
             /\ timestamp'[i] = timestamp[i]
  <2>1. Between(i, readIndex_', writeIndex_)
    BY <1>4 DEF Live
  <2>2. timestamp'[i] = timestamp[i]
    BY <2>1
  <2>3. OccupancyOf(i, readIndex_') < Occupancy - popped
    <3>1. OccupancyOf(i, readIndex_') < OccupancyOf(writeIndex_, readIndex_')
      BY <1>0, <1>1, <2>1, BetweenIsNearer
    <3> QED
      BY <1>2, <3>1 DEF Occupancy
  <2>4. /\ OccupancyOf(i, readIndex_) = OccupancyOf(i, readIndex_') + popped
        /\ OccupancyOf(i, readIndex_') \in Nat
    BY <1>0, <1>1, <2>3, Distances
  <2>5. Rank(i)' = Rank(i) - popped /\ Rank(i) >= popped /\ Rank(i) < Occupancy
    BY <1>0, <2>3, <2>4 DEF Rank
  <2> QED
    BY <2>2, <2>5, RingFacts
<1> QED
  BY <1>1, <1>2, <1>3, <1>4

-----------------------------------------------------------------------------
(* The ring and the request, whatever mishaps there are.                   *)

AnswerType ==
  /\ incoming \in Timestamps /\ ipc \in {"idle", "registering", "writing"}
  /\ WindowType
  /\ rpc \in {"requested", "check", "search", "walk", "respond", "done"}
  /\ newest_ts \in Nat /\ last_ts \in Nat
  /\ start_iter \in Slots \cup {EndIndex}
  /\ frag_pieces \in Seq(Nat)

(* Elements are at least as far apart as without gaps. *)
Spaced ==
  \A i, j \in Slots :
    Live(i) /\ Live(j) /\ Rank(i) <= Rank(j) =>
      timestamp[i] + (Rank(j) - Rank(i)) * Ticks <= timestamp[j]

(* What comes in is behind all that is there. *)
InputInv ==
  \A i \in Slots : Live(i) =>
    /\ timestamp[i] <= incoming
    /\ ipc # "idle" => timestamp[i] + Ticks <= incoming

(* A search is one of the request, in a ring that is not empty. *)
CallInv ==
  /\ pc # "idle" => rpc = "search"
  /\ rpc \in {"check", "search", "walk"} => readIndex_ # writeIndex_

LEMMA SpacedMeansLater ==
  \A a, b, n \in Nat : a + n * Ticks <= b => a <= b
<1> SUFFICES ASSUME NEW a \in Nat, NEW b \in Nat, NEW n \in Nat, a + n * Ticks <= b
             PROVE  a <= b
  OBVIOUS
<1>1. n * Ticks \in Nat
  BY TicksType
<1> QED
  BY <1>1

(* The elements that a search has loaded are in the ring, and there are    *)
(* some.                                                                   *)
LoadedLive == loaded_index # readIndex_ /\ Rank(loaded_index) <= Occupancy

(* A search goes on in the part of the ring it has loaded. *)
Searching == BaseInv /\ LoadedLive

RingInv ==
  /\ TypeInv /\ AnswerType /\ Spaced /\ InputInv /\ CallInv
  /\ pc # "idle" => Searching

LEMMA LoadedFacts ==
  ASSUME TypeInv, LoadedLive
  PROVE  /\ readIndex_ \in Slots /\ Live(readIndex_)
         /\ LoadedOccupancy \in 1 .. Occupancy
         /\ \A i \in Slots : /\ Loaded(i) <=> Rank(i) < LoadedOccupancy
                             /\ Loaded(i) => Live(i)
<1>1. readIndex_ \in Slots /\ loaded_index \in Slots
  BY DEF TypeInv, SearchType
<1>2. \A i \in Slots : Loaded(i) <=> Rank(i) < LoadedOccupancy
  BY <1>1, BetweenIsNearer DEF Loaded, Rank, LoadedOccupancy
<1>3. LoadedOccupancy \in 0 .. Size - 1 /\ LoadedOccupancy # 0
  BY <1>1, OccupancyRange DEF LoadedLive, LoadedOccupancy
<1>4. LoadedOccupancy <= Occupancy
  BY DEF LoadedLive, LoadedOccupancy, Rank
<1>5. /\ Occupancy \in 0 .. Size - 1
      /\ \A i \in Slots : Rank(i) \in 0 .. Size - 1 /\ (Live(i) <=> Rank(i) < Occupancy)
  BY RingFacts
<1>6. Rank(readIndex_) = 0
  BY <1>1, OccupancyRange DEF Rank
<1> HIDE DEF Rank, Occupancy, LoadedOccupancy, Loaded, Live
<1>7. LoadedOccupancy \in 1 .. Occupancy /\ 0 < Occupancy
  BY <1>3, <1>4, <1>5, SizeAssumption
<1>8. \A i \in Slots : Loaded(i) => Live(i)
  BY <1>2, <1>5, <1>7, SizeAssumption
<1> QED
  BY <1>1, <1>2, <1>5, <1>6, <1>7, <1>8

(* The elements in the ring are in the order of their timestamps. *)
LEMMA LiveSorted ==
  ASSUME TypeInv, Spaced, NEW i \in Slots, NEW j \in Slots, Live(i), Live(j),
         Rank(i) <= Rank(j)
  PROVE  timestamp[i] <= timestamp[j]
<1>1. timestamp[i] + (Rank(j) - Rank(i)) * Ticks <= timestamp[j]
  BY DEF Spaced
<1>2. Rank(j) - Rank(i) \in Nat /\ timestamp[i] \in Nat /\ timestamp[j] \in Nat
  BY RingFacts
<1> QED
  BY <1>1, <1>2, SpacedMeansLater

(* What is published behind the part that a search has loaded does not     *)
(* disturb the search.                                                     *)
LEMMA SearchStays ==
  ASSUME TypeInv, TypeInv', Searching,
         UNCHANGED <<readIndex_, loaded_index, element, pc, start_index, end_index, result>>,
         \A i \in Slots : Live(i) => timestamp'[i] = timestamp[i],
         Occupancy <= Occupancy'
  PROVE  Searching' /\ (IInv => IInv')
<1>1. /\ readIndex_ \in Slots /\ timestamp'[readIndex_] = timestamp[readIndex_]
      /\ \A i \in Slots : Loaded(i) => timestamp'[i] = timestamp[i]
  BY LoadedFacts DEF Searching
<1>2. /\ LoadedOccupancy' = LoadedOccupancy /\ Ticks' = Ticks
      /\ \A i : Rank(i)' = Rank(i) /\ (Loaded(i)' <=> Loaded(i))
  BY DEF LoadedOccupancy, Loaded, Rank, Ticks
<1>3. LoadedLive'
  <2>1. Rank(loaded_index)' = Rank(loaded_index) /\ Rank(loaded_index) <= Occupancy
    BY DEF Rank, Searching, LoadedLive
  <2>2. Rank(loaded_index) \in Int /\ Occupancy \in Int /\ Occupancy' \in Int
    <3>1. loaded_index \in Slots /\ readIndex_ \in Slots /\ writeIndex_ \in Slots
          /\ readIndex_' \in Slots /\ writeIndex_' \in Slots
      BY DEF TypeInv, SearchType
    <3> QED
      BY <3>1, OccupancyRange, SizeAssumption DEF Rank, Occupancy
  <2> DEFINE r == Rank(loaded_index)
             o == Occupancy
             o2 == Occupancy'
  <2>3. r <= o2
    <3>1. r \in Int /\ o \in Int /\ o2 \in Int /\ r <= o /\ o <= o2
      BY <2>1, <2>2
    <3> HIDE DEF r, o, o2
    <3> QED
      BY <3>1
  <2> QED
    BY <2>1, <2>3 DEF LoadedLive, Searching
<1>4. Sorted'
  BY <1>1, <1>2 DEF Searching, BaseInv, Sorted
<1>5. EntryInv'
  BY DEF Searching, BaseInv, EntryInv
<1>6. SearchInv'
  BY <1>1, <1>2 DEF Searching, BaseInv, SearchInv, SearchType
<1>7. BaseInv'
  BY <1>4, <1>5, <1>6 DEF BaseInv, TypeInv
<1>8. ASSUME IInv PROVE IInv'
  <2>1. pc' = "fixed" => FixedNearKey'
    BY <1>1, <1>2, <1>8 DEF IInv, FixedNearKey
  <2>2. FoundIsLowerBound'
    <3> SUFFICES ASSUME pc = "done", result # EndIndex
                 PROVE  /\ Rank(result) <= LoadedOccupancy
                        /\ \A i \in Slots :
                             Loaded(i) => /\ Rank(i) < Rank(result) => timestamp'[i] <= element
                                          /\ Rank(i) >= Rank(result) => timestamp'[i] >= element
                        /\ (\E i \in Slots : Loaded(i) /\ timestamp'[i] = element)
                             => Loaded(result) /\ timestamp'[result] = element
      BY <1>2 DEF FoundIsLowerBound, Rank
    <3>1. result \in Slots
      BY DEF TypeInv, SearchType
    <3> QED
      BY <1>1, <1>8, <3>1 DEF IInv, FoundIsLowerBound
  <2>3. EndOnlyOutside'
    BY <1>1, <1>2, <1>8 DEF IInv, EndOnlyOutside
  <2> QED
    BY <1>7, <2>1, <2>2, <2>3 DEF IInv
<1> QED
  BY <1>3, <1>7, <1>8 DEF Searching

LEMMA ReturnBase ==
  ASSUME BaseInv, NEW i \in Slots \cup {EndIndex}, Return(i)
  PROVE  BaseInv'
BY DEF BaseInv, Return, ring, SearchType, Sorted, EntryInv, SearchInv, Loaded, Rank

LEMMA SearchStepBase ==
  ASSUME BaseInv, BinaryStart \/ BinaryStep \/ FixedRateLookup
  PROVE  BaseInv' /\ pc # "idle"
<1>1. CASE BinaryStart \/ BinaryStep
  <2>1. pc \in {"binary", "search"}
    BY <1>1 DEF BinaryStart, BinaryStep
  <2>2. IInv
    BY <2>1 DEF IInv, FoundIsLowerBound, EndOnlyOutside
  <2>3. IInv'
    BY <1>1, <2>2, BinaryStartIInv, BinaryStepIInv
  <2> QED
    BY <2>1, <2>3 DEF IInv
<1>2. CASE FixedRateLookup
  <2>0. SearchType /\ EntryInv /\ pc = "fixed"
    BY <1>2 DEF BaseInv, FixedRateLookup
  <2>1. CASE \/ timestamp[readIndex_] > element
             \/ element > timestamp[readIndex_] + LoadedOccupancy * Ticks
    <3>1. Return(EndIndex)
      BY <1>2, <2>0, <2>1 DEF FixedRateLookup, EntryInv
    <3> QED
      BY <2>0, <3>1, ReturnBase
  <2>2. CASE /\ ~(timestamp[readIndex_] > element)
             /\ ~(element > timestamp[readIndex_] + LoadedOccupancy * Ticks)
    <3> DEFINE m == SlotAt(readIndex_ + ElementOffset(element - timestamp[readIndex_]))
    <3>1. Return(m) /\ m \in Slots
      BY <1>2, <2>0, <2>2, FixedRateSlot
    <3> HIDE DEF m
    <3> QED
      BY <2>0, <3>1, ReturnBase
  <2> QED
    BY <2>1, <2>2
<1> QED
  BY <1>1, <1>2

LEMMA InitRingInv == RequestInit => RingInv
<1> SUFFICES ASSUME RequestInit PROVE RingInv
  OBVIOUS
<1>1. readIndex_ \in Slots /\ writeIndex_ \in Slots
  BY NextRecordSlot DEF RequestInit
<1>2. PICK ts \in 0 .. MaxFront : timestamp = [i \in Slots |-> IF Live(i) THEN ts ELSE 0]
  BY DEF RequestInit
<1>3. ts \in Timestamps /\ ts \in Nat /\ 0 \in Timestamps
  <2>1. MaxFront \in Timestamps /\ MaxTimestamp \in Nat
    BY FragmentAssumption, MaxTimestampAssumption
  <2> QED
    BY <2>1 DEF Timestamps
<1>4. 0 \in Slots
  BY SizeAssumption DEF Slots
<1>5. TypeInv
  BY <1>1, <1>2, <1>3, <1>4 DEF RequestInit, TypeInv, SearchType
<1>6. \A i \in Slots : Live(i) => i = readIndex_
  <2> SUFFICES ASSUME NEW i \in Slots, Live(i) PROVE i = readIndex_
    OBVIOUS
  <2>1. writeIndex_ \in {readIndex_, NextRecord(readIndex_)}
    BY DEF RequestInit
  <2> QED
    BY <1>1, <2>1, SizeAssumption DEF Live, Between, NextRecord, Slots
<1>7. Spaced
  <2> SUFFICES ASSUME NEW i \in Slots, NEW j \in Slots, Live(i), Live(j)
               PROVE  timestamp[i] + (Rank(j) - Rank(i)) * Ticks <= timestamp[j]
    BY DEF Spaced
  <2>1. i = j /\ timestamp[i] = ts
    BY <1>2, <1>6
  <2>2. Rank(j) - Rank(i) = 0
    BY <1>5, <2>1, RingFacts
  <2>3. 0 * Ticks = 0
    BY TicksType
  <2> QED
    BY <1>3, <2>1, <2>2, <2>3
<1>8. InputInv
  <2> SUFFICES ASSUME NEW i \in Slots, Live(i) PROVE timestamp[i] <= incoming /\ ipc = "idle"
    BY DEF InputInv
  <2>1. i = readIndex_ /\ timestamp[i] = ts /\ ipc = "idle" /\ incoming = timestamp[readIndex_]
    BY <1>2, <1>6 DEF RequestInit, FrontTimestamp
  <2> QED
    BY <1>3, <2>1
<1>9. AnswerType
  <2>1. incoming \in Timestamps
    BY <1>1, <1>2, <1>3 DEF RequestInit, FrontTimestamp
  <2>2. WindowType
    BY DEF RequestInit, WindowType
  <2> QED
    BY <2>1, <2>2 DEF RequestInit, AnswerType
<1> QED
  BY <1>5, <1>7, <1>8, <1>9 DEF RequestInit, RingInv, CallInv

(* Payloads come in and are written. *)
LEMMA InputRingInv ==
  ASSUME RingInv, Preprocess \/ RegisterGap \/ Write
  PROVE  RingInv'
<1>0. TypeInv /\ Spaced /\ InputInv /\ AnswerType /\ CallInv
  BY DEF RingInv
<1>1. incoming \in Nat /\ \A i \in Slots : timestamp[i] \in Nat
  BY <1>0, RingFacts DEF AnswerType, Timestamps
<1>u. ASSUME UNCHANGED <<timestamp, readIndex_, writeIndex_, loaded_index, element, pc,
                         start_index, end_index, result, rpc>>
      PROVE  TypeInv' /\ Spaced' /\ CallInv' /\ (pc' # "idle" => Searching')
  <2>1. TypeInv' /\ Spaced' /\ CallInv'
    BY <1>0, <1>u DEF TypeInv, SearchType, Spaced, CallInv, Live, Rank
  <2>2. Occupancy \in Int /\ Occupancy' = Occupancy
    BY <1>0, <1>u, RingFacts, SizeAssumption DEF Occupancy
  <2>3. Occupancy <= Occupancy'
    BY <2>2
  <2> QED
    BY <1>0, <1>u, <2>1, <2>3, SearchStays DEF RingInv
<1>2. CASE Preprocess
  <2>1. PICK skipped \in 0 .. MaxSkipped :
          /\ incoming' = incoming + (1 + skipped) * Ticks
          /\ incoming' \in Timestamps
    BY <1>2 DEF Preprocess
  <2>2. ipc' \in {"registering", "writing"} /\ UNCHANGED <<vars, writeIndex_, answerVars>>
    BY <1>2 DEF Preprocess
  <2>3. incoming' \in Nat /\ incoming' \in Timestamps /\ incoming' >= incoming + Ticks
    <3>0. MaxSkipped \in Nat
      BY FragmentAssumption
    <3>1. 1 + skipped \in Nat /\ 1 <= 1 + skipped /\ Ticks \in Nat /\ incoming \in Nat
      BY <1>1, <3>0, TicksType
    <3>2. 1 * Ticks <= (1 + skipped) * Ticks /\ 1 * Ticks = Ticks
      BY <3>1, ProductMonotonic
    <3>3. (1 + skipped) * Ticks \in Int
      BY <3>1
    <3>4. incoming + Ticks <= incoming + (1 + skipped) * Ticks
      BY <3>1, <3>2, <3>3
    <3> QED
      BY <2>1, <3>4 DEF Timestamps
  <2>4. InputInv'
    <3>1. \A i \in Slots : timestamp[i] <= incoming => timestamp[i] <= incoming' /\ timestamp[i] + Ticks <= incoming'
      BY <1>1, <2>3, TicksType
    <3> QED
      BY <1>0, <2>2, <3>1 DEF InputInv, vars, ring, Live
  <2>5. AnswerType'
    BY <1>0, <2>2, <2>3 DEF AnswerType, WindowType, answerVars
  <2>6. TypeInv' /\ Spaced' /\ CallInv' /\ (pc' # "idle" => Searching')
    BY <1>u, <2>2 DEF vars, ring, answerVars
  <2> QED
    BY <2>4, <2>5, <2>6 DEF RingInv
<1>3. CASE RegisterGap
  <2>1. /\ ipc = "registering" /\ ipc' = "writing"
        /\ UNCHANGED <<vars, writeIndex_, incoming, answerVars>>
    BY <1>3 DEF RegisterGap
  <2>2. InputInv' /\ AnswerType'
    BY <1>0, <2>1 DEF InputInv, AnswerType, WindowType, Live, vars, ring, answerVars
  <2>3. TypeInv' /\ Spaced' /\ CallInv' /\ (pc' # "idle" => Searching')
    BY <1>u, <2>1 DEF vars, ring, answerVars
  <2> QED
    BY <2>2, <2>3 DEF RingInv
<1>4. CASE Write
  <2>1. /\ ipc = "writing" /\ ipc' = "idle"
        /\ UNCHANGED <<readIndex_, loaded_index, element, pc, start_index, end_index, result,
                       incoming, answerVars>>
    BY <1>4 DEF Write
  <2>2. AnswerType'
    BY <1>0, <2>1 DEF AnswerType, WindowType, answerVars
  <2>3. CASE ~(Occupancy < Size - 1)
    <3>1. UNCHANGED <<timestamp, writeIndex_>>
      BY <1>4, <2>3 DEF Write
    <3>2. InputInv'
      BY <1>0, <2>1, <3>1 DEF InputInv, Live
    <3>3. TypeInv' /\ Spaced' /\ CallInv' /\ (pc' # "idle" => Searching')
      BY <1>u, <2>1, <3>1 DEF answerVars
    <3> QED
      BY <2>2, <3>2, <3>3 DEF RingInv
  <2>4. CASE Occupancy < Size - 1
    <3>1. /\ timestamp' = [timestamp EXCEPT ![writeIndex_] = incoming]
          /\ writeIndex_' = NextRecord(writeIndex_) /\ readIndex_' = readIndex_
      BY <1>4, <2>4 DEF Write
    <3>2. /\ writeIndex_' \in Slots /\ Occupancy' = Occupancy + 1
          /\ Rank(writeIndex_) = Occupancy /\ ~Live(writeIndex_)
          /\ timestamp'[writeIndex_] = incoming
          /\ \A i \in Slots : /\ Rank(i)' = Rank(i)
                              /\ Live(i)' <=> Live(i) \/ i = writeIndex_
                              /\ Live(i) => timestamp'[i] = timestamp[i]
      BY <1>0, <2>4, <3>1, WriteRing
    <3>3. writeIndex_ \in Slots /\ Occupancy \in Nat
          /\ \A i \in Slots : Rank(i) \in Nat /\ (Live(i) <=> Rank(i) < Occupancy)
      BY <1>0, RingFacts, SizeAssumption DEF TypeInv, SearchType
    <3>4. timestamp' \in [Slots -> Timestamps]
      BY <1>0, <3>1 DEF TypeInv, SearchType, AnswerType
    <3>5. InputInv'
      <4> SUFFICES ASSUME NEW i \in Slots, Live(i)' PROVE timestamp'[i] <= incoming
        BY <2>1 DEF InputInv
      <4>1. CASE i = writeIndex_
        BY <1>1, <3>2, <4>1
      <4>2. CASE i # writeIndex_
        BY <1>0, <3>2, <4>2 DEF InputInv
      <4> QED
        BY <4>1, <4>2
    <3>6. Spaced'
      <4> SUFFICES ASSUME NEW i \in Slots, NEW j \in Slots, Live(i)', Live(j)', Rank(i) <= Rank(j)
                   PROVE  timestamp'[i] + (Rank(j) - Rank(i)) * Ticks <= timestamp'[j]
        BY <3>2 DEF Spaced, Ticks
      <4>1. CASE Live(i) /\ Live(j)
        BY <1>0, <3>2, <4>1 DEF Spaced
      <4>2. CASE j = writeIndex_ /\ i = writeIndex_
        <5>1. Rank(j) - Rank(i) = 0 /\ 0 * Ticks = 0
          BY <3>3, <4>2, TicksType
        <5> QED
          BY <1>1, <3>2, <4>2, <5>1
      <4>3. CASE j = writeIndex_ /\ Live(i)
        <5>1. PICK b \in Slots : Live(b) /\ Rank(b) = Occupancy - 1
          <6>1. Occupancy - 1 \in 0 .. Size - 1 /\ Occupancy > 0
            <7>1. Rank(i) < Occupancy /\ Rank(i) \in Nat
              BY <3>3, <4>3
            <7>2. Occupancy \in 0 .. Size - 1 /\ Size \in Nat
              BY <1>0, RingFacts, SizeAssumption
            <7> HIDE DEF Rank, Occupancy
            <7> QED
              BY <7>1, <7>2
          <6>2. \E b \in Slots : Rank(b) = Occupancy - 1
            BY <1>0, <6>1, SlotOfRank DEF TypeInv, SearchType, Rank
          <6> QED
            BY <3>3, <6>1, <6>2
        <5>2. timestamp[b] + Ticks <= incoming
          BY <1>0, <2>1, <5>1 DEF InputInv
        <5>3. Rank(i) <= Rank(b)
          BY <3>3, <4>3, <5>1
        <5>4. timestamp[i] + (Rank(b) - Rank(i)) * Ticks <= timestamp[b]
          BY <1>0, <4>3, <5>1, <5>3 DEF Spaced
        <5>5. Rank(j) - Rank(i) = (Rank(b) - Rank(i)) + 1 /\ Rank(b) - Rank(i) \in Int
          BY <3>2, <3>3, <4>3, <5>1
        <5> DEFINE n == Rank(b) - Rank(i)
        <5>6. (n + 1) * Ticks = n * Ticks + Ticks /\ n * Ticks \in Int
          BY <5>5, TicksType, SumOfProducts
        <5>7. timestamp'[i] = timestamp[i] /\ timestamp'[j] = incoming
          BY <3>2, <4>3
        <5> HIDE DEF n
        <5>8. timestamp[i] + (n + 1) * Ticks <= incoming
          <6>1. timestamp[i] + n * Ticks <= timestamp[b]
            BY <5>4 DEF n
          <6> QED
            BY <1>1, <5>1, <5>2, <5>6, <6>1, TicksType
        <5> QED
          BY <5>5, <5>7, <5>8 DEF n
      <4>4. CASE i = writeIndex_ /\ Live(j)
        BY <3>2, <3>3, <4>4
      <4> QED
        BY <3>2, <4>1, <4>2, <4>3, <4>4
    <3>7. TypeInv' /\ (pc' # "idle" => Searching')
      <4>1. TypeInv'
        BY <1>0, <2>1, <3>2, <3>4 DEF TypeInv, SearchType
      <4>2. Occupancy <= Occupancy'
        <5> DEFINE o == Occupancy
        <5>1. o \in Nat /\ Occupancy' = o + 1 /\ o <= o + 1
          BY <3>2, <3>3
        <5> QED
          BY <5>1
      <4> QED
        BY <1>0, <2>1, <3>2, <4>1, <4>2, SearchStays DEF RingInv
    <3>8. CallInv'
      <4>1. rpc \in {"check", "search", "walk"} => readIndex_' # writeIndex_'
        <5>1. NextRecord(writeIndex_) # readIndex_
          BY <1>0, <2>4, SizeAssumption DEF NextRecord, Slots, Occupancy, OccupancyOf, TypeInv, SearchType
        <5> QED
          BY <3>1, <5>1
      <4> QED
        BY <1>0, <2>1, <4>1 DEF CallInv, answerVars
    <3> QED
      BY <2>2, <3>5, <3>6, <3>7, <3>8 DEF RingInv
  <2> QED
    BY <2>3, <2>4
<1> QED
  BY <1>2, <1>3, <1>4

(* A cleanup removes the first elements. *)
LEMMA CleanupRingInv ==
  ASSUME RingInv, Cleanup
  PROVE  RingInv'
<1>0. TypeInv /\ Spaced /\ InputInv /\ AnswerType /\ pc = "idle" /\ rpc = "requested"
  BY DEF RingInv, Cleanup
<1>1. PICK popped \in 1 .. Occupancy - 1 :
        /\ readIndex_' = SlotAt(readIndex_ + popped)
        /\ timestamp' = [j \in Slots |->
                           IF Between(j, readIndex_', writeIndex_) THEN timestamp[j] ELSE 0]
  BY DEF Cleanup
<1>2. UNCHANGED <<writeIndex_, loaded_index, element, pc, start_index, end_index, result, incoming, ipc, answerVars>>
  BY DEF Cleanup
<1>3. /\ readIndex_' \in Slots
      /\ timestamp' \in [Slots -> Timestamps]
      /\ \A i \in Slots : Live(i)' => /\ Live(i) /\ Rank(i) >= popped
                                      /\ Rank(i)' = Rank(i) - popped
                                      /\ timestamp'[i] = timestamp[i]
  BY <1>0, <1>1, <1>2, CleanupRing
<1>4. popped \in Nat /\ \A i \in Slots : Rank(i) \in Nat /\ timestamp[i] \in Nat
  <2>1. Occupancy \in Nat
    BY <1>0, RingFacts, SizeAssumption
  <2>2. popped \in Nat
    BY <2>1
  <2> QED
    BY <1>0, <2>2, RingFacts
<1>5. Spaced'
  <2> SUFFICES ASSUME NEW i \in Slots, NEW j \in Slots, Live(i)', Live(j)', Rank(i)' <= Rank(j)'
               PROVE  timestamp'[i] + (Rank(j)' - Rank(i)') * Ticks <= timestamp'[j]
    BY DEF Spaced, Ticks
  <2>1. Rank(i) <= Rank(j) /\ Rank(j)' - Rank(i)' = Rank(j) - Rank(i)
    BY <1>3, <1>4
  <2>2. timestamp[i] + (Rank(j) - Rank(i)) * Ticks <= timestamp[j]
    BY <1>0, <1>3, <2>1 DEF Spaced
  <2> QED
    BY <1>3, <2>1, <2>2
<1>7. TypeInv' /\ pc' = "idle"
  BY <1>0, <1>2, <1>3 DEF TypeInv, SearchType
<1>8. InputInv'
  BY <1>0, <1>2, <1>3 DEF InputInv
<1>9. AnswerType' /\ CallInv'
  BY <1>0, <1>2 DEF AnswerType, WindowType, CallInv, answerVars
<1> QED
  BY <1>5, <1>7, <1>8, <1>9 DEF RingInv

(* The search key is a timestamp. *)
LEMMA SearchKeyFacts ==
  ASSUME WindowType
  PROVE  /\ SearchKey \in Nat
         /\ window.begin >= Ticks => SearchKey = window.begin - Ticks
         /\ window.begin < Ticks => SearchKey = window.begin - Ticks + Modulus
BY TicksType, ModulusBounds, WrappedBegin DEF SearchKey

(* The slot after one that holds an element holds the next, or none. *)
LEMMA NextSlot ==
  ASSUME TypeInv, NEW i \in Slots, Live(i)
  PROVE  /\ NextRecord(i) \in Slots
         /\ Live(NextRecord(i)) => Rank(NextRecord(i)) = Rank(i) + 1
         /\ ~Live(NextRecord(i)) => Rank(i) = Occupancy - 1
<1>0. readIndex_ \in Slots /\ writeIndex_ \in Slots
  BY DEF TypeInv, SearchType
<1>1. NextRecord(i) \in Slots
  BY NextRecordSlot
<1>2. CASE NextRecord(i) = readIndex_
  BY <1>0, <1>2, SizeAssumption DEF Live, Rank, Occupancy, Between, NextRecord, OccupancyOf, Slots
<1>3. CASE NextRecord(i) # readIndex_
  BY <1>0, <1>3, SizeAssumption DEF Live, Rank, Occupancy, Between, NextRecord, OccupancyOf, Slots
<1> QED
  BY <1>1, <1>2, <1>3

(* The steps of the request leave the ring alone. *)
LEMMA StepRingInv ==
  ASSUME RingInv, RequestStep \/ Answered
  PROVE  RingInv'
<1>0. TypeInv /\ Spaced /\ InputInv /\ AnswerType /\ CallInv
  BY DEF RingInv
<1>1. UNCHANGED <<timestamp, readIndex_, writeIndex_, incoming, ipc, window>>
  BY DEF RequestStep, Answered, Classify, CheckErrors, CallLowerBound, BeginSearch, SearchStep,
         BinaryStart, BinaryStep, FixedRateLookup, Return, Halve, UseResult, WalkElement, WalkEnds,
         NothingBuffered, Respond, allVars, vars, ring, inputVars, answerVars
<1>2. Spaced' /\ InputInv' /\ WindowType'
  BY <1>0, <1>1 DEF Spaced, InputInv, Live, Rank, AnswerType, WindowType
<1>3. ASSUME UNCHANGED <<loaded_index, element, start_index, end_index, result>>,
             pc' \in {pc, "idle"}
      PROVE  TypeInv' /\ (pc' # "idle" => Searching')
  <2>1. TypeInv'
    BY <1>0, <1>1, <1>3 DEF TypeInv, SearchType
  <2>2. Occupancy \in Int /\ Occupancy' = Occupancy
    BY <1>0, <1>1, RingFacts, SizeAssumption DEF Occupancy
  <2>3. Occupancy <= Occupancy'
    BY <2>2
  <2> QED
    BY <1>0, <1>1, <1>3, <2>1, <2>3, SearchStays DEF RingInv
<1>4. CASE Classify
  <2>1. UNCHANGED <<vars, start_iter, frag_pieces>> /\ Occupancy > 0 /\ rpc' \in {"check", "respond"}
        /\ rpc = "requested" /\ last_ts' = FrontTimestamp /\ newest_ts' = BackTimestamp
    BY <1>4 DEF Classify
  <2>2. last_ts' \in Nat /\ newest_ts' \in Nat
    <3>1. readIndex_ \in Slots /\ writeIndex_ \in Slots /\ \A i \in Slots : timestamp[i] \in Nat
      BY <1>0, RingFacts DEF TypeInv, SearchType
    <3>2. (IF writeIndex_ = 0 THEN Size - 1 ELSE writeIndex_ - 1) \in Slots
      BY <3>1, SizeAssumption DEF Slots
    <3> QED
      BY <2>1, <3>1, <3>2 DEF FrontTimestamp, BackTimestamp
  <2>3. pc = "idle" /\ readIndex_ # writeIndex_
    <3>1. Occupancy # 0
      BY <2>1
    <3>2. readIndex_ # writeIndex_
      BY <1>0, <3>1, RingFacts
    <3> QED
      BY <1>0, <2>1, <3>2 DEF CallInv
  <2>4. AnswerType' /\ CallInv'
    BY <1>0, <1>1, <1>2, <2>1, <2>2, <2>3 DEF AnswerType, CallInv, vars, ring
  <2> QED
    BY <1>2, <1>3, <2>1, <2>4 DEF RingInv, vars, ring
<1>5. CASE CheckErrors \/ WalkEnds \/ NothingBuffered \/ Respond
  <2>1. /\ UNCHANGED <<vars, start_iter, frag_pieces, last_ts, newest_ts>> /\ rpc # "search"
        /\ rpc' \in {"search", "respond", "done"} /\ (rpc' = "search" => rpc = "check")
    BY <1>5 DEF CheckErrors, WalkEnds, NothingBuffered, Respond
  <2>2. AnswerType' /\ CallInv'
    BY <1>0, <1>1, <1>2, <2>1 DEF AnswerType, CallInv, vars, ring
  <2> QED
    BY <1>2, <1>3, <2>1, <2>2 DEF RingInv, vars, ring
<1>6. CASE CallLowerBound
  <2>1. /\ rpc = "search" /\ element' = SearchKey /\ pc' \in {"binary", "fixed"} /\ result' = result
        /\ start_index' = readIndex_ /\ end_index' = writeIndex_ /\ loaded_index' = writeIndex_
        /\ UNCHANGED <<inputVars, answerVars>>
    BY <1>6 DEF CallLowerBound, BeginSearch
  <2>2. SearchKey \in Nat
    BY <1>0, SearchKeyFacts DEF AnswerType
  <2>3. AnswerType' /\ CallInv'
    BY <1>0, <1>1, <1>2, <2>1 DEF AnswerType, CallInv, inputVars, answerVars
  <2>4. readIndex_ # writeIndex_
    BY <1>0, <2>1 DEF CallInv
  <2>5. TypeInv'
    BY <1>0, <1>1, <2>1, <2>2 DEF TypeInv, SearchType
  <2>6. Sorted'
    <3> SUFFICES ASSUME NEW i \in Slots, NEW j \in Slots, Loaded(i)', Loaded(j)', Rank(i)' <= Rank(j)'
                 PROVE  timestamp'[i] <= timestamp'[j]
      BY DEF Sorted
    <3>1. Live(i) /\ Live(j) /\ Rank(i) <= Rank(j)
      BY <1>1, <2>1 DEF Loaded, Live, Rank
    <3> QED
      BY <1>0, <1>1, <3>1, LiveSorted
  <2>7. LoadedLive'
    <3>1. Occupancy \in Int /\ Occupancy <= Occupancy
      BY <1>0, RingFacts, SizeAssumption
    <3>2. Rank(loaded_index)' = Occupancy /\ Occupancy' = Occupancy
      BY <1>1, <2>1 DEF Rank, Occupancy
    <3> QED
      BY <1>1, <2>1, <2>4, <3>1, <3>2 DEF LoadedLive
  <2>8. BaseInv'
    BY <1>1, <2>1, <2>4, <2>5, <2>6 DEF BaseInv, TypeInv, EntryInv, SearchInv
  <2> QED
    BY <1>2, <2>3, <2>5, <2>7, <2>8 DEF RingInv, Searching
<1>7. CASE SearchStep
  <2>0. pc # "idle"
    BY <1>7 DEF SearchStep, BinaryStart, BinaryStep, FixedRateLookup
  <2>1. BaseInv' /\ LoadedLive
    BY <1>7, <2>0, SearchStepBase DEF SearchStep, RingInv, Searching
  <2>2. UNCHANGED <<inputVars, answerVars, loaded_index>>
    BY <1>7 DEF SearchStep, BinaryStart, BinaryStep, FixedRateLookup, Return, Halve, ring
  <2>3. AnswerType' /\ CallInv'
    BY <1>0, <1>1, <1>2, <2>0, <2>2 DEF AnswerType, CallInv, inputVars, answerVars
  <2>4. TypeInv' /\ LoadedLive'
    BY <1>0, <1>1, <2>1, <2>2 DEF BaseInv, TypeInv, LoadedLive, Rank, Occupancy
  <2> QED
    BY <1>2, <2>1, <2>3, <2>4 DEF RingInv, Searching
<1>8. CASE UseResult
  <2>1. /\ pc' = "idle" /\ start_iter' = result /\ rpc' \in {"respond", "walk"} /\ rpc = "search"
        /\ UNCHANGED <<ring, start_index, end_index, result, last_ts, newest_ts, frag_pieces>>
    BY <1>8 DEF UseResult
  <2>2. AnswerType' /\ CallInv'
    BY <1>0, <1>1, <1>2, <2>1 DEF AnswerType, CallInv, TypeInv, SearchType, ring
  <2> QED
    BY <1>2, <1>3, <2>1, <2>2 DEF RingInv, ring
<1>9. CASE WalkElement
  <2>1. /\ UNCHANGED <<vars, last_ts, newest_ts, rpc>> /\ InWalk
        /\ frag_pieces' = frag_pieces \o PiecesOf(timestamp[start_iter])
        /\ start_iter' = IF Good(NextRecord(start_iter)) THEN NextRecord(start_iter) ELSE EndIndex
    BY <1>9 DEF WalkElement
  <2>2. start_iter \in Slots
    BY <1>0, <2>1 DEF InWalk, Good, AnswerType
  <2>3. timestamp[start_iter] \in Nat /\ timestamp[start_iter] < window.end
    BY <1>0, <2>1, <2>2, RingFacts DEF InWalk
  <2>4. PiecesOf(timestamp[start_iter]) \in Seq(Nat)
    BY <1>0, <2>3, PiecesFacts DEF AnswerType
  <2>5. start_iter' \in Slots \cup {EndIndex}
    BY <2>1, <2>2, NextRecordSlot
  <2>6. frag_pieces' \in Seq(Nat)
    BY <1>0, <2>1, <2>4 DEF AnswerType
  <2>7. AnswerType' /\ CallInv'
    BY <1>0, <1>1, <1>2, <2>1, <2>5, <2>6 DEF AnswerType, CallInv, vars, ring
  <2> QED
    BY <1>2, <1>3, <2>1, <2>7 DEF RingInv, vars, ring
<1>10. CASE Answered
  BY <1>0, <1>2, <1>3, <1>10 DEF Answered, allVars, vars, ring, answerVars, inputVars, RingInv,
                                 AnswerType, CallInv
<1> QED
  BY <1>4, <1>5, <1>6, <1>7, <1>8, <1>9, <1>10 DEF RequestStep

LEMMA NextRingInv == RingInv /\ [RequestNext]_allVars => RingInv'
<1> SUFFICES ASSUME RingInv, [RequestNext]_allVars PROVE RingInv'
  OBVIOUS
<1>1. CASE UNCHANGED allVars
  BY <1>1 DEF allVars, vars, ring, inputVars, answerVars, RingInv, BaseInv, TypeInv, SearchType,
              Searching, LoadedLive, Loaded, Occupancy, Sorted, EntryInv, SearchInv, AnswerType,
              WindowType, Spaced, InputInv, CallInv, Live, Rank
<1>2. CASE RequestNext
  BY <1>2, InputRingInv, CleanupRingInv, StepRingInv DEF RequestNext
<1> QED
  BY <1>1, <1>2

LEMMA RequestRingInv == RequestSpec => []RingInv
<1>1. RequestSpec => RequestInit /\ [][RequestNext]_allVars
  BY PTL DEF RequestSpec
<1> QED
  BY <1>1, InitRingInv, NextRingInv, PTL

-----------------------------------------------------------------------------
(* The pieces that are collected.                                          *)

(* One sequence after the other, when all of it comes later. *)
LEMMA Concatenation ==
  ASSUME NEW s \in Seq(Nat), NEW p \in Seq(Nat), Increasing(s), Increasing(p),
         \A f \in Range(s), g \in Range(p) : f < g
  PROVE  /\ s \o p \in Seq(Nat) /\ Increasing(s \o p)
         /\ \A f : f \in Range(s \o p) <=> f \in Range(s) \/ f \in Range(p)
<1> DEFINE t == s \o p
           m == Len(s)
           n == Len(p)
<1>1. /\ t \in Seq(Nat) /\ Len(t) = m + n /\ m \in Nat /\ n \in Nat
      /\ \A k \in 1 .. m : t[k] = s[k]
      /\ \A k \in 1 .. n : t[m + k] = p[k]
  OBVIOUS
<1>2. /\ \A f : f \in Range(t) <=> \E k \in 1 .. Len(t) : f = t[k]
      /\ \A f : f \in Range(s) <=> \E k \in 1 .. m : f = s[k]
      /\ \A f : f \in Range(p) <=> \E k \in 1 .. n : f = p[k]
  BY <1>1, RangeOf
<1> HIDE DEF t
<1>3. \A k \in 1 .. m - 1 : s[k] < s[k + 1]
  BY DEF Increasing
<1>4. \A k \in 1 .. n - 1 : p[k] < p[k + 1]
  BY DEF Increasing
<1> HIDE DEF m, n
<1>5. ASSUME NEW k \in 1 .. Len(t)
      PROVE  k \in 1 .. m \/ (k - m \in 1 .. n /\ k = m + (k - m))
  BY <1>1
<1>6. \A f : f \in Range(t) <=> f \in Range(s) \/ f \in Range(p)
  <2> SUFFICES ASSUME NEW f PROVE f \in Range(t) <=> f \in Range(s) \/ f \in Range(p)
    OBVIOUS
  <2>1. ASSUME f \in Range(t) PROVE f \in Range(s) \/ f \in Range(p)
    <3>1. PICK k \in 1 .. Len(t) : f = t[k]
      BY <1>2, <2>1
    <3>2. CASE k \in 1 .. m
      BY <1>1, <1>2, <3>1, <3>2
    <3>3. CASE k - m \in 1 .. n /\ k = m + (k - m)
      <4> DEFINE j == k - m
      <4>1. j \in 1 .. n /\ t[m + j] = f
        BY <3>1, <3>3
      <4> HIDE DEF j
      <4>2. f = p[j]
        BY <1>1, <4>1
      <4> QED
        BY <1>2, <4>1, <4>2
    <3> QED
      BY <1>5, <3>2, <3>3
  <2>2. ASSUME f \in Range(s) PROVE f \in Range(t)
    <3>1. PICK k \in 1 .. m : f = s[k]
      BY <1>2, <2>2
    <3>2. k \in 1 .. Len(t)
      BY <1>1
    <3> QED
      BY <1>1, <1>2, <3>1, <3>2
  <2>3. ASSUME f \in Range(p) PROVE f \in Range(t)
    <3>1. PICK k \in 1 .. n : f = p[k]
      BY <1>2, <2>3
    <3>2. m + k \in 1 .. Len(t)
      BY <1>1
    <3> QED
      BY <1>1, <1>2, <3>1, <3>2
  <2> QED
    BY <2>1, <2>2, <2>3
<1>7. Increasing(t)
  <2> SUFFICES ASSUME NEW k \in 1 .. Len(t) - 1 PROVE t[k] < t[k + 1]
    BY DEF Increasing
  <2>1. CASE k \in 1 .. m - 1
    <3>1. k \in 1 .. m /\ k + 1 \in 1 .. m
      BY <1>1, <2>1
    <3> QED
      BY <1>1, <1>3, <2>1, <3>1
  <2>2. CASE k = m
    <3>1. k \in 1 .. m /\ 1 \in 1 .. n
      BY <1>1, <2>2
    <3>2. t[k] = s[k] /\ t[k + 1] = p[1]
      BY <1>1, <2>2, <3>1
    <3>3. s[k] \in Range(s) /\ p[1] \in Range(p)
      BY <1>2, <3>1
    <3> QED
      BY <3>2, <3>3
  <2>3. CASE k > m
    <3>1. k - m \in 1 .. n - 1 /\ k = m + (k - m) /\ k + 1 = m + ((k - m) + 1)
          /\ k - m \in 1 .. n /\ (k - m) + 1 \in 1 .. n
      BY <1>1, <2>3
    <3>2. t[k] = p[k - m] /\ t[k + 1] = p[(k - m) + 1]
      BY <1>1, <3>1
    <3> QED
      BY <1>4, <3>1, <3>2
  <2> QED
    BY <1>1, <2>1, <2>2, <2>3
<1> QED
  BY <1>1, <1>6, <1>7 DEF t

LEMMA NoPieces == << >> \in Seq(Nat) /\ Range(<< >>) = {} /\ Increasing(<< >>)
<1> DEFINE none == << >>
<1>1. none \in Seq(Nat) /\ Len(none) = 0
  OBVIOUS
<1> HIDE DEF none
<1>2. Range(none) = {}
  <2>1. \A f : f \in Range(none) <=> \E k \in 1 .. Len(none) : f = none[k]
    BY <1>1, RangeOf
  <2>2. 1 .. Len(none) = {}
    BY <1>1
  <2> QED
    BY <2>1, <2>2
<1>3. Increasing(none)
  BY <1>1 DEF Increasing
<1> QED
  BY <1>1, <1>2, <1>3 DEF none

(* The pieces are those of the elements before the iterator. *)
PiecesInv ==
  /\ rpc \in {"requested", "check", "search"} => frag_pieces = << >>
  /\ PiecesInWindowInOrder
  /\ rpc = "walk" /\ start_iter # EndIndex =>
       Live(start_iter) /\ \A f \in Range(frag_pieces) : f < timestamp[start_iter]

LEMMA InWindow ==
  /\ \A f : f \in FramesInWindow
             <=> \E i \in Slots : Live(i) /\ f \in WindowFramesOf(timestamp[i])
  /\ PiecesInWindowInOrder <=> Range(frag_pieces) \subseteq FramesInWindow /\ Increasing(frag_pieces)
<1>1. \A f : f \in FramesInWindow
             <=> \E i \in Slots : Live(i) /\ f \in WindowFramesOf(timestamp[i])
  BY DEF FramesInWindow, WindowFramesOf
<1> QED
  BY <1>1 DEF PiecesInWindowInOrder, Increasing

LEMMA PiecesStay ==
  ASSUME PiecesInWindowInOrder, UNCHANGED <<window, frag_pieces>>,
         \A i \in Slots : Live(i) => Live(i)' /\ timestamp'[i] = timestamp[i]
  PROVE  PiecesInWindowInOrder'
<1>1. \A i \in Slots : Live(i) => WindowFramesOf(timestamp[i])' = WindowFramesOf(timestamp[i])
  BY DEF WindowFramesOf, FramesOf
<1>2. FramesInWindow \subseteq FramesInWindow'
  <2> SUFFICES ASSUME NEW f \in FramesInWindow PROVE f \in FramesInWindow'
    OBVIOUS
  <2>1. PICK i \in Slots : Live(i) /\ f \in WindowFramesOf(timestamp[i])
    BY InWindow
  <2>2. Live(i)' /\ f \in WindowFramesOf(timestamp[i])'
    BY <1>1, <2>1
  <2> QED
    BY <2>2 DEF FramesInWindow, WindowFramesOf
<1> QED
  BY <1>2 DEF PiecesInWindowInOrder

LEMMA NextPiecesInv ==
  ASSUME RingInv, RingInv', PiecesInv, [RequestNext]_allVars
  PROVE  PiecesInv'
<1>0. TypeInv /\ Spaced /\ AnswerType
  BY DEF RingInv, BaseInv
<1>1. ASSUME UNCHANGED <<window, frag_pieces>>,
             \A i \in Slots : Live(i) => Live(i)' /\ timestamp'[i] = timestamp[i],
             rpc' \in {"requested", "check", "search"} => rpc \in {"requested", "check", "search"},
             rpc' = "walk" => \/ rpc = "walk" /\ start_iter' = start_iter
                              \/ frag_pieces = << >> /\ start_iter' \in Slots /\ Live(start_iter)'
      PROVE  PiecesInv'
  <2>1. PiecesInWindowInOrder'
    BY <1>1, PiecesStay DEF PiecesInv
  <2>2. rpc' \in {"requested", "check", "search"} => frag_pieces' = << >>
    BY <1>1 DEF PiecesInv
  <2>3. ASSUME rpc' = "walk", start_iter' # EndIndex
        PROVE  Live(start_iter)' /\ \A f \in Range(frag_pieces') : f < timestamp'[start_iter']
    <3>1. CASE rpc = "walk" /\ start_iter' = start_iter
      <4>1. start_iter \in Slots /\ Live(start_iter)
            /\ \A f \in Range(frag_pieces) : f < timestamp[start_iter]
        BY <1>0, <2>3, <3>1 DEF AnswerType, PiecesInv
      <4>2. Live(start_iter)' /\ timestamp'[start_iter] = timestamp[start_iter]
        BY <1>1, <3>1, <4>1 DEF Live
      <4> QED
        BY <1>1, <3>1, <4>1, <4>2
    <3>2. CASE frag_pieces = << >> /\ start_iter' \in Slots /\ Live(start_iter)'
      <4>1. Range(frag_pieces') = {}
        BY <1>1, <3>2, NoPieces
      <4> QED
        BY <3>2, <4>1 DEF Live
    <3> QED
      BY <1>1, <2>3, <3>1, <3>2
  <2> QED
    BY <2>1, <2>2, <2>3 DEF PiecesInv
<1>2. ASSUME UNCHANGED <<timestamp, readIndex_, writeIndex_>>
      PROVE  \A i \in Slots : Live(i) => Live(i)' /\ timestamp'[i] = timestamp[i]
  BY <1>2 DEF Live
<1>3. CASE UNCHANGED allVars \/ Preprocess \/ RegisterGap \/ Answered
  BY <1>1, <1>2, <1>3 DEF allVars, inputVars, vars, ring, answerVars, Preprocess, RegisterGap, Answered
<1>4. CASE Write
  <2>1. \A i \in Slots : Live(i) => Live(i)' /\ timestamp'[i] = timestamp[i]
    <3>1. CASE Occupancy < Size - 1
      <4>1. /\ timestamp' = [timestamp EXCEPT ![writeIndex_] = incoming]
            /\ writeIndex_' = NextRecord(writeIndex_) /\ readIndex_' = readIndex_
        BY <1>4, <3>1 DEF Write
      <4> QED
        BY <1>0, <3>1, <4>1, WriteRing
    <3>2. CASE ~(Occupancy < Size - 1)
      BY <1>2, <1>4, <3>2 DEF Write
    <3> QED
      BY <3>1, <3>2
  <2> QED
    BY <1>1, <1>4, <2>1 DEF Write, answerVars
<1>5. CASE Cleanup
  <2>1. rpc = "requested" /\ UNCHANGED <<rpc, frag_pieces>>
    BY <1>5 DEF Cleanup, answerVars
  <2>2. frag_pieces' = << >> /\ Range(frag_pieces') = {} /\ Increasing(frag_pieces')
    BY <2>1, NoPieces DEF PiecesInv
  <2>3. PiecesInWindowInOrder'
    BY <2>2 DEF PiecesInWindowInOrder, Increasing
  <2> QED
    BY <2>1, <2>2, <2>3 DEF PiecesInv
<1>6. CASE Classify \/ CheckErrors \/ WalkEnds \/ NothingBuffered \/ Respond
  <2>1. /\ UNCHANGED <<timestamp, readIndex_, writeIndex_, window, frag_pieces>> /\ rpc' # "walk"
        /\ rpc' = "check" => rpc = "requested"
        /\ rpc' = "search" => rpc = "check"
        /\ rpc' # "requested"
    BY <1>6 DEF Classify, CheckErrors, WalkEnds, NothingBuffered, Respond, vars, ring, inputVars
  <2> QED
    BY <1>1, <1>2, <2>1
<1>7. CASE CallLowerBound \/ SearchStep
  <2>1. UNCHANGED <<timestamp, readIndex_, writeIndex_, window, frag_pieces, rpc>> /\ rpc # "walk"
    <3>1. UNCHANGED <<timestamp, readIndex_, writeIndex_, window, frag_pieces, rpc>>
      BY <1>7 DEF CallLowerBound, BeginSearch, SearchStep, BinaryStart, BinaryStep, FixedRateLookup,
                  Return, Halve, ring, inputVars, answerVars
    <3>2. CASE CallLowerBound
      BY <3>1, <3>2 DEF CallLowerBound
    <3>3. CASE SearchStep
      <4>1. pc \in {"binary", "search", "fixed"}
        BY <3>3 DEF SearchStep, BinaryStart, BinaryStep, FixedRateLookup
      <4> QED
        BY <3>1, <4>1 DEF RingInv, CallInv
    <3> QED
      BY <1>7, <3>1, <3>2, <3>3
  <2> QED
    BY <1>1, <1>2, <2>1
<1>8. CASE UseResult
  <2>1. /\ UNCHANGED <<timestamp, readIndex_, writeIndex_, window, frag_pieces>> /\ rpc = "search"
        /\ start_iter' = result /\ rpc' \in {"respond", "walk"}
        /\ rpc' = "walk" => Good(result)
    BY <1>8 DEF UseResult, ring, inputVars
  <2>2. frag_pieces = << >>
    BY <2>1 DEF PiecesInv
  <2>3. rpc' = "walk" => start_iter' \in Slots /\ Live(start_iter)'
    BY <1>0, <2>1 DEF Good, TypeInv, SearchType, Live
  <2> QED
    BY <1>1, <1>2, <2>1, <2>2, <2>3
<1>9. CASE WalkElement
  <2> DEFINE e == timestamp[start_iter]
             p == PiecesOf(e)
             next == NextRecord(start_iter)
  <2>1. /\ UNCHANGED <<timestamp, readIndex_, writeIndex_, window>> /\ rpc = "walk" /\ rpc' = "walk"
        /\ InWalk
        /\ frag_pieces' = frag_pieces \o p
        /\ start_iter' = IF Good(next) THEN next ELSE EndIndex
    BY <1>9 DEF WalkElement, vars, ring, inputVars
  <2>2. start_iter \in Slots /\ start_iter # EndIndex /\ Live(start_iter) /\ e < window.end
    BY <1>0, <2>1 DEF InWalk, Good, AnswerType
  <2>3. e \in Nat
    BY <1>0, <2>2, RingFacts
  <2>4. /\ p \in Seq(Nat) /\ Increasing(p) /\ Range(p) \subseteq WindowFramesOf(e)
    BY <1>0, <2>2, <2>3, PiecesFacts DEF AnswerType
  <2> HIDE DEF p
  <2>5. /\ frag_pieces \in Seq(Nat) /\ Increasing(frag_pieces)
        /\ Range(frag_pieces) \subseteq FramesInWindow
        /\ \A f \in Range(frag_pieces) : f < e
    BY <1>0, <2>1, <2>2, InWindow DEF AnswerType, PiecesInv
  <2>6. \A f \in WindowFramesOf(e) : f \in Nat /\ e <= f /\ f < e + Ticks
    <3> SUFFICES ASSUME NEW f \in Range(FramesOf(e)) PROVE f \in Nat /\ e <= f /\ f < e + Ticks
      BY DEF WindowFramesOf
    <3> HIDE DEF e
    <3>1. PICK k \in 1 .. num_frames : f = FramesOf(e)[k]
      BY <2>3, FrameFacts, RangeOf
    <3>2. f \in Nat /\ e <= f /\ f + expected_tick_difference <= e + Ticks
      BY <2>3, <3>1, FrameFacts
    <3> QED
      BY <2>3, <3>2, TicksType
  <2>7. \A f \in Range(frag_pieces) : f \in Nat
    BY <2>5, RangeOf
  <2>8. \A f \in Range(frag_pieces), g \in Range(p) : f < g
    <3> SUFFICES ASSUME NEW f \in Range(frag_pieces), NEW g \in Range(p) PROVE f < g
      OBVIOUS
    <3>1. f \in Nat /\ g \in Nat /\ f < e /\ e <= g
      BY <2>4, <2>5, <2>6, <2>7
    <3> HIDE DEF e
    <3> QED
      BY <2>3, <3>1
  <2>9. /\ Increasing(frag_pieces')
        /\ \A f : f \in Range(frag_pieces') <=> f \in Range(frag_pieces) \/ f \in Range(p)
    BY <2>1, <2>4, <2>5, <2>8, Concatenation
  <2>10. PiecesInWindowInOrder'
    <3>1. WindowFramesOf(e) \subseteq FramesInWindow
      BY <2>2, InWindow
    <3>2. Range(frag_pieces') \subseteq FramesInWindow
      BY <2>4, <2>5, <2>9, <3>1
    <3>3. FramesInWindow' = FramesInWindow
      BY <2>1 DEF FramesInWindow, FramesOf, Live
    <3> QED
      BY <2>9, <3>2, <3>3 DEF PiecesInWindowInOrder, Increasing
  <2>11. ASSUME start_iter' # EndIndex
         PROVE  Live(start_iter)' /\ \A f \in Range(frag_pieces') : f < timestamp'[start_iter']
    <3>1. start_iter' = next /\ Live(next) /\ next \in Slots
      BY <2>1, <2>2, <2>11, NextRecordSlot DEF Good
    <3>2. Live(start_iter)'
      BY <2>1, <3>1 DEF Live
    <3>3. Rank(next) = Rank(start_iter) + 1 /\ Rank(start_iter) \in Nat /\ timestamp[next] \in Nat
      BY <1>0, <2>2, <3>1, NextSlot, RingFacts
    <3>4. Rank(start_iter) <= Rank(next) /\ Rank(next) - Rank(start_iter) = 1
      BY <3>3
    <3> HIDE DEF next
    <3>5. e + (Rank(next) - Rank(start_iter)) * Ticks <= timestamp[next]
      BY <1>0, <2>2, <3>1, <3>4 DEF Spaced
    <3>6. e + Ticks <= timestamp[next] /\ Ticks \in Nat
      BY <3>4, <3>5, TicksType
    <3>7. \A f \in Range(frag_pieces') : f \in Nat /\ f < e + Ticks
      <4> SUFFICES ASSUME NEW f \in Range(frag_pieces') PROVE f \in Nat /\ f < e + Ticks
        OBVIOUS
      <4>1. CASE f \in Range(p)
        BY <2>4, <2>6, <4>1
      <4>2. CASE f \in Range(frag_pieces)
        <5>1. f \in Nat /\ f < e
          BY <2>5, <2>7, <4>2
        <5> HIDE DEF e
        <5> QED
          BY <2>3, <3>6, <5>1
      <4> QED
        BY <2>9, <4>1, <4>2
    <3> HIDE DEF e
    <3>8. \A f \in Range(frag_pieces') : f < timestamp[next]
      BY <2>3, <3>3, <3>6, <3>7
    <3> QED
      BY <2>1, <3>1, <3>2, <3>8
  <2> QED
    BY <2>1, <2>10, <2>11 DEF PiecesInv
<1> QED
  BY <1>3, <1>4, <1>5, <1>6, <1>7, <1>8, <1>9 DEF RequestNext, RequestStep

LEMMA InitPiecesInv == RequestInit => PiecesInv
<1> SUFFICES ASSUME RequestInit PROVE PiecesInv
  OBVIOUS
<1>1. frag_pieces = << >> /\ rpc = "requested"
  BY DEF RequestInit
<1>2. Range(frag_pieces) = {} /\ Increasing(frag_pieces)
  BY <1>1, NoPieces
<1> QED
  BY <1>1, <1>2 DEF PiecesInv, PiecesInWindowInOrder, Increasing

LEMMA RequestPiecesInv == RequestSpec => []PiecesInv
<1>1. RequestSpec => RequestInit /\ [][RequestNext]_allVars
  BY PTL DEF RequestSpec
<1>2. RingInv /\ RingInv' /\ PiecesInv /\ [RequestNext]_allVars => PiecesInv'
  BY NextPiecesInv
<1> QED
  BY <1>1, <1>2, InitPiecesInv, RequestRingInv, PTL

(* get_fragment_pieces() collects only frames that reach into the window   *)
(* of the request, in the order of their timestamps and each once: for     *)
(* every ring, element and window, with gaps and refused payloads, and     *)
(* while the producer goes on writing.                                     *)
THEOREM WindowSafety == RequestSpec => []PiecesInWindowInOrder
<1>1. PiecesInv => PiecesInWindowInOrder
  BY DEF PiecesInv
<1> QED
  BY <1>1, RequestPiecesInv, PTL

-----------------------------------------------------------------------------
(* What the registered error says about the ring, if there is never a      *)
(* second gap and no payload is refused.                                   *)

(* No element is missing after the first one with timestamp ts. *)
FixedSince(ts) ==
  \A i, j \in Slots :
    Live(i) /\ Live(j) /\ Rank(i) <= Rank(j) /\ ts <= timestamp[i] =>
      timestamp[j] = timestamp[i] + (Rank(j) - Rank(i)) * Ticks

(* How far what comes in is from the newest element. *)
IncomingIs(d) ==
  \A i \in Slots : Live(i) /\ Rank(i) = Occupancy - 1 => incoming = timestamp[i] + d

ErrorsInv ==
  /\ m_errors \subseteq [name : {"MISSING_FRAMES"}, end_ts : Nat]
  /\ ipc = "idle" => IncomingIs(0)
  /\ ipc = "registering" => m_errors = {}
  /\ m_errors = {} => FixedSince(0) /\ (ipc = "writing" => IncomingIs(Ticks))
  /\ \A e \in m_errors : /\ FixedSince(e.end_ts)
                         /\ ipc = "writing" => IncomingIs(Ticks) \/ incoming = e.end_ts

(* The newest element. *)
LEMMA Newest ==
  ASSUME TypeInv, Occupancy # 0
  PROVE  \E b \in Slots : Live(b) /\ Rank(b) = Occupancy - 1
<1>1. /\ Occupancy \in 0 .. Size - 1 /\ Size \in Nat
      /\ \A i \in Slots : Live(i) <=> Rank(i) < Occupancy
  BY RingFacts, SizeAssumption
<1> HIDE DEF Occupancy
<1>2. Occupancy - 1 \in 0 .. Size - 1 /\ Occupancy - 1 < Occupancy
  BY <1>1
<1>3. \E b \in Slots : Rank(b) = Occupancy - 1
  BY <1>2, SlotOfRank DEF TypeInv, SearchType, Rank
<1> QED
  BY <1>1, <1>2, <1>3

LEMMA WriteFixed ==
  ASSUME RingInv, Write, Occupancy < Size - 1, NEW ts \in Nat, FixedSince(ts),
         IncomingIs(Ticks) \/ incoming = ts
  PROVE  FixedSince(ts)'
<1>0. TypeInv /\ InputInv /\ ipc = "writing" /\ incoming \in Nat
      /\ \A i \in Slots : timestamp[i] \in Nat
  BY RingFacts DEF RingInv, BaseInv, Write, AnswerType, Timestamps
<1>1. /\ timestamp' = [timestamp EXCEPT ![writeIndex_] = incoming]
      /\ writeIndex_' = NextRecord(writeIndex_) /\ readIndex_' = readIndex_
  BY DEF Write
<1>2. /\ Rank(writeIndex_) = Occupancy
      /\ timestamp'[writeIndex_] = incoming
      /\ \A i \in Slots : /\ Rank(i)' = Rank(i)
                          /\ Live(i)' <=> Live(i) \/ i = writeIndex_
                          /\ Live(i) => timestamp'[i] = timestamp[i]
  BY <1>0, <1>1, WriteRing
<1>3. writeIndex_ \in Slots /\ Occupancy \in Nat
      /\ \A i \in Slots : Rank(i) \in Nat /\ (Live(i) <=> Rank(i) < Occupancy)
  BY <1>0, RingFacts, SizeAssumption DEF TypeInv, SearchType
<1> SUFFICES ASSUME NEW i \in Slots, NEW j \in Slots, Live(i)', Live(j)', Rank(i) <= Rank(j),
                    ts <= timestamp'[i]
             PROVE  timestamp'[j] = timestamp'[i] + (Rank(j) - Rank(i)) * Ticks
  BY <1>2 DEF FixedSince, Ticks
<1>4. CASE Live(i) /\ Live(j)
  BY <1>2, <1>4 DEF FixedSince
<1>5. CASE i = writeIndex_ /\ j = writeIndex_
  <2>1. Rank(j) - Rank(i) = 0 /\ 0 * Ticks = 0
    BY <1>3, <1>5, TicksType
  <2> QED
    BY <1>0, <1>2, <1>5, <2>1
<1>6. CASE Live(i) /\ j = writeIndex_
  <2>1. timestamp'[i] = timestamp[i] /\ timestamp'[j] = incoming /\ ts <= timestamp[i]
    BY <1>2, <1>6
  <2>2. timestamp[i] + Ticks <= incoming
    BY <1>0, <1>6 DEF InputInv
  <2>3. incoming # ts
    BY <1>0, <2>1, <2>2, TicksType
  <2>4. Occupancy # 0
    <3>1. Rank(i) < Occupancy /\ Rank(i) \in Nat
      BY <1>3, <1>6
    <3> HIDE DEF Occupancy
    <3> QED
      BY <1>3, <3>1
  <2>5. PICK b \in Slots : Live(b) /\ Rank(b) = Occupancy - 1
    BY <1>0, <2>4, Newest
  <2>6. incoming = timestamp[b] + Ticks
    BY <2>3, <2>5 DEF IncomingIs
  <2>7. Rank(i) < Occupancy /\ Rank(i) \in Nat /\ Rank(b) = Occupancy - 1 /\ Rank(j) = Occupancy
    BY <1>2, <1>3, <1>6, <2>5
  <2> DEFINE n == Rank(b) - Rank(i)
  <2>8. Rank(i) <= Rank(b) /\ Rank(j) - Rank(i) = n + 1 /\ n \in Int
    <3> HIDE DEF Occupancy, Rank
    <3> QED
      BY <1>3, <2>7
  <2>9. timestamp[b] = timestamp[i] + n * Ticks
    BY <1>6, <2>1, <2>5, <2>8 DEF FixedSince
  <2> HIDE DEF n
  <2>10. (n + 1) * Ticks = n * Ticks + Ticks /\ n * Ticks \in Int /\ Ticks \in Int
    BY <2>8, TicksType, SumOfProducts
  <2>11. incoming = timestamp[i] + (n * Ticks + Ticks)
    BY <1>0, <2>6, <2>9, <2>10
  <2> QED
    BY <2>1, <2>8, <2>10, <2>11
<1>7. CASE i = writeIndex_ /\ Live(j)
  <2>1. Rank(j) < Occupancy /\ Rank(i) = Occupancy /\ Rank(j) \in Nat
    BY <1>2, <1>3, <1>7
  <2> HIDE DEF Rank, Occupancy
  <2> QED
    BY <1>3, <2>1
<1> QED
  BY <1>2, <1>4, <1>5, <1>6, <1>7

(* A cleanup keeps the spacing of what it leaves. *)
LEMMA CleanupKeeps ==
  ASSUME RingInv, Cleanup
  PROVE  /\ \A ts : FixedSince(ts) => FixedSince(ts)'
         /\ \A d : IncomingIs(d) => IncomingIs(d)'
         /\ \A i \in Slots : Live(i)' => Live(i) /\ timestamp'[i] = timestamp[i]
         /\ \A i \in Slots : Live(i)' => timestamp'[readIndex_'] <= timestamp'[i]
         /\ readIndex_' \in Slots /\ Live(readIndex_')
         /\ timestamp'[readIndex_'] = timestamp[readIndex_']
<1>0. TypeInv
  BY DEF RingInv, BaseInv
<1>1. PICK popped \in 1 .. Occupancy - 1 :
        /\ readIndex_' = SlotAt(readIndex_ + popped)
        /\ timestamp' = [j \in Slots |->
                           IF Between(j, readIndex_', writeIndex_) THEN timestamp[j] ELSE 0]
  BY DEF Cleanup
<1>2. UNCHANGED <<writeIndex_, incoming>>
  BY DEF Cleanup
<1>3. /\ readIndex_' \in Slots /\ Occupancy' = Occupancy - popped
      /\ \A i \in Slots : Live(i)' => /\ Live(i) /\ Rank(i) >= popped
                                      /\ Rank(i)' = Rank(i) - popped
                                      /\ timestamp'[i] = timestamp[i]
  BY <1>0, <1>1, <1>2, CleanupRing
<1>4. Occupancy \in Nat /\ popped \in Nat /\ \A i \in Slots : Rank(i) \in Nat
  <2>1. Occupancy \in Nat /\ \A i \in Slots : Rank(i) \in Nat
    BY <1>0, RingFacts, SizeAssumption
  <2>2. popped \in Nat
    BY <2>1
  <2> QED
    BY <2>1, <2>2
<1>5. ASSUME NEW ts, FixedSince(ts) PROVE FixedSince(ts)'
  <2> SUFFICES ASSUME NEW i \in Slots, NEW j \in Slots, Live(i)', Live(j)', Rank(i)' <= Rank(j)',
                      ts <= timestamp'[i]
               PROVE  timestamp'[j] = timestamp'[i] + (Rank(j)' - Rank(i)') * Ticks
    BY DEF FixedSince, Ticks
  <2>1. Rank(i) <= Rank(j) /\ Rank(j)' - Rank(i)' = Rank(j) - Rank(i)
    BY <1>3, <1>4
  <2>2. timestamp[j] = timestamp[i] + (Rank(j) - Rank(i)) * Ticks
    BY <1>3, <1>5, <2>1 DEF FixedSince
  <2> QED
    BY <1>3, <2>1, <2>2
<1>6. ASSUME NEW d, IncomingIs(d) PROVE IncomingIs(d)'
  <2> SUFFICES ASSUME NEW i \in Slots, Live(i)', Rank(i)' = Occupancy' - 1
               PROVE  incoming = timestamp'[i] + d
    BY <1>2 DEF IncomingIs
  <2>1. Rank(i) = Occupancy - 1
    BY <1>3, <1>4
  <2> QED
    BY <1>3, <1>6, <2>1 DEF IncomingIs
<1>7. /\ Between(readIndex_', readIndex_', writeIndex_')
      /\ OccupancyOf(readIndex_', readIndex_') = 0
      /\ \A i \in Slots : OccupancyOf(i, readIndex_') \in Nat
  <2>1. Occupancy' > 0 /\ writeIndex_' \in Slots
    BY <1>0, <1>1, <1>2, <1>3, <1>4 DEF TypeInv, SearchType
  <2>2. \A k, r \in Slots : OccupancyOf(r, r) = 0 /\ OccupancyOf(k, r) \in Nat
    BY SizeAssumption DEF OccupancyOf, Slots
  <2> QED
    BY <1>3, <2>1, <2>2, BetweenIsNearer DEF Occupancy
<1>8. /\ Live(readIndex_') /\ OccupancyOf(readIndex_', readIndex_') = Rank(readIndex_') - popped
      /\ timestamp'[readIndex_'] = timestamp[readIndex_']
  <2>1. \A k \in Slots : Between(k, readIndex_', writeIndex_')
                         => /\ Live(k)
                            /\ OccupancyOf(k, readIndex_') = Rank(k) - popped
                            /\ timestamp'[k] = timestamp[k]
    BY <1>3 DEF Live, Rank
  <2> QED
    BY <1>3, <1>7, <2>1
<1>9. ASSUME NEW i \in Slots, Live(i)' PROVE timestamp'[readIndex_'] <= timestamp'[i]
  <2>1. Rank(i) - popped \in Nat /\ Live(i)
    BY <1>3, <1>7, <1>9 DEF Rank
  <2>2. Rank(readIndex_') <= Rank(i)
    BY <1>3, <1>4, <1>7, <1>8, <2>1
  <2>3. timestamp[readIndex_'] <= timestamp[i]
    BY <1>0, <1>3, <1>8, <2>1, <2>2, LiveSorted DEF RingInv
  <2> QED
    BY <1>3, <1>8, <1>9, <2>3
<1> QED
  BY <1>3, <1>5, <1>6, <1>8, <1>9

LEMMA InitErrorsInv == RequestInit => ErrorsInv
<1> SUFFICES ASSUME RequestInit PROVE ErrorsInv
  OBVIOUS
<1>0. RingInv /\ TypeInv
  BY InitRingInv DEF RingInv, BaseInv
<1>1. readIndex_ \in Slots /\ writeIndex_ \in {readIndex_, NextRecord(readIndex_)}
      /\ m_errors = {} /\ ipc = "idle" /\ incoming = timestamp[readIndex_]
  BY DEF RequestInit, FrontTimestamp
<1>2. \A i \in Slots : Live(i) => i = readIndex_
  BY <1>1, SizeAssumption DEF Live, Between, NextRecord, Slots
<1>3. \A i \in Slots : timestamp[i] \in Nat /\ Rank(i) \in Nat
  BY <1>0, RingFacts
<1>4. FixedSince(0)
  <2> SUFFICES ASSUME NEW i \in Slots, NEW j \in Slots, Live(i), Live(j)
               PROVE  timestamp[j] = timestamp[i] + (Rank(j) - Rank(i)) * Ticks
    BY DEF FixedSince
  <2>1. i = j /\ Rank(j) - Rank(i) = 0 /\ 0 * Ticks = 0
    BY <1>2, <1>3, TicksType
  <2> QED
    BY <1>3, <2>1
<1>5. IncomingIs(0)
  BY <1>1, <1>2, <1>3 DEF IncomingIs
<1> QED
  BY <1>1, <1>4, <1>5 DEF ErrorsInv

LEMMA NextErrorsInv ==
  ASSUME Mishaps = {}, RingInv, ErrorsInv, [RequestNext]_allVars
  PROVE  ErrorsInv'
<1>0. TypeInv /\ InputInv /\ AnswerType /\ incoming \in Nat /\ Ticks \in Nat \ {0}
      /\ \A i \in Slots : timestamp[i] \in Nat
  BY TicksType, RingFacts DEF RingInv, BaseInv, AnswerType, Timestamps
<1>1. ASSUME UNCHANGED <<timestamp, readIndex_, writeIndex_>>
      PROVE  /\ \A ts : FixedSince(ts)' <=> FixedSince(ts)
             /\ incoming' = incoming => \A d : IncomingIs(d)' <=> IncomingIs(d)
  BY <1>1 DEF FixedSince, IncomingIs, Live, Rank, Occupancy, Ticks
<1>2. CASE UNCHANGED allVars \/ RequestStep \/ Answered
  <2>1. UNCHANGED <<timestamp, readIndex_, writeIndex_, incoming, ipc, m_errors>>
    BY <1>2 DEF RequestStep, Answered, Classify, CheckErrors, CallLowerBound, BeginSearch, SearchStep,
           BinaryStart, BinaryStep, FixedRateLookup, Return, Halve, UseResult, WalkElement, WalkEnds,
           NothingBuffered, Respond, allVars, vars, ring, inputVars
  <2>2. Ticks' = Ticks
    BY DEF Ticks
  <2> QED
    BY <1>1, <2>1, <2>2 DEF ErrorsInv
<1>3. CASE Preprocess
  <2>1. PICK skipped \in 0 .. MaxSkipped :
          /\ skipped > 0 => ~HasError("MISSING_FRAMES")
          /\ incoming' = incoming + (1 + skipped) * Ticks
          /\ ipc' = IF skipped > 0 THEN "registering" ELSE "writing"
          /\ IF skipped > 0 THEN EraseError("MISSING_FRAMES") ELSE UNCHANGED m_errors
    BY <1>3 DEF Preprocess
  <2>2. UNCHANGED <<timestamp, readIndex_, writeIndex_>> /\ ipc = "idle"
    BY <1>3 DEF Preprocess, vars, ring
  <2>3. \A ts : FixedSince(ts)' <=> FixedSince(ts)
    BY <1>1, <2>2
  <2>4. CASE skipped > 0
    <3>1. m_errors = {}
      <4> SUFFICES ASSUME NEW e \in m_errors PROVE FALSE
        OBVIOUS
      <4>1. e.name = "MISSING_FRAMES"
        BY DEF ErrorsInv
      <4> QED
        BY <2>1, <2>4, <4>1 DEF HasError
    <3>2. m_errors' = {} /\ ipc' = "registering"
      BY <2>1, <2>4, <3>1 DEF EraseError
    <3> QED
      BY <2>3, <3>1, <3>2 DEF ErrorsInv
  <2>5. CASE ~(skipped > 0)
    <3>1. skipped = 0
      <4>1. MaxSkipped \in Nat
        BY FragmentAssumption
      <4> QED
        BY <2>5, <4>1
    <3>2. (1 + skipped) * Ticks = Ticks
      BY <1>0, <3>1
    <3>3. incoming' = incoming + Ticks /\ m_errors' = m_errors /\ ipc' = "writing"
      BY <2>1, <2>5, <3>2
    <3>4. IncomingIs(Ticks)'
      <4> SUFFICES ASSUME NEW i \in Slots, Live(i), Rank(i) = Occupancy - 1
                   PROVE  incoming' = timestamp[i] + Ticks
        BY <2>2 DEF IncomingIs, Live, Rank, Occupancy, Ticks
      <4>1. incoming = timestamp[i] + 0
        BY <2>2 DEF ErrorsInv, IncomingIs
      <4> QED
        BY <1>0, <3>3, <4>1
    <3>5. m_errors \subseteq [name : {"MISSING_FRAMES"}, end_ts : Nat]
          /\ (m_errors = {} => FixedSince(0)) /\ \A e \in m_errors : FixedSince(e.end_ts)
      BY DEF ErrorsInv
    <3> QED
      BY <2>3, <3>3, <3>4, <3>5 DEF ErrorsInv
  <2> QED
    BY <2>4, <2>5
<1>4. CASE RegisterGap
  <2>1. /\ ipc = "registering" /\ ipc' = "writing" /\ incoming' = incoming
        /\ UNCHANGED <<timestamp, readIndex_, writeIndex_>>
        /\ m_errors' = m_errors \cup {[name |-> "MISSING_FRAMES", end_ts |-> incoming]}
    BY <1>4 DEF RegisterGap, InsertError, vars, ring
  <2>2. m_errors' = {[name |-> "MISSING_FRAMES", end_ts |-> incoming]}
    BY <2>1 DEF ErrorsInv
  <2>3. FixedSince(incoming)'
    <3>1. FixedSince(incoming)
      <4> SUFFICES ASSUME NEW i \in Slots, Live(i), incoming <= timestamp[i] PROVE FALSE
        BY DEF FixedSince
      <4>1. timestamp[i] + Ticks <= incoming
        BY <1>0, <2>1 DEF InputInv
      <4> QED
        BY <1>0, <4>1
    <3> QED
      BY <2>1, <3>1 DEF FixedSince, Live, Rank, Ticks
  <2>4. m_errors' \subseteq [name : {"MISSING_FRAMES"}, end_ts : Nat] /\ m_errors' # {}
        /\ \A e \in m_errors' : e.end_ts = incoming
    BY <1>0, <2>2
  <2>5. \A e \in m_errors' : FixedSince(e.end_ts)' /\ incoming' = e.end_ts
    <3> SUFFICES ASSUME NEW e \in m_errors' PROVE FixedSince(e.end_ts)' /\ incoming' = e.end_ts
      OBVIOUS
    <3>1. e.end_ts = incoming /\ incoming' = incoming
      BY <2>1, <2>4
    <3> QED
      BY <2>3, <3>1 DEF FixedSince
  <2> QED
    BY <2>1, <2>4, <2>5 DEF ErrorsInv
<1>5. CASE Write
  <2>1. /\ ipc = "writing" /\ ipc' = "idle" /\ UNCHANGED <<incoming, m_errors, readIndex_>>
        /\ Occupancy < Size - 1
        /\ timestamp' = [timestamp EXCEPT ![writeIndex_] = incoming]
        /\ writeIndex_' = NextRecord(writeIndex_)
    BY <1>5 DEF Write
  <2>2. m_errors' = {} => FixedSince(0)'
    BY <1>5, <2>1, WriteFixed DEF ErrorsInv
  <2>3. \A e \in m_errors' : FixedSince(e.end_ts)'
    <3> SUFFICES ASSUME NEW e \in m_errors PROVE FixedSince(e.end_ts)'
      BY <2>1
    <3>1. e.end_ts \in Nat /\ FixedSince(e.end_ts) /\ (IncomingIs(Ticks) \/ incoming = e.end_ts)
      BY <2>1 DEF ErrorsInv
    <3> QED
      BY <1>5, <2>1, <3>1, WriteFixed
  <2>4. IncomingIs(0)'
    <3> SUFFICES ASSUME NEW i \in Slots, Live(i)', Rank(i)' = Occupancy' - 1
                 PROVE  incoming' = timestamp'[i] + 0
      BY DEF IncomingIs
    <3>1. /\ writeIndex_ \in Slots /\ Occupancy' = Occupancy + 1 /\ Rank(writeIndex_) = Occupancy
          /\ timestamp'[writeIndex_] = incoming
          /\ Rank(i)' = Rank(i)
      BY <1>0, <2>1, WriteRing DEF TypeInv, SearchType
    <3>2. Occupancy \in Nat
      BY <1>0, RingFacts, SizeAssumption
    <3>3. Rank(i) = Rank(writeIndex_)
      BY <3>1, <3>2
    <3>4. i = writeIndex_
      BY <1>0, <3>1, <3>3, OccupancyInjective DEF Rank, TypeInv, SearchType
    <3> QED
      BY <1>0, <2>1, <3>1, <3>4
  <2> QED
    BY <2>1, <2>2, <2>3, <2>4 DEF ErrorsInv
<1>6. CASE Cleanup
  <2>1. /\ \A ts : FixedSince(ts) => FixedSince(ts)'
        /\ \A d : IncomingIs(d) => IncomingIs(d)'
        /\ \A i \in Slots : Live(i)' => Live(i) /\ timestamp'[i] = timestamp[i]
        /\ \A i \in Slots : Live(i)' => timestamp'[readIndex_'] <= timestamp'[i]
        /\ readIndex_' \in Slots /\ Live(readIndex_')
        /\ timestamp'[readIndex_'] = timestamp[readIndex_']
    BY <1>6, CleanupKeeps
  <2> DEFINE front == timestamp'[readIndex_']
  <2>2. UNCHANGED <<incoming, ipc>> /\ m_errors' = {e \in m_errors : front <= e.end_ts}
    BY <1>6 DEF Cleanup, RemoveErrorsUntil
  <2>3. ASSUME NEW e \in m_errors, e \notin m_errors'
        PROVE  FixedSince(0)' /\ (ipc = "writing" => IncomingIs(Ticks)')
    <3>1. e.end_ts \in Nat /\ front \in Nat /\ FixedSince(e.end_ts)'
      BY <1>0, <2>1 DEF ErrorsInv
    <3>2. e.end_ts < front
      <4>1. ~(front <= e.end_ts)
        BY <2>2, <2>3
      <4> HIDE DEF front
      <4> QED
        BY <3>1, <4>1
    <3>3. \A i \in Slots : Live(i)' => e.end_ts <= timestamp'[i]
      <4> SUFFICES ASSUME NEW i \in Slots, Live(i)' PROVE e.end_ts <= timestamp'[i]
        OBVIOUS
      <4>1. front <= timestamp'[i] /\ timestamp'[i] \in Nat
        BY <1>0, <2>1
      <4> HIDE DEF front
      <4> QED
        BY <3>1, <3>2, <4>1
    <3>4. FixedSince(0)'
      BY <3>1, <3>3 DEF FixedSince
    <3>5. ASSUME ipc = "writing" PROVE IncomingIs(Ticks)'
      <4>1. front + Ticks <= incoming
        BY <1>0, <2>1, <3>5 DEF InputInv
      <4>2. incoming # e.end_ts
        <5> HIDE DEF front
        <5> QED
          BY <1>0, <3>1, <3>2, <4>1
      <4>3. IncomingIs(Ticks)
        BY <3>5, <4>2 DEF ErrorsInv
      <4> QED
        BY <2>1, <4>3 DEF IncomingIs, Ticks
    <3> QED
      BY <3>4, <3>5
  <2>4. m_errors' = {} => FixedSince(0)' /\ (ipc = "writing" => IncomingIs(Ticks)')
    <3>1. CASE m_errors = {}
      <4>1. FixedSince(0) /\ (ipc = "writing" => IncomingIs(Ticks))
        BY <3>1 DEF ErrorsInv
      <4> QED
        BY <2>1, <4>1 DEF IncomingIs, Ticks
    <3>2. CASE m_errors # {}
      BY <2>3, <3>2
    <3> QED
      BY <3>1, <3>2
  <2>5. \A e \in m_errors' : /\ FixedSince(e.end_ts)'
                             /\ ipc = "writing" => IncomingIs(Ticks)' \/ incoming = e.end_ts
    <3> SUFFICES ASSUME NEW e \in m_errors
                 PROVE  /\ FixedSince(e.end_ts)'
                        /\ ipc = "writing" => IncomingIs(Ticks)' \/ incoming = e.end_ts
      BY <2>2
    <3>1. /\ FixedSince(e.end_ts)
          /\ ipc = "writing" => IncomingIs(Ticks) \/ incoming = e.end_ts
      BY DEF ErrorsInv
    <3>2. IncomingIs(Ticks) => IncomingIs(Ticks)'
      BY <2>1 DEF IncomingIs, Ticks
    <3> QED
      BY <2>1, <3>1, <3>2
  <2>6. m_errors' \subseteq [name : {"MISSING_FRAMES"}, end_ts : Nat]
        /\ (ipc = "idle" => IncomingIs(0)') /\ (ipc = "registering" => m_errors' = {})
    BY <2>1, <2>2 DEF ErrorsInv
  <2> HIDE DEF front
  <2>7. ipc' = ipc /\ incoming' = incoming
    BY <2>2
  <2> QED
    BY <2>4, <2>5, <2>6, <2>7 DEF ErrorsInv
<1> QED
  BY <1>2, <1>3, <1>4, <1>5, <1>6 DEF RequestNext

-----------------------------------------------------------------------------
(* The search of a request.                                                *)

Answers == {"kFound", "kPartial", "kPartiallyOld"}

NewestIsLive == \E i \in Slots : Live(i) /\ timestamp[i] = newest_ts

(* What the search starts from: the element that was the newest when the   *)
(* request was classified is there, not before the window, and up to it    *)
(* no element is missing if no error was found.                            *)
ClassifiedInv ==
  /\ rpc \in {"check", "search", "walk"} \/ result_code \in Answers => NewestIsLive
  /\ rpc \in {"check", "search"} => window.begin <= newest_ts
  /\ rpc = "search" /\ ~with_errors =>
       \A i \in Slots : Live(i) /\ timestamp[i] <= newest_ts =>
         timestamp[i] = timestamp[readIndex_] + Rank(i) * Ticks
  /\ pc # "idle" =>
       element = SearchKey /\ \E i \in Slots : Loaded(i) /\ timestamp[i] = newest_ts

LEMMA Front ==
  ASSUME TypeInv, readIndex_ # writeIndex_
  PROVE  readIndex_ \in Slots /\ Live(readIndex_) /\ Rank(readIndex_) = 0 /\ Occupancy # 0
<1>1. readIndex_ \in Slots /\ writeIndex_ \in Slots
  BY DEF TypeInv, SearchType
<1> QED
  BY <1>1, RingFacts, SizeAssumption DEF Live, Rank, Between, OccupancyOf, Slots

LEMMA NearSearchKey ==
  ASSUME RingInv, ClassifiedInv, rpc = "search", ~with_errors
  PROVE  \A i \in Slots : Live(i) =>
           \/ timestamp[i] = timestamp[readIndex_] + Rank(i) * Ticks
           \/ SearchKey < timestamp[i] /\ SearchKey <= timestamp[readIndex_] + Rank(i) * Ticks
           \/ timestamp[i] < SearchKey /\ timestamp[readIndex_] + Occupancy * Ticks < SearchKey
<1> SUFFICES ASSUME NEW i \in Slots, Live(i)
             PROVE  \/ timestamp[i] = timestamp[readIndex_] + Rank(i) * Ticks
                    \/ /\ SearchKey < timestamp[i]
                       /\ SearchKey <= timestamp[readIndex_] + Rank(i) * Ticks
                    \/ /\ timestamp[i] < SearchKey
                       /\ timestamp[readIndex_] + Occupancy * Ticks < SearchKey
  OBVIOUS
<1> DEFINE key == SearchKey
           front == timestamp[readIndex_]
<1>0. /\ TypeInv /\ Spaced /\ AnswerType /\ readIndex_ # writeIndex_
      /\ window.begin <= newest_ts
  BY DEF RingInv, BaseInv, CallInv, ClassifiedInv
<1>1. /\ readIndex_ \in Slots /\ Live(readIndex_) /\ Rank(readIndex_) = 0 /\ Occupancy # 0
  BY <1>0, Front
<1>2. /\ key \in Nat /\ window.begin \in Nat
      /\ window.begin >= Ticks => key = window.begin - Ticks
      /\ window.begin < Ticks => key = window.begin - Ticks + Modulus
  BY <1>0, SearchKeyFacts DEF AnswerType, WindowType
<1>3. /\ Ticks \in Nat /\ Ticks > 0 /\ Modulus \in Nat /\ Modulus > MaxTimestamp + Ticks + Ticks
      /\ MaxTimestamp \in Nat
  BY TicksType, ModulusBounds, MaxTimestampAssumption
<1>4. \A j \in Slots : timestamp[j] \in Nat /\ timestamp[j] <= MaxTimestamp /\ Rank(j) \in Nat
  BY <1>0, <1>3, RingFacts
<1>5. PICK n \in Slots : Live(n) /\ timestamp[n] = newest_ts
  BY DEF ClassifiedInv, NewestIsLive
<1> HIDE DEF key, SearchKey
<1>6. CASE window.begin < Ticks
  <2>1. key > MaxTimestamp + Ticks
    BY <1>2, <1>3, <1>6
  <2>2. timestamp[i] < key
    BY <1>2, <1>3, <1>4, <2>1
  <2>3. PICK b \in Slots : Live(b) /\ Rank(b) = Occupancy - 1
    BY <1>0, <1>1, Newest
  <2>4. Rank(b) - Rank(readIndex_) = Rank(b) /\ Rank(readIndex_) <= Rank(b) /\ Rank(b) \in Nat
    BY <1>1, <1>4
  <2>5. front + Rank(b) * Ticks <= timestamp[b]
    <3>1. front + (Rank(b) - Rank(readIndex_)) * Ticks <= timestamp[b]
      BY <1>0, <1>1, <2>3, <2>4 DEF Spaced
    <3> QED
      BY <2>4, <3>1
  <2>6. Occupancy = Rank(b) + 1
    <3>1. Occupancy \in Int
      BY <1>0, RingFacts, SizeAssumption
    <3> HIDE DEF Occupancy
    <3> QED
      BY <2>3, <3>1
  <2> DEFINE r == Rank(b)
  <2>7. (r + 1) * Ticks = r * Ticks + Ticks /\ r * Ticks \in Int
    BY <1>3, <2>4, SumOfProducts
  <2>8. front + r * Ticks <= MaxTimestamp /\ front \in Nat
    <3>1. front \in Nat /\ timestamp[b] \in Nat /\ timestamp[b] <= MaxTimestamp
          /\ front + r * Ticks <= timestamp[b]
      BY <1>1, <1>4, <2>5
    <3> HIDE DEF front, r
    <3> QED
      BY <1>3, <2>7, <3>1
  <2> HIDE DEF front, r
  <2>9. front + (r + 1) * Ticks < key
    BY <1>2, <1>3, <2>1, <2>7, <2>8
  <2>10. front + Occupancy * Ticks < key
    BY <2>6, <2>9 DEF r
  <2> QED
    BY <2>2, <2>10 DEF key, front
<1>7. CASE timestamp[i] <= newest_ts
  BY <1>7 DEF ClassifiedInv
<1>8. CASE window.begin >= Ticks /\ ~(timestamp[i] <= newest_ts)
  <2>1. newest_ts \in Nat /\ timestamp[n] = newest_ts /\ newest_ts < timestamp[i]
        /\ key < newest_ts /\ key < timestamp[i]
    BY <1>0, <1>2, <1>3, <1>4, <1>5, <1>8
  <2>2. newest_ts = front + Rank(n) * Ticks
    BY <1>5, <2>1 DEF ClassifiedInv
  <2>3. Rank(n) <= Rank(i)
    <3> SUFFICES ASSUME ~(Rank(n) <= Rank(i)) PROVE FALSE
      OBVIOUS
    <3>1. Rank(i) <= Rank(n)
      BY <1>4
    <3>2. timestamp[i] <= timestamp[n]
      BY <1>0, <1>5, <3>1, LiveSorted
    <3> QED
      BY <1>4, <2>1, <3>2
  <2>4. Rank(n) * Ticks <= Rank(i) * Ticks
    BY <1>3, <1>4, <2>3, ProductMonotonic
  <2>5. Rank(n) * Ticks \in Int /\ Rank(i) * Ticks \in Int /\ front \in Nat
    BY <1>1, <1>3, <1>4
  <2> HIDE DEF front
  <2>6. key <= front + Rank(i) * Ticks
    BY <1>2, <2>1, <2>2, <2>4, <2>5
  <2> QED
    BY <2>1, <2>6 DEF key, front
<1> QED
  BY <1>2, <1>3, <1>6, <1>7, <1>8

(* The search of a request is one that LowerBound's invariant is about. *)
SearchIInv == pc # "idle" => IInv

LEMMA RequestIInv ==
  ASSUME RingInv, RingInv', ClassifiedInv, SearchIInv, [RequestNext]_allVars
  PROVE  SearchIInv'
<1>0. TypeInv /\ TypeInv' /\ (pc' # "idle" => BaseInv')
  BY DEF RingInv, Searching
<1>1. CASE pc' = "idle"
  BY <1>1 DEF SearchIInv
<1>2. CASE CallLowerBound
  <2>1. /\ rpc = "search" /\ element' = SearchKey /\ UNCHANGED <<timestamp, readIndex_>>
        /\ loaded_index' = writeIndex_
        /\ pc' \in {"binary", "fixed"} /\ (pc' = "fixed" => ~with_errors)
    BY <1>2 DEF CallLowerBound, BeginSearch
  <2>2. pc' = "fixed" => FixedNearKey'
    <3> SUFFICES ASSUME ~with_errors PROVE FixedNearKey'
      BY <2>1
    <3>1. \A i \in Slots : Live(i) =>
           \/ timestamp[i] = timestamp[readIndex_] + Rank(i) * Ticks
           \/ SearchKey < timestamp[i] /\ SearchKey <= timestamp[readIndex_] + Rank(i) * Ticks
           \/ timestamp[i] < SearchKey /\ timestamp[readIndex_] + Occupancy * Ticks < SearchKey
      BY <2>1, NearSearchKey
    <3> DEFINE key == SearchKey
    <3>2. element' = key
      BY <2>1
    <3> HIDE DEF key
    <3>3. \A i \in Slots : Live(i) =>
           \/ timestamp[i] = timestamp[readIndex_] + Rank(i) * Ticks
           \/ key < timestamp[i] /\ key <= timestamp[readIndex_] + Rank(i) * Ticks
           \/ timestamp[i] < key /\ timestamp[readIndex_] + Occupancy * Ticks < key
      BY <3>1 DEF key
    <3> QED
      BY <2>1, <3>2, <3>3 DEF FixedNearKey, Live, Loaded, Rank, Occupancy, LoadedOccupancy, Ticks
  <2> QED
    BY <1>0, <2>1, <2>2 DEF SearchIInv, IInv, FoundIsLowerBound, EndOnlyOutside
<1>3. CASE SearchStep
  <2>1. pc # "idle"
    BY <1>3 DEF SearchStep, BinaryStart, BinaryStep, FixedRateLookup
  <2> QED
    BY <1>3, <2>1, BinaryStartIInv, BinaryStepIInv, FixedRateIInv DEF SearchStep, SearchIInv
<1>4. CASE UNCHANGED allVars \/ Answered \/ Preprocess \/ RegisterGap \/ Write
  <2>1. UNCHANGED <<readIndex_, loaded_index, element, pc, start_index, end_index, result>>
    BY <1>4 DEF Answered, Preprocess, RegisterGap, Write, allVars, vars, ring
  <2>2. /\ \A i \in Slots : Live(i) => timestamp'[i] = timestamp[i]
        /\ Occupancy <= Occupancy'
    <3>1. Occupancy \in Int /\ Occupancy <= Occupancy
      BY <1>0, RingFacts, SizeAssumption
    <3>2. CASE UNCHANGED <<timestamp, writeIndex_>>
      BY <2>1, <3>1, <3>2 DEF Occupancy
    <3>3. CASE Write /\ Occupancy < Size - 1
      <4>1. /\ timestamp' = [timestamp EXCEPT ![writeIndex_] = incoming]
            /\ writeIndex_' = NextRecord(writeIndex_) /\ readIndex_' = readIndex_
        BY <3>3 DEF Write
      <4>2. Occupancy' = Occupancy + 1 /\ \A i \in Slots : Live(i) => timestamp'[i] = timestamp[i]
        BY <1>0, <3>3, <4>1, WriteRing
      <4> DEFINE o == Occupancy
      <4>3. o <= o + 1
        <5>1. o \in Int
          BY <3>1
        <5> HIDE DEF o
        <5> QED
          BY <5>1
      <4> QED
        BY <4>2, <4>3
    <3> QED
      BY <1>4, <3>2, <3>3 DEF Answered, Preprocess, RegisterGap, Write, allVars, inputVars, vars, ring
  <2> QED
    BY <1>0, <2>1, <2>2, SearchStays DEF RingInv, SearchIInv
<1>5. CASE \/ Cleanup \/ Classify \/ CheckErrors \/ UseResult
           \/ WalkElement \/ WalkEnds \/ NothingBuffered \/ Respond
  <2>1. pc' = "idle" \/ (pc' = pc /\ rpc # "search")
    BY <1>5 DEF Cleanup, Classify, CheckErrors, UseResult,
                WalkElement, WalkEnds, NothingBuffered, Respond, vars
  <2>2. pc' = "idle"
    BY <2>1 DEF RingInv, CallInv
  <2> QED
    BY <1>1, <2>2
<1> QED
  BY <1>2, <1>3, <1>4, <1>5 DEF RequestNext, RequestStep

(* The walk: the elements before the iterator have been taken, as far as   *)
(* they were there when the request was classified.  If the search key     *)
(* wraps around, the walk may begin anywhere behind them.                  *)
WalkInv ==
  /\ rpc = "walk" => result_code \in Answers
  /\ result_code \in Answers => rpc \in {"walk", "respond", "done"}
  /\ result_code \in Answers /\ window.begin >= Ticks =>
       \A i \in Slots : Live(i) /\ timestamp[i] <= newest_ts =>
         \/ rpc = "walk" /\ start_iter # EndIndex /\ Rank(start_iter) <= Rank(i)
         \/ WindowFramesOf(timestamp[i]) \subseteq Range(frag_pieces)
  /\ result_code = "kFound" => last_ts <= window.begin /\ window.end <= newest_ts
  /\ rpc = "done" => error_bits = ErrorBitsOf(result_code)

(* A payload that is written is newer than all others. *)
LEMMA WriteGrows ==
  ASSUME RingInv, Write
  PROVE  /\ \A i \in Slots : Rank(i)' = Rank(i)
         /\ \A i \in Slots : Live(i) => Live(i)' /\ timestamp'[i] = timestamp[i]
         /\ \A i \in Slots : Live(i)' => Live(i) \/ timestamp'[i] = incoming
         /\ \A i \in Slots : Live(i) => timestamp[i] < incoming
         /\ \A i \in Slots : timestamp[i] \in Nat
         /\ incoming \in Nat
<1>0. TypeInv /\ InputInv /\ ipc = "writing" /\ incoming \in Nat /\ readIndex_' = readIndex_
      /\ \A i \in Slots : timestamp[i] \in Nat
  BY RingFacts DEF RingInv, BaseInv, Write, AnswerType, Timestamps
<1>1. \A i \in Slots : Live(i) => timestamp[i] < incoming
  <2>1. \A i \in Slots : Live(i) => timestamp[i] + Ticks <= incoming
    BY <1>0 DEF InputInv
  <2> QED
    BY <1>0, <2>1, TicksType
<1>2. \A i \in Slots : Rank(i)' = Rank(i)
  BY <1>0 DEF Rank
<1>3. CASE Occupancy < Size - 1
  <2>1. /\ timestamp' = [timestamp EXCEPT ![writeIndex_] = incoming]
        /\ writeIndex_' = NextRecord(writeIndex_)
    BY <1>3 DEF Write
  <2>2. /\ timestamp'[writeIndex_] = incoming
        /\ \A i \in Slots : /\ Live(i)' <=> Live(i) \/ i = writeIndex_
                            /\ Live(i) => timestamp'[i] = timestamp[i]
    BY <1>0, <1>3, <2>1, WriteRing
  <2> QED
    BY <1>0, <1>1, <1>2, <2>2
<1>4. CASE ~(Occupancy < Size - 1)
  <2>1. UNCHANGED <<timestamp, writeIndex_>>
    BY <1>4 DEF Write
  <2> QED
    BY <1>0, <1>1, <1>2, <2>1 DEF Live
<1> QED
  BY <1>3, <1>4

LEMMA NextClassifiedInv ==
  ASSUME RingInv, ErrorsInv, WalkInv, ClassifiedInv, [RequestNext]_allVars
  PROVE  ClassifiedInv'
<1>0. TypeInv /\ AnswerType /\ CallInv
  BY DEF RingInv, BaseInv
<1>1. ASSUME newest_ts' = newest_ts,
             \A i \in Slots : Live(i) => Live(i)' /\ timestamp'[i] = timestamp[i]
      PROVE  NewestIsLive => NewestIsLive'
  BY <1>1 DEF NewestIsLive
<1>2. CASE UNCHANGED allVars \/ Preprocess \/ RegisterGap \/ Answered
  <2>1. UNCHANGED <<vars, writeIndex_, answerVars>>
    BY <1>2 DEF Preprocess, RegisterGap, Answered, allVars, inputVars
  <2> QED
    BY <2>1 DEF ClassifiedInv, NewestIsLive, SearchKey, Live, Loaded, Rank, Ticks, vars, ring, answerVars
<1>3. CASE Write
  <2>1. UNCHANGED <<pc, answerVars, readIndex_, loaded_index, element>>
    BY <1>3 DEF Write
  <2>2. /\ \A i \in Slots : Rank(i)' = Rank(i)
        /\ \A i \in Slots : Live(i) => Live(i)' /\ timestamp'[i] = timestamp[i]
        /\ \A i \in Slots : Live(i)' => Live(i) \/ timestamp'[i] = incoming
        /\ \A i \in Slots : Live(i) => timestamp[i] < incoming
        /\ \A i \in Slots : timestamp[i] \in Nat
        /\ incoming \in Nat
    BY <1>3, WriteGrows
  <2>3. NewestIsLive => NewestIsLive'
    BY <1>1, <2>1, <2>2 DEF answerVars
  <2>4. ASSUME rpc = "search", ~with_errors, NEW i \in Slots, Live(i)', timestamp'[i] <= newest_ts
        PROVE  timestamp'[i] = timestamp'[readIndex_'] + Rank(i)' * Ticks
    <3>1. PICK n \in Slots : Live(n) /\ timestamp[n] = newest_ts
      BY <2>4 DEF ClassifiedInv, NewestIsLive
    <3>2. newest_ts \in Nat /\ newest_ts < incoming
      BY <2>2, <3>1
    <3>3. timestamp'[i] # incoming
      BY <2>2, <2>4, <3>2
    <3>4. Live(i) /\ timestamp'[i] = timestamp[i]
      BY <2>2, <2>4, <3>3
    <3>5. timestamp[i] = timestamp[readIndex_] + Rank(i) * Ticks
      BY <2>4, <3>4 DEF ClassifiedInv
    <3>6. readIndex_ \in Slots /\ Live(readIndex_)
      BY <1>0, <2>4, Front DEF CallInv
    <3> QED
      BY <2>1, <2>2, <3>4, <3>5, <3>6
  <2>5. UNCHANGED <<rpc, result_code, newest_ts, window, with_errors>>
    BY <2>1 DEF answerVars
  <2>6. rpc = "search" /\ ~with_errors =>
          \A i \in Slots : Live(i)' /\ timestamp'[i] <= newest_ts =>
            timestamp'[i] = timestamp'[readIndex_'] + Rank(i)' * Ticks
    BY <2>4
  <2>7. SearchKey' = SearchKey
    BY <2>5 DEF SearchKey, Ticks
  <2>8. ASSUME pc # "idle"
        PROVE  \E i \in Slots : Loaded(i)' /\ timestamp'[i] = newest_ts
    <3>1. PICK i \in Slots : Loaded(i) /\ timestamp[i] = newest_ts
      BY <2>8 DEF ClassifiedInv
    <3>2. Live(i)
      BY <1>0, <2>8, <3>1, LoadedFacts DEF RingInv, Searching
    <3> QED
      BY <2>1, <2>2, <3>1, <3>2 DEF Loaded
  <2> HIDE DEF SearchKey
  <2> QED
    BY <2>1, <2>3, <2>5, <2>6, <2>7, <2>8 DEF ClassifiedInv, Ticks
<1>4. CASE Cleanup
  <2>1. rpc = "requested" /\ pc = "idle" /\ UNCHANGED <<rpc, pc, result_code>>
    BY <1>4 DEF Cleanup, answerVars
  <2> QED
    BY <2>1 DEF ClassifiedInv, WalkInv
<1>5. CASE Classify
  <2>1. /\ rpc = "requested" /\ UNCHANGED <<vars, writeIndex_>> /\ window' = window /\ Occupancy > 0
        /\ newest_ts' = BackTimestamp
        /\ result_code' \notin Answers /\ rpc' \in {"check", "respond"}
        /\ rpc' = "check" => ~(window.begin > newest_ts')
    BY <1>5 DEF Classify, Answers, inputVars
  <2>2. pc = "idle" /\ pc' = "idle"
    BY <1>0, <2>1 DEF CallInv, vars
  <2> DEFINE b == IF writeIndex_ = 0 THEN Size - 1 ELSE writeIndex_ - 1
  <2>3. b \in Slots /\ Live(b)
    BY <1>0, <2>1, SizeAssumption DEF TypeInv, SearchType, Occupancy, OccupancyOf, Live, Between, Slots
  <2>4. newest_ts' = timestamp[b] /\ newest_ts' \in Nat /\ window.begin \in Nat
    BY <1>0, <2>1, <2>3, RingFacts DEF BackTimestamp, AnswerType, WindowType
  <2> HIDE DEF b
  <2>5. NewestIsLive'
    BY <2>1, <2>3, <2>4 DEF NewestIsLive, Live, vars, ring
  <2>6. rpc' = "check" => window.begin <= newest_ts'
    BY <2>1, <2>4
  <2> QED
    BY <2>1, <2>2, <2>5, <2>6 DEF ClassifiedInv
<1>6. CASE CheckErrors
  <2>1. /\ rpc = "check" /\ rpc' = "search" /\ UNCHANGED <<vars, writeIndex_, window, newest_ts>>
        /\ with_errors' = HasError("MISSING_FRAMES")
    BY <1>6 DEF CheckErrors, inputVars
  <2>2. NewestIsLive' /\ window'.begin <= newest_ts' /\ pc' = "idle"
    BY <1>0, <2>1 DEF ClassifiedInv, NewestIsLive, CallInv, Live, vars, ring
  <2>3. ASSUME ~with_errors', NEW i \in Slots, Live(i)
        PROVE  timestamp[i] = timestamp[readIndex_] + Rank(i) * Ticks
    <3>1. m_errors = {}
      <4> SUFFICES ASSUME NEW e \in m_errors PROVE FALSE
        OBVIOUS
      <4>1. e.name = "MISSING_FRAMES"
        BY DEF ErrorsInv
      <4> QED
        BY <2>1, <2>3, <4>1 DEF HasError
    <3>2. readIndex_ \in Slots /\ Live(readIndex_) /\ Rank(readIndex_) = 0
      BY <1>0, <2>1, Front DEF CallInv
    <3>3. Rank(i) \in Nat /\ timestamp[readIndex_] \in Nat
      BY <1>0, <3>2, RingFacts
    <3>4. Rank(readIndex_) <= Rank(i) /\ Rank(i) - Rank(readIndex_) = Rank(i) /\ 0 <= timestamp[readIndex_]
      BY <3>2, <3>3
    <3>5. timestamp[i] = timestamp[readIndex_] + (Rank(i) - Rank(readIndex_)) * Ticks
      BY <2>3, <3>1, <3>2, <3>4 DEF ErrorsInv, FixedSince
    <3> QED
      BY <3>4, <3>5
  <2>4. ~with_errors' => \A i \in Slots : Live(i)' =>
                           timestamp'[i] = timestamp'[readIndex_'] + Rank(i)' * Ticks
    BY <2>1, <2>3 DEF Live, Rank, vars, ring
  <2> QED
    BY <2>2, <2>4 DEF ClassifiedInv, Ticks
<1>7. CASE CallLowerBound \/ SearchStep
  <2>1. /\ UNCHANGED <<timestamp, readIndex_, writeIndex_, answerVars>>
        /\ element' = SearchKey \/ (pc # "idle" /\ element' = element)
    BY <1>7 DEF CallLowerBound, BeginSearch, SearchStep, BinaryStart, BinaryStep, FixedRateLookup,
                Return, Halve, ring, inputVars
  <2>2. element' = SearchKey /\ SearchKey' = SearchKey
    BY <2>1 DEF ClassifiedInv, SearchKey, answerVars, Ticks
  <2> HIDE DEF SearchKey
  <2>3. \E i \in Slots : Loaded(i)' /\ timestamp'[i] = newest_ts'
    <3>1. CASE CallLowerBound
      <4>1. rpc = "search" /\ loaded_index' = writeIndex_
        BY <3>1 DEF CallLowerBound, BeginSearch
      <4>2. PICK i \in Slots : Live(i) /\ timestamp[i] = newest_ts
        BY <4>1 DEF ClassifiedInv, NewestIsLive
      <4> QED
        BY <2>1, <4>1, <4>2 DEF Live, Loaded, answerVars
    <3>2. CASE SearchStep
      <4>1. pc # "idle" /\ loaded_index' = loaded_index
        BY <3>2 DEF SearchStep, BinaryStart, BinaryStep, FixedRateLookup, Return, Halve, ring
      <4> QED
        BY <2>1, <4>1 DEF ClassifiedInv, Loaded, answerVars
    <3> QED
      BY <1>7, <3>1, <3>2
  <2> QED
    BY <2>1, <2>2, <2>3 DEF ClassifiedInv, NewestIsLive, Live, Rank, Ticks, answerVars
<1>8. CASE UseResult \/ WalkElement \/ WalkEnds \/ Respond \/ NothingBuffered
  <2>1. /\ UNCHANGED <<timestamp, readIndex_, writeIndex_, newest_ts>>
        /\ rpc' \in {"walk", "respond", "done"}
        /\ pc' = "idle" \/ (rpc # "search" /\ pc' = pc)
        /\ rpc' = "walk" => rpc \in {"search", "walk"}
        /\ result_code' \in Answers => rpc = "search" \/ result_code \in Answers
    BY <1>8 DEF UseResult, WalkElement, WalkEnds, Respond, NothingBuffered, Answers, vars, ring, inputVars
  <2>2. pc' = "idle"
    BY <1>0, <2>1 DEF CallInv
  <2>3. NewestIsLive => NewestIsLive'
    BY <2>1 DEF NewestIsLive, Live
  <2> QED
    BY <2>1, <2>2, <2>3 DEF ClassifiedInv
<1> QED
  BY <1>2, <1>3, <1>4, <1>5, <1>6, <1>7, <1>8 DEF RequestNext, RequestStep

(* Where the frames of an element are in the window. *)
LEMMA WindowFramesBounds ==
  ASSUME WindowType, NEW e \in Nat
  PROVE  /\ \A f \in WindowFramesOf(e) : f \in Nat /\ e <= f /\ f < e + Ticks
         /\ e + Ticks <= window.begin \/ window.end <= e => WindowFramesOf(e) = {}
<1> DEFINE d == expected_tick_difference
<1>0. window.begin \in Nat /\ window.end \in Nat /\ Ticks \in Nat /\ d \in Nat /\ d > 0
  BY TicksType DEF WindowType
<1>1. \A f \in Range(FramesOf(e)) : f \in Nat /\ e <= f /\ f + d <= e + Ticks
  <2>1. /\ FramesOf(e) \in Seq(Nat) /\ Len(FramesOf(e)) = num_frames
        /\ \A k \in 1 .. num_frames : /\ FramesOf(e)[k] \in Nat /\ e <= FramesOf(e)[k]
                                      /\ FramesOf(e)[k] + d <= e + Ticks
    BY FrameFacts
  <2> QED
    BY <2>1, RangeOf
<1>2. \A f \in WindowFramesOf(e) : f \in Nat /\ e <= f /\ f + d <= e + Ticks
                                  /\ f + d > window.begin /\ f < window.end
  BY <1>1 DEF WindowFramesOf
<1> HIDE DEF d
<1>3. \A f \in WindowFramesOf(e) : f \in Nat /\ e <= f /\ f < e + Ticks
  BY <1>0, <1>2
<1>4. ASSUME e + Ticks <= window.begin \/ window.end <= e PROVE WindowFramesOf(e) = {}
  <2> SUFFICES ASSUME NEW f \in WindowFramesOf(e) PROVE FALSE
    OBVIOUS
  <2>1. f \in Nat /\ e <= f /\ f + d <= e + Ticks /\ f + d > window.begin /\ f < window.end
    BY <1>2
  <2> QED
    BY <1>0, <1>4, <2>1
<1> QED
  BY <1>3, <1>4

LEMMA NextWalkInv ==
  ASSUME RingInv, PiecesInv, SearchIInv, ClassifiedInv, WalkInv, [RequestNext]_allVars
  PROVE  WalkInv'
<1>0. TypeInv /\ AnswerType /\ CallInv /\ Spaced /\ WindowType
  BY DEF RingInv, AnswerType
<1>1. \A i \in Slots : timestamp[i] \in Nat /\ timestamp[i] <= MaxTimestamp /\ Rank(i) \in Nat
  BY <1>0, RingFacts, MaxTimestampAssumption
<1>2. CASE UNCHANGED allVars \/ Preprocess \/ RegisterGap \/ Answered \/ CallLowerBound \/ SearchStep
  <2>1. UNCHANGED <<timestamp, readIndex_, writeIndex_, answerVars>>
    BY <1>2 DEF Preprocess, RegisterGap, Answered, CallLowerBound, BeginSearch, SearchStep,
                BinaryStart, BinaryStep, FixedRateLookup, Return, Halve, allVars, inputVars, vars, ring
  <2>2. \A i \in Slots : /\ Live(i)' <=> Live(i)
                         /\ Rank(i)' = Rank(i)
                         /\ WindowFramesOf(timestamp[i])' = WindowFramesOf(timestamp[i])
    BY <2>1 DEF Live, Rank, WindowFramesOf, FramesOf, answerVars
  <2>3. Rank(start_iter)' = Rank(start_iter) /\ Ticks' = Ticks
    BY <2>1 DEF Rank, Ticks, answerVars
  <2> QED
    BY <2>1, <2>2, <2>3 DEF WalkInv, ErrorBitsOf, answerVars
<1>3. CASE Write
  <2>1. UNCHANGED <<answerVars, readIndex_>>
    BY <1>3 DEF Write
  <2>2. /\ \A i \in Slots : Rank(i)' = Rank(i)
        /\ \A i \in Slots : Live(i) => Live(i)' /\ timestamp'[i] = timestamp[i]
        /\ \A i \in Slots : Live(i)' => Live(i) \/ timestamp'[i] = incoming
        /\ \A i \in Slots : Live(i) => timestamp[i] < incoming
        /\ \A i \in Slots : timestamp[i] \in Nat
        /\ incoming \in Nat
    BY <1>3, WriteGrows
  <2>3. Rank(start_iter)' = Rank(start_iter) /\ Ticks' = Ticks
    BY <2>1 DEF Rank, Ticks, answerVars
  <2>4. ASSUME result_code \in Answers, window.begin >= Ticks,
               NEW i \in Slots, Live(i)', timestamp'[i] <= newest_ts
        PROVE  \/ rpc = "walk" /\ start_iter # EndIndex /\ Rank(start_iter) <= Rank(i)
               \/ WindowFramesOf(timestamp[i])' \subseteq Range(frag_pieces)
    <3>1. PICK n \in Slots : Live(n) /\ timestamp[n] = newest_ts
      BY <2>4 DEF ClassifiedInv, NewestIsLive
    <3>2. newest_ts \in Nat /\ newest_ts < incoming
      BY <2>2, <3>1
    <3>3. timestamp'[i] # incoming
      BY <2>2, <2>4, <3>2
    <3>4. Live(i) /\ timestamp'[i] = timestamp[i]
      BY <2>2, <2>4, <3>3
    <3>5. WindowFramesOf(timestamp[i])' = WindowFramesOf(timestamp[i])
      BY <2>1, <3>4 DEF WindowFramesOf, FramesOf, answerVars
    <3> QED
      BY <2>4, <3>4, <3>5 DEF WalkInv
  <2>5. result_code \in Answers /\ window.begin >= Ticks =>
          \A i \in Slots : Live(i)' /\ timestamp'[i] <= newest_ts =>
            \/ rpc = "walk" /\ start_iter # EndIndex /\ Rank(start_iter) <= Rank(i)
            \/ WindowFramesOf(timestamp[i])' \subseteq Range(frag_pieces)
    BY <2>4
  <2> QED
    BY <2>1, <2>2, <2>3, <2>5 DEF WalkInv, ErrorBitsOf, answerVars
<1>4. CASE Cleanup \/ Classify \/ NothingBuffered \/ CheckErrors
  <2>1. /\ rpc' \notin {"walk", "done"} /\ rpc \in {"requested", "check"}
        /\ result_code' = result_code \/ result_code' \notin Answers
    BY <1>4 DEF Cleanup, Classify, NothingBuffered, CheckErrors, answerVars, Answers
  <2>2. result_code' \notin Answers
    BY <2>1 DEF WalkInv
  <2> QED
    BY <2>1, <2>2 DEF WalkInv, Answers
<1>5. CASE UseResult
  <2>1. /\ rpc = "search" /\ pc = "done" /\ start_iter' = result
        /\ UNCHANGED <<timestamp, readIndex_, writeIndex_, window, newest_ts, last_ts, frag_pieces>>
        /\ \/ result_code' = "kNotFound" /\ rpc' = "respond"
           \/ /\ Good(result) /\ rpc' = "walk"
              /\ result_code' = IF window.end > newest_ts THEN "kPartial"
                                ELSE IF window.begin < last_ts THEN "kPartiallyOld"
                                ELSE "kFound"
    BY <1>5 DEF UseResult, ring, inputVars
  <2>2. CASE result_code' = "kNotFound" /\ rpc' = "respond"
    BY <2>2 DEF WalkInv, Answers
  <2>3. CASE /\ Good(result) /\ rpc' = "walk"
             /\ result_code' = IF window.end > newest_ts THEN "kPartial"
                               ELSE IF window.begin < last_ts THEN "kPartiallyOld"
                               ELSE "kFound"
    <3>1. result \in Slots /\ result # EndIndex /\ Live(result) /\ element = SearchKey
      BY <1>0, <2>1, <2>3 DEF Good, TypeInv, SearchType, ClassifiedInv
    <3>2. PICK n \in Slots : Loaded(n) /\ timestamp[n] = newest_ts
      BY <2>1 DEF ClassifiedInv
    <3>3. \A i \in Slots : /\ Loaded(i) <=> Rank(i) < LoadedOccupancy
                           /\ Loaded(i) /\ Rank(i) < Rank(result) => timestamp[i] <= SearchKey
      <4>1. IInv /\ LoadedLive
        BY <2>1 DEF SearchIInv, RingInv, Searching
      <4> QED
        BY <1>0, <2>1, <3>1, <4>1, LoadedFacts DEF IInv, FoundIsLowerBound
    <3>4. /\ window.begin \in Nat /\ window.end \in Nat /\ window.begin <= newest_ts
          /\ window.begin >= Ticks => SearchKey = window.begin - Ticks
          /\ Ticks \in Nat \ {0}
      BY <1>0, <2>1, SearchKeyFacts, TicksType DEF WindowType, ClassifiedInv
    <3> HIDE DEF SearchKey
    <3>5. ASSUME window.begin >= Ticks, NEW i \in Slots, Live(i), Rank(i) < Rank(result)
          PROVE  timestamp[i] + Ticks <= window.begin
      <4>1. SearchKey < timestamp[n]
        BY <1>1, <3>2, <3>4, <3>5
      <4>2. ~(Rank(n) < Rank(result))
        <5>1. ~(timestamp[n] <= SearchKey)
          BY <1>1, <3>2, <3>4, <3>5, <4>1
        <5> QED
          BY <3>2, <3>3, <5>1
      <4>3. Rank(i) < Rank(n)
        <5>1. Rank(i) \in Nat /\ Rank(n) \in Nat /\ Rank(result) \in Nat
          BY <1>1, <3>1, <3>2, <3>5
        <5> HIDE DEF Rank
        <5> QED
          BY <3>5, <4>2, <5>1
      <4>4. Loaded(i)
        <5>1. Rank(i) \in Int /\ Rank(n) \in Int /\ LoadedOccupancy \in Int
          BY <1>0, <1>1, OccupancyRange, SizeAssumption DEF LoadedOccupancy, TypeInv, SearchType
        <5>2. Rank(n) < LoadedOccupancy
          BY <3>2, <3>3
        <5>3. Rank(i) < LoadedOccupancy
          <6> HIDE DEF Rank, LoadedOccupancy
          <6> QED
            BY <4>3, <5>1, <5>2
        <5> QED
          BY <3>3, <5>3
      <4>5. timestamp[i] <= SearchKey
        BY <3>3, <3>5, <4>4
      <4> QED
        BY <1>1, <3>4, <3>5, <4>5
    <3>6. ASSUME window.begin >= Ticks, NEW i \in Slots, Live(i)
          PROVE  Rank(result) <= Rank(i) \/ WindowFramesOf(timestamp[i]) = {}
      <4>1. CASE Rank(i) < Rank(result)
        <5>1. timestamp[i] + Ticks <= window.begin
          BY <3>5, <3>6, <4>1
        <5> QED
          BY <1>0, <1>1, <5>1, WindowFramesBounds
      <4>2. CASE ~(Rank(i) < Rank(result))
        BY <1>1, <3>1, <4>2
      <4> QED
        BY <4>1, <4>2
    <3>7. result_code' = "kFound" => last_ts <= window.begin /\ window.end <= newest_ts
      BY <1>0, <2>3, <3>4 DEF AnswerType
    <3>8. window.begin >= Ticks =>
            \A i \in Slots : Live(i)' => \/ Rank(start_iter)' <= Rank(i)'
                                         \/ WindowFramesOf(timestamp[i])' = {}
      BY <2>1, <3>6 DEF Live, Rank, WindowFramesOf, FramesOf
    <3>9. result_code' \in Answers /\ Ticks' = Ticks
      BY <2>3 DEF Ticks, Answers
    <3> QED
      BY <2>1, <2>3, <3>1, <3>7, <3>8, <3>9 DEF WalkInv
  <2> QED
    BY <2>1, <2>2, <2>3
<1>6. CASE WalkElement
  <2> DEFINE e == timestamp[start_iter]
             p == PiecesOf(e)
             next == NextRecord(start_iter)
  <2>1. /\ UNCHANGED <<timestamp, readIndex_, writeIndex_, window, newest_ts, last_ts, result_code>>
        /\ rpc = "walk" /\ rpc' = "walk" /\ InWalk
        /\ frag_pieces' = frag_pieces \o p
        /\ start_iter' = IF Good(next) THEN next ELSE EndIndex
    BY <1>6 DEF WalkElement, vars, ring, inputVars
  <2>2. start_iter \in Slots /\ start_iter # EndIndex /\ Live(start_iter) /\ e < window.end
    BY <1>0, <2>1 DEF InWalk, Good, AnswerType
  <2>3. e \in Nat /\ result_code \in Answers
    BY <1>1, <2>1, <2>2 DEF WalkInv
  <2>4. p \in Seq(Nat) /\ (window.begin >= Ticks => WindowFramesOf(e) \subseteq Range(p))
    BY <1>0, <2>2, <2>3, PiecesFacts
  <2>5. Range(frag_pieces) \subseteq Range(frag_pieces') /\ Range(p) \subseteq Range(frag_pieces')
    <3> HIDE DEF p
    <3>1. frag_pieces \in Seq(Nat)
      BY <1>0 DEF AnswerType
    <3>2. /\ frag_pieces' \in Seq(Nat) /\ Len(frag_pieces') = Len(frag_pieces) + Len(p)
          /\ \A k \in 1 .. Len(frag_pieces) : frag_pieces'[k] = frag_pieces[k]
          /\ \A k \in 1 .. Len(p) : frag_pieces'[Len(frag_pieces) + k] = p[k]
      BY <2>1, <2>4, <3>1
    <3>3. /\ \A f : f \in Range(frag_pieces') <=> \E k \in 1 .. Len(frag_pieces') : f = frag_pieces'[k]
          /\ \A f : f \in Range(frag_pieces) <=> \E k \in 1 .. Len(frag_pieces) : f = frag_pieces[k]
          /\ \A f : f \in Range(p) <=> \E k \in 1 .. Len(p) : f = p[k]
      BY <2>4, <3>1, <3>2, RangeOf
    <3>4. /\ \A k \in 1 .. Len(frag_pieces) : k \in 1 .. Len(frag_pieces')
          /\ \A k \in 1 .. Len(p) : Len(frag_pieces) + k \in 1 .. Len(frag_pieces')
      <4>1. Len(frag_pieces) \in Nat /\ Len(p) \in Nat
        BY <2>4, <3>1
      <4> QED
        BY <3>2, <4>1
    <3>5. ASSUME NEW f \in Range(frag_pieces) PROVE f \in Range(frag_pieces')
      <4>1. PICK k \in 1 .. Len(frag_pieces) : f = frag_pieces[k]
        BY <3>3
      <4>2. k \in 1 .. Len(frag_pieces') /\ f = frag_pieces'[k]
        BY <3>2, <3>4, <4>1
      <4> QED
        BY <3>3, <4>2
    <3>6. ASSUME NEW f \in Range(p) PROVE f \in Range(frag_pieces')
      <4>1. PICK k \in 1 .. Len(p) : f = p[k]
        BY <3>3
      <4> DEFINE j == Len(frag_pieces) + k
      <4>2. j \in 1 .. Len(frag_pieces') /\ f = frag_pieces'[j]
        BY <3>2, <3>4, <4>1
      <4> HIDE DEF j
      <4> QED
        BY <3>3, <4>2
    <3> QED
      BY <3>5, <3>6
  <2>6. ASSUME window.begin >= Ticks, NEW i \in Slots, Live(i), timestamp[i] <= newest_ts
        PROVE  \/ start_iter' # EndIndex /\ OccupancyOf(start_iter', readIndex_) <= Rank(i)
               \/ WindowFramesOf(timestamp[i]) \subseteq Range(frag_pieces')
    <3>1. CASE WindowFramesOf(timestamp[i]) \subseteq Range(frag_pieces)
      BY <2>5, <3>1
    <3>2. CASE i = start_iter
      BY <2>4, <2>5, <2>6, <3>2
    <3>3. CASE Rank(start_iter) <= Rank(i) /\ i # start_iter
      <4>1. Rank(start_iter) # Rank(i)
        BY <1>0, <2>2, <3>3, OccupancyInjective DEF Rank, TypeInv, SearchType
      <4>2. Rank(start_iter) + 1 <= Rank(i) /\ Rank(i) < Occupancy /\ Occupancy \in Nat
        <5>1. Rank(i) < Occupancy /\ Occupancy \in Nat
          BY <1>0, <2>6, RingFacts, SizeAssumption
        <5>2. Rank(start_iter) \in Nat /\ Rank(i) \in Nat /\ Rank(start_iter) <= Rank(i)
          BY <1>1, <2>2, <3>3
        <5> HIDE DEF Rank, Occupancy
        <5> QED
          BY <4>1, <5>1, <5>2
      <4>3. Rank(start_iter) # Occupancy - 1
        <5>1. Rank(start_iter) \in Nat /\ Rank(i) \in Nat
          BY <1>1, <2>2
        <5> HIDE DEF Rank, Occupancy
        <5> QED
          BY <4>2, <5>1
      <4>4. next \in Slots /\ Live(next) /\ Rank(next) = Rank(start_iter) + 1
        BY <1>0, <2>2, <4>3, NextSlot
      <4>5. next # EndIndex
        BY <4>4, SizeAssumption DEF EndIndex, Slots
      <4>6. start_iter' = next
        BY <2>1, <4>4, <4>5 DEF Good
      <4> QED
        BY <4>2, <4>4, <4>5, <4>6 DEF Rank
    <3> QED
      BY <2>3, <2>6, <3>1, <3>2, <3>3 DEF WalkInv
  <2>7. window.begin >= Ticks =>
          \A i \in Slots : Live(i)' /\ timestamp'[i] <= newest_ts' =>
            \/ rpc' = "walk" /\ start_iter' # EndIndex /\ Rank(start_iter)' <= Rank(i)'
            \/ WindowFramesOf(timestamp[i])' \subseteq Range(frag_pieces')
    BY <2>1, <2>6 DEF Live, Rank, WindowFramesOf, FramesOf
  <2>8. window' = window /\ Ticks' = Ticks /\ result_code' \in Answers
    BY <2>1, <2>3 DEF Ticks
  <2>9. result_code' = "kFound" => last_ts' <= window'.begin /\ window'.end <= newest_ts'
    BY <2>1 DEF WalkInv
  <2> QED
    BY <2>1, <2>7, <2>8, <2>9 DEF WalkInv
<1>7. CASE WalkEnds \/ Respond
  <2>1. /\ UNCHANGED <<timestamp, readIndex_, writeIndex_, window, newest_ts, last_ts, result_code,
                       frag_pieces>>
        /\ \/ rpc = "walk" /\ ~InWalk /\ rpc' = "respond"
           \/ rpc = "respond" /\ rpc' = "done" /\ error_bits' = ErrorBitsOf(result_code)
    BY <1>7 DEF WalkEnds, Respond, vars, ring, inputVars
  <2>2. ASSUME result_code \in Answers, window.begin >= Ticks,
               NEW i \in Slots, Live(i), timestamp[i] <= newest_ts
        PROVE  WindowFramesOf(timestamp[i]) \subseteq Range(frag_pieces)
    <3>1. CASE rpc = "walk" /\ start_iter # EndIndex /\ Rank(start_iter) <= Rank(i)
      <4>1. start_iter \in Slots /\ Live(start_iter)
        BY <1>0, <3>1 DEF PiecesInv, AnswerType
      <4>2. ~(timestamp[start_iter] < window.end)
        BY <2>1, <3>1, <4>1 DEF InWalk, Good
      <4>3. timestamp[start_iter] <= timestamp[i]
        BY <1>0, <2>2, <3>1, <4>1, LiveSorted
      <4>4. window.end <= timestamp[i]
        BY <1>0, <1>1, <4>1, <4>2, <4>3 DEF WindowType
      <4>5. WindowFramesOf(timestamp[i]) = {}
        BY <1>0, <1>1, <4>4, WindowFramesBounds
      <4> QED
        BY <4>5
    <3> QED
      BY <2>2, <3>1 DEF WalkInv
  <2>3. window.begin >= Ticks =>
          \A i \in Slots : Live(i)' /\ timestamp'[i] <= newest_ts' /\ result_code' \in Answers =>
            WindowFramesOf(timestamp[i])' \subseteq Range(frag_pieces')
    BY <2>1, <2>2 DEF Live, WindowFramesOf, FramesOf
  <2>4. result_code' = "kFound" => last_ts' <= window'.begin /\ window'.end <= newest_ts'
    BY <2>1 DEF WalkInv
  <2>5. rpc' = "done" => error_bits' = ErrorBitsOf(result_code)'
    BY <2>1 DEF ErrorBitsOf
  <2>6. rpc' \in {"respond", "done"} /\ window' = window /\ Ticks' = Ticks
    BY <2>1 DEF Ticks
  <2> QED
    BY <2>3, <2>4, <2>5, <2>6 DEF WalkInv
<1> QED
  BY <1>2, <1>3, <1>4, <1>5, <1>6, <1>7 DEF RequestNext, RequestStep

-----------------------------------------------------------------------------
(* What a fragment has, if there is never a second gap and no payload is   *)
(* refused.                                                                *)

RequestInv == RingInv /\ PiecesInv /\ ErrorsInv /\ ClassifiedInv /\ WalkInv /\ SearchIInv

LEMMA InitRequestInv == RequestInit => RequestInv
<1> SUFFICES ASSUME RequestInit PROVE RequestInv
  OBVIOUS
<1>1. RingInv /\ PiecesInv /\ ErrorsInv
  BY InitRingInv, InitPiecesInv, InitErrorsInv
<1>2. rpc = "requested" /\ pc = "idle" /\ result_code = "kUnknown"
  BY DEF RequestInit
<1>3. ClassifiedInv /\ WalkInv
  BY <1>2 DEF ClassifiedInv, WalkInv, Answers
<1>4. SearchIInv
  BY <1>2 DEF SearchIInv
<1> QED
  BY <1>1, <1>3, <1>4 DEF RequestInv

LEMMA RequestInvariance ==
  ASSUME Mishaps = {}
  PROVE  RequestSpec => []RequestInv
<1>1. RequestInv /\ [RequestNext]_allVars => RequestInv'
  <2> SUFFICES ASSUME RequestInv, [RequestNext]_allVars PROVE RequestInv'
    OBVIOUS
  <2>1. RingInv /\ PiecesInv /\ ErrorsInv /\ ClassifiedInv /\ WalkInv /\ SearchIInv
    BY DEF RequestInv
  <2>2. RingInv'
    BY <2>1, NextRingInv
  <2>3. PiecesInv'
    BY <2>1, <2>2, NextPiecesInv
  <2>4. ErrorsInv'
    BY <2>1, NextErrorsInv
  <2>5. ClassifiedInv'
    BY <2>1, NextClassifiedInv
  <2>6. WalkInv'
    BY <2>1, NextWalkInv
  <2>7. SearchIInv'
    BY <2>1, <2>2, RequestIInv
  <2> QED
    BY <2>2, <2>3, <2>4, <2>5, <2>6, <2>7 DEF RequestInv
<1>2. RequestSpec => RequestInit /\ [][RequestNext]_allVars
  BY PTL DEF RequestSpec
<1> QED
  BY <1>1, <1>2, InitRequestInv, PTL

(* A fragment without error bits is complete: for every ring, element,     *)
(* window and number of missing elements, whatever is written during the   *)
(* search and the walk and whichever lower_bound() the buffer has, as long *)
(* as there is no gap while another one is registered and the ring refuses *)
(* nothing.  For a window that begins before one element's ticks only the  *)
(* first half holds: that the buffer reached over the window when the      *)
(* request was classified.                                                 *)
THEOREM CompleteSafety ==
  ASSUME Mishaps = {}
  PROVE  RequestSpec => []NoErrorBitsMeansComplete
<1>1. RequestInv => NoErrorBitsMeansComplete
  <2> SUFFICES ASSUME RequestInv, rpc = "done", error_bits = {}
               PROVE  /\ last_ts <= window.begin /\ window.end <= newest_ts
                      /\ ~KeyWraps => Range(frag_pieces) = FramesInWindow
    BY DEF NoErrorBitsMeansComplete
  <2>0. RingInv /\ PiecesInv /\ WalkInv /\ TypeInv /\ AnswerType /\ WindowType
    BY DEF RequestInv, RingInv, BaseInv, AnswerType
  <2>1. result_code = "kFound"
    <3>1. ErrorBitsOf(result_code) = {}
      BY <2>0 DEF WalkInv
    <3> QED
      BY <3>1 DEF ErrorBitsOf
  <2>2. last_ts <= window.begin /\ window.end <= newest_ts
    BY <2>0, <2>1 DEF WalkInv
  <2>3. Range(frag_pieces) \subseteq FramesInWindow
    BY <2>0 DEF PiecesInv, PiecesInWindowInOrder
  <2>4. ASSUME ~KeyWraps, NEW f \in FramesInWindow PROVE f \in Range(frag_pieces)
    <3>0. window.begin >= Ticks
      BY <2>0, <2>4, TicksType DEF KeyWraps, WindowType
    <3>1. PICK i \in Slots : Live(i) /\ f \in WindowFramesOf(timestamp[i])
      BY InWindow
    <3>2. timestamp[i] \in Nat /\ window.end \in Nat /\ newest_ts \in Nat
      BY <2>0, RingFacts DEF AnswerType, WindowType
    <3>3. ~(window.end <= timestamp[i])
      BY <2>0, <3>1, <3>2, WindowFramesBounds
    <3>4. timestamp[i] <= newest_ts
      BY <2>2, <3>2, <3>3
    <3> QED
      BY <2>0, <2>1, <3>0, <3>1, <3>4 DEF WalkInv, Answers
  <2> QED
    BY <2>2, <2>3, <2>4
<1> QED
  BY <1>1, RequestInvariance, PTL

(* A partial fragment has every frame of the window that was in the buffer *)
(* when the request was classified, under the same assumptions, unless the *)
(* window begins before one element's ticks.                               *)
THEOREM PartialSafety ==
  ASSUME Mishaps = {}
  PROVE  RequestSpec => []PartialHasWhatWasThere
<1>1. RequestInv => PartialHasWhatWasThere
  <2> SUFFICES ASSUME RequestInv, rpc = "done", result_code = "kPartial", ~KeyWraps,
                      NEW f \in FramesInWindow, f < newest_ts + Ticks
               PROVE  f \in Range(frag_pieces)
    BY DEF PartialHasWhatWasThere
  <2>0. RingInv /\ WalkInv /\ ClassifiedInv /\ TypeInv /\ AnswerType /\ WindowType /\ Spaced
    BY DEF RequestInv, RingInv, BaseInv, AnswerType
  <2>1. PICK i \in Slots : Live(i) /\ f \in WindowFramesOf(timestamp[i])
    BY InWindow
  <2>2. PICK n \in Slots : Live(n) /\ timestamp[n] = newest_ts
    BY <2>0 DEF ClassifiedInv, NewestIsLive, Answers
  <2>3. \A j \in Slots : timestamp[j] \in Nat /\ Rank(j) \in Nat
    BY <2>0, RingFacts
  <2>4. f \in Nat /\ timestamp[i] <= f /\ Ticks \in Nat
    BY <2>0, <2>1, <2>3, WindowFramesBounds, TicksType
  <2>5. timestamp[i] <= newest_ts
    <3>1. CASE Rank(i) <= Rank(n)
      <4>1. timestamp[i] + (Rank(n) - Rank(i)) * Ticks <= timestamp[n]
        BY <2>0, <2>1, <2>2, <3>1 DEF Spaced
      <4>2. Rank(n) - Rank(i) \in Nat
        BY <2>3, <3>1
      <4> QED
        BY <2>2, <2>3, <4>1, <4>2, SpacedMeansLater
    <3>2. CASE ~(Rank(i) <= Rank(n))
      <4> DEFINE k == Rank(i) - Rank(n)
      <4>1. k \in Nat /\ 1 <= k /\ Rank(n) <= Rank(i)
        BY <2>3, <3>2
      <4>2. timestamp[n] + k * Ticks <= timestamp[i]
        BY <2>0, <2>1, <2>2, <4>1 DEF Spaced
      <4> HIDE DEF k
      <4>3. 1 * Ticks <= k * Ticks /\ 1 * Ticks = Ticks /\ k * Ticks \in Int
        BY <2>4, <4>1, ProductMonotonic
      <4>4. newest_ts + Ticks <= timestamp[i]
        BY <2>2, <2>3, <2>4, <4>2, <4>3
      <4> QED
        BY <2>2, <2>3, <2>4, <4>4
    <3> QED
      BY <3>1, <3>2
  <2>6. window.begin >= Ticks
    BY <2>0, <2>4 DEF KeyWraps, WindowType
  <2> QED
    BY <2>0, <2>1, <2>5, <2>6 DEF WalkInv, Answers
<1> QED
  BY <1>1, RequestInvariance, PTL

(* In a request, too, a search reads only slots that held an element when  *)
(* it loaded the indices, and these still hold one: whatever mishaps there *)
(* were and whatever is written during the search.                         *)
THEOREM RequestSearchSafety ==
  RequestSpec => [](SearchReadsLiveSlots /\ (pc = "search" => Live(Middle)))
<1>1. RingInv => SearchReadsLiveSlots /\ (pc = "search" => Live(Middle))
  <2> SUFFICES ASSUME RingInv, pc = "search"
               PROVE  Middle \in Slots /\ Loaded(Middle) /\ Live(Middle)
    BY DEF SearchReadsLiveSlots
  <2>1. TypeInv /\ SearchType /\ SearchInv /\ LoadedLive
    BY DEF RingInv, Searching, BaseInv
  <2>2. Middle \in Slots /\ Loaded(Middle)
    BY <2>1, MiddleRank
  <2> QED
    BY <2>1, <2>2, LoadedFacts
<1> QED
  BY <1>1, RequestRingInv, PTL

(* In a request, too, lower_bound() returns where the elements not before  *)
(* the search key begin among those it has loaded, although others are     *)
(* published during the search, the lookup by division is used as soon as  *)
(* no error is registered, when gaps may come in behind the newest element *)
(* and the search key may wrap around below zero.                          *)
THEOREM RequestLowerBound ==
  ASSUME Mishaps = {}
  PROVE  RequestSpec => []ReturnsLowerBound
<1>1. RequestInv => ReturnsLowerBound
  BY DEF RequestInv, SearchIInv, IInv, ReturnsLowerBound, FoundIsLowerBound, EndOnlyOutside
<1> QED
  BY <1>1, RequestInvariance, PTL
==============================================================================
