--------------------------- MODULE Storage_proofs ---------------------------
(***************************************************************************)
(* Proofs about memory and files: BufferMemory, for any set of             *)
(* configurations that have an allocator, any sizes and any number of      *)
(* calls; ZeroCopyRecording, for any sizes of frames, chunks, buffer and   *)
(* alignment; FileRecording, for any sizes of elements, buffer and         *)
(* alignment, with and without O_DIRECT.                                   *)
(***************************************************************************)
EXTENDS BufferMemory, ZeroCopyRecording, FileRecording, SequenceTheorems, TLAPS

(* BufferMemory. *)

(* What allocate_memory() makes of a configuration: memory or an exception *)
(* (not the silence of Allocator's "none").  On a node that exists NUMA    *)
(* memory comes from libnuma, and _mm_malloc is asked with an alignment.   *)
HasAllocator(c) ==
  /\ c.numa_aware => c.low_node
  /\ c.intrinsic => c.aligned \/ c.numa_aware

Owned == {"malloc", "aligned", "mm", "numa"}
Gone  == {"null", "freed"}

(* The control thread's places between the successful allocation of conf() *)
(* and its return.                                                         *)
Prefilling == {"trigger", "notify", "await", "join"}

MemoryType ==
  /\ libnuma \in BOOLEAN /\ wrongly_freed \in BOOLEAN
  /\ block \in Owned \cup Gone /\ slots \in Nat /\ live \in Int
  /\ size_ \in Nat /\ numa_aware_ \in BOOLEAN /\ intrinsic_allocator_ \in BOOLEAN
  /\ mpc \in {"unconfigured", "allocate", "check", "configured", "failed", "scrapping",
              "destroyed"} \cup Prefilling
  /\ mpc \in {"allocate", "check"} => cfg \in Configurations

(* One block is live as long as records_ points to one. *)
LiveInv == live = IF block \in Gone THEN 0 ELSE 1

(* Where the control thread is between a free and an allocation, or after  *)
(* an allocation that failed, there is none; otherwise it has room for     *)
(* size_ elements.                                                         *)
PlaceInv ==
  /\ mpc \in {"allocate", "failed", "scrapping", "destroyed"} => block \in Gone
  /\ mpc \in {"unconfigured", "check"} => block # "freed"
  /\ mpc \in Prefilling \cup {"configured"} => block \in Owned
  /\ (mpc \in Prefilling \cup {"check", "configured"} /\ block \in Owned) => slots = size_

(* free_memory() always knows a function: the flag for NUMA memory is set  *)
(* only in builds with libnuma.                                            *)
FlagInv == numa_aware_ => libnuma

MemoryInv == MemoryType /\ LiveInv /\ PlaceInv /\ FlagInv

(* free_memory() leaves no live block. *)
LEMMA FreeLeavesNone ==
  ASSUME MemoryInv, Free
  PROVE  /\ block' \in Gone /\ live' = 0
         /\ UNCHANGED <<libnuma, slots>>
         /\ wrongly_freed' \in BOOLEAN
<1>1. DOMAIN FreedBy = Owned
  BY DEF FreedBy, Owned
<1>2. FreeFunction # "none"
  BY DEF MemoryInv, FlagInv, MemoryType, FreeFunction
<1> QED
  BY <1>1, <1>2 DEF MemoryInv, MemoryType, LiveInv, Free, Owned, Gone

(* An allocation gives one block, if there was none, or none. *)
LEMMA NewBlockOwned ==
  ASSUME LiveInv, block \in Gone, NEW from \in Owned, NEW n \in Nat, NewBlock(from, n)
  PROVE  /\ LiveInv'
         /\ block' = "null" \/ (block' = from /\ slots' = n)
         /\ slots' \in Nat
         /\ UNCHANGED <<libnuma, wrongly_freed>>
BY DEF LiveInv, NewBlock, Owned, Gone

(* A configuration with an allocator is given memory, or conf() throws;    *)
(* NUMA memory is never asked for in vain.                                 *)
LEMMA AllocatorOwned ==
  ASSUME NEW c \in Configurations, HasAllocator(c), libnuma \in BOOLEAN,
         Allocator(c) # "throws"
  PROVE  Allocator(c) \in Owned /\ (c.numa_aware => libnuma)
BY MemoryAssumption DEF HasAllocator, Allocator, Owned

LEMMA InitMemoryInv == MemoryInit => MemoryInv
<1> SUFFICES ASSUME MemoryInit PROVE MemoryInv
  OBVIOUS
<1>1. MemoryType
  <2>1. /\ libnuma \in BOOLEAN /\ wrongly_freed \in BOOLEAN
        /\ numa_aware_ \in BOOLEAN /\ intrinsic_allocator_ \in BOOLEAN
    BY Zenon DEF MemoryInit
  <2>2. slots \in Nat /\ live \in Int /\ size_ \in Nat
    BY DEF MemoryInit
  <2>3. block = "malloc" /\ mpc = "unconfigured"
    BY DEF MemoryInit
  <2> QED
    BY <2>1, <2>2, <2>3 DEF MemoryType, Owned
<1>2. LiveInv
  BY DEF MemoryInit, LiveInv, Gone
<1>3. PlaceInv /\ FlagInv
  BY DEF MemoryInit, PlaceInv, FlagInv, Owned, Gone, Prefilling
<1> QED
  BY <1>1, <1>2, <1>3 DEF MemoryInv

(* Each step keeps the invariant; the prefiller and the hand-shake do not  *)
(* touch memory.                                                           *)
LEMMA NextMemoryInv ==
  ASSUME \A c \in Configurations : HasAllocator(c)
  PROVE  MemoryInv /\ [MemoryNext]_queueVars => MemoryInv'
<1> SUFFICES ASSUME MemoryInv, [MemoryNext]_queueVars PROVE MemoryInv'
  OBVIOUS
<1> USE DEF MemoryInv, queueVars, memoryVars, shapeVars, prefillFrame
<1>1. ASSUME NEW c \in Configurations, ConfBegin(c) PROVE MemoryInv'
  BY <1>1, FreeLeavesNone DEF ConfBegin, MemoryType, LiveInv, PlaceInv, FlagInv, Owned, Gone, Prefilling
<1>2. CASE ScrapBegin
  BY <1>2, FreeLeavesNone DEF ScrapBegin, MemoryType, LiveInv, PlaceInv, FlagInv, Owned, Gone, Prefilling
<1>3. CASE Destroy
  BY <1>3, FreeLeavesNone DEF Destroy, MemoryType, LiveInv, PlaceInv, FlagInv, Owned, Gone, Prefilling
<1>4. CASE ConfAllocate
  <2>1. cfg \in Configurations /\ block \in Gone /\ cfg.size \in Nat
        /\ cfg.numa_aware \in BOOLEAN /\ cfg.intrinsic \in BOOLEAN
    BY <1>4, MemoryAssumption DEF ConfAllocate, MemoryType, PlaceInv
  <2>2. Allocator(cfg) \in Owned /\ (cfg.numa_aware => libnuma)
    BY <1>4, <2>1, AllocatorOwned DEF ConfAllocate, MemoryType
  <2>3. NewBlock(Allocator(cfg), cfg.size)
    BY <1>4, <2>2 DEF ConfAllocate, Owned
  <2>4. /\ LiveInv'
        /\ block' = "null" \/ (block' \in Owned /\ slots' = cfg.size)
        /\ slots' \in Nat /\ UNCHANGED <<libnuma, wrongly_freed>>
    BY <2>1, <2>2, <2>3, NewBlockOwned
  <2>5. live' \in Int
    BY <2>4 DEF LiveInv
  <2> QED
    BY <1>4, <2>1, <2>2, <2>4, <2>5
       DEF ConfAllocate, MemoryType, PlaceInv, FlagInv, Owned, Gone, Prefilling
<1>5. CASE ScrapEnd
  <2>1. /\ LiveInv'
        /\ block' \in {"null", "malloc"}
        /\ slots' \in Nat /\ UNCHANGED <<libnuma, wrongly_freed>>
    BY <1>5, NewBlockOwned DEF ScrapEnd, PlaceInv, Owned
  <2>2. live' \in Int
    BY <2>1 DEF LiveInv
  <2> QED
    BY <1>5, <2>1, <2>2 DEF ScrapEnd, MemoryType, PlaceInv, FlagInv, Owned, Gone, Prefilling
<1>6. CASE ConfThrows
  BY <1>6 DEF ConfThrows, MemoryType, LiveInv, PlaceInv, FlagInv, Owned, Gone, Prefilling
<1>7. CASE ConfCheck
  BY <1>7 DEF ConfCheck, MemoryType, LiveInv, PlaceInv, FlagInv, Owned, Gone, Prefilling
<1>8. CASE Trigger \/ TriggerNotify \/ AwaitDone \/ Join
  BY <1>8 DEF Trigger, TriggerNotify, AwaitDone, Join,
              MemoryType, LiveInv, PlaceInv, FlagInv, Owned, Gone, Prefilling
<1>9. CASE Prefiller \/ SpuriousWakeup
  BY <1>9 DEF Prefiller, PrefillLock, PrefillWrite, PrefillDone, PrefillNotify,
              SpuriousWakeup, MemoryType, LiveInv, PlaceInv, FlagInv
<1>10. CASE UNCHANGED queueVars
  BY <1>10 DEF MemoryType, LiveInv, PlaceInv, FlagInv
<1> QED
  BY <1>1, <1>2, <1>3, <1>4, <1>5, <1>6, <1>7, <1>8, <1>9, <1>10
     DEF MemoryNext, Control, Finished

(* Between calls the buffer owns one block, or none after an allocation    *)
(* that failed; a conf() that has returned leaves room for the size it was *)
(* asked for, and the destructor leaves no block behind (conf, scrap and   *)
(* free_memory of IterableQueueModel), for all configurations to which     *)
(* allocate_memory() gives an allocator.                                   *)
THEOREM MemoryOwned ==
  ASSUME \A c \in Configurations : HasAllocator(c)
  PROVE  MemorySpec => []OwnsUsableMemory
<1>1. MemoryInv => OwnsUsableMemory
  BY DEF MemoryInv, MemoryType, LiveInv, PlaceInv, OwnsUsableMemory, FreedBy, Owned, Gone, Prefilling
<1> QED
  BY InitMemoryInv, NextMemoryInv, <1>1, PTL DEF MemorySpec

-----------------------------------------------------------------------------
(* Which function frees the block. *)

(* The flags that free_memory() looks at are those of the block's          *)
(* allocator.  In a build with libnuma no conf() throws, so that the       *)
(* pointer to a freed block is never met again.                            *)
FreeInv ==
  /\ libnuma
  /\ ~wrongly_freed
  /\ mpc = "failed" => block = "null"
  /\ (block \in Owned /\ mpc # "allocate") => FreeFunction = FreedBy[block]

LEMMA SupportedHasAllocator ==
  ASSUME NEW c, IsSupported(c)
  PROVE  HasAllocator(c)
BY DEF IsSupported, HasAllocator

LEMMA NextFreeInv ==
  ASSUME \A c \in Configurations : IsSupported(c)
  PROVE  MemoryInv /\ FreeInv /\ [MemoryNext]_queueVars => FreeInv'
<1> SUFFICES ASSUME MemoryInv, FreeInv, [MemoryNext]_queueVars PROVE FreeInv'
  OBVIOUS
<1> USE DEF queueVars, memoryVars, shapeVars, prefillFrame
<1>0. DOMAIN FreedBy = Owned
  BY DEF FreedBy, Owned
<1>1. ASSUME Free, mpc \in {"unconfigured", "configured", "failed"}
      PROVE  ~wrongly_freed' /\ libnuma' /\ block' \notin Owned
  <2>1. block # "freed"
    BY <1>1 DEF MemoryInv, MemoryType, PlaceInv, FreeInv, Owned, Gone, Prefilling
  <2>2. FreeFunction # "none"
    BY DEF FreeFunction, FreeInv
  <2>3. ~wrongly_freed' /\ libnuma'
    BY <1>0, <1>1, <2>1 DEF Free, FreeInv
  <2> QED
    BY <1>0, <1>1, <2>2, <2>3 DEF Free, Owned
<1>2. ASSUME UNCHANGED <<memoryVars, shapeVars>>, mpc' = "failed" => mpc = "failed",
             mpc # "allocate"
      PROVE  FreeInv'
  BY <1>2 DEF FreeInv, FreeFunction
<1>3. ASSUME NEW c \in Configurations, ConfBegin(c) PROVE FreeInv'
  BY <1>1, <1>3 DEF ConfBegin, FreeInv
<1>4. CASE ScrapBegin
  BY <1>1, <1>4 DEF ScrapBegin, FreeInv
<1>5. CASE Destroy
  BY <1>1, <1>5 DEF Destroy, FreeInv
<1>6. CASE ConfAllocate
  <2>1. cfg \in Configurations /\ IsSupported(cfg)
        /\ cfg.numa_aware \in BOOLEAN /\ cfg.intrinsic \in BOOLEAN /\ cfg.aligned \in BOOLEAN
    BY <1>6, MemoryAssumption DEF ConfAllocate, MemoryInv, MemoryType
  <2>2. Allocator(cfg) \in Owned
    BY <1>6, <2>1, AllocatorOwned, SupportedHasAllocator DEF ConfAllocate, MemoryInv, MemoryType
  <2>3. /\ ~wrongly_freed' /\ libnuma'
        /\ block' \in {"null", Allocator(cfg)}
    BY <1>6, <2>2 DEF ConfAllocate, NewBlock, FreeInv, Owned
  <2>4. Allocator(cfg) = IF cfg.numa_aware THEN "numa" ELSE IF cfg.intrinsic THEN "mm"
                         ELSE IF cfg.aligned THEN "aligned" ELSE "malloc"
    BY <2>1 DEF Allocator, IsSupported, FreeInv
  <2> QED
    BY <1>6, <2>1, <2>3, <2>4 DEF ConfAllocate, FreeInv, FreeFunction, FreedBy, IsSupported, Owned
<1>7. CASE ConfThrows
  BY <1>7 DEF ConfThrows, Allocator, FreeInv
<1>8. CASE ConfCheck
  BY <1>8 DEF ConfCheck, FreeInv, FreeFunction
<1>9. CASE ScrapEnd
  BY <1>9 DEF ScrapEnd, NewBlock, FreeInv, FreeFunction, FreedBy, Owned
<1>10. CASE Trigger \/ TriggerNotify \/ AwaitDone \/ Join
  BY <1>2, <1>10 DEF Trigger, TriggerNotify, AwaitDone, Join
<1>11. CASE Prefiller \/ SpuriousWakeup
  <2>1. UNCHANGED <<memoryVars, shapeVars, mpc>>
    BY <1>11 DEF Prefiller, PrefillLock, PrefillWrite, PrefillDone, PrefillNotify,
                 SpuriousWakeup
  <2> QED
    BY <2>1 DEF FreeInv, FreeFunction
<1>12. CASE UNCHANGED queueVars
  BY <1>12 DEF FreeInv, FreeFunction
<1> QED
  BY <1>3, <1>4, <1>5, <1>6, <1>7, <1>8, <1>9, <1>10, <1>11, <1>12 DEF MemoryNext, Control, Finished

(* In a build with libnuma, and with the supported configurations, every   *)
(* block is freed once and by the function of its allocator, also when     *)
(* allocations fail (free_memory of IterableQueueModel).  Without libnuma  *)
(* a conf() that throws leaves a pointer that is freed again.              *)
THEOREM FreedRight ==
  ASSUME \A c \in Configurations : IsSupported(c)
  PROVE  MemorySpec /\ libnuma => []FreedByItsAllocator
<1>1. MemoryInit /\ libnuma => FreeInv
  BY DEF MemoryInit, FreeInv, FreeFunction, FreedBy, Owned
<1>2. MemoryInv /\ [MemoryNext]_queueVars => MemoryInv'
  BY NextMemoryInv, SupportedHasAllocator
<1>3. FreeInv => FreedByItsAllocator
  BY DEF FreeInv, FreedByItsAllocator
<1> QED
  BY InitMemoryInv, NextFreeInv, <1>1, <1>2, <1>3, PTL DEF MemorySpec

-----------------------------------------------------------------------------
(* Products and quotients, for addresses and places in files. *)

(* The place of an element in a product. *)
LEMMA Quotient ==
  ASSUME NEW d \in Nat \ {0}, NEW q \in Int, NEW r \in 0 .. d - 1
  PROVE  (q * d + r) \div d = q /\ (q * d + r) % d = r
<1> DEFINE n == q * d + r
<1>1. n \in Int /\ n \div d \in Int /\ n % d \in 0 .. d - 1 /\ n = d * (n \div d) + (n % d)
  OBVIOUS
<1>2. ASSUME NEW p \in Int, NEW s \in 0 .. d - 1, p * d + s = q * d + r, p < q PROVE FALSE
  <2>1. p + 1 <= q /\ (q - (p + 1)) \in Nat
    BY <1>2
  <2>2. (q - (p + 1)) * d >= 0
    BY <2>1
  <2>3. (q - (p + 1)) * d = q * d - p * d - d
    OBVIOUS
  <2> QED
    BY <1>2, <2>2, <2>3
<1>3. ASSUME NEW p \in Int, NEW s \in 0 .. d - 1, p * d + s = q * d + r, q < p PROVE FALSE
  <2>1. q + 1 <= p /\ (p - (q + 1)) \in Nat
    BY <1>3
  <2>2. (p - (q + 1)) * d >= 0
    BY <2>1
  <2>3. (p - (q + 1)) * d = p * d - q * d - d
    OBVIOUS
  <2> QED
    BY <1>3, <2>2, <2>3
<1>4. (n \div d) * d + (n % d) = q * d + r
  BY <1>1
<1>5. n \div d = q
  BY <1>1, <1>2, <1>3, <1>4
<1> QED
  BY <1>1, <1>4, <1>5

(* Every number has a quotient and a remainder. *)
LEMMA Division ==
  ASSUME NEW d \in Nat \ {0}, NEW n \in Int
  PROVE  \E q \in Int, r \in 0 .. d - 1 : n = q * d + r /\ q = n \div d /\ r = n % d
<1>1. n \div d \in Int /\ n % d \in 0 .. d - 1 /\ n = (n \div d) * d + (n % d)
  OBVIOUS
<1> QED
  BY <1>1

(* Products keep the order of their factors. *)
LEMMA Monotone ==
  ASSUME NEW d \in Nat, NEW a \in Int, NEW b \in Int, a <= b
  PROVE  a * d <= b * d
<1>1. (b - a) \in Nat /\ (b - a) * d >= 0
  OBVIOUS
<1>2. (b - a) * d = b * d - a * d
  OBVIOUS
<1> QED
  BY <1>1, <1>2

-----------------------------------------------------------------------------
(* ZeroCopyRecording.  A file without gaps comes from where the pointer of *)
(* record() is in the stream, not only in the memory: the invariant gives  *)
(* the frame and the place in it that the pointer stands for, that the     *)
(* file ends exactly there, and that nothing from the cursor on is popped, *)
(* nor will be by a pop that the cleanup has decided upon.  First, the     *)
(* places of frames in the buffer and in the stream.                       *)

(* What lies behind a multiple in a product lies behind its factor. *)
LEMMA Behind ==
  ASSUME NEW d \in Nat \ {0}, NEW a \in Int, NEW b \in Int, NEW r \in Nat, a * d + r < b * d
  PROVE  a < b
<1> SUFFICES ASSUME b <= a PROVE FALSE
  OBVIOUS
<1> QED
  BY Monotone

(* The slots of later elements, up to the end of the buffer. *)
LEMMA SlotOf ==
  ASSUME NEW ts \in Int
  PROVE  /\ Slot(ts) \in 0 .. Size - 1
         /\ \E q \in Int : ts - 1 = q * Size + Slot(ts)
<1>1. Size \in Nat \ {0} /\ ts - 1 \in Int
  BY ZeroCopyAssumption
<1>2. \E q \in Int, r \in 0 .. Size - 1 : ts - 1 = q * Size + r /\ r = (ts - 1) % Size
  BY <1>1, Division
<1> QED
  BY <1>2 DEF Slot

LEMMA SlotAhead ==
  ASSUME NEW c \in Int, NEW k \in Nat
  PROVE  /\ Slot(c) + k < Size => Slot(c + k) = Slot(c) + k
         /\ Slot(c) + k >= Size /\ k < Size => Slot(c + k) = Slot(c) + k - Size
<1>1. PICK q \in Int : c - 1 = q * Size + Slot(c) /\ Slot(c) \in 0 .. Size - 1
  BY SlotOf
<1>2. Size \in Nat \ {0}
  BY ZeroCopyAssumption
<1>3. ASSUME Slot(c) + k < Size PROVE Slot(c + k) = Slot(c) + k
  <2>0. q * Size \in Int
    BY <1>2
  <2>1. c + k - 1 = q * Size + (Slot(c) + k) /\ Slot(c) + k \in 0 .. Size - 1
    <3> DEFINE p == q * Size
    <3>1. p \in Int /\ c - 1 = p + Slot(c) /\ Slot(c) \in 0 .. Size - 1
      BY <1>1, <2>0
    <3> HIDE DEF p
    <3>2. c + k - 1 = p + (Slot(c) + k) /\ Slot(c) + k \in 0 .. Size - 1
      BY <1>2, <1>3, <3>1
    <3> QED
      BY <3>2 DEF p
  <2>2. (q * Size + (Slot(c) + k)) % Size = Slot(c) + k
    BY <2>1, <1>2, Quotient
  <2> QED
    BY <2>1, <2>2 DEF Slot
<1>4. ASSUME Slot(c) + k >= Size, k < Size PROVE Slot(c + k) = Slot(c) + k - Size
  <2>1. (q + 1) * Size = q * Size + Size
    BY <1>2
  <2>2. c + k - 1 = (q + 1) * Size + (Slot(c) + k - Size) /\ Slot(c) + k - Size \in 0 .. Size - 1
    BY <1>1, <1>2, <1>4, <2>1
  <2>3. ((q + 1) * Size + (Slot(c) + k - Size)) % Size = Slot(c) + k - Size
    <3>1. q + 1 \in Int
      BY <1>1
    <3> QED
      BY <2>2, <1>2, <3>1, Quotient
  <2> QED
    BY <2>2, <2>3 DEF Slot
<1> QED
  BY <1>3, <1>4

(* Fewer than Size elements have slots of their own. *)
LEMMA SlotsDiffer ==
  ASSUME NEW a \in Int, NEW b \in Int, a < b, b - a < Size
  PROVE  Slot(a) # Slot(b)
<1>1. Size \in Nat \ {0}
  BY ZeroCopyAssumption
<1>2. b - a \in Nat /\ 0 < b - a /\ b = a + (b - a)
  OBVIOUS
<1>3. Slot(a) \in 0 .. Size - 1
  BY SlotOf
<1>4. Slot(b) = Slot(a) + (b - a) \/ Slot(b) = Slot(a) + (b - a) - Size
  BY <1>1, <1>2, <1>3, SlotAhead
<1> QED
  BY <1>1, <1>2, <1>3, <1>4

LEMMA SlotNext ==
  ASSUME NEW c \in Int
  PROVE  (Slot(c) + 1) % Size = Slot(c + 1)
<1>1. Size \in Nat \ {0} /\ 1 < Size /\ 1 \in Nat
  BY ZeroCopyAssumption
<1>2. Slot(c) \in 0 .. Size - 1
  BY SlotOf
<1>3. CASE Slot(c) + 1 < Size
  <2>1. (0 * Size + (Slot(c) + 1)) % Size = Slot(c) + 1
    <3>1. 0 \in Int /\ Slot(c) + 1 \in 0 .. Size - 1
      BY <1>1, <1>2, <1>3
    <3> QED
      BY <1>1, <3>1, Quotient
  <2>2. 0 * Size + (Slot(c) + 1) = Slot(c) + 1
    BY <1>1, <1>2
  <2>3. Slot(c + 1) = Slot(c) + 1
    BY <1>1, <1>3, SlotAhead
  <2> QED
    BY <2>1, <2>2, <2>3
<1>4. CASE Slot(c) + 1 >= Size
  <2>1. (1 * Size + 0) % Size = 0
    <3>1. 1 \in Int /\ 0 \in 0 .. Size - 1
      BY <1>1
    <3> QED
      BY <1>1, <3>1, Quotient
  <2>2. 1 * Size + 0 = Slot(c) + 1
    BY <1>1, <1>2, <1>4
  <2>3. Slot(c + 1) = Slot(c) + 1 - Size
    BY <1>1, <1>4, SlotAhead
  <2> QED
    BY <1>1, <1>2, <1>4, <2>1, <2>2, <2>3
<1> QED
  BY <1>1, <1>2, <1>3, <1>4

(* A slot has one of the last Size elements. *)
LEMMA ContentOf ==
  ASSUME newest \in Int, NEW ts \in newest - Size .. newest - 1
  PROVE  Content(Slot(ts)) = ts
<1>1. Size \in Nat \ {0}
  BY ZeroCopyAssumption
<1>2. \A t \in newest - Size .. newest - 1 : Slot(t) = Slot(ts) => t = ts
  <2> SUFFICES ASSUME NEW t \in newest - Size .. newest - 1, t # ts PROVE Slot(t) # Slot(ts)
    OBVIOUS
  <2>1. t \in Int /\ ts \in Int /\ (t < ts \/ ts < t) /\ t - ts < Size /\ ts - t < Size
    BY <1>1
  <2> QED
    BY <2>1, SlotsDiffer
<1> QED
  BY <1>2 DEF Content

(* The unit at an address of a buffered frame. *)
LEMMA UnitAt ==
  ASSUME newest \in Int, NEW ts \in newest - Size .. newest - 1, NEW r \in 0 .. FrameSize - 1
  PROVE  /\ (Slot(ts) * FrameSize + r) \div FrameSize = Slot(ts)
         /\ (Slot(ts) * FrameSize + r) % FrameSize = r
         /\ Unit(Slot(ts) * FrameSize + r) = (ts - 1) * FrameSize + r
<1>1. FrameSize \in Nat \ {0} /\ Slot(ts) \in Int
  BY ZeroCopyAssumption, SlotOf
<1>2. /\ (Slot(ts) * FrameSize + r) \div FrameSize = Slot(ts)
      /\ (Slot(ts) * FrameSize + r) % FrameSize = r
  BY <1>1, Quotient
<1> QED
  BY <1>2, ContentOf DEF Unit

(* An address some units on, before the end of the buffer, is in the frame *)
(* that is as far on in the stream.                                        *)
LEMMA AddressAhead ==
  ASSUME NEW c \in Int, NEW r \in 0 .. FrameSize - 1, NEW j \in Nat,
         Slot(c) * FrameSize + r + j < BufferSize
  PROVE  \E k \in Nat, s \in 0 .. FrameSize - 1 :
           /\ r + j = k * FrameSize + s
           /\ Slot(c) + k < Size
           /\ Slot(c + k) = Slot(c) + k
           /\ Slot(c) * FrameSize + r + j = Slot(c + k) * FrameSize + s
           /\ (c - 1) * FrameSize + r + j = (c + k - 1) * FrameSize + s
<1>1. FrameSize \in Nat \ {0} /\ Size \in Nat /\ Slot(c) \in 0 .. Size - 1
  BY ZeroCopyAssumption, SlotOf
<1>2. PICK k \in Int, s \in 0 .. FrameSize - 1 : r + j = k * FrameSize + s
  <2>1. r + j \in Int
    BY <1>1
  <2> QED
    BY <1>1, <2>1, Division
<1>3. k >= 0
  <2> SUFFICES ASSUME k <= -1 PROVE FALSE
    OBVIOUS
  <2>1. k * FrameSize <= (-1) * FrameSize
    BY <1>1, Monotone
  <2> QED
    BY <1>1, <1>2, <2>1
<1>4. (Slot(c) + k) * FrameSize = Slot(c) * FrameSize + k * FrameSize
  BY <1>1
<1>5. (Slot(c) + k) * FrameSize + s < Size * FrameSize
  BY <1>1, <1>2, <1>4 DEF BufferSize
<1>6. Slot(c) + k < Size
  BY <1>1, <1>2, <1>5, Behind
<1>7. Slot(c + k) = Slot(c) + k
  BY <1>3, <1>6, SlotAhead
<1>8. (c + k - 1) * FrameSize = (c - 1) * FrameSize + k * FrameSize
  BY <1>1
<1>9. Slot(c) * FrameSize \in Int /\ k * FrameSize \in Int /\ (c - 1) * FrameSize \in Int
  BY <1>1
<1>10. Slot(c) * FrameSize + r + j = Slot(c + k) * FrameSize + s
  BY <1>1, <1>2, <1>4, <1>7, <1>9
<1>11. (c - 1) * FrameSize + r + j = (c + k - 1) * FrameSize + s
  BY <1>1, <1>2, <1>8, <1>9
<1> QED
  BY <1>2, <1>3, <1>6, <1>7, <1>10, <1>11

-----------------------------------------------------------------------------
(* The invariant.                                                          *)

ZeroCopyType ==
  /\ oldest \in Nat /\ newest \in Nat /\ 1 <= oldest /\ oldest <= newest
  /\ newest - oldest < Size
  /\ m_cleanup_requested \in BOOLEAN /\ to_pop \in Int
  /\ cpc \in {"sleep", "pop", "popping", "finish"}
  /\ rpc \in {"idle", "start", "loop", "wait", "first", "claim", "skip", "back", "chunks",
              "cursor", "finish"}
  /\ begin \in Int /\ current_write_pointer \in Int /\ current_end_pointer \in Int
  /\ m_next_timestamp_to_record \in Nat
  /\ considered_chunks_in_loop \in Nat
  /\ fd_open \in BOOLEAN /\ file \in Seq(Int)

(* A cleanup leaves an element, and its flag is set as long as it lasts. *)
CleanerInv ==
  /\ cpc \in {"pop", "popping"} => to_pop < newest - oldest
  /\ cpc = "popping" => to_pop >= 1
  /\ cpc # "sleep" => m_cleanup_requested

(* Nothing from the cursor on is popped, nor will be by a pop that the     *)
(* cleaner has decided upon.                                               *)
Held ==
  /\ m_next_timestamp_to_record >= oldest
  /\ cpc = "popping" => m_next_timestamp_to_record > oldest

(* The file ends before unit r of frame c. *)
FileEndsAt(c, r) ==
  fd_open => IF file = << >> THEN r = 0
             ELSE file[1] % FrameSize = 0 /\ file[1] + Len(file) = (c - 1) * FrameSize + r

(* The pointer is r units into frame c, which is not before the cursor and *)
(* not behind the beginning of the frame before e; the file ends where it  *)
(* points to.                                                              *)
PointsTo(c, r, e) ==
  /\ m_next_timestamp_to_record <= c /\ c < e
  /\ c + 1 = e => r = 0
  /\ current_write_pointer = Slot(c) * FrameSize + r
  /\ FileEndsAt(c, r)

PointsBefore(e) == \E c \in Nat, r \in 0 .. FrameSize - 1 : PointsTo(c, r, e)

(* The element before e was the newest one when the recorder looked. *)
EndsBefore(e) ==
  e <= newest /\ current_end_pointer = Slot(e - 1) * FrameSize /\ PointsBefore(e)

(* A recording that has not found its first frame. *)
Searching == current_write_pointer = nullptr /\ (fd_open => file = << >>)

(* What the recorder has at each of its places. *)
RecorderInv ==
  /\ rpc \in {"idle", "start"} /\ fd_open => file = << >>
  /\ rpc \in {"first", "claim"} =>
       Searching /\ m_next_timestamp_to_record = 0 /\ cpc # "popping"
  /\ rpc = "claim" => oldest < newest /\ begin = Slot(oldest)
  /\ rpc = "skip" =>
       /\ Searching
       /\ \/ begin = End /\ ~Aligned(Address(End))
          \/ Held /\ \E c \in Nat : c >= m_next_timestamp_to_record /\ c < newest /\ begin = Slot(c)
  /\ rpc \in {"loop", "wait"} =>
       \/ Searching /\ m_next_timestamp_to_record = 0
       \/ current_write_pointer # nullptr /\ Held /\ PointsBefore(newest)
  /\ rpc = "back" => Held /\ PointsBefore(newest)
  /\ rpc \in {"chunks", "cursor"} => Held /\ \E e \in Nat : EndsBefore(e)

(* Units that follow each other, from a given one on. *)
From(f, base) == \A i \in 1 .. Len(f) : f[i] = base + i - 1
Contiguous(f) == From(f, f[1])

(* What has been written is contiguous and, once a recording is over,      *)
(* whole frames.                                                           *)
FileInv ==
  /\ Contiguous(file)
  /\ (~fd_open \/ rpc = "finish") /\ file # << >> =>
       file[1] % FrameSize = 0 /\ Len(file) % FrameSize = 0

RecordingInv == ZeroCopyType /\ CleanerInv /\ RecorderInv /\ FileInv

(* Both pointers are before the end of the buffer. *)
LEMMA InBuffer ==
  ASSUME NEW c \in Int, NEW r \in 0 .. FrameSize - 1
  PROVE  /\ Slot(c) * FrameSize + r \in Nat
         /\ Slot(c) * FrameSize + r < BufferSize
         /\ BufferSize \in Nat
<1>1. FrameSize \in Nat \ {0} /\ Size \in Nat /\ Slot(c) \in 0 .. Size - 1
  BY ZeroCopyAssumption, SlotOf
<1>2. Slot(c) * FrameSize >= 0 * FrameSize
  BY <1>1, Monotone
<1>3. (Slot(c) + 1) * FrameSize <= Size * FrameSize
  BY <1>1, Monotone
<1>4. (Slot(c) + 1) * FrameSize = Slot(c) * FrameSize + FrameSize
  BY <1>1
<1>5. Slot(c) * FrameSize \in Int /\ Size * FrameSize \in Int
  BY <1>1
<1>6. Slot(c) * FrameSize + r < Size * FrameSize
  BY <1>1, <1>3, <1>4, <1>5
<1>7. Slot(c) * FrameSize >= 0
  BY <1>1, <1>2
<1> QED
  BY <1>1, <1>5, <1>6, <1>7 DEF BufferSize

(* Between the pointer in frame c and the beginning of frame e, which may  *)
(* be behind the end of the buffer, are the frames from c up to e.         *)
LEMMA FrameAhead ==
  ASSUME NEW c \in Int, NEW e \in Int, c <= e, e - c < Size,
         NEW r \in 0 .. FrameSize - 1, c = e => r = 0,
         NEW j \in Nat,
         \/ Slot(c) * FrameSize + r + j < Slot(e) * FrameSize
         \/ /\ Slot(e) * FrameSize < Slot(c) * FrameSize + r
            /\ Slot(c) * FrameSize + r + j < BufferSize
  PROVE  \E d \in c .. e - 1, s \in 0 .. FrameSize - 1 :
           /\ Slot(c) * FrameSize + r + j = Slot(d) * FrameSize + s
           /\ (c - 1) * FrameSize + r + j = (d - 1) * FrameSize + s
<1>1. /\ FrameSize \in Nat \ {0} /\ Size \in Nat
      /\ Slot(c) \in 0 .. Size - 1 /\ Slot(e) \in 0 .. Size - 1
  BY ZeroCopyAssumption, SlotOf
<1>2. /\ Slot(c) * FrameSize + r \in Nat /\ Slot(e) * FrameSize \in Nat
      /\ Slot(e) * FrameSize < BufferSize /\ BufferSize \in Nat
  <2>1. 0 \in 0 .. FrameSize - 1 /\ Slot(e) * FrameSize + 0 = Slot(e) * FrameSize
    BY <1>1
  <2> QED
    BY <2>1, InBuffer
<1>3. Slot(c) * FrameSize + r + j < BufferSize
  BY <1>2
<1>4. PICK k \in Nat, s \in 0 .. FrameSize - 1 :
        /\ Slot(c) + k < Size
        /\ Slot(c + k) = Slot(c) + k
        /\ Slot(c) * FrameSize + r + j = Slot(c + k) * FrameSize + s
        /\ (c - 1) * FrameSize + r + j = (c + k - 1) * FrameSize + s
  BY <1>3, AddressAhead
<1>5. \/ Slot(e) = Slot(c) + (e - c)
      \/ Slot(e) = Slot(c) + (e - c) - Size
  <2>1. e - c \in Nat /\ e = c + (e - c)
    OBVIOUS
  <2> QED
    BY <1>1, <2>1, SlotAhead
<1>6. c + k < e
  <2>1. CASE Slot(c) * FrameSize + r + j < Slot(e) * FrameSize
    <3>1. Slot(c + k) * FrameSize + s < Slot(e) * FrameSize
      BY <1>4, <2>1
    <3>2. Slot(c + k) < Slot(e)
      BY <1>1, <1>4, <3>1, Behind
    <3> QED
      BY <1>1, <1>4, <1>5, <3>2
  <2>2. CASE Slot(e) * FrameSize < Slot(c) * FrameSize + r
    <3>1. (Slot(c) + 1) * FrameSize = Slot(c) * FrameSize + FrameSize
      BY <1>1
    <3>2. Slot(c) * FrameSize \in Int
      BY <1>1
    <3>3. Slot(e) * FrameSize + 0 < (Slot(c) + 1) * FrameSize
      BY <1>1, <1>2, <2>2, <3>1, <3>2
    <3>4. Slot(e) < Slot(c) + 1
      BY <1>1, <3>3, Behind
    <3>5. c # e
      <4> SUFFICES ASSUME c = e PROVE FALSE
        OBVIOUS
      <4> QED
        BY <1>1, <1>2, <2>2
    <3> QED
      BY <1>1, <1>4, <1>5, <3>4, <3>5
  <2> QED
    BY <2>1, <2>2
<1> QED
  BY <1>4, <1>6

(* What an iteration of the loop writes, and where it leaves the pointer.  *)
LEMMA ChunkAhead ==
  ASSUME ZeroCopyType, NEW c \in oldest .. newest - 1, NEW e \in oldest .. newest - 1,
         NEW r \in 0 .. FrameSize - 1, c <= e, c = e => r = 0,
         current_write_pointer = Slot(c) * FrameSize + r,
         current_end_pointer = Slot(e) * FrameSize
  PROVE  /\ WriteSize \in Nat
         /\ \A j \in 0 .. WriteSize - 1 :
              /\ Content((current_write_pointer + j) \div FrameSize) \in Buffered
              /\ Unit(current_write_pointer + j) = (c - 1) * FrameSize + r + j
         /\ \E d \in c .. e, s \in 0 .. FrameSize - 1 :
              /\ d = e => s = 0
              /\ AfterWrite(WriteSize) = Slot(d) * FrameSize + s
              /\ (c - 1) * FrameSize + r + WriteSize = (d - 1) * FrameSize + s
<1> DEFINE at == Slot(c) * FrameSize + r
           to == Slot(e) * FrameSize
           place == (c - 1) * FrameSize + r
<1>1. /\ FrameSize \in Nat \ {0} /\ Size \in Nat /\ ChunkSize \in Nat \ {0}
      /\ c \in Int /\ e \in Int /\ e - c < Size
      /\ Slot(c) \in 0 .. Size - 1 /\ place \in Int
  BY ZeroCopyAssumption, SlotOf DEF ZeroCopyType
<1>2. at \in Nat /\ at < BufferSize /\ to \in Nat /\ to < BufferSize /\ BufferSize \in Nat
  <2>1. 0 \in 0 .. FrameSize - 1 /\ Slot(e) * FrameSize + 0 = Slot(e) * FrameSize
    BY <1>1, SlotOf
  <2> QED
    BY <1>1, <2>1, InBuffer
<1>3. ASSUME NEW j \in Nat, at + j < to \/ (to < at /\ at + j < BufferSize)
      PROVE  \E d \in c .. e - 1, s \in 0 .. FrameSize - 1 :
               at + j = Slot(d) * FrameSize + s /\ place + j = (d - 1) * FrameSize + s
  BY <1>1, <1>3, FrameAhead
<1>4. ASSUME NEW j \in Nat, at + j < to \/ (to < at /\ at + j < BufferSize)
      PROVE  /\ Content((at + j) \div FrameSize) \in Buffered
             /\ Unit(at + j) = place + j
  <2>1. PICK d \in c .. e - 1, s \in 0 .. FrameSize - 1 :
          at + j = Slot(d) * FrameSize + s /\ place + j = (d - 1) * FrameSize + s
    BY <1>3, <1>4
  <2>2. d \in newest - Size .. newest - 1 /\ d \in Buffered
    BY <1>1 DEF ZeroCopyType, Buffered
  <2>3. newest \in Int
    BY DEF ZeroCopyType
  <2>4. /\ (Slot(d) * FrameSize + s) \div FrameSize = Slot(d)
        /\ Unit(Slot(d) * FrameSize + s) = (d - 1) * FrameSize + s
    BY <2>2, <2>3, UnitAt
  <2>5. Content(Slot(d)) = d
    BY <2>2, <2>3, ContentOf
  <2> QED
    BY <2>1, <2>2, <2>4, <2>5
<1> HIDE DEF at, to, place
<1>5. current_write_pointer = at /\ current_end_pointer = to
  BY DEF at, to
<1>6. CASE at + ChunkSize < to \/ (to < at /\ at + ChunkSize < BufferSize)
  <2>1. WriteSize = ChunkSize /\ AfterWrite(WriteSize) = at + ChunkSize
    BY <1>1, <1>2, <1>5, <1>6
       DEF WriteSize, ChunkFitsBefore, ProducerWrapped, ChunkFitsBuffer, AfterWrite
  <2>2. \A j \in 0 .. ChunkSize - 1 : at + j < to \/ (to < at /\ at + j < BufferSize)
    BY <1>1, <1>2, <1>6
  <2>3. \A j \in 0 .. ChunkSize - 1 :
          Content((at + j) \div FrameSize) \in Buffered /\ Unit(at + j) = place + j
    BY <1>1, <1>4, <2>2
  <2>4. PICK d \in c .. e - 1, s \in 0 .. FrameSize - 1 :
          at + ChunkSize = Slot(d) * FrameSize + s /\ place + ChunkSize = (d - 1) * FrameSize + s
    BY <1>1, <1>3, <1>6
  <2>5. d \in c .. e /\ d # e
    BY <1>1
  <2> QED
    BY <1>1, <1>5, <2>1, <2>3, <2>4, <2>5 DEF place
<1>7. CASE to < at /\ ~(at + ChunkSize < BufferSize)
  <2>0. ~ChunkFitsBefore /\ ProducerWrapped /\ ~ChunkFitsBuffer
    BY <1>1, <1>2, <1>5, <1>7 DEF ChunkFitsBefore, ProducerWrapped, ChunkFitsBuffer
  <2>1. WriteSize = BufferSize - at /\ AfterWrite(WriteSize) = 0
    BY <1>2, <1>5, <2>0 DEF WriteSize, AfterWrite
  <2>2. \A j \in 0 .. WriteSize - 1 : to < at /\ at + j < BufferSize
    BY <1>1, <1>2, <1>7, <2>1
  <2>3. \A j \in 0 .. WriteSize - 1 :
          Content((at + j) \div FrameSize) \in Buffered /\ Unit(at + j) = place + j
    BY <1>1, <1>2, <1>4, <2>1, <2>2
  <2>4. PICK d0 \in c .. e - 1, s0 \in 0 .. FrameSize - 1 :
          /\ at + (WriteSize - 1) = Slot(d0) * FrameSize + s0
          /\ place + (WriteSize - 1) = (d0 - 1) * FrameSize + s0
    <3>1. WriteSize - 1 \in Nat /\ at + (WriteSize - 1) < BufferSize
      BY <1>2, <2>1
    <3> QED
      BY <1>3, <1>7, <3>1
  <2>5. s0 = FrameSize - 1
    <3> SUFFICES ASSUME s0 < FrameSize - 1 PROVE FALSE
      BY <1>1
    <3>1. d0 \in Int /\ s0 + 1 \in 0 .. FrameSize - 1
      BY <1>1
    <3>2. Slot(d0) * FrameSize + (s0 + 1) < BufferSize
      BY <3>1, InBuffer
    <3>3. Slot(d0) * FrameSize \in Int
      BY <1>1, <3>1, SlotOf
    <3> QED
      BY <1>1, <1>2, <2>1, <2>4, <3>2, <3>3
  <2>6. Slot(d0 + 1) = 0
    <3>0. d0 \in Int
      BY <1>1
    <3>1. d0 \in Int /\ Slot(d0) \in 0 .. Size - 1
      BY <3>0, SlotOf
    <3>2. Slot(d0) = Size - 1
      <4> SUFFICES ASSUME Slot(d0) + 1 <= Size - 1 PROVE FALSE
        BY <1>1, <3>1
      <4>1. (Slot(d0) + 1) * FrameSize <= (Size - 1) * FrameSize
        BY <1>1, <3>1, Monotone
      <4>2. /\ (Slot(d0) + 1) * FrameSize = Slot(d0) * FrameSize + FrameSize
            /\ (Size - 1) * FrameSize = Size * FrameSize - FrameSize
            /\ Slot(d0) * FrameSize \in Int /\ Size * FrameSize \in Int
        BY <1>1, <3>1
      <4> QED
        BY <1>1, <1>2, <2>1, <2>4, <2>5, <4>1, <4>2 DEF BufferSize
    <3>3. Slot(d0) + 1 >= Size /\ 1 < Size /\ 1 \in Nat
      BY <1>1, <3>2, ZeroCopyAssumption
    <3>4. Slot(d0 + 1) = Slot(d0) + 1 - Size
      BY <3>1, <3>3, SlotAhead
    <3> QED
      BY <1>1, <3>2, <3>4
  <2>7. place + WriteSize = (d0 + 1 - 1) * FrameSize + 0
    <3>1. /\ (d0 + 1 - 1) * FrameSize = (d0 - 1) * FrameSize + FrameSize
          /\ (d0 - 1) * FrameSize \in Int
      BY <1>1
    <3> QED
      BY <1>1, <1>2, <2>1, <2>4, <2>5, <3>1
  <2>8. d0 + 1 \in c .. e /\ 0 \in 0 .. FrameSize - 1 /\ AfterWrite(WriteSize) = Slot(d0 + 1) * FrameSize + 0
    BY <1>1, <2>1, <2>6
  <2>9. WriteSize \in Nat
    BY <1>2, <2>1
  <2>10. \E d \in c .. e, s \in 0 .. FrameSize - 1 :
           /\ d = e => s = 0
           /\ AfterWrite(WriteSize) = Slot(d) * FrameSize + s
           /\ place + WriteSize = (d - 1) * FrameSize + s
    BY <2>7, <2>8
  <2> QED
    BY <1>5, <2>3, <2>9, <2>10 DEF place
<1>8. CASE ~(at + ChunkSize < to) /\ ~(to < at)
  <2>1. WriteSize = 0 /\ AfterWrite(WriteSize) = at
    BY <1>1, <1>2, <1>5, <1>8
       DEF WriteSize, ChunkFitsBefore, ProducerWrapped, ChunkFitsBuffer, AfterWrite
  <2>2. c \in c .. e /\ place + 0 = (c - 1) * FrameSize + r /\ at = Slot(c) * FrameSize + r
    BY <1>1 DEF place, at
  <2> QED
    BY <1>1, <1>5, <2>1, <2>2 DEF place
<1> QED
  BY <1>6, <1>7, <1>8

-----------------------------------------------------------------------------
(* The steps.                                                              *)

LEMMA InitRecordingInv == Init => RecordingInv
<1> SUFFICES ASSUME Init PROVE RecordingInv
  OBVIOUS
<1>1. ZeroCopyType
  <2>1. file \in Seq(Int)
    BY DEF Init
  <2>2. NoCursor \in Nat /\ End \in Int /\ nullptr \in Int /\ newest - oldest < Size
    BY ZeroCopyAssumption DEF Init, NoCursor, End, nullptr
  <2>3. fd_open \in BOOLEAN /\ m_cleanup_requested \in BOOLEAN
    BY DEF Init
  <2>4. oldest = 1 /\ newest = 1 /\ to_pop = 0 /\ considered_chunks_in_loop = 0
    BY DEF Init
  <2>5. /\ cpc = "sleep" /\ rpc = "idle" /\ begin = End /\ m_next_timestamp_to_record = NoCursor
        /\ current_write_pointer = nullptr /\ current_end_pointer = nullptr
    BY DEF Init
  <2> QED
    BY <2>1, <2>2, <2>3, <2>4, <2>5 DEF ZeroCopyType
<1>2. CleanerInv
  BY DEF Init, CleanerInv
<1>3. RecorderInv
  BY DEF Init, RecorderInv
<1>4. FileInv
  BY DEF Init, FileInv, Contiguous, From
<1> QED
  BY <1>1, <1>2, <1>3, <1>4 DEF RecordingInv

(* The producer and the cleaner leave the recorder's place and its file as *)
(* they are; they keep what it holds.                                      *)
LEMMA BufferSteps ==
  ASSUME RecordingInv, Produce \/ CleanerStep
  PROVE  RecordingInv'
<1> USE DEF bufferVars, cleanerVars, pointerVars, fileVars, recordVars
<1>0. /\ oldest \in Nat /\ newest \in Nat /\ m_next_timestamp_to_record \in Nat
      /\ oldest <= newest
  BY DEF RecordingInv, ZeroCopyType
<1>1. /\ begin' = begin /\ current_write_pointer' = current_write_pointer
      /\ current_end_pointer' = current_end_pointer
      /\ considered_chunks_in_loop' = considered_chunks_in_loop
      /\ rpc' = rpc /\ m_next_timestamp_to_record' = m_next_timestamp_to_record
  BY DEF Produce, CleanerStep, CleanupRequest, CleanupTest, CleanupPop, CleanupFinish
<1>11. fd_open' = fd_open /\ file' = file
  BY DEF Produce, CleanerStep, CleanupRequest, CleanupTest, CleanupPop, CleanupFinish
<1>12. ASSUME NEW c, NEW r, FileEndsAt(c, r) PROVE FileEndsAt(c, r)'
  BY <1>11, <1>12 DEF FileEndsAt
<1>2. ZeroCopyType'
  <2>1. CASE Produce
    BY <2>1, ZeroCopyAssumption DEF Produce, RecordingInv, ZeroCopyType
  <2>2. CASE CleanupRequest
    BY <2>2, ZeroCopyAssumption DEF CleanupRequest, RecordingInv, ZeroCopyType
  <2>3. CASE CleanupTest
    BY <2>3, ZeroCopyAssumption DEF CleanupTest, RecordingInv, ZeroCopyType
  <2>4. CASE CleanupPop
    BY <2>4, ZeroCopyAssumption DEF CleanupPop, RecordingInv, ZeroCopyType, CleanerInv
  <2>5. CASE CleanupFinish
    BY <2>5, ZeroCopyAssumption DEF CleanupFinish, RecordingInv, ZeroCopyType
  <2> QED
    BY <2>1, <2>2, <2>3, <2>4, <2>5 DEF CleanerStep
<1>3. CleanerInv'
  <2>1. CASE Produce
    BY <2>1 DEF Produce, RecordingInv, ZeroCopyType, CleanerInv
  <2>2. CASE CleanupRequest
    BY <2>2 DEF CleanupRequest, RecordingInv, ZeroCopyType, CleanerInv
  <2>3. CASE CleanupTest
    BY <2>3 DEF CleanupTest, RecordingInv, ZeroCopyType, CleanerInv
  <2>4. CASE CleanupPop
    BY <2>4 DEF CleanupPop, RecordingInv, ZeroCopyType, CleanerInv
  <2>5. CASE CleanupFinish
    BY <2>5 DEF CleanupFinish, RecordingInv, ZeroCopyType, CleanerInv
  <2> QED
    BY <2>1, <2>2, <2>3, <2>4, <2>5 DEF CleanerStep
<1>4. FileInv'
  BY <1>1, <1>11 DEF RecordingInv, FileInv
<1>5. newest' >= newest /\ newest' \in Nat /\ oldest' >= oldest /\ oldest' \in Nat
  BY <1>2, ZeroCopyAssumption DEF RecordingInv, ZeroCopyType,
     Produce, CleanerStep, CleanupRequest, CleanupTest, CleanupPop, CleanupFinish
<1>6. Held => Held'
  <2>1. CASE Produce
    BY <2>1 DEF Produce, Held
  <2>2. CASE CleanerStep
    BY <2>2 DEF CleanerStep, CleanupRequest, CleanupTest, CleanupPop, CleanupFinish, Held,
       RecordingInv, ZeroCopyType
  <2> QED
    BY <2>1, <2>2
<1>7. ASSUME NEW e \in Nat, PointsBefore(e) PROVE PointsBefore(e)'
  <2>1. PICK c \in Nat, r \in 0 .. FrameSize - 1 : PointsTo(c, r, e)
    BY <1>7 DEF PointsBefore
  <2>2. FileEndsAt(c, r)'
    BY <1>12, <2>1 DEF PointsTo
  <2>3. PointsTo(c, r, e)'
    BY <1>1, <2>1, <2>2 DEF PointsTo
  <2> QED
    BY <2>3 DEF PointsBefore
<1>8. ASSUME PointsBefore(newest) PROVE PointsBefore(newest)'
  <2>1. PICK c \in Nat, r \in 0 .. FrameSize - 1 : PointsTo(c, r, newest)
    BY <1>8 DEF PointsBefore
  <2>2. FileEndsAt(c, r)'
    BY <1>12, <2>1 DEF PointsTo
  <2>3. c < newest' /\ (c + 1 = newest' => r = 0)
    BY <1>0, <1>5, <2>1 DEF PointsTo
  <2>4. PointsTo(c, r, newest)'
    BY <1>1, <2>1, <2>2, <2>3 DEF PointsTo
  <2> QED
    BY <2>4 DEF PointsBefore
<1>9. RecorderInv'
  <2>1. rpc' \in {"idle", "start"} /\ fd_open' => file' = << >>
    BY <1>1, <1>11 DEF RecordingInv, RecorderInv
  <2>2. Searching <=> Searching'
    BY <1>1, <1>11 DEF Searching
  <2>3. ASSUME rpc' \in {"first", "claim"}
        PROVE  Searching' /\ m_next_timestamp_to_record' = 0 /\ cpc' # "popping"
    BY <1>1, <2>2, <2>3 DEF RecordingInv, RecorderInv, ZeroCopyType, Produce, CleanerStep, CleanupRequest,
       CleanupTest, CleanupPop, CleanupFinish
  <2>4. ASSUME rpc' = "claim" PROVE oldest' < newest' /\ begin' = Slot(oldest')
    <3>1. cpc # "popping" /\ oldest < newest /\ begin = Slot(oldest)
      BY <1>1, <2>4 DEF RecordingInv, RecorderInv
    <3>2. oldest' = oldest
      BY <3>1 DEF Produce, CleanerStep, CleanupRequest, CleanupTest, CleanupPop, CleanupFinish
    <3> QED
      BY <1>1, <1>5, <3>1, <3>2 DEF RecordingInv, ZeroCopyType
  <2>5. ASSUME rpc' = "skip"
        PROVE  /\ Searching'
               /\ \/ begin' = End /\ ~Aligned(Address(End))
                  \/ /\ Held'
                     /\ \E c \in Nat : c >= m_next_timestamp_to_record' /\ c < newest' /\ begin' = Slot(c)
    <3>1. /\ Searching
          /\ \/ begin = End /\ ~Aligned(Address(End))
             \/ Held /\ \E c \in Nat : c >= m_next_timestamp_to_record /\ c < newest /\ begin = Slot(c)
      BY <1>1, <2>5 DEF RecordingInv, RecorderInv
    <3>2. ASSUME NEW c \in Nat, c >= m_next_timestamp_to_record, c < newest, begin = Slot(c)
          PROVE  c >= m_next_timestamp_to_record' /\ c < newest' /\ begin' = Slot(c)
      BY <1>0, <1>1, <1>5, <3>2
    <3> QED
      BY <1>1, <1>6, <2>2, <3>1, <3>2
  <2>6. ASSUME rpc' \in {"loop", "wait"}
        PROVE  \/ Searching' /\ m_next_timestamp_to_record' = 0
               \/ current_write_pointer' # nullptr /\ Held' /\ PointsBefore(newest)'
    <3>1. \/ Searching /\ m_next_timestamp_to_record = 0
          \/ current_write_pointer # nullptr /\ Held /\ PointsBefore(newest)
      BY <1>1, <2>6 DEF RecordingInv, RecorderInv
    <3> QED
      BY <1>1, <1>6, <1>8, <2>2, <3>1
  <2>7. ASSUME rpc' = "back" PROVE Held' /\ PointsBefore(newest)'
    BY <1>1, <1>6, <1>8, <2>7 DEF RecordingInv, RecorderInv
  <2>8. ASSUME rpc' \in {"chunks", "cursor"}
        PROVE  Held' /\ \E e \in Nat : EndsBefore(e)'
    <3>1. Held /\ \E e \in Nat : EndsBefore(e)
      BY <1>1, <2>8 DEF RecordingInv, RecorderInv
    <3>2. PICK e \in Nat : EndsBefore(e)
      BY <3>1
    <3>3. e <= newest'
      BY <1>0, <1>5, <3>2 DEF EndsBefore
    <3>4. PointsBefore(e)'
      BY <1>7, <3>2 DEF EndsBefore
    <3>5. EndsBefore(e)'
      BY <1>1, <3>2, <3>3, <3>4 DEF EndsBefore
    <3> QED
      BY <1>6, <3>1, <3>5
  <2> QED
    BY <2>1, <2>3, <2>4, <2>5, <2>6, <2>7, <2>8 DEF RecorderInv
<1> QED
  BY <1>2, <1>3, <1>4, <1>9 DEF RecordingInv

(* ::write() of contiguous units that continue the file. *)
LEMMA Appended ==
  ASSUME NEW f \in Seq(Int), NEW base \in Int, NEW w \in Seq(Int),
         From(w, base), Contiguous(f), f # << >> => f[1] + Len(f) = base
  PROVE  /\ f \o w \in Seq(Int)
         /\ Len(f \o w) = Len(f) + Len(w)
         /\ Contiguous(f \o w)
         /\ f # << >> => f \o w # << >> /\ (f \o w)[1] = f[1]
         /\ f = << >> /\ f \o w # << >> => (f \o w)[1] = base
<1> DEFINE size == Len(w)
<1> USE DEF From, Contiguous
<1> DEFINE g == f \o w
<1>0. g \in Seq(Int) /\ Len(g) = Len(f) + Len(w)
  BY ConcatProperties, Zenon
<1>1. g \in Seq(Int) /\ Len(g) = Len(f) + size /\ Len(f) \in Nat
  BY <1>0
<1>2. \A i \in 1 .. Len(g) : g[i] = IF i <= Len(f) THEN f[i] ELSE w[i - Len(f)]
  OBVIOUS
<1> HIDE DEF g
<1>3. CASE f = << >>
  <2>1. Len(f) = 0
    BY <1>3
  <2>2. \A i \in 1 .. Len(g) : g[i] = base + i - 1
    BY <1>1, <1>2, <2>1
  <2>3. g # << >> => 1 \in 1 .. Len(g)
    BY <1>1
  <2>4. g # << >> => g[1] = base
    BY <2>2, <2>3
  <2>5. \A i \in 1 .. Len(g) : g # << >>
    BY <1>1
  <2> QED
    BY <1>1, <1>3, <2>2, <2>4, <2>5 DEF g
<1>4. CASE f # << >>
  <2>1. Len(f) >= 1
    BY <1>4
  <2>2. g # << >> /\ 1 \in 1 .. Len(g)
    BY <1>1, <2>1
  <2>3. g[1] = f[1] /\ f[1] \in Int
    BY <1>1, <1>2, <2>1, <2>2
  <2>4. \A i \in 1 .. Len(g) : g[i] = f[1] + i - 1
    <3> SUFFICES ASSUME NEW i \in 1 .. Len(g) PROVE g[i] = f[1] + i - 1
      OBVIOUS
    <3>0. i \in Int /\ 1 <= i /\ i <= Len(f) + size
      BY <1>1
    <3>1. CASE i <= Len(f)
      <4>1. i \in 1 .. Len(f)
        BY <1>1, <3>0, <3>1
      <4>2. g[i] = f[i]
        BY <1>2, <3>1
      <4> QED
        BY <4>1, <4>2
    <3>2. CASE i > Len(f)
      <4>1. i - Len(f) \in 1 .. size
        BY <1>1, <3>0, <3>2
      <4>2. ~(i <= Len(f))
        BY <1>1, <3>0, <3>2
      <4>3. g[i] = w[i - Len(f)]
        BY <1>2, <4>2
      <4>4. w[i - Len(f)] = base + (i - Len(f)) - 1
        BY <4>1
      <4>5. base = f[1] + Len(f)
        BY <1>4
      <4>6. base + (i - Len(f)) - 1 = f[1] + i - 1
        BY <1>1, <2>3, <3>0, <4>5
      <4> QED
        BY <4>3, <4>4, <4>6
    <3> QED
      BY <1>1, <3>1, <3>2
  <2> QED
    BY <1>1, <1>4, <2>2, <2>3, <2>4 DEF g
<1> QED
  BY <1>3, <1>4

LEMMA UnitsWritten ==
  ASSUME RecordingInv, NEW size \in Nat, NEW base \in Int,
         \A j \in 0 .. size - 1 : Unit(current_write_pointer + j) = base + j,
         fd_open, file # << >> => file[1] + Len(file) = base,
         WriteUnits(size)
  PROVE  /\ file' \in Seq(Int) /\ Len(file') = Len(file) + size /\ fd_open'
         /\ Contiguous(file')
         /\ file # << >> => file' # << >> /\ file'[1] = file[1]
         /\ file = << >> /\ file' # << >> => file'[1] = base
<1> DEFINE w == [i \in 1 .. size |-> Unit(current_write_pointer + i - 1)]
<1>1. \A i \in 1 .. size : Unit(current_write_pointer + i - 1) = base + i - 1
  <2> SUFFICES ASSUME NEW i \in 1 .. size
               PROVE  Unit(current_write_pointer + i - 1) = base + i - 1
    OBVIOUS
  <2>1. i - 1 \in 0 .. size - 1 /\ current_write_pointer + i - 1 = current_write_pointer + (i - 1)
    BY DEF RecordingInv, ZeroCopyType
  <2> QED
    BY <2>1
<1>2. w \in Seq(Int) /\ Len(w) = size /\ From(w, base)
  <2>1. \A i \in 1 .. size : Unit(current_write_pointer + i - 1) \in Int
    BY <1>1
  <2> QED
    BY <1>1, <2>1 DEF From
<1>3. file \in Seq(Int) /\ Contiguous(file)
  BY DEF RecordingInv, ZeroCopyType, FileInv
<1>4. file' = file \o w
  BY DEF WriteUnits
<1>5. fd_open'
  BY DEF WriteUnits
<1> HIDE DEF w
<1>6. /\ file \o w \in Seq(Int)
      /\ Len(file \o w) = Len(file) + Len(w)
      /\ Contiguous(file \o w)
      /\ file # << >> => file \o w # << >> /\ (file \o w)[1] = file[1]
      /\ file = << >> /\ file \o w # << >> => (file \o w)[1] = base
  BY <1>2, <1>3, Appended
<1> QED
  BY <1>2, <1>4, <1>5, <1>6

(* On a closed descriptor nothing is written. *)
LEMMA NothingWritten ==
  ASSUME RecordingInv, NEW size, ~fd_open, WriteUnits(size)
  PROVE  file' = file /\ ~fd_open'
BY DEF WriteUnits

(* Multiples of the frame size. *)
LEMMA WholeFrames ==
  ASSUME NEW k \in Int, NEW a \in Int, NEW n \in Int
  PROVE  /\ (k * FrameSize) % FrameSize = 0
         /\ a % FrameSize = 0 /\ a + n = k * FrameSize => n % FrameSize = 0
<1>1. FrameSize \in Nat \ {0} /\ 0 \in 0 .. FrameSize - 1
  BY ZeroCopyAssumption
<1>2. \A q \in Int : (q * FrameSize) % FrameSize = 0
  <2> SUFFICES ASSUME NEW q \in Int PROVE (q * FrameSize) % FrameSize = 0
    OBVIOUS
  <2>1. (q * FrameSize + 0) % FrameSize = 0
    BY <1>1, Quotient
  <2>2. q * FrameSize + 0 = q * FrameSize
    BY <1>1
  <2> QED
    BY <2>1, <2>2
<1>3. ASSUME a % FrameSize = 0, a + n = k * FrameSize PROVE n % FrameSize = 0
  <2>1. PICK q \in Int : a = q * FrameSize
    <3>1. PICK q \in Int, r \in 0 .. FrameSize - 1 : a = q * FrameSize + r /\ r = a % FrameSize
      BY <1>1, Division
    <3>2. q * FrameSize \in Int
      BY <1>1
    <3> QED
      BY <1>3, <3>1, <3>2
  <2>2. (k - q) * FrameSize = k * FrameSize - q * FrameSize
    BY <1>1
  <2>3. k * FrameSize \in Int /\ q * FrameSize \in Int
    BY <1>1
  <2>4. n = (k - q) * FrameSize
    BY <1>3, <2>1, <2>2, <2>3
  <2> QED
    BY <1>2, <2>4
<1> QED
  BY <1>2, <1>3

(* The places of the recorder at which it writes nothing.                  *)
LEMMA QuietSteps ==
  ASSUME RecordingInv,
         \/ Record \/ RecordBegin \/ RecordLoop \/ RecordWait \/ FirstFrame
         \/ ReadBack \/ ChunksDone \/ RecordEnd
  PROVE  RecordingInv'
<1> USE DEF bufferVars, cleanerVars, pointerVars, fileVars, recordVars, recorderFrame
<1>0. /\ oldest \in Nat /\ newest \in Nat /\ m_next_timestamp_to_record \in Nat
      /\ 1 <= oldest /\ oldest <= newest
  BY DEF RecordingInv, ZeroCopyType
<1>1. /\ oldest' = oldest /\ newest' = newest /\ cpc' = cpc /\ to_pop' = to_pop
      /\ m_cleanup_requested' = m_cleanup_requested /\ file' = file
  BY DEF Record, RecordBegin, RecordLoop, RecordWait, FirstFrame, ReadBack, ChunksDone, RecordEnd
<1>2. CleanerInv'
  BY <1>1 DEF RecordingInv, CleanerInv
<1>3. ASSUME UNCHANGED <<m_next_timestamp_to_record>> PROVE Held <=> Held'
  BY <1>1, <1>3 DEF Held
<1>4. ASSUME UNCHANGED <<m_next_timestamp_to_record, current_write_pointer>>, fd_open' = fd_open,
             NEW e, PointsBefore(e)
      PROVE  PointsBefore(e)'
  BY <1>1, <1>4 DEF PointsBefore, PointsTo, FileEndsAt
<1>5. ASSUME UNCHANGED <<m_next_timestamp_to_record, current_write_pointer>>, fd_open' = fd_open,
             PointsBefore(newest)
      PROVE  PointsBefore(newest)'
  BY <1>1, <1>5 DEF PointsBefore, PointsTo, FileEndsAt
<1>6. ASSUME UNCHANGED current_write_pointer, fd_open' = fd_open PROVE Searching <=> Searching'
  BY <1>1, <1>6 DEF Searching
<1>7. CASE Record
  <2>1. /\ rpc = "idle" /\ rpc' = "start" /\ fd_open' = fd_open
    BY <1>7 DEF Record
  <2>2. ZeroCopyType'
    BY <1>1, <1>7, <2>1 DEF Record, RecordingInv, ZeroCopyType
  <2>3. RecorderInv'
    BY <1>1, <2>1 DEF RecordingInv, RecorderInv
  <2>4. FileInv'
    BY <1>1, <2>1 DEF RecordingInv, FileInv
  <2> QED
    BY <1>2, <2>2, <2>3, <2>4 DEF RecordingInv
<1>8. CASE RecordBegin
  <2>1. /\ rpc = "start" /\ rpc' = "loop" /\ fd_open' = fd_open
        /\ current_write_pointer' = nullptr /\ m_next_timestamp_to_record' = 0
    BY <1>8 DEF RecordBegin
  <2>2. ZeroCopyType'
    BY <1>1, <1>8, <2>1 DEF RecordBegin, RecordingInv, ZeroCopyType, nullptr
  <2>3. Searching'
    BY <1>1, <2>1 DEF RecordingInv, RecorderInv, Searching
  <2>4. RecorderInv'
    BY <2>1, <2>3 DEF RecorderInv
  <2>5. FileInv'
    BY <1>1, <2>1 DEF RecordingInv, FileInv
  <2> QED
    BY <1>2, <2>2, <2>4, <2>5 DEF RecordingInv
<1>9. CASE RecordLoop
  <2>1. /\ rpc = "loop" /\ rpc' = "wait" /\ fd_open' = fd_open
        /\ UNCHANGED <<current_write_pointer, m_next_timestamp_to_record>>
    BY <1>9 DEF RecordLoop
  <2>2. ZeroCopyType'
    BY <1>1, <1>9, <2>1 DEF RecordLoop, RecordingInv, ZeroCopyType
  <2>3. \/ Searching' /\ m_next_timestamp_to_record' = 0
        \/ current_write_pointer' # nullptr /\ Held' /\ PointsBefore(newest)'
    BY <1>3, <1>5, <1>6, <2>1 DEF RecordingInv, RecorderInv
  <2>4. RecorderInv'
    BY <2>1, <2>3 DEF RecorderInv
  <2>5. FileInv'
    BY <1>1, <2>1 DEF RecordingInv, FileInv
  <2> QED
    BY <1>2, <2>2, <2>4, <2>5 DEF RecordingInv
<1>10. CASE RecordWait
  <2>1. /\ rpc = "wait" /\ fd_open' = fd_open /\ ~m_cleanup_requested
        /\ rpc' = IF m_next_timestamp_to_record = 0 THEN "first" ELSE "back"
        /\ UNCHANGED <<current_write_pointer, m_next_timestamp_to_record>>
    BY <1>10 DEF RecordWait, MayPass
  <2>2. ZeroCopyType'
    BY <1>1, <1>10, <2>1 DEF RecordWait, RecordingInv, ZeroCopyType
  <2>3. \/ Searching /\ m_next_timestamp_to_record = 0
        \/ current_write_pointer # nullptr /\ Held /\ PointsBefore(newest)
    BY <2>1 DEF RecordingInv, RecorderInv
  <2>4. Held => m_next_timestamp_to_record # 0
    BY <1>0 DEF Held
  <2>5. cpc = "sleep"
    BY <2>1 DEF RecordingInv, CleanerInv
  <2>6. ASSUME m_next_timestamp_to_record = 0 PROVE RecorderInv'
    <3>1. rpc' = "first" /\ Searching' /\ m_next_timestamp_to_record' = 0 /\ cpc' # "popping"
      BY <1>1, <1>6, <2>1, <2>3, <2>4, <2>5, <2>6
    <3> QED
      BY <3>1 DEF RecorderInv
  <2>7. ASSUME m_next_timestamp_to_record # 0 PROVE RecorderInv'
    <3>1. rpc' = "back" /\ Held' /\ PointsBefore(newest)'
      BY <1>3, <1>5, <2>1, <2>3, <2>7
    <3> QED
      BY <3>1 DEF RecorderInv
  <2>8. FileInv'
    BY <1>1, <2>1 DEF RecordingInv, FileInv
  <2> QED
    BY <1>2, <2>2, <2>6, <2>7, <2>8 DEF RecordingInv
<1>11. CASE FirstFrame
  <2>1. /\ rpc = "first" /\ fd_open' = fd_open
        /\ UNCHANGED <<current_write_pointer, m_next_timestamp_to_record>>
    BY <1>11 DEF FirstFrame
  <2>2. \/ rpc' = "loop" /\ UNCHANGED begin
        \/ rpc' = "claim" /\ begin' = Slot(oldest) /\ Buffered # {}
    BY <1>11 DEF FirstFrame
  <2>3. ZeroCopyType'
    <3>1. Slot(oldest) \in Int
      BY <1>0, SlotOf, ZeroCopyAssumption
    <3> QED
      BY <1>1, <1>11, <2>1, <2>2, <3>1 DEF FirstFrame, RecordingInv, ZeroCopyType
  <2>4. Searching' /\ m_next_timestamp_to_record' = 0 /\ cpc' # "popping"
    BY <1>1, <1>6, <2>1 DEF RecordingInv, RecorderInv
  <2>5. Buffered # {} => oldest < newest
    BY <1>0 DEF Buffered
  <2>6. RecorderInv'
    BY <1>1, <2>2, <2>4, <2>5 DEF RecorderInv
  <2>7. FileInv'
    BY <1>1, <2>1, <2>2 DEF RecordingInv, FileInv
  <2> QED
    BY <1>2, <2>3, <2>6, <2>7 DEF RecordingInv
<1>12. CASE ReadBack
  <2>1. /\ rpc = "back" /\ rpc' = "chunks" /\ fd_open' = fd_open
        /\ current_end_pointer' = Slot(newest - 1) * FrameSize
        /\ UNCHANGED <<current_write_pointer, m_next_timestamp_to_record>>
    BY <1>12 DEF ReadBack
  <2>2. ZeroCopyType'
    <3>1. Slot(newest - 1) * FrameSize \in Int
      BY <1>0, SlotOf, ZeroCopyAssumption
    <3> QED
      BY <1>1, <1>12, <2>1, <3>1 DEF ReadBack, RecordingInv, ZeroCopyType
  <2>3. Held' /\ PointsBefore(newest)'
    BY <1>3, <1>5, <2>1 DEF RecordingInv, RecorderInv
  <2>4. EndsBefore(newest)'
    BY <1>0, <1>1, <2>1, <2>3 DEF EndsBefore
  <2>5. \E e \in Nat : EndsBefore(e)'
    BY <1>0, <1>1, <2>4 DEF EndsBefore, PointsBefore, PointsTo
  <2>6. RecorderInv'
    BY <2>1, <2>3, <2>5 DEF RecorderInv
  <2>7. FileInv'
    BY <1>1, <2>1 DEF RecordingInv, FileInv
  <2> QED
    BY <1>2, <2>2, <2>6, <2>7 DEF RecordingInv
<1>13. CASE ChunksDone
  <2>1. /\ rpc = "chunks" /\ rpc' = "loop" /\ fd_open' = fd_open
        /\ UNCHANGED <<current_write_pointer, m_next_timestamp_to_record>>
    BY <1>13 DEF ChunksDone
  <2>2. ZeroCopyType'
    BY <1>1, <1>13, <2>1 DEF ChunksDone, RecordingInv, ZeroCopyType
  <2>3. Held /\ \E e \in Nat : EndsBefore(e)
    BY <2>1 DEF RecordingInv, RecorderInv
  <2>4. PICK e \in Nat : EndsBefore(e)
    BY <2>3
  <2>5. PICK c \in Nat, r \in 0 .. FrameSize - 1 : PointsTo(c, r, e)
    BY <2>4 DEF EndsBefore, PointsBefore
  <2>6. PointsTo(c, r, newest)
    BY <1>0, <2>4, <2>5 DEF EndsBefore, PointsTo
  <2>7. PointsBefore(newest)
    BY <2>6 DEF PointsBefore
  <2>8. current_write_pointer # nullptr
    <3>1. current_write_pointer \in Nat
      BY <2>5, InBuffer DEF PointsTo
    <3> QED
      BY <3>1 DEF nullptr
  <2>9. current_write_pointer' # nullptr /\ Held' /\ PointsBefore(newest)'
    BY <1>3, <1>5, <2>1, <2>3, <2>7, <2>8
  <2>10. RecorderInv'
    BY <2>1, <2>9 DEF RecorderInv
  <2>11. FileInv'
    BY <1>1, <2>1 DEF RecordingInv, FileInv
  <2> QED
    BY <1>2, <2>2, <2>10, <2>11 DEF RecordingInv
<1>14. CASE RecordEnd
  <2>1. rpc = "finish" /\ rpc' = "idle" /\ fd_open' = FALSE
    BY <1>14 DEF RecordEnd
  <2>2. ZeroCopyType'
    <3>1. NoCursor \in Nat
      BY ZeroCopyAssumption DEF NoCursor
    <3> QED
      BY <1>1, <1>14, <2>1, <3>1 DEF RecordEnd, RecordingInv, ZeroCopyType
  <2>3. RecorderInv'
    BY <2>1 DEF RecorderInv
  <2>4. FileInv'
    BY <1>1, <2>1 DEF RecordingInv, FileInv
  <2> QED
    BY <1>2, <2>2, <2>3, <2>4 DEF RecordingInv
<1> QED
  BY <1>7, <1>8, <1>9, <1>10, <1>11, <1>12, <1>13, <1>14

(* end() looks aligned only where every frame is. *)
LEMMA NeverAligned ==
  ASSUME NEW slot \in Int, ~Aligned(slot * FrameSize + 0)
  PROVE  ~Aligned(Address(End))
<1> SUFFICES ASSUME Aligned(Address(End)) PROVE FALSE
  OBVIOUS
<1>1. FrameSize \in Nat \ {0} /\ AlignmentSize \in Nat \ {0} /\ -FrameSize \in Int
  BY ZeroCopyAssumption
<1>2. (-FrameSize) % AlignmentSize = 0
  BY DEF Aligned, Address
<1>3. PICK k \in Int : -FrameSize = k * AlignmentSize
  <2>1. PICK k \in Int, r \in 0 .. AlignmentSize - 1 :
          -FrameSize = k * AlignmentSize + r /\ r = (-FrameSize) % AlignmentSize
    BY <1>1, Division
  <2>2. k * AlignmentSize \in Int
    BY <1>1
  <2> QED
    BY <1>2, <2>1, <2>2
<1>4. slot * FrameSize + 0 = (-(slot * k)) * AlignmentSize + 0
  <2>1. slot * (-FrameSize) = slot * (k * AlignmentSize)
    BY <1>3
  <2>2. slot * (k * AlignmentSize) = (slot * k) * AlignmentSize
    BY <1>1
  <2>3. slot * (-FrameSize) = -(slot * FrameSize)
    BY <1>1
  <2>4. (-(slot * k)) * AlignmentSize = -((slot * k) * AlignmentSize)
    BY <1>1
  <2> QED
    BY <1>1, <2>1, <2>2, <2>3, <2>4
<1>5. -(slot * k) \in Int /\ 0 \in 0 .. AlignmentSize - 1
  BY <1>1
<1>6. ((-(slot * k)) * AlignmentSize + 0) % AlignmentSize = 0
  BY <1>1, <1>5, Quotient
<1> QED
  BY <1>4, <1>6 DEF Aligned

(* Where recording begins, and the cursor that follows it.                 *)
LEMMA CursorSteps ==
  ASSUME RecordingInv, ClaimFirstFrame \/ SkipFrame \/ StoreCursor
  PROVE  RecordingInv'
<1> USE DEF bufferVars, cleanerVars, pointerVars, fileVars, recordVars, recorderFrame
<1>0. /\ oldest \in Nat /\ newest \in Nat /\ m_next_timestamp_to_record \in Nat
      /\ 1 <= oldest /\ oldest <= newest /\ newest - oldest < Size /\ Size \in Nat
  BY ZeroCopyAssumption DEF RecordingInv, ZeroCopyType
<1>1. /\ oldest' = oldest /\ newest' = newest /\ cpc' = cpc /\ to_pop' = to_pop
      /\ m_cleanup_requested' = m_cleanup_requested /\ file' = file
  BY DEF ClaimFirstFrame, SkipFrame, StoreCursor
<1>2. fd_open' = fd_open
  BY DEF ClaimFirstFrame, SkipFrame, StoreCursor
<1>3. CleanerInv'
  BY <1>1 DEF RecordingInv, CleanerInv
<1>4. \A ts \in Nat : oldest <= ts /\ ts < newest => Content(Slot(ts)) = ts
  <2> SUFFICES ASSUME NEW ts \in Nat, oldest <= ts, ts < newest PROVE Content(Slot(ts)) = ts
    OBVIOUS
  <2>1. ts \in newest - Size .. newest - 1 /\ newest \in Int
    BY <1>0
  <2> QED
    BY <2>1, ContentOf
<1>5. CASE ClaimFirstFrame
  <2>1. /\ rpc = "claim" /\ rpc' = "skip" /\ begin' = begin
        /\ current_write_pointer' = current_write_pointer
        /\ m_next_timestamp_to_record' = Content(begin)
    BY <1>5 DEF ClaimFirstFrame
  <2>2. /\ oldest < newest /\ begin = Slot(oldest) /\ cpc # "popping" /\ Searching
    BY <2>1 DEF RecordingInv, RecorderInv
  <2>3. m_next_timestamp_to_record' = oldest
    BY <1>0, <1>4, <2>1, <2>2
  <2>4. ZeroCopyType'
    BY <1>1, <1>2, <1>5, <2>1, <2>3 DEF ClaimFirstFrame, RecordingInv, ZeroCopyType
  <2>5. Held'
    BY <1>0, <1>1, <2>2, <2>3 DEF Held
  <2>6. \E c \in Nat : c >= m_next_timestamp_to_record' /\ c < newest' /\ begin' = Slot(c)
    BY <1>0, <1>1, <2>1, <2>2, <2>3
  <2>7. Searching'
    BY <1>1, <1>2, <2>1, <2>2 DEF Searching
  <2>8. RecorderInv'
    BY <2>1, <2>5, <2>6, <2>7 DEF RecorderInv
  <2>9. FileInv'
    BY <1>1, <1>2, <2>1 DEF RecordingInv, FileInv
  <2> QED
    BY <1>3, <2>4, <2>8, <2>9 DEF RecordingInv
<1>6. CASE SkipFrame
  <2>1. rpc = "skip"
    BY <1>6 DEF SkipFrame
  <2>2. /\ Searching
        /\ \/ begin = End /\ ~Aligned(Address(End))
           \/ /\ Held
              /\ \E c \in Nat : c >= m_next_timestamp_to_record /\ c < newest /\ begin = Slot(c)
    BY <2>1 DEF RecordingInv, RecorderInv
  <2>3. ASSUME begin = End, ~Aligned(Address(End)) PROVE RecordingInv'
    <3>1. /\ begin' = End /\ rpc' = "skip" /\ m_next_timestamp_to_record' = 0
          /\ current_write_pointer' = current_write_pointer
      BY <1>6, <2>3 DEF SkipFrame, Successor
    <3>2. ZeroCopyType'
      BY <1>1, <1>2, <1>6, <3>1 DEF SkipFrame, RecordingInv, ZeroCopyType, End
    <3>3. Searching'
      BY <1>1, <1>2, <2>2, <3>1 DEF Searching
    <3>4. RecorderInv'
      BY <2>3, <3>1, <3>3 DEF RecorderInv
    <3>5. FileInv'
      BY <1>1, <1>2, <2>1, <3>1 DEF RecordingInv, FileInv
    <3> QED
      BY <1>3, <3>2, <3>4, <3>5 DEF RecordingInv
  <2>4. ASSUME Held, NEW c \in Nat, c >= m_next_timestamp_to_record, c < newest, begin = Slot(c)
        PROVE  RecordingInv'
    <3>1. Slot(c) \in 0 .. Size - 1 /\ c \in Int /\ begin # End
      BY <2>4, SlotOf, <1>0 DEF End
    <3>2. Address(begin) = Slot(c) * FrameSize + 0 /\ Slot(c) * FrameSize + 0 \in Int
      <4>1. Slot(c) * FrameSize = Slot(c) * FrameSize + 0 /\ Slot(c) * FrameSize + 0 \in Int
        BY <3>1, ZeroCopyAssumption
      <4> QED
        BY <2>4, <3>1, <4>1 DEF Address
    <3>3. CASE Aligned(Address(begin))
      <4>1. /\ rpc' = "back" /\ current_write_pointer' = Slot(c) * FrameSize + 0
            /\ m_next_timestamp_to_record' = m_next_timestamp_to_record /\ begin' = begin
        BY <1>6, <3>2, <3>3 DEF SkipFrame
      <4>2. ZeroCopyType'
        BY <1>1, <1>2, <1>6, <3>2, <4>1 DEF SkipFrame, RecordingInv, ZeroCopyType
      <4>3. Held'
        BY <1>1, <2>4, <4>1 DEF Held
      <4>4. FileEndsAt(c, 0)'
        BY <1>1, <1>2, <2>2 DEF Searching, FileEndsAt
      <4>5. PointsTo(c, 0, newest)'
        BY <1>1, <2>4, <4>1, <4>4 DEF PointsTo
      <4>6. PointsBefore(newest)'
        BY <4>5, ZeroCopyAssumption DEF PointsBefore
      <4>7. RecorderInv'
        BY <4>1, <4>3, <4>6 DEF RecorderInv
      <4>8. FileInv'
        BY <1>1, <1>2, <2>1, <4>1 DEF RecordingInv, FileInv
      <4> QED
        BY <1>3, <4>2, <4>7, <4>8 DEF RecordingInv
    <3>4. CASE ~Aligned(Address(begin))
      <4>1. /\ rpc' = "skip" /\ current_write_pointer' = current_write_pointer
            /\ begin' = Successor(begin)
            /\ m_next_timestamp_to_record' = IF begin' = End THEN 0 ELSE m_next_timestamp_to_record
        BY <1>6, <2>1, <3>4 DEF SkipFrame
      <4>2. ~Aligned(Address(End))
        BY <3>1, <3>2, <3>4, NeverAligned
      <4>3. begin' # End => c + 1 < newest /\ begin' = Slot(c + 1)
        <5> SUFFICES ASSUME begin' # End PROVE c + 1 < newest /\ begin' = Slot(c + 1)
          OBVIOUS
        <5>1. begin' = Slot(c + 1) /\ Good(Slot(c + 1))
          BY <2>4, <3>1, <4>1, SlotNext DEF Successor
        <5>2. PICK ts \in Buffered : Slot(ts) = Slot(c + 1)
          BY <5>1 DEF Good
        <5>3. c + 1 # newest
          <6> SUFFICES ASSUME c + 1 = newest PROVE FALSE
            OBVIOUS
          <6>1. ts \in Int /\ newest \in Int /\ ts < newest /\ newest - ts < Size
            BY <1>0 DEF Buffered
          <6> QED
            BY <5>2, <6>1, SlotsDiffer
        <5> QED
          BY <1>0, <2>4, <5>1, <5>3
      <4>4. begin' \in Int
        <5>1. c + 1 \in Int
          OBVIOUS
        <5>2. Slot(c + 1) \in Int
          BY <5>1, SlotOf, <1>0
        <5> QED
          BY <4>3, <5>2 DEF End
      <4>5. ZeroCopyType'
        BY <1>1, <1>2, <1>6, <4>1, <4>4 DEF SkipFrame, RecordingInv, ZeroCopyType
      <4>6. Searching'
        BY <1>1, <1>2, <2>2, <4>1 DEF Searching
      <4>7. begin' # End =>
              Held' /\ \E d \in Nat : d >= m_next_timestamp_to_record' /\ d < newest' /\ begin' = Slot(d)
        <5> SUFFICES ASSUME begin' # End
                     PROVE  /\ Held'
                            /\ \E d \in Nat : /\ d >= m_next_timestamp_to_record' /\ d < newest'
                                              /\ begin' = Slot(d)
          OBVIOUS
        <5>1. m_next_timestamp_to_record' = m_next_timestamp_to_record
          BY <4>1
        <5>2. Held'
          BY <1>1, <2>4, <5>1 DEF Held
        <5>3. c + 1 \in Nat /\ c + 1 >= m_next_timestamp_to_record
          BY <1>0, <2>4
        <5> QED
          BY <1>1, <4>3, <5>1, <5>2, <5>3
      <4>8. RecorderInv'
        BY <4>1, <4>2, <4>6, <4>7 DEF RecorderInv
      <4>9. FileInv'
        BY <1>1, <1>2, <2>1, <4>1 DEF RecordingInv, FileInv
      <4> QED
        BY <1>3, <4>5, <4>8, <4>9 DEF RecordingInv
    <3> QED
      BY <3>3, <3>4
  <2> QED
    BY <2>2, <2>3, <2>4
<1>7. CASE StoreCursor
  <2>1. /\ rpc = "cursor" /\ rpc' = "chunks" /\ current_end_pointer' = current_end_pointer
        /\ current_write_pointer' = current_write_pointer
        /\ m_next_timestamp_to_record' = Content(current_write_pointer \div FrameSize)
    BY <1>7 DEF StoreCursor
  <2>2. Held /\ \E e \in Nat : EndsBefore(e)
    BY <2>1 DEF RecordingInv, RecorderInv
  <2>3. PICK e \in Nat : EndsBefore(e)
    BY <2>2
  <2>4. PICK c \in Nat, r \in 0 .. FrameSize - 1 : PointsTo(c, r, e)
    BY <2>3 DEF EndsBefore, PointsBefore
  <2>5. oldest <= c /\ c < newest /\ m_next_timestamp_to_record <= c
    BY <1>0, <2>2, <2>3, <2>4 DEF Held, EndsBefore, PointsTo
  <2>6. current_write_pointer \div FrameSize = Slot(c)
    <3>1. c \in newest - Size .. newest - 1 /\ newest \in Int
      BY <1>0, <2>5
    <3>2. (Slot(c) * FrameSize + r) \div FrameSize = Slot(c)
      BY <3>1, UnitAt
    <3> QED
      BY <2>4, <3>2 DEF PointsTo
  <2>7. m_next_timestamp_to_record' = c
    BY <1>4, <2>1, <2>5, <2>6
  <2>8. ZeroCopyType'
    BY <1>1, <1>2, <1>7, <2>1, <2>7 DEF StoreCursor, RecordingInv, ZeroCopyType
  <2>9. Held'
    BY <1>0, <1>1, <2>2, <2>5, <2>7 DEF Held
  <2>10. FileEndsAt(c, r)'
    BY <1>1, <1>2, <2>4 DEF PointsTo, FileEndsAt
  <2>11. PointsTo(c, r, e)'
    BY <2>1, <2>4, <2>7, <2>10 DEF PointsTo
  <2>12. EndsBefore(e)'
    BY <1>1, <2>1, <2>3, <2>11 DEF EndsBefore, PointsBefore
  <2>13. RecorderInv'
    BY <2>1, <2>9, <2>12 DEF RecorderInv
  <2>14. FileInv'
    BY <1>1, <1>2, <2>1 DEF RecordingInv, FileInv
  <2> QED
    BY <1>3, <2>8, <2>13, <2>14 DEF RecordingInv
<1> QED
  BY <1>5, <1>6, <1>7

(* A chunk: the pointer and the end of the file move on together.          *)
LEMMA ChunkStep ==
  ASSUME RecordingInv, WriteChunk
  PROVE  /\ RecordingInv'
         /\ WriteSize \in Nat /\ (fd_open => Len(file') = Len(file) + WriteSize)
<1> USE DEF bufferVars, cleanerVars, pointerVars, fileVars, recordVars, recorderFrame
<1>0. /\ oldest \in Nat /\ newest \in Nat /\ m_next_timestamp_to_record \in Nat
      /\ 1 <= oldest /\ oldest <= newest /\ newest - oldest < Size /\ Size \in Nat
      /\ FrameSize \in Nat \ {0} /\ ZeroCopyType
  BY ZeroCopyAssumption DEF RecordingInv, ZeroCopyType
<1>1. /\ oldest' = oldest /\ newest' = newest /\ cpc' = cpc /\ to_pop' = to_pop
      /\ m_cleanup_requested' = m_cleanup_requested
      /\ m_next_timestamp_to_record' = m_next_timestamp_to_record
      /\ current_end_pointer' = current_end_pointer
      /\ rpc = "chunks" /\ rpc' = "cursor" /\ current_write_pointer' = AfterWrite(WriteSize)
  BY DEF WriteChunk
<1>2. WriteUnits(WriteSize)
  BY DEF WriteChunk
<1>3. CleanerInv'
  BY <1>1 DEF RecordingInv, CleanerInv
<1>4. Held /\ \E e \in Nat : EndsBefore(e)
  BY <1>1 DEF RecordingInv, RecorderInv
<1>5. PICK e \in Nat : EndsBefore(e)
  BY <1>4
<1>6. PICK c \in Nat, r \in 0 .. FrameSize - 1 : PointsTo(c, r, e)
  BY <1>5 DEF EndsBefore, PointsBefore
<1>7. /\ c \in oldest .. newest - 1 /\ e - 1 \in oldest .. newest - 1 /\ c <= e - 1
      /\ m_next_timestamp_to_record <= c /\ (c = e - 1 => r = 0)
  BY <1>0, <1>4, <1>5, <1>6 DEF Held, EndsBefore, PointsTo
<1> DEFINE base == (c - 1) * FrameSize + r
<1>8. base \in Int
  BY <1>0
<1>9. /\ current_write_pointer = Slot(c) * FrameSize + r
      /\ current_end_pointer = Slot(e - 1) * FrameSize
      /\ FileEndsAt(c, r)
  BY <1>5, <1>6 DEF EndsBefore, PointsTo
<1>10. /\ WriteSize \in Nat
       /\ \A j \in 0 .. WriteSize - 1 : Unit(current_write_pointer + j) = base + j
       /\ \E d \in c .. e - 1, s \in 0 .. FrameSize - 1 :
            /\ d = e - 1 => s = 0
            /\ AfterWrite(WriteSize) = Slot(d) * FrameSize + s
            /\ base + WriteSize = (d - 1) * FrameSize + s
  BY <1>0, <1>7, <1>9, ChunkAhead
<1>11. PICK d \in c .. e - 1, s \in 0 .. FrameSize - 1 :
         /\ d = e - 1 => s = 0
         /\ AfterWrite(WriteSize) = Slot(d) * FrameSize + s
         /\ base + WriteSize = (d - 1) * FrameSize + s
  BY <1>10
<1>12. d \in Nat /\ d >= m_next_timestamp_to_record /\ d < e /\ (d + 1 = e => s = 0)
  BY <1>0, <1>7, <1>11
<1>13. /\ FileEndsAt(d, s)' /\ file' \in Seq(Int) /\ FileInv' /\ fd_open' \in BOOLEAN
       /\ fd_open => Len(file') = Len(file) + WriteSize
  <2>1. CASE ~fd_open
    <3>1. file' = file /\ ~fd_open'
      BY <1>2, <2>1, NothingWritten
    <3>2. fd_open' \in BOOLEAN
      BY <1>2, <1>0 DEF WriteUnits, ZeroCopyType
    <3> QED
      BY <1>0, <1>1, <2>1, <3>1, <3>2 DEF FileEndsAt, RecordingInv, FileInv, ZeroCopyType
  <2>2. CASE fd_open
    <3>1. file # << >> => file[1] % FrameSize = 0 /\ file[1] + Len(file) = base
      BY <1>9, <2>2 DEF FileEndsAt
    <3>2. file = << >> => r = 0
      BY <1>9, <2>2 DEF FileEndsAt
    <3> HIDE DEF base
    <3>3. /\ file' \in Seq(Int) /\ Len(file') = Len(file) + WriteSize /\ fd_open'
          /\ Contiguous(file')
          /\ file # << >> => file' # << >> /\ file'[1] = file[1]
          /\ file = << >> /\ file' # << >> => file'[1] = base
      BY <1>2, <1>8, <1>10, <2>2, <3>1, UnitsWritten
    <3>4. file \in Seq(Int) /\ Len(file) \in Nat /\ (file # << >> => file[1] \in Int)
      BY <1>0 DEF ZeroCopyType
    <3>5. ASSUME file # << >> PROVE FileEndsAt(d, s)'
      <4>1. file'[1] % FrameSize = 0 /\ file'[1] + Len(file') = base + WriteSize /\ file' # << >>
        <5> DEFINE a == file[1]
                   n == Len(file)
        <5>1. a \in Int /\ n \in Nat /\ a + n = base
          BY <3>1, <3>4, <3>5
        <5>2. Len(file') = n + WriteSize /\ file'[1] = a
          BY <3>3, <3>5
        <5> HIDE DEF a, n
        <5>3. a + (n + WriteSize) = base + WriteSize
          BY <1>8, <1>10, <5>1
        <5>4. file'[1] % FrameSize = 0 /\ file' # << >>
          BY <3>1, <3>3, <3>5
        <5> QED
          BY <5>2, <5>3, <5>4
      <4> QED
        BY <1>11, <4>1 DEF FileEndsAt
    <3>6. ASSUME file = << >>, file' # << >> PROVE FileEndsAt(d, s)'
      <4>1. base = (c - 1) * FrameSize
        <5>1. (c - 1) * FrameSize \in Int
          BY <1>0
        <5> QED
          BY <3>2, <3>6, <5>1 DEF base
      <4>2. file'[1] % FrameSize = 0
        <5>1. c - 1 \in Int
          OBVIOUS
        <5>2. ((c - 1) * FrameSize) % FrameSize = 0
          BY <5>1, WholeFrames
        <5> QED
          BY <3>3, <3>6, <4>1, <5>2
      <4>3. file'[1] + Len(file') = base + WriteSize
        <5>1. Len(file) = 0
          BY <3>6
        <5> QED
          BY <1>8, <1>10, <3>3, <3>6, <5>1
      <4> QED
        BY <1>11, <3>6, <4>2, <4>3 DEF FileEndsAt
    <3>7. ASSUME file = << >>, file' = << >> PROVE FileEndsAt(d, s)'
      <4>1. WriteSize = 0
        <5>1. Len(file) = 0 /\ Len(file') = 0
          BY <3>7
        <5> QED
          BY <1>10, <3>3, <5>1
      <4>2. (c - 1) * FrameSize + 0 = (d - 1) * FrameSize + s
        BY <1>8, <1>11, <3>2, <3>7, <4>1 DEF base
      <4>3. c - 1 \in Int /\ d - 1 \in Int /\ 0 \in 0 .. FrameSize - 1
        BY <1>0, <1>12
      <4>4. ((c - 1) * FrameSize + 0) % FrameSize = 0 /\ ((d - 1) * FrameSize + s) % FrameSize = s
        BY <1>0, <4>3, Quotient
      <4>5. s = 0
        BY <4>2, <4>4
      <4> QED
        BY <3>7, <4>5 DEF FileEndsAt
    <3>8. FileEndsAt(d, s)'
      BY <3>5, <3>6, <3>7
    <3>9. FileInv'
      BY <1>1, <3>3 DEF FileInv
    <3>10. fd_open' \in BOOLEAN
      BY <1>2, <1>0 DEF WriteUnits, ZeroCopyType
    <3> QED
      BY <3>3, <3>8, <3>9, <3>10
  <2> QED
    BY <2>1, <2>2
<1>14. PointsTo(d, s, e)'
  BY <1>1, <1>11, <1>12, <1>13 DEF PointsTo
<1>15. EndsBefore(e)'
  BY <1>1, <1>5, <1>12, <1>14 DEF EndsBefore, PointsBefore
<1>16. Held'
  BY <1>1, <1>4 DEF Held
<1>17. RecorderInv'
  BY <1>1, <1>15, <1>16 DEF RecorderInv
<1>18. ZeroCopyType'
  <2>1. AfterWrite(WriteSize) \in Int /\ considered_chunks_in_loop' \in Nat
    <3>1. Slot(d) * FrameSize + s \in Nat
      BY <1>12, InBuffer
    <3> QED
      BY <1>0, <1>11, <3>1 DEF WriteChunk, ZeroCopyType
  <2>2. begin' = begin
    BY DEF WriteChunk
  <2> QED
    BY <1>0, <1>1, <1>13, <2>1, <2>2 DEF ZeroCopyType
<1> QED
  BY <1>3, <1>10, <1>13, <1>17, <1>18 DEF RecordingInv

(* The rest of the frame that the pointer is in. *)
LEMMA RestAhead ==
  ASSUME ZeroCopyType, NEW c \in oldest .. newest - 1, NEW r \in 0 .. FrameSize - 1,
         current_write_pointer = Slot(c) * FrameSize + r
  PROVE  /\ RestSize \in Nat
         /\ \A j \in 0 .. RestSize - 1 :
              /\ Content((current_write_pointer + j) \div FrameSize) \in Buffered
              /\ Unit(current_write_pointer + j) = (c - 1) * FrameSize + r + j
         /\ \E k \in Int : (c - 1) * FrameSize + r + RestSize = k * FrameSize
         /\ r = 0 => RestSize = 0
<1>1. /\ FrameSize \in Nat \ {0} /\ c \in newest - Size .. newest - 1 /\ newest \in Int
      /\ c \in Int /\ c \in Buffered
  BY ZeroCopyAssumption DEF ZeroCopyType, Buffered
<1>2. /\ Slot(c) * FrameSize + r \in Nat /\ Slot(c) * FrameSize \in Int
      /\ (c - 1) * FrameSize \in Int
  BY <1>1, InBuffer, SlotOf
<1>3. current_write_pointer # nullptr
  BY <1>2 DEF nullptr
<1>4. current_write_pointer % FrameSize = r
  BY <1>1, UnitAt
<1>5. RestSize = IF r = 0 THEN 0 ELSE FrameSize - r
  BY <1>3, <1>4 DEF RestSize
<1>6. RestSize \in Nat /\ (r = 0 => RestSize = 0)
  BY <1>1, <1>5
<1>7. ASSUME NEW j \in 0 .. RestSize - 1
      PROVE  /\ Content((current_write_pointer + j) \div FrameSize) \in Buffered
             /\ Unit(current_write_pointer + j) = (c - 1) * FrameSize + r + j
  <2>1. r + j \in 0 .. FrameSize - 1
    BY <1>1, <1>5, <1>6
  <2>2. /\ current_write_pointer + j = Slot(c) * FrameSize + (r + j)
        /\ (c - 1) * FrameSize + (r + j) = (c - 1) * FrameSize + r + j
    BY <1>2, <2>1
  <2>3. /\ (Slot(c) * FrameSize + (r + j)) \div FrameSize = Slot(c)
        /\ Unit(Slot(c) * FrameSize + (r + j)) = (c - 1) * FrameSize + (r + j)
    BY <1>1, <2>1, UnitAt
  <2>4. Content(Slot(c)) = c
    BY <1>1, ContentOf
  <2> QED
    BY <1>1, <2>2, <2>3, <2>4
<1>8. \E k \in Int : (c - 1) * FrameSize + r + RestSize = k * FrameSize
  <2>1. c * FrameSize = (c - 1) * FrameSize + FrameSize
    BY <1>1
  <2>2. CASE r = 0
    <3>1. (c - 1) * FrameSize + r + RestSize = (c - 1) * FrameSize /\ c - 1 \in Int
      BY <1>1, <1>2, <1>6, <2>2
    <3> QED
      BY <3>1
  <2>3. CASE r # 0
    <3>1. (c - 1) * FrameSize + r + RestSize = c * FrameSize
      BY <1>1, <1>2, <1>5, <2>1, <2>3
    <3> QED
      BY <1>1, <3>1
  <2> QED
    BY <2>2, <2>3
<1> QED
  BY <1>6, <1>7, <1>8

(* The last write makes whole frames of the file. *)
LEMMA RestStep ==
  ASSUME RecordingInv, CompleteFrame
  PROVE  RecordingInv'
<1> USE DEF bufferVars, cleanerVars, pointerVars, fileVars, recordVars, recorderFrame
<1>0. /\ oldest \in Nat /\ newest \in Nat /\ m_next_timestamp_to_record \in Nat
      /\ 1 <= oldest /\ oldest <= newest /\ newest - oldest < Size /\ Size \in Nat
      /\ FrameSize \in Nat \ {0} /\ ZeroCopyType /\ file \in Seq(Int) /\ Len(file) \in Nat
  BY ZeroCopyAssumption DEF RecordingInv, ZeroCopyType
<1>1. /\ oldest' = oldest /\ newest' = newest /\ cpc' = cpc /\ to_pop' = to_pop
      /\ m_cleanup_requested' = m_cleanup_requested
      /\ m_next_timestamp_to_record' = m_next_timestamp_to_record
      /\ current_end_pointer' = current_end_pointer
      /\ current_write_pointer' = current_write_pointer
      /\ begin' = begin /\ considered_chunks_in_loop' = considered_chunks_in_loop
      /\ rpc = "loop" /\ rpc' = "finish"
  BY DEF CompleteFrame
<1>2. WriteUnits(RestSize)
  BY DEF CompleteFrame
<1>3. CleanerInv'
  BY <1>1 DEF RecordingInv, CleanerInv
<1>4. RecorderInv'
  BY <1>1 DEF RecorderInv
<1>5. \/ Searching /\ m_next_timestamp_to_record = 0
      \/ current_write_pointer # nullptr /\ Held /\ PointsBefore(newest)
  BY <1>1 DEF RecordingInv, RecorderInv
<1>6. file' \in Seq(Int) /\ FileInv' /\ fd_open' \in BOOLEAN
  <2>0. fd_open' \in BOOLEAN
    BY <1>2, <1>0 DEF WriteUnits, ZeroCopyType
  <2>1. CASE ~fd_open
    <3>1. file' = file /\ ~fd_open'
      BY <1>2, <2>1, NothingWritten
    <3> QED
      BY <1>0, <1>1, <2>0, <2>1, <3>1 DEF RecordingInv, FileInv
  <2>2. CASE fd_open /\ Searching
    <3>1. file = << >> /\ RestSize = 0
      BY <2>2 DEF Searching, RestSize
    <3>2. /\ file' \in Seq(Int) /\ Len(file') = Len(file) + RestSize /\ Contiguous(file')
      <4>1. RestSize \in Nat /\ 0 \in Int /\ \A j \in 0 .. RestSize - 1 : Unit(current_write_pointer + j) = 0 + j
        BY <3>1
      <4> QED
        BY <1>2, <2>2, <3>1, <4>1, UnitsWritten
    <3>3. file' = << >>
      <4>1. Len(file) = 0
        BY <3>1
      <4> QED
        BY <3>1, <3>2, <4>1
    <3> QED
      BY <2>0, <3>2, <3>3 DEF FileInv
  <2>3. CASE fd_open /\ Held /\ PointsBefore(newest)
    <3>1. PICK c \in Nat, r \in 0 .. FrameSize - 1 : PointsTo(c, r, newest)
      BY <2>3 DEF PointsBefore
    <3>2. /\ c \in oldest .. newest - 1 /\ current_write_pointer = Slot(c) * FrameSize + r
          /\ FileEndsAt(c, r)
      BY <1>0, <2>3, <3>1 DEF PointsTo, Held
    <3> DEFINE base == (c - 1) * FrameSize + r
    <3>3. base \in Int
      BY <1>0
    <3>4. /\ RestSize \in Nat
          /\ \A j \in 0 .. RestSize - 1 : Unit(current_write_pointer + j) = base + j
          /\ \E k \in Int : base + RestSize = k * FrameSize
          /\ r = 0 => RestSize = 0
      BY <1>0, <3>2, RestAhead
    <3>5. /\ file # << >> => file[1] % FrameSize = 0 /\ file[1] + Len(file) = base
          /\ file = << >> => r = 0
      BY <2>3, <3>2 DEF FileEndsAt
    <3> HIDE DEF base
    <3>6. /\ file' \in Seq(Int) /\ Len(file') = Len(file) + RestSize
          /\ Contiguous(file')
          /\ file # << >> => file' # << >> /\ file'[1] = file[1]
      BY <1>2, <2>3, <3>3, <3>4, <3>5, UnitsWritten
    <3>7. ASSUME file = << >> PROVE file' = << >>
      <4>1. Len(file) = 0 /\ RestSize = 0
        BY <3>4, <3>5, <3>7
      <4> QED
        BY <3>6, <4>1
    <3>8. ASSUME file # << >> PROVE file'[1] % FrameSize = 0 /\ Len(file') % FrameSize = 0
      <4> DEFINE a == file[1]
                 n == Len(file)
      <4>1. a \in Int /\ n \in Nat /\ a + n = base /\ a % FrameSize = 0
        BY <1>0, <3>5, <3>8
      <4>2. Len(file') = n + RestSize /\ file'[1] = a
        BY <3>6, <3>8
      <4> HIDE DEF a, n
      <4>3. PICK k \in Int : base + RestSize = k * FrameSize
        BY <3>4
      <4>4. n + RestSize \in Int /\ a + (n + RestSize) = base + RestSize
        BY <3>3, <3>4, <4>1
      <4>5. (n + RestSize) % FrameSize = 0
        BY <4>1, <4>3, <4>4, WholeFrames
      <4> QED
        BY <4>1, <4>2, <4>5
    <3>9. FileInv'
      BY <3>6, <3>7, <3>8 DEF FileInv
    <3> QED
      BY <2>0, <3>6, <3>9
  <2> QED
    BY <1>5, <2>1, <2>2, <2>3
<1>7. ZeroCopyType'
  BY <1>0, <1>1, <1>6 DEF ZeroCopyType
<1> QED
  BY <1>3, <1>4, <1>6, <1>7 DEF RecordingInv

LEMMA NextRecordingInv == RecordingInv /\ [Next]_vars => RecordingInv'
<1> SUFFICES ASSUME RecordingInv, [Next]_vars PROVE RecordingInv'
  OBVIOUS
<1>1. CASE Next
  BY <1>1, BufferSteps, QuietSteps, CursorSteps, ChunkStep, RestStep DEF Next, RecorderStep
<1>2. CASE UNCHANGED vars
  BY <1>2 DEF vars, bufferVars, cleanerVars, pointerVars, fileVars, recordVars, RecordingInv,
     ZeroCopyType, CleanerInv, RecorderInv, FileInv, Held, PointsBefore, PointsTo, FileEndsAt, EndsBefore,
     Searching
<1> QED
  BY <1>1, <1>2

LEMMA RecordingInvAlways == Spec => []RecordingInv
BY InitRecordingInv, NextRecordingInv, PTL DEF Spec

-----------------------------------------------------------------------------
(* What record() writes straight from the memory of the latency buffer is  *)
(* in the buffer, neither popped nor yet to be written, for any sizes of   *)
(* frames, chunks and buffer.                                              *)
THEOREM BufferedDataWritten == Spec => []WritesBufferedData
<1>1. ASSUME RecordingInv PROVE WritesBufferedData
  <2> USE <1>1
  <2>0. /\ oldest \in Nat /\ newest \in Nat /\ m_next_timestamp_to_record \in Nat
        /\ FrameSize \in Nat \ {0} /\ ZeroCopyType /\ current_write_pointer \in Int
    BY ZeroCopyAssumption DEF RecordingInv, ZeroCopyType
  <2>1. CASE rpc = "chunks" /\ considered_chunks_in_loop < ChunksPerLoop
    <3>1. Held /\ \E e \in Nat : EndsBefore(e)
      BY <2>1 DEF RecordingInv, RecorderInv
    <3>2. PICK e \in Nat : EndsBefore(e)
      BY <3>1
    <3>3. PICK c \in Nat, r \in 0 .. FrameSize - 1 : PointsTo(c, r, e)
      BY <3>2 DEF EndsBefore, PointsBefore
    <3>4. /\ c \in oldest .. newest - 1 /\ e - 1 \in oldest .. newest - 1 /\ c <= e - 1
          /\ (c = e - 1 => r = 0)
      BY <2>0, <3>1, <3>2, <3>3 DEF Held, EndsBefore, PointsTo
    <3>5. /\ current_write_pointer = Slot(c) * FrameSize + r
          /\ current_end_pointer = Slot(e - 1) * FrameSize
      BY <3>2, <3>3 DEF EndsBefore, PointsTo
    <3>6. /\ WriteSize \in Nat
          /\ \A j \in 0 .. WriteSize - 1 :
               Content((current_write_pointer + j) \div FrameSize) \in Buffered
      BY <2>0, <3>4, <3>5, ChunkAhead
    <3>7. Writing = current_write_pointer .. current_write_pointer + WriteSize - 1
      BY <2>1 DEF Writing
    <3>8. ASSUME NEW a \in Writing PROVE Content(a \div FrameSize) \in Buffered
      <4>1. a - current_write_pointer \in 0 .. WriteSize - 1 /\ a = current_write_pointer + (a - current_write_pointer)
        BY <2>0, <3>6, <3>7
      <4> QED
        BY <3>6, <4>1
    <3> QED
      BY <3>8 DEF WritesBufferedData
  <2>2. CASE rpc = "loop" /\ current_write_pointer # nullptr
    <3>1. Held /\ PointsBefore(newest)
      BY <2>2 DEF RecordingInv, RecorderInv, Searching
    <3>2. PICK c \in Nat, r \in 0 .. FrameSize - 1 : PointsTo(c, r, newest)
      BY <3>1 DEF PointsBefore
    <3>3. c \in oldest .. newest - 1 /\ current_write_pointer = Slot(c) * FrameSize + r
      BY <2>0, <3>1, <3>2 DEF Held, PointsTo
    <3>4. /\ RestSize \in Nat
          /\ \A j \in 0 .. RestSize - 1 :
               Content((current_write_pointer + j) \div FrameSize) \in Buffered
      BY <2>0, <3>3, RestAhead
    <3>5. Writing = current_write_pointer .. current_write_pointer + RestSize - 1
      BY <2>2 DEF Writing
    <3>6. ASSUME NEW a \in Writing PROVE Content(a \div FrameSize) \in Buffered
      <4>1. a - current_write_pointer \in 0 .. RestSize - 1 /\ a = current_write_pointer + (a - current_write_pointer)
        BY <2>0, <3>4, <3>5
      <4> QED
        BY <3>4, <4>1
    <3> QED
      BY <3>6 DEF WritesBufferedData
  <2>3. CASE /\ ~(rpc = "chunks" /\ considered_chunks_in_loop < ChunksPerLoop)
             /\ ~(rpc = "loop" /\ current_write_pointer # nullptr)
    <3>1. Writing = current_write_pointer .. current_write_pointer + 0 - 1
      BY <2>3 DEF Writing, RestSize
    <3>2. Writing = {}
      BY <2>0, <3>1
    <3> QED
      BY <3>2 DEF WritesBufferedData
  <2> QED
    BY <2>1, <2>2, <2>3
<1> QED
  BY <1>1, RecordingInvAlways, PTL

(* The file of record() has no gap and no repetition, begins with the      *)
(* first unit of a frame and, once the recording is over, ends with the    *)
(* last one, for any sizes and any number of turns of the buffer.          *)
THEOREM FileContiguous == Spec => []FileIsContiguous
<1>1. ASSUME RecordingInv PROVE FileIsContiguous
  <2> USE <1>1
  <2>1. file \in Seq(Int) /\ Contiguous(file)
    BY DEF RecordingInv, ZeroCopyType, FileInv
  <2>2. \A i \in 1 .. Len(file) - 1 : file[i + 1] = file[i] + 1
    <3> SUFFICES ASSUME NEW i \in 1 .. Len(file) - 1 PROVE file[i + 1] = file[i] + 1
      OBVIOUS
    <3>1. i \in 1 .. Len(file) /\ i + 1 \in 1 .. Len(file) /\ 1 \in 1 .. Len(file)
      BY <2>1
    <3>2. file[1] \in Int
      BY <2>1, <3>1
    <3>3. file[i] = file[1] + i - 1 /\ file[i + 1] = file[1] + (i + 1) - 1
      BY <2>1, <3>1 DEF Contiguous, From
    <3> QED
      BY <3>1, <3>2, <3>3
  <2>3. ASSUME rpc \in {"idle", "finish"}, file # << >>
        PROVE  file[1] % FrameSize = 0 /\ Len(file) % FrameSize = 0
    <3>1. ~fd_open \/ rpc = "finish"
      BY <2>3 DEF RecordingInv, RecorderInv
    <3> QED
      BY <2>3, <3>1 DEF RecordingInv, FileInv
  <2> QED
    BY <2>2, <2>3 DEF FileIsContiguous
<1> QED
  BY <1>1, RecordingInvAlways, PTL

-----------------------------------------------------------------------------
(* O_DIRECT.                                                               *)

LEMMA AlignedSum ==
  ASSUME NEW a \in Int, NEW b \in Int, Aligned(a), Aligned(b)
  PROVE  Aligned(a + b) /\ Aligned(a - b)
<1>1. AlignmentSize \in Nat \ {0} /\ 0 \in 0 .. AlignmentSize - 1
  BY ZeroCopyAssumption
<1>2. \A n \in Int : n % AlignmentSize = 0 => \E q \in Int : n = q * AlignmentSize
  <2> SUFFICES ASSUME NEW n \in Int, n % AlignmentSize = 0
               PROVE  \E q \in Int : n = q * AlignmentSize
    OBVIOUS
  <2>1. PICK q \in Int, r \in 0 .. AlignmentSize - 1 : n = q * AlignmentSize + r /\ r = n % AlignmentSize
    BY <1>1, Division
  <2>2. q * AlignmentSize \in Int
    BY <1>1
  <2> QED
    BY <2>1, <2>2
<1>3. PICK p \in Int : a = p * AlignmentSize
  BY <1>2 DEF Aligned
<1>4. PICK q \in Int : b = q * AlignmentSize
  BY <1>2 DEF Aligned
<1>5. p + q \in Int /\ a + b = (p + q) * AlignmentSize + 0
  BY <1>1, <1>3, <1>4
<1>6. p - q \in Int /\ a - b = (p - q) * AlignmentSize + 0
  BY <1>1, <1>3, <1>4
<1>7. ((p + q) * AlignmentSize + 0) % AlignmentSize = 0
  BY <1>1, <1>5, Quotient
<1>8. ((p - q) * AlignmentSize + 0) % AlignmentSize = 0
  BY <1>1, <1>6, Quotient
<1> QED
  BY <1>5, <1>6, <1>7, <1>8 DEF Aligned

LEMMA AlignedZero == Aligned(0)
<1>1. AlignmentSize \in Nat \ {0} /\ 0 \in 0 .. AlignmentSize - 1 /\ 0 \in Int
  BY ZeroCopyAssumption
<1>2. (0 * AlignmentSize + 0) % AlignmentSize = 0
  BY <1>1, Quotient
<1>3. 0 * AlignmentSize + 0 = 0
  BY <1>1
<1> QED
  BY <1>2, <1>3 DEF Aligned

(* From the first frame on the pointer is aligned, and until the last      *)
(* frame is completed the end of the file is.                              *)
PointerAligned ==
  \/ rpc \in {"back", "chunks", "cursor"}
  \/ rpc \in {"loop", "wait"} /\ current_write_pointer # nullptr
  => Aligned(current_write_pointer)

FileAligned == fd_open /\ rpc # "finish" => Aligned(Len(file))

AlignedInv == PointerAligned /\ FileAligned

LEMMA NextAlignedInv ==
  ASSUME RecordingInv, AlignedInv, [Next]_vars, Aligned(BufferSize), Aligned(ChunkSize)
  PROVE  AlignedInv'
<1> USE DEF bufferVars, cleanerVars, pointerVars, fileVars, recordVars, recorderFrame
<1>0. /\ current_write_pointer \in Int /\ file \in Seq(Int) /\ Len(file) \in Nat
      /\ BufferSize \in Int /\ ChunkSize \in Int
  BY ZeroCopyAssumption DEF RecordingInv, ZeroCopyType, BufferSize
<1>1. CASE UNCHANGED vars \/ Produce \/ CleanerStep
  <2>1. rpc' = rpc /\ current_write_pointer' = current_write_pointer /\ file' = file
    BY <1>1 DEF vars, Produce, CleanerStep, CleanupRequest, CleanupTest, CleanupPop, CleanupFinish
  <2>2. fd_open' = fd_open
    BY <1>1 DEF vars, Produce, CleanerStep, CleanupRequest, CleanupTest, CleanupPop, CleanupFinish
  <2> QED
    BY <2>1, <2>2 DEF AlignedInv, PointerAligned, FileAligned
<1>2. CASE Record
  <2>1. rpc = "idle" /\ rpc' = "start" /\ file' = file
    BY <1>2 DEF Record
  <2>2. fd_open' = fd_open
    BY <1>2 DEF Record
  <2> QED
    BY <2>1, <2>2 DEF AlignedInv, PointerAligned, FileAligned
<1>3. CASE RecordBegin
  <2>1. rpc = "start" /\ rpc' = "loop" /\ file' = file /\ current_write_pointer' = nullptr
    BY <1>3 DEF RecordBegin
  <2>2. fd_open' = fd_open
    BY <1>3 DEF RecordBegin
  <2> QED
    BY <2>1, <2>2 DEF AlignedInv, PointerAligned, FileAligned
<1>4. CASE RecordLoop
  <2>1. /\ rpc = "loop" /\ rpc' = "wait" /\ file' = file
        /\ current_write_pointer' = current_write_pointer
    BY <1>4 DEF RecordLoop
  <2>2. fd_open' = fd_open
    BY <1>4 DEF RecordLoop
  <2> QED
    BY <2>1, <2>2 DEF AlignedInv, PointerAligned, FileAligned
<1>5. CASE RecordWait
  <2>1. /\ rpc = "wait" /\ rpc' = IF m_next_timestamp_to_record = 0 THEN "first" ELSE "back"
        /\ file' = file /\ current_write_pointer' = current_write_pointer
    BY <1>5 DEF RecordWait
  <2>2. fd_open' = fd_open
    BY <1>5 DEF RecordWait
  <2>3. m_next_timestamp_to_record = 0 \/ current_write_pointer # nullptr
    BY <2>1 DEF RecordingInv, RecorderInv
  <2> QED
    BY <2>1, <2>2, <2>3 DEF AlignedInv, PointerAligned, FileAligned
<1>6. CASE FirstFrame \/ ClaimFirstFrame
  <2>1. /\ rpc \in {"first", "claim"} /\ rpc' \in {"loop", "claim", "skip"} /\ file' = file
        /\ current_write_pointer' = current_write_pointer
    BY <1>6 DEF FirstFrame, ClaimFirstFrame
  <2>2. fd_open' = fd_open
    BY <1>6 DEF FirstFrame, ClaimFirstFrame
  <2>3. current_write_pointer = nullptr
    BY <2>1 DEF RecordingInv, RecorderInv, Searching
  <2> QED
    BY <2>1, <2>2, <2>3 DEF AlignedInv, PointerAligned, FileAligned
<1>7. CASE SkipFrame
  <2>1. /\ rpc = "skip" /\ file' = file
        /\ \/ rpc' = "skip"
           \/ rpc' = "back" /\ Aligned(current_write_pointer')
    BY <1>7 DEF SkipFrame
  <2>2. fd_open' = fd_open
    BY <1>7 DEF SkipFrame
  <2> QED
    BY <2>1, <2>2 DEF AlignedInv, PointerAligned, FileAligned
<1>8. CASE ReadBack \/ StoreCursor \/ ChunksDone
  <2>1. /\ rpc \in {"back", "cursor", "chunks"} /\ rpc' \in {"chunks", "loop"} /\ file' = file
        /\ current_write_pointer' = current_write_pointer
    BY <1>8 DEF ReadBack, StoreCursor, ChunksDone
  <2>2. fd_open' = fd_open
    BY <1>8 DEF ReadBack, StoreCursor, ChunksDone
  <2> QED
    BY <2>1, <2>2 DEF AlignedInv, PointerAligned, FileAligned
<1>9. CASE WriteChunk
  <2>1. /\ rpc = "chunks" /\ rpc' = "cursor"
        /\ current_write_pointer' = AfterWrite(WriteSize)
    BY <1>9 DEF WriteChunk
  <2>2. fd_open' = fd_open
    BY <1>9 DEF WriteChunk, WriteUnits
  <2>3. WriteSize \in Nat /\ (fd_open => Len(file') = Len(file) + WriteSize)
    BY <1>9, ChunkStep
  <2>4. Aligned(current_write_pointer) /\ (fd_open => Aligned(Len(file)))
    BY <2>1 DEF AlignedInv, PointerAligned, FileAligned
  <2>5. Aligned(WriteSize)
    BY <1>0, <2>4, AlignedSum, AlignedZero DEF WriteSize
  <2>6. Aligned(current_write_pointer + WriteSize) /\ (fd_open => Aligned(Len(file) + WriteSize))
    BY <1>0, <2>3, <2>4, <2>5, AlignedSum
  <2>7. Aligned(AfterWrite(WriteSize))
    BY <2>6, AlignedZero DEF AfterWrite
  <2> QED
    BY <2>1, <2>2, <2>3, <2>6, <2>7 DEF AlignedInv, PointerAligned, FileAligned
<1>10. CASE CompleteFrame
  BY <1>10 DEF CompleteFrame, AlignedInv, PointerAligned, FileAligned
<1>11. CASE RecordEnd
  BY <1>11 DEF RecordEnd, AlignedInv, PointerAligned, FileAligned
<1> QED
  BY <1>1, <1>2, <1>3, <1>4, <1>5, <1>6, <1>7, <1>8, <1>9, <1>10, <1>11 DEF Next, RecorderStep

(* With a buffer and a chunk size that are aligned, record() writes each   *)
(* chunk from an aligned address to an aligned place in the file, as       *)
(* O_DIRECT asks, for any sizes of frames that do not fit them.            *)
THEOREM DirectWritesSafety == Spec => []DirectWritesAligned
<1> DEFINE Inv == Aligned(BufferSize) /\ Aligned(ChunkSize) => AlignedInv
<1>1. Init => Inv
  <2> SUFFICES ASSUME Init PROVE AlignedInv
    OBVIOUS
  <2>1. rpc = "idle" /\ Len(file) = 0
    BY DEF Init
  <2> QED
    BY <2>1, AlignedZero DEF AlignedInv, PointerAligned, FileAligned
<1>2. RecordingInv /\ Inv /\ [Next]_vars => Inv'
  BY NextAlignedInv
<1>3. Inv => DirectWritesAligned
  BY DEF AlignedInv, PointerAligned, FileAligned, DirectWritesAligned
<1> QED
  BY <1>1, <1>2, <1>3, RecordingInvAlways, PTL DEF Spec

-----------------------------------------------------------------------------
(* FileRecording.  The invariant says what the file and the buffer of the  *)
(* writer hold together, which a write only adds to and a flush leaves.    *)

(* Units in the file and, after it, in the writer's buffer. *)

Whole == output_file \o stream_buffer

(* The units begin with those of the elements. *)
Holds(units, elements) ==
  \A j \in 1 .. Len(elements) :
    \A k \in 1 .. ElementSize :
      units[(j - 1) * ElementSize + k] = (elements[j] - 1) * ElementSize + k

RecorderType ==
  /\ cmd \in {"initial", "configured", "running", "stopping"}
  /\ wpc \in {"idle", "loop", "receive", "write", "flush"}
  /\ element \in Nat /\ input \in Seq(Nat) /\ sent \in Nat
  /\ output_file \in Seq(Int) /\ stream_buffer \in Seq(Int) /\ accepted \in Seq(Nat)
  /\ Len(stream_buffer) <= StreamBufferSize
  /\ bad \in BOOLEAN /\ m_is_open \in BOOLEAN

(* A stop waits for the worker, whose last step is a flush. *)
WorkerInv ==
  /\ cmd \in {"initial", "configured"} => wpc = "idle"
  /\ wpc = "idle" /\ ~bad => stream_buffer = << >>

(* All accepted elements have been written, whole and in order; a failed   *)
(* write may have added to them.                                           *)
WrittenInv ==
  /\ Len(Whole) >= Len(accepted) * ElementSize
  /\ ~bad => Len(Whole) = Len(accepted) * ElementSize
  /\ Holds(Whole, accepted)

WriterInv == RecorderType /\ WorkerInv /\ WrittenInv

(* The place of an element's unit among those of n elements. *)
LEMMA PlaceOfUnit ==
  ASSUME NEW n \in Nat, NEW j \in 1 .. n, NEW k \in 1 .. ElementSize
  PROVE  /\ (j - 1) * ElementSize + k \in 1 .. n * ElementSize
         /\ n * ElementSize \in Nat
<1>1. ElementSize \in Nat /\ j \in Int /\ n \in Int
  BY FileAssumption
<1>2. j * ElementSize <= n * ElementSize
  BY <1>1, Monotone
<1>3. 0 * ElementSize <= (j - 1) * ElementSize
  <2>1. 0 \in Int /\ j - 1 \in Int /\ 0 <= j - 1
    BY <1>1
  <2> QED
    BY <1>1, <2>1, Monotone
<1>4. (j - 1) * ElementSize = j * ElementSize - ElementSize /\ 0 * ElementSize = 0
  BY <1>1
<1>5. j * ElementSize \in Int /\ n * ElementSize \in Int
  BY <1>1
<1>6. n * ElementSize >= 0
  BY <1>1, <1>2, <1>3, <1>4, <1>5
<1> QED
  BY <1>1, <1>2, <1>3, <1>4, <1>5, <1>6

(* What is held stays held when units are added. *)
LEMMA HoldsMore ==
  ASSUME NEW s \in Seq(Int), NEW t \in Seq(Int), NEW a \in Seq(Nat),
         Len(a) * ElementSize <= Len(s), Holds(s, a),
         \A i \in 1 .. Len(s) : t[i] = s[i]
  PROVE  Holds(t, a)
<1> SUFFICES ASSUME NEW j \in 1 .. Len(a), NEW k \in 1 .. ElementSize
             PROVE  t[(j - 1) * ElementSize + k] = (a[j] - 1) * ElementSize + k
  BY DEF Holds
<1>1. Len(a) \in Nat /\ Len(s) \in Nat
  OBVIOUS
<1> DEFINE p == (j - 1) * ElementSize + k
           m == Len(a) * ElementSize
<1>2. p \in 1 .. m /\ m \in Nat
  BY <1>1, PlaceOfUnit
<1>3. s[p] = (a[j] - 1) * ElementSize + k
  BY DEF Holds
<1>4. m <= Len(s)
  OBVIOUS
<1> HIDE DEF p, m
<1>5. p \in 1 .. Len(s)
  BY <1>1, <1>2, <1>4
<1>6. t[p] = s[p]
  BY <1>5
<1> QED
  BY <1>3, <1>6 DEF p

(* A whole element at the end of whole elements. *)
LEMMA HoldsAppended ==
  ASSUME NEW s \in Seq(Int), NEW a \in Seq(Nat), NEW e \in Nat,
         Len(s) = Len(a) * ElementSize, Holds(s, a)
  PROVE  /\ Units(e) \in Seq(Int) /\ Len(Units(e)) = ElementSize
         /\ s \o Units(e) \in Seq(Int)
         /\ Len(s \o Units(e)) = Len(Append(a, e)) * ElementSize
         /\ Holds(s \o Units(e), Append(a, e))
<1>1. ElementSize \in Nat /\ Len(a) \in Nat /\ Len(s) \in Nat
  BY FileAssumption
<1>2. Units(e) \in Seq(Int) /\ Len(Units(e)) = ElementSize
  <2>1. \A i \in 1 .. ElementSize : (e - 1) * ElementSize + i \in Int
    BY <1>1
  <2> QED
    BY <1>1, <2>1 DEF Units
<1> DEFINE w == Units(e)
           t == s \o w
           b == Append(a, e)
<1>3. \A k \in 1 .. ElementSize : w[k] = (e - 1) * ElementSize + k
  BY DEF Units
<1> HIDE DEF w
<1>4. /\ t \in Seq(Int) /\ Len(t) = Len(s) + Len(w)
      /\ \A i \in 1 .. Len(s) + Len(w) : t[i] = IF i <= Len(s) THEN s[i] ELSE w[i - Len(s)]
  <2>1. w \in Seq(Int)
    BY <1>2 DEF w
  <2> QED
    BY <2>1, ConcatProperties, Zenon
<1>5. b \in Seq(Nat) /\ Len(b) = Len(a) + 1
  OBVIOUS
<1>6. b[Len(a) + 1] = e /\ \A j \in 1 .. Len(a) : b[j] = a[j]
  BY <1>1
<1> HIDE DEF t, b
<1>7. Len(w) = ElementSize
  BY <1>2 DEF w
<1>8. Len(t) = Len(b) * ElementSize
  <2>1. (Len(a) + 1) * ElementSize = Len(a) * ElementSize + ElementSize
    BY <1>1
  <2> QED
    BY <1>4, <1>5, <1>7, <2>1
<1>9. Holds(t, a)
  <2>1. \A i \in 1 .. Len(s) : t[i] = s[i]
    <3> SUFFICES ASSUME NEW i \in 1 .. Len(s) PROVE t[i] = s[i]
      OBVIOUS
    <3>1. i \in 1 .. Len(s) + Len(w) /\ i <= Len(s)
      BY <1>1, <1>7
    <3> QED
      BY <1>4, <3>1
  <2>2. Len(a) * ElementSize <= Len(s)
    BY <1>1
  <2> QED
    BY <1>4, <2>1, <2>2, HoldsMore
<1>10. ASSUME NEW k \in 1 .. ElementSize PROVE t[Len(a) * ElementSize + k] = (e - 1) * ElementSize + k
  <2>1. Len(s) + k \in 1 .. Len(s) + Len(w) /\ ~(Len(s) + k <= Len(s)) /\ Len(s) + k - Len(s) = k
    BY <1>1, <1>7
  <2>2. t[Len(s) + k] = w[Len(s) + k - Len(s)]
    BY <1>4, <2>1
  <2> QED
    BY <1>3, <2>1, <2>2
<1>11. Holds(t, b)
  <2> SUFFICES ASSUME NEW j \in 1 .. Len(b), NEW k \in 1 .. ElementSize
               PROVE  t[(j - 1) * ElementSize + k] = (b[j] - 1) * ElementSize + k
    BY DEF Holds
  <2>1. CASE j \in 1 .. Len(a)
    BY <1>6, <1>9, <2>1 DEF Holds
  <2>2. CASE j = Len(a) + 1
    <3>1. j - 1 = Len(a) /\ b[j] = e
      BY <1>1, <1>6, <2>2
    <3> QED
      BY <1>10, <3>1
  <2> QED
    BY <1>1, <1>5, <2>1, <2>2
<1> QED
  BY <1>2, <1>4, <1>8, <1>11 DEF t, b, w

(* The order in which sequences are joined makes no difference. *)
LEMMA Joined ==
  ASSUME NEW s \in Seq(Int), NEW t \in Seq(Int), NEW u \in Seq(Int)
  PROVE  (s \o t) \o u = s \o (t \o u)
OBVIOUS

(* A sequence cut in two. *)
LEMMA CutInTwo ==
  ASSUME NEW u \in Seq(Int), NEW n \in 0 .. Len(u)
  PROVE  /\ SubSeq(u, 1, n) \in Seq(Int) /\ SubSeq(u, n + 1, Len(u)) \in Seq(Int)
         /\ Len(SubSeq(u, n + 1, Len(u))) = Len(u) - n
         /\ SubSeq(u, 1, n) \o SubSeq(u, n + 1, Len(u)) = u
<1>1. Len(u) \in Nat
  OBVIOUS
<1>2. /\ SubSeq(u, 1, n) \in Seq(Int) /\ SubSeq(u, n + 1, Len(u)) \in Seq(Int)
      /\ Len(SubSeq(u, n + 1, Len(u))) = Len(u) - n
  BY <1>1
<1>3. SubSeq(u, 1, n) \o SubSeq(u, n + 1, Len(u)) = SubSeq(u, 1, Len(u))
  <2>1. 1 \in 1 .. Len(u) + 1 /\ n \in 1 - 1 .. Len(u) /\ Len(u) \in n .. Len(u)
    BY <1>1
  <2> QED
    BY <2>1, ConcatAdjacentSubSeq, Zenon
<1>4. SubSeq(u, 1, Len(u)) = u
  BY SubSeqFull, Zenon
<1> QED
  BY <1>2, <1>3, <1>4, Zenon

(* A buffer that could not be written has at least what it had. *)
LEMMA StuckWhole ==
  ASSUME NEW f \in Seq(Int), NEW b \in Seq(Int), NEW x \in Seq(Int),
         Len(b) <= Len(x), \A i \in 1 .. Len(b) : x[i] = b[i]
  PROVE  /\ f \o x \in Seq(Int)
         /\ Len(f \o x) >= Len(f \o b)
         /\ \A i \in 1 .. Len(f \o b) : (f \o x)[i] = (f \o b)[i]
<1>1. Len(f) \in Nat /\ Len(b) \in Nat /\ Len(x) \in Nat
  OBVIOUS
<1>2. /\ f \o x \in Seq(Int) /\ Len(f \o x) = Len(f) + Len(x)
      /\ \A i \in 1 .. Len(f) + Len(x) : (f \o x)[i] = IF i <= Len(f) THEN f[i] ELSE x[i - Len(f)]
  BY ConcatProperties, Zenon
<1>3. /\ f \o b \in Seq(Int) /\ Len(f \o b) = Len(f) + Len(b)
      /\ \A i \in 1 .. Len(f) + Len(b) : (f \o b)[i] = IF i <= Len(f) THEN f[i] ELSE b[i - Len(f)]
  BY ConcatProperties, Zenon
<1>4. Len(f \o x) >= Len(f \o b)
  BY <1>1, <1>2, <1>3
<1>5. ASSUME NEW i \in 1 .. Len(f \o b) PROVE (f \o x)[i] = (f \o b)[i]
  <2>1. i \in 1 .. Len(f) + Len(b) /\ i \in 1 .. Len(f) + Len(x)
    BY <1>1, <1>3, <1>5
  <2>2. CASE i <= Len(f)
    BY <1>2, <1>3, <2>1, <2>2
  <2>3. CASE ~(i <= Len(f))
    <3>1. i - Len(f) \in 1 .. Len(b)
      BY <1>1, <2>1, <2>3
    <3>2. (f \o x)[i] = x[i - Len(f)] /\ (f \o b)[i] = b[i - Len(f)]
      BY <1>2, <1>3, <2>1, <2>3
    <3> QED
      BY <3>1, <3>2
  <2> QED
    BY <2>2, <2>3
<1> QED
  BY <1>2, <1>4, <1>5

-----------------------------------------------------------------------------
LEMMA InitWriterInv == RecorderInit => WriterInv
<1> SUFFICES ASSUME RecorderInit PROVE WriterInv
  OBVIOUS
<1>1. output_file = << >> /\ stream_buffer = << >> /\ accepted = << >>
  BY DEF RecorderInit
<1>2. ElementSize \in Nat /\ StreamBufferSize \in Nat
  BY FileAssumption
<1>3. RecorderType
  <2>1. bad \in BOOLEAN /\ m_is_open \in BOOLEAN
    BY DEF RecorderInit
  <2>2. << >> \in Seq(Int) /\ << >> \in Seq(Nat) /\ Len(<< >>) = 0 /\ 0 <= StreamBufferSize
    BY <1>2
  <2> QED
    BY <1>1, <2>1, <2>2 DEF RecorderInit, RecorderType
<1>4. WorkerInv
  BY <1>1 DEF RecorderInit, WorkerInv
<1>5. WrittenInv
  <2>1. << >> \o << >> = << >> /\ Len(<< >>) = 0 /\ 0 * ElementSize = 0
    BY <1>2
  <2>2. Holds(<< >>, << >>)
    BY <2>1 DEF Holds
  <2> QED
    BY <1>1, <2>1, <2>2 DEF WrittenInv, Whole
<1> QED
  BY <1>3, <1>4, <1>5 DEF WriterInv

(* What has been written does not depend on the commands and the queue. *)
LEMMA WrittenKept ==
  ASSUME WrittenInv, Whole' = Whole, bad' = bad, accepted' = accepted
  PROVE  WrittenInv'
BY DEF WrittenInv, Holds

(* flush() and close() move the units of the buffer to the file. *)
LEMMA SyncKeeps ==
  ASSUME RecorderType, Sync, bad' = bad
  PROVE  /\ Whole' = Whole
         /\ output_file' \in Seq(Int) /\ stream_buffer' \in Seq(Int)
         /\ Len(stream_buffer') <= StreamBufferSize
         /\ ~bad' => stream_buffer' = << >>
<1>1. /\ output_file \in Seq(Int) /\ stream_buffer \in Seq(Int)
      /\ Len(stream_buffer) <= StreamBufferSize /\ StreamBufferSize \in Nat
  BY FileAssumption DEF RecorderType
<1>2. CASE bad
  BY <1>1, <1>2 DEF Sync, Whole
<1>3. CASE ~bad
  <2>1. output_file' = output_file \o stream_buffer /\ stream_buffer' = << >>
    BY <1>3 DEF Sync
  <2>2. output_file \o stream_buffer \in Seq(Int)
    BY <1>1, ConcatProperties, Zenon
  <2>3. (output_file \o stream_buffer) \o << >> = output_file \o stream_buffer
    BY <2>2, ConcatEmptySeq, Zenon
  <2>4. << >> \in Seq(Int) /\ Len(<< >>) = 0
    OBVIOUS
  <2> QED
    BY <1>1, <2>1, <2>2, <2>3, <2>4 DEF Whole
<1> QED
  BY <1>2, <1>3

(* How much of the units goes to the file, and how much stays. *)
LEMMA SpillBounds ==
  ASSUME NEW u \in Seq(Int), u # << >>
  PROVE  /\ Spills(u) * StreamBufferSize \in 0 .. Len(u)
         /\ Len(u) - Spills(u) * StreamBufferSize <= StreamBufferSize
         /\ Spills(u) * StreamBufferSize > 0 => StreamBufferSize <= Len(u)
<1>1. StreamBufferSize \in Nat \ {0} /\ Len(u) \in Nat \ {0} /\ Len(u) - 1 \in Int
  BY FileAssumption
<1>2. PICK q \in Int, r \in 0 .. StreamBufferSize - 1 :
        Len(u) - 1 = q * StreamBufferSize + r /\ q = (Len(u) - 1) \div StreamBufferSize
  BY <1>1, Division
<1>3. Spills(u) = q
  BY <1>2 DEF Spills
<1>4. q >= 0
  <2> SUFFICES ASSUME q <= -1 PROVE FALSE
    BY <1>2
  <2>1. q * StreamBufferSize <= (-1) * StreamBufferSize
    BY <1>1, <1>2, Monotone
  <2>2. (-1) * StreamBufferSize = -StreamBufferSize /\ q * StreamBufferSize \in Int
    BY <1>1, <1>2
  <2> QED
    BY <1>1, <1>2, <2>1, <2>2
<1>5. 0 * StreamBufferSize <= q * StreamBufferSize
  BY <1>1, <1>2, <1>4, Monotone
<1>6. q * StreamBufferSize \in Int /\ 0 * StreamBufferSize = 0
  BY <1>1, <1>2
<1>7. ASSUME q * StreamBufferSize > 0 PROVE StreamBufferSize <= Len(u)
  <2>1. 1 <= q
    BY <1>2, <1>4, <1>6, <1>7
  <2>2. 1 * StreamBufferSize <= q * StreamBufferSize
    <3>1. 1 \in Int /\ q \in Int /\ StreamBufferSize \in Nat
      BY <1>1, <1>2
    <3> QED
      BY <2>1, <3>1, Monotone
  <2>3. 1 * StreamBufferSize = StreamBufferSize
    BY <1>1
  <2> QED
    BY <1>1, <1>2, <1>6, <2>2, <2>3
<1> DEFINE n == q * StreamBufferSize
<1>8. n \in Int /\ 0 <= n /\ Len(u) - 1 = n + r
  BY <1>2, <1>5, <1>6
<1>9. n > 0 => StreamBufferSize <= Len(u)
  BY <1>7
<1>10. Spills(u) * StreamBufferSize = n
  BY <1>3
<1> HIDE DEF n
<1>11. n \in 0 .. Len(u) /\ Len(u) - n <= StreamBufferSize
  BY <1>1, <1>2, <1>8
<1> QED
  BY <1>9, <1>10, <1>11

(* write() of a whole element, or of its beginning. *)
LEMMA WritePreserves ==
  ASSUME WriterInv, Write(element)
  PROVE  /\ WrittenInv'
         /\ output_file' \in Seq(Int) /\ stream_buffer' \in Seq(Int)
         /\ accepted' \in Seq(Nat)
         /\ Len(stream_buffer') <= StreamBufferSize
         /\ bad' \in BOOLEAN /\ m_is_open' \in BOOLEAN
         /\ wpc' \in {"loop", "flush"}
<1> DEFINE w == Units(element)
           u == stream_buffer \o w
           n == Spills(u) * StreamBufferSize
           ok == n > 0 => DirectWriteSucceeds(StreamBufferSize, Len(output_file))
<1>1. /\ output_file \in Seq(Int) /\ stream_buffer \in Seq(Int) /\ accepted \in Seq(Nat)
      /\ element \in Nat /\ Len(stream_buffer) <= StreamBufferSize
  BY DEF WriterInv, RecorderType
<1>2. bad \in BOOLEAN /\ m_is_open \in BOOLEAN
  BY DEF WriterInv, RecorderType
<1>3. ElementSize \in Nat \ {0} /\ StreamBufferSize \in Nat \ {0}
  BY FileAssumption
<1>4. w \in Seq(Int) /\ Len(w) = ElementSize
  <2>1. \A i \in 1 .. ElementSize : (element - 1) * ElementSize + i \in Int
    BY <1>1, <1>3
  <2> QED
    BY <1>3, <2>1 DEF Units
<1>5. Whole \in Seq(Int)
  BY <1>1, ConcatProperties, Zenon DEF Whole
<1>6. /\ Len(Whole) >= Len(accepted) * ElementSize
      /\ ~bad => Len(Whole) = Len(accepted) * ElementSize
      /\ Holds(Whole, accepted)
  BY DEF WriterInv, WrittenInv
<1>7. CASE m_is_open /\ ~bad /\ ok
  <2>1. /\ output_file' = output_file \o SubSeq(u, 1, n)
        /\ stream_buffer' = SubSeq(u, n + 1, Len(u))
        /\ accepted' = Append(accepted, element)
        /\ wpc' = "loop"
    BY <1>7 DEF Write
  <2>2. bad' = bad /\ m_is_open' = m_is_open
    BY <1>7 DEF Write
  <2> HIDE DEF ok, w
  <2>3. u \in Seq(Int) /\ Len(u) = Len(stream_buffer) + Len(w)
    BY <1>1, <1>4, ConcatProperties, Zenon
  <2>4. u # << >>
    <3>1. Len(u) > 0
      BY <1>1, <1>3, <1>4, <2>3
    <3> QED
      BY <3>1
  <2>5. n \in 0 .. Len(u) /\ Len(u) - n <= StreamBufferSize
    BY <2>3, <2>4, SpillBounds
  <2> HIDE DEF n
  <2>6. /\ output_file' \in Seq(Int) /\ stream_buffer' \in Seq(Int)
        /\ Len(stream_buffer') = Len(u) - n
        /\ output_file' \o stream_buffer' = (output_file \o stream_buffer) \o w
    <3>1. u = stream_buffer \o w
      OBVIOUS
    <3> HIDE DEF u
    <3> DEFINE x == SubSeq(u, 1, n)
               y == SubSeq(u, n + 1, Len(u))
    <3>2. x \in Seq(Int) /\ y \in Seq(Int) /\ Len(y) = Len(u) - n /\ x \o y = u
      BY <2>3, <2>5, CutInTwo
    <3>3. output_file' = output_file \o x /\ stream_buffer' = y
      BY <2>1
    <3> HIDE DEF x, y
    <3>4. x \o y = stream_buffer \o w
      BY <3>1, <3>2
    <3>5. output_file \o x \in Seq(Int) /\ (output_file \o x) \o y = (output_file \o stream_buffer) \o w
      <4>1. /\ output_file \in Seq(Int) /\ stream_buffer \in Seq(Int) /\ w \in Seq(Int)
            /\ x \in Seq(Int) /\ y \in Seq(Int)
        BY <1>1, <1>4, <3>2
      <4>2. (output_file \o x) \o y = output_file \o (x \o y)
        BY <4>1, Joined
      <4>3. (output_file \o stream_buffer) \o w = output_file \o (stream_buffer \o w)
        BY <4>1, Joined
      <4>4. output_file \o x \in Seq(Int)
        BY <4>1, ConcatProperties, Zenon
      <4> QED
        BY <3>4, <4>2, <4>3, <4>4, Zenon
    <3> QED
      BY <3>2, <3>3, <3>5, Zenon
  <2>7. /\ Len(Whole \o w) = Len(Append(accepted, element)) * ElementSize
        /\ Holds(Whole \o w, Append(accepted, element))
    BY <1>1, <1>5, <1>6, <1>7, HoldsAppended DEF w
  <2>8. Whole' = Whole \o w
    BY <2>6 DEF Whole
  <2>9. Append(accepted, element) \in Seq(Nat)
    BY <1>1
  <2>10. Len(Whole') = Len(accepted') * ElementSize
    BY <2>1, <2>7, <2>8
  <2>11. Len(accepted') * ElementSize \in Int
    BY <1>3, <2>1, <2>9
  <2>12. Holds(Whole, accepted)'
    <3>1. Holds(Whole', accepted')
      BY <2>1, <2>7, <2>8
    <3> QED
      BY <3>1 DEF Holds
  <2>13. WrittenInv'
    BY <2>10, <2>11, <2>12 DEF WrittenInv
  <2>14. Len(stream_buffer') <= StreamBufferSize
    BY <2>5, <2>6
  <2> QED
    BY <1>2, <2>1, <2>2, <2>6, <2>9, <2>13, <2>14
<1>8. CASE ~(m_is_open /\ ~bad /\ ok)
  <2>1. output_file' = output_file /\ accepted' = accepted /\ wpc' = "flush"
    BY <1>8 DEF Write
  <2>2. m_is_open' = m_is_open /\ bad' = (bad \/ m_is_open)
    BY <1>8 DEF Write
  <2>3. stream_buffer' = IF m_is_open /\ ~bad THEN SubSeq(u, 1, StreamBufferSize) ELSE stream_buffer
    BY <1>8 DEF Write
  <2>4. Len(accepted) * ElementSize \in Int
    BY <1>1, <1>3
  <2>5. CASE m_is_open /\ ~bad
    <3>1. n > 0
      BY <1>8, <2>5
    <3> HIDE DEF w
    <3>2. u \in Seq(Int) /\ Len(u) = Len(stream_buffer) + Len(w)
      BY <1>1, <1>4, ConcatProperties, Zenon
    <3>3. u # << >>
      <4>1. Len(u) > 0
        BY <1>1, <1>3, <1>4, <3>2
      <4> QED
        BY <4>1
    <3>4. StreamBufferSize <= Len(u)
      BY <3>1, <3>2, <3>3, SpillBounds
    <3> HIDE DEF n
    <3>5. stream_buffer' = SubSeq(u, 1, StreamBufferSize)
      BY <2>3, <2>5
    <3>6. /\ stream_buffer' \in Seq(Int)
          /\ Len(stream_buffer') = StreamBufferSize
          /\ output_file \o stream_buffer' \in Seq(Int)
          /\ Len(output_file \o stream_buffer') >= Len(output_file \o stream_buffer)
          /\ \A i \in 1 .. Len(output_file \o stream_buffer) :
               (output_file \o stream_buffer')[i] = (output_file \o stream_buffer)[i]
      <4>1. \A i \in 1 .. Len(stream_buffer) + Len(w) :
              u[i] = IF i <= Len(stream_buffer) THEN stream_buffer[i] ELSE w[i - Len(stream_buffer)]
        BY <1>1, <1>4, ConcatProperties, Zenon
      <4> HIDE DEF u
      <4> DEFINE x == SubSeq(u, 1, StreamBufferSize)
      <4>2. x \in Seq(Int) /\ Len(x) = StreamBufferSize
        BY <1>3, <3>2, <3>4
      <4>3. \A i \in 1 .. Len(stream_buffer) : x[i] = stream_buffer[i]
        <5> SUFFICES ASSUME NEW i \in 1 .. Len(stream_buffer) PROVE x[i] = stream_buffer[i]
          OBVIOUS
        <5>1. /\ i \in 1 .. Len(stream_buffer) + Len(w) /\ i <= Len(stream_buffer)
              /\ i \in 1 .. StreamBufferSize
          BY <1>1, <1>3, <1>4
        <5>2. x[i] = u[i]
          BY <1>3, <3>2, <3>4, <5>1
        <5> QED
          BY <4>1, <5>1, <5>2
      <4>4. stream_buffer' = x
        BY <3>5
      <4> HIDE DEF x
      <4>5. Len(stream_buffer) <= Len(x)
        BY <1>1, <4>2
      <4>6. /\ output_file \o x \in Seq(Int)
            /\ Len(output_file \o x) >= Len(output_file \o stream_buffer)
            /\ \A i \in 1 .. Len(output_file \o stream_buffer) :
                 (output_file \o x)[i] = (output_file \o stream_buffer)[i]
        BY <1>1, <4>2, <4>3, <4>5, StuckWhole, Zenon
      <4> QED
        BY <4>2, <4>4, <4>6, Zenon
    <3>7. Whole' = output_file \o stream_buffer'
      BY <2>1 DEF Whole
    <3>8. /\ Whole' \in Seq(Int) /\ Len(Whole') >= Len(Whole)
          /\ \A i \in 1 .. Len(Whole) : Whole'[i] = Whole[i]
      BY <3>6, <3>7 DEF Whole
    <3>9. Holds(Whole', accepted)
      BY <1>1, <1>5, <1>6, <2>4, <3>8, HoldsMore
    <3>10. Holds(Whole, accepted)'
      BY <2>1, <3>9 DEF Holds
    <3>11. bad' = TRUE
      BY <2>2, <2>5
    <3>12. Len(Whole') >= Len(accepted') * ElementSize
      BY <1>5, <1>6, <2>1, <2>4, <3>8
    <3>13. WrittenInv'
      BY <3>10, <3>11, <3>12 DEF WrittenInv
    <3>14. Len(stream_buffer') <= StreamBufferSize
      BY <1>3, <3>6
    <3> QED
      BY <1>1, <1>2, <2>1, <2>2, <3>6, <3>11, <3>13, <3>14
  <2>6. CASE ~(m_is_open /\ ~bad)
    <3>1. stream_buffer' = stream_buffer
      BY <2>3, <2>6
    <3>2. bad' = bad
      BY <1>2, <2>2, <2>6
    <3>3. Whole' = Whole
      BY <2>1, <3>1 DEF Whole
    <3>4. WrittenInv'
      BY <2>1, <3>2, <3>3, WrittenKept DEF WriterInv
    <3> QED
      BY <1>1, <1>2, <2>1, <2>2, <3>1, <3>2, <3>4
  <2> QED
    BY <2>5, <2>6
<1> QED
  BY <1>7, <1>8

LEMMA NextWriterInv == WriterInv /\ [RecorderNext]_recorderVars => WriterInv'
<1> SUFFICES ASSUME WriterInv, [RecorderNext]_recorderVars PROVE WriterInv'
  OBVIOUS
<1> USE DEF WriterInv
<1>1. RecorderType /\ WorkerInv /\ WrittenInv
  OBVIOUS
<1>2. ASSUME output_file' = output_file, stream_buffer' = stream_buffer, bad' = bad, accepted' = accepted
      PROVE  WrittenInv'
  BY <1>1, <1>2, WrittenKept DEF Whole
<1>3. CASE Conf
  <2>1. /\ output_file' = << >> /\ stream_buffer' = << >> /\ accepted' = << >>
        /\ cmd = "initial" /\ cmd' = "configured" /\ wpc' = wpc /\ element' = element
        /\ input' = input /\ sent' = sent
    BY <1>3 DEF Conf, workerVars, inputVars
  <2>2. bad' = FALSE /\ m_is_open' = TRUE
    BY <1>3 DEF Conf
  <2>3. ElementSize \in Nat /\ StreamBufferSize \in Nat
    BY FileAssumption
  <2>4. RecorderType'
    <3>1. bad' \in BOOLEAN /\ m_is_open' \in BOOLEAN
      BY <2>2
    <3>2. << >> \in Seq(Int) /\ << >> \in Seq(Nat) /\ Len(<< >>) = 0 /\ 0 <= StreamBufferSize
      BY <2>3
    <3> QED
      BY <1>1, <2>1, <3>1, <3>2 DEF RecorderType
  <2>5. WorkerInv'
    BY <1>1, <2>1 DEF WorkerInv
  <2>6. WrittenInv'
    <3>1. << >> \o << >> = << >> /\ Len(<< >>) = 0 /\ 0 * ElementSize = 0
      BY <2>3
    <3>2. Holds(<< >>, << >>)
      BY <3>1 DEF Holds
    <3>3. Whole' = << >>
      BY <2>1, <3>1 DEF Whole
    <3>4. Holds(Whole, accepted)'
      BY <2>1, <3>2, <3>3 DEF Holds
    <3> QED
      BY <2>1, <3>1, <3>3, <3>4 DEF WrittenInv
  <2> QED
    BY <2>4, <2>5, <2>6
<1>4. CASE Start \/ StopBegin \/ StopEnd \/ Send \/ Loop \/ Receive \/ ReceiveTimeout
  <2>1. output_file' = output_file /\ stream_buffer' = stream_buffer /\ accepted' = accepted
    BY <1>4 DEF Start, StopBegin, StopEnd, Send, Loop, Receive, ReceiveTimeout, writerVars
  <2>2. bad' = bad /\ m_is_open' = m_is_open
    BY <1>4 DEF Start, StopBegin, StopEnd, Send, Loop, Receive, ReceiveTimeout, writerVars
  <2>3. WrittenInv'
    BY <1>2, <2>1, <2>2
  <2>4. bad' \in BOOLEAN /\ m_is_open' \in BOOLEAN
    BY <1>1, <2>2 DEF RecorderType
  <2>5. /\ cmd' \in {"initial", "configured", "running", "stopping"}
        /\ wpc' \in {"idle", "loop", "receive", "write", "flush"}
    BY <1>1, <1>4 DEF Start, StopBegin, StopEnd, Send, Loop, Receive, ReceiveTimeout,
                      workerVars, commandVars, RecorderType
  <2>6. element' \in Nat /\ input' \in Seq(Nat) /\ sent' \in Nat
    <3>1. element \in Nat /\ input \in Seq(Nat) /\ sent \in Nat
      BY <1>1 DEF RecorderType
    <3>2. CASE Receive
      <4>1. input # << >> /\ element' = Head(input) /\ input' = Tail(input) /\ sent' = sent
        BY <3>2 DEF Receive
      <4> QED
        BY <3>1, <4>1
    <3>3. CASE Send
      <4>1. sent' = sent + 1 /\ input' = Append(input, sent + 1) /\ element' = element
        BY <3>3 DEF Send, workerVars
      <4> QED
        BY <3>1, <4>1
    <3>4. CASE Start \/ StopBegin \/ StopEnd \/ Loop \/ ReceiveTimeout
      <4>1. element' = element /\ input' = input /\ sent' = sent
        BY <3>4 DEF Start, StopBegin, StopEnd, Loop, ReceiveTimeout, workerVars, inputVars
      <4> QED
        BY <3>1, <4>1
    <3> QED
      BY <1>4, <3>2, <3>3, <3>4
  <2>7. RecorderType'
    BY <1>1, <2>1, <2>4, <2>5, <2>6 DEF RecorderType
  <2>8. WorkerInv'
    <3>1. cmd' \in {"initial", "configured"} => wpc' = "idle"
      BY <1>1, <1>4 DEF Start, StopBegin, StopEnd, Send, Loop, Receive, ReceiveTimeout,
                        workerVars, commandVars, WorkerReady, WorkerInv
    <3>2. wpc' = "idle" => wpc = "idle"
      BY <1>4 DEF Start, StopBegin, StopEnd, Send, Loop, Receive, ReceiveTimeout, workerVars
    <3> QED
      BY <1>1, <2>1, <2>2, <3>1, <3>2 DEF WorkerInv
  <2> QED
    BY <2>3, <2>7, <2>8
<1>5. CASE Scrap \/ Flush
  <2>1. Sync
    BY <1>5 DEF Scrap, Flush
  <2>2. bad' = bad
    BY <1>5 DEF Scrap, Flush
  <2>3. m_is_open' \in BOOLEAN
    BY <1>1, <1>5 DEF Scrap, Flush, RecorderType
  <2>4. /\ Whole' = Whole
        /\ output_file' \in Seq(Int) /\ stream_buffer' \in Seq(Int)
        /\ Len(stream_buffer') <= StreamBufferSize
        /\ ~bad' => stream_buffer' = << >>
    BY <1>1, <2>1, <2>2, SyncKeeps
  <2>5. accepted' = accepted /\ element' = element /\ input' = input /\ sent' = sent
    BY <1>5 DEF Scrap, Flush, workerVars, inputVars
  <2>6. WrittenInv'
    BY <1>1, <2>2, <2>4, <2>5, WrittenKept
  <2>7. /\ cmd' \in {"initial", "configured", "running", "stopping"}
        /\ wpc' \in {"idle", "loop", "receive", "write", "flush"}
    BY <1>1, <1>5 DEF Scrap, Flush, workerVars, commandVars, RecorderType
  <2>8. bad' \in BOOLEAN
    BY <1>1, <2>2 DEF RecorderType
  <2>9. RecorderType'
    BY <1>1, <2>3, <2>4, <2>5, <2>7, <2>8 DEF RecorderType
  <2>10. cmd' \in {"initial", "configured"} => wpc' = "idle"
    BY <1>1, <1>5 DEF Scrap, Flush, workerVars, commandVars, WorkerInv
  <2> QED
    BY <2>4, <2>6, <2>9, <2>10 DEF WorkerInv
<1>6. CASE WriteElement
  <2>1. /\ wpc = "write" /\ cmd' = cmd /\ element' = element /\ input' = input /\ sent' = sent
        /\ Write(element)
    BY <1>6 DEF WriteElement, commandVars, inputVars
  <2>2. /\ WrittenInv'
        /\ output_file' \in Seq(Int) /\ stream_buffer' \in Seq(Int)
        /\ accepted' \in Seq(Nat)
        /\ Len(stream_buffer') <= StreamBufferSize
        /\ bad' \in BOOLEAN /\ m_is_open' \in BOOLEAN
        /\ wpc' \in {"loop", "flush"}
    BY <2>1, WritePreserves
  <2>3. RecorderType'
    BY <1>1, <2>1, <2>2 DEF RecorderType
  <2>4. WorkerInv'
    BY <1>1, <2>1, <2>2 DEF WorkerInv
  <2> QED
    BY <2>2, <2>3, <2>4
<1>7. CASE UNCHANGED recorderVars
  <2>1. output_file' = output_file /\ stream_buffer' = stream_buffer /\ accepted' = accepted
    BY <1>7 DEF recorderVars, writerVars
  <2>2. bad' = bad /\ m_is_open' = m_is_open
    BY <1>7 DEF recorderVars, writerVars
  <2>3. /\ cmd' = cmd /\ wpc' = wpc /\ element' = element /\ input' = input /\ sent' = sent
    BY <1>7 DEF recorderVars, commandVars, workerVars, inputVars
  <2>4. bad' \in BOOLEAN /\ m_is_open' \in BOOLEAN
    BY <1>1, <2>2 DEF RecorderType
  <2>5. RecorderType'
    BY <1>1, <2>1, <2>3, <2>4 DEF RecorderType
  <2>6. WorkerInv'
    BY <1>1, <2>1, <2>2, <2>3 DEF WorkerInv
  <2> QED
    BY <1>2, <2>1, <2>2, <2>5, <2>6
<1> QED
  BY <1>3, <1>4, <1>5, <1>6, <1>7 DEF RecorderNext, Worker

(* What the reader makes of a file: as many elements as are whole in it,   *)
(* each with the units at its place.                                       *)
LEMMA ReadElements ==
  ASSUME NEW s \in Seq(Int)
  PROVE  /\ Len(ReadAll(s)) = Len(s) \div ElementSize
         /\ \A i \in 1 .. Len(s) \div ElementSize :
              ReadAll(s)[i] = [k \in 1 .. ElementSize |-> s[(i - 1) * ElementSize + k]]
<1>1. ElementSize \in Nat \ {0} /\ Len(s) \in Nat
  BY FileAssumption
<1> DEFINE m == Len(s) \div ElementSize
<1>2. m \in Nat
  BY <1>1
<1>3. ReadAll(s) = [i \in 1 .. m |-> SubSeq(s, (i - 1) * ElementSize + 1, i * ElementSize)]
  BY DEF ReadAll
<1> HIDE DEF m
<1>4. Len(ReadAll(s)) = m
  BY <1>2, <1>3
<1>5. ASSUME NEW i \in 1 .. m
      PROVE  ReadAll(s)[i] = [k \in 1 .. ElementSize |-> s[(i - 1) * ElementSize + k]]
  <2> DEFINE p == (i - 1) * ElementSize
  <2>1. i \in Int /\ p \in Int /\ i * ElementSize = p + ElementSize
    BY <1>1, <1>2
  <2>2. ReadAll(s)[i] = SubSeq(s, p + 1, p + ElementSize)
    BY <1>3, <2>1
  <2>3. 0 <= p /\ p + ElementSize <= Len(s)
    <3>1. PICK r \in 0 .. ElementSize - 1 : Len(s) = m * ElementSize + r
      <4>1. \E q \in Int, r \in 0 .. ElementSize - 1 :
              Len(s) = q * ElementSize + r /\ q = Len(s) \div ElementSize
        <5>1. Len(s) \in Int /\ ElementSize \in Nat \ {0}
          BY <1>1
        <5> QED
          BY <5>1, Division, Zenon
      <4> QED
        BY <4>1 DEF m
    <3>2. 0 * ElementSize <= (i - 1) * ElementSize /\ i * ElementSize <= m * ElementSize
      <4>1. ElementSize \in Nat /\ 0 \in Int /\ i - 1 \in Int /\ m \in Int /\ 0 <= i - 1 /\ i <= m
        BY <1>1, <1>2, <2>1
      <4> QED
        BY <2>1, <4>1, Monotone
    <3>3. 0 * ElementSize = 0 /\ m * ElementSize \in Int
      BY <1>1, <1>2
    <3> QED
      BY <1>1, <2>1, <3>1, <3>2, <3>3
  <2> HIDE DEF p
  <2>4. SubSeq(s, p + 1, p + ElementSize) = [k \in 1 .. ElementSize |-> s[p + k]]
    <3> DEFINE x == SubSeq(s, p + 1, p + ElementSize)
    <3>1. x \in Seq(Int) /\ Len(x) = ElementSize /\ \A k \in 1 .. ElementSize : x[k] = s[p + k]
      BY <1>1, <2>1, <2>3
    <3> HIDE DEF x
    <3>2. x = [k \in 1 .. ElementSize |-> x[k]]
      BY <3>1
    <3> QED
      BY <3>1, <3>2 DEF x
  <2> QED
    BY <2>2, <2>4 DEF p
<1> QED
  BY <1>4, <1>5 DEF m

LEMMA WriterInvSafe == WriterInv => FileHoldsRecording
<1> SUFFICES ASSUME WriterInv PROVE FileHoldsRecording
  OBVIOUS
<1>1. output_file \in Seq(Int) /\ stream_buffer \in Seq(Int) /\ accepted \in Seq(Nat)
  BY DEF WriterInv, RecorderType
<1>2. ElementSize \in Nat \ {0} /\ Len(accepted) \in Nat
  BY <1>1, FileAssumption
<1>3. Whole \in Seq(Int)
  BY <1>1, ConcatProperties, Zenon DEF Whole
<1>4. ASSUME NEW i \in 1 .. Len(ReadAll(Whole)), i <= Len(accepted)
      PROVE  ReadAll(Whole)[i] = Units(accepted[i])
  <2>1. i \in 1 .. Len(Whole) \div ElementSize
    BY <1>3, <1>4, ReadElements
  <2>2. ReadAll(Whole)[i] = [k \in 1 .. ElementSize |-> Whole[(i - 1) * ElementSize + k]]
    BY <1>3, <2>1, ReadElements
  <2>3. i \in 1 .. Len(accepted)
    <3>1. Len(Whole) \div ElementSize \in Int
      BY <1>2, <1>3
    <3> QED
      BY <1>2, <1>4, <2>1, <3>1
  <2>4. \A k \in 1 .. ElementSize :
          Whole[(i - 1) * ElementSize + k] = (accepted[i] - 1) * ElementSize + k
    BY <2>3 DEF WriterInv, WrittenInv, Holds
  <2>5. Units(accepted[i]) = [k \in 1 .. ElementSize |-> (accepted[i] - 1) * ElementSize + k]
    BY DEF Units
  <2>6. [k \in 1 .. ElementSize |-> Whole[(i - 1) * ElementSize + k]] =
        [k \in 1 .. ElementSize |-> (accepted[i] - 1) * ElementSize + k]
    BY <2>4
  <2> QED
    BY <2>2, <2>5, <2>6, Zenon
<1>5. ASSUME cmd \in {"configured", "initial"}, ~bad
      PROVE  /\ Len(ReadAll(output_file)) = Len(accepted)
             /\ Len(output_file) = Len(accepted) * ElementSize
  <2>1. stream_buffer = << >>
    BY <1>5 DEF WriterInv, WorkerInv
  <2>2. Whole = output_file
    BY <1>1, <2>1, ConcatEmptySeq, Zenon DEF Whole
  <2>3. Len(output_file) = Len(accepted) * ElementSize
    BY <1>5, <2>2 DEF WriterInv, WrittenInv
  <2>4. (Len(accepted) * ElementSize) \div ElementSize = Len(accepted)
    <3> DEFINE n == Len(accepted)
               d == ElementSize
    <3>1. n \in Int /\ d \in Nat \ {0} /\ 0 \in 0 .. d - 1
      BY <1>2
    <3> HIDE DEF n, d
    <3>2. (n * d + 0) \div d = n
      BY <3>1, Quotient
    <3>3. n * d + 0 = n * d
      BY <3>1
    <3> QED
      BY <3>2, <3>3 DEF n, d
  <2>5. Len(ReadAll(output_file)) = Len(output_file) \div ElementSize
    BY <1>1, ReadElements
  <2> QED
    BY <2>3, <2>4, <2>5
<1> QED
  BY <1>4, <1>5 DEF FileHoldsRecording, Whole

(* Whatever the sizes of element, buffer and alignment, and whether or not *)
(* a write fails: the file and the rest of the buffer of                   *)
(* BufferedFileWriter read back as the elements that RecorderModel has     *)
(* written, whole and in their order, and after a stop, without a failed   *)
(* write, all of them are in the file.                                     *)
THEOREM FileRecordingSafety == RecorderSpec => []FileHoldsRecording
<1>1. RecorderInit => WriterInv
  BY InitWriterInv
<1>2. WriterInv /\ [RecorderNext]_recorderVars => WriterInv'
  BY NextWriterInv
<1>3. WriterInv => FileHoldsRecording
  BY WriterInvSafe
<1> QED
  BY <1>1, <1>2, <1>3, PTL DEF RecorderSpec
=============================================================================
