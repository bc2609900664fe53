---------------------------- MODULE BufferMemory ----------------------------
(***************************************************************************)
(* The memory of an IterableQueueModel: constructor, conf(), scrap() and   *)
(* destructor with the allocators they choose from, and the hand-shake     *)
(* with the thread that touches the pages of a new buffer.                 *)
(*                                                                         *)
(* A configuration says which allocator to use.  The block of memory that  *)
(* records_ points to is known by the allocator it came from.  One thread  *)
(* controls the buffer; no elements are written meanwhile.                 *)
(***************************************************************************)
EXTENDS Integers, FiniteSets

CONSTANTS
  Configurations,  \* the configurations that conf() is called with
  MaxConfs         \* bound on calls of conf

AllConfigurations ==
  [size : {3, 4}, numa_aware : BOOLEAN, low_node : BOOLEAN,
   intrinsic : BOOLEAN, aligned : BOOLEAN, preallocation : BOOLEAN]

(* What the allocation test and the configurations in use ask for: one     *)
(* allocator at a time, NUMA on a node that exists, _mm_malloc with an     *)
(* alignment.                                                              *)
IsSupported(c) ==
  /\ c.low_node
  /\ c.numa_aware => ~c.intrinsic /\ ~c.aligned
  /\ c.intrinsic => c.aligned

Supported == {c \in AllConfigurations : IsSupported(c)}

(* NUMA and the intrinsic allocator at once. *)
NumaIntrinsic ==
  {c \in AllConfigurations : c.low_node /\ c.numa_aware /\ c.intrinsic /\ c.aligned}

(* The intrinsic allocator without an alignment. *)
IntrinsicUnaligned ==
  {c \in AllConfigurations : c.low_node /\ ~c.numa_aware /\ c.intrinsic /\ ~c.aligned}

ASSUME MemoryAssumption ==
  /\ Configurations \subseteq [size : Nat, numa_aware : BOOLEAN, low_node : BOOLEAN,
                               intrinsic : BOOLEAN, aligned : BOOLEAN,
                               preallocation : BOOLEAN]
  /\ \A c \in Configurations : c.size >= 2

VARIABLES
  libnuma,                 \* whether the build has WITH_LIBNUMA_SUPPORT
  block,                   \* what records_ points to
  slots,                   \* how many elements have room there
  live,                    \* blocks allocated and not freed
  wrongly_freed,           \* history: a block was freed by the wrong function, or again
  size_, numa_aware_, intrinsic_allocator_,
  readIndex_, writeIndex_,
  cfg,                     \* the configuration at hand
  mpc, confs,              \* the control thread's place; calls of conf
  prefill_ready_, prefill_done_,
  prefill_cv_,             \* the threads asleep in prefill_cv_.wait()
  ppc                      \* the prefiller's place

memoryVars  == <<libnuma, block, slots, live, wrongly_freed>>
shapeVars   == <<size_, numa_aware_, intrinsic_allocator_>>
indexVars   == <<readIndex_, writeIndex_>>
prefillVars == <<prefill_ready_, prefill_done_, prefill_cv_, ppc>>
queueVars == <<memoryVars, shapeVars, indexVars, cfg, mpc, confs, prefillVars>>

NoConfiguration == [size |-> 2, numa_aware |-> FALSE, low_node |-> TRUE,
                    intrinsic |-> FALSE, aligned |-> FALSE, preallocation |-> FALSE]

MemoryInit ==
  /\ libnuma \in BOOLEAN
  /\ block = "malloc" /\ slots = 2 /\ live = 1 /\ wrongly_freed = FALSE
  /\ size_ = 2 /\ numa_aware_ = FALSE /\ intrinsic_allocator_ = FALSE
  /\ readIndex_ = 0 /\ writeIndex_ = 0
  /\ cfg = NoConfiguration /\ mpc = "unconfigured" /\ confs = 0
  /\ prefill_ready_ = FALSE /\ prefill_done_ = FALSE /\ prefill_cv_ = {} /\ ppc = "off"

-----------------------------------------------------------------------------
(* free_memory(): which function frees the block; without libnuma there    *)
(* may be none.                                                            *)
FreeFunction ==
  IF intrinsic_allocator_ THEN "_mm_free"
  ELSE IF ~numa_aware_ THEN "free"
  ELSE IF libnuma THEN "numa_free" ELSE "none"

FreedBy == [malloc |-> "free", aligned |-> "free", mm |-> "_mm_free", numa |-> "numa_free"]

(* (fault) The block is not freed. *)
FreeForgets == UNCHANGED <<memoryVars>>

(* Elements that are left are destroyed, the block is freed, and records_  *)
(* dangles.                                                                *)
Free ==
  /\ wrongly_freed' =
       (wrongly_freed \/ block = "freed"
         \/ (block \in DOMAIN FreedBy /\ FreeFunction \notin {FreedBy[block], "none"}))
  /\ IF block \in DOMAIN FreedBy /\ FreeFunction # "none"
     THEN block' = "freed" /\ live' = live - 1
     ELSE UNCHANGED <<block, live>>
  /\ UNCHANGED <<libnuma, slots>>

(* allocate_memory(): the allocator of a configuration. *)
Allocator(c) ==
  IF c.numa_aware /\ c.low_node THEN IF libnuma THEN "numa" ELSE "throws"
  ELSE IF c.aligned THEN IF c.intrinsic THEN "mm" ELSE "aligned"
  ELSE IF ~c.numa_aware /\ ~c.intrinsic THEN "malloc" ELSE "none"

(* An allocation of n slots: it may fail. *)
NewBlock(from, n) ==
  /\ UNCHANGED <<libnuma, wrongly_freed>>
  /\ \/ block' = from /\ slots' = n /\ live' = live + 1
     \/ block' = "null" /\ slots' = 0 /\ UNCHANGED live

-----------------------------------------------------------------------------
(* conf(): free the old memory ... *)
ConfBegin(c) ==
  /\ mpc \in {"unconfigured", "configured"} /\ confs < MaxConfs
  /\ confs' = confs + 1
  /\ cfg' = c
  /\ Free
  /\ mpc' = "allocate"
  /\ UNCHANGED <<shapeVars, indexVars, prefillVars>>

(* ... allocate the new, and set size, flags and indices ... *)
ConfAllocate ==
  /\ mpc = "allocate" /\ Allocator(cfg) # "throws"
  /\ IF Allocator(cfg) = "none" THEN UNCHANGED memoryVars
     ELSE NewBlock(Allocator(cfg), cfg.size)
  /\ size_' = cfg.size
  /\ numa_aware_' = cfg.numa_aware /\ intrinsic_allocator_' = cfg.intrinsic
  /\ readIndex_' = 0 /\ writeIndex_' = 0
  /\ mpc' = "check"
  /\ UNCHANGED <<cfg, confs, prefillVars>>

(* ... unless the build has no libnuma ... *)
ConfThrows ==
  /\ mpc = "allocate" /\ Allocator(cfg) = "throws"
  /\ mpc' = "failed"
  /\ UNCHANGED <<memoryVars, shapeVars, indexVars, cfg, confs, prefillVars>>

(* ... and start the prefiller, if there is memory. *)
ConfCheck ==
  /\ mpc = "check"
  /\ IF block # "null" /\ cfg.preallocation
     THEN mpc' = "trigger" /\ ppc' = "lock"
     ELSE mpc' = (IF block = "null" THEN "failed" ELSE "configured") /\ UNCHANGED ppc
  /\ UNCHANGED <<memoryVars, shapeVars, indexVars, cfg, confs, prefill_ready_,
                 prefill_done_, prefill_cv_>>

(* scrap(): back to the memory of an unconfigured buffer. *)
ScrapBegin ==
  /\ mpc \in {"configured", "failed"}
  /\ Free
  /\ mpc' = "scrapping"
  /\ UNCHANGED <<shapeVars, indexVars, cfg, confs, prefillVars>>

ScrapEnd ==
  /\ mpc = "scrapping"
  /\ NewBlock("malloc", 2)
  /\ size_' = 2 /\ numa_aware_' = FALSE /\ intrinsic_allocator_' = FALSE
  /\ readIndex_' = 0 /\ writeIndex_' = 0
  /\ prefill_ready_' = FALSE /\ prefill_done_' = FALSE
  /\ mpc' = "unconfigured" /\ cfg' = NoConfiguration
  /\ UNCHANGED <<confs, prefill_cv_, ppc>>

(* The destructor. *)
Destroy ==
  /\ mpc \in {"unconfigured", "configured", "failed"}
  /\ Free
  /\ mpc' = "destroyed"
  /\ UNCHANGED <<shapeVars, indexVars, cfg, confs, prefillVars>>

-----------------------------------------------------------------------------
(* The prefiller holds prefill_mutex_ while it fills.                      *)
MutexHeld == ppc = "fill"

prefillFrame == <<memoryVars, shapeVars, cfg, confs>>

(* (fault) Nobody is woken. *)
NotifyNobody == UNCHANGED prefill_cv_

(* notify_one() wakes one of the threads asleep, if there is any. *)
NotifyOne ==
  IF prefill_cv_ = {} THEN UNCHANGED prefill_cv_
  ELSE \E t \in prefill_cv_ : prefill_cv_' = prefill_cv_ \ {t}

(* force_pagefault(): tell the prefiller ... *)
Trigger ==
  /\ mpc = "trigger" /\ ~MutexHeld
  /\ prefill_ready_' = TRUE
  /\ mpc' = "notify"
  /\ UNCHANGED <<prefillFrame, indexVars, prefill_done_, prefill_cv_, ppc>>

TriggerNotify ==
  /\ mpc = "notify"
  /\ NotifyOne
  /\ mpc' = "await"
  /\ UNCHANGED <<prefillFrame, indexVars, prefill_ready_, prefill_done_, ppc>>

(* ... wait until it is done ... *)
AwaitDone ==
  /\ mpc = "await" /\ ~MutexHeld /\ "main" \notin prefill_cv_
  /\ IF prefill_done_ THEN mpc' = "join" /\ UNCHANGED prefill_cv_
     ELSE prefill_cv_' = prefill_cv_ \cup {"main"} /\ UNCHANGED mpc
  /\ UNCHANGED <<prefillFrame, indexVars, prefill_ready_, prefill_done_, ppc>>

(* ... and for its thread to end. *)
Join ==
  /\ mpc = "join" /\ ppc = "off"
  /\ mpc' = "configured"
  /\ UNCHANGED <<prefillFrame, indexVars, prefillVars>>

(* prefill_task(): wait to be told ... *)
PrefillLock ==
  /\ ppc = "lock" /\ "prefiller" \notin prefill_cv_
  /\ IF prefill_ready_ THEN ppc' = "fill" /\ UNCHANGED prefill_cv_
     ELSE prefill_cv_' = prefill_cv_ \cup {"prefiller"} /\ UNCHANGED ppc
  /\ UNCHANGED <<prefillFrame, indexVars, mpc, prefill_ready_, prefill_done_>>

(* ... write to all slots but one ... *)
PrefillWrite ==
  /\ ppc = "fill" /\ writeIndex_ < size_ - 1
  /\ writeIndex_' = writeIndex_ + 1
  /\ UNCHANGED <<prefillFrame, readIndex_, mpc, prefillVars>>

(* ... flush the queue, which leaves the indices where they are ... *)
PrefillDone ==
  /\ ppc = "fill" /\ writeIndex_ = size_ - 1
  /\ readIndex_' = writeIndex_
  /\ prefill_done_' = TRUE
  /\ ppc' = "notify"
  /\ UNCHANGED <<prefillFrame, writeIndex_, mpc, prefill_ready_, prefill_cv_>>

(* ... and, after the unlock, wake the thread that waits. *)
PrefillNotify ==
  /\ ppc = "notify"
  /\ NotifyOne
  /\ ppc' = "off"
  /\ UNCHANGED <<prefillFrame, indexVars, mpc, prefill_ready_, prefill_done_>>

-----------------------------------------------------------------------------
Control ==
  \/ ConfAllocate \/ ConfThrows \/ ConfCheck \/ ScrapEnd
  \/ Trigger \/ TriggerNotify \/ AwaitDone \/ Join

(* A thread asleep may wake up for no reason, and tests its condition. *)
SpuriousWakeup ==
  /\ \E t \in prefill_cv_ : prefill_cv_' = prefill_cv_ \ {t}
  /\ UNCHANGED <<prefillFrame, indexVars, mpc, prefill_ready_, prefill_done_, ppc>>

Prefiller == PrefillLock \/ PrefillWrite \/ PrefillDone \/ PrefillNotify

Finished == mpc = "destroyed" /\ UNCHANGED queueVars

MemoryNext ==
  \/ \E c \in Configurations : ConfBegin(c)
  \/ ScrapBegin \/ Destroy
  \/ Control \/ Prefiller \/ SpuriousWakeup
  \/ Finished

MemorySpec == MemoryInit /\ [][MemoryNext]_queueVars

(* Both threads go on when they can; none relies on spurious wake-ups. *)
MemoryFairSpec == MemorySpec /\ WF_queueVars(Control) /\ WF_queueVars(Prefiller)

-----------------------------------------------------------------------------
(* "Different allocators require custom free functions"                    *)
(* (IterableQueueModel.hxx:24): each block is freed once, by the function  *)
(* of the allocator it came from, through any sequence of conf() and       *)
(* scrap() and of allocations that fail.                                   *)
FreedByItsAllocator == ~wrongly_freed

(* Whenever the buffer is not in a call it owns one block, or none after   *)
(* an allocation failed, and it leaves none behind (:25, :300, :324).  A   *)
(* configuration "might be invalid", and then conf() is to "fail" (:71):   *)
(* when it has returned, the block has room for the buffer's size.         *)
OwnsUsableMemory ==
  /\ mpc \in {"unconfigured", "configured"} => live = IF block = "null" THEN 0 ELSE 1
  /\ mpc = "destroyed" => live = 0
  /\ mpc = "configured" => block \in DOMAIN FreedBy /\ slots = size_

(* conf() returns: neither wake-up between the two threads is lost (:142,  *)
(* :102).                                                                  *)
ConfReturns == (mpc = "allocate") ~> (mpc \in {"configured", "failed"})
=============================================================================
