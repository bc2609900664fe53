# A verification of datahandlinglibs in TLA+

`datahandlinglibs` is the readout library of the DUNE data acquisition: it takes
payloads from a detector's front end, buffers them for some seconds in a *latency
buffer*, post-processes them, answers *data requests* for windows of time with
fragments cut out of the buffer, removes what has become old, and records data to
files. It is a library of C++ templates, and almost every class runs threads of its
own over data that others write. What is hard in it is hard to test: which thread
wins, which index wraps, what a run's end leaves behind.

The modules here are translated from the code under `src/include/datahandlinglibs`
(paths below are relative to it). Each definition that models code is mapped to its
lines in `PROJECT.json`. TLC checks small instances; TLAPS proves the core for every
value of the constants.

## 1. The system

```
 front end ──> DataHandlingModel: consumer ──write──> latency buffer (ring or skip list)
                   │        │                          ▲    ▲     ▲         │
                   │        └─ pointers ─> post-       │    │     │ pops    │ memory
                   │              processors           │    │     │         ▼
  TimeSync <── TimeSync thread       request threads ──┘    │  cleaner   zero-copy recorder
                                       ▲      │        recorder   │         │
 data requests ── callback ── pool ────┘   waiter           │     └─ lock ──┘
                                                            ▼
                                                          file
```

| Component | State | Operations | Hard about it | What makes it correct |
|---|---|---|---|---|
| `IterableQueueModel` (ring) | slots, read and write index, overflow counter | `write`, `read`, `pop`, `flush`, `front`, `back`, `occupancy`, `Iterator` | lock-free, several threads, wraps | it is a bounded FIFO; iterators are at live elements and miss none |
| its memory | records, size, allocator flags, prefiller thread | `conf`, `scrap`, `allocate_memory`, `free_memory`, `prefill_task` | four allocators, failures, a two-thread handshake | no leak, no wrong free, `conf` returns with usable memory |
| `BinarySearchQueueModel`, `FixedRateQueueModel` | none of their own | `lower_bound` | search across the wrap, rounding | it is the lower bound, and it ends |
| `DefaultRequestHandlerModel` | pool, waiting list, cleanup flag, reader count, condition variable, record cursor | `issue_request`, `data_request`, `get_fragment_pieces`, `check_waiting_requests`, `cleanup`, `record`, `start`, `stop` | a hand-made lock between one cleaner and many readers; timeouts against late data; a recorder outside of the lock | readers find what they looked up still there; each request is answered once; fragments are complete unless marked; nothing survives `stop` |
| `ZeroCopyRecordingRequestHandlerModel` | file descriptor, cursor, pointers into the ring's memory | `record` | pointer arithmetic round the ring while others refill it | the file is whole, contiguous frames |
| `SkipListLatencyBufferModel`, `DefaultSkipListRequestHandler` | the sorted list | `write`, `read`, `pop`, `flush`, cleanup | payloads in any order during a cleanup, unsigned differences | a cleanup removes exactly what is old, and ends |
| `DataHandlingModel` | run marker, book-keeping of the delayed pass, counters, DAQ time | `run_consume`, `process_item`, `consume_payload`, `run_timesync`, `dispatch_requests`, `conf`, `scrap`, `start`, `stop` | five activities that end one after the other; a source of data outside of them | nothing is skipped or handed on twice; times and counts belong to the run |
| `TaskRawDataProcessorModel` | a queue and a thread for each post-processor | `postprocess_item`, `start`, `stop` | queues at their limit; pointers that outlive elements | drained when stopped |
| `RecorderModel`, `BufferedFileWriter`, `BufferedFileReader` | buffer, descriptor, O_DIRECT flag | `open`, `write`, `flush`, `close`, `do_work`, `do_stop` | alignment, a run that ends between receive and write | the file has what was received, in order |
| `RateLimiter` | deadline, period | `limit`, `adjust` | missed deadlines, a period that changes | never faster than the rate |
| `SourceEmulatorModel`, `FileSourceBuffer`, `ErrorBitGenerator` | file data, dropouts, error bursts, time to wait, timestamps | `conf`, `scrap`, `start`, `stop`, `run_produce` | reconfiguration, small files, unsigned differences, uninitialised members | payloads follow the file; data are not ahead of the clock; errors and hits as configured |
| `FakeCardReaderBase` | several emulators, run marker | `do_conf`, `do_scrap`, `do_start`, `do_stop` | one of several failing; threads of the run before | a producer has its file; a failed `conf` can be undone; `do_stop` returns |
| `FrameErrorRegistry` | a map of errors | `add_error`, `remove_errors_until`, `has_error` | a reader without the mutex; errors dropped with their elements | the fixed-rate lookup is used only on a buffer without gaps |
| `RawDataHandlerBase`, `DataMoveCallbackRegistry` | the module's state and run marker; a map of callbacks | `do_conf`, `do_scrap`, `do_start`, `do_stop`, `do_record`; `register_callback`, `get_callback` | commands in sequence, a callback that outlives the run | see DataHandlingModel |
| `DataSubscriberModel` | counters | `start`, `stop`, `handle_payload` | | not modelled |
| `EmptyFragmentRequestHandlerModel`, `BufferCopy`, issues, logging, types, test utilities, scripts | none | | | not modelled: stateless or declarations only |

## 2. The modules

Conventions. A definition marked `(fault)` is a defective variant of the definition
after it; no specification uses it. It documents which bug a property notices. A
history variable (marked *history* at its declaration) is read by properties only. A
thread's place in its code is a `...pc` variable; each step between two places is what
no other thread can observe or disturb half-way. Memory is sequentially consistent: the
code's atomics are acquire/release pairs with one writer for each index, for which this
loses nothing.

- **Ring** — the index arithmetic that all ring queues share.
- **LatencyBuffer** — the abstract specification of a latency buffer
  (`LatencyBufferConcept`): a bounded FIFO with a counter of refused writes.
- **IterableQueue** — the lock-free ring. `WriteAccept`/`WriteReject`, `Construct`,
  `Publish` are the loads and stores of `write()`; `Destroy` and `StoreReadIndex` are one
  round of `popFront()` or the body of `read()`; `Advance` and `Settle` the two calls of
  `good()` in `operator++`; `MonitorLoads...` the two loads of `occupancy()` by the
  monitoring thread. The reader and the consumer exclude each other, as their callers see
  to (RequestHandler). It implements LatencyBuffer with the mapping `Contents`.
- **LowerBound** — both `lower_bound()`s: the early returns (`BinaryStart`), one round of
  the loop (`BinaryStep`), the lookup by division (`FixedRateLookup`). `Init` takes any
  ring that a producer can have filled. The search works on the write index it has loaded
  (`loaded_index`, `Loaded`), which the producer may leave behind.
- **FragmentPieces** — `data_request()` and `get_fragment_pieces()` for one request,
  extending LowerBound: classification by the newest and the oldest element, search, walk
  with the cut of the first and the last element, error bits. The consumer receives,
  registers gaps and writes (`Preprocess`, `RegisterGap`, `Write`) at any step of the request,
  the search and the walk included, and cleanups come before (`Cleanup`). `good()` and the
  walk look at the write index of now (`Live`), the search at the one it loaded. Whether a gap is known is asked in a step of its own
  (`CheckErrors`), as the code asks before it loads the indices. Timestamps of the search
  key are unsigned (`Modulus`). The frames cut out of an element are a recursive function,
  `SelectedFrames`, as the loop over them is. `Mishaps` switches on what section 5 is about.
- **FrameErrorRegistry** — the registry, which FragmentPieces extends. `add_error()` is two
  steps, as `has_error()` takes no mutex. What calls `add_error()` is a raw processor of a
  detector, outside of this library: it registers a gap before the payload after it.
- **RequestHandler** — the handler with its threads: request threads (`TaskStart` to
  `SendFragment`), the cleaner (`CleanupCheck` to `CleanupFinish`), the waiter (`Scan`),
  the recorder (`RecordBegin` to `RecordEnd`) and `start`/`stop`. The mutex, the flag, the
  counter and the condition variable are modelled as they are; `m_cv` is the set of those
  asleep on it. The buffer is the interval of timestamps from `oldest` to `newest`, and
  `Collect` is the whole lookup, which FragmentPieces has in detail. The pool and the
  waiting list are sets: boost's pool gives no order. `pop_size_pct` is the fraction
  `PopNum / PopDen`. **MCRequestHandler** has its instances.
- **PostProcessing** — `run_consume()`, `process_item()` and the post-processors, for a
  ring or a skip list, with or without the delay (`conf`). A pointer to an element is its
  timestamp, and dangles once the timestamp has left `lb`. **MCPostProcessing** has its
  instances.
- **TimeSync** — the commands of RawDataHandlerBase and DataHandlingModel with the
  consumer, the TimeSync thread and the request callback, and the counters and times they
  share. In callback mode the payloads come from a `source` that has taken the callback out
  of DataMoveCallbackRegistry; `OrderlySource` says whether it is started after the module
  and stopped before it. `tasks` says whether the processor still has what `init()` gave it.
- **SkipListBuffer** — the skip list with the cleanup of its request handler. Every
  operation of folly's list is a step.
- **BufferMemory** — `conf()`, `scrap()`, the destructor, the allocators and the
  prefiller. `libnuma` says whether the build has it. Its
  last lines are the instances.
- **ZeroCopyRecording** — `record()` of the zero-copy handler on the ring's memory, with
  the producer and the cleaner. Memory is counted in units, of which a frame, a chunk and
  the alignment have a few; `Content` is what a write reads.
- **FileRecording** — RecorderModel and the file writer without compression, in the same
  units.
- **RateLimiter** — `limit()` and `adjust()` against a clock.
- **SourceEmulator** — an emulated link, extending RateLimiter: `Conf`, `Scrap`, `Start`,
  `Stops` and the producer thread (`Begin`, `Round`, a `MakeFrame` or `DropFrame` for each
  frame, `EndRound`, `LimitRound`). A setup is a file's size, a sequence of dropouts, bursts
  of errors, and the pattern with its rate: what the code draws at random is a choice among
  setups. A file is its size, a payload the number of the element it copies.
- **FakeCardReader** — composes several links under one run marker, with the commands that
  go through them. One link is a SourceEmulator in detail, of the others there is what the
  card asks and waits for. **MCFakeCardReader** has its instances.
- **`*_proofs`** — theorems (section 4).

Left out everywhere: logging, the wording of issues, and monitoring counters no property
is about.

## 3. The runs

| Run | States | What it shows |
|---|---|---|
| `iterable_queue` | 101 k | Under every interleaving of producer, consumer, reader and monitor elements are constructed exactly where the indices say (`SlotsMatchIndices`), a walk is at live elements in order (`IteratorAtLiveElement`) and misses none (`IteratorReachesAll`), and the ring is a bounded FIFO (`ImplementsLatencyBuffer`). Four slots hold three elements: the ring fills, empties and wraps at every offset. |
| `fragment_pieces` | 1.6 M | Both searches are right (`ReturnsLowerBound`); fragments hold frames of the window, in order (`PiecesInWindowInOrder`); no error bits means complete (`NoErrorBitsMeansComplete`); a partial fragment has all that was there (`PartialHasWhatWasThere`); the request ends (`RequestEnds`). Elements of two frames two ticks apart, so that a window may begin and end at any alignment to element and frame; one element may be missing, with its error registered, and a cleanup may remove both; four slots at every offset. The windows include those that begin before one element's ticks, whose key wraps; for them only the first part of `NoErrorBitsMeansComplete` is claimed (section 5, item 21). |
| `request_handler` | 1.8 M | What a request found stays buffered until it is copied (`PiecesStayBuffered`); a request is at one place (`RequestsAtOnePlace`); a retry after data arrived concludes (`DueRetriesConclude`); `stop` leaves nothing (`QuietWhenStopped`); `cleanup` has a front to look at (`FrontNeverNull`); a recording has no gap (`RecordingHasNoGap`) and writes live elements (`RecordsBufferedElement`). Two threads (symmetric), any two of two requests and a recording (`MaxWork`), data that pass the end of one window and stop in the other, four elements through a ring of four slots (three in use, the fourth wraps): cleanups happen before, between and during each of them. |
| `request_handler_liveness` | 36 k | `EveryRequestAnswered`, `StopReturns`, with one request or recording at a time. |
| `postprocessing` | 191 k | The delayed pass hands on every element once, in order (`PostedOnceInOrder`), the immediate one all that are accepted (`EveryAcceptedPosted`); `DrainedWhenStopped`, `StopReturns`. A queue of one element and a ring of three overflow; payloads of five timestamps come in any order to the skip list; two runs. |
| `timesync` | 54 k | A TimeSync has a time and the number of its run (`TimeSyncsAreFresh`), a request is counted in its run (`RequestsCountedInTheirRun`), and the last time is announced (`LastTimeIsAnnounced`), in both modes, with and without a TimeSync thread, over two runs and the configurations around them. |
| `skip_list` | 83 k | `CleanupIsExact`, `CleanupEnds`, with any number of payloads of five timestamps in any order and two runs. |
| `buffer_memory` | 5 k | `OwnsUsableMemory`, `ConfReturns`, for three calls of `conf` with every supported configuration, and failing allocations. |
| `zero_copy` | 20 k | `WritesBufferedData`, `FileIsContiguous`, `DirectWritesAligned`. Frames of three units, chunks of four and an alignment of two make every remainder occur; 14 frames are four turns of the ring. |
| `file_recording` | 2 k | `FileHoldsRecording`. Elements of three units, a buffer of four, three runs. |
| `fake_card_reader` | 194 k | The limiter is never faster than its rate (`NeverFaster`) and data are not ahead of the clock (`DataNotAheadOfClock`); payloads are the file's elements in turn (`PayloadsFollowFile`); errors and hits as configured (`FramesAsConfigured`); a producer has its file (`FilesWhileProducing`); a link is refused only after a failure (`RefusedOnlyAfterFailure`); `StopReturns`. Two links, of which the second is detailed, so that `conf` fails before, at and behind it; files of whole elements and with a rest; rounds of one frame and of two; periods of one and two units and a wait that is given up; four commands, so that a link is configured, scrapped, configured and run again. |
| `recording_overrun` | violation | `CursorNotOverrun`: see section 5. |

Each property has a `(fault)` variant that violates it, listed under `mutants` in
`PROJECT.json`. Deadlock is checked except in `zero_copy` and `file_recording`,
whose behaviours end at a bound (on elements or recordings) that the program does not have.

Bounds are named in the modules (`Max...`) and act on the environment only: payloads,
requests, recordings, runs, the clock. No action of a thread under way is cut off by one,
but for `MaxSyncs` in TimeSync, which `LastTimeIsAnnounced` takes into account, and
`MaxOverflow` in IterableQueue, past which refused writes are not modelled (a refusal
changes nothing but the counter). The
producer of SkipListBuffer is not bounded: one that for ever inserts payloads which are too
old does keep a cleanup going, and `CleanupEnds` says that a cleanup ends if this does not go
on for ever, whatever else is inserted (`LateWrite`).

Fairness. Weak fairness of each thread: the operating system runs it. In RequestHandler
strong fairness of `Enter`: a thread waits for the end of a cleanup with a condition
variable, and after a cleanup the cleaner sleeps for 50 ms, so that who waits gets
through. Strong fairness of `RecordEnd` (and of `CompleteFrame` in ZeroCopyRecording):
the recorder looks at the clock again and again, and the duration elapses. Weak fairness
of `Expire` and of `TimePasses` (FakeCardReader): time passes. Nothing relies on spurious wake-ups, which BufferMemory has
(`SpuriousWakeup`), and nothing makes payloads, requests or commands come.

## 4. The proofs

`tlapm` checks all of them. The assumptions are the named `ASSUME`s on the constants
(sizes are numbers, at least 2 for a ring; model values are distinct; the pop percentage
is a fraction), which every run evaluates.

- **IterableQueue_proofs**, for every size and set of elements. The inductive invariant
  `IInv` joins the type, the correspondence of slots and indices, the number of elements a
  removal has still to remove, and where the iterator is relative to both indices. `SlotsMatchIndices`
  alone is not inductive: that `pop(x)` never runs into raw memory needs `toPop <= Occupancy`, and
  that a walk stays at live elements needs the exclusion of reader and consumer. From it:
  `TypeCorrect`, `SlotSafety`, `PopSafety` (the assertion in `popFront()`), `GuessSafety`,
  `IteratorSafety`, `IteratorComplete`, and `Refinement`: `Spec => Abstract!Spec`, with one
  lemma for each of `Publish` (the abstract write) and `StoreReadIndex` (the abstract
  removal), all other steps but `WriteReject` being stutters. `GuessInRange`, the range of
  the occupancy that the monitor publishes, is proved and not listed among a run's
  properties.
- **FragmentPieces_proofs**, for every size, contents and key, every window and every
  interleaving with the consumer. Two specifications are proved about.
  - *The search by itself* (LowerBound): `SearchTypeCorrect`, `SearchSafety` (the loop reads loaded
    slots only) and `LowerBoundCorrect`. The loop invariant is that the first element of
    the interval is not after the key and all elements behind the interval are, in terms of
    *ranks* (distances from the front), in which the wrap disappears. The fixed-rate lookup
    needs that the buffer has no gap from the key on (`FixedNearKey`).
  - *The request* (`RequestSpec`). `RingInv` joins the types, the search's invariant, that
    elements are sorted and at least an element's ticks apart (`Spaced`), what of the input has
    not been written (`InputInv`) and what each place of the code has stored (`CallInv`).
    `PiecesInv` says of the walk that its pieces are frames of the window in increasing order,
    all before the frames still to come. The search's invariant is about the ring as loaded;
    `LoadedLive`, that what was loaded is the front part of what is live now, carries it over to
    the ring of now, so that a write during the search does no harm.
    From them `RequestSearchSafety` and `WindowSafety`,
    whatever goes wrong (for every `Mishaps`).
  - *What a fragment has* is proved for `Mishaps = {}` and windows whose search key does not
    wrap (`KeyWraps`, which is part of the properties); section 5, items 2, 17, 18 and 21,
    say what happens otherwise. `ErrorsInv`: a gap that a search may meet has been registered, so that
    if `has_error()` said no, elements follow each other without a gap from the one
    asked for (`FixedSince`). The proof has to follow a gap from `Preprocess`, where it
    is only coming (`IncomingIs`), through both halves of `add_error()` to the write.
    `ClassifiedInv`: what the classification by oldest and newest element said still holds in
    terms of what is live now; it is why the consumer's writes after it do no harm. `WalkInv`: the walk has
    selected every frame of the window between the element found and the one it is at.
    From them `CompleteSafety` (`NoErrorBitsMeansComplete`), `PartialSafety`
    (`PartialHasWhatWasThere`) and `RequestLowerBound`. That the search begins near enough to its key
    for the fixed-rate lookup (`FixedNearKey`, an assumption on the initial ring in the first
    specification) is here a consequence (`NearSearchKey`).

  That the search and the request end is checked by TLC.
- **RequestHandler_proofs**, for any number of threads and requests. `IInv` is `TypeOK`,
  `LockInv` (the counter is the number of those inside; the flag is set and the counter
  zero while elements are removed), `QuietInv` (what is off once `stop` has joined everything),
  `TaskInv` (who has a task), `PopInv` (bounds on `to_pop`), `RecorderInv` and
  `PiecesStayBuffered`. From it: `HandlerTypeCorrect`, `Exclusion`, `PiecesSafety`,
  `StopSafety`. `FrontSafety` adds `FrontInv` and needs `PopNum < PopDen`; section 5 says
  what happens without it.

  The second half of the module adds to that `IInv`, for any ring and any windows:
  - `RecordingSafety` and `RecordingContiguous`. The recorder walks outside of the lock with
    a ring index as its iterator. `RingInv` (fewer elements than slots, so that a slot has one
    element at most), `WriteInv` (what was just written is in the iterator's slot and not before
    the cursor) and `CursorInv` (between two elements the cursor is the successor of the last
    one written, and the iterator is at the end or in the slot of the cursor's element, which is
    in the buffer or comes next) together exclude that a slot popped and refilled behind the
    recorder's back is taken for the old element.
  - `RequestSafety`: `PlaceInv` adds that an idle thread has no task; each move of a
    request (into the pool, to a thread, to the waiting list and back, answered) takes one
    from one count and gives one to another.
  - `RetrySafety` assumes that windows do not end before they begin. `DueInv`: data past the window of
    a request reissued for them have been written; that a search under way is not of
    a request which is only now reissued needs `PlaceInv`.
- **FakeCardReader_proofs**, for any number of links and commands, any setups and any
  clock.
  - `LimiterNeverFaster`, of the limiter by itself, from the invariant that no deadline is
    before the sum of the periods in it (`DeadlineInv`).
  - `FilesSafety` and `RefusalSafety`, of the card. `CardInv` says for each place of a
    command which links it has gone through (`CommandInv`), and that a link which is configured has its
    file, that producers run between `do_start` and the end of `do_stop` only, and that a link
    still configured outside of that has seen a command fail (`LinksInv`).
  - `EmulatorNeverFaster` and `DataPaceSafety`, of the detailed link. `PaceInv` relates the time the
    producer has still to wait to deadline and clock. All other steps of the card leave
    the limiter alone (`OthersStep`).
  - `FramesSafety`: `FramesInv` says of dropout index, error counters and hits at each place what
    the setup's tables make of the frames produced so far; what the generator of error bits holds
    (`GeneratorOK`) is an induction over its table.
  - `PayloadsSafety`: `PlayInv` says where in the file the next element is. It assumes that no
    data file is smaller than an element (section 5, item 15).
- **Storage_proofs**, memory and files: BufferMemory, ZeroCopyRecording and FileRecording.
  - *BufferMemory*, for any configurations and number of calls. `MemoryInv` adds to the
    types how many blocks are allocated (`LiveInv`), which block there is at each place
    of `conf()` (`PlaceInv`) and that the NUMA flag is set only in builds with libnuma (`FlagInv`).
    `MemoryOwned` assumes that every configuration has an allocator (section 5, item 11).
    `FreedRight`, of builds with libnuma and of supported configurations (item 10), is
    `FreedByItsAllocator`, which no run lists.
  - *ZeroCopyRecording*, for any sizes of frames, chunks, buffer and alignment, any number of
    chunks in a loop and any limit of a cleanup. What the recorder has is two addresses; what makes
    its file right is the place in the stream that they stand for. `PointsTo(c, r, e)` says
    that the pointer is r units into frame c, which is before frame e and not before the cursor,
    and that the file ends exactly there; `EndsBefore` says the same of the pointer to the
    end; `Held` says that nothing from the cursor on is popped or about to be. `RecorderInv` puts these
    together for each place of `record()`, and `FileInv` is the file itself. From them
    `BufferedDataWritten` and `FileContiguous`. The arithmetic is in
    lemmas: which frame an address some units on belongs to (`AddressAhead`), how far the
    frames between two pointers reach when the end of the buffer is between them
    (`FrameAhead`), and what a chunk adds (`ChunkAhead`). `DirectWritesSafety` adds
    `AlignedInv`.
  - *FileRecording*, for any sizes of elements, buffer and alignment, with and without
    O_DIRECT. `WrittenInv` is about the file and, after it, the buffer of the writer (`Whole`):
    they hold all accepted elements whole and in order, and nothing more unless a write has
    failed. A write that succeeds moves the cut between the two and adds an element; one that
    fails may leave a part of it. `WorkerInv`, that an idle worker has flushed, gives what is in the file after a
    stop. From them `FileRecordingSafety`.
- **PostProcessing_proofs**, for any timestamps, payloads, runs and queue sizes. `Drained`: `DrainInv`
  says what of each post-processor is over at each place of `stop()`. `ImmediateSafety`: the
  elements handed on are those accepted but for the one in the consumer's hand
  (`ImmediateInv`); it assumes that without a delay the buffer is a ring. `DelayedSafety` and
  `PostsElements` assume that with a delay the buffer is a skip list (section 5, item 6)
  and that the delay is shorter than `MaxTsDiff`, the age at which a cleanup removes an element. The
  code has ten seconds for the latter (`models/DefaultSkipListRequestHandler.hpp:57`) and compares it to
  no delay; with a delay as long as that, an element that the walk is at may be removed and,
  coming late, handed on again, or the walk misses the element it was to end at. That it does
  not is the point of `EndInv`: what a pass leaves for the next one is no older than the delay,
  so no cleanup takes it. `PassInv` says at each place of the
  delayed pass that all elements up to a timestamp are handed on and that none after it is.
- **TimeSync_proofs**, for any number of runs, times, requests and TimeSyncs.
  `TimeSyncSafety` assumes `OrderlySource`. Its invariant `FreshInv` adds to
  `TimeSyncsAreFresh` what is off at each place of `stop()` (`SwitchedOff`), that the source
  calls in the run only, and that neither the clock nor what the thread has read of it is
  older than the run (`ClockOfThisRun`): the property alone says nothing of a time that has
  not been sent yet. `CountSafety` needs that a call of the request callback is over before
  the callback is removed (`CallsInRun`).
- **SkipListBuffer_proofs**, for any timestamps and distances: `CleanupExact` and
  `HeadNeverNull`. The invariant `CleanupInv` says that the tail with which a cleanup began
  stays in the list (`TailStays`), as it is not too old compared with itself; so `first()` is
  never null, no unsigned difference wraps, and what is before the head came late
  (`HeadIsFirst`).

The library's induction theorems cannot be used by these provers. What the recursive functions
(`SelectedFrames`, the error generator's table) return is proved by the lemma `UpTo`
instead: a set that holds 0 and the successor of each of its elements below n holds all
numbers up to n, which follows from the least element of the complement (`WFMin` of
WellFoundedInduction).

Only model-checked: the liveness properties, as fairness is beyond the prover. Every invariant
of a passing run is proved.

## 5. Where code and words disagree

Each of these is a counterexample that TLC finds with the configuration named. The first
is the run `recording_overrun`; the others can be run by hand
(`tlc -config <cfg> <module>`).

1. *A recording that begins during a cleanup stays empty* (`RequestHandler_Overrun.cfg`,
   `MCRequestHandler`). The recorder sets its cursor to the front without the lock
   (`models/detail/DefaultRequestHandlerModel.hxx:168`) while a cleanup pops that element.
   Its lookup then returns `end()`, and no cleanup pops any more.
2. *Data in the first element are not found* (`FragmentPieces_NotFound.cfg`,
   `FragmentPieces`). The key is one element before the window (`:466`); if that is before
   the front, `lower_bound()` returns `end()` and the answer is `kNotFound`. With a ring,
   `kPartiallyOld` cannot occur.
3. *Requests wait beyond a run's end* (`RequestHandler_Waiting.cfg`). The comment at `:399`
   says that at run stop one waits until all are served or timed out; the loop ends at once.
4. *A pop percentage of 1.0* (`RequestHandler_PopAll.cfg`), which `conf()` accepts (`:48`),
   makes `cleanup()` dereference a null `front()`.
5. *Post-processing of flushed elements* (`PostProcessing_Flushed.cfg`, `MCPostProcessing`).
   `stop()` flushes the buffer before the post-processors have finished
   (`models/detail/DataHandlingModel.hxx:166`).
6. *Delayed post-processing from a ring* (`PostProcessing_RingDelayed.cfg`). Once a cleanup
   has passed the last processed element the walk begins at `end()` and hands that on (`:287`).
7. *A full ring* (`PostProcessing_Overwritten.cfg`) refuses the payload; the messages
   say that data "was overwritten" (`:323`), and `back()` is post-processed again.
8. *Requests counted too early are lost* (`TimeSync_Counting.cfg`): the TimeSync thread
   resets the counters when it begins (`:339`).
9. *`read()` of the skip list* (`SkipListBuffer_Read.cfg`) copies the front and leaves it
   (`models/detail/SkipListLatencyBufferModel.hxx:54`), where the concept says "Move".
10. *Wrong free function* (`BufferMemory_WrongFree.cfg`, `BufferMemory`): allocation
    prefers libnuma, freeing prefers the intrinsic allocator
    (`models/detail/IterableQueueModel.hxx:25`). `FreedByItsAllocator` also fails for
    `Configurations <- Supported` in a build without libnuma: a `conf()` that throws there
    has freed the old block and keeps the pointer, which the next `scrap()` frees again.
11. *A dangling buffer* (`BufferMemory_Dangling.cfg`): for a combination without allocator
    the pointer to the freed block stays and `conf()` takes it for success (`:70`).
12. *A zero-copy recording that never ends* (`ZeroCopyRecording_Skipping.cfg`) when no
    buffered frame is aligned
    (`models/detail/ZeroCopyRecordingRequestHandlerModel.hxx:136`).
13. *Bytes counted that were not written* (`ZeroCopyRecording_Counting.cfg`): the descriptor
    is closed after the first recording, and `!::write()` takes -1 for success (`:155`).
14. *O_DIRECT after a flush* (`FileRecording_Direct.cfg`): the place in the file is not
    aligned any more and the next full buffer fails (`utils/BufferedFileWriter.hpp:192`).

15. *A data file smaller than one element* (`FakeCardReader_SmallFile.cfg`,
    `MCFakeCardReader`): the producer reports it, sleeps and goes on
    (`models/detail/SourceEmulatorModel.hxx:142`), and copies beyond the file.
16. *The rate of hits after a second `conf()`* (`FakeCardReader_HitRate.cfg`): the interval
    is divided by the configured rate each time (`:88`), where the comment on it names one
    interval (`models/SourceEmulatorModel.hpp:165`).
17. *A second gap while a request asks* (`FragmentPieces_Race.cfg`, `FragmentPieces`):
    `has_error()` sees the registry between the two halves of `add_error()`
    (`FrameErrorRegistry.hpp:48`), the fixed-rate lookup runs on a buffer with a gap, and a
    fragment without error bits lacks frames.
18. *A full ring makes a gap that nobody registers*, with the same result
    (`FragmentPieces_Race.cfg` with `Mishaps = {"full"}`, `MaxTimestamp = 24`, `MaxFront = 0`
    and `MaxWindow = 20`).
19. *A source that is stopped after the module* (`TimeSync_Source.cfg`, `TimeSync`):
    `consume_payload()` does not look at the run marker
    (`models/detail/DataHandlingModel.hxx:306`), and stores a time after `stop()` has reset
    it, which the next run announces as its own.
20. *`conf()` after `scrap()`* (`TimeSync_Scrapped.cfg`): the comment says that `conf()`
    "Configures the readoutmodel and its internals" (`models/DataHandlingModel.hpp:102`), but
    buffer, processor and handler are configured by `init()` only; after a `scrap()` the
    processor has no tasks.
21. *A window that begins before one element's ticks* (`FragmentPieces_Early.cfg`,
    `FragmentPieces`). Its search key wraps around (`models/detail/DefaultRequestHandlerModel.hxx:466`)
    and is after all elements, so that the binary search returns the write index it has loaded
    (`models/detail/BinarySearchQueueModel.hxx:47`). If a payload is published before `good()`
    (`:472`), that index is one of an element: the walk begins there, behind the window, and the
    answer is `kFound` without error bits or frames (or `kPartial` without the frames that were
    there). Without such a payload it is `kNotFound`, as in item 2.

## 6. Modelling decisions worth knowing

- The ring's iterator at an element that has been popped becomes `end()` at the next
  `++`, as `good()` is then false (PostProcessing, RequestHandler). That of the skip list goes
  on to the next node that has not been removed, as folly's `next()` skips those marked.
- `lower_bound()` loads both indices in one step (`BeginSearch`): only the producer moves the
  write index, and nobody the read index during a request. All steps after it are interleaved
  with writes.
- A waiting request's timeout is the set `expired`: which requests have waited too long.
- `m_requests_running` is a number, and a notification after the unlock in
  `issue_request()` is a step of its own (`Notify`).
- In RequestHandler elements are numbered without gaps; gaps are FragmentPieces' matter.
- In TimeSync a command comes in the states in which run control gives it: `start` to a
  configured module, `scrap` to a stopped one. The code does not test this.
- In FakeCardReader `MaxTime` bounds a run; once it has ended, time goes on to the deadline
  of a producer that is still waiting, so that `StopReturns` does not rest on the bound.
- In PostProcessing `front()` and the read of the timestamp are one step. An element is
  removed seconds after it is the newest of the old, so that nothing interesting is
  between.

## 7. Not modelled, and what could come next

Not modelled:

- `DataSubscriberModel` passes each message on to a sender that does not block and counts
  it; its callback is registered and removed as the one for requests is (TimeSync).
- `EmptyFragmentRequestHandlerModel` answers each request at once, without state.
- `BufferCopy`, the issues, logging, types, monitoring schema, scripts and test utilities:
  a pure copy, declarations, tools.
- Compression in `BufferedFileWriter`: what the libraries buffer is not in this code.
- `conf()` of the request handler and of the zero-copy handler beyond the parameters it
  sets; the fake trigger of DataHandlingModel, which `init()` switches off; monitoring
  counters other than the sum of requests.
- The random numbers behind the emulator's tables: any table may be a setup.

What could come next: the composition of FragmentPieces with RequestHandler's threads,
which now meet in the exclusion that `PiecesStayBuffered` states.
