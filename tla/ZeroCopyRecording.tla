-------------------------- MODULE ZeroCopyRecording --------------------------
(***************************************************************************)
(* ZeroCopyRecordingRequestHandlerModel: record() writes the memory of the *)
(* latency buffer to a file, in chunks that know nothing of frames.        *)
(*                                                                         *)
(* Memory is counted in small units instead of bytes.  A frame takes       *)
(* FrameSize units, so slot s begins at address s * FrameSize, counted     *)
(* from the aligned start of the buffer.  Elements have the timestamps     *)
(* 1, 2, ... and go round the slots; those from oldest up to, and without, *)
(* newest are buffered.  The stream of all units ever written to the       *)
(* buffer is numbered from 0, and the file is a sequence of such numbers.  *)
(*                                                                         *)
(* The cleaner is the one of RequestHandler without the readers it has to  *)
(* wait for: the recorder is not counted among them, and holds off the     *)
(* cleanup with m_next_timestamp_to_record alone.                          *)
(***************************************************************************)
EXTENDS Integers, Sequences

CONSTANTS
  Size,          \* slots of the latency buffer
  FrameSize,     \* ReadoutType::fixed_payload_size
  AlignmentSize, \* get_alignment_size()
  ChunkSize,     \* m_stream_buffer_size
  ChunksPerLoop, \* chunks between two looks at the clock (100)
  PopLimit,      \* m_pop_limit_size
  MaxTimestamp,  \* bound: the last timestamp that is written
  MaxRecordings  \* bound on record commands

ASSUME ZeroCopyAssumption ==
  /\ Size \in Nat /\ Size >= 2
  /\ FrameSize \in Nat \ {0}
  /\ AlignmentSize \in Nat \ {0}
  /\ ChunkSize \in Nat \ {0}
  /\ ChunksPerLoop \in Nat \ {0}
  /\ PopLimit \in Nat
  /\ MaxTimestamp \in Nat

VARIABLES
  oldest, newest,               \* the latency buffer
  m_cleanup_requested,
  cpc, to_pop,                  \* the cleaner
  m_recording,
  rpc,                          \* the recorder's place
  begin,                        \* its iterator: a slot, or End
  current_write_pointer,        \* an address, or nullptr
  current_end_pointer,
  considered_chunks_in_loop,
  m_next_timestamp_to_record,
  fd_open,                      \* m_fd is open
  file,                         \* what is in the file
  bytes_written,
  begun_at,                     \* history: what was in the file when the recording began
  recordings                    \* record commands so far

bufferVars  == <<oldest, newest>>
cleanerVars == <<m_cleanup_requested, cpc, to_pop>>
pointerVars == <<begin, current_write_pointer, current_end_pointer,
                 considered_chunks_in_loop>>
fileVars    == <<fd_open, file, bytes_written, begun_at>>
recordVars  == <<m_recording, rpc, m_next_timestamp_to_record, recordings>>
vars == <<bufferVars, cleanerVars, pointerVars, fileVars, recordVars>>

BufferSize == Size * FrameSize
Buffered == oldest .. newest - 1
Slot(ts) == (ts - 1) % Size

End == -1
nullptr == -1
NoCursor == MaxTimestamp + 2     \* numeric_limits<uint64_t>::max()

(* The timestamp of what is in a slot: of the last element written there. *)
Content(slot) == CHOOSE ts \in newest - Size .. newest - 1 : Slot(ts) = slot

(* The place in the stream of the unit at an address. *)
Unit(address) == (Content(address \div FrameSize) - 1) * FrameSize + (address % FrameSize)

(* Iterator::operator++ *)
Good(slot) == \E ts \in Buffered : Slot(ts) = slot
Successor(slot) ==
  LET next == (slot + 1) % Size
  IN  IF slot # End /\ Good(slot) /\ Good(next) THEN next ELSE End

(* After conf() and start(): the file has been opened. *)
Init ==
  /\ oldest = 1 /\ newest = 1
  /\ m_cleanup_requested = FALSE /\ cpc = "sleep" /\ to_pop = 0
  /\ m_recording = FALSE /\ rpc = "idle" /\ recordings = 0
  /\ begin = End
  /\ current_write_pointer = nullptr /\ current_end_pointer = nullptr
  /\ considered_chunks_in_loop = 0
  /\ m_next_timestamp_to_record = NoCursor
  /\ fd_open = TRUE /\ file = << >> /\ bytes_written = 0 /\ begun_at = 0

-----------------------------------------------------------------------------
Produce ==
  /\ newest - oldest < Size - 1
  /\ newest <= MaxTimestamp
  /\ newest' = newest + 1
  /\ UNCHANGED <<oldest, cleanerVars, pointerVars, fileVars, recordVars>>

(* cleanup_check() and cleanup().  The sleep between two rounds and the    *)
(* share to be popped are RequestHandler's; any number will do here.       *)
CleanupRequest ==
  /\ cpc = "sleep"
  /\ newest - oldest > PopLimit
  /\ m_cleanup_requested' = TRUE
  /\ to_pop' \in 1 .. newest - oldest - 1
  /\ cpc' = "pop"
  /\ UNCHANGED <<bufferVars, pointerVars, fileVars, recordVars>>

CleanupTest ==
  /\ cpc = "pop"
  /\ cpc' = IF to_pop > 0 /\ oldest < m_next_timestamp_to_record
            THEN "popping" ELSE "finish"
  /\ UNCHANGED <<bufferVars, m_cleanup_requested, to_pop, pointerVars, fileVars,
                 recordVars>>

CleanupPop ==
  /\ cpc = "popping"
  /\ oldest' = oldest + 1
  /\ to_pop' = to_pop - 1
  /\ cpc' = "pop"
  /\ UNCHANGED <<newest, m_cleanup_requested, pointerVars, fileVars, recordVars>>

CleanupFinish ==
  /\ cpc = "finish"
  /\ m_cleanup_requested' = FALSE
  /\ cpc' = "sleep"
  /\ UNCHANGED <<bufferVars, to_pop, pointerVars, fileVars, recordVars>>

-----------------------------------------------------------------------------
recorderFrame == <<bufferVars, cleanerVars>>

(* The command, with a duration: given to the thread if it is ready. *)
Record ==
  /\ recordings < MaxRecordings
  /\ ~m_recording
  /\ rpc = "idle"
  /\ rpc' = "start"
  /\ recordings' = recordings + 1
  /\ UNCHANGED <<recorderFrame, pointerVars, fileVars, m_recording,
                 m_next_timestamp_to_record>>

RecordBegin ==
  /\ rpc = "start"
  /\ m_recording' = TRUE
  /\ m_next_timestamp_to_record' = 0
  /\ current_write_pointer' = nullptr
  /\ bytes_written' = 0
  /\ begun_at' = Len(file)
  /\ rpc' = "loop"
  /\ UNCHANGED <<recorderFrame, begin, current_end_pointer,
                 considered_chunks_in_loop, fd_open, file, recordings>>

(* The duration has not elapsed.  While a cleanup is requested the loop    *)
(* goes round idly, except before the first frame has been found.          *)
RecordLoop ==
  /\ rpc = "loop"
  /\ ~m_cleanup_requested \/ m_next_timestamp_to_record = 0
  /\ rpc' = "wait"
  /\ UNCHANGED <<recorderFrame, pointerVars, fileVars, m_recording,
                 m_next_timestamp_to_record, recordings>>

(* (fault) The recorder does not wait. *)
MayPassAlways == TRUE

(* The condition of the recorder's wait. *)
MayPass == ~m_cleanup_requested

RecordWait ==
  /\ rpc = "wait"
  /\ MayPass
  /\ rpc' = IF m_next_timestamp_to_record = 0 THEN "first" ELSE "back"
  /\ UNCHANGED <<recorderFrame, pointerVars, fileVars, m_recording,
                 m_next_timestamp_to_record, recordings>>

(* Where recording begins: at the oldest element, or later if there is none. *)
FirstFrame ==
  /\ rpc = "first"
  /\ IF Buffered = {}
     THEN rpc' = "loop" /\ UNCHANGED begin
     ELSE rpc' = "claim" /\ begin' = Slot(oldest)
  /\ UNCHANGED <<recorderFrame, current_write_pointer, current_end_pointer,
                 considered_chunks_in_loop, fileVars, m_recording,
                 m_next_timestamp_to_record, recordings>>

ClaimFirstFrame ==
  /\ rpc = "claim"
  /\ m_next_timestamp_to_record' = Content(begin)
  /\ rpc' = "skip"
  /\ UNCHANGED <<recorderFrame, pointerVars, fileVars, m_recording, recordings>>

(* The address of *begin.  end() has the greatest 32-bit index, which is   *)
(* one before a multiple of any alignment.                                 *)
Address(slot) == IF slot = End THEN -FrameSize ELSE slot * FrameSize

Aligned(address) == address % AlignmentSize = 0

(* (fault) The first frame is taken, aligned or not. *)
SkipFrameNever ==
  /\ rpc = "skip"
  /\ current_write_pointer' = Address(begin)
  /\ rpc' = "back"
  /\ UNCHANGED <<recorderFrame, begin, current_end_pointer, considered_chunks_in_loop,
                 fileVars, m_recording, m_next_timestamp_to_record, recordings>>

(* Frames are skipped up to one that is aligned.  When the last one has    *)
(* been passed, the continue statement goes on with this same inner loop.  *)
SkipFrame ==
  /\ rpc = "skip"
  /\ IF Aligned(Address(begin))
     THEN /\ current_write_pointer' = Address(begin)
          /\ rpc' = "back"
          /\ UNCHANGED <<begin, m_next_timestamp_to_record>>
     ELSE /\ begin' = Successor(begin)
          /\ m_next_timestamp_to_record' =
               IF begin' = End THEN 0 ELSE m_next_timestamp_to_record
          /\ UNCHANGED <<current_write_pointer, rpc>>
  /\ UNCHANGED <<recorderFrame, current_end_pointer, considered_chunks_in_loop,
                 fileVars, m_recording, recordings>>

(* back(): the slot of the newest element. *)
ReadBack ==
  /\ rpc = "back"
  /\ current_end_pointer' = Slot(newest - 1) * FrameSize
  /\ considered_chunks_in_loop' = 0
  /\ rpc' = "chunks"
  /\ UNCHANGED <<recorderFrame, begin, current_write_pointer, fileVars, m_recording,
                 m_next_timestamp_to_record, recordings>>

(* A whole chunk lies before the newest element. *)
ChunkFitsBefore == current_write_pointer + ChunkSize < current_end_pointer

(* The producer has gone round: all up to the buffer's end is data. *)
ProducerWrapped == ~ChunkFitsBefore /\ current_end_pointer < current_write_pointer

ChunkFitsBuffer == current_write_pointer + ChunkSize < BufferSize

(* How many units the next iteration writes. *)
WriteSize ==
  IF ChunkFitsBefore \/ (ProducerWrapped /\ ChunkFitsBuffer) THEN ChunkSize
  ELSE IF ProducerWrapped THEN BufferSize - current_write_pointer
  ELSE 0

(* What the last write, of the rest of a frame, has to write. *)
RestSize ==
  IF current_write_pointer # nullptr /\ current_write_pointer % FrameSize # 0
  THEN FrameSize - (current_write_pointer % FrameSize) ELSE 0

(* ::write() of some units.  It fails with -1 on a closed descriptor, but  *)
(* the test !::write() takes only 0 for a failure.                         *)
WriteUnits(size) ==
  /\ file' = IF fd_open
             THEN file \o [i \in 1 .. size |-> Unit(current_write_pointer + i - 1)]
             ELSE file
  /\ bytes_written' = bytes_written + size
  /\ UNCHANGED <<fd_open, begun_at>>

(* The pointer moves on, and round at the end of the buffer. *)
AfterWrite(size) ==
  IF current_write_pointer + size >= BufferSize THEN 0
  ELSE current_write_pointer + size

WriteChunk ==
  /\ rpc = "chunks"
  /\ considered_chunks_in_loop < ChunksPerLoop
  /\ WriteUnits(WriteSize)
  /\ current_write_pointer' = AfterWrite(WriteSize)
  /\ considered_chunks_in_loop' = considered_chunks_in_loop + 1
  /\ rpc' = "cursor"
  /\ UNCHANGED <<recorderFrame, begin, current_end_pointer, m_recording,
                 m_next_timestamp_to_record, recordings>>

(* The timestamp of the frame the pointer is in. *)
StoreCursor ==
  /\ rpc = "cursor"
  /\ m_next_timestamp_to_record' = Content(current_write_pointer \div FrameSize)
  /\ rpc' = "chunks"
  /\ UNCHANGED <<recorderFrame, pointerVars, fileVars, m_recording, recordings>>

ChunksDone ==
  /\ rpc = "chunks"
  /\ considered_chunks_in_loop = ChunksPerLoop
  /\ rpc' = "loop"
  /\ UNCHANGED <<recorderFrame, pointerVars, fileVars, m_recording,
                 m_next_timestamp_to_record, recordings>>

(* (fault) The last frame is not completed. *)
CompleteFrameNever ==
  /\ rpc = "loop"
  /\ rpc' = "finish"
  /\ UNCHANGED <<recorderFrame, pointerVars, fileVars, m_recording,
                 m_next_timestamp_to_record, recordings>>

(* The duration has elapsed: the frame that was begun is completed. *)
CompleteFrame ==
  /\ rpc = "loop"
  /\ WriteUnits(RestSize)
  /\ rpc' = "finish"
  /\ UNCHANGED <<recorderFrame, pointerVars, m_recording,
                 m_next_timestamp_to_record, recordings>>

RecordEnd ==
  /\ rpc = "finish"
  /\ fd_open' = FALSE
  /\ m_next_timestamp_to_record' = NoCursor
  /\ m_recording' = FALSE
  /\ rpc' = "idle"
  /\ UNCHANGED <<recorderFrame, pointerVars, file, bytes_written, begun_at, recordings>>

-----------------------------------------------------------------------------
CleanerStep == CleanupRequest \/ CleanupTest \/ CleanupPop \/ CleanupFinish

RecorderStep ==
  \/ RecordBegin
  \/ RecordLoop
  \/ RecordWait
  \/ FirstFrame
  \/ ClaimFirstFrame
  \/ SkipFrame
  \/ ReadBack
  \/ WriteChunk
  \/ StoreCursor
  \/ ChunksDone
  \/ CompleteFrame
  \/ RecordEnd

Next == Produce \/ CleanerStep \/ Record \/ RecorderStep

Spec == Init /\ [][Next]_vars

(* Both threads run.  The cleaner sleeps between two cleanups, long enough *)
(* for a thread that waits for the end of one to get through; and time     *)
(* passes, so that a recorder that keeps looking at the clock sees the     *)
(* duration elapse.                                                        *)
Fairness ==
  /\ WF_vars(CleanerStep)
  /\ WF_vars(RecorderStep)
  /\ SF_vars(RecordWait)
  /\ SF_vars(CompleteFrame)

FairSpec == Spec /\ Fairness

-----------------------------------------------------------------------------
(* The units that the recorder may be writing in this state.  As write()   *)
(* takes time, they have to stay where they are while it does.             *)
Writing ==
  LET size == IF rpc = "chunks" /\ considered_chunks_in_loop < ChunksPerLoop
              THEN WriteSize
              ELSE IF rpc = "loop" THEN RestSize ELSE 0
  IN  current_write_pointer .. current_write_pointer + size - 1

(* What record() writes straight from the memory of the latency buffer is  *)
(* data that is in the buffer, neither popped nor yet to be written, for   *)
(* as long as the write lasts: nothing but the cursor keeps the cleaner    *)
(* and, after it, the producer away from it.                               *)
WritesBufferedData ==
  \A a \in Writing : Content(a \div FrameSize) \in Buffered

(* The file has no gap, no repetition and no stale frame, through all the  *)
(* turns of the buffer: each unit is followed by the next of the stream.   *)
(* A recording begins with the first unit of a frame and ends with the     *)
(* last one, although its chunks are no multiples of frames.               *)
FileIsContiguous ==
  /\ \A i \in 1 .. Len(file) - 1 : file[i + 1] = file[i] + 1
  /\ rpc \in {"idle", "finish"} /\ file # << >> =>
       file[1] % FrameSize = 0 /\ Len(file) % FrameSize = 0

(* "This should never happen": with a buffer and a chunk size that are     *)
(* aligned, a chunk that is written with O_DIRECT has an aligned address   *)
(* and an aligned place in the file, after any number of turns.            *)
DirectWritesAligned ==
  /\ Aligned(BufferSize) /\ Aligned(ChunkSize)
  /\ rpc = "chunks" /\ fd_open
  => Aligned(current_write_pointer) /\ Aligned(Len(file))

(* A recording ends, some time after its duration has elapsed, and the     *)
(* cleanup can go on. "We reached the end of the buffer without finding an *)
(* aligned element.  Reset the next timestamp to record and try again".    *)
RecordingEnds == (rpc = "start") ~> (rpc = "idle")

(* "Stopped recording, wrote ... bytes.": the bytes that are counted as    *)
(* written are in the file.                                                *)
CountsWhatIsWritten == bytes_written = Len(file) - begun_at
=============================================================================
