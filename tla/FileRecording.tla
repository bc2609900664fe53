---------------------------- MODULE FileRecording ----------------------------
(***************************************************************************)
(* RecorderModel, which writes all it receives to a file, and the          *)
(* BufferedFileWriter it uses, without compression.                        *)
(*                                                                         *)
(* The worker thread of the recorder runs beside the commands conf, start, *)
(* stop and scrap, which come in the order of the run control's states.    *)
(* Elements are numbered as they are sent.  Sizes are counted in small     *)
(* units instead of bytes: element e is the units of the stream from       *)
(* (e - 1) * ElementSize on, and the file is a sequence of units.          *)
(***************************************************************************)
EXTENDS Integers, Sequences

CONSTANTS
  ElementSize,      \* sizeof(element)
  StreamBufferSize, \* m_stream_buffer_size
  Alignment,        \* of sizes and places in the file, which O_DIRECT asks for
  UseODirect,       \* m_use_o_direct
  QueueSize,        \* bound: elements waiting in the input queue
  MaxElements,      \* bound on elements sent
  MaxRuns           \* bound on starts

ASSUME FileAssumption ==
  /\ ElementSize \in Nat \ {0}
  /\ StreamBufferSize \in Nat \ {0}
  /\ Alignment \in Nat \ {0}
  /\ UseODirect \in BOOLEAN
  /\ QueueSize \in Nat \ {0}
  /\ MaxElements \in Nat /\ MaxRuns \in Nat

VARIABLES
  cmd,            \* the run control's state
  m_run_marker,
  wpc,            \* the worker's place in do_work()
  element,        \* what it has received
  input,          \* m_data_receiver's queue
  sent,           \* elements sent so far
  runs,           \* starts so far
  m_is_open,
  stream_buffer,  \* units in m_output_stream's buffer
  bad,            \* m_output_stream.bad()
  output_file,    \* units in the file
  accepted        \* history: elements since conf for which write() gave true

commandVars == <<cmd, m_run_marker, runs>>
workerVars  == <<wpc, element>>
inputVars   == <<input, sent>>
writerVars  == <<m_is_open, stream_buffer, bad, output_file>>
recorderVars == <<commandVars, workerVars, inputVars, writerVars, accepted>>

Units(e) == [i \in 1 .. ElementSize |-> (e - 1) * ElementSize + i]

RecorderInit ==
  /\ cmd = "initial" /\ m_run_marker = FALSE /\ runs = 0
  /\ wpc = "idle" /\ element = 0
  /\ input = << >> /\ sent = 0
  /\ m_is_open = FALSE /\ stream_buffer = << >> /\ bad = FALSE /\ output_file = << >>
  /\ accepted = << >>

-----------------------------------------------------------------------------
(* BufferedFileWriter. *)

(* A write by the system.  With O_DIRECT it fails unless its size and its  *)
(* place in the file are aligned.                                          *)
DirectWriteSucceeds(size, at) ==
  UseODirect => size % Alignment = 0 /\ at % Alignment = 0

(* A full buffer is written when another unit comes.  What is put in the   *)
(* stream fills the buffer, and all that is full goes to the file.         *)
Spills(units) == IF units = << >> THEN 0 ELSE (Len(units) - 1) \div StreamBufferSize

(* write(), and the recorder's reaction: it goes on, or breaks off.        *)
Write(e) ==
  LET units   == stream_buffer \o Units(e)
      spilled == Spills(units) * StreamBufferSize
      ok      == spilled > 0 => DirectWriteSucceeds(StreamBufferSize, Len(output_file))
  IN  IF m_is_open /\ ~bad /\ ok
      THEN /\ output_file' = output_file \o SubSeq(units, 1, spilled)
           /\ stream_buffer' = SubSeq(units, spilled + 1, Len(units))
           /\ accepted' = Append(accepted, e)
           /\ wpc' = "loop"
           /\ UNCHANGED <<bad, m_is_open>>
      ELSE /\ bad' = (bad \/ m_is_open)
           /\ stream_buffer' = IF m_is_open /\ ~bad THEN SubSeq(units, 1, StreamBufferSize)
                               ELSE stream_buffer
           /\ wpc' = "flush"
           /\ UNCHANGED <<output_file, m_is_open, accepted>>

(* flush() and close() turn O_DIRECT off for the rest of the buffer.  A    *)
(* stream that is bad stays as it is.                                      *)
Sync ==
  IF bad THEN UNCHANGED <<output_file, stream_buffer>>
  ELSE output_file' = output_file \o stream_buffer /\ stream_buffer' = << >>

-----------------------------------------------------------------------------
(* The commands. *)

(* do_conf(): a file of an earlier configuration is removed. *)
Conf ==
  /\ cmd = "initial"
  /\ runs < MaxRuns
  /\ cmd' = "configured"
  /\ output_file' = << >>
  /\ stream_buffer' = << >>
  /\ bad' = FALSE
  /\ m_is_open' = TRUE
  /\ accepted' = << >>
  /\ UNCHANGED <<m_run_marker, runs, workerVars, inputVars>>

Start ==
  /\ cmd = "configured"
  /\ runs < MaxRuns
  /\ wpc = "idle"
  /\ cmd' = "running"
  /\ m_run_marker' = TRUE
  /\ wpc' = "loop"
  /\ runs' = runs + 1
  /\ UNCHANGED <<element, inputVars, writerVars, accepted>>

StopBegin ==
  /\ cmd = "running"
  /\ cmd' = "stopping"
  /\ m_run_marker' = FALSE
  /\ UNCHANGED <<runs, workerVars, inputVars, writerVars, accepted>>

(* (fault) stop does not wait for the thread. *)
WorkerReadyAlways == TRUE

(* get_readiness() *)
WorkerReady == wpc = "idle"

StopEnd ==
  /\ cmd = "stopping"
  /\ WorkerReady
  /\ cmd' = "configured"
  /\ UNCHANGED <<m_run_marker, runs, workerVars, inputVars, writerVars, accepted>>

(* do_scrap(): close(). *)
Scrap ==
  /\ cmd = "configured"
  /\ cmd' = "initial"
  /\ Sync
  /\ m_is_open' = FALSE
  /\ UNCHANGED <<m_run_marker, runs, workerVars, inputVars, bad, accepted>>

-----------------------------------------------------------------------------
(* The sender at the other end of the queue (external). *)
Send ==
  /\ sent < MaxElements
  /\ Len(input) < QueueSize
  /\ sent' = sent + 1
  /\ input' = Append(input, sent + 1)
  /\ UNCHANGED <<commandVars, workerVars, writerVars, accepted>>

(* The worker: do_work(). *)
Loop ==
  /\ wpc = "loop"
  /\ wpc' = IF m_run_marker THEN "receive" ELSE "flush"
  /\ UNCHANGED <<commandVars, element, inputVars, writerVars, accepted>>

Receive ==
  /\ wpc = "receive"
  /\ input # << >>
  /\ element' = Head(input)
  /\ input' = Tail(input)
  /\ wpc' = "write"
  /\ UNCHANGED <<commandVars, sent, writerVars, accepted>>

ReceiveTimeout ==
  /\ wpc = "receive"
  /\ input = << >>
  /\ wpc' = "loop"
  /\ UNCHANGED <<commandVars, element, inputVars, writerVars, accepted>>

WriteElement ==
  /\ wpc = "write"
  /\ Write(element)
  /\ UNCHANGED <<commandVars, element, inputVars>>

Flush ==
  /\ wpc = "flush"
  /\ Sync
  /\ wpc' = "idle"
  /\ UNCHANGED <<commandVars, element, inputVars, m_is_open, bad, accepted>>

-----------------------------------------------------------------------------
Worker == Loop \/ Receive \/ ReceiveTimeout \/ WriteElement \/ Flush

RecorderNext == Conf \/ Start \/ StopBegin \/ StopEnd \/ Scrap \/ Send \/ Worker

RecorderSpec == RecorderInit /\ [][RecorderNext]_recorderVars

-----------------------------------------------------------------------------
(* BufferedFileReader::read() until it gives false: whole elements, and    *)
(* nothing of a rest that is shorter.                                      *)
ReadAll(units) ==
  [i \in 1 .. Len(units) \div ElementSize |->
     SubSeq(units, (i - 1) * ElementSize + 1, i * ElementSize)]

(* No element is in the file twice, out of order or torn: the file and,    *)
(* after it, what is still in the writer's buffer are whole elements, the  *)
(* accepted ones in the order in which they were received.  A failed write *)
(* may leave the beginning of one more.  When a stop has returned, all     *)
(* that the recorder accepted can be read back from the file: nothing of   *)
(* it is left in the buffer of the writer.  With O_DIRECT this takes the   *)
(* flush that turns it off for the last block.                             *)
FileHoldsRecording ==
  LET elements == ReadAll(output_file \o stream_buffer)
  IN  /\ \A i \in 1 .. Len(elements) :
            i <= Len(accepted) => elements[i] = Units(accepted[i])
      /\ cmd \in {"configured", "initial"} /\ ~bad =>
           /\ Len(ReadAll(output_file)) = Len(accepted)
           /\ Len(output_file) = Len(accepted) * ElementSize

(* "If the buffer is full, all data from it will be written to file": with *)
(* a buffer size that O_DIRECT can do with, no write fails.                *)
AlignedBufferIsWritten == StreamBufferSize % Alignment = 0 => ~bad
=============================================================================
