--------------------------- MODULE SourceEmulator ---------------------------
(***************************************************************************)
(* SourceEmulatorModel: a link that plays a file's elements again and      *)
(* again, with timestamps of its own, at the pace of its RateLimiter.  It  *)
(* leaves some frames out (dropouts), sets error bits in some              *)
(* (ErrorBitGenerator) and hits in some (the ADC pattern).                 *)
(*                                                                         *)
(* Here are one emulator's conf(), scrap(), start(), stop() and its        *)
(* producer thread; FakeCardReader runs several of them.  What is random   *)
(* in the code is a choice among Setups.  A file is its size.              *)
(***************************************************************************)
EXTENDS RateLimiter, Sequences

CONSTANTS
  Setups,          \* configurations of the emulator, see SetupAssumption
  ElementSize,     \* sizeof(ReadoutType)
  num_frames,      \* frames in an element
  m_time_tick_diff,
  HitInterval,     \* the initial value of m_time_to_wait
  FirstTimestamps  \* where a run's timestamps may begin: the file's, or now

ASSUME SetupAssumption ==
  /\ ElementSize \in Nat \ {0} /\ num_frames \in Nat \ {0}
  /\ m_time_tick_diff \in Nat \ {0}
  /\ HitInterval \in Nat
  /\ FirstTimestamps # {} /\ FirstTimestamps \subseteq Nat
  /\ \A s \in Setups :
       /\ s.filesize \in Nat
       /\ s.dropouts \in Seq(BOOLEAN) /\ s.dropouts # << >>
       /\ s.error_occurrences \in Seq(Nat) /\ s.error_occurrences # << >>
       /\ s.no_error_occurrences \in Seq(Nat)
       /\ Len(s.no_error_occurrences) = Len(s.error_occurrences)
       /\ s.pattern \in BOOLEAN /\ s.TP_rate_per_channel \in Nat
       /\ s.frames_per_tick \in Nat

VARIABLES
  setup,           \* what the emulator is made from and configured with
  m_run_marker,    \* the card reader's
  m_is_configured,
  m_file_source,   \* the bytes read from the file, or NoFile
  generator,       \* m_error_bit_generator
  m_time_to_wait,
  previous_ts,     \* m_pattern_generator_previous_ts
  step,            \* the producer thread's place
  ts_0, timestamp, offset, dropout_index, i,  \* its variables
  m_packet_count_tot,
  payload          \* history: the last payload made in this run

limiterVars  == <<clock, m_period, m_now, m_deadline, pc, granted, earned>>
confVars     == <<setup, m_is_configured, m_file_source, m_time_to_wait>>
producerVars == <<generator, previous_ts, step, ts_0, timestamp, offset, dropout_index, i,
                  m_packet_count_tot, payload>>
emulatorVars == <<limiterVars, confVars, producerVars>>

NoFile    == -1
NoPayload == [element |-> -1, timestamp |-> 0, errors |-> FALSE]

(* The constructor of ErrorBitGenerator. *)
NewGenerator ==
  [errors_at |-> 0, no_errors_at |-> 0, current |-> 0, count |-> 0, set |-> TRUE]

(* m_pattern_generator_previous_ts has no initial value. *)
EmulatorInit ==
  /\ Init
  /\ setup \in Setups
  /\ m_run_marker = FALSE
  /\ m_is_configured = FALSE /\ m_file_source = NoFile
  /\ generator = NewGenerator
  /\ m_time_to_wait = HitInterval
  /\ previous_ts \in FirstTimestamps
  /\ step = "off"
  /\ ts_0 = 0 /\ timestamp = 0 /\ offset = 0 /\ dropout_index = 0 /\ i = 0
  /\ m_packet_count_tot = 0 /\ payload = NoPayload

-----------------------------------------------------------------------------
(* conf() of an emulator that is not configured; each time it divides the  *)
(* time to wait.                                                           *)
Conf ==
  /\ m_file_source' = setup.filesize
  /\ generator' = NewGenerator
  /\ m_time_to_wait' = IF setup.pattern /\ setup.TP_rate_per_channel # 0
                       THEN m_time_to_wait \div setup.TP_rate_per_channel
                       ELSE m_time_to_wait
  /\ m_is_configured' = TRUE
  /\ UNCHANGED <<setup, limiterVars, previous_ts, step, ts_0, timestamp, offset,
                 dropout_index, i, m_packet_count_tot, payload>>

(* conf() throws: the file cannot be read, so that none is there. *)
ConfThrows ==
  /\ m_file_source' = 0
  /\ UNCHANGED <<setup, m_is_configured, m_time_to_wait, limiterVars, producerVars>>

(* (fault) The emulator still counts as configured. *)
ScrapFileOnly ==
  /\ m_file_source' = NoFile
  /\ UNCHANGED <<setup, m_is_configured, m_time_to_wait, limiterVars, producerVars>>

Scrap ==
  /\ m_file_source' = NoFile
  /\ m_is_configured' = FALSE
  /\ UNCHANGED <<setup, m_time_to_wait, limiterVars, producerVars>>

(* start(): a new limiter, whose clock we count from here, and the thread. *)
Start ==
  /\ m_packet_count_tot' = 0 /\ payload' = NoPayload
  /\ clock' = 0 /\ m_now' = 0 /\ m_deadline' = m_period
  /\ pc' = "task" /\ granted' = m_period /\ earned' = 0
  /\ step' = "begin"
  /\ UNCHANGED <<m_period, confVars, generator, previous_ts, ts_0, timestamp, offset,
                 dropout_index, i>>

(* (fault) Readiness is not waited for. *)
StopsAtOnce == TRUE

(* What stop() waits for: the thread's readiness. *)
Stops == step = "off"

-----------------------------------------------------------------------------
(* run_produce().                                                          *)
threadFrame == <<m_run_marker, confVars>>

Begin ==
  /\ step = "begin"
  /\ ts_0' \in FirstTimestamps
  /\ timestamp' = ts_0' /\ offset' = 0 /\ dropout_index' = 0
  /\ step' = "loop"
  /\ UNCHANGED <<threadFrame, limiterVars, generator, previous_ts, i, m_packet_count_tot,
                 payload>>

(* The loop's condition: another round of frames_per_tick frames, or the   *)
(* end of the run.                                                         *)
Round ==
  /\ step = "loop"
  /\ step' = IF m_run_marker THEN "frame" ELSE "off"
  /\ i' = 0
  /\ UNCHANGED <<threadFrame, limiterVars, generator, previous_ts, ts_0, timestamp, offset,
                 dropout_index, m_packet_count_tot, payload>>

(* (fault) One element too many is taken from the file. *)
ElementToPushLate ==
  IF offset * ElementSize > m_file_source THEN 0 ELSE offset

(* The element to push: the first again after the last whole one. *)
ElementToPush ==
  IF \/ offset = m_file_source \div ElementSize
     \/ (offset + 1) * ElementSize > m_file_source
  THEN 0 ELSE offset

CreateFrame == setup.dropouts[dropout_index + 1]

(* Position j of a table of ErrorBitGenerator, and the one after it. *)
Occurrence(table, j) == table[j + 1]
After(j) == (j + 1) % Len(setup.error_occurrences)

(* ErrorBitGenerator::next(): bursts of frames with and without errors     *)
(* take turns.                                                             *)
NextErrorBits(g) ==
  [(IF g.count < g.current THEN g
    ELSE IF g.set
    THEN [g EXCEPT !.errors_at = After(@), !.set = FALSE, !.count = 0,
            !.current = Occurrence(setup.no_error_occurrences, g.no_errors_at)]
    ELSE [g EXCEPT !.no_errors_at = After(@), !.set = TRUE, !.count = 0,
            !.current = Occurrence(setup.error_occurrences, g.errors_at)])
   EXCEPT !.count = @ + 1]

(* Whether the frame for which next() left g has error bits. *)
HasErrorBits(g) == g.set /\ g.current # 0

(* The generator after each frame of an element. *)
Frames[n \in 0 .. num_frames] ==
  IF n = 0 THEN generator ELSE NextErrorBits(Frames[n - 1])

(* (fault) The difference is taken for a signed one. *)
HitIsDueSigned == timestamp > previous_ts + m_time_to_wait

(* timestamp - previous_ts > m_time_to_wait, for unsigned timestamps. *)
HitIsDue == timestamp < previous_ts \/ timestamp - previous_ts > m_time_to_wait

(* A frame is made and sent.  When send() times out the payload is lost,   *)
(* and counted all the same.                                               *)
MakeFrame ==
  /\ step = "frame" /\ i < setup.frames_per_tick /\ CreateFrame
  /\ offset' = ElementToPush + 1
  /\ generator' = Frames[num_frames]
  /\ previous_ts' = IF setup.pattern /\ HitIsDue THEN timestamp ELSE previous_ts
  /\ payload' = [element |-> ElementToPush, timestamp |-> timestamp,
                 errors |-> \E n \in 1 .. num_frames : HasErrorBits(Frames[n])]
  /\ m_packet_count_tot' = m_packet_count_tot + 1
  /\ dropout_index' = (dropout_index + 1) % Len(setup.dropouts)
  /\ i' = i + 1
  /\ UNCHANGED <<threadFrame, limiterVars, step, ts_0, timestamp>>

(* The frame is left out. *)
DropFrame ==
  /\ step = "frame" /\ i < setup.frames_per_tick /\ ~CreateFrame
  /\ offset' = ElementToPush
  /\ dropout_index' = (dropout_index + 1) % Len(setup.dropouts)
  /\ i' = i + 1
  /\ UNCHANGED <<threadFrame, limiterVars, generator, previous_ts, step, ts_0, timestamp,
                 m_packet_count_tot, payload>>

(* (fault) The time goes on for each frame. *)
TicksPerFrame == m_time_tick_diff * num_frames * setup.frames_per_tick

(* How far the time goes on in a round. *)
TicksPerRound == m_time_tick_diff * num_frames

EndRound ==
  /\ step = "frame" /\ i = setup.frames_per_tick
  /\ timestamp' = timestamp + TicksPerRound
  /\ step' = "limit"
  /\ UNCHANGED <<threadFrame, limiterVars, generator, previous_ts, ts_0, offset,
                 dropout_index, i, m_packet_count_tot, payload>>

(* limit(), whose last step ends the round. *)
LimitRound ==
  /\ step = "limit"
  /\ Limit
  /\ step' = IF pc' = "task" THEN "loop" ELSE "limit"
  /\ UNCHANGED <<threadFrame, generator, previous_ts, ts_0, timestamp, offset,
                 dropout_index, i, m_packet_count_tot, payload>>

Produce == Begin \/ Round \/ MakeFrame \/ DropFrame \/ EndRound \/ LimitRound

-----------------------------------------------------------------------------
(* The payloads are the whole elements of the file, one after the other    *)
(* and from the first again after the last, whatever frames are left out   *)
(* and however the file ends (SourceEmulatorModel.hxx:169, :178): no byte  *)
(* beyond the file is copied.                                              *)
PayloadsFollowFile ==
  (payload # NoPayload /\ step # "off") =>
    /\ (payload.element + 1) * ElementSize <= m_file_source
    /\ payload.element = (m_packet_count_tot - 1) % (m_file_source \div ElementSize)

(* The emulated time keeps behind the real one: data are at most one round *)
(* ahead of what the rate allows since start(), however late rounds were   *)
(* made up for, and a dropout or several frames in a round do not change   *)
(* the pace (:236, :240).                                                  *)
DataNotAheadOfClock ==
  step \notin {"off", "begin"} =>
    (timestamp - ts_0) * m_period <= m_time_tick_diff * num_frames * (clock + m_period)

(* A link whose frame error rate is zero never carries error bits          *)
(* (ErrorBitGenerator.hpp:54), and with the ADC pattern no hit is overdue  *)
(* in any frame that was made, also in the first ones of a run, before     *)
(* which previous_ts has no value or one of a run that had later           *)
(* timestamps (:196).  After the run a conf() may change the interval.     *)
FramesAsConfigured ==
  /\ (\A j \in 1 .. Len(setup.error_occurrences) : setup.error_occurrences[j] = 0)
       => ~payload.errors
  /\ (setup.pattern /\ payload # NoPayload /\ step # "off")
       => payload.timestamp - previous_ts \in 0 .. m_time_to_wait

(* "Adding a hit every 9768 gives a TP rate of approx 100 Hz/wire"         *)
(* (SourceEmulatorModel.hpp:165), times the configured rate.               *)
HitsAtConfiguredRate ==
  (m_is_configured /\ setup.pattern /\ setup.TP_rate_per_channel # 0) =>
    m_time_to_wait = HitInterval \div setup.TP_rate_per_channel
=============================================================================
