------------------------------ MODULE TimeSync ------------------------------
(***************************************************************************)
(* The life cycle of RawDataHandlerBase and its DataHandlingModel: start   *)
(* and stop switch the consumer, the thread that announces the time of the *)
(* data, and the callback for data requests on and off, in an order that   *)
(* matters because they share the last DAQ time and the request counter.   *)
(*                                                                         *)
(* In callback mode there is no consumer: conf() leaves consume_payload()  *)
(* in the DataMoveCallbackRegistry and the source of the data, which is    *)
(* another module, calls it from its own thread.                           *)
(*                                                                         *)
(* The last DAQ time is stored by a pre-processing task.  A TimeSync is    *)
(* sent, or lost when send() throws.                                       *)
(***************************************************************************)
EXTENDS Integers, Sequences

CONSTANTS
  MaxTime,       \* bound on DAQ times
  MaxRequests,   \* bound on data requests of a run
  MaxSyncs,      \* bound on the sequence numbers of a run
  MaxRuns,       \* bound on runs
  OrderlySource  \* whether the source is started after this module, stopped before it

ASSUME TimeSyncAssumption ==
  /\ MaxTime \in Nat /\ MaxRequests \in Nat /\ MaxSyncs \in Nat /\ MaxRuns \in Nat
  /\ OrderlySource \in BOOLEAN

VARIABLES
  m_callback_mode, m_generate_timesync,  \* how init() finds the module set up
  m_configured,
  tasks,                 \* whether the processor has its pre-processing tasks
  m_callback_map,        \* whether consume_payload() is in the registry
  source,                \* whether the source of the data is calling it
  m_run_marker,
  mpc,                   \* the control thread's place in start and stop
  m_run_number,
  daq_time,              \* m_last_processed_daq_ts
  consumer,              \* whether the consumer thread is at work
  callback,              \* whether the request callback is registered
  dispatching,           \* whether it is being called
  m_sum_requests,
  tpc,                   \* the TimeSync thread's place
  timesyncmsg, prev_timestamp, msg_seqno,  \* its variables
  sent,                  \* history: the TimeSyncs of this run that went out
  seen,                  \* history: the DAQ times of this run
  received,              \* history: the requests of this run
  early                  \* history: those counted before the thread resets the counter

setup       == <<m_callback_mode, m_generate_timesync, m_configured, tasks, m_callback_map>>
controlVars == <<m_run_marker, mpc, m_run_number>>
syncVars    == <<timesyncmsg, prev_timestamp, msg_seqno, sent>>
dataVars    == <<daq_time, seen>>
requestVars == <<callback, dispatching, m_sum_requests, received, early>>
vars == <<setup, source, controlVars, dataVars, consumer, requestVars, tpc, syncVars>>

(* init() *)
Init ==
  /\ m_callback_mode \in BOOLEAN /\ m_generate_timesync \in BOOLEAN
  /\ m_configured = FALSE /\ tasks = TRUE /\ m_callback_map = FALSE /\ source = FALSE
  /\ m_run_marker = FALSE /\ mpc = "stopped" /\ m_run_number = 0
  /\ daq_time = 0 /\ seen = {}
  /\ consumer = FALSE
  /\ callback = FALSE /\ dispatching = FALSE /\ m_sum_requests = 0
  /\ received = 0 /\ early = 0
  /\ tpc = "off"
  /\ timesyncmsg = 0 /\ prev_timestamp = 0 /\ msg_seqno = 0 /\ sent = << >>

-----------------------------------------------------------------------------
(* register_callback(): the first registration stays, and nothing takes it *)
(* out of the registry.                                                    *)
RegisterCallback == m_callback_map' = TRUE

ModelConf == IF m_callback_mode THEN RegisterCallback ELSE UNCHANGED m_callback_map

(* do_conf() *)
Conf ==
  /\ mpc = "stopped" /\ ~m_configured
  /\ ModelConf
  /\ m_configured' = TRUE
  /\ UNCHANGED <<m_callback_mode, m_generate_timesync, tasks, source, controlVars, dataVars,
                 consumer, requestVars, tpc, syncVars>>

(* The processor's scrap(): the tasks, which init() added, are taken away. *)
ProcessorScrap == tasks' = FALSE

(* do_scrap() *)
Scrap ==
  /\ mpc = "stopped" /\ m_configured
  /\ ProcessorScrap
  /\ m_configured' = FALSE
  /\ UNCHANGED <<m_callback_mode, m_generate_timesync, m_callback_map, source, controlVars,
                 dataVars, consumer, requestVars, tpc, syncVars>>

(* The source finds the callback in the registry and calls it until it is  *)
(* stopped.                                                                *)
SourceStarts ==
  /\ m_callback_map /\ ~source
  /\ OrderlySource => mpc = "running"
  /\ source' = TRUE
  /\ UNCHANGED <<setup, controlVars, dataVars, consumer, requestVars, tpc, syncVars>>

SourceStops ==
  /\ source
  /\ source' = FALSE
  /\ UNCHANGED <<setup, controlVars, dataVars, consumer, requestVars, tpc, syncVars>>

-----------------------------------------------------------------------------
(* start(): reset the counters, start the threads ... *)
ModelStart ==
  /\ m_run_number' = m_run_number + 1
  /\ m_sum_requests' = 0
  /\ consumer' = ~m_callback_mode
  /\ tpc' = IF m_generate_timesync THEN "begin" ELSE "off"
  /\ sent' = << >> /\ seen' = {} /\ received' = 0 /\ early' = 0

(* do_start() *)
Start ==
  /\ mpc = "stopped" /\ m_configured /\ m_run_number < MaxRuns
  /\ m_run_marker' = TRUE /\ mpc' = "starting"
  /\ ModelStart
  /\ UNCHANGED <<setup, source, daq_time, callback, dispatching, timesyncmsg,
                 prev_timestamp, msg_seqno>>

(* ... and register the callback. *)
AddCallback ==
  /\ mpc = "starting"
  /\ callback' = TRUE /\ mpc' = "running"
  /\ UNCHANGED <<setup, source, m_run_marker, m_run_number, dataVars, consumer, dispatching,
                 m_sum_requests, received, early, tpc, syncVars>>

(* do_stop(): remove the callback, which waits for a call under way ... *)
StopBegin ==
  /\ mpc = "running" /\ (OrderlySource => ~source)
  /\ m_run_marker' = FALSE /\ mpc' = "uncalling"
  /\ UNCHANGED <<setup, source, m_run_number, dataVars, consumer, requestVars, tpc, syncVars>>

(* (fault) ... or does not wait for it ... *)
RemoveCallbackAtOnce ==
  /\ mpc = "uncalling"
  /\ callback' = FALSE /\ mpc' = "syncing"
  /\ UNCHANGED <<setup, source, m_run_marker, m_run_number, dataVars, consumer, dispatching,
                 m_sum_requests, received, early, tpc, syncVars>>

RemoveCallback ==
  /\ mpc = "uncalling" /\ ~dispatching
  /\ callback' = FALSE /\ mpc' = "syncing"
  /\ UNCHANGED <<setup, source, m_run_marker, m_run_number, dataVars, consumer, dispatching,
                 m_sum_requests, received, early, tpc, syncVars>>

(* ... wait for the TimeSync thread ... *)
JoinTimeSync ==
  /\ mpc = "syncing" /\ tpc = "off"
  /\ mpc' = "consuming"
  /\ UNCHANGED <<setup, source, m_run_marker, m_run_number, dataVars, consumer, requestVars, tpc, syncVars>>

(* (fault) The time is not forgotten. *)
JoinConsumerKeepsTime ==
  /\ mpc = "consuming" /\ ~consumer
  /\ mpc' = "stopped"
  /\ UNCHANGED <<setup, source, m_run_marker, m_run_number, dataVars, consumer, requestVars, tpc, syncVars>>

(* ... and the consumer, and forget the last time. *)
JoinConsumer ==
  /\ mpc = "consuming" /\ ~consumer
  /\ daq_time' = 0 /\ mpc' = "stopped"
  /\ UNCHANGED <<setup, source, m_run_marker, m_run_number, seen, consumer, requestVars, tpc, syncVars>>

-----------------------------------------------------------------------------
(* A payload's pre-processing, if there are tasks, stores its time. *)
PreprocessItem(ts) ==
  /\ tasks
  /\ daq_time' = ts /\ seen' = seen \cup {ts}
  /\ UNCHANGED <<setup, source, controlVars, consumer, requestVars, tpc, syncVars>>

(* The consumer handles a payload, after the end of the run once more. *)
Consume(ts) == consumer /\ PreprocessItem(ts)

(* The source calls consume_payload(), which does not ask for the run. *)
ConsumePayload(ts) == source /\ PreprocessItem(ts)

ConsumerJoins ==
  /\ consumer /\ ~m_run_marker
  /\ consumer' = FALSE
  /\ UNCHANGED <<setup, source, controlVars, dataVars, requestVars, tpc, syncVars>>

(* dispatch_requests(): issue the request ... *)
DispatchBegin ==
  /\ callback /\ ~dispatching /\ received < MaxRequests
  /\ dispatching' = TRUE /\ received' = received + 1
  /\ UNCHANGED <<setup, source, controlVars, dataVars, consumer, callback, m_sum_requests, early, tpc, syncVars>>

(* ... and count it. *)
DispatchEnd ==
  /\ dispatching
  /\ dispatching' = FALSE /\ m_sum_requests' = m_sum_requests + 1
  /\ UNCHANGED <<setup, source, controlVars, dataVars, consumer, callback, received, early, tpc, syncVars>>

-----------------------------------------------------------------------------
syncFrame == <<setup, source, controlVars, dataVars, consumer, callback, dispatching, received>>

(* run_timesync() begins: it resets its variables and the counters. *)
SyncBegin ==
  /\ tpc = "begin"
  /\ m_sum_requests' = 0 /\ early' = m_sum_requests
  /\ prev_timestamp' = 0 /\ msg_seqno' = 0
  /\ tpc' = "loop"
  /\ UNCHANGED <<syncFrame, timesyncmsg, sent>>

(* The loop: look at the clock while the run lasts ... *)
SyncLook ==
  /\ tpc = "loop" /\ m_run_marker
  /\ timesyncmsg' = daq_time
  /\ tpc' = "compare"
  /\ UNCHANGED <<syncFrame, m_sum_requests, early, prev_timestamp, msg_seqno, sent>>

SyncJoins ==
  /\ tpc = "loop" /\ ~m_run_marker
  /\ tpc' = "off"
  /\ UNCHANGED <<syncFrame, m_sum_requests, early, syncVars>>

(* (fault) Only the first time of a run is new. *)
IsNewTimeOnce == timesyncmsg # 0 /\ prev_timestamp = 0

IsNewTime == timesyncmsg # 0 /\ timesyncmsg # prev_timestamp

(* ... and announce a new time; send() may fail ... *)
SyncSend ==
  /\ tpc = "compare" /\ IsNewTime /\ msg_seqno < MaxSyncs
  /\ prev_timestamp' = timesyncmsg
  /\ msg_seqno' = msg_seqno + 1
  /\ \/ sent' = Append(sent, [daq_time |-> timesyncmsg, run_number |-> m_run_number,
                              sequence_number |-> msg_seqno'])
     \/ UNCHANGED sent
  /\ tpc' = "loop"
  /\ UNCHANGED <<syncFrame, m_sum_requests, early, timesyncmsg>>

(* ... but not one that is zero or has been announced.  (The bound on      *)
(* sequence numbers ends the announcements, too.)                          *)
SyncSkip ==
  /\ tpc = "compare" /\ (~IsNewTime \/ msg_seqno = MaxSyncs)
  /\ tpc' = "loop"
  /\ UNCHANGED <<syncFrame, m_sum_requests, early, syncVars>>

-----------------------------------------------------------------------------
Control == AddCallback \/ RemoveCallback \/ JoinTimeSync \/ JoinConsumer

Sync == SyncBegin \/ SyncLook \/ SyncJoins \/ SyncSend \/ SyncSkip

(* The last run is over. *)
Finished == mpc = "stopped" /\ m_run_number = MaxRuns /\ UNCHANGED vars

Next ==
  \/ Conf \/ Scrap \/ SourceStarts \/ SourceStops
  \/ Start \/ StopBegin \/ Control
  \/ \E ts \in 1 .. MaxTime : Consume(ts) \/ ConsumePayload(ts)
  \/ ConsumerJoins
  \/ DispatchBegin \/ DispatchEnd
  \/ Sync
  \/ Finished

Spec == Init /\ [][Next]_vars

(* Threads that can go on do; payloads and requests need not come.         *)
FairSpec ==
  /\ Spec
  /\ WF_vars(Control) /\ WF_vars(ConsumerJoins) /\ WF_vars(DispatchEnd) /\ WF_vars(Sync)

-----------------------------------------------------------------------------
(* A TimeSync carries a time of this run's data under this run's number:   *)
(* the time of the last run is never announced in the next, because stop() *)
(* forgets it only when nobody can store it again                          *)
(* (DataHandlingModel.hxx:155 to :168).                                    *)
TimeSyncsAreFresh ==
  \A i \in 1 .. Len(sent) :
    sent[i].daq_time \in seen /\ sent[i].run_number = m_run_number

(* Each request of a run is counted in that run, but for those that come   *)
(* before the TimeSync thread resets the counter: stop() waits for a call  *)
(* of the callback before the next start() resets it                       *)
(* (DataHandlingModel.hxx:122, :151, :339, :433).                          *)
RequestsCountedInTheirRun ==
  m_sum_requests + early + (IF dispatching THEN 1 ELSE 0) = received

(* While the run lasts and the data stop flowing, the last DAQ time is     *)
(* announced (DataHandlingModel.hxx:346), unless the bound on sequence     *)
(* numbers is reached.                                                     *)
LastTimeIsAnnounced ==
  \A t \in 1 .. MaxTime :
    (mpc = "running" /\ m_generate_timesync /\ daq_time = t)
      ~> (prev_timestamp = t \/ daq_time # t \/ mpc # "running" \/ msg_seqno = MaxSyncs)

(* m_sum_requests is the "Total number of received requests"               *)
(* (schema/datahandlinglibs/opmon/datahandling_info.proto:21) once they    *)
(* have been dispatched.                                                   *)
RequestsAreCounted ==
  (mpc = "running" /\ ~dispatching) => m_sum_requests = received

(* conf() "Configures the readoutmodel and its internals"                  *)
(* (DataHandlingModel.hpp:102), so that a configured module has its tasks. *)
ConfiguredMeansProcessing == m_configured => tasks
=============================================================================
