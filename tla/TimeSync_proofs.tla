--------------------------- MODULE TimeSync_proofs ---------------------------
(***************************************************************************)
(* What TimeSync.cfg checks on two runs with two DAQ times, for any number *)
(* of runs, times, requests and TimeSyncs: a TimeSync is of its run, if    *)
(* the source of the data is stopped before the module, and each request   *)
(* is counted in its run.                                                  *)
(***************************************************************************)
EXTENDS TimeSync, TLAPS

(* The types of the counters, times and places of TimeSync. *)
TypeOK ==
  /\ m_run_number \in Nat /\ m_sum_requests \in Nat /\ received \in Nat /\ early \in Nat
  /\ daq_time \in Nat /\ timesyncmsg \in Nat /\ msg_seqno \in Nat
  /\ seen \subseteq Nat
  /\ mpc \in {"stopped", "starting", "running", "uncalling", "syncing", "consuming"}
  /\ tpc \in {"off", "begin", "loop", "compare"}

Messages == [daq_time : Nat, run_number : Nat, sequence_number : Nat]

SentOK == sent \in Seq(Messages)

(* What stop() has switched off, at each of its places. *)
SwitchedOff ==
  /\ callback => mpc \in {"running", "uncalling"}
  /\ dispatching => callback
  /\ mpc \in {"consuming", "stopped"} => tpc = "off"
  /\ mpc = "stopped" => ~consumer /\ daq_time = 0

(* Where the source may call. *)
SourceInRun == source => mpc = "running"

(* The clock shows nothing but a time of this run. *)
ClockOfThisRun ==
  /\ daq_time \in seen \cup {0}
  /\ tpc = "compare" => timesyncmsg \in seen \cup {0}

FreshInv == TypeOK /\ SentOK /\ SwitchedOff /\ SourceInRun /\ ClockOfThisRun /\ TimeSyncsAreFresh

-----------------------------------------------------------------------------
LEMMA TypeInit == Init => TypeOK
BY DEF Init, TypeOK

(* Each step keeps the types. *)
LEMMA TypeStep == TypeOK /\ [Next]_vars => TypeOK'
<1> USE TimeSyncAssumption DEF TypeOK, setup, controlVars, syncVars, dataVars, requestVars
<1> SUFFICES ASSUME TypeOK, [Next]_vars PROVE TypeOK'
  OBVIOUS
<1>1. CASE Conf \/ Scrap \/ SourceStarts \/ SourceStops
  BY <1>1 DEF Conf, ModelConf, RegisterCallback, Scrap, ProcessorScrap, SourceStarts, SourceStops
<1>2. CASE Start
  BY <1>2 DEF Start, ModelStart
<1>3. CASE StopBegin
  BY <1>3 DEF StopBegin
<1>4. CASE AddCallback \/ RemoveCallback
  BY <1>4 DEF AddCallback, RemoveCallback
<1>5. CASE JoinTimeSync
  BY <1>5 DEF JoinTimeSync
<1>6. CASE JoinConsumer
  <2>1. /\ daq_time' = 0 /\ mpc' = "stopped"
        /\ UNCHANGED <<m_run_number, seen, m_sum_requests, received, early, tpc,
                       timesyncmsg, msg_seqno>>
    BY <1>6 DEF JoinConsumer
  <2> QED BY <2>1
<1>7. CASE \E ts \in 1 .. MaxTime : Consume(ts) \/ ConsumePayload(ts)
  <2>1. PICK ts \in 1 .. MaxTime : PreprocessItem(ts)
    BY <1>7 DEF Consume, ConsumePayload
  <2>2. /\ daq_time' \in Nat /\ seen' \subseteq Nat
        /\ UNCHANGED <<mpc, m_run_number, m_sum_requests, received, early, tpc, timesyncmsg,
                       msg_seqno>>
    BY <2>1 DEF PreprocessItem
  <2> QED BY <2>2
<1>8. CASE ConsumerJoins
  BY <1>8 DEF ConsumerJoins
<1>9. CASE DispatchBegin
  BY <1>9 DEF DispatchBegin
<1>10. CASE DispatchEnd
  BY <1>10 DEF DispatchEnd
<1>11. CASE SyncBegin
  BY <1>11 DEF SyncBegin, syncFrame
<1>12. CASE SyncLook
  BY <1>12 DEF SyncLook, syncFrame
<1>13. CASE SyncSend
  BY <1>13 DEF SyncSend, syncFrame
<1>14. CASE SyncJoins \/ SyncSkip
  BY <1>14 DEF SyncJoins, SyncSkip, syncFrame
<1>15. CASE Finished \/ UNCHANGED vars
  BY <1>15 DEF Finished, vars
<1> QED BY <1>1, <1>2, <1>3, <1>4, <1>5, <1>6, <1>7, <1>8, <1>9, <1>10, <1>11,
          <1>12, <1>13, <1>14, <1>15 DEF Next, Control, Sync

(* Only Start and SyncSend change what has been sent. *)
LEMMA SentChanges ==
  [Next]_vars => \/ Start \/ SyncSend
                 \/ \E ts \in 1 .. MaxTime : Consume(ts) \/ ConsumePayload(ts)
                 \/ UNCHANGED <<sent, seen, m_run_number>>
<1> USE DEF setup, controlVars, syncVars, dataVars, requestVars
<1> SUFFICES ASSUME [Next]_vars, ~Start, ~SyncSend,
                    ~\E ts \in 1 .. MaxTime : Consume(ts) \/ ConsumePayload(ts)
             PROVE  UNCHANGED <<sent, seen, m_run_number>>
  OBVIOUS
<1>1. CASE Conf \/ Scrap \/ SourceStarts \/ SourceStops
  BY <1>1 DEF Conf, ModelConf, RegisterCallback, Scrap, ProcessorScrap, SourceStarts, SourceStops
<1>2. CASE StopBegin \/ Control
  BY <1>2 DEF StopBegin, Control, AddCallback, RemoveCallback, JoinTimeSync, JoinConsumer
<1>3. CASE ConsumerJoins \/ DispatchBegin \/ DispatchEnd
  BY <1>3 DEF ConsumerJoins, DispatchBegin, DispatchEnd
<1>4. CASE SyncBegin \/ SyncLook \/ SyncJoins \/ SyncSkip
  BY <1>4 DEF SyncBegin, SyncLook, SyncJoins, SyncSkip, syncFrame
<1>5. CASE Finished \/ UNCHANGED vars
  BY <1>5 DEF Finished, vars
<1> QED BY <1>1, <1>2, <1>3, <1>4, <1>5 DEF Next, Sync

LEMMA SentType == TypeOK /\ SentOK /\ [Next]_vars => SentOK'
<1> SUFFICES ASSUME TypeOK, SentOK, [Next]_vars PROVE SentOK'
  OBVIOUS
<1>1. CASE Start
  BY <1>1 DEF Start, ModelStart, SentOK
<1>2. CASE SyncSend
  <2> DEFINE msg == [daq_time |-> timesyncmsg, run_number |-> m_run_number,
                     sequence_number |-> msg_seqno']
  <2>1. msg \in Messages
    BY <1>2 DEF SyncSend, TypeOK, Messages
  <2>2. sent' = Append(sent, msg) \/ sent' = sent
    BY <1>2 DEF SyncSend
  <2> HIDE DEF msg
  <2> QED BY <2>1, <2>2 DEF SentOK
<1>3. CASE \E ts \in 1 .. MaxTime : Consume(ts) \/ ConsumePayload(ts)
  BY <1>3 DEF Consume, ConsumePayload, PreprocessItem, SentOK, syncVars
<1>4. CASE UNCHANGED <<sent, seen, m_run_number>>
  BY <1>4 DEF SentOK
<1> QED BY <1>1, <1>2, <1>3, <1>4, SentChanges

-----------------------------------------------------------------------------
(* stop() switches off and waits in an order that leaves nobody at work.   *)
LEMMA SwitchedOffStep == TypeOK /\ SwitchedOff /\ SourceInRun /\ [Next]_vars => SwitchedOff'
<1> USE DEF TypeOK, SwitchedOff, SourceInRun, setup, controlVars, syncVars, dataVars, requestVars
<1> SUFFICES ASSUME TypeOK, SwitchedOff, SourceInRun, [Next]_vars PROVE SwitchedOff'
  OBVIOUS
<1>1. CASE Conf \/ Scrap \/ SourceStarts \/ SourceStops
  BY <1>1 DEF Conf, ModelConf, RegisterCallback, Scrap, ProcessorScrap, SourceStarts, SourceStops
<1>2. CASE Start
  BY <1>2 DEF Start, ModelStart
<1>3. CASE StopBegin \/ Control
  BY <1>3 DEF StopBegin, Control, AddCallback, RemoveCallback, JoinTimeSync, JoinConsumer
<1>4. CASE \E ts \in 1 .. MaxTime : Consume(ts) \/ ConsumePayload(ts)
  BY <1>4 DEF Consume, ConsumePayload, PreprocessItem
<1>5. CASE ConsumerJoins \/ DispatchBegin \/ DispatchEnd
  BY <1>5 DEF ConsumerJoins, DispatchBegin, DispatchEnd
<1>6. CASE Sync
  BY <1>6 DEF Sync, SyncBegin, SyncLook, SyncJoins, SyncSend, SyncSkip, syncFrame
<1>7. CASE Finished \/ UNCHANGED vars
  BY <1>7 DEF Finished, vars
<1> QED BY <1>1, <1>2, <1>3, <1>4, <1>5, <1>6, <1>7 DEF Next

(* A disciplined source calls only in the run. *)
LEMMA SourceStep ==
  ASSUME OrderlySource PROVE SourceInRun /\ [Next]_vars => SourceInRun'
<1> USE DEF SourceInRun, setup, controlVars, syncVars, dataVars, requestVars
<1> SUFFICES ASSUME SourceInRun, [Next]_vars PROVE SourceInRun'
  OBVIOUS
<1>1. CASE Conf \/ Scrap \/ SourceStarts \/ SourceStops
  BY <1>1 DEF Conf, ModelConf, RegisterCallback, Scrap, ProcessorScrap, SourceStarts, SourceStops
<1>2. CASE Start \/ StopBegin \/ Control
  BY <1>2 DEF Start, ModelStart, StopBegin, Control, AddCallback, RemoveCallback, JoinTimeSync,
     JoinConsumer
<1>3. CASE \E ts \in 1 .. MaxTime : Consume(ts) \/ ConsumePayload(ts)
  BY <1>3 DEF Consume, ConsumePayload, PreprocessItem
<1>4. CASE ConsumerJoins \/ DispatchBegin \/ DispatchEnd
  BY <1>4 DEF ConsumerJoins, DispatchBegin, DispatchEnd
<1>5. CASE Sync
  BY <1>5 DEF Sync, SyncBegin, SyncLook, SyncJoins, SyncSend, SyncSkip, syncFrame
<1>6. CASE Finished \/ UNCHANGED vars
  BY <1>6 DEF Finished, vars
<1> QED BY <1>1, <1>2, <1>3, <1>4, <1>5, <1>6 DEF Next

-----------------------------------------------------------------------------
(* The thread reads only what this run stored, as a new run begins with    *)
(* the clock at zero.                                                      *)
LEMMA ClockStep ==
  TypeOK /\ SwitchedOff /\ SourceInRun /\ ClockOfThisRun /\ [Next]_vars => ClockOfThisRun'
<1> USE DEF TypeOK, SwitchedOff, SourceInRun, ClockOfThisRun, setup, controlVars, syncVars,
            dataVars, requestVars
<1> SUFFICES ASSUME TypeOK, SwitchedOff, SourceInRun, ClockOfThisRun, [Next]_vars
             PROVE  ClockOfThisRun'
  OBVIOUS
<1>1. CASE Conf \/ Scrap \/ SourceStarts \/ SourceStops
  BY <1>1 DEF Conf, ModelConf, RegisterCallback, Scrap, ProcessorScrap, SourceStarts, SourceStops
<1>2. CASE Start
  BY <1>2 DEF Start, ModelStart
<1>3. CASE StopBegin \/ Control
  BY <1>3 DEF StopBegin, Control, AddCallback, RemoveCallback, JoinTimeSync, JoinConsumer
<1>4. CASE \E ts \in 1 .. MaxTime : Consume(ts) \/ ConsumePayload(ts)
  BY <1>4 DEF Consume, ConsumePayload, PreprocessItem
<1>5. CASE ConsumerJoins \/ DispatchBegin \/ DispatchEnd
  BY <1>5 DEF ConsumerJoins, DispatchBegin, DispatchEnd
<1>6. CASE Sync
  BY <1>6 DEF Sync, SyncBegin, SyncLook, SyncJoins, SyncSend, SyncSkip, syncFrame
<1>7. CASE Finished \/ UNCHANGED vars
  BY <1>7 DEF Finished, vars
<1> QED BY <1>1, <1>2, <1>3, <1>4, <1>5, <1>6, <1>7 DEF Next

(* What has been sent stays of this run until the next begins. *)
LEMMA SentStep ==
  SentOK /\ ClockOfThisRun /\ TimeSyncsAreFresh /\ [Next]_vars => TimeSyncsAreFresh'
<1> SUFFICES ASSUME SentOK, ClockOfThisRun, TimeSyncsAreFresh, [Next]_vars
             PROVE  TimeSyncsAreFresh'
  OBVIOUS
<1> USE DEF setup, controlVars, syncVars, dataVars, requestVars
<1>1. CASE Start
  <2>1. sent' = << >>
    BY <1>1 DEF Start, ModelStart
  <2> QED BY <2>1 DEF TimeSyncsAreFresh
<1>2. CASE SyncSend
  <2>1. /\ seen' = seen /\ m_run_number' = m_run_number
        /\ timesyncmsg \in seen
    BY <1>2 DEF SyncSend, IsNewTime, ClockOfThisRun, syncFrame
  <2>2. CASE sent' = sent
    BY <2>1, <2>2 DEF TimeSyncsAreFresh
  <2>3. CASE sent' # sent
    <3> DEFINE msg == [daq_time |-> timesyncmsg, run_number |-> m_run_number,
                       sequence_number |-> msg_seqno']
    <3>1. sent' = Append(sent, msg)
      BY <1>2, <2>3 DEF SyncSend
    <3>2. msg.daq_time = timesyncmsg /\ msg.run_number = m_run_number
      OBVIOUS
    <3> HIDE DEF msg
    <3>3. sent \in Seq(Messages)
      BY DEF SentOK
    <3>4. /\ Len(sent') = Len(sent) + 1
          /\ \A i \in 1 .. Len(sent) : sent'[i] = sent[i]
          /\ sent'[Len(sent) + 1] = msg
          /\ Len(sent) \in Nat
      BY <3>1, <3>3
    <3> SUFFICES ASSUME NEW i \in 1 .. Len(sent')
                 PROVE  sent'[i].daq_time \in seen' /\ sent'[i].run_number = m_run_number'
      BY DEF TimeSyncsAreFresh
    <3>5. CASE i = Len(sent) + 1
      BY <2>1, <3>2, <3>4, <3>5
    <3>6. CASE i \in 1 .. Len(sent)
      BY <2>1, <3>4, <3>6 DEF TimeSyncsAreFresh
    <3> QED BY <3>4, <3>5, <3>6
  <2> QED BY <2>2, <2>3
<1>3. CASE \E ts \in 1 .. MaxTime : Consume(ts) \/ ConsumePayload(ts)
  BY <1>3 DEF Consume, ConsumePayload, PreprocessItem, TimeSyncsAreFresh
<1>4. CASE UNCHANGED <<sent, seen, m_run_number>>
  BY <1>4 DEF TimeSyncsAreFresh
<1> QED BY <1>1, <1>2, <1>3, <1>4, SentChanges

(* With a source that is stopped before the module, every TimeSync carries *)
(* a time and the number of its own run, in both modes and for any number  *)
(* of runs: stop() resets the clock after all who could set it.            *)
THEOREM TimeSyncSafety ==
  ASSUME OrderlySource PROVE Spec => []TimeSyncsAreFresh
<1>1. Init => FreshInv
  BY TypeInit DEF Init, FreshInv, SentOK, SwitchedOff, SourceInRun, ClockOfThisRun, TimeSyncsAreFresh
<1>2. FreshInv /\ [Next]_vars => FreshInv'
  BY TypeStep, SentType, SwitchedOffStep, SourceStep, ClockStep, SentStep DEF FreshInv
<1>3. FreshInv => TimeSyncsAreFresh
  BY DEF FreshInv
<1> QED BY <1>1, <1>2, <1>3, PTL DEF Spec

-----------------------------------------------------------------------------
(* What the counters need of stop(): a call of the callback is over before *)
(* it is removed, and the TimeSync thread before the module has stopped.   *)
CallsInRun ==
  /\ callback => mpc \in {"running", "uncalling"}
  /\ dispatching => callback
  /\ mpc \in {"consuming", "stopped"} => tpc = "off"
  /\ tpc = "begin" => early = 0

CountInv == TypeOK /\ CallsInRun /\ RequestsCountedInTheirRun

LEMMA CountStep == CountInv /\ [Next]_vars => CountInv'
<1> SUFFICES ASSUME CountInv, [Next]_vars PROVE CallsInRun' /\ RequestsCountedInTheirRun'
  BY TypeStep DEF CountInv
<1> USE DEF CountInv, TypeOK, CallsInRun, RequestsCountedInTheirRun, setup, controlVars, syncVars,
            dataVars, requestVars
<1>1. CASE Conf \/ Scrap \/ SourceStarts \/ SourceStops
  BY <1>1 DEF Conf, ModelConf, RegisterCallback, Scrap, ProcessorScrap, SourceStarts, SourceStops
<1>2. CASE Start
  BY <1>2 DEF Start, ModelStart
<1>3. CASE StopBegin \/ Control
  BY <1>3 DEF StopBegin, Control, AddCallback, RemoveCallback, JoinTimeSync, JoinConsumer
<1>4. CASE \E ts \in 1 .. MaxTime : Consume(ts) \/ ConsumePayload(ts)
  BY <1>4 DEF Consume, ConsumePayload, PreprocessItem
<1>5. CASE ConsumerJoins \/ DispatchBegin \/ DispatchEnd
  BY <1>5 DEF ConsumerJoins, DispatchBegin, DispatchEnd
<1>6. CASE Sync
  BY <1>6 DEF Sync, SyncBegin, SyncLook, SyncJoins, SyncSend, SyncSkip, syncFrame
<1>7. CASE Finished \/ UNCHANGED vars
  BY <1>7 DEF Finished, vars
<1> QED BY <1>1, <1>2, <1>3, <1>4, <1>5, <1>6, <1>7 DEF Next

(* Each request is counted in its run or, before the TimeSync thread has   *)
(* reset the counter, lost from it; none is counted in the next run.       *)
THEOREM CountSafety == Spec => []RequestsCountedInTheirRun
<1>1. Init => CountInv
  BY TypeInit DEF Init, CountInv, CallsInRun, RequestsCountedInTheirRun
<1>2. CountInv => RequestsCountedInTheirRun
  BY DEF CountInv
<1> QED BY <1>1, <1>2, CountStep, PTL DEF Spec
=============================================================================
