--------------------------- MODULE FakeCardReader ---------------------------
(***************************************************************************)
(* FakeCardReaderBase: a card reader of emulated links.  Its commands go   *)
(* through the links in turn, and its run marker is what their producer    *)
(* threads look at.                                                        *)
(*                                                                         *)
(* One of the links is a SourceEmulator in detail; of the others there are *)
(* what the card reader asks and waits for: whether they are configured,   *)
(* and whether their thread is at work.  Run control gives one command at  *)
(* a time; it starts a configured card only, and scraps one only when it   *)
(* is stopped.  conf() of a link may throw at any time, because of its     *)
(* file, its queue or its source id.                                       *)
(***************************************************************************)
EXTENDS SourceEmulator, FiniteSets, FiniteSetsExt

CONSTANTS
  Outputs,     \* the links, in the order of the configuration's outputs
  Detailed,    \* which of them is the SourceEmulator
  MaxCommands  \* bound on commands conf and start

ASSUME OutputsAssumption ==
  /\ Outputs \in Seq(Nat) /\ Detailed \in 1 .. Len(Outputs)
  /\ \A j, k \in 1 .. Len(Outputs) : j # k => Outputs[j] # Outputs[k]
  /\ MaxCommands \in Nat

VARIABLES
  m_configured,
  command,     \* what the command thread is doing
  at,          \* the link it is at
  configured,  \* the other links that are configured
  working,     \* those whose producer threads are at work
  refused,     \* whether the last conf found a link configured already
  failed,      \* history: whether a conf failed otherwise since the last scrap
  commands     \* history: conf and start commands so far

cardVars == <<m_run_marker, m_configured, command, at, configured, working, refused,
              failed, commands>>
cardReader == <<emulatorVars, cardVars>>

Links  == 1 .. Len(Outputs)
Others == Links \ {Detailed}

(* init(): an emulator for each output. *)
CardInit ==
  /\ EmulatorInit
  /\ m_configured = FALSE
  /\ command = "none" /\ at = 0
  /\ configured = {} /\ working = {}
  /\ refused = FALSE /\ failed = FALSE /\ commands = 0

IsConfigured(k) == IF k = Detailed THEN m_is_configured ELSE k \in configured

-----------------------------------------------------------------------------
NewCommand ==
  /\ command = "none" /\ ~m_run_marker
  /\ commands < MaxCommands
  /\ commands' = commands + 1

(* do_conf(): the links up to the first that is configured already or      *)
(* throws are configured.                                                  *)
DoConf ==
  /\ NewCommand /\ ~m_configured
  /\ \E throws \in Links \cup {Len(Outputs) + 1} :
       LET last == Min({throws} \cup {k \in Links : IsConfigured(k)})
       IN  /\ configured' = configured \cup {k \in Others : k < last}
           /\ m_configured' = (last = Len(Outputs) + 1)
           /\ refused' = (last \in Links /\ IsConfigured(last))
           /\ failed' = (failed \/ (~m_configured' /\ ~refused'))
           /\ IF Detailed < last THEN Conf
              ELSE IF Detailed = last /\ ~m_is_configured THEN ConfThrows
              ELSE UNCHANGED emulatorVars
  /\ UNCHANGED <<m_run_marker, command, at, working>>

(* A second conf does nothing. *)
DoConfAgain ==
  /\ NewCommand /\ m_configured
  /\ UNCHANGED <<emulatorVars, m_run_marker, m_configured, command, at, configured, working,
                 refused, failed>>

DoScrap ==
  /\ command = "none" /\ ~m_run_marker
  /\ Scrap
  /\ configured' = {} /\ m_configured' = FALSE
  /\ refused' = FALSE /\ failed' = FALSE
  /\ UNCHANGED <<m_run_marker, command, at, working, commands>>

(* do_start(): the marker, then each link. *)
DoStart ==
  /\ NewCommand /\ m_configured
  /\ m_run_marker' = TRUE
  /\ command' = "start" /\ at' = 1
  /\ UNCHANGED <<emulatorVars, m_configured, configured, working, refused, failed>>

StartLink ==
  /\ command = "start" /\ at \in Links
  /\ at' = at + 1
  /\ IF at = Detailed THEN Start /\ UNCHANGED working
     ELSE working' = working \cup {at} /\ UNCHANGED emulatorVars
  /\ UNCHANGED <<m_run_marker, m_configured, command, configured, refused, failed, commands>>

(* (fault) The marker stays set. *)
DoStopKeepsMarker ==
  /\ command = "none" /\ m_run_marker
  /\ command' = "stop" /\ at' = 1
  /\ UNCHANGED <<emulatorVars, m_run_marker, m_configured, configured, working, refused,
                 failed, commands>>

(* do_stop(): the marker, then wait for each link. *)
DoStop ==
  /\ command = "none" /\ m_run_marker
  /\ m_run_marker' = FALSE
  /\ command' = "stop" /\ at' = 1
  /\ UNCHANGED <<emulatorVars, m_configured, configured, working, refused, failed, commands>>

StopLink ==
  /\ command = "stop" /\ at \in Links
  /\ IF at = Detailed THEN Stops ELSE at \notin working
  /\ at' = at + 1
  /\ UNCHANGED <<emulatorVars, m_run_marker, m_configured, command, configured, working,
                 refused, failed, commands>>

(* The command has been through all links. *)
CommandEnds ==
  /\ command \in {"start", "stop"} /\ at = Len(Outputs) + 1
  /\ command' = "none" /\ at' = 0
  /\ UNCHANGED <<emulatorVars, m_run_marker, m_configured, configured, working, refused,
                 failed, commands>>

-----------------------------------------------------------------------------
(* Another link's producer thread leaves its loop. *)
OtherEnds(k) ==
  /\ k \in working /\ ~m_run_marker
  /\ working' = working \ {k}
  /\ UNCHANGED <<emulatorVars, m_run_marker, m_configured, command, at, configured, refused,
                 failed, commands>>

ProduceStep ==
  /\ Produce
  /\ UNCHANGED <<m_configured, command, at, configured, working, refused, failed, commands>>

(* Time passes while a thread is at work.  MaxTime bounds the run only:    *)
(* when it has ended, time goes on up to the deadline of a thread that is  *)
(* still waiting.                                                          *)
TimePasses ==
  /\ step # "off"
  /\ clock < MaxTime \/ (~m_run_marker /\ pc = "wait" /\ clock < m_deadline)
  /\ clock' = clock + 1
  /\ UNCHANGED <<m_period, m_now, m_deadline, pc, granted, earned, confVars, producerVars,
                 cardVars>>

Commands == StartLink \/ StopLink \/ CommandEnds

(* The commands are used up, or the clock is: then a run goes on for ever. *)
CardNext ==
  \/ DoConf \/ DoConfAgain \/ DoScrap \/ DoStart \/ DoStop
  \/ Commands
  \/ ProduceStep
  \/ \E k \in Others : OtherEnds(k)
  \/ TimePasses

(* The command thread and the producer threads go on when they can, and    *)
(* time passes.  Commands need not come.                                   *)
CardSpec ==
  /\ CardInit /\ [][CardNext]_cardReader
  /\ WF_cardReader(Commands)
  /\ WF_cardReader(ProduceStep) /\ WF_cardReader(TimePasses)
  /\ \A k \in Others : WF_cardReader(OtherEnds(k))

-----------------------------------------------------------------------------
(* A producer thread at work has the file it reads from, and its link is   *)
(* configured as all links of the card: scrap() and conf() never meet a    *)
(* thread of the run before, because stop() waited for each of them        *)
(* (FakeCardReaderBase.hxx:122, SourceEmulatorModel.hxx:113).              *)
FilesWhileProducing ==
  /\ step # "off" => m_configured /\ m_is_configured /\ m_file_source # NoFile
  /\ working # {} => m_configured
  /\ m_configured => \A k \in Links : IsConfigured(k)

(* A conf that failed half-way is not for ever: scrap() makes the card as  *)
(* good as new, and a link is "configured twice" only where a failed conf  *)
(* was tried again without (FakeCardReaderBase.hxx:69).                    *)
RefusedOnlyAfterFailure == refused => failed

(* do_stop() returns: each thread sees the marker after the round and the  *)
(* limit() it is in (SourceEmulatorModel.hxx:113).                         *)
StopReturns == (command = "stop") ~> (command = "none")
=============================================================================
