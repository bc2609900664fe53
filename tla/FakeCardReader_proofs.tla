------------------------ MODULE FakeCardReader_proofs ------------------------
(***************************************************************************)
(* Proofs about RateLimiter, SourceEmulator and FakeCardReader: for any    *)
(* periods, setups, first timestamps, number of links and of commands.     *)
(***************************************************************************)
EXTENDS FakeCardReader, WellFoundedInduction, TLAPS

-----------------------------------------------------------------------------
(* The limiter, with a period that is adjusted at any time.                *)

(* No deadline is earlier than the sum of the periods that went into it,   *)
(* and limit() returns only after the deadline, by the clock reading that  *)
(* it has at that time.                                                    *)
DeadlineInv ==
  /\ granted <= m_deadline
  /\ m_now <= clock
  /\ pc = "advance" => m_deadline <= m_now
  /\ pc = "restart" => TooLate(m_now)

IInv == TypeOK /\ DeadlineInv /\ NeverFaster

(* The constructor establishes the invariant. *)
LEMMA InitIInv == Init => IInv
BY LimiterAssumption DEF Init, IInv, TypeOK, DeadlineInv, NeverFaster, TooLate

(* The steps of limit() keep it.  A return adds one period to the deadline *)
(* and to what is granted; what was granted before has elapsed, as the     *)
(* thread returns at a time not before the old deadline.                   *)
LEMMA LimitIInv == IInv /\ Limit => IInv'
<1> SUFFICES ASSUME IInv, Limit PROVE IInv'
  OBVIOUS
<1> USE LimiterAssumption DEF IInv, TypeOK, DeadlineInv, NeverFaster, TooLate
<1>1. CASE LimitBegin
  BY <1>1 DEF LimitBegin
<1>2. CASE Wait
  BY <1>2 DEF Wait
<1>3. CASE Restart
  BY <1>3 DEF Restart, Return
<1>4. CASE Advance
  BY <1>4 DEF Advance, Return
<1> QED
  BY <1>1, <1>2, <1>3, <1>4 DEF Limit

LEMMA NextIInv == IInv /\ [Next]_vars => IInv'
<1> SUFFICES ASSUME IInv, [Next]_vars PROVE IInv'
  OBVIOUS
<1> USE LimiterAssumption DEF IInv, TypeOK, DeadlineInv, NeverFaster, TooLate
<1>1. CASE Tick
  BY <1>1 DEF Tick
<1>2. CASE Adjust
  BY <1>2 DEF Adjust
<1>3. CASE Limit
  BY <1>3, LimitIInv
<1>4. CASE UNCHANGED vars
  BY <1>4 DEF vars
<1> QED
  BY <1>1, <1>2, <1>3, <1>4 DEF Next

(* limit() never lets its caller run faster than the rates that were set:  *)
(* it returns only when all the periods granted so far have elapsed, with  *)
(* periods that adjust() changes at any time.                              *)
THEOREM LimiterNeverFaster == Spec => []NeverFaster
<1>1. IInv => NeverFaster
  BY DEF IInv
<1> QED
  BY InitIInv, NextIInv, <1>1, PTL DEF Spec

-----------------------------------------------------------------------------
(* Facts about numbers.                                                    *)

(* A set of natural numbers has a least element. *)
LEMMA LeastExists ==
  ASSUME NEW S \in SUBSET Nat, S # {}
  PROVE  \E x \in S : \A y \in S : x <= y
<1> DEFINE R == OpToRel(<, Nat)
<1>1. PICK x \in S : \A y \in S : <<y, x>> \notin R
  <2>1. IsWellFoundedOn(R, Nat)
    BY NatLessThanWellFounded
  <2> HIDE DEF R
  <2> QED
    BY <2>1, WFMin
<1>2. ASSUME NEW y \in S PROVE x <= y
  <2>1. x \in Nat /\ y \in Nat
    OBVIOUS
  <2>2. ~(y < x)
    BY <1>1, <2>1 DEF OpToRel
  <2> QED
    BY <2>1, <2>2
<1> QED
  BY <1>2

LEMMA MinIsLeast ==
  ASSUME NEW S \in SUBSET Nat, S # {}
  PROVE  Min(S) \in S /\ \A y \in S : Min(S) <= y
BY LeastExists DEF Min

(* A set that holds 0, and the successor of each of its elements below n,  *)
(* holds all numbers up to n.                                              *)
LEMMA UpTo ==
  ASSUME NEW n \in Nat, NEW S, 0 \in S,
         \A k \in 0 .. n - 1 : k \in S => k + 1 \in S
  PROVE  0 .. n \subseteq S
<1> SUFFICES ASSUME (0 .. n) \ S # {} PROVE FALSE
  OBVIOUS
<1>1. PICK m \in (0 .. n) \ S : \A y \in (0 .. n) \ S : m <= y
  <2> DEFINE T == (0 .. n) \ S
  <2>1. T \in SUBSET Nat /\ T # {}
    OBVIOUS
  <2> HIDE DEF T
  <2>2. \E m \in T : \A y \in T : m <= y
    BY <2>1, LeastExists
  <2> QED
    BY <2>2 DEF T
<1>2. m # 0 /\ m - 1 \in 0 .. n - 1 /\ m - 1 \in 0 .. n
  BY <1>1
<1>3. m - 1 \in S
  BY <1>1, <1>2
<1>4. (m - 1) + 1 \in S
  BY <1>2, <1>3
<1> QED
  BY <1>1, <1>2, <1>4

(* Products. *)
LEMMA Distributes ==
  ASSUME NEW a \in Int, NEW b \in Int, NEW c \in Int
  PROVE  (a + b) * c = a * c + b * c /\ c * (a + b) = c * a + c * b
OBVIOUS

LEMMA ProductZero == ASSUME NEW c \in Int PROVE 0 * c = 0 /\ c * 0 = 0
OBVIOUS

LEMMA DifferenceZero == \A a, b \in Nat : a = b => a - b = 0
OBVIOUS

LEMMA ProductMonotonic ==
  ASSUME NEW c \in Nat, NEW a \in Int, NEW b \in Int, a <= b
  PROVE  c * a <= c * b /\ a * c <= b * c
OBVIOUS

-----------------------------------------------------------------------------
(* The commands of the card reader.                                        *)

(* A producer thread is at work during a run, or while stop() has not      *)
(* waited for it yet.                                                      *)
CommandInv ==
  /\ command \in {"none", "start", "stop"} /\ at \in Nat
  /\ command = "start" => m_run_marker
  /\ command = "stop" => ~m_run_marker
  /\ working \subseteq Others
  /\ step # "off" => m_run_marker \/ (command = "stop" /\ at <= Detailed)
  /\ \A k \in working : m_run_marker \/ (command = "stop" /\ at <= k)

(* A card in a run or under a command is configured with all its links, a  *)
(* link that is configured has its file, and a card that is not configured *)
(* has a configured link only after a failure.                             *)
LinksInv ==
  /\ setup \in Setups
  /\ configured \subseteq Others
  /\ (m_run_marker \/ command # "none") => m_configured
  /\ m_configured => \A k \in Links : IsConfigured(k)
  /\ m_is_configured => m_file_source = setup.filesize
  /\ (~m_configured /\ \E k \in Links : IsConfigured(k)) => failed
  /\ refused => failed

CardInv == CommandInv /\ LinksInv

LEMMA LinksType == Links \in SUBSET Nat /\ Len(Outputs) \in Nat /\ Detailed \in Links
BY OutputsAssumption DEF Links

LEMMA InitCardInv == CardInit => CardInv
<1> SUFFICES ASSUME CardInit PROVE CardInv
  OBVIOUS
<1>1. CommandInv
  BY DEF CardInit, EmulatorInit, CommandInv
<1>2. LinksInv
  BY DEF CardInit, EmulatorInit, LinksInv, IsConfigured
<1> QED
  BY <1>1, <1>2 DEF CardInv

(* The producer's steps do not touch what the commands are about, and end  *)
(* the thread at most.                                                     *)
LEMMA ProduceFrame ==
  ASSUME Produce
  PROVE  /\ step # "off"
         /\ UNCHANGED <<setup, m_is_configured, m_file_source, m_time_to_wait, m_run_marker>>
BY DEF Produce, Begin, Round, MakeFrame, DropFrame, EndRound, LimitRound, threadFrame, confVars

(* do_conf() configures all links, or it fails, or it finds a link         *)
(* configured which it has left so when it failed before.                  *)
LEMMA DoConfCardInv ==
  ASSUME CardInv, DoConf
  PROVE  CardInv'
<1> USE LinksType
<1>1. PICK throws \in Links \cup {Len(Outputs) + 1} :
        LET last == Min({throws} \cup {k \in Links : IsConfigured(k)})
        IN  /\ configured' = configured \cup {k \in Others : k < last}
            /\ m_configured' = (last = Len(Outputs) + 1)
            /\ refused' = (last \in Links /\ IsConfigured(last))
            /\ failed' = (failed \/ (~m_configured' /\ ~refused'))
            /\ IF Detailed < last THEN Conf
               ELSE IF Detailed = last /\ ~m_is_configured THEN ConfThrows
               ELSE UNCHANGED emulatorVars
  BY DEF DoConf
<1> DEFINE candidates == {throws} \cup {k \in Links : IsConfigured(k)}
           last == Min(candidates)
<1>2. candidates \in SUBSET Nat /\ candidates # {}
  <2>1. throws \in Nat
    OBVIOUS
  <2> QED
    BY <2>1
<1>3. last \in candidates /\ \A y \in candidates : last <= y
  <2> HIDE DEF candidates
  <2> QED
    BY <1>2, MinIsLeast
<1>4. /\ last \in Nat /\ (last \in Links \/ last = Len(Outputs) + 1)
      /\ \A k \in Links : IsConfigured(k) => last <= k
  BY <1>2, <1>3
<1>5. /\ configured' = configured \cup {k \in Others : k < last}
      /\ m_configured' = (last = Len(Outputs) + 1)
      /\ refused' = (last \in Links /\ IsConfigured(last))
      /\ failed' = (failed \/ (~m_configured' /\ ~refused'))
      /\ Detailed < last => Conf
      /\ ~(Detailed < last) =>
           IF Detailed = last /\ ~m_is_configured THEN ConfThrows ELSE UNCHANGED emulatorVars
  BY <1>1
<1> HIDE DEF candidates, last
<1>6. /\ command = "none" /\ ~m_run_marker /\ ~m_configured
      /\ UNCHANGED <<m_run_marker, command, at, working>>
  BY DEF DoConf, NewCommand
<1>7. UNCHANGED <<setup, step>>
  BY <1>4, <1>5 DEF Conf, ConfThrows, emulatorVars, confVars, producerVars
<1>8. CommandInv'
  BY <1>6, <1>7 DEF CardInv, CommandInv
<1>9. IsConfigured(Detailed) = m_is_configured
  BY DEF IsConfigured
<1>10. CASE last = Len(Outputs) + 1
  <2>1. Detailed < last /\ \A k \in Links : k < last
    BY <1>10 DEF Links
  <2>2. m_is_configured' /\ m_file_source' = setup.filesize /\ m_configured'
    BY <1>5, <1>10, <2>1 DEF Conf
  <2>3. last \notin Links
    BY <1>10 DEF Links
  <2>4. ~refused'
    BY <1>5, <2>3
  <2>5. \A k \in Links : IsConfigured(k)'
    BY <1>5, <2>1, <2>2 DEF IsConfigured, Others
  <2>6. configured' \subseteq Others
    BY <1>5 DEF CardInv, LinksInv
  <2>7. LinksInv'
    BY <1>6, <1>7, <2>2, <2>4, <2>5, <2>6 DEF CardInv, LinksInv
  <2> QED
    BY <1>8, <2>7 DEF CardInv
<1>11. CASE last # Len(Outputs) + 1
  <2>1. last \in Links /\ ~m_configured'
    BY <1>4, <1>5, <1>11
  <2>2. failed'
    <3>1. CASE IsConfigured(last)
      <4>1. failed
        BY <1>6, <2>1, <3>1 DEF CardInv, LinksInv
      <4> QED
        BY <1>5, <4>1
    <3>2. CASE ~IsConfigured(last)
      <4>1. ~refused'
        BY <1>5, <3>2
      <4> QED
        BY <1>5, <2>1, <4>1
    <3> QED
      BY <3>1, <3>2
  <2>3. m_is_configured' => m_file_source' = setup.filesize
    <3>1. CASE Detailed < last
      BY <1>5, <3>1 DEF Conf
    <3>2. CASE ~(Detailed < last) /\ Detailed = last /\ ~m_is_configured
      BY <1>5, <3>2 DEF ConfThrows
    <3>3. CASE ~(Detailed < last) /\ ~(Detailed = last /\ ~m_is_configured)
      BY <1>5, <3>3 DEF emulatorVars, confVars, CardInv, LinksInv
    <3> QED
      BY <3>1, <3>2, <3>3
  <2>4. configured' \subseteq Others
    BY <1>5 DEF CardInv, LinksInv
  <2>5. LinksInv'
    BY <1>6, <1>7, <2>1, <2>2, <2>3, <2>4 DEF CardInv, LinksInv
  <2> QED
    BY <1>8, <2>5 DEF CardInv
<1> QED
  BY <1>10, <1>11

LEMMA NextCardInv == CardInv /\ [CardNext]_cardReader => CardInv'
<1> SUFFICES ASSUME CardInv, [CardNext]_cardReader PROVE CardInv'
  OBVIOUS
<1> USE LinksType DEF CardInv
<1>1. ASSUME UNCHANGED <<setup, m_is_configured, m_file_source, m_configured, configured,
                         failed, refused>>,
             (m_run_marker' \/ command' # "none") => m_configured
      PROVE  LinksInv'
  BY <1>1 DEF LinksInv, IsConfigured
<1>2. CASE DoConf
  BY <1>2, DoConfCardInv
<1>3. CASE DoConfAgain
  <2>1. LinksInv'
    BY <1>1, <1>3 DEF DoConfAgain, NewCommand, LinksInv, emulatorVars, confVars
  <2> QED
    BY <1>3, <2>1 DEF DoConfAgain, CommandInv, emulatorVars, producerVars
<1>4. CASE DoScrap
  <2>1. CommandInv'
    BY <1>4 DEF DoScrap, Scrap, CommandInv, producerVars
  <2>2. LinksInv'
    BY <1>4 DEF DoScrap, Scrap, LinksInv, IsConfigured
  <2> QED
    BY <2>1, <2>2
<1>5. CASE DoStart
  <2>1. LinksInv'
    BY <1>1, <1>5 DEF DoStart, NewCommand, emulatorVars, confVars
  <2>2. CommandInv'
    BY <1>5 DEF DoStart, CommandInv, emulatorVars, producerVars
  <2> QED
    BY <2>1, <2>2
<1>6. CASE StartLink
  <2>1. command = "start" /\ m_run_marker /\ at \in Links /\ at' = at + 1
        /\ UNCHANGED <<m_run_marker, m_configured, command, configured, refused, failed>>
        /\ UNCHANGED <<setup, m_is_configured, m_file_source>>
        /\ working' \subseteq working \cup (Others \cap {at})
    BY <1>6 DEF StartLink, CommandInv, Start, emulatorVars, confVars, Others
  <2>2. CommandInv'
    BY <2>1 DEF CommandInv
  <2>3. LinksInv'
    BY <1>1, <2>1 DEF LinksInv
  <2> QED
    BY <2>2, <2>3
<1>7. CASE DoStop
  <2>1. LinksInv'
    BY <1>1, <1>7 DEF DoStop, LinksInv, emulatorVars, confVars
  <2>2. CommandInv'
    BY <1>7 DEF DoStop, CommandInv, emulatorVars, producerVars, Others, Links
  <2> QED
    BY <2>1, <2>2
<1>8. CASE StopLink
  <2>1. LinksInv'
    BY <1>1, <1>8 DEF StopLink, LinksInv, emulatorVars, confVars
  <2>2. /\ command = "stop" /\ at \in Links /\ at' = at + 1 /\ ~m_run_marker
        /\ at = Detailed => step = "off"
        /\ at # Detailed => at \notin working
        /\ UNCHANGED <<m_run_marker, command, working, step>>
    BY <1>8 DEF StopLink, Stops, CommandInv, emulatorVars, producerVars
  <2>3. CommandInv'
    BY <2>2 DEF CommandInv, Others
  <2> QED
    BY <2>1, <2>3
<1>9. CASE CommandEnds
  <2>1. LinksInv'
    BY <1>1, <1>9 DEF CommandEnds, LinksInv, emulatorVars, confVars
  <2>2. /\ command \in {"start", "stop"} /\ at = Len(Outputs) + 1
        /\ command' = "none" /\ at' = 0
        /\ UNCHANGED <<m_run_marker, working, step>>
    BY <1>9 DEF CommandEnds, emulatorVars, producerVars
  <2>3. CommandInv'
    BY <2>2 DEF CommandInv, Others, Links
  <2> QED
    BY <2>1, <2>3
<1>10. CASE ProduceStep
  <2>1. UNCHANGED <<setup, m_is_configured, m_file_source, m_run_marker>> /\ step # "off"
    BY <1>10, ProduceFrame DEF ProduceStep
  <2>2. UNCHANGED <<m_configured, command, at, configured, working, refused, failed>>
    BY <1>10 DEF ProduceStep
  <2>3. LinksInv'
    BY <1>1, <2>1, <2>2 DEF LinksInv
  <2>4. CommandInv'
    BY <2>1, <2>2 DEF CommandInv
  <2> QED
    BY <2>3, <2>4
<1>11. ASSUME NEW k \in Others, OtherEnds(k) PROVE CardInv'
  <2>1. LinksInv'
    BY <1>1, <1>11 DEF OtherEnds, LinksInv, emulatorVars, confVars
  <2>2. CommandInv'
    BY <1>11 DEF OtherEnds, CommandInv, emulatorVars, producerVars
  <2> QED
    BY <2>1, <2>2
<1>12. CASE TimePasses \/ UNCHANGED cardReader
  <2>1. UNCHANGED <<confVars, producerVars, cardVars>>
    BY <1>12 DEF TimePasses, cardReader, emulatorVars
  <2>2. LinksInv'
    BY <1>1, <2>1 DEF LinksInv, confVars, cardVars
  <2>3. CommandInv'
    BY <2>1 DEF CommandInv, producerVars, cardVars
  <2> QED
    BY <2>2, <2>3
<1> QED
  BY <1>2, <1>3, <1>4, <1>5, <1>6, <1>7, <1>8, <1>9, <1>10, <1>11, <1>12 DEF CardNext, Commands

(* The specification without its fairness, which no invariant needs. *)
LEMMA CardSteps == CardSpec => CardInit /\ [][CardNext]_cardReader
BY PTL DEF CardSpec

LEMMA CardInvAlways == CardSpec => []CardInv
BY CardSteps, InitCardInv, NextCardInv, PTL

(* A producer thread at work has its file, and its link and all links of   *)
(* the card are configured: scrap() and conf() never meet a thread of the  *)
(* run before, as do_stop() of FakeCardReaderBase waited for each of them, *)
(* whatever the number of links and wherever a conf() failed.              *)
THEOREM FilesSafety == CardSpec => []FilesWhileProducing
<1>1. CardInv => FilesWhileProducing
  BY SetupAssumption, LinksType DEF CardInv, CommandInv, LinksInv, FilesWhileProducing, IsConfigured, NoFile
<1> QED
  BY <1>1, CardInvAlways, PTL

(* do_conf() of FakeCardReaderBase finds a link configured already only    *)
(* where an earlier conf() failed and was not undone by scrap().           *)
THEOREM RefusalSafety == CardSpec => []RefusedOnlyAfterFailure
<1>1. CardInv => RefusedOnlyAfterFailure
  BY DEF CardInv, LinksInv, RefusedOnlyAfterFailure
<1> QED
  BY <1>1, CardInvAlways, PTL

-----------------------------------------------------------------------------
(* The producer's pace.                                                    *)

(* What of the emulator the steps of others leave alone. *)
producing == <<limiterVars, setup, previous_ts, step, ts_0, timestamp, offset, dropout_index, i,
               m_packet_count_tot, payload>>

OthersStep ==
  \/ DoConf \/ DoConfAgain \/ DoScrap \/ DoStart \/ DoStop \/ StopLink \/ CommandEnds
  \/ \E k \in Others : OtherEnds(k)
  \/ UNCHANGED cardReader

(* Commands change the emulator only where they start it, or when its      *)
(* thread is not at work.                                                  *)
LEMMA OthersFrame ==
  ASSUME CardInv, OthersStep
  PROVE  /\ UNCHANGED producing
         /\ UNCHANGED <<m_file_source, m_time_to_wait>> \/ step = "off"
         /\ generator' \in {generator, NewGenerator}
<1> USE DEF producing, emulatorVars, confVars, producerVars
<1>1. CASE DoConf
  <2>1. Conf \/ ConfThrows \/ UNCHANGED emulatorVars
    BY <1>1 DEF DoConf
  <2>2. step = "off"
    BY <1>1 DEF DoConf, NewCommand, CardInv, CommandInv
  <2> QED
    BY <2>1, <2>2 DEF Conf, ConfThrows
<1>2. CASE DoScrap
  <2>1. step = "off"
    BY <1>2 DEF DoScrap, CardInv, CommandInv
  <2> QED
    BY <1>2, <2>1 DEF DoScrap, Scrap
<1>3. CASE ~DoConf /\ ~DoScrap
  BY <1>3 DEF OthersStep, DoConfAgain, DoStart, DoStop, StopLink, CommandEnds, OtherEnds, cardReader
<1> QED
  BY <1>1, <1>2, <1>3

(* Every step is one of others, the start of the emulator, one of its      *)
(* thread, or time passes.                                                 *)
LEMMA CardCases ==
  ASSUME [CardNext]_cardReader
  PROVE  OthersStep \/ Start \/ Produce \/ TimePasses \/ UNCHANGED emulatorVars
BY DEF CardNext, Commands, StartLink, ProduceStep, OthersStep

(* In each round as much of emulated time goes by as belongs to one        *)
(* period: the time is that of the periods that have elapsed, and one more *)
(* while the limiter has yet to wait for it.                               *)
PaceInv ==
  /\ IInv
  /\ granted = earned + m_period
  /\ timestamp \in Nat /\ ts_0 \in Nat
  /\ step \in {"off", "begin", "loop", "frame", "limit"}
  /\ step = "begin" => earned = 0
  /\ step \in {"loop", "frame"} => (timestamp - ts_0) * m_period = TicksPerRound * earned
  /\ step = "limit" => (timestamp - ts_0) * m_period = TicksPerRound * granted

LEMMA TicksType == TicksPerRound \in Nat
BY SetupAssumption DEF TicksPerRound

LEMMA PeriodType ==
  ASSUME IInv
  PROVE  m_period \in Nat /\ earned \in Nat /\ granted \in Nat /\ clock \in Nat
BY LimiterAssumption DEF IInv, TypeOK

LEMMA InitPaceInv == CardInit => PaceInv
<1> SUFFICES ASSUME CardInit PROVE PaceInv
  OBVIOUS
<1>1. IInv
  BY InitIInv DEF CardInit, EmulatorInit
<1>2. granted = earned + m_period
  BY <1>1, PeriodType DEF CardInit, EmulatorInit, Init
<1> QED
  BY <1>1, <1>2 DEF CardInit, EmulatorInit, PaceInv

LEMMA ProducePaceInv ==
  ASSUME PaceInv, Produce
  PROVE  PaceInv'
<1> USE TicksType, PeriodType
<1>0. /\ m_period \in Nat /\ earned \in Nat /\ granted \in Nat /\ IInv
      /\ timestamp \in Nat /\ ts_0 \in Nat
  BY DEF PaceInv
<1>1. ASSUME UNCHANGED limiterVars PROVE IInv'
  BY <1>0, <1>1 DEF IInv, TypeOK, DeadlineInv, NeverFaster, TooLate, limiterVars
<1>2. TicksPerRound' = TicksPerRound
  BY DEF TicksPerRound
<1>3. CASE Begin
  <2>1. /\ step = "begin" /\ step' = "loop" /\ ts_0' \in Nat /\ timestamp' = ts_0'
        /\ UNCHANGED limiterVars
    BY <1>3, SetupAssumption DEF Begin
  <2>2. earned = 0
    BY <2>1 DEF PaceInv
  <2>3. (timestamp' - ts_0') * m_period = 0 /\ TicksPerRound * earned = 0
    <3>1. timestamp' - ts_0' = 0
      BY <2>1, DifferenceZero
    <3> QED
      BY <1>0, <2>2, <3>1, ProductZero
  <2> QED
    BY <1>0, <1>1, <1>2, <2>1, <2>2, <2>3 DEF PaceInv, limiterVars
<1>4. CASE Round
  <2>1. /\ step = "loop" /\ step' \in {"frame", "off"}
        /\ UNCHANGED <<limiterVars, timestamp, ts_0>>
    BY <1>4 DEF Round
  <2> QED
    BY <1>1, <1>2, <2>1 DEF PaceInv, limiterVars
<1>5. CASE MakeFrame \/ DropFrame
  <2>1. /\ step = "frame"
        /\ UNCHANGED <<limiterVars, timestamp, ts_0, step>>
    BY <1>5 DEF MakeFrame, DropFrame
  <2> QED
    BY <1>1, <1>2, <2>1 DEF PaceInv, limiterVars
<1>6. CASE EndRound
  <2>1. /\ step = "frame" /\ step' = "limit"
        /\ timestamp' = timestamp + TicksPerRound
        /\ UNCHANGED <<limiterVars, ts_0>>
    BY <1>6 DEF EndRound
  <2>2. /\ (timestamp - ts_0) * m_period = TicksPerRound * earned
        /\ granted = earned + m_period
    BY <2>1 DEF PaceInv
  <2>3. timestamp' - ts_0 = (timestamp - ts_0) + TicksPerRound /\ timestamp - ts_0 \in Int
    BY <1>0, <2>1
  <2>4. (timestamp' - ts_0) * m_period = (timestamp - ts_0) * m_period + TicksPerRound * m_period
    BY <1>0, <2>3, Distributes
  <2>5. TicksPerRound * granted = TicksPerRound * earned + TicksPerRound * m_period
    BY <1>0, <2>2, Distributes
  <2>6. (timestamp' - ts_0) * m_period = TicksPerRound * granted
    BY <2>2, <2>4, <2>5
  <2>7. timestamp' \in Nat
    BY <1>0, <2>1
  <2> QED
    BY <1>0, <1>1, <1>2, <2>1, <2>2, <2>6, <2>7 DEF PaceInv, limiterVars
<1>7. CASE LimitRound
  <2>1. /\ step = "limit" /\ Limit
        /\ step' = IF pc' = "task" THEN "loop" ELSE "limit"
        /\ UNCHANGED <<ts_0, timestamp>>
    BY <1>7 DEF LimitRound
  <2>2. IInv'
    BY <1>0, <2>1, LimitIInv
  <2>3. UNCHANGED m_period
    BY <2>1 DEF Limit, LimitBegin, Wait, Restart, Advance, Return
  <2>4. CASE LimitBegin \/ Wait
    <3>1. pc' # "task" /\ UNCHANGED <<granted, earned>>
      BY <2>4 DEF LimitBegin, Wait
    <3> QED
      BY <1>2, <2>1, <2>2, <2>3, <3>1 DEF PaceInv
  <2>5. CASE Restart \/ Advance
    <3>1. pc' = "task" /\ granted' = granted + m_period /\ earned' = granted
      BY <2>5 DEF Restart, Advance, Return
    <3> QED
      BY <1>2, <2>1, <2>2, <2>3, <3>1 DEF PaceInv
  <2> QED
    BY <2>1, <2>4, <2>5 DEF Limit
<1> QED
  BY <1>3, <1>4, <1>5, <1>6, <1>7 DEF Produce

LEMMA NextPaceInv == CardInv /\ PaceInv /\ [CardNext]_cardReader => PaceInv'
<1> SUFFICES ASSUME CardInv, PaceInv, [CardNext]_cardReader PROVE PaceInv'
  OBVIOUS
<1>1. ASSUME UNCHANGED <<limiterVars, step, ts_0, timestamp>> PROVE PaceInv'
  <2>1. IInv'
    BY <1>1 DEF PaceInv, IInv, TypeOK, DeadlineInv, NeverFaster, TooLate, limiterVars
  <2>2. TicksPerRound' = TicksPerRound
    BY DEF TicksPerRound
  <2> QED
    BY <1>1, <2>1, <2>2 DEF PaceInv, limiterVars
<1>2. CASE OthersStep \/ UNCHANGED emulatorVars
  <2>1. UNCHANGED <<limiterVars, step, ts_0, timestamp>>
    BY <1>2, OthersFrame DEF producing, emulatorVars, producerVars
  <2> QED
    BY <1>1, <2>1
<1>3. CASE Start
  <2>1. /\ clock' = 0 /\ m_now' = 0 /\ m_deadline' = m_period /\ pc' = "task"
        /\ granted' = m_period /\ earned' = 0 /\ step' = "begin"
        /\ UNCHANGED <<m_period, ts_0, timestamp>>
    BY <1>3 DEF Start
  <2>2. m_period \in Nat /\ m_period \in Periods
    BY PeriodType DEF PaceInv, IInv, TypeOK
  <2>3. IInv'
    BY <2>1, <2>2 DEF IInv, TypeOK, DeadlineInv, NeverFaster, TooLate
  <2> QED
    BY <2>1, <2>2, <2>3 DEF PaceInv
<1>4. CASE Produce
  BY <1>4, ProducePaceInv
<1>5. CASE TimePasses
  <2>1. /\ clock' = clock + 1
        /\ UNCHANGED <<m_period, m_now, m_deadline, pc, granted, earned, step, ts_0, timestamp>>
    BY <1>5 DEF TimePasses, producerVars
  <2>2. IInv'
    BY <2>1, LimiterAssumption DEF PaceInv, IInv, TypeOK, DeadlineInv, NeverFaster, TooLate
  <2>3. TicksPerRound' = TicksPerRound
    BY DEF TicksPerRound
  <2> QED
    BY <2>1, <2>2, <2>3 DEF PaceInv
<1> QED
  BY <1>2, <1>3, <1>4, <1>5, CardCases

LEMMA PaceInvAlways == CardSpec => []PaceInv
BY CardSteps, InitPaceInv, NextPaceInv, CardInvAlways, PTL

(* The emulator's limiter is never faster than its rate, over all runs of  *)
(* the card (limit() of RateLimiter in run_produce of                      *)
(* SourceEmulatorModel).                                                   *)
THEOREM EmulatorNeverFaster == CardSpec => []NeverFaster
<1>1. PaceInv => NeverFaster
  BY DEF PaceInv, IInv
<1> QED
  BY <1>1, PaceInvAlways, PTL

(* The timestamps of emulated data are at most one round ahead of what the *)
(* rate allows since start(), for any period, any number of frames in a    *)
(* round and any delays of the thread (run_produce of                      *)
(* SourceEmulatorModel).                                                   *)
THEOREM DataPaceSafety == CardSpec => []DataNotAheadOfClock
<1>1. ASSUME PaceInv PROVE DataNotAheadOfClock
  <2> USE TicksType
  <2>1. /\ m_period \in Nat /\ earned \in Nat /\ granted \in Nat /\ clock \in Nat
        /\ granted = earned + m_period /\ earned <= clock
    BY <1>1, PeriodType DEF PaceInv, IInv, NeverFaster
  <2>2. /\ TicksPerRound * earned <= TicksPerRound * (clock + m_period)
        /\ TicksPerRound * granted <= TicksPerRound * (clock + m_period)
    <3>1. earned <= clock + m_period /\ granted <= clock + m_period /\ clock + m_period \in Int
      BY <2>1
    <3> QED
      BY <2>1, <3>1, ProductMonotonic
  <2>3. step \notin {"off", "begin"} =>
          (timestamp - ts_0) * m_period \in {TicksPerRound * earned, TicksPerRound * granted}
    BY <1>1 DEF PaceInv
  <2> QED
    BY <2>2, <2>3 DEF DataNotAheadOfClock, TicksPerRound
<1> QED
  BY <1>1, PaceInvAlways, PTL

-----------------------------------------------------------------------------
(* The frames: error bits and hits.                                        *)

LEMMA SetupType ==
  ASSUME setup \in Setups
  PROVE  /\ setup.filesize \in Nat
         /\ setup.error_occurrences \in Seq(Nat) /\ setup.no_error_occurrences \in Seq(Nat)
         /\ Len(setup.error_occurrences) \in Nat \ {0}
         /\ Len(setup.no_error_occurrences) = Len(setup.error_occurrences)
         /\ setup.TP_rate_per_channel \in Nat
<1>1. /\ setup.error_occurrences \in Seq(Nat) /\ setup.error_occurrences # << >>
      /\ setup.filesize \in Nat /\ setup.no_error_occurrences \in Seq(Nat)
      /\ Len(setup.no_error_occurrences) = Len(setup.error_occurrences)
      /\ setup.TP_rate_per_channel \in Nat
  BY SetupAssumption
<1> QED
  BY <1>1

LEMMA ElementType ==
  ASSUME NEW T, NEW s \in Seq(T), NEW k \in 1 .. Len(s)
  PROVE  s[k] \in T
OBVIOUS

(* The error rate is zero. *)
NoErrors == \A j \in 1 .. Len(setup.error_occurrences) : setup.error_occurrences[j] = 0

(* A state of the error bit generator: its positions are in the tables,    *)
(* and with error rate zero its bursts of errors are empty.                *)
GeneratorOK(g) ==
  /\ g \in [errors_at : 0 .. Len(setup.error_occurrences) - 1,
            no_errors_at : 0 .. Len(setup.error_occurrences) - 1,
            current : Nat, count : Nat, set : BOOLEAN]
  /\ (NoErrors /\ g.set) => g.current = 0

LEMMA NewGeneratorOK == setup \in Setups => GeneratorOK(NewGenerator)
BY SetupType DEF GeneratorOK, NewGenerator

LEMMA AfterInTable ==
  ASSUME setup \in Setups, NEW j \in Nat
  PROVE  After(j) \in 0 .. Len(setup.error_occurrences) - 1
<1> DEFINE L == Len(setup.error_occurrences)
<1>1. L \in Nat \ {0}
  BY SetupType
<1> HIDE DEF L
<1>2. (j + 1) % L \in 0 .. L - 1
  BY <1>1
<1> QED
  BY <1>2 DEF After, L

(* A burst of errors is taken from the table of errors: next() keeps the   *)
(* generator's state in order.                                             *)
LEMMA NextErrorBitsOK ==
  ASSUME setup \in Setups, NEW g, GeneratorOK(g)
  PROVE  GeneratorOK(NextErrorBits(g))
<1> DEFINE L == Len(setup.error_occurrences)
           e == After(g.errors_at)
           n == After(g.no_errors_at)
           none == Occurrence(setup.no_error_occurrences, g.no_errors_at)
           some == Occurrence(setup.error_occurrences, g.errors_at)
<1>1. /\ g \in [errors_at : 0 .. L - 1, no_errors_at : 0 .. L - 1,
                current : Nat, count : Nat, set : BOOLEAN]
      /\ L \in Nat \ {0}
  BY SetupType DEF GeneratorOK
<1>2. /\ g.errors_at \in 0 .. L - 1 /\ g.no_errors_at \in 0 .. L - 1
      /\ g.count \in Nat /\ g.current \in Nat /\ g.set \in BOOLEAN
  BY <1>1
<1>3. e \in 0 .. L - 1 /\ n \in 0 .. L - 1
  <2>1. g.errors_at \in Nat /\ g.no_errors_at \in Nat
    BY <1>1, <1>2
  <2> QED
    BY <2>1, AfterInTable
<1>4. none \in Nat /\ some \in Nat /\ (NoErrors => some = 0)
  <2>1. g.errors_at + 1 \in 1 .. L /\ g.no_errors_at + 1 \in 1 .. L
    BY <1>1, <1>2
  <2>2. none \in Nat /\ some \in Nat
    BY <2>1, SetupType, ElementType DEF Occurrence
  <2>3. NoErrors => some = 0
    BY <2>1 DEF Occurrence, NoErrors
  <2> QED
    BY <2>2, <2>3
<1>5. CASE g.count < g.current
  <2>1. NextErrorBits(g) = [g EXCEPT !.count = @ + 1]
    BY <1>5 DEF NextErrorBits
  <2> QED
    BY <1>1, <1>2, <2>1 DEF GeneratorOK
<1> DEFINE Generators == [errors_at : 0 .. L - 1, no_errors_at : 0 .. L - 1,
                          current : Nat, count : Nat, set : BOOLEAN]
<1>6. CASE ~(g.count < g.current) /\ g.set
  <2> DEFINE g1 == [g EXCEPT !.errors_at = e]
             g2 == [g1 EXCEPT !.set = FALSE]
             g3 == [g2 EXCEPT !.count = 0]
             g4 == [g3 EXCEPT !.current = none]
             g5 == [g4 EXCEPT !.count = @ + 1]
  <2>1. NextErrorBits(g) = g5
    BY <1>6 DEF NextErrorBits
  <2> HIDE DEF e, n, none, some
  <2>2. g1 \in Generators
    BY <1>1, <1>3
  <2>3. g2 \in Generators /\ g2.set = FALSE
    <3> HIDE DEF g1
    <3> QED
      BY <2>2
  <2>4. g3 \in Generators /\ g3.set = FALSE
    <3> HIDE DEF g2
    <3> QED
      BY <2>3
  <2>5. g4 \in Generators /\ g4.set = FALSE
    <3> HIDE DEF g3
    <3> QED
      BY <1>4, <2>4
  <2>6. g5 \in Generators /\ g5.set = FALSE
    <3> HIDE DEF g4
    <3> QED
      BY <2>5
  <2> HIDE DEF g5
  <2> QED
    BY <2>1, <2>6 DEF GeneratorOK
<1>7. CASE ~(g.count < g.current) /\ ~g.set
  <2> DEFINE g1 == [g EXCEPT !.no_errors_at = n]
             g2 == [g1 EXCEPT !.set = TRUE]
             g3 == [g2 EXCEPT !.count = 0]
             g4 == [g3 EXCEPT !.current = some]
             g5 == [g4 EXCEPT !.count = @ + 1]
  <2>1. NextErrorBits(g) = g5
    BY <1>7 DEF NextErrorBits
  <2> HIDE DEF e, n, none, some
  <2>2. g1 \in Generators
    BY <1>1, <1>3
  <2>3. g2 \in Generators
    <3> HIDE DEF g1
    <3> QED
      BY <2>2
  <2>4. g3 \in Generators
    <3> HIDE DEF g2
    <3> QED
      BY <2>3
  <2>5. g4 \in Generators /\ g4.current = some
    <3> HIDE DEF g3
    <3> QED
      BY <1>4, <2>4
  <2>6. g5 \in Generators /\ g5.current = some
    <3> HIDE DEF g4
    <3> QED
      BY <2>5
  <2> HIDE DEF g5
  <2> QED
    BY <1>4, <2>1, <2>6 DEF GeneratorOK
<1> QED
  BY <1>5, <1>6, <1>7

(* The recursive function Frames exists: it is built up one frame after    *)
(* the other.                                                              *)
LEMMA FramesEquation ==
  \A n \in 0 .. num_frames :
    Frames[n] = IF n = 0 THEN generator ELSE NextErrorBits(Frames[n - 1])
<1> DEFINE Is(f, m) == f = [n \in 0 .. m |-> IF n = 0 THEN generator ELSE NextErrorBits(f[n - 1])]
           S == {m \in 0 .. num_frames : \E f : Is(f, m)}
<1>0. num_frames \in Nat
  BY SetupAssumption
<1>1. 0 \in S
  <2>1. Is([n \in 0 .. 0 |-> generator], 0)
    OBVIOUS
  <2>2. 0 \in 0 .. num_frames
    BY <1>0
  <2> HIDE DEF Is
  <2> QED
    BY <2>1, <2>2
<1>2. ASSUME NEW k \in 0 .. num_frames - 1, k \in S PROVE k + 1 \in S
  <2>1. PICK f : Is(f, k)
    BY <1>2
  <2> DEFINE g == [n \in 0 .. k + 1 |-> IF n = k + 1 THEN NextErrorBits(f[k]) ELSE f[n]]
  <2>2. ASSUME NEW n \in 0 .. k + 1
        PROVE  g[n] = IF n = 0 THEN generator ELSE NextErrorBits(g[n - 1])
    <3>1. CASE n = k + 1
      <4>1. n # 0 /\ n - 1 = k /\ k \in 0 .. k + 1 /\ k # k + 1
        BY <1>0, <3>1
      <4>2. g[k] = f[k] /\ g[n] = NextErrorBits(f[k])
        BY <3>1, <4>1
      <4> HIDE DEF g
      <4> QED
        BY <4>1, <4>2
    <3>2. CASE n # k + 1
      <4>1. n \in 0 .. k /\ (n # 0 => n - 1 \in 0 .. k /\ n - 1 \in 0 .. k + 1 /\ n - 1 # k + 1)
        BY <1>0, <3>2
      <4>2. f[n] = IF n = 0 THEN generator ELSE NextErrorBits(f[n - 1])
        BY <2>1, <4>1
      <4>3. g[n] = f[n] /\ (n # 0 => g[n - 1] = f[n - 1])
        BY <3>2, <4>1
      <4> HIDE DEF g
      <4> QED
        BY <4>2, <4>3
    <3> QED
      BY <3>1, <3>2
  <2>3. g = [n \in 0 .. k + 1 |-> g[n]]
    OBVIOUS
  <2>4. Is(g, k + 1)
    <3> HIDE DEF g
    <3> QED
      BY <2>2, <2>3
  <2>5. k + 1 \in 0 .. num_frames
    BY <1>0
  <2> HIDE DEF g, Is
  <2> QED
    BY <2>4, <2>5
<1>3. num_frames \in S
  <2> HIDE DEF S
  <2>1. 0 .. num_frames \subseteq S
    BY <1>0, <1>1, <1>2, UpTo
  <2> QED
    BY <1>0, <2>1
<1>4. \E f : Is(f, num_frames)
  BY <1>3
<1>5. Is(Frames, num_frames)
  BY <1>4 DEF Frames
<1> QED
  BY <1>5

LEMMA FramesOK ==
  ASSUME setup \in Setups, GeneratorOK(generator)
  PROVE  \A n \in 0 .. num_frames : GeneratorOK(Frames[n])
<1> DEFINE S == {n \in 0 .. num_frames : GeneratorOK(Frames[n])}
<1>0. num_frames \in Nat
  BY SetupAssumption
<1>1. 0 \in S
  <2>1. Frames[0] = generator
    BY <1>0, FramesEquation
  <2> QED
    BY <1>0, <2>1
<1>2. ASSUME NEW k \in 0 .. num_frames - 1, k \in S PROVE k + 1 \in S
  <2>1. k + 1 \in 0 .. num_frames /\ k + 1 # 0 /\ (k + 1) - 1 = k
    BY <1>0
  <2>2. Frames[k + 1] = NextErrorBits(Frames[k])
    BY <2>1, FramesEquation
  <2>3. GeneratorOK(Frames[k + 1])
    BY <1>2, <2>2, NextErrorBitsOK
  <2> QED
    BY <2>1, <2>3
<1>3. 0 .. num_frames \subseteq S
  <2> HIDE DEF S
  <2> QED
    BY <1>0, <1>1, <1>2, UpTo
<1> QED
  BY <1>3

(* The last hit is at most the interval behind the last payload, while the *)
(* interval is what it was when the payload was made.                      *)
FramesInv ==
  /\ GeneratorOK(generator)
  /\ timestamp \in Nat /\ previous_ts \in Nat /\ m_time_to_wait \in Nat
  /\ NoErrors => ~payload.errors
  /\ (setup.pattern /\ payload # NoPayload /\ step # "off")
       => payload.timestamp - previous_ts \in 0 .. m_time_to_wait

LEMMA InitFramesInv == CardInit => FramesInv
<1> SUFFICES ASSUME CardInit PROVE FramesInv
  OBVIOUS
<1>1. GeneratorOK(generator)
  BY NewGeneratorOK DEF CardInit, EmulatorInit
<1>2. ~payload.errors
  BY DEF CardInit, EmulatorInit, NoPayload
<1> QED
  BY <1>1, <1>2, SetupAssumption DEF CardInit, EmulatorInit, FramesInv

LEMMA MakeFrameFramesInv ==
  ASSUME FramesInv, setup \in Setups, MakeFrame
  PROVE  FramesInv'
<1>1. /\ UNCHANGED <<setup, m_time_to_wait, timestamp, step>>
      /\ generator' = Frames[num_frames]
      /\ previous_ts' = IF setup.pattern /\ HitIsDue THEN timestamp ELSE previous_ts
      /\ payload'.timestamp = timestamp
      /\ payload'.errors = (\E n \in 1 .. num_frames : HasErrorBits(Frames[n]))
  BY DEF MakeFrame, threadFrame, confVars
<1>2. \A n \in 0 .. num_frames : GeneratorOK(Frames[n])
  BY FramesOK DEF FramesInv
<1>3. num_frames \in 0 .. num_frames /\ \A n \in 1 .. num_frames : n \in 0 .. num_frames
  BY SetupAssumption
<1>4. GeneratorOK(generator)'
  BY <1>1, <1>2, <1>3 DEF GeneratorOK, NoErrors
<1>5. NoErrors' => ~payload'.errors
  BY <1>1, <1>2, <1>3 DEF GeneratorOK, NoErrors, HasErrorBits
<1>6. timestamp' \in Nat /\ previous_ts' \in Nat /\ m_time_to_wait' \in Nat
  BY <1>1 DEF FramesInv
<1>7. setup.pattern => payload'.timestamp - previous_ts' \in 0 .. m_time_to_wait
  BY <1>1 DEF FramesInv, HitIsDue
<1> QED
  BY <1>1, <1>4, <1>5, <1>6, <1>7 DEF FramesInv

(* conf() divides the interval at most. *)
LEMMA TimeToWaitType ==
  ASSUME CardInv, m_time_to_wait \in Nat, OthersStep
  PROVE  m_time_to_wait' \in Nat
<1>1. CASE DoConf
  <2>1. Conf \/ ConfThrows \/ UNCHANGED emulatorVars
    BY <1>1 DEF DoConf
  <2>2. CASE Conf
    <3> DEFINE r == setup.TP_rate_per_channel
    <3>1. r \in Nat
      BY SetupType DEF CardInv, LinksInv
    <3>2. m_time_to_wait' \in {m_time_to_wait} \cup
                              (IF r # 0 THEN {m_time_to_wait \div r} ELSE {})
      BY <2>2 DEF Conf
    <3> HIDE DEF r
    <3>3. r # 0 => m_time_to_wait \div r \in Nat
      BY <3>1
    <3> QED
      BY <3>2, <3>3
  <2> QED
    BY <2>1, <2>2 DEF ConfThrows, emulatorVars, confVars
<1>2. CASE ~DoConf
  BY <1>2 DEF OthersStep, DoConfAgain, DoScrap, Scrap, DoStart, DoStop, StopLink, CommandEnds,
              OtherEnds, cardReader, emulatorVars, confVars
<1> QED
  BY <1>1, <1>2

LEMMA NextFramesInv == CardInv /\ PaceInv' /\ FramesInv /\ [CardNext]_cardReader => FramesInv'
<1> SUFFICES ASSUME CardInv, PaceInv', FramesInv, [CardNext]_cardReader PROVE FramesInv'
  OBVIOUS
<1>0. setup \in Setups
  BY DEF CardInv, LinksInv
<1>1. timestamp' \in Nat
  BY DEF PaceInv
<1>2. ASSUME UNCHANGED <<setup, previous_ts, payload>>, GeneratorOK(generator'),
             m_time_to_wait' \in Nat,
             step' # "off" => step # "off" /\ UNCHANGED m_time_to_wait
      PROVE  FramesInv'
  BY <1>1, <1>2 DEF FramesInv, GeneratorOK, NoErrors
<1>3. CASE OthersStep \/ UNCHANGED emulatorVars
  <2>1. /\ UNCHANGED <<setup, previous_ts, payload, step>>
        /\ UNCHANGED m_time_to_wait \/ step = "off"
        /\ generator' \in {generator, NewGenerator}
    BY <1>3, OthersFrame DEF producing, emulatorVars, confVars, producerVars
  <2>2. GeneratorOK(generator')
    BY <1>0, <2>1, NewGeneratorOK DEF FramesInv
  <2>3. m_time_to_wait' \in Nat
    BY <1>3, TimeToWaitType DEF FramesInv, emulatorVars, confVars
  <2> QED
    BY <1>2, <2>1, <2>2, <2>3
<1>4. CASE Start
  <2>1. payload' = NoPayload /\ UNCHANGED <<setup, m_time_to_wait, generator, previous_ts>>
    BY <1>4 DEF Start, confVars
  <2>2. ~payload'.errors
    BY <2>1 DEF NoPayload
  <2> QED
    BY <1>1, <2>1, <2>2 DEF FramesInv, GeneratorOK, NoErrors
<1>5. CASE Produce
  <2>1. CASE MakeFrame
    BY <1>0, <2>1, MakeFrameFramesInv
  <2>2. CASE ~MakeFrame
    <3>1. /\ step # "off"
          /\ UNCHANGED <<setup, m_time_to_wait, generator, previous_ts, payload>>
      BY <1>5, <2>2 DEF Produce, Begin, Round, DropFrame, EndRound, LimitRound, threadFrame,
                        confVars
    <3> QED
      BY <1>2, <3>1 DEF FramesInv
  <2> QED
    BY <2>1, <2>2
<1>6. CASE TimePasses
  BY <1>2, <1>6 DEF TimePasses, confVars, producerVars, FramesInv
<1> QED
  BY <1>3, <1>4, <1>5, <1>6, CardCases

LEMMA FramesInvAlways == CardSpec => []FramesInv
BY CardSteps, InitFramesInv, NextFramesInv, CardInvAlways, PaceInvAlways, PTL

(* A link with error rate zero never carries error bits, and with the ADC  *)
(* pattern no hit is overdue in any frame of a run, for any tables, any    *)
(* number of frames in an element, any first value of previous_ts and      *)
(* timestamps that begin anywhere (next() of ErrorBitGenerator and         *)
(* run_produce of SourceEmulatorModel).                                    *)
THEOREM FramesSafety == CardSpec => []FramesAsConfigured
<1>1. FramesInv => FramesAsConfigured
  BY DEF FramesInv, FramesAsConfigured, NoErrors
<1> QED
  BY <1>1, FramesInvAlways, PTL

-----------------------------------------------------------------------------
(* The payloads: the elements of the file in turn.                         *)

(* Whole elements in the file. *)
Elements == m_file_source \div ElementSize

(* Where the next element is taken from. *)
Wrapped == IF offset = Elements THEN 0 ELSE offset

(* The files are not smaller than an element. *)
WholeElements == \A s \in Setups : s.filesize >= ElementSize

(* The next element is that of the number of payloads so far, round the    *)
(* file, and the last payload had the one before.                          *)
PlayInv ==
  /\ m_packet_count_tot \in Nat
  /\ step = "begin" => payload = NoPayload /\ m_packet_count_tot = 0
  /\ step \notin {"off", "begin"} =>
       offset \in 0 .. Elements /\ Wrapped = m_packet_count_tot % Elements
  /\ (payload # NoPayload /\ step # "off") =>
       /\ m_packet_count_tot > 0
       /\ payload.element = (m_packet_count_tot - 1) % Elements

LEMMA QuotientFacts ==
  ASSUME NEW f \in Nat, NEW e \in Nat \ {0}, f >= e
  PROVE  f \div e \in Nat \ {0} /\ (f \div e) * e <= f
<1>1. f \div e \in Int /\ f = e * (f \div e) + (f % e) /\ f % e \in 0 .. e - 1
  OBVIOUS
<1> DEFINE q == f \div e
<1>2. e * q = q * e
  BY <1>1
<1>3. q > 0
  <2> SUFFICES ASSUME q <= 0 PROVE FALSE
    BY <1>1
  <2>1. e * q <= e * 0 /\ e * 0 = 0
    BY <1>1, ProductMonotonic, ProductZero
  <2> QED
    BY <1>1, <2>1
<1> QED
  BY <1>1, <1>2, <1>3

(* A remainder is determined by the number. *)
LEMMA RemainderNotLess ==
  ASSUME NEW n \in Nat \ {0}, NEW x \in Int, NEW y \in Int,
         NEW r \in 0 .. n - 1, NEW s \in 0 .. n - 1, n * x + r = n * y + s
  PROVE  ~(x < y)
<1> SUFFICES ASSUME x < y PROVE FALSE
  OBVIOUS
<1>1. x + 1 \in Int /\ x + 1 <= y
  OBVIOUS
<1>2. n * (x + 1) <= n * y
  BY <1>1, ProductMonotonic
<1>3. n * (x + 1) = n * x + n * 1 /\ n * 1 = n
  BY Distributes
<1>4. n * x \in Int /\ n * y \in Int
  OBVIOUS
<1> QED
  BY <1>2, <1>3, <1>4

LEMMA RemainderUnique ==
  ASSUME NEW n \in Nat \ {0}, NEW x \in Int, NEW y \in Int,
         NEW r \in 0 .. n - 1, NEW s \in 0 .. n - 1, n * x + r = n * y + s
  PROVE  r = s
<1>1. x = y
  <2>1. ~(x < y)
    BY RemainderNotLess
  <2>2. ~(y < x)
    BY RemainderNotLess
  <2> QED
    BY <2>1, <2>2
<1>2. n * x \in Int
  OBVIOUS
<1> QED
  BY <1>1, <1>2

LEMMA QuotientAndRemainder ==
  ASSUME NEW m \in Nat, NEW n \in Nat \ {0}
  PROVE  m % n \in 0 .. n - 1 /\ \E q \in Int : m = n * q + (m % n)
<1>1. m \div n \in Int /\ m = n * (m \div n) + (m % n) /\ m % n \in 0 .. n - 1
  OBVIOUS
<1> QED
  BY <1>1

LEMMA Successor ==
  ASSUME NEW m \in Nat, NEW n \in Nat \ {0}
  PROVE  /\ m % n \in 0 .. n - 1
         /\ (m + 1) % n = IF (m % n) + 1 = n THEN 0 ELSE (m % n) + 1
<1> DEFINE r == m % n
           s == (m + 1) % n
<1>1. r \in 0 .. n - 1 /\ s \in 0 .. n - 1
  BY QuotientAndRemainder
<1>2. PICK q \in Int : m = n * q + r
  BY QuotientAndRemainder
<1>3. PICK p \in Int : m + 1 = n * p + s
  <2> DEFINE k == m + 1
  <2>1. k \in Nat
    OBVIOUS
  <2> HIDE DEF k
  <2>2. \E p \in Int : k = n * p + (k % n)
    BY <2>1, QuotientAndRemainder
  <2> QED
    BY <2>2 DEF k
<1> HIDE DEF r, s
<1>4. n * q \in Int /\ n * p \in Int
  OBVIOUS
<1>5. CASE r + 1 = n
  <2>1. n * (q + 1) = n * q + n * 1 /\ n * 1 = n
    BY Distributes
  <2>2. n * p + s = n * (q + 1) + 0 /\ q + 1 \in Int /\ 0 \in 0 .. n - 1
    BY <1>1, <1>2, <1>3, <1>4, <1>5, <2>1
  <2>3. s = 0
    BY <1>1, <2>2, RemainderUnique
  <2> QED
    BY <1>1, <1>5, <2>3 DEF r, s
<1>6. CASE r + 1 # n
  <2>1. n * p + s = n * q + (r + 1) /\ r + 1 \in 0 .. n - 1
    BY <1>1, <1>2, <1>3, <1>4, <1>6
  <2>2. s = r + 1
    BY <1>1, <2>1, RemainderUnique
  <2> QED
    BY <1>1, <1>6, <2>2 DEF r, s
<1> QED
  BY <1>5, <1>6

LEMMA ElementsType ==
  ASSUME CardInv, WholeElements, step # "off"
  PROVE  Elements \in Nat \ {0} /\ Elements * ElementSize <= m_file_source /\ m_file_source \in Nat
<1>1. m_file_source = setup.filesize /\ setup \in Setups
  BY LinksType DEF CardInv, CommandInv, LinksInv, IsConfigured
<1>2. m_file_source \in Nat /\ ElementSize \in Nat \ {0} /\ m_file_source >= ElementSize
  BY <1>1, SetupAssumption DEF WholeElements
<1> QED
  BY <1>2, QuotientFacts DEF Elements

(* An element before the last whole one ends in the file. *)
LEMMA ElementInFile ==
  ASSUME CardInv, WholeElements, step # "off", NEW k \in 0 .. Elements - 1
  PROVE  (k + 1) * ElementSize <= m_file_source
<1>1. Elements \in Nat \ {0} /\ Elements * ElementSize <= m_file_source /\ m_file_source \in Nat
  BY ElementsType
<1>2. ElementSize \in Nat
  BY SetupAssumption
<1>3. k + 1 \in Int /\ Elements \in Int /\ k + 1 <= Elements
  BY <1>1
<1>4. (k + 1) * ElementSize <= Elements * ElementSize
  BY <1>2, <1>3, ProductMonotonic
<1>5. (k + 1) * ElementSize \in Int /\ Elements * ElementSize \in Int
  BY <1>2, <1>3
<1> QED
  BY <1>1, <1>4, <1>5

(* The second condition of the code never holds where the first does not:  *)
(* the offset counts whole elements.                                       *)
LEMMA TakesWrapped ==
  ASSUME CardInv, WholeElements, step # "off", offset \in 0 .. Elements
  PROVE  ElementToPush = Wrapped
<1>1. Elements \in Nat \ {0} /\ m_file_source \in Nat
  BY ElementsType
<1>2. CASE offset = Elements
  BY <1>2 DEF ElementToPush, Wrapped, Elements
<1>3. CASE offset # Elements
  <2>1. offset \in 0 .. Elements - 1 /\ offset + 1 \in Int
    BY <1>1, <1>3
  <2>2. (offset + 1) * ElementSize <= m_file_source
    BY <2>1, ElementInFile
  <2>3. (offset + 1) * ElementSize \in Int
    BY <2>1, SetupAssumption
  <2>4. ~((offset + 1) * ElementSize > m_file_source)
    BY <1>1, <2>2, <2>3
  <2> QED
    BY <1>3, <2>4 DEF ElementToPush, Wrapped, Elements
<1> QED
  BY <1>2, <1>3

LEMMA InitPlayInv == CardInit => PlayInv
BY DEF CardInit, EmulatorInit, PlayInv

LEMMA ProducePlayInv ==
  ASSUME CardInv, WholeElements, PlayInv, Produce
  PROVE  PlayInv'
<1>1. step # "off" /\ UNCHANGED m_file_source
  BY ProduceFrame
<1>2. Elements \in Nat \ {0} /\ Elements' = Elements
  BY <1>1, ElementsType DEF Elements
<1>3. CASE Begin
  <2>1. /\ step = "begin" /\ step' = "loop" /\ offset' = 0
        /\ UNCHANGED <<m_packet_count_tot, payload>>
    BY <1>3 DEF Begin
  <2>2. payload = NoPayload /\ m_packet_count_tot = 0
    BY <2>1 DEF PlayInv
  <2>3. 0 % Elements = 0 /\ 0 \in 0 .. Elements
    BY <1>2
  <2> QED
    BY <1>2, <2>1, <2>2, <2>3 DEF PlayInv, Wrapped
<1>4. CASE Round \/ EndRound \/ LimitRound
  <2>1. /\ step \in {"loop", "frame", "limit"} /\ step' \in {"loop", "frame", "limit", "off"}
        /\ UNCHANGED <<offset, m_packet_count_tot, payload>>
    BY <1>4 DEF Round, EndRound, LimitRound
  <2> QED
    BY <1>2, <2>1 DEF PlayInv, Wrapped
<1>5. CASE DropFrame
  <2>1. /\ step = "frame" /\ offset' = ElementToPush
        /\ UNCHANGED <<m_packet_count_tot, payload, step>>
    BY <1>5 DEF DropFrame
  <2>2. /\ offset \in 0 .. Elements /\ Wrapped = m_packet_count_tot % Elements
        /\ m_packet_count_tot \in Nat
    BY <2>1 DEF PlayInv
  <2>3. offset' = m_packet_count_tot % Elements
    BY <2>1, <2>2, TakesWrapped
  <2>4. m_packet_count_tot % Elements \in 0 .. Elements - 1
    BY <1>2, <2>2, Successor
  <2>5. offset' \in 0 .. Elements /\ offset' # Elements
    BY <1>2, <2>3, <2>4
  <2> QED
    BY <1>2, <2>1, <2>3, <2>5 DEF PlayInv, Wrapped
<1>6. CASE MakeFrame
  <2>1. /\ step = "frame" /\ offset' = ElementToPush + 1
        /\ m_packet_count_tot' = m_packet_count_tot + 1
        /\ payload'.element = ElementToPush
        /\ UNCHANGED step
    BY <1>6 DEF MakeFrame
  <2>2. /\ offset \in 0 .. Elements /\ Wrapped = m_packet_count_tot % Elements
        /\ m_packet_count_tot \in Nat
    BY <2>1 DEF PlayInv
  <2>3. ElementToPush = m_packet_count_tot % Elements
    BY <2>1, <2>2, TakesWrapped
  <2> DEFINE r == m_packet_count_tot % Elements
  <2>4. /\ r \in 0 .. Elements - 1
        /\ (m_packet_count_tot + 1) % Elements = IF r + 1 = Elements THEN 0 ELSE r + 1
    BY <1>2, <2>2, Successor
  <2>5. /\ m_packet_count_tot' \in Nat /\ m_packet_count_tot' > 0
        /\ m_packet_count_tot' - 1 = m_packet_count_tot
    BY <2>1, <2>2
  <2>6. payload'.element = (m_packet_count_tot' - 1) % Elements'
    BY <1>2, <2>1, <2>3, <2>5
  <2>7. offset' = r + 1
    BY <2>1, <2>3
  <2> HIDE DEF r
  <2>8. offset' \in 0 .. Elements
    BY <1>2, <2>4, <2>7
  <2>9. Wrapped' = m_packet_count_tot' % Elements'
    BY <1>2, <2>1, <2>4, <2>7 DEF Wrapped
  <2> QED
    BY <1>2, <2>1, <2>5, <2>6, <2>8, <2>9 DEF PlayInv
<1> QED
  BY <1>3, <1>4, <1>5, <1>6 DEF Produce

LEMMA NextPlayInv ==
  ASSUME WholeElements
  PROVE  CardInv /\ PlayInv /\ [CardNext]_cardReader => PlayInv'
<1> SUFFICES ASSUME CardInv, PlayInv, [CardNext]_cardReader PROVE PlayInv'
  OBVIOUS
<1>1. ASSUME UNCHANGED <<step, offset, m_packet_count_tot, payload>>,
             step # "off" => UNCHANGED m_file_source
      PROVE  PlayInv'
  BY <1>1 DEF PlayInv, Wrapped, Elements
<1>2. CASE OthersStep \/ UNCHANGED emulatorVars
  BY <1>1, <1>2, OthersFrame DEF producing, emulatorVars, confVars, producerVars
<1>3. CASE Start
  BY <1>3 DEF Start, PlayInv
<1>4. CASE Produce
  BY <1>4, ProducePlayInv
<1>5. CASE TimePasses
  BY <1>1, <1>5 DEF TimePasses, confVars, producerVars
<1> QED
  BY <1>2, <1>3, <1>4, <1>5, CardCases

(* The payloads of a run are the whole elements of the file, in turn and   *)
(* from the first again after the last, whatever frames are left out and   *)
(* however the file ends, when it is not smaller than an element           *)
(* (run_produce of SourceEmulatorModel).                                   *)
THEOREM PayloadsSafety ==
  ASSUME \A s \in Setups : s.filesize >= ElementSize
  PROVE  CardSpec => []PayloadsFollowFile
<1>1. WholeElements
  BY DEF WholeElements
<1>2. ASSUME CardInv, PlayInv PROVE PayloadsFollowFile
  <2> SUFFICES ASSUME payload # NoPayload, step # "off"
               PROVE  /\ (payload.element + 1) * ElementSize <= m_file_source
                      /\ payload.element = (m_packet_count_tot - 1) % Elements
    BY DEF PayloadsFollowFile, Elements
  <2>1. /\ payload.element = (m_packet_count_tot - 1) % Elements
        /\ m_packet_count_tot - 1 \in Nat
    BY <1>2 DEF PlayInv
  <2>2. Elements \in Nat \ {0}
    BY <1>1, <1>2, ElementsType
  <2>3. payload.element \in 0 .. Elements - 1
    BY <2>1, <2>2, Successor
  <2> QED
    BY <1>1, <1>2, <2>1, <2>3, ElementInFile
<1>3. CardInv /\ PlayInv /\ [CardNext]_cardReader => PlayInv'
  BY <1>1, NextPlayInv
<1> QED
  BY <1>2, <1>3, CardSteps, InitPlayInv, CardInvAlways, PTL
==============================================================================
