----------------------------- MODULE RateLimiter -----------------------------
(***************************************************************************)
(* RateLimiter, with which the source emulators keep to their data rate.   *)
(* A thread alternates between a task and limit(), another one may adjust  *)
(* the rate, and the clock goes on between any two of their steps.         *)
(***************************************************************************)
EXTENDS Integers

CONSTANTS
  Periods,         \* the periods that adjust() may set
  m_max_overshoot,
  MaxTime          \* bound on the clock

ASSUME LimiterAssumption ==
  /\ Periods # {} /\ Periods \subseteq Nat
  /\ m_max_overshoot \in Nat
  /\ MaxTime \in Nat

VARIABLES
  clock,        \* CLOCK_MONOTONIC, counted from the limiter's construction
  m_period,
  m_now,
  m_deadline,
  pc,           \* the thread's place
  granted,      \* history: the sum of the periods taken into deadlines
  earned        \* history: the same without the last one

vars == <<clock, m_period, m_now, m_deadline, pc, granted, earned>>

(* The constructor: adjust() and init(). *)
Init ==
  /\ clock = 0
  /\ m_period \in Periods
  /\ m_now = 0
  /\ m_deadline = m_period
  /\ pc = "task"
  /\ granted = m_period /\ earned = 0

Tick ==
  /\ clock < MaxTime
  /\ clock' = clock + 1
  /\ UNCHANGED <<m_period, m_now, m_deadline, pc, granted, earned>>

Adjust ==
  /\ m_period' \in Periods
  /\ UNCHANGED <<clock, m_now, m_deadline, pc, granted, earned>>

(* The deadline was missed by so much that it is given up. *)
TooLate(now) == now > m_deadline + m_max_overshoot

LimitBegin ==
  /\ pc = "task"
  /\ m_now' = clock
  /\ pc' = IF TooLate(clock) THEN "restart"
           ELSE IF clock < m_deadline THEN "wait" ELSE "advance"
  /\ UNCHANGED <<clock, m_period, m_deadline, granted, earned>>

(* (fault) The wait may end early, as nanosleep() may. *)
WaitEarly ==
  /\ pc = "wait"
  /\ m_now' = clock
  /\ pc' = "advance"
  /\ UNCHANGED <<clock, m_period, m_deadline, granted, earned>>

(* nanosleep(), which may return early, and the busy wait after it. *)
Wait ==
  /\ pc = "wait"
  /\ m_now' = clock
  /\ pc' = IF clock < m_deadline THEN "wait" ELSE "advance"
  /\ UNCHANGED <<clock, m_period, m_deadline, granted, earned>>

(* limit() returns. *)
Return(base) ==
  /\ m_deadline' = base + m_period
  /\ granted' = granted + m_period
  /\ earned' = granted
  /\ pc' = "task"
  /\ UNCHANGED <<clock, m_period, m_now>>

Restart == pc = "restart" /\ Return(m_now)

Advance == pc = "advance" /\ Return(m_deadline)

Limit == LimitBegin \/ Wait \/ Restart \/ Advance

Next == Tick \/ Adjust \/ Limit

Spec == Init /\ [][Next]_vars

-----------------------------------------------------------------------------
(* Type invariant: the limiter's clock readings and deadlines.             *)
TypeOK ==
  /\ clock \in Nat /\ m_now \in Nat /\ m_deadline \in Nat
  /\ m_period \in Periods
  /\ pc \in {"task", "wait", "restart", "advance"}
  /\ granted \in Nat /\ earned \in Nat

(* The rate is kept to in the long run: however late calls were and were   *)
(* made up for, and whatever adjust() did, limit() has not returned before *)
(* all the periods that were granted until then have elapsed.              *)
NeverFaster == earned <= clock

=============================================================================
