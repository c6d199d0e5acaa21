---------------------------- MODULE AlarmService ----------------------------
(***************************************************************************)
(* What the timer facility of bnirc promises to its callers, with no lists, *)
(* signal or scan: an alarm that is set runs at most once, not before its   *)
(* time, one alarm at a time, and never after it was cancelled.  Timers.tla *)
(* implements this specification (src/src/sigalrm.c).                       *)
(***************************************************************************)
EXTENDS Integers

CONSTANTS Alarm, Delay, MaxClock

VARIABLES clock,    \* milliseconds
          phase,    \* what became of each alarm
          expiry    \* when it was asked to run

serviceVars == <<clock, phase, expiry>>

Phase == {"idle", "pending", "running", "cancelled"}

ServiceTypeOK ==
  /\ clock \in 0..MaxClock
  /\ phase \in [Alarm -> Phase]
  /\ expiry \in [Alarm -> 0..MaxClock]

ServiceInit ==
  /\ clock = 0
  /\ phase = [a \in Alarm |-> "idle"]
  /\ expiry = [a \in Alarm |-> 0]

Set(a, d) ==
  /\ phase[a] = "idle"
  /\ clock + d <= MaxClock
  /\ phase' = [phase EXCEPT ![a] = "pending"]
  /\ expiry' = [expiry EXCEPT ![a] = clock + d]
  /\ UNCHANGED clock

Begin(a) ==
  /\ phase[a] = "pending"
  /\ expiry[a] <= clock
  /\ \A b \in Alarm : phase[b] # "running"
  /\ phase' = [phase EXCEPT ![a] = "running"]
  /\ UNCHANGED <<clock, expiry>>

End(a) ==
  /\ phase[a] = "running"
  /\ phase' = [phase EXCEPT ![a] = "idle"]
  /\ expiry' = [expiry EXCEPT ![a] = 0]
  /\ UNCHANGED clock

Cancel(a) ==
  /\ phase[a] = "pending"
  /\ phase' = [phase EXCEPT ![a] = "cancelled"]
  /\ expiry' = [expiry EXCEPT ![a] = 0]
  /\ UNCHANGED clock

Elapse ==
  /\ clock < MaxClock
  /\ clock' = clock + 1
  /\ UNCHANGED <<phase, expiry>>

ServiceNext ==
  \/ \E a \in Alarm, d \in Delay : Set(a, d)
  \/ \E a \in Alarm : Begin(a) \/ End(a) \/ Cancel(a)
  \/ Elapse

ServiceSpec == ServiceInit /\ [][ServiceNext]_serviceVars
=============================================================================
