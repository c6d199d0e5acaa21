------------------------------- MODULE Timers -------------------------------
(***************************************************************************)
(* bnirc's timed functions, src/src/sigalrm.c: two lists of alarms, queued  *)
(* (sorted by the time they run at) and ready, shared between the one main  *)
(* thread and the SIGALRM handler that may interrupt it at any step.        *)
(*                                                                         *)
(* A step of the main thread is one list operation or one comparison of a   *)
(* list walk; the handler runs whole between two such steps.  A walk keeps  *)
(* a pointer to an alarm (cursor), and the handler may move that alarm to   *)
(* the other list under it: NextNode follows the pointer wherever it now    *)
(* leads.  The stores inside one list operation are not interleaved.        *)
(*                                                                         *)
(* The clock counts milliseconds and stops at MaxClock; alarms are asked    *)
(* for with the delays of Delay only as long as they are due by MaxClock.   *)
(***************************************************************************)
EXTENDS Integers, Lists

CONSTANTS Alarm,      \* the alarm_t objects malloc can hand out
          Func,       \* the functions that are passed to add_timed_func
          Deleted,    \* those of them that are passed to del_timed_func
          Delay,      \* the delays that are passed to add_timed_func
          MaxClock,   \* bound of the clock
          QHead,      \* &queued, the sentinel of the queued list
          RHead,      \* &ready, the sentinel of the ready list
          Nil         \* NULL, no alarm

ASSUME ConstantsOK ==
  /\ MaxClock \in Nat
  /\ Delay \subseteq Nat
  /\ Deleted \subseteq Func
  /\ QHead \notin Alarm /\ RHead \notin Alarm /\ Nil \notin Alarm
  /\ QHead # RHead /\ QHead # Nil /\ RHead # Nil

VARIABLES
  clock,     \* what gettimeofday returns
  queued,    \* alarms of the queued list, from bottom(&queued)
  ready,     \* alarms of the ready list, from bottom(&ready)
  runat,     \* alarm_t.runat
  func,      \* alarm_t.func
  memory,    \* malloc's view of each alarm: free, held or leaked
  timer,     \* when ITIMER_REAL expires, 0 when it is disarmed
  handler,   \* the disposition of SIGALRM
  pc,        \* where the main thread is
  node,      \* the alarm being moved or inserted, on neither list
  cursor,    \* the pointer i (or a) of the list walk in progress
  now,       \* the local copy of the clock of the function in progress
  target,    \* del_timed_func: its argument
  running    \* do_timed_funcs: the alarm whose function is running

lists == <<queued, ready>>
alarmVars == <<runat, func, memory>>
signalVars == <<timer, handler>>
walkVars == <<node, cursor, now, target, running>>
vars == <<clock, lists, alarmVars, signalVars, pc, walkVars>>

Held == {a \in Alarm : memory[a] = "held"}

\* Where the main thread continues when a timer function returns.
Resume == IF running = Nil THEN "loop" ELSE "callback"

-----------------------------------------------------------------------------
(* list_next, on the two lists.                                            *)

\* list_next(a): along the list that a is on at this moment.
NextNode(a) ==
  CASE a = RHead -> First(ready, RHead)
    [] a \in Range(ready) -> Successor(ready, RHead, a)
    [] OTHER -> Successor(queued, QHead, a)

-----------------------------------------------------------------------------
(* The SIGALRM handler.                                                    *)

IsDue(a) == runat[a] <= clock

\* Mutant: sig_handler without its break.
DueCountAll == Len(queued)

\* The loop of sig_handler: how many alarms at the bottom of queued are due.
DueCount ==
  LET i == SelectInSeq(queued, LAMBDA a : ~IsDue(a))
  IN IF i = 0 THEN Len(queued) ELSE i - 1

\* Mutant: push without list_remove.
MoveDueKept == ready' = ready \o SubSeq(queued, 1, DueCount) /\ UNCHANGED queued

MoveDue ==
  /\ ready' = ready \o SubSeq(queued, 1, DueCount)
  /\ queued' = SubSeq(queued, DueCount + 1, Len(queued))

\* The interval of the timer is never initialised (line 64): after it expired
\* it may be disarmed, or expire again.
NextExpiry == {0, clock + 1}

SignalHandled ==
  /\ timer # 0 /\ timer <= clock
  /\ handler = "installed"
  /\ pc # "killed"
  /\ MoveDue
  /\ timer' \in NextExpiry
  /\ UNCHANGED <<clock, alarmVars, handler, pc, walkVars>>

SignalIgnored ==
  /\ timer # 0 /\ timer <= clock
  /\ handler = "ignored"
  /\ pc # "killed"
  /\ timer' \in NextExpiry
  /\ UNCHANGED <<clock, lists, alarmVars, handler, pc, walkVars>>

\* set_sigalrm starts the timer before it installs the handler: a signal in
\* between has its default effect, which ends the process.
SignalKills ==
  /\ timer # 0 /\ timer <= clock
  /\ handler = "default"
  /\ pc # "killed"
  /\ pc' = "killed"
  /\ timer' = 0
  /\ UNCHANGED <<clock, lists, alarmVars, handler, walkVars>>
-----------------------------------------------------------------------------
(* set_sigalrm, the last thing add_timed_func and run_timed_funcs do.       *)

\* An empty queue disarms the timer.
ArmNothing ==
  /\ pc = "arm"
  /\ queued = <<>>
  /\ timer' = 0
  /\ handler' = "ignored"
  /\ pc' = Resume
  /\ now' = 0
  /\ UNCHANGED <<clock, lists, alarmVars, node, cursor, target, running>>

\* Mutant: the operands of the subtraction swapped.
ExpirySwapped(at) == IF at = now THEN 0 ELSE clock + (now - at)

\* it_value, from the caller's copy of the clock: zero disarms the timer, a
\* negative one becomes a millisecond.
Expiry(at) ==
  CASE at = now -> 0
    [] at < now -> clock + 1
    [] OTHER    -> clock + (at - now)

\* setitimer; the garbage in it_interval may make it fail and change nothing.
Arm ==
  /\ pc = "arm"
  /\ queued # <<>>
  /\ timer' \in {Expiry(runat[Head(queued)]), timer}
  /\ pc' = "install"
  /\ UNCHANGED <<clock, lists, alarmVars, handler, walkVars>>

Install ==
  /\ pc = "install"
  /\ handler' = "installed"
  /\ pc' = Resume
  /\ now' = 0
  /\ UNCHANGED <<clock, lists, alarmVars, timer, node, cursor, target, running>>

-----------------------------------------------------------------------------
(* add_timed_func, from the main loop or from a timed function.             *)

AddTimed(a, f, d) ==
  /\ pc \in {"loop", "callback"}
  /\ memory[a] = "free"
  /\ clock + d <= MaxClock
  /\ memory' = [memory EXCEPT ![a] = "held"]
  /\ runat' = [runat EXCEPT ![a] = clock + d]
  /\ func' = [func EXCEPT ![a] = f]
  /\ now' = clock
  /\ \/ /\ queued = <<>>
        /\ queued' = <<a>>
        /\ pc' = "arm"
        /\ UNCHANGED <<node, cursor>>
     \/ /\ queued # <<>>
        /\ node' = a
        /\ cursor' = Head(queued)
        /\ pc' = "scan"
        /\ UNCHANGED queued
  /\ UNCHANGED <<clock, ready, signalVars, target, running>>

\* Mutant: the comparison turned round.
RunsAfter(a, b) == b \in Alarm /\ runat[a] > runat[b]

\* The sentinel of ready has a runat of zero, like every static: no alarm
\* compares below it.
RunsBefore(a, b) == b \in Alarm /\ runat[a] < runat[b]

\* list_ordered_insert_: one comparison of its loop.
Scan ==
  /\ pc = "scan"
  /\ cursor # QHead
  /\ IF RunsBefore(node, cursor)
       THEN pc' = "insert" /\ UNCHANGED cursor
       ELSE pc' = "scan" /\ cursor' = NextNode(cursor)
  /\ UNCHANGED <<clock, lists, alarmVars, signalVars, node, now, target, running>>

Inserted ==
  /\ node' = Nil
  /\ cursor' = Nil
  /\ pc' = "arm"

\* The walk ended at the head: push(head, node).
InsertLast ==
  /\ pc = "scan"
  /\ cursor = QHead
  /\ queued' = Append(queued, node)
  /\ Inserted
  /\ UNCHANGED <<clock, ready, alarmVars, signalVars, now, target, running>>

\* push(i, node), on whichever list i is on by now.
Insert ==
  /\ pc = "insert"
  /\ queued' = LinkBefore(queued, cursor, node)
  /\ ready' = LinkBefore(ready, cursor, node)
  /\ Inserted
  /\ UNCHANGED <<clock, alarmVars, signalVars, now, target, running>>

-----------------------------------------------------------------------------
(* run_timed_funcs, called at the end of every turn of poll_loop_func.      *)

\* Mutant: run_timed_funcs without its call of sig_handler.
RunTimedReadyOnly ==
  /\ pc = "loop"
  /\ pc' = "run"
  /\ UNCHANGED <<clock, lists, alarmVars, signalVars, walkVars>>

\* sig_handler(0), called as a function: it reads the clock once.
RunTimed ==
  /\ pc = "loop"
  /\ pc' = "collect"
  /\ now' = clock
  /\ UNCHANGED <<clock, lists, alarmVars, signalVars, node, cursor, target, running>>

CollectNext ==
  /\ pc = "collect"
  /\ queued # <<>>
  /\ runat[Head(queued)] <= now
  /\ cursor' = Head(queued)
  /\ pc' = "move"
  /\ UNCHANGED <<clock, lists, alarmVars, signalVars, node, now, target, running>>

\* list_remove(i): the real handler may have moved i already.
CollectRemove ==
  /\ pc = "move"
  /\ queued' = Unlink(queued, cursor)
  /\ ready' = Unlink(ready, cursor)
  /\ node' = cursor
  /\ cursor' = Nil
  /\ pc' = "push"
  /\ UNCHANGED <<clock, alarmVars, signalVars, now, target, running>>

\* push(&ready, i).
CollectPush ==
  /\ pc = "push"
  /\ ready' = Append(ready, node)
  /\ node' = Nil
  /\ pc' = "collect"
  /\ UNCHANGED <<clock, queued, alarmVars, signalVars, cursor, now, target, running>>

CollectEnd ==
  /\ pc = "collect"
  /\ queued # <<>> => runat[Head(queued)] > now
  /\ pc' = "run"
  /\ now' = 0
  /\ UNCHANGED <<clock, lists, alarmVars, signalVars, node, cursor, target, running>>

\* do_timed_funcs: i = bottom(&ready), i->func(i->arg).
Call ==
  /\ pc = "run"
  /\ ready # <<>>
  /\ running' = Head(ready)
  /\ pc' = "callback"
  /\ UNCHANGED <<clock, lists, alarmVars, signalVars, node, cursor, now, target>>

CallbackReturns ==
  /\ pc = "callback"
  /\ pc' = "free"
  /\ UNCHANGED <<clock, lists, alarmVars, signalVars, walkVars>>

\* Mutant: free without list_remove.
FreeListed ==
  /\ pc = "free"
  /\ memory' = [memory EXCEPT ![running] = "free"]
  /\ runat' = [runat EXCEPT ![running] = 0]
  /\ func' = [func EXCEPT ![running] = Nil]
  /\ running' = Nil
  /\ pc' = "run"
  /\ UNCHANGED <<clock, lists, signalVars, node, cursor, now, target>>

\* list_remove(i), free(i).
Free ==
  /\ pc = "free"
  /\ ready' = Unlink(ready, running)
  /\ memory' = [memory EXCEPT ![running] = "free"]
  /\ runat' = [runat EXCEPT ![running] = 0]
  /\ func' = [func EXCEPT ![running] = Nil]
  /\ running' = Nil
  /\ pc' = "run"
  /\ UNCHANGED <<clock, queued, signalVars, node, cursor, now, target>>

RunEnd ==
  /\ pc = "run"
  /\ ready = <<>>
  /\ pc' = "arm"
  /\ now' = clock
  /\ UNCHANGED <<clock, lists, alarmVars, signalVars, node, cursor, target, running>>
-----------------------------------------------------------------------------
(* del_timed_func.  Its one caller is cleanup_hook of the ncurses driver,   *)
(* which runs when that is unloaded: from the main loop, or from a timed    *)
(* function of a script, never from the timed function that is deleted.     *)

Delete(f) ==
  /\ pc \in {"loop", "callback"}
  /\ running # Nil => func[running] # f
  /\ target' = f
  /\ pc' = "delete"
  /\ UNCHANGED <<clock, lists, alarmVars, signalVars, node, cursor, now, running>>

\* Each call of the recursion starts over at bottom(&queued).
DeleteStart ==
  /\ pc = "delete"
  /\ queued # <<>>
  /\ cursor' = Head(queued)
  /\ pc' = "search"
  /\ UNCHANGED <<clock, lists, alarmVars, signalVars, node, now, target, running>>

\* The sentinel of ready has a func of NULL: it matches no target.
Matches(a) == a \in Alarm /\ func[a] = target

DeleteNext ==
  /\ pc = "search"
  /\ cursor # QHead
  /\ ~Matches(cursor)
  /\ cursor' = NextNode(cursor)
  /\ UNCHANGED <<clock, lists, alarmVars, signalVars, pc, node, now, target, running>>

\* Mutant: del_timed_func without its recursive call.
DeleteFirst ==
  /\ pc = "search"
  /\ Matches(cursor)
  /\ queued' = Unlink(queued, cursor)
  /\ ready' = Unlink(ready, cursor)
  /\ memory' = [memory EXCEPT ![cursor] = "leaked"]
  /\ runat' = [runat EXCEPT ![cursor] = 0]
  /\ func' = [func EXCEPT ![cursor] = Nil]
  /\ cursor' = Nil
  /\ target' = Nil
  /\ pc' = Resume
  /\ UNCHANGED <<clock, signalVars, node, now, running>>

\* list_remove(a) and the recursive call; the alarm is not freed, but nothing
\* leads to it any more.
DeleteFound ==
  /\ pc = "search"
  /\ Matches(cursor)
  /\ queued' = Unlink(queued, cursor)
  /\ ready' = Unlink(ready, cursor)
  /\ memory' = [memory EXCEPT ![cursor] = "leaked"]
  /\ runat' = [runat EXCEPT ![cursor] = 0]
  /\ func' = [func EXCEPT ![cursor] = Nil]
  /\ cursor' = Nil
  /\ pc' = "delete"
  /\ UNCHANGED <<clock, signalVars, node, now, target, running>>

DeleteEnd ==
  /\ \/ pc = "delete" /\ queued = <<>>
     \/ pc = "search" /\ cursor = QHead
  /\ cursor' = Nil
  /\ target' = Nil
  /\ pc' = Resume
  /\ UNCHANGED <<clock, lists, alarmVars, signalVars, node, now, running>>

-----------------------------------------------------------------------------
Tick ==
  /\ clock < MaxClock
  /\ pc # "killed"
  /\ clock' = clock + 1
  /\ UNCHANGED <<lists, alarmVars, signalVars, pc, walkVars>>

Init ==
  /\ clock = 0
  /\ queued = <<>> /\ ready = <<>>
  /\ runat = [a \in Alarm |-> 0]
  /\ func = [a \in Alarm |-> Nil]
  /\ memory = [a \in Alarm |-> "free"]
  /\ timer = 0 /\ handler = "default"
  /\ pc = "loop"
  /\ node = Nil /\ cursor = Nil /\ now = 0 /\ target = Nil /\ running = Nil

Signal == SignalHandled \/ SignalIgnored \/ SignalKills

SetSigalrm == ArmNothing \/ Arm \/ Install

OrderedInsert == Scan \/ InsertLast \/ Insert

RunTimedFuncs ==
  \/ CollectNext \/ CollectRemove \/ CollectPush \/ CollectEnd
  \/ Call \/ CallbackReturns \/ Free \/ RunEnd

DelTimedFunc == DeleteStart \/ DeleteNext \/ DeleteFound \/ DeleteEnd

\* What the main thread does by itself, once it was called.
Continue == SetSigalrm \/ OrderedInsert \/ RunTimedFuncs \/ DelTimedFunc

Next ==
  \/ \E a \in Alarm, f \in Func, d \in Delay : AddTimed(a, f, d)
  \/ \E f \in Deleted : Delete(f)
  \/ RunTimed
  \/ Continue
  \/ Signal
  \/ Tick

Spec == Init /\ [][Next]_vars

\* The main thread is never suspended for ever, time passes, a timed function
\* comes to its end, and every turn of the main loop ends in run_timed_funcs
\* (poll.c:235; poll waits at most a second), whatever the turn did before.
\* Nothing is assumed of the signal.
Fairness ==
  /\ WF_vars(Continue)
  /\ SF_vars(CallbackReturns)
  /\ SF_vars(RunTimed)
  /\ WF_vars(Tick)

FairSpec == Spec /\ Fairness

-----------------------------------------------------------------------------
(* Properties.                                                             *)

PC == {"loop", "scan", "insert", "arm", "install", "collect", "move", "push",
       "run", "callback", "free", "delete", "search", "killed"}

TypeOK ==
  /\ clock \in 0..MaxClock
  /\ queued \in Seq(Alarm) /\ ready \in Seq(Alarm)
  /\ runat \in [Alarm -> 0..MaxClock]
  /\ func \in [Alarm -> Func \cup {Nil}]
  /\ memory \in [Alarm -> {"free", "held", "leaked"}]
  /\ timer \in Nat
  /\ handler \in {"default", "ignored", "installed"}
  /\ pc \in PC
  /\ node \in Alarm \cup {Nil}
  /\ cursor \in Alarm \cup {Nil, QHead, RHead}
  /\ now \in 0..MaxClock
  /\ target \in Func \cup {Nil}
  /\ running \in Alarm \cup {Nil}

\* No alarm reaches the ready list before its time: not when add_timed_func
\* follows its pointer onto the ready list and inserts there, nor when the
\* handler and run_timed_funcs collect the same alarm.
ReadyIsDue == \A i \in DOMAIN ready : IsDue(ready[i])

\* The queued list stays sorted although the handler shortens it under the
\* walk that looks for the place of a new alarm; sig_handler stops at the
\* first alarm that is not due, so an unsorted list would delay the others.
QueueSorted ==
  \A i, j \in DOMAIN queued : i < j => runat[queued[i]] <= runat[queued[j]]

\* Every alarm that was allocated and neither freed nor deleted is in exactly
\* one place, once, and no other alarm is on a list: none is lost, none is run
\* twice, and no list leads to freed memory.
OnePlace ==
  /\ IsInjective(queued) /\ IsInjective(ready)
  /\ Range(queued) \cap Range(ready) = {}
  /\ node \notin Range(queued) \cup Range(ready)
  /\ Held = Range(queued) \cup Range(ready) \cup ({node} \ {Nil})
  /\ cursor \in Alarm => cursor \in Held
  /\ running # Nil => running \in Range(ready)

\* When del_timed_func returns no alarm of that function is queued any more,
\* whatever the handler moved away during the search.
DeleteReturns == pc \in {"delete", "search"} /\ pc' \in {"loop", "callback"}

DeleteIsComplete ==
  [][DeleteReturns => (\A a \in Range(queued') : func'[a] # target)]_vars

\* sigalrm.c implements the service that AlarmService describes.
PhaseOf(a) ==
  CASE memory[a] = "free"   -> "idle"
    [] memory[a] = "leaked" -> "cancelled"
    [] a = running          -> "running"
    [] OTHER                -> "pending"

Service == INSTANCE AlarmService
             WITH phase <- [a \in Alarm |-> PhaseOf(a)], expiry <- runat

ServiceSpec == Service!ServiceSpec

\* A walk that the handler led onto the ready list, where the head it looks
\* for does not occur.
Stranded == pc \in {"scan", "search"} /\ cursor \in Range(ready) \cup {RHead}

\* Every alarm runs, or is deleted, unless the main thread is stranded on the
\* ready list for good or the process was killed by a signal that came before
\* its handler.
AlarmRuns ==
  \A a \in Alarm :
    [](memory[a] = "held" =>
         <>(memory[a] # "held" \/ pc = "killed" \/ []Stranded))

\* python.c:941 documents TimedFunction(msecs, function) as "Run function in
\* msecs milliseconds": as long as the process lives every alarm runs, or is
\* deleted.
TimedFunctionRuns ==
  \A a \in Alarm :
    memory[a] = "held" ~> (memory[a] # "held" \/ pc = "killed")
=============================================================================
