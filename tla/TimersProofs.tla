---------------------------- MODULE TimersProofs ----------------------------
(***************************************************************************)
(* The safety of Timers for any alarms, functions, delays and clock bound.  *)
(*                                                                         *)
(* The invariants of Timers are not inductive: what protects them is what   *)
(* each walk knows about its pointer.  IInv adds that (PointersOK) and what *)
(* the scan of list_ordered_insert has established about the nodes that it  *)
(* passed (PassedOK).                                                       *)
(***************************************************************************)
EXTENDS Timers, ListsProofs

Listed == Range(queued) \cup Range(ready)

PointersOK ==
  /\ now <= clock
  /\ pc \in {"scan", "insert", "push"} => node \in Alarm
  /\ pc \notin {"scan", "insert", "push", "killed"} => node = Nil
  /\ pc \in {"scan", "search"} => cursor \in Listed \cup {QHead, RHead}
  /\ pc = "insert" => cursor \in Listed /\ runat[node] < runat[cursor]
  /\ pc = "move" => cursor \in Listed /\ runat[cursor] <= now
  /\ pc = "push" => runat[node] <= now
  /\ pc \notin {"scan", "insert", "move", "search", "killed"} => cursor = Nil
  /\ pc \in {"callback", "free"} => running # Nil
  /\ pc \in {"loop", "collect", "move", "push", "run"} => running = Nil
  /\ pc \in {"delete", "search"} /\ running # Nil => func[running] # target

\* The queued node at i is in front of the cursor.
Passed(i) ==
  cursor = QHead \/ \E j \in DOMAIN queued : i < j /\ queued[j] = cursor

PassedOK ==
  pc \in {"scan", "insert"} =>
    \A i \in DOMAIN queued : Passed(i) => runat[queued[i]] <= runat[node]

IInv ==
  /\ TypeOK
  /\ ReadyIsDue
  /\ QueueSorted
  /\ OnePlace
  /\ PointersOK
  /\ PassedOK
-----------------------------------------------------------------------------

\* A step that leaves the lists and the alarms alone.
LEMMA QuietStep ==
  ASSUME IInv, UNCHANGED <<lists, alarmVars>>, clock' \in 0..MaxClock, clock <= clock'
  PROVE  ReadyIsDue' /\ QueueSorted'
  BY ConstantsOK DEF IInv, TypeOK, ReadyIsDue, QueueSorted, IsDue, lists, alarmVars

\* list_next leads from a listed node to the next one of the same list, or to
\* the head of that list.
LEMMA NextNodeFacts ==
  ASSUME IInv, NEW a \in Listed \cup {RHead}
  PROVE  /\ NextNode(a) \in Listed \cup {QHead, RHead}
         /\ NextNode(a) \in Range(queued) =>
              \E i \in DOMAIN queued : queued[i] = a /\ i + 1 \in DOMAIN queued
                                         /\ queued[i + 1] = NextNode(a)
         /\ NextNode(a) = QHead =>
              queued # <<>> /\ queued[Len(queued)] = a
<1>1. /\ queued \in Seq(Alarm) /\ ready \in Seq(Alarm)
      /\ Range(queued) \subseteq Alarm /\ Range(ready) \subseteq Alarm
      /\ Range(queued) \cap Range(ready) = {}
  BY RangeFacts DEF IInv, TypeOK, OnePlace
<1>2. QHead \notin Alarm /\ RHead \notin Alarm /\ QHead # RHead
  BY ConstantsOK
<1>3. CASE a = RHead
  <2>1. NextNode(a) = First(ready, RHead)
    BY <1>1, <1>2, <1>3 DEF NextNode
  <2>2. NextNode(a) \in Range(ready) \cup {RHead}
    BY <2>1, <1>1, RangeFacts DEF First
  <2>3. QED BY <2>2, <1>1, <1>2 DEF Listed
<1>4. CASE a \in Range(ready)
  <2>1. a # RHead
    BY <1>1, <1>2, <1>4
  <2>2. NextNode(a) = Successor(ready, RHead, a)
    BY <2>1, <1>4 DEF NextNode
  <2>3. Place(ready, a) \in 1..Len(ready)
    BY <1>1, <1>4, PlaceFacts
  <2>4. NextNode(a) \in Range(ready) \cup {RHead}
    BY <2>2, <2>3, <1>1 DEF Successor, Range
  <2>5. QED BY <2>4, <1>1, <1>2 DEF Listed
<1>5. CASE a \in Range(queued)
  <2>1. a # RHead /\ a \notin Range(ready)
    BY <1>1, <1>2, <1>5
  <2>2. NextNode(a) = Successor(queued, QHead, a)
    BY <2>1 DEF NextNode
  <2> DEFINE p == Place(queued, a)
  <2>3. p \in 1..Len(queued) /\ queued[p] = a
    BY <1>1, <1>5, PlaceFacts
  <2>4. NextNode(a) = IF p < Len(queued) THEN queued[p + 1] ELSE QHead
    BY <2>2 DEF Successor
  <2> HIDE DEF p
  <2>5. CASE p < Len(queued)
    <3>1. p + 1 \in DOMAIN queued /\ NextNode(a) = queued[p + 1]
      BY <2>3, <2>4, <2>5, <1>1
    <3>2. NextNode(a) \in Range(queued)
      BY <3>1 DEF Range
    <3>3. NextNode(a) # QHead
      BY <3>2, <1>1, <1>2
    <3>4. \E i \in DOMAIN queued :
            queued[i] = a /\ i + 1 \in DOMAIN queued /\ queued[i + 1] = NextNode(a)
      BY <3>1, <2>3, <1>1
    <3>5. QED BY <3>2, <3>3, <3>4 DEF Listed
  <2>6. CASE p = Len(queued)
    <3>1. NextNode(a) = QHead /\ queued[Len(queued)] = a /\ queued # <<>>
      BY <2>3, <2>4, <2>6, <1>1
    <3>2. QED BY <3>1, <1>1, <1>2
  <2>7. QED BY <2>3, <2>5, <2>6
<1>6. QED BY <1>3, <1>4, <1>5 DEF Listed

\* sig_handler counts alarms that are all due.
LEMMA DueCountFacts ==
  ASSUME IInv
  PROVE  /\ DueCount \in 0..Len(queued)
         /\ \A i \in 1..DueCount : IsDue(queued[i])
<1> DEFINE I == {i \in 1..Len(queued) : ~IsDue(queued[i])}
<1>1. DueCount = LET i == IF I # {} THEN Min(I) ELSE 0
                 IN  IF i = 0 THEN Len(queued) ELSE i - 1
  BY DEF DueCount, SelectInSeq
<1>2. Len(queued) \in Nat
  BY DEF IInv, TypeOK
<1> HIDE DEF I
<1>3. CASE I = {}
  <2>1. DueCount = Len(queued)
    BY <1>1, <1>3
  <2>2. QED BY <1>2, <1>3, <2>1 DEF I
<1>4. CASE I # {}
  <2>1. I \subseteq Nat /\ I \subseteq 1..Len(queued)
    BY DEF I
  <2>2. Min(I) \in I /\ \A y \in I : Min(I) <= y
    BY <2>1, <1>4, MinFacts
  <2>3. DueCount = Min(I) - 1
    BY <1>1, <1>2, <1>4, <2>1, <2>2
  <2>4. QED BY <1>2, <2>1, <2>2, <2>3 DEF I
<1>5. QED BY <1>3, <1>4

-----------------------------------------------------------------------------
(* The steps that change neither list and no alarm.                         *)

\* A step that leaves the lists and the alarms alone and walks over listed alarms
\* only: no alarm is early, misplaced or lost.
LEMMA QuietInv ==
  ASSUME IInv, UNCHANGED <<lists, alarmVars, node>>,
         clock' \in 0..MaxClock, clock <= clock',
         cursor' \in Alarm => cursor' \in Listed \cup {cursor},
         running' # Nil => running' \in Range(ready)
  PROVE  ReadyIsDue' /\ QueueSorted' /\ OnePlace'
<1>1. ReadyIsDue' /\ QueueSorted'
  BY QuietStep
<1>2. UNCHANGED <<queued, ready, memory, node>> /\ Held' = Held
  BY DEF lists, alarmVars, Held
<1>3. cursor' \in Alarm => cursor' \in Held
  BY DEF IInv, OnePlace, Listed
<1>4. OnePlace'
  BY <1>2, <1>3 DEF IInv, OnePlace
<1>5. QED BY <1>1, <1>4

\* Steps at which no walk is in progress, before or after.
LEMMA NoWalkInv ==
  ASSUME IInv, Signal \/ SetSigalrm \/ RunTimed \/ CollectEnd \/ Call
               \/ CallbackReturns \/ RunEnd \/ (\E f \in Deleted : Delete(f)) \/ Tick,
         ~SignalHandled
  PROVE  IInv'
<1> USE DEF IInv, TypeOK, PointersOK, PassedOK, Passed, lists, alarmVars, signalVars,
            walkVars, Resume, PC
<1>1. CASE SignalIgnored
  <2>1. ReadyIsDue' /\ QueueSorted' /\ OnePlace'
    BY <1>1, QuietInv DEF SignalIgnored, OnePlace
  <2>2. QED BY <1>1, <2>1 DEF SignalIgnored, NextExpiry, Listed
<1>2. CASE SignalKills
  <2>1. ReadyIsDue' /\ QueueSorted' /\ OnePlace'
    BY <1>2, QuietInv DEF SignalKills, OnePlace
  <2>2. QED BY <1>2, <2>1 DEF SignalKills, Listed
<1>3. CASE ArmNothing
  <2>1. ReadyIsDue' /\ QueueSorted' /\ OnePlace'
    BY <1>3, QuietInv DEF ArmNothing, OnePlace
  <2>2. QED BY <1>3, <2>1, ConstantsOK DEF ArmNothing, Listed
<1>4. CASE Arm
  <2>1. ReadyIsDue' /\ QueueSorted' /\ OnePlace'
    BY <1>4, QuietInv DEF Arm, OnePlace
  <2>2. runat[Head(queued)] \in 0..MaxClock
    BY <1>4, RangeFacts DEF Arm
  <2>3. Expiry(runat[Head(queued)]) \in Nat
    BY <2>2 DEF Expiry
  <2>4. QED BY <1>4, <2>1, <2>3 DEF Arm, Listed
<1>5. CASE Install
  <2>1. ReadyIsDue' /\ QueueSorted' /\ OnePlace'
    BY <1>5, QuietInv DEF Install, OnePlace
  <2>2. QED BY <1>5, <2>1, ConstantsOK DEF Install, Listed
<1>6. CASE RunTimed
  <2>1. ReadyIsDue' /\ QueueSorted' /\ OnePlace'
    BY <1>6, QuietInv DEF RunTimed, OnePlace
  <2>2. QED BY <1>6, <2>1 DEF RunTimed, Listed
<1>7. CASE CollectEnd
  <2>1. ReadyIsDue' /\ QueueSorted' /\ OnePlace'
    BY <1>7, QuietInv DEF CollectEnd, OnePlace
  <2>2. QED BY <1>7, <2>1, ConstantsOK DEF CollectEnd, Listed
<1>8. CASE Call
  <2>1. Head(ready) \in Range(ready) /\ Head(ready) \in Alarm
    BY <1>8, RangeFacts DEF Call
  <2>2. ReadyIsDue' /\ QueueSorted' /\ OnePlace'
    BY <1>8, <2>1, QuietInv DEF Call, OnePlace
  <2>3. QED BY <1>8, <2>1, <2>2, ConstantsOK DEF Call, Listed
<1>9. CASE CallbackReturns
  <2>1. ReadyIsDue' /\ QueueSorted' /\ OnePlace'
    BY <1>9, QuietInv DEF CallbackReturns, OnePlace
  <2>2. QED BY <1>9, <2>1 DEF CallbackReturns, Listed
<1>10. CASE RunEnd
  <2>1. ReadyIsDue' /\ QueueSorted' /\ OnePlace'
    BY <1>10, QuietInv DEF RunEnd, OnePlace
  <2>2. QED BY <1>10, <2>1 DEF RunEnd, Listed
<1>11. ASSUME NEW f \in Deleted, Delete(f) PROVE IInv'
  <2>0. f \in Func
    BY ConstantsOK
  <2>1. ReadyIsDue' /\ QueueSorted' /\ OnePlace'
    BY <1>11, QuietInv DEF Delete, OnePlace
  <2>2. QED BY <1>11, <2>0, <2>1 DEF Delete, Listed
<1>12. CASE Tick
  <2>1. ReadyIsDue' /\ QueueSorted' /\ OnePlace'
    BY <1>12, QuietInv, ConstantsOK DEF Tick, OnePlace
  <2>2. QED BY <1>12, <2>1, ConstantsOK DEF Tick, Listed
<1>13. QED
  BY <1>1, <1>2, <1>3, <1>4, <1>5, <1>6, <1>7, <1>8, <1>9, <1>10, <1>11, <1>12
     DEF Signal, SetSigalrm

-----------------------------------------------------------------------------
(* The steps of the walks.                                                  *)

\* A step that only moves the cursor of a walk, along the lists.
LEMMA CursorMoves ==
  ASSUME IInv, UNCHANGED <<lists, alarmVars, node, clock, running>>,
         cursor' \in Listed \cup {QHead, RHead, Nil}
  PROVE  ReadyIsDue' /\ QueueSorted' /\ OnePlace' /\ Listed' = Listed
<1>1. cursor' \in Alarm => cursor' \in Listed
  BY ConstantsOK
<1>2. running' # Nil => running' \in Range(ready)
  BY DEF IInv, OnePlace
<1>3. clock' \in 0..MaxClock /\ clock <= clock'
  BY ConstantsOK DEF IInv, TypeOK
<1>4. ReadyIsDue' /\ QueueSorted' /\ OnePlace'
  BY <1>1, <1>2, <1>3, QuietInv
<1>5. QED BY <1>4 DEF Listed, lists

\* When a walk goes on, the node that the cursor leaves is all that comes in front
\* of it.
LEMMA PassedNext ==
  ASSUME IInv, cursor \in Listed \cup {RHead}, cursor' = NextNode(cursor),
         queued' = queued, NEW i \in DOMAIN queued, Passed(i)'
  PROVE  Passed(i) \/ queued[i] = cursor
<1>1. Range(queued) \subseteq Alarm /\ DOMAIN queued = 1..Len(queued) /\ Len(queued) \in Nat
  BY RangeFacts DEF IInv, TypeOK
<1>2. CASE NextNode(cursor) = QHead
  <2>1. queued # <<>> /\ queued[Len(queued)] = cursor
    BY <1>2, NextNodeFacts
  <2>2. CASE i < Len(queued)
    <3>1. Len(queued) \in DOMAIN queued
      BY <1>1, <2>2
    <3>2. QED BY <2>1, <2>2, <3>1 DEF Passed
  <2>3. CASE i = Len(queued)
    BY <2>1, <2>3
  <2>4. QED BY <1>1, <2>2, <2>3
<1>3. CASE NextNode(cursor) # QHead
  <2>1. PICK j \in DOMAIN queued : i < j /\ queued[j] = NextNode(cursor)
    BY <1>3 DEF Passed
  <2>2. NextNode(cursor) \in Range(queued)
    BY <2>1 DEF Range
  <2>3. PICK k \in DOMAIN queued :
          queued[k] = cursor /\ k + 1 \in DOMAIN queued
          /\ queued[k + 1] = NextNode(cursor)
    BY <2>2, NextNodeFacts
  <2>4. j = k + 1
    BY <2>1, <2>3 DEF IInv, OnePlace, IsInjective
  <2>5. i < k => Passed(i)
    BY <2>3 DEF Passed
  <2>6. QED BY <1>1, <2>1, <2>3, <2>4, <2>5
<1>4. QED BY <1>2, <1>3

\* One comparison of list_ordered_insert: the alarms the walk has passed in the
\* queued list run no later than the new one.
LEMMA ScanInv == ASSUME IInv, Scan PROVE IInv'
<1> USE DEF IInv, TypeOK, PointersOK, lists, alarmVars, signalVars, walkVars, PC
<1>1. CASE RunsBefore(node, cursor)
  <2>1. /\ pc' = "insert" /\ UNCHANGED <<cursor, lists, alarmVars, node, clock, running>>
        /\ cursor \in Listed /\ runat[node] < runat[cursor]
    BY <1>1, ConstantsOK DEF Scan, RunsBefore
  <2>2. ReadyIsDue' /\ QueueSorted' /\ OnePlace' /\ Listed' = Listed
    BY <2>1, CursorMoves
  <2>3. PassedOK'
    BY <1>1, <2>1 DEF Scan, PassedOK, Passed
  <2>4. QED BY <1>1, <2>1, <2>2, <2>3 DEF Scan
<1>2. CASE ~RunsBefore(node, cursor)
  <2>1. /\ pc = "scan" /\ pc' = "scan" /\ cursor' = NextNode(cursor)
        /\ UNCHANGED <<lists, alarmVars, node, clock, running>>
        /\ cursor \in Listed \cup {RHead}
    BY <1>2 DEF Scan
  <2>2. NextNode(cursor) \in Listed \cup {QHead, RHead}
    BY <2>1, NextNodeFacts
  <2>3. ReadyIsDue' /\ QueueSorted' /\ OnePlace' /\ Listed' = Listed
    BY <2>1, <2>2, CursorMoves
  <2>4. cursor \in Alarm => runat[cursor] <= runat[node]
    BY <1>2, <2>1 DEF RunsBefore
  <2>5. PassedOK'
    <3> SUFFICES ASSUME NEW i \in DOMAIN queued, Passed(i)'
                 PROVE  runat[queued[i]] <= runat[node]
      BY <2>1 DEF PassedOK
    <3>1. queued[i] \in Alarm
      BY RangeFacts
    <3>2. Passed(i) \/ queued[i] = cursor
      BY <2>1, PassedNext
    <3>3. QED BY <2>1, <2>4, <3>1, <3>2 DEF PassedOK
  <2>6. Listed \subseteq Alarm
    BY RangeFacts DEF Listed
  <2>7. QED BY <1>2, <2>1, <2>2, <2>3, <2>5, <2>6 DEF Scan
<1>3. QED BY <1>1, <1>2

\* The steps that begin, continue and end the walks of run_timed_funcs and
\* del_timed_func.
LEMMA CursorInv ==
  ASSUME IInv, CollectNext \/ DeleteStart \/ DeleteNext \/ DeleteEnd
  PROVE  IInv'
<1> USE DEF IInv, TypeOK, PointersOK, PassedOK, lists, alarmVars, signalVars, walkVars, PC
<1>1. queued # <<>> => Head(queued) \in Listed /\ Head(queued) \in Alarm
  BY RangeFacts DEF Listed
<1>2. CASE CollectNext
  <2>1. /\ cursor' = Head(queued) /\ cursor' \in Listed /\ cursor' \in Alarm
        /\ runat[cursor'] <= now
    BY <1>1, <1>2 DEF CollectNext
  <2>2. ReadyIsDue' /\ QueueSorted' /\ OnePlace' /\ Listed' = Listed
    BY <1>2, <2>1, CursorMoves DEF CollectNext
  <2>3. QED BY <1>2, <2>1, <2>2 DEF CollectNext
<1>3. CASE DeleteStart
  <2>1. cursor' \in Listed /\ cursor' \in Alarm
    BY <1>1, <1>3 DEF DeleteStart
  <2>2. ReadyIsDue' /\ QueueSorted' /\ OnePlace' /\ Listed' = Listed
    BY <1>3, <2>1, CursorMoves DEF DeleteStart
  <2>3. QED BY <1>3, <2>1, <2>2 DEF DeleteStart
<1>4. CASE DeleteNext
  <2>1. cursor \in Listed \cup {RHead} /\ cursor' = NextNode(cursor)
    BY <1>4 DEF DeleteNext
  <2>2. cursor' \in Listed \cup {QHead, RHead}
    BY <2>1, NextNodeFacts
  <2>3. ReadyIsDue' /\ QueueSorted' /\ OnePlace' /\ Listed' = Listed
    BY <1>4, <2>2, CursorMoves DEF DeleteNext
  <2>4. Listed \subseteq Alarm
    BY RangeFacts DEF Listed
  <2>5. QED BY <1>4, <2>2, <2>3, <2>4 DEF DeleteNext
<1>5. CASE DeleteEnd
  <2>1. ReadyIsDue' /\ QueueSorted' /\ OnePlace' /\ Listed' = Listed
    BY <1>5, CursorMoves DEF DeleteEnd
  <2>2. QED BY <1>5, <2>1 DEF DeleteEnd, Resume
<1>6. QED BY <1>2, <1>3, <1>4, <1>5

-----------------------------------------------------------------------------
(* The steps that take nodes off a list.                                    *)

\* What the invariant says of the alarms on the two lists.
LEMMA ListedFacts ==
  ASSUME IInv
  PROVE  /\ Range(queued) \subseteq Alarm /\ Range(ready) \subseteq Alarm
         /\ DOMAIN queued = 1..Len(queued) /\ DOMAIN ready = 1..Len(ready)
         /\ Len(queued) \in Nat /\ Len(ready) \in Nat
         /\ Held = Listed \cup ({node} \ {Nil})
         /\ \A a \in Range(ready) : IsDue(a)
<1>1. queued \in Seq(Alarm) /\ ready \in Seq(Alarm)
  BY DEF IInv, TypeOK
<1>2. \A a \in Range(ready) : IsDue(a)
  BY DEF IInv, ReadyIsDue, Range
<1>3. QED BY <1>1, <1>2, RangeFacts DEF IInv, OnePlace, Listed

\* A list that loses alarms and keeps the order of the others stays sorted.
LEMMA SortedShrinks ==
  ASSUME IInv, queued' \in Seq(Alarm), InOrderOf(queued', queued), runat' = runat
  PROVE  QueueSorted'
  BY DEF IInv, QueueSorted, InOrderOf

\* When the queued list loses alarms, those that are left in front of the cursor
\* were passed before.
LEMMA PassedBefore ==
  ASSUME InOrderOf(queued', queued), Range(queued') \subseteq Range(queued),
         cursor' = cursor, NEW i \in DOMAIN queued', Passed(i)'
  PROVE  \E k \in DOMAIN queued : queued[k] = queued'[i] /\ Passed(k)
<1>1. CASE cursor = QHead
  <2>1. PICK k \in DOMAIN queued : queued[k] = queued'[i]
    BY DEF Range
  <2>2. Passed(k)
    BY <1>1 DEF Passed
  <2>3. QED BY <2>1, <2>2
<1>2. CASE cursor # QHead
  <2>1. PICK j \in DOMAIN queued' : i < j /\ queued'[j] = cursor
    BY <1>2 DEF Passed
  <2>2. PICK k, l \in DOMAIN queued : k < l /\ queued'[i] = queued[k] /\ queued'[j] = queued[l]
    BY <2>1 DEF InOrderOf
  <2>3. Passed(k)
    BY <2>1, <2>2 DEF Passed
  <2>4. QED BY <2>2, <2>3
<1>3. QED BY <1>1, <1>2

\* So the new alarm keeps its place.
LEMMA PassedShrinks ==
  ASSUME IInv, InOrderOf(queued', queued), Range(queued') \subseteq Range(queued),
         UNCHANGED <<runat, pc, node, cursor>>
  PROVE  PassedOK'
<1> SUFFICES ASSUME pc \in {"scan", "insert"}, NEW i \in DOMAIN queued', Passed(i)'
             PROVE  runat[queued'[i]] <= runat[node]
  BY DEF PassedOK
<1>1. PICK k \in DOMAIN queued : queued[k] = queued'[i] /\ Passed(k)
  BY PassedBefore
<1>2. QED BY <1>1 DEF IInv, PassedOK

\* SIGALRM: sig_handler moves the alarms that are due, whatever it interrupted.
LEMMA HandlerInv == ASSUME IInv, SignalHandled PROVE IInv'
<1> DEFINE front == SubSeq(queued, 1, DueCount)
           back  == SubSeq(queued, DueCount + 1, Len(queued))
<1>1. /\ queued' = back /\ ready' = ready \o front
      /\ UNCHANGED <<clock, alarmVars, handler, pc, walkVars>>
      /\ timer' \in NextExpiry
  BY DEF SignalHandled, MoveDue
<1>2. /\ queued \in Seq(Alarm) /\ ready \in Seq(Alarm)
      /\ IsInjective(queued) /\ IsInjective(ready)
      /\ Range(queued) \cap Range(ready) = {}
  BY DEF IInv, TypeOK, OnePlace
<1>3. /\ DueCount \in 0..Len(queued)
      /\ \A i \in 1..DueCount : IsDue(queued[i])
  BY DueCountFacts
<1>4. /\ front \in Seq(Alarm) /\ back \in Seq(Alarm)
      /\ \A i \in DOMAIN front : i \in 1..DueCount /\ front[i] = queued[i]
      /\ IsInjective(front) /\ IsInjective(back)
      /\ Range(front) \cup Range(back) = Range(queued)
      /\ Range(front) \cap Range(back) = {}
      /\ InOrderOf(back, queued)
  BY <1>2, <1>3, SplitFacts
<1> HIDE DEF front, back
<1>5. /\ ready' \in Seq(Alarm)
      /\ Range(ready') = Range(ready) \cup Range(front)
      /\ IsInjective(ready')
  <2>1. Range(ready) \cap Range(front) = {}
    BY <1>2, <1>4
  <2>2. QED BY <2>1, <1>1, <1>2, <1>4, ConcatFacts
<1>6. Listed' = Listed
  BY <1>1, <1>4, <1>5 DEF Listed
<1>7. TypeOK'
  BY <1>1, <1>4, <1>5 DEF IInv, TypeOK, alarmVars, walkVars, NextExpiry
<1>8. ReadyIsDue'
  <2>1. \A a \in Range(front) : IsDue(a)
    BY <1>3, <1>4 DEF Range
  <2>2. \A a \in Range(ready') : IsDue(a)
    BY <2>1, <1>5, ListedFacts
  <2>3. \A a : IsDue(a)' <=> IsDue(a)
    BY <1>1 DEF IsDue, alarmVars
  <2>4. \A i \in DOMAIN ready' : ready'[i] \in Range(ready')
    BY DEF Range
  <2>5. QED BY <2>2, <2>3, <2>4 DEF ReadyIsDue
<1>9. QueueSorted'
  BY <1>1, <1>4, SortedShrinks DEF alarmVars
<1>10. OnePlace'
  <2>1. Held' = Held /\ UNCHANGED <<node, cursor, running>>
    BY <1>1 DEF Held, alarmVars, walkVars
  <2>2. QED BY <2>1, <1>1, <1>2, <1>4, <1>5 DEF IInv, OnePlace
<1>11. PointersOK'
  BY <1>1, <1>6 DEF IInv, PointersOK, alarmVars, walkVars
<1>12. PassedOK'
  BY <1>1, <1>4, PassedShrinks DEF alarmVars, walkVars
<1>13. QED BY <1>7, <1>8, <1>9, <1>10, <1>11, <1>12 DEF IInv

\* run_timed_funcs takes an alarm off the list that it is on: the handler may have
\* moved it before.
LEMMA CollectRemoveInv == ASSUME IInv, CollectRemove PROVE IInv'
<1>1. /\ pc = "move" /\ pc' = "push" /\ node' = cursor /\ cursor' = Nil
      /\ queued' = Unlink(queued, cursor) /\ ready' = Unlink(ready, cursor)
      /\ UNCHANGED <<clock, alarmVars, signalVars, now, target, running>>
  BY DEF CollectRemove
<1>2. /\ queued \in Seq(Alarm) /\ ready \in Seq(Alarm)
      /\ IsInjective(queued) /\ IsInjective(ready)
      /\ Range(queued) \cap Range(ready) = {}
      /\ node = Nil /\ running = Nil /\ Nil \notin Alarm
  BY <1>1, ConstantsOK DEF IInv, TypeOK, OnePlace, PointersOK
<1>3. cursor \in Listed /\ cursor \in Alarm /\ runat[cursor] <= now
  BY <1>1, ListedFacts DEF IInv, PointersOK, Listed
<1>4. /\ queued' \in Seq(Alarm) /\ Range(queued') = Range(queued) \ {cursor}
      /\ IsInjective(queued') /\ InOrderOf(queued', queued)
  BY <1>1, <1>2, UnlinkFacts
<1>5. /\ ready' \in Seq(Alarm) /\ Range(ready') = Range(ready) \ {cursor}
      /\ IsInjective(ready')
  BY <1>1, <1>2, UnlinkFacts
<1>6. TypeOK'
  BY <1>1, <1>3, <1>4, <1>5 DEF IInv, TypeOK, alarmVars, signalVars, PC
<1>7. ReadyIsDue'
  <2>1. \A a \in Range(ready') : IsDue(a)
    BY <1>5, ListedFacts
  <2>2. \A a : IsDue(a)' <=> IsDue(a)
    BY <1>1 DEF IsDue, alarmVars
  <2>3. \A i \in DOMAIN ready' : ready'[i] \in Range(ready')
    BY DEF Range
  <2>4. QED BY <2>1, <2>2, <2>3 DEF ReadyIsDue
<1>8. QueueSorted'
  BY <1>1, <1>4, SortedShrinks DEF alarmVars
<1>9. OnePlace'
  <2>1. Held' = Held
    BY <1>1 DEF Held, alarmVars
  <2>2. Held' = Range(queued') \cup Range(ready') \cup {cursor}
    BY <2>1, <1>2, <1>3, <1>4, <1>5, ListedFacts DEF Listed
  <2>3. Range(queued') \cap Range(ready') = {} /\ cursor \notin Range(queued') \cup Range(ready')
    BY <1>2, <1>4, <1>5
  <2>4. QED BY <2>2, <2>3, <1>1, <1>2, <1>3, <1>4, <1>5 DEF OnePlace
<1>10. PointersOK'
  BY <1>1, <1>3 DEF IInv, PointersOK, alarmVars
<1>11. PassedOK'
  BY <1>1 DEF PassedOK
<1>12. QED BY <1>6, <1>7, <1>8, <1>9, <1>10, <1>11 DEF IInv

\* do_timed_funcs frees the alarm whose function has run.
LEMMA FreeInv == ASSUME IInv, Free PROVE IInv'
<1>1. /\ pc = "free" /\ pc' = "run" /\ running' = Nil
      /\ queued' = queued /\ ready' = Unlink(ready, running)
      /\ memory' = [memory EXCEPT ![running] = "free"]
      /\ runat' = [runat EXCEPT ![running] = 0]
      /\ func' = [func EXCEPT ![running] = Nil]
      /\ UNCHANGED <<clock, signalVars, node, cursor, now, target>>
  BY DEF Free
<1>2. /\ queued \in Seq(Alarm) /\ ready \in Seq(Alarm)
      /\ IsInjective(queued) /\ IsInjective(ready)
      /\ Range(queued) \cap Range(ready) = {}
      /\ node = Nil /\ cursor = Nil /\ Nil \notin Alarm
  BY <1>1, ConstantsOK DEF IInv, TypeOK, OnePlace, PointersOK
<1>3. running \in Range(ready) /\ running \in Alarm /\ running \notin Range(queued)
  BY <1>1, <1>2, ListedFacts DEF IInv, PointersOK, OnePlace
<1>4. /\ ready' \in Seq(Alarm) /\ Range(ready') = Range(ready) \ {running}
      /\ IsInjective(ready')
  BY <1>1, <1>2, UnlinkFacts
<1>5. \A a \in Alarm \ {running} : runat'[a] = runat[a] /\ memory'[a] = memory[a]
  BY <1>1, <1>3 DEF IInv, TypeOK
<1>6. TypeOK'
  BY <1>1, <1>3, <1>4, ConstantsOK DEF IInv, TypeOK, signalVars, PC
<1>7. ReadyIsDue'
  <2>1. \A a \in Range(ready') : IsDue(a)'
    BY <1>1, <1>4, <1>5, ListedFacts DEF IsDue
  <2>2. \A i \in DOMAIN ready' : ready'[i] \in Range(ready')
    BY DEF Range
  <2>3. QED BY <2>1, <2>2 DEF ReadyIsDue
<1>8. QueueSorted'
  <2>1. \A i \in DOMAIN queued : runat'[queued[i]] = runat[queued[i]]
    BY <1>3, <1>5, ListedFacts DEF Range
  <2>2. QED BY <2>1, <1>1 DEF IInv, QueueSorted
<1>9. OnePlace'
  <2>1. Held' = Held \ {running}
    BY <1>1, <1>3, <1>5 DEF Held, IInv, TypeOK
  <2>2. QED BY <2>1, <1>1, <1>2, <1>3, <1>4 DEF IInv, OnePlace
<1>10. PointersOK'
  BY <1>1, <1>2 DEF IInv, PointersOK
<1>11. PassedOK'
  BY <1>1 DEF PassedOK
<1>12. QED BY <1>6, <1>7, <1>8, <1>9, <1>10, <1>11 DEF IInv

\* del_timed_func takes the alarm it found off the list it is on.
LEMMA DeleteFoundInv == ASSUME IInv, DeleteFound PROVE IInv'
<1>1. /\ pc = "search" /\ pc' = "delete" /\ cursor' = Nil /\ cursor \in Alarm
      /\ queued' = Unlink(queued, cursor) /\ ready' = Unlink(ready, cursor)
      /\ memory' = [memory EXCEPT ![cursor] = "leaked"]
      /\ runat' = [runat EXCEPT ![cursor] = 0]
      /\ func' = [func EXCEPT ![cursor] = Nil]
      /\ func[cursor] = target
      /\ UNCHANGED <<clock, signalVars, node, now, target, running>>
  BY DEF DeleteFound, Matches
<1>2. /\ queued \in Seq(Alarm) /\ ready \in Seq(Alarm)
      /\ IsInjective(queued) /\ IsInjective(ready)
      /\ Range(queued) \cap Range(ready) = {}
      /\ node = Nil /\ Nil \notin Alarm
      /\ running # Nil => running \in Range(ready) /\ running # cursor
  BY <1>1, ConstantsOK DEF IInv, TypeOK, OnePlace, PointersOK
<1>3. /\ queued' \in Seq(Alarm) /\ Range(queued') = Range(queued) \ {cursor}
      /\ IsInjective(queued') /\ InOrderOf(queued', queued)
  BY <1>1, <1>2, UnlinkFacts
<1>4. /\ ready' \in Seq(Alarm) /\ Range(ready') = Range(ready) \ {cursor}
      /\ IsInjective(ready')
  BY <1>1, <1>2, UnlinkFacts
<1>4a. \A a \in Alarm \ {cursor} : runat'[a] = runat[a] /\ func'[a] = func[a]
  BY <1>1 DEF IInv, TypeOK
<1>5. TypeOK'
  BY <1>1, <1>3, <1>4, ConstantsOK DEF IInv, TypeOK, signalVars, PC
<1>6. ReadyIsDue'
  <2>1. \A a \in Range(ready') : IsDue(a)'
    BY <1>1, <1>4, <1>4a, ListedFacts DEF IsDue
  <2>2. \A i \in DOMAIN ready' : ready'[i] \in Range(ready')
    BY DEF Range
  <2>3. QED BY <2>1, <2>2 DEF ReadyIsDue
<1>7. QueueSorted'
  <2>1. \A i \in DOMAIN queued' : queued'[i] \in Alarm \ {cursor}
    BY <1>3, ListedFacts DEF Range
  <2>2. \A i \in DOMAIN queued' : runat'[queued'[i]] = runat[queued'[i]]
    BY <2>1, <1>4a
  <2>3. SUFFICES ASSUME NEW i \in DOMAIN queued', NEW j \in DOMAIN queued', i < j
                 PROVE  runat[queued'[i]] <= runat[queued'[j]]
    BY <2>2 DEF QueueSorted
  <2>4. PICK k, l \in DOMAIN queued : k < l /\ queued'[i] = queued[k] /\ queued'[j] = queued[l]
    BY <2>3, <1>3 DEF InOrderOf
  <2>5. QED BY <2>4 DEF IInv, QueueSorted
<1>8. OnePlace'
  <2>1. Held' = Held \ {cursor}
    BY <1>1 DEF Held, IInv, TypeOK
  <2>2. QED BY <2>1, <1>1, <1>2, <1>3, <1>4 DEF IInv, OnePlace
<1>9. PointersOK'
  BY <1>1, <1>2, <1>4a DEF IInv, PointersOK, TypeOK
<1>10. PassedOK'
  BY <1>1 DEF PassedOK
<1>11. QED BY <1>5, <1>6, <1>7, <1>8, <1>9, <1>10 DEF IInv

-----------------------------------------------------------------------------
(* The steps that put an alarm on a list.                                   *)

\* add_timed_func allocates an alarm and begins the walk, or is done with an
\* empty queue.
LEMMA AddTimedInv ==
  ASSUME IInv, NEW a \in Alarm, NEW f \in Func, NEW d \in Delay, AddTimed(a, f, d)
  PROVE  IInv'
<1>1. /\ pc \in {"loop", "callback"} /\ memory[a] = "free"
      /\ memory' = [memory EXCEPT ![a] = "held"]
      /\ runat' = [runat EXCEPT ![a] = clock + d]
      /\ func' = [func EXCEPT ![a] = f]
      /\ now' = clock /\ clock + d <= MaxClock
      /\ UNCHANGED <<clock, ready, signalVars, target, running>>
  BY DEF AddTimed
<1>2. /\ queued \in Seq(Alarm) /\ ready \in Seq(Alarm)
      /\ IsInjective(queued) /\ IsInjective(ready)
      /\ Range(queued) \cap Range(ready) = {}
      /\ node = Nil /\ cursor = Nil /\ Nil \notin Alarm
  BY <1>1, ConstantsOK DEF IInv, TypeOK, OnePlace, PointersOK
<1>3. a \notin Listed
  BY <1>1, ListedFacts DEF Held
<1>4. \A b \in Alarm \ {a} : runat'[b] = runat[b]
  BY <1>1 DEF IInv, TypeOK
<1>5. Held' = Held \cup {a}
  BY <1>1 DEF Held, IInv, TypeOK
<1>6. Held = Listed
  BY <1>2, ListedFacts
<1>7. ReadyIsDue'
  BY <1>1, <1>3, <1>4, ListedFacts DEF IInv, ReadyIsDue, IsDue, Range, Listed
<1>8. runat' \in [Alarm -> 0..MaxClock] /\ clock \in 0..MaxClock
  BY <1>1, ConstantsOK DEF IInv, TypeOK
<1>9. CASE queued = <<>> /\ queued' = <<a>> /\ pc' = "arm" /\ UNCHANGED <<node, cursor>>
  <2>1. /\ queued' \in Seq(Alarm) /\ Range(queued') = {a} /\ IsInjective(queued')
        /\ Range(queued) = {}
    BY <1>9 DEF Range, IsInjective
  <2>2. TypeOK'
    BY <1>1, <1>2, <1>8, <1>9, <2>1 DEF IInv, TypeOK, signalVars, PC
  <2>3. QueueSorted'
    BY <1>9 DEF QueueSorted
  <2>4. OnePlace'
    BY <1>1, <1>2, <1>3, <1>5, <1>6, <1>9, <2>1 DEF IInv, OnePlace, Listed
  <2>5. PointersOK'
    BY <1>1, <1>2, <1>8, <1>9 DEF IInv, PointersOK
  <2>6. PassedOK'
    BY <1>9 DEF PassedOK
  <2>7. QED BY <1>7, <2>2, <2>3, <2>4, <2>5, <2>6 DEF IInv
<1>10. CASE /\ queued # <<>> /\ node' = a /\ cursor' = Head(queued)
            /\ pc' = "scan" /\ UNCHANGED queued
  <2>1. /\ Head(queued) \in Range(queued) /\ Head(queued) = queued[1]
        /\ Head(queued) \in Alarm /\ 1 \in DOMAIN queued
    BY <1>2, <1>10, RangeFacts
  <2>2. TypeOK'
    BY <1>1, <1>2, <1>8, <1>10, <2>1 DEF IInv, TypeOK, signalVars, PC
  <2>3. QueueSorted'
    <3>1. \A i \in DOMAIN queued : runat'[queued[i]] = runat[queued[i]]
      BY <1>3, <1>4, ListedFacts DEF Range, Listed
    <3>2. QED BY <3>1, <1>10 DEF IInv, QueueSorted
  <2>4. OnePlace'
    BY <1>1, <1>2, <1>3, <1>5, <1>6, <1>10, <2>1 DEF IInv, OnePlace, Listed
  <2>5. PointersOK'
    BY <1>1, <1>2, <1>8, <1>10, <2>1 DEF IInv, PointersOK, Listed
  <2>6. PassedOK'
    <3> SUFFICES ASSUME NEW i \in DOMAIN queued, Passed(i)' PROVE FALSE
      BY <1>10 DEF PassedOK
    <3>1. cursor' # QHead
      BY <1>10, <2>1, ConstantsOK
    <3>2. PICK j \in DOMAIN queued : i < j /\ queued[j] = queued[1]
      BY <3>1, <1>10, <2>1 DEF Passed
    <3>3. j = 1
      BY <3>2, <2>1, <1>2 DEF IsInjective
    <3>4. QED BY <3>2, <3>3, ListedFacts
  <2>7. QED BY <1>7, <2>2, <2>3, <2>4, <2>5, <2>6 DEF IInv
<1>11. QED BY <1>9, <1>10 DEF AddTimed

\* The new alarm, so far only known to add_timed_func, is now on a list.
LEMMA NodeListed ==
  ASSUME IInv, node \in Alarm, node' = Nil, cursor' = Nil, running' = running,
         Held' = Held, IsInjective(queued'), IsInjective(ready'),
         \/ Range(queued') = Range(queued) \cup {node} /\ Range(ready') = Range(ready)
         \/ Range(queued') = Range(queued) /\ Range(ready') = Range(ready) \cup {node}
  PROVE  OnePlace'
<1>1. /\ Range(queued) \cap Range(ready) = {} /\ node \notin Range(queued) \cup Range(ready)
      /\ Held = Range(queued) \cup Range(ready) \cup {node}
      /\ running # Nil => running \in Range(ready)
      /\ Nil \notin Alarm
  BY ConstantsOK DEF IInv, OnePlace
<1>2. Range(queued) \subseteq Alarm /\ Range(ready) \subseteq Alarm
  BY ListedFacts
<1>3. /\ Range(queued') \cap Range(ready') = {}
      /\ Held' = Range(queued') \cup Range(ready')
      /\ Nil \notin Range(queued') \cup Range(ready')
      /\ running' # Nil => running' \in Range(ready')
  BY <1>1, <1>2
<1>4. QED BY <1>1, <1>3 DEF OnePlace

\* run_timed_funcs puts the alarm that it took off behind the others that are due.
LEMMA CollectPushInv == ASSUME IInv, CollectPush PROVE IInv'
<1>1. /\ pc = "push" /\ pc' = "collect" /\ node' = Nil
      /\ queued' = queued /\ ready' = Append(ready, node)
      /\ UNCHANGED <<clock, alarmVars, signalVars, cursor, now, target, running>>
  BY DEF CollectPush
<1>2. /\ ready \in Seq(Alarm) /\ IsInjective(queued) /\ IsInjective(ready)
      /\ node \in Alarm /\ node \notin Range(ready) /\ cursor = Nil /\ running = Nil
  BY <1>1 DEF IInv, TypeOK, OnePlace, PointersOK
<1>3. /\ ready' \in Seq(Alarm) /\ Range(ready') = Range(ready) \cup {node}
      /\ IsInjective(ready')
  BY <1>1, <1>2, AppendFacts
<1>4. TypeOK'
  BY <1>1, <1>3 DEF IInv, TypeOK, alarmVars, signalVars, PC
<1>5. ReadyIsDue'
  <2>1. IsDue(node)
    BY <1>1, <1>2, ConstantsOK DEF IInv, TypeOK, PointersOK, IsDue
  <2>2. \A a \in Range(ready') : IsDue(a)
    BY <2>1, <1>3, ListedFacts
  <2>3. \A a : IsDue(a)' <=> IsDue(a)
    BY <1>1 DEF IsDue, alarmVars
  <2>4. \A i \in DOMAIN ready' : ready'[i] \in Range(ready')
    BY DEF Range
  <2>5. QED BY <2>2, <2>3, <2>4 DEF ReadyIsDue
<1>6. QueueSorted'
  BY <1>1 DEF IInv, QueueSorted, alarmVars
<1>7. OnePlace'
  <2>1. Held' = Held
    BY <1>1 DEF Held, alarmVars
  <2>2. QED BY <2>1, <1>1, <1>2, <1>3, NodeListed
<1>8. PointersOK'
  BY <1>1, <1>2 DEF IInv, PointersOK
<1>9. PassedOK'
  BY <1>1 DEF PassedOK
<1>10. QED BY <1>4, <1>5, <1>6, <1>7, <1>8, <1>9 DEF IInv

\* The new alarm becomes the last one, no queued alarm runs later.
LEMMA InsertLastInv == ASSUME IInv, InsertLast PROVE IInv'
<1>1. /\ pc = "scan" /\ cursor = QHead /\ pc' = "arm" /\ node' = Nil /\ cursor' = Nil
      /\ queued' = Append(queued, node)
      /\ UNCHANGED <<clock, ready, alarmVars, signalVars, now, target, running>>
  BY DEF InsertLast, Inserted
<1>2. /\ queued \in Seq(Alarm) /\ IsInjective(queued) /\ IsInjective(ready)
      /\ Range(queued) \cap Range(ready) = {}
      /\ node \in Alarm /\ Nil \notin Alarm
      /\ node \notin Range(queued) /\ node \notin Range(ready)
  BY <1>1, ConstantsOK DEF IInv, TypeOK, OnePlace, PointersOK
<1>3. /\ queued' \in Seq(Alarm) /\ Range(queued') = Range(queued) \cup {node}
      /\ IsInjective(queued')
  BY <1>1, <1>2, AppendFacts
<1>4. TypeOK'
  BY <1>1, <1>3 DEF IInv, TypeOK, alarmVars, signalVars, PC
<1>5. ReadyIsDue'
  BY <1>1 DEF IInv, ReadyIsDue, IsDue, alarmVars
<1>6. QueueSorted'
  <2>1. \A i \in DOMAIN queued : runat[queued[i]] <= runat[node]
    BY <1>1 DEF IInv, PassedOK, Passed
  <2>2. /\ DOMAIN queued' = 1..(Len(queued) + 1) /\ DOMAIN queued = 1..Len(queued)
        /\ \A i \in 1..Len(queued) : queued'[i] = queued[i]
        /\ queued'[Len(queued) + 1] = node
    BY <1>1, <1>2, AppendProperties, ListedFacts
  <2>3. SUFFICES ASSUME NEW i \in DOMAIN queued', NEW j \in DOMAIN queued', i < j
                 PROVE  runat[queued'[i]] <= runat[queued'[j]]
    BY <1>1 DEF QueueSorted, alarmVars
  <2>4. i \in DOMAIN queued /\ queued'[i] = queued[i]
    BY <2>2, <2>3, <1>2
  <2>5. CASE j = Len(queued) + 1
    BY <2>1, <2>2, <2>4, <2>5
  <2>6. CASE j # Len(queued) + 1
    <3>1. j \in DOMAIN queued /\ queued'[j] = queued[j]
      BY <2>2, <2>6, <1>2
    <3>2. QED BY <2>3, <2>4, <3>1 DEF IInv, QueueSorted
  <2>7. QED BY <2>5, <2>6
<1>7. OnePlace'
  <2>1. Held' = Held
    BY <1>1 DEF Held, alarmVars
  <2>2. QED BY <2>1, <1>1, <1>2, <1>3, NodeListed
<1>8. PointersOK'
  BY <1>1 DEF IInv, PointersOK
<1>9. PassedOK'
  BY <1>1 DEF PassedOK
<1>10. QED BY <1>4, <1>5, <1>6, <1>7, <1>8, <1>9 DEF IInv

\* The new alarm goes in front of the cursor: into its place in the queued list,
\* or onto the ready list behind a signal, and then it is due.
LEMMA InsertInv == ASSUME IInv, Insert PROVE IInv'
<1>1. /\ pc = "insert" /\ pc' = "arm" /\ node' = Nil /\ cursor' = Nil
      /\ queued' = LinkBefore(queued, cursor, node)
      /\ ready' = LinkBefore(ready, cursor, node)
      /\ UNCHANGED <<clock, alarmVars, signalVars, now, target, running>>
  BY DEF Insert, Inserted
<1>2. /\ queued \in Seq(Alarm) /\ ready \in Seq(Alarm)
      /\ IsInjective(queued) /\ IsInjective(ready)
      /\ Range(queued) \cap Range(ready) = {}
      /\ node \in Alarm /\ Nil \notin Alarm
      /\ node \notin Range(queued) /\ node \notin Range(ready)
      /\ cursor \in Listed /\ runat[node] < runat[cursor]
  BY <1>1, ConstantsOK DEF IInv, TypeOK, OnePlace, PointersOK
<1>3. Held' = Held /\ runat' = runat /\ runat \in [Alarm -> 0..MaxClock]
  BY <1>1 DEF Held, alarmVars, IInv, TypeOK
<1>4. PointersOK' /\ PassedOK'
  BY <1>1 DEF IInv, PointersOK, PassedOK
<1>5. CASE cursor \in Range(queued)
  <2>1. cursor \notin Range(ready)
    BY <1>2, <1>5
  <2>2. ready' = ready
    BY <1>1, <2>1 DEF LinkBefore
  <2>3. /\ queued' \in Seq(Alarm) /\ Range(queued') = Range(queued) \cup {node}
        /\ IsInjective(queued')
        /\ \A i, j \in DOMAIN queued' : i < j =>
             \/ \E k, l \in DOMAIN queued :
                  k < l /\ queued'[i] = queued[k] /\ queued'[j] = queued[l]
             \/ /\ queued'[j] = node
                /\ \E k, l \in DOMAIN queued :
                     k < l /\ queued'[i] = queued[k] /\ queued[l] = cursor
             \/ /\ queued'[i] = node
                /\ \E k, l \in DOMAIN queued :
                     k <= l /\ queued[k] = cursor /\ queued'[j] = queued[l]
    BY <1>1, <1>2, <1>5, LinkBeforeFacts
  <2>4. TypeOK'
    BY <1>1, <2>2, <2>3 DEF IInv, TypeOK, alarmVars, signalVars, PC
  <2>5. ReadyIsDue'
    BY <1>1, <2>2 DEF IInv, ReadyIsDue, IsDue, alarmVars
  <2>6. QueueSorted'
    <3>1. SUFFICES ASSUME NEW i \in DOMAIN queued', NEW j \in DOMAIN queued', i < j
                   PROVE  runat[queued'[i]] <= runat[queued'[j]]
      BY <1>3 DEF QueueSorted
    <3>2. CASE \E k, l \in DOMAIN queued :
                 k < l /\ queued'[i] = queued[k] /\ queued'[j] = queued[l]
      BY <3>2 DEF IInv, QueueSorted
    <3>3. CASE /\ queued'[j] = node
               /\ \E k, l \in DOMAIN queued :
                    k < l /\ queued'[i] = queued[k] /\ queued[l] = cursor
      <4>1. PICK k, l \in DOMAIN queued :
              k < l /\ queued'[i] = queued[k] /\ queued[l] = cursor
        BY <3>3
      <4>2. Passed(k)
        BY <4>1 DEF Passed
      <4>3. QED BY <3>3, <4>1, <4>2, <1>1 DEF IInv, PassedOK
    <3>4. CASE /\ queued'[i] = node
               /\ \E k, l \in DOMAIN queued :
                    k <= l /\ queued[k] = cursor /\ queued'[j] = queued[l]
      <4>1. PICK k, l \in DOMAIN queued :
              k <= l /\ queued[k] = cursor /\ queued'[j] = queued[l]
        BY <3>4
      <4>2. queued[k] \in Alarm /\ queued[l] \in Alarm
        BY ListedFacts DEF Range
      <4>3. runat[queued[k]] <= runat[queued[l]]
        <5>1. CASE k = l
          BY <5>1, <4>2, <1>3
        <5>2. CASE k < l
          BY <5>2 DEF IInv, QueueSorted
        <5>3. QED BY <5>1, <5>2, <4>1, ListedFacts
      <4>4. runat[node] \in Int /\ runat[queued[k]] \in Int /\ runat[queued[l]] \in Int
        BY <1>2, <1>3, <4>2
      <4>5. QED BY <3>4, <4>1, <4>3, <4>4, <1>2
    <3>5. QED BY <3>1, <3>2, <3>3, <3>4, <2>3
  <2>7. OnePlace'
    BY <1>1, <1>2, <1>3, <2>2, <2>3, NodeListed
  <2>8. QED BY <1>4, <2>4, <2>5, <2>6, <2>7 DEF IInv
<1>6. CASE cursor \in Range(ready)
  <2>1. cursor \notin Range(queued)
    BY <1>2, <1>6
  <2>2. queued' = queued
    BY <1>1, <2>1 DEF LinkBefore
  <2>3. /\ ready' \in Seq(Alarm) /\ Range(ready') = Range(ready) \cup {node}
        /\ IsInjective(ready')
    BY <1>1, <1>2, <1>6, LinkBeforeFacts
  <2>4. TypeOK'
    BY <1>1, <2>2, <2>3 DEF IInv, TypeOK, alarmVars, signalVars, PC
  <2>5. ReadyIsDue'
    <3>1. IsDue(cursor)
      BY <1>6, ListedFacts
    <3>2. cursor \in Alarm
      BY <1>6, ListedFacts
    <3>3. runat[node] \in Int /\ runat[cursor] \in Int /\ clock \in Int
      BY <1>2, <1>3, <3>2, ConstantsOK DEF IInv, TypeOK
    <3>4. IsDue(node)
      BY <3>1, <3>3, <1>2 DEF IsDue
    <3>5. \A a \in Range(ready') : IsDue(a)
      BY <3>4, <2>3, ListedFacts
    <3>6. \A a : IsDue(a)' <=> IsDue(a)
      BY <1>1, <1>3 DEF IsDue
    <3>7. \A i \in DOMAIN ready' : ready'[i] \in Range(ready')
      BY DEF Range
    <3>8. QED BY <3>5, <3>6, <3>7 DEF ReadyIsDue
  <2>6. QueueSorted'
    BY <1>3, <2>2 DEF IInv, QueueSorted
  <2>7. OnePlace'
    BY <1>1, <1>2, <1>3, <2>2, <2>3, NodeListed
  <2>8. QED BY <1>4, <2>4, <2>5, <2>6, <2>7 DEF IInv
<1>7. QED BY <1>2, <1>5, <1>6 DEF Listed

-----------------------------------------------------------------------------
\* The lists start empty and no alarm is allocated.
LEMMA InitInv == ASSUME Init PROVE IInv
  BY ConstantsOK DEF Init, IInv, TypeOK, ReadyIsDue, QueueSorted, OnePlace, PointersOK,
     PassedOK, PC, Range, IsInjective, Held

\* Every step of the program, of the signal and of the clock keeps the invariant.
LEMMA StepInv == ASSUME IInv, [Next]_vars PROVE IInv'
<1>1. CASE UNCHANGED vars
  <2>1. UNCHANGED <<clock, lists, alarmVars, signalVars, pc, node, cursor, now, target,
                    running, Held, Listed>>
    BY <1>1 DEF vars, walkVars, lists, alarmVars, Held, Listed
  <2>2. QED
    BY <2>1 DEF IInv, TypeOK, ReadyIsDue, QueueSorted, OnePlace, PointersOK, PassedOK,
       Passed, IsDue, lists, alarmVars, signalVars
<1>2. ASSUME NEW a \in Alarm, NEW f \in Func, NEW d \in Delay, AddTimed(a, f, d)
      PROVE  IInv'
  BY <1>2, AddTimedInv
<1>3. ASSUME Next, ~\E a \in Alarm, f \in Func, d \in Delay : AddTimed(a, f, d)
      PROVE  IInv'
  BY <1>3, NoWalkInv, ScanInv, CursorInv, HandlerInv, CollectRemoveInv, CollectPushInv, FreeInv,
     DeleteFoundInv, InsertLastInv, InsertInv
     DEF Next, Continue, OrderedInsert, RunTimedFuncs, DelTimedFunc, Signal
<1>4. QED BY <1>1, <1>2, <1>3

\* IInv is an inductive invariant of sigalrm.c.
LEMMA Invariance == Spec => []IInv
  BY InitInv, StepInv, PTL DEF Spec

\* Every variable keeps its type.
THEOREM TypeCorrect == Spec => []TypeOK
<1>1. IInv => TypeOK
  BY DEF IInv
<1>2. QED BY <1>1, Invariance, PTL

\* No timed function runs before its time, whatever the signal interrupts.
THEOREM NeverEarly == Spec => []ReadyIsDue
<1>1. IInv => ReadyIsDue
  BY DEF IInv
<1>2. QED BY <1>1, Invariance, PTL

\* The queue that the handler takes due alarms from stays sorted.
THEOREM Sorted == Spec => []QueueSorted
<1>1. IInv => QueueSorted
  BY DEF IInv
<1>2. QED BY <1>1, Invariance, PTL

\* No alarm is lost, listed twice, or listed after it was freed.
THEOREM NothingLost == Spec => []OnePlace
<1>1. IInv => OnePlace
  BY DEF IInv
<1>2. QED BY <1>1, Invariance, PTL

-----------------------------------------------------------------------------
(* del_timed_func.                                                          *)

\* The queued nodes that the search has passed are not of the function.
SearchOK ==
  pc = "search" => \A i \in DOMAIN queued : Passed(i) => func[queued[i]] # target

\* Nothing is passed when the search begins at the first node, and the nodes that
\* it goes on from do not match, on whichever list.
LEMMA SearchInv == ASSUME IInv, SearchOK, [Next]_vars PROVE SearchOK'
<1> SUFFICES ASSUME pc' = "search", NEW i \in DOMAIN queued', Passed(i)'
             PROVE  func'[queued'[i]] # target'
  BY DEF SearchOK
<1>1. \/ DeleteStart \/ DeleteNext \/ SignalHandled
      \/ UNCHANGED <<queued, func, pc, cursor, target>>
  BY DEF Next, AddTimed, Delete, RunTimed, Continue, SetSigalrm, ArmNothing, Arm, Install,
         Resume, OrderedInsert, Scan, InsertLast, Insert, Inserted, RunTimedFuncs, CollectNext,
         CollectRemove, CollectPush, CollectEnd, Call, CallbackReturns, Free, RunEnd, DelTimedFunc,
         DeleteFound, DeleteEnd, Signal, SignalIgnored, SignalKills, Tick, vars, lists,
         alarmVars, walkVars
<1>2. CASE DeleteStart
  <2>1. queued' = queued /\ queued # <<>> /\ cursor' = queued[1]
    BY <1>2 DEF DeleteStart, lists, IInv, TypeOK
  <2>2. /\ queued \in Seq(Alarm) /\ IsInjective(queued)
        /\ DOMAIN queued = 1..Len(queued) /\ 1 \in DOMAIN queued
        /\ \A j \in DOMAIN queued : queued[j] \in Alarm
    BY <2>1, RangeFacts DEF IInv, TypeOK, OnePlace
  <2>3. cursor' # QHead
    BY <2>1, <2>2, ConstantsOK
  <2>4. PICK j \in DOMAIN queued : i < j /\ queued[j] = queued[1]
    BY <2>1, <2>3 DEF Passed
  <2>5. j = 1
    BY <2>2, <2>4 DEF IsInjective
  <2>6. QED BY <2>1, <2>2, <2>4, <2>5
<1>3. CASE DeleteNext
  <2>1. /\ pc = "search" /\ cursor # QHead /\ ~Matches(cursor)
        /\ cursor' = NextNode(cursor)
        /\ queued' = queued /\ func' = func /\ target' = target
    BY <1>3 DEF DeleteNext, lists, alarmVars
  <2>2. cursor \in Listed \cup {RHead}
    BY <2>1 DEF IInv, PointersOK
  <2>3. Passed(i) \/ queued[i] = cursor
    BY <2>1, <2>2, PassedNext
  <2>4. queued[i] \in Alarm
    BY <2>1, RangeFacts DEF IInv, TypeOK
  <2>5. QED BY <2>1, <2>3, <2>4 DEF SearchOK, Matches
<1>4. CASE SignalHandled
  <2>1. /\ queued' = SubSeq(queued, DueCount + 1, Len(queued))
        /\ UNCHANGED <<func, pc, cursor, target>>
    BY <1>4 DEF SignalHandled, MoveDue, alarmVars, walkVars
  <2>2. queued \in Seq(Alarm) /\ IsInjective(queued)
    BY DEF IInv, TypeOK, OnePlace
  <2>3. DueCount \in 0..Len(queued)
    BY DueCountFacts
  <2>4. InOrderOf(queued', queued) /\ Range(queued') \subseteq Range(queued)
    BY <2>1, <2>2, <2>3, SplitFacts
  <2>5. PICK k \in DOMAIN queued : queued[k] = queued'[i] /\ Passed(k)
    BY <2>1, <2>4, PassedBefore
  <2>6. QED BY <2>1, <2>5 DEF SearchOK
<1>5. CASE UNCHANGED <<queued, func, pc, cursor, target>>
  BY <1>5 DEF SearchOK, Passed
<1>6. QED BY <1>1, <1>2, <1>3, <1>4, <1>5

\* When del_timed_func returns, no alarm of its function is queued, although the
\* handler shortened the queue under the search or led it onto the other list.
THEOREM DeletesAll == Spec => DeleteIsComplete
<1>1. Init => SearchOK
  BY DEF Init, SearchOK
<1>2. ASSUME IInv, SearchOK, Next, DeleteReturns, NEW a \in Range(queued')
      PROVE  func'[a] # target
  <2>1. DeleteEnd
    BY <1>2 DEF DeleteReturns, Next, AddTimed, Delete, RunTimed, Continue, SetSigalrm,
         ArmNothing, Arm, Install, OrderedInsert, Scan, InsertLast, Insert, RunTimedFuncs,
         CollectNext, CollectRemove, CollectPush, CollectEnd, Call, CallbackReturns, Free, RunEnd, DelTimedFunc,
         DeleteStart, DeleteNext, DeleteFound, Signal, SignalHandled, SignalIgnored,
         SignalKills, Tick
  <2>2. /\ queued' = queued /\ func' = func
        /\ queued = <<>> \/ (pc = "search" /\ cursor = QHead)
    BY <2>1 DEF DeleteEnd, lists, alarmVars
  <2>3. PICK i \in DOMAIN queued : queued[i] = a
    BY <1>2, <2>2 DEF Range
  <2>4. pc = "search" /\ Passed(i)
    BY <2>2, <2>3 DEF Passed
  <2>5. QED BY <1>2, <2>2, <2>3, <2>4 DEF SearchOK
<1>3. IInv /\ SearchOK /\ [Next]_vars =>
        [DeleteReturns => (\A a \in Range(queued') : func'[a] # target)]_vars
  BY <1>2
<1>4. IInv /\ SearchOK /\ [Next]_vars => SearchOK'
  BY SearchInv
<1>5. QED BY <1>1, <1>3, <1>4, Invariance, PTL DEF Spec, DeleteIsComplete

-----------------------------------------------------------------------------
(* sigalrm.c implements AlarmService.                                       *)

\* In the beginning every alarm is idle.
LEMMA InitRefines == ASSUME Init PROVE Service!ServiceInit
<1>1. \A a \in Alarm : PhaseOf(a) = "idle"
  BY ConstantsOK DEF Init, PhaseOf
<1>2. QED BY <1>1 DEF Init, Service!ServiceInit

\* What the mapped phases are functions of.
LEMMA PhasesUnchanged ==
  ASSUME UNCHANGED <<clock, alarmVars, running>>
  PROVE  UNCHANGED Service!serviceVars
  BY DEF Service!serviceVars, PhaseOf, alarmVars

\* Every step is a step of the timer service, or leaves it unchanged.
LEMMA StepRefines ==
  ASSUME IInv, [Next]_vars
  PROVE  [Service!ServiceNext]_(Service!serviceVars)
<1> DEFINE phase == [a \in Alarm |-> PhaseOf(a)]
<1>0. /\ memory \in [Alarm -> {"free", "held", "leaked"}] /\ runat \in [Alarm -> 0..MaxClock]
      /\ running \in Alarm \cup {Nil} /\ Nil \notin Alarm
      /\ running # Nil => memory[running] = "held"
      /\ cursor \in Alarm => memory[cursor] = "held"
      /\ Range(ready) \subseteq Alarm /\ Range(ready) \subseteq Held
  BY ConstantsOK, ListedFacts DEF IInv, TypeOK, OnePlace, Held
<1>1. ASSUME NEW a \in Alarm, NEW f \in Func, NEW d \in Delay, AddTimed(a, f, d)
      PROVE  Service!Set(a, d)
  <2>1. /\ memory[a] = "free" /\ clock + d <= MaxClock
        /\ memory' = [memory EXCEPT ![a] = "held"]
        /\ runat' = [runat EXCEPT ![a] = clock + d]
        /\ running' = running /\ clock' = clock /\ running # a
    BY <1>0, <1>1 DEF AddTimed
  <2>2. phase[a] = "idle"
    BY <2>1 DEF PhaseOf
  <2>3. phase' = [phase EXCEPT ![a] = "pending"]
    BY <2>1, <1>0 DEF PhaseOf
  <2>4. QED BY <2>1, <2>2, <2>3 DEF Service!Set
<1>2. ASSUME Call PROVE \E a \in Alarm : Service!Begin(a)
  <2> DEFINE a == Head(ready)
  <2>1. /\ ready # <<>> /\ running' = a /\ running = Nil
        /\ UNCHANGED <<clock, memory, runat>>
    BY <1>2 DEF Call, IInv, PointersOK, alarmVars
  <2>2. a \in Range(ready) /\ a \in Alarm /\ memory[a] = "held" /\ IsDue(a)
    BY <2>1, <1>0, RangeFacts, ListedFacts DEF IInv, TypeOK, Held
  <2> HIDE DEF a
  <2>3. /\ phase[a] = "pending"
        /\ \A b \in Alarm : phase[b] # "running"
        /\ phase' = [phase EXCEPT ![a] = "running"]
    BY <2>1, <2>2, <1>0 DEF PhaseOf
  <2>4. QED BY <2>1, <2>2, <2>3 DEF Service!Begin, IsDue
<1>3. ASSUME Free PROVE \E a \in Alarm : Service!End(a)
  <2>1. /\ running # Nil /\ running' = Nil /\ clock' = clock
        /\ memory' = [memory EXCEPT ![running] = "free"]
        /\ runat' = [runat EXCEPT ![running] = 0]
    BY <1>3 DEF Free, IInv, PointersOK
  <2>2. running \in Alarm /\ memory[running] = "held"
    BY <2>1, <1>0
  <2>3. phase[running] = "running" /\ phase' = [phase EXCEPT ![running] = "idle"]
    BY <2>1, <2>2, <1>0 DEF PhaseOf
  <2>4. QED BY <2>1, <2>2, <2>3 DEF Service!End
<1>4. ASSUME DeleteFound PROVE \E a \in Alarm : Service!Cancel(a)
  <2>1. /\ cursor \in Alarm /\ running # cursor
        /\ memory' = [memory EXCEPT ![cursor] = "leaked"]
        /\ runat' = [runat EXCEPT ![cursor] = 0]
        /\ UNCHANGED <<clock, running>>
    BY <1>0, <1>4 DEF DeleteFound, Matches, IInv, PointersOK
  <2>2. memory[cursor] = "held"
    BY <2>1, <1>0
  <2>3. phase[cursor] = "pending" /\ phase' = [phase EXCEPT ![cursor] = "cancelled"]
    BY <2>1, <2>2, <1>0 DEF PhaseOf
  <2>4. QED BY <2>1, <2>2, <2>3 DEF Service!Cancel
<1>5. ASSUME Tick PROVE Service!Elapse
  BY <1>5 DEF Tick, Service!Elapse, alarmVars, walkVars, PhaseOf
<1>6. ASSUME \/ \E f \in Deleted : Delete(f)
             \/ RunTimed \/ SetSigalrm \/ OrderedInsert \/ Signal
             \/ CollectNext \/ CollectRemove \/ CollectPush \/ CollectEnd \/ CallbackReturns \/ RunEnd
             \/ DeleteStart \/ DeleteNext \/ DeleteEnd
             \/ UNCHANGED vars
      PROVE  UNCHANGED <<clock, alarmVars, running>>
  BY <1>6 DEF Delete, RunTimed, SetSigalrm, ArmNothing, Arm, Install, OrderedInsert, Scan,
     InsertLast, Insert, Signal, SignalHandled, SignalIgnored, SignalKills, CollectNext,
     CollectRemove, CollectPush, CollectEnd, CallbackReturns, RunEnd, DeleteStart, DeleteNext, DeleteEnd,
     vars, walkVars
<1>7. QED
  BY <1>1, <1>2, <1>3, <1>4, <1>5, <1>6, PhasesUnchanged
     DEF Next, Continue, RunTimedFuncs, DelTimedFunc, Service!ServiceNext

\* Each alarm that is set runs at most once, alone, not before its time, and
\* never after del_timed_func found it.
THEOREM Refinement == Spec => ServiceSpec
  BY InitRefines, StepRefines, Invariance, PTL DEF Spec, ServiceSpec, Service!ServiceSpec
=============================================================================
