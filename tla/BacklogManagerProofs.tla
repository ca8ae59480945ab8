------------------------- MODULE BacklogManagerProofs -------------------------
(* The manager of a directive and its backlogs, for any number of backlogs,    *)
(* rules and events: answers find the manager waiting, and no event opens two  *)
(* backlogs that are in the map together.                                      *)
EXTENDS BacklogManager, TLAPS

-----------------------------------------------------------------------------
(* The inductive invariant *)

\* A manager that is at work has an event, and so has a worker.
HasEvent ==
  /\ mgr.pc # "recv" \/ (\E k \in Backlogs : forward[k] # "idle") => mgr.evt \in Events
  /\ \A k \in Backlogs :
       worker[k].pc \in {"snap", "match", "reply"} => worker[k].evt \in Events

\* The lock is held by the forwarding manager, or by the one deletion that
\* removes its backlog.
LockInv ==
  /\ lock = "read" <=> mgr.pc = "forward"
  /\ \A k \in Backlogs : deletion[k] = "remove" => lock = "write"
  /\ \A j, k \in Backlogs : deletion[j] = "remove" /\ deletion[k] = "remove" => j = k

\* Events are forwarded under the lock, and not to a backlog whose end has been
\* announced.
ForwardInv ==
  \A k \in Backlogs :
    /\ forward[k] # "idle" => mgr.pc = "forward"
    /\ forward[k] \in {"send", "await"} => ~ChDone(k)

\* From the search to the start of a new backlog its event has opened none that is
\* in the map; the event a backlog was opened with is one of its events.
OpenerInv ==
  /\ mgr.pc \in {"create", "map", "start"} => \A k \in Listed : bl[k].first # mgr.evt
  /\ \A k \in Backlogs : bl[k].first # NoEvent => bl[k].first \in bl[k].events
  /\ \A k \in Backlogs : ~bl[k].used => bl[k].first = NoEvent

IInv == TypeOK /\ HasEvent /\ LockInv /\ ForwardInv /\ AnswerAwaited /\ OpenerInv /\ UniqueOpeners

-----------------------------------------------------------------------------
(* Types *)

WorkerRec == [pc : {"off", "recv", "snap", "match", "reply", "exit"},
              evt : Events \cup {NoEvent}, idx : Stages]
BacklogRec == [listed : BOOLEAN, used : BOOLEAN, stage : Stages,
               first : Events \cup {NoEvent}, events : SUBSET Events]

\* The record of a backlog after an assignment to some of its fields.
LEMMA RecordKept ==
  ASSUME NEW r \in BacklogRec
  PROVE  /\ [r EXCEPT !.listed = FALSE] \in BacklogRec
         /\ [r EXCEPT !.used = TRUE, !.listed = TRUE] \in BacklogRec
         /\ \A E \in SUBSET Events : [r EXCEPT !.events = E] \in BacklogRec
         /\ \A n \in Stages, E \in SUBSET Events :
              /\ [r EXCEPT !.events = E, !.stage = n] \in BacklogRec
              /\ \A f \in Events : [r EXCEPT !.stage = n, !.first = f, !.events = E] \in BacklogRec
  BY DEF BacklogRec

\* The state begins as it should be.
LEMMA InitType == Init => TypeOK /\ HasEvent
  <1> SUFFICES ASSUME Init PROVE TypeOK /\ HasEvent
    OBVIOUS
  <1>1. 1 \in Stages
    BY ManagerAssumption DEF Stages
  <1> QED
    BY <1>1, ManagerAssumption DEF Init, TypeOK, HasEvent

\* Every step keeps the types.
LEMMA StepType == TypeOK /\ HasEvent /\ [Next]_vars => TypeOK'
  <1> SUFFICES ASSUME TypeOK, HasEvent, [Next]_vars PROVE TypeOK'
    OBVIOUS
  <1> USE DEF TypeOK
  <1>0. \A k \in Backlogs : bl[k] \in BacklogRec
    BY DEF BacklogRec
  <1>1. ASSUME NEW e \in Events, Receive(e) PROVE TypeOK'
    BY <1>1, ManagerAssumption DEF Receive
  <1>2. ASSUME ReadLock PROVE TypeOK'
    BY <1>2 DEF ReadLock, MgrGoto
  <1>3. ASSUME NEW k \in Backlogs, ForwardLeave(k) PROVE TypeOK'
    BY <1>3 DEF ForwardLeave
  <1>4. ASSUME NEW k \in Backlogs, ForwardCheck(k) PROVE TypeOK'
    BY <1>4 DEF ForwardCheck
  <1>5. ASSUME NEW k \in Backlogs, ForwardSend(k) PROVE TypeOK'
    <2>1. [worker[k] EXCEPT !.pc = "snap", !.evt = mgr.evt] \in WorkerRec
      BY <1>5 DEF ForwardSend, WorkerRec, BacklogRec
    <2> QED
      BY <1>5, <2>1 DEF ForwardSend, WorkerRec
  <1>6. ASSUME NEW k \in Backlogs, ForwardAnswer(k) PROVE TypeOK'
    <2>1. [worker[k] EXCEPT !.pc = "recv"] \in WorkerRec
      BY DEF WorkerRec
    <2>2. (mgr.found \/ worker[k].idx \in Matches[worker[k].evt] \/ Earlier(k)) \in BOOLEAN
      OBVIOUS
    <2>3. matched' \in [Backlogs -> [Events -> Nat]]
      <3> DEFINE e == worker[k].evt
                 counted == [matched[k] EXCEPT ![e] = @ + 1]
      <3>1. matched[k] \in [Events -> Nat]
        OBVIOUS
      <3>2. counted \in [Events -> Nat]
        <4>1. CASE e \in Events
          BY <3>1, <4>1
        <4>2. CASE e \notin Events
          BY <3>1, <4>2
        <4> QED
          BY <4>1, <4>2
      <3>3. matched' \in {matched, [matched EXCEPT ![k] = counted]}
        BY <1>6 DEF ForwardAnswer
      <3> HIDE DEF counted
      <3> QED
        BY <3>2, <3>3
    <2>4. mgr' \in [pc : {"recv", "rlock", "forward", "scan", "create", "map", "start"},
                    evt : Events \cup {NoEvent}, found : BOOLEAN]
      BY <1>6, <2>2 DEF ForwardAnswer
    <2> QED
      BY <1>6, <2>1, <2>3, <2>4 DEF ForwardAnswer, WorkerRec
  <1>7. ASSUME AllAnswered PROVE TypeOK'
    BY <1>7 DEF AllAnswered, MgrGoto
  <1>8. ASSUME Scan PROVE TypeOK'
    BY <1>8 DEF Scan, MgrGoto
  <1>9. ASSUME NEW k \in Backlogs, Create(k) PROVE TypeOK'
    <2>1. [bl[k] EXCEPT !.used = TRUE, !.listed = TRUE] \in BacklogRec
      BY <1>0, RecordKept
    <2> QED
      BY <1>9, <2>1 DEF Create, MgrGoto, BacklogRec
  <1>10. ASSUME CreateFails PROVE TypeOK'
    BY <1>10 DEF CreateFails, MgrGoto
  <1>11. ASSUME LookUp PROVE TypeOK'
    BY <1>11 DEF LookUp, MgrGoto
  <1>12. ASSUME NEW k \in Backlogs, Start(k) PROVE TypeOK'
    <2>1. 2 \in Stages
      BY ManagerAssumption DEF Stages
    <2>2. mgr.evt \in Events
      BY <1>12 DEF Start, HasEvent
    <2>4. [bl[k] EXCEPT !.stage = 2, !.first = mgr.evt, !.events = {mgr.evt}] \in BacklogRec
      <3>1. {mgr.evt} \in SUBSET Events
        BY <2>2
      <3> QED
        BY <1>0, <2>1, <2>2, <3>1, RecordKept
    <2>3. [worker[k] EXCEPT !.pc = "recv"] \in WorkerRec
      BY DEF WorkerRec
    <2> QED
      BY <1>12, <2>3, <2>4 DEF Start, MgrGoto, BacklogRec, WorkerRec
  <1>13. ASSUME NEW k \in Backlogs, WorkerSnapshot(k) PROVE TypeOK'
    <2>1. [worker[k] EXCEPT !.pc = "match", !.idx = bl[k].stage] \in WorkerRec
      BY <1>13 DEF WorkerSnapshot, WorkerRec, BacklogRec
    <2> QED
      BY <1>13, <2>1 DEF WorkerSnapshot, WorkerRec
  <1>14. ASSUME NEW k \in Backlogs, WorkerMatch(k) PROVE TypeOK'
    <2>1. /\ bl[k].events \in SUBSET Events
          /\ Earlier(k) => bl[k].events \cup {worker[k].evt} \in SUBSET Events
      BY <1>14, <1>0 DEF WorkerMatch, HasEvent, BacklogRec
    <2>2. [bl[k] EXCEPT !.events = IF Earlier(k) THEN bl[k].events \cup {worker[k].evt}
                                   ELSE bl[k].events] \in BacklogRec
      BY <1>0, <2>1, RecordKept
    <2>3. [worker[k] EXCEPT !.pc = "reply"] \in WorkerRec
      BY DEF WorkerRec
    <2> QED
      BY <1>14, <2>2, <2>3 DEF WorkerMatch, BacklogRec, WorkerRec
  <1>15. ASSUME NEW k \in Backlogs, NEW e \in Events, Process(k, e) PROVE TypeOK'
    <2>1. ASSUME NEW n \in Stages, Append(k, e, n)
          PROVE  bl' \in [Backlogs -> BacklogRec]
      <3>1. bl[k].events \cup {e} \in SUBSET Events
        BY <1>0 DEF BacklogRec
      <3>2. [bl[k] EXCEPT !.events = bl[k].events \cup {e}, !.stage = n] \in BacklogRec
        BY <1>0, <3>1, RecordKept
      <3> QED
        BY <2>1, <3>2 DEF Append, BacklogRec
    <2>2. bl[k].stage \in Stages /\ (bl[k].stage < NRules => bl[k].stage + 1 \in Stages)
      BY ManagerAssumption DEF Stages
    <2>3. bl' \in [Backlogs -> BacklogRec]
      BY <1>15, <2>1, <2>2 DEF Process
    <2>4. matched' \in [Backlogs -> [Events -> Nat]]
      BY <1>15 DEF Process
    <2> QED
      BY <1>15, <2>3, <2>4 DEF Process, Want, BacklogRec
  <1>16. ASSUME NEW k \in Backlogs, Expire(k) PROVE TypeOK'
    BY <1>16 DEF Expire, Want
  <1>17. ASSUME NEW k \in Backlogs, DeleteMark(k) PROVE TypeOK'
    BY <1>17 DEF DeleteMark
  <1>18. ASSUME NEW k \in Backlogs, DeleteClose(k) PROVE TypeOK'
    BY <1>18 DEF DeleteClose
  <1>19. ASSUME NEW k \in Backlogs, DeleteLock(k) PROVE TypeOK'
    BY <1>19 DEF DeleteLock
  <1>20. ASSUME NEW k \in Backlogs, DeleteUnlock(k) PROVE TypeOK'
    <2>1. [bl[k] EXCEPT !.listed = FALSE] \in BacklogRec
      BY <1>0, RecordKept
    <2> QED
      BY <1>20, <2>1 DEF DeleteUnlock, BacklogRec
  <1>21. CASE UNCHANGED vars
    BY <1>21 DEF vars
  <1> QED
    BY <1>1, <1>2, <1>3, <1>4, <1>5, <1>6, <1>7, <1>8, <1>9, <1>10, <1>11, <1>12, <1>13, <1>14, <1>15, <1>16, <1>17, <1>18, <1>19, <1>20, <1>21
    DEF Next, Manage, Forward, Work, Delete, Idle

\* The manager takes up its work with an event, and keeps it to the end.
LEMMA StepEvent == TypeOK /\ HasEvent /\ [Next]_vars => HasEvent'
  <1> SUFFICES ASSUME TypeOK, HasEvent, [Next]_vars PROVE HasEvent'
    OBVIOUS
  <1> USE DEF TypeOK, HasEvent
  <1>1. ASSUME NEW e \in Events, Receive(e) PROVE HasEvent'
    BY <1>1 DEF Receive
  <1>2. ASSUME ReadLock PROVE HasEvent'
    BY <1>2 DEF ReadLock, MgrGoto
  <1>3. ASSUME NEW k \in Backlogs, ForwardLeave(k) PROVE HasEvent'
    BY <1>3 DEF ForwardLeave
  <1>4. ASSUME NEW k \in Backlogs, ForwardCheck(k) PROVE HasEvent'
    BY <1>4 DEF ForwardCheck
  <1>5. ASSUME NEW k \in Backlogs, ForwardSend(k) PROVE HasEvent'
    BY <1>5 DEF ForwardSend
  <1>6. ASSUME NEW k \in Backlogs, ForwardAnswer(k) PROVE HasEvent'
    BY <1>6 DEF ForwardAnswer
  <1>7. ASSUME AllAnswered PROVE HasEvent'
    BY <1>7 DEF AllAnswered, MgrGoto
  <1>8. ASSUME Scan PROVE HasEvent'
    BY <1>8 DEF Scan, MgrGoto
  <1>9. ASSUME NEW k \in Backlogs, Create(k) PROVE HasEvent'
    BY <1>9 DEF Create, MgrGoto
  <1>10. ASSUME CreateFails PROVE HasEvent'
    BY <1>10 DEF CreateFails, MgrGoto
  <1>11. ASSUME LookUp PROVE HasEvent'
    BY <1>11 DEF LookUp, MgrGoto
  <1>12. ASSUME NEW k \in Backlogs, Start(k) PROVE HasEvent'
    BY <1>12 DEF Start, MgrGoto
  <1>13. ASSUME NEW k \in Backlogs, WorkerSnapshot(k) PROVE HasEvent'
    BY <1>13 DEF WorkerSnapshot
  <1>14. ASSUME NEW k \in Backlogs, WorkerMatch(k) PROVE HasEvent'
    BY <1>14 DEF WorkerMatch
  <1>15. ASSUME NEW k \in Backlogs, NEW e \in Events, Process(k, e) PROVE HasEvent'
    BY <1>15 DEF Process
  <1>16. ASSUME NEW k \in Backlogs, Expire(k) PROVE HasEvent'
    BY <1>16 DEF Expire
  <1>17. ASSUME NEW k \in Backlogs, DeleteMark(k) PROVE HasEvent'
    BY <1>17 DEF DeleteMark
  <1>18. ASSUME NEW k \in Backlogs, DeleteClose(k) PROVE HasEvent'
    BY <1>18 DEF DeleteClose
  <1>19. ASSUME NEW k \in Backlogs, DeleteLock(k) PROVE HasEvent'
    BY <1>19 DEF DeleteLock
  <1>20. ASSUME NEW k \in Backlogs, DeleteUnlock(k) PROVE HasEvent'
    BY <1>20 DEF DeleteUnlock
  <1>21. CASE UNCHANGED vars
    BY <1>21 DEF vars
  <1> QED
    BY <1>1, <1>2, <1>3, <1>4, <1>5, <1>6, <1>7, <1>8, <1>9, <1>10, <1>11, <1>12, <1>13, <1>14, <1>15, <1>16, <1>17, <1>18, <1>19, <1>20, <1>21
    DEF Next, Manage, Forward, Work, Delete, Idle

\* The manager's step, the locks, the stages and counters keep their types.
THEOREM TypeCorrect == Spec => []TypeOK
  BY InitType, StepType, StepEvent, PTL DEF Spec
-----------------------------------------------------------------------------
(* The lock *)

\* No step takes the lock from another, or gives it back for another.
LEMMA StepLock == TypeOK /\ LockInv /\ [Next]_vars => LockInv'
  <1> SUFFICES ASSUME TypeOK, LockInv, [Next]_vars PROVE LockInv'
    OBVIOUS
  <1> USE DEF TypeOK, LockInv
  <1>1. ASSUME NEW e \in Events, Receive(e) PROVE LockInv'
    BY <1>1 DEF Receive
  <1>2. ASSUME ReadLock PROVE LockInv'
    BY <1>2 DEF ReadLock, MgrGoto
  <1>3. ASSUME NEW k \in Backlogs, ForwardLeave(k) PROVE LockInv'
    BY <1>3 DEF ForwardLeave
  <1>4. ASSUME NEW k \in Backlogs, ForwardCheck(k) PROVE LockInv'
    BY <1>4 DEF ForwardCheck
  <1>5. ASSUME NEW k \in Backlogs, ForwardSend(k) PROVE LockInv'
    BY <1>5 DEF ForwardSend
  <1>6. ASSUME NEW k \in Backlogs, ForwardAnswer(k) PROVE LockInv'
    BY <1>6 DEF ForwardAnswer
  <1>7. ASSUME AllAnswered PROVE LockInv'
    BY <1>7 DEF AllAnswered, MgrGoto
  <1>8. ASSUME Scan PROVE LockInv'
    BY <1>8 DEF Scan, MgrGoto
  <1>9. ASSUME NEW k \in Backlogs, Create(k) PROVE LockInv'
    BY <1>9 DEF Create, MgrGoto
  <1>10. ASSUME CreateFails PROVE LockInv'
    BY <1>10 DEF CreateFails, MgrGoto
  <1>11. ASSUME LookUp PROVE LockInv'
    BY <1>11 DEF LookUp, MgrGoto
  <1>12. ASSUME NEW k \in Backlogs, Start(k) PROVE LockInv'
    BY <1>12 DEF Start, MgrGoto
  <1>13. ASSUME NEW k \in Backlogs, WorkerSnapshot(k) PROVE LockInv'
    BY <1>13 DEF WorkerSnapshot
  <1>14. ASSUME NEW k \in Backlogs, WorkerMatch(k) PROVE LockInv'
    BY <1>14 DEF WorkerMatch
  <1>15. ASSUME NEW k \in Backlogs, NEW e \in Events, Process(k, e) PROVE LockInv'
    BY <1>15 DEF Process, Want
  <1>16. ASSUME NEW k \in Backlogs, Expire(k) PROVE LockInv'
    BY <1>16 DEF Expire, Want
  <1>17. ASSUME NEW k \in Backlogs, DeleteMark(k) PROVE LockInv'
    BY <1>17 DEF DeleteMark
  <1>18. ASSUME NEW k \in Backlogs, DeleteClose(k) PROVE LockInv'
    BY <1>18 DEF DeleteClose
  <1>19. ASSUME NEW k \in Backlogs, DeleteLock(k) PROVE LockInv'
    BY <1>19 DEF DeleteLock
  <1>20. ASSUME NEW k \in Backlogs, DeleteUnlock(k) PROVE LockInv'
    BY <1>20 DEF DeleteUnlock
  <1>21. CASE UNCHANGED vars
    BY <1>21 DEF vars
  <1> QED
    BY <1>1, <1>2, <1>3, <1>4, <1>5, <1>6, <1>7, <1>8, <1>9, <1>10, <1>11, <1>12, <1>13, <1>14, <1>15, <1>16, <1>17, <1>18, <1>19, <1>20, <1>21
    DEF Next, Manage, Forward, Work, Delete, Idle

-----------------------------------------------------------------------------
(* Questions and answers *)

\* As events are forwarded under the lock, no end is announced meanwhile.
LEMMA StepForward == TypeOK /\ LockInv /\ ForwardInv /\ [Next]_vars => ForwardInv'
  <1> SUFFICES ASSUME TypeOK, LockInv, ForwardInv, [Next]_vars PROVE ForwardInv'
    OBVIOUS
  <1> USE DEF TypeOK, LockInv, ForwardInv, ChDone
  <1>1. ASSUME NEW e \in Events, Receive(e) PROVE ForwardInv'
    BY <1>1 DEF Receive
  <1>2. ASSUME ReadLock PROVE ForwardInv'
    BY <1>2 DEF ReadLock, MgrGoto
  <1>3. ASSUME NEW k \in Backlogs, ForwardLeave(k) PROVE ForwardInv'
    BY <1>3 DEF ForwardLeave
  <1>4. ASSUME NEW k \in Backlogs, ForwardCheck(k) PROVE ForwardInv'
    BY <1>4 DEF ForwardCheck
  <1>5. ASSUME NEW k \in Backlogs, ForwardSend(k) PROVE ForwardInv'
    BY <1>5 DEF ForwardSend
  <1>6. ASSUME NEW k \in Backlogs, ForwardAnswer(k) PROVE ForwardInv'
    BY <1>6 DEF ForwardAnswer
  <1>7. ASSUME AllAnswered PROVE ForwardInv'
    BY <1>7 DEF AllAnswered, MgrGoto
  <1>8. ASSUME Scan PROVE ForwardInv'
    BY <1>8 DEF Scan, MgrGoto
  <1>9. ASSUME NEW k \in Backlogs, Create(k) PROVE ForwardInv'
    BY <1>9 DEF Create, MgrGoto
  <1>10. ASSUME CreateFails PROVE ForwardInv'
    BY <1>10 DEF CreateFails, MgrGoto
  <1>11. ASSUME LookUp PROVE ForwardInv'
    BY <1>11 DEF LookUp, MgrGoto
  <1>12. ASSUME NEW k \in Backlogs, Start(k) PROVE ForwardInv'
    BY <1>12 DEF Start, MgrGoto
  <1>13. ASSUME NEW k \in Backlogs, WorkerSnapshot(k) PROVE ForwardInv'
    BY <1>13 DEF WorkerSnapshot
  <1>14. ASSUME NEW k \in Backlogs, WorkerMatch(k) PROVE ForwardInv'
    BY <1>14 DEF WorkerMatch
  <1>15. ASSUME NEW k \in Backlogs, NEW e \in Events, Process(k, e) PROVE ForwardInv'
    BY <1>15 DEF Process, Want
  <1>16. ASSUME NEW k \in Backlogs, Expire(k) PROVE ForwardInv'
    BY <1>16 DEF Expire, Want
  <1>17. ASSUME NEW k \in Backlogs, DeleteMark(k) PROVE ForwardInv'
    BY <1>17 DEF DeleteMark
  <1>18. ASSUME NEW k \in Backlogs, DeleteClose(k) PROVE ForwardInv'
    BY <1>18 DEF DeleteClose
  <1>19. ASSUME NEW k \in Backlogs, DeleteLock(k) PROVE ForwardInv'
    BY <1>19 DEF DeleteLock
  <1>20. ASSUME NEW k \in Backlogs, DeleteUnlock(k) PROVE ForwardInv'
    BY <1>20 DEF DeleteUnlock
  <1>21. CASE UNCHANGED vars
    BY <1>21 DEF vars
  <1> QED
    BY <1>1, <1>2, <1>3, <1>4, <1>5, <1>6, <1>7, <1>8, <1>9, <1>10, <1>11, <1>12, <1>13, <1>14, <1>15, <1>16, <1>17, <1>18, <1>19, <1>20, <1>21
    DEF Next, Manage, Forward, Work, Delete, Idle

\* Nobody who waits for an answer leaves before it has come.
LEMMA StepAwaited == TypeOK /\ ForwardInv /\ AnswerAwaited /\ [Next]_vars => AnswerAwaited'
  <1> SUFFICES ASSUME TypeOK, ForwardInv, AnswerAwaited, [Next]_vars PROVE AnswerAwaited'
    OBVIOUS
  <1> USE DEF TypeOK, AnswerAwaited
  <1>1. ASSUME NEW e \in Events, Receive(e) PROVE AnswerAwaited'
    BY <1>1 DEF Receive
  <1>2. ASSUME ReadLock PROVE AnswerAwaited'
    BY <1>2 DEF ReadLock, MgrGoto, ForwardInv
  <1>3. ASSUME NEW k \in Backlogs, ForwardLeave(k) PROVE AnswerAwaited'
    BY <1>3 DEF ForwardLeave, ForwardInv
  <1>4. ASSUME NEW k \in Backlogs, ForwardCheck(k) PROVE AnswerAwaited'
    BY <1>4 DEF ForwardCheck
  <1>5. ASSUME NEW k \in Backlogs, ForwardSend(k) PROVE AnswerAwaited'
    BY <1>5 DEF ForwardSend
  <1>6. ASSUME NEW k \in Backlogs, ForwardAnswer(k) PROVE AnswerAwaited'
    BY <1>6 DEF ForwardAnswer
  <1>7. ASSUME AllAnswered PROVE AnswerAwaited'
    BY <1>7 DEF AllAnswered, MgrGoto
  <1>8. ASSUME Scan PROVE AnswerAwaited'
    BY <1>8 DEF Scan, MgrGoto
  <1>9. ASSUME NEW k \in Backlogs, Create(k) PROVE AnswerAwaited'
    BY <1>9 DEF Create, MgrGoto
  <1>10. ASSUME CreateFails PROVE AnswerAwaited'
    BY <1>10 DEF CreateFails, MgrGoto
  <1>11. ASSUME LookUp PROVE AnswerAwaited'
    BY <1>11 DEF LookUp, MgrGoto
  <1>12. ASSUME NEW k \in Backlogs, Start(k) PROVE AnswerAwaited'
    BY <1>12 DEF Start, MgrGoto
  <1>13. ASSUME NEW k \in Backlogs, WorkerSnapshot(k) PROVE AnswerAwaited'
    BY <1>13 DEF WorkerSnapshot
  <1>14. ASSUME NEW k \in Backlogs, WorkerMatch(k) PROVE AnswerAwaited'
    BY <1>14 DEF WorkerMatch
  <1>15. ASSUME NEW k \in Backlogs, NEW e \in Events, Process(k, e) PROVE AnswerAwaited'
    BY <1>15 DEF Process, Want
  <1>16. ASSUME NEW k \in Backlogs, Expire(k) PROVE AnswerAwaited'
    BY <1>16 DEF Expire, Want
  <1>17. ASSUME NEW k \in Backlogs, DeleteMark(k) PROVE AnswerAwaited'
    BY <1>17 DEF DeleteMark
  <1>18. ASSUME NEW k \in Backlogs, DeleteClose(k) PROVE AnswerAwaited'
    BY <1>18 DEF DeleteClose
  <1>19. ASSUME NEW k \in Backlogs, DeleteLock(k) PROVE AnswerAwaited'
    BY <1>19 DEF DeleteLock
  <1>20. ASSUME NEW k \in Backlogs, DeleteUnlock(k) PROVE AnswerAwaited'
    BY <1>20 DEF DeleteUnlock
  <1>21. CASE UNCHANGED vars
    BY <1>21 DEF vars
  <1> QED
    BY <1>1, <1>2, <1>3, <1>4, <1>5, <1>6, <1>7, <1>8, <1>9, <1>10, <1>11, <1>12, <1>13, <1>14, <1>15, <1>16, <1>17, <1>18, <1>19, <1>20, <1>21
    DEF Next, Manage, Forward, Work, Delete, Idle

-----------------------------------------------------------------------------
(* Openers *)

\* A further event leaves alone what backlogs were opened by.
LEMMA AppendKeeps ==
  ASSUME TypeOK, NEW k \in Backlogs, NEW e \in Events, NEW n, Append(k, e, n)
  PROVE  \A j \in Backlogs : /\ bl'[j].first = bl[j].first /\ bl'[j].listed = bl[j].listed
                              /\ bl'[j].used = bl[j].used
                              /\ bl[j].events \subseteq bl'[j].events
  <1>1. bl' = [bl EXCEPT ![k] = [bl[k] EXCEPT !.events = bl[k].events \cup {e}, !.stage = n]]
    BY DEF Append
  <1>2. \A j \in Backlogs \ {k} : bl'[j] = bl[j]
    BY <1>1 DEF TypeOK
  <1>3. bl'[k] = [bl[k] EXCEPT !.events = bl[k].events \cup {e}, !.stage = n]
    BY <1>1 DEF TypeOK
  <1>4. bl[k] \in BacklogRec
    BY DEF TypeOK, BacklogRec
  <1>5. /\ bl'[k].first = bl[k].first /\ bl'[k].listed = bl[k].listed
        /\ bl'[k].used = bl[k].used /\ bl'[k].events = bl[k].events \cup {e}
    BY <1>3, <1>4 DEF BacklogRec
  <1> QED
    BY <1>2, <1>5

\* An event is compared with those of all backlogs before it opens one.
LEMMA StepOpener ==
  TypeOK /\ HasEvent /\ OpenerInv /\ [Next]_vars => OpenerInv'
  <1> SUFFICES ASSUME TypeOK, HasEvent, OpenerInv, [Next]_vars PROVE OpenerInv'
    OBVIOUS
  <1> USE DEF TypeOK, OpenerInv, Listed
  <1>1. ASSUME NEW e \in Events, Receive(e) PROVE OpenerInv'
    BY <1>1 DEF Receive
  <1>2. ASSUME ReadLock PROVE OpenerInv'
    BY <1>2 DEF ReadLock, MgrGoto
  <1>3. ASSUME NEW k \in Backlogs, ForwardLeave(k) PROVE OpenerInv'
    BY <1>3 DEF ForwardLeave
  <1>4. ASSUME NEW k \in Backlogs, ForwardCheck(k) PROVE OpenerInv'
    BY <1>4 DEF ForwardCheck
  <1>5. ASSUME NEW k \in Backlogs, ForwardSend(k) PROVE OpenerInv'
    BY <1>5 DEF ForwardSend
  <1>6. ASSUME NEW k \in Backlogs, ForwardAnswer(k) PROVE OpenerInv'
    BY <1>6 DEF ForwardAnswer
  <1>7. ASSUME AllAnswered PROVE OpenerInv'
    BY <1>7 DEF AllAnswered, MgrGoto
  <1>8. ASSUME Scan PROVE OpenerInv'
    <2>1. mgr.evt # NoEvent
      BY <1>8, ManagerAssumption DEF Scan, HasEvent
    <2>2. CASE \A k \in Listed : mgr.evt \notin bl[k].events
      <3>1. \A k \in Listed : bl[k].first # mgr.evt
        BY <2>1, <2>2
      <3> QED
        BY <1>8, <3>1 DEF Scan, MgrGoto
    <2>3. CASE \E k \in Listed : mgr.evt \in bl[k].events
      BY <1>8, <2>3 DEF Scan, MgrGoto
    <2> QED
      BY <2>2, <2>3
  <1>9. ASSUME NEW k \in Backlogs, Create(k) PROVE OpenerInv'
    <2>1. mgr.evt # NoEvent /\ bl[k].first = NoEvent
      BY <1>9, ManagerAssumption DEF Create, HasEvent
    <2>2. bl'[k].first = NoEvent /\ bl'[k].used
      BY <1>9, <2>1 DEF Create
    <2>3. \A j \in Backlogs \ {k} : bl'[j] = bl[j]
      BY <1>9 DEF Create
    <2>4. mgr.pc = "create" /\ mgr'.pc = "map" /\ mgr'.evt = mgr.evt
      BY <1>9 DEF Create, MgrGoto
    <2>5. ASSUME NEW j \in Backlogs, bl'[j].listed PROVE bl'[j].first # mgr'.evt
      <3>1. CASE j = k
        BY <2>1, <2>2, <2>4, <3>1
      <3>2. CASE j # k
        BY <2>3, <2>4, <2>5, <3>2
      <3> QED
        BY <3>1, <3>2
    <2>6. /\ \A j \in Backlogs : bl'[j].first # NoEvent => bl'[j].first \in bl'[j].events
          /\ \A j \in Backlogs : ~bl'[j].used => bl'[j].first = NoEvent
      BY <2>2, <2>3
    <2> QED
      BY <2>5, <2>6
  <1>10. ASSUME CreateFails PROVE OpenerInv'
    BY <1>10 DEF CreateFails, MgrGoto
  <1>11. ASSUME LookUp PROVE OpenerInv'
    BY <1>11 DEF LookUp, MgrGoto
  <1>12. ASSUME NEW k \in Backlogs, Start(k) PROVE OpenerInv'
    BY <1>12 DEF Start, MgrGoto
  <1>13. ASSUME NEW k \in Backlogs, WorkerSnapshot(k) PROVE OpenerInv'
    BY <1>13 DEF WorkerSnapshot
  <1>14. ASSUME NEW k \in Backlogs, WorkerMatch(k) PROVE OpenerInv'
    BY <1>14 DEF WorkerMatch
  <1>15. ASSUME NEW k \in Backlogs, NEW e \in Events, Process(k, e) PROVE OpenerInv'
    <2>1. PICK n : Append(k, e, n)
      BY <1>15 DEF Process
    <2>2. UNCHANGED mgr
      BY <1>15 DEF Process
    <2> HIDE DEF TypeOK
    <2> QED
      BY <2>1, <2>2, AppendKeeps
  <1>16. ASSUME NEW k \in Backlogs, Expire(k) PROVE OpenerInv'
    BY <1>16 DEF Expire, Want
  <1>17. ASSUME NEW k \in Backlogs, DeleteMark(k) PROVE OpenerInv'
    BY <1>17 DEF DeleteMark
  <1>18. ASSUME NEW k \in Backlogs, DeleteClose(k) PROVE OpenerInv'
    BY <1>18 DEF DeleteClose
  <1>19. ASSUME NEW k \in Backlogs, DeleteLock(k) PROVE OpenerInv'
    BY <1>19 DEF DeleteLock
  <1>20. ASSUME NEW k \in Backlogs, DeleteUnlock(k) PROVE OpenerInv'
    BY <1>20 DEF DeleteUnlock
  <1>21. CASE UNCHANGED vars
    BY <1>21 DEF vars
  <1> QED
    BY <1>1, <1>2, <1>3, <1>4, <1>5, <1>6, <1>7, <1>8, <1>9, <1>10, <1>11, <1>12, <1>13, <1>14, <1>15, <1>16, <1>17, <1>18, <1>19, <1>20, <1>21
    DEF Next, Manage, Forward, Work, Delete, Idle

\* A backlog is opened by an event that has opened no other one in the map.
LEMMA StepUnique ==
  TypeOK /\ OpenerInv /\ UniqueOpeners /\ [Next]_vars => UniqueOpeners'
  <1> SUFFICES ASSUME TypeOK, OpenerInv, UniqueOpeners, [Next]_vars PROVE UniqueOpeners'
    OBVIOUS
  <1> USE DEF TypeOK, UniqueOpeners, Listed
  <1>1. ASSUME NEW e \in Events, Receive(e) PROVE UniqueOpeners'
    BY <1>1 DEF Receive
  <1>2. ASSUME ReadLock PROVE UniqueOpeners'
    BY <1>2 DEF ReadLock, MgrGoto
  <1>3. ASSUME NEW k \in Backlogs, ForwardLeave(k) PROVE UniqueOpeners'
    BY <1>3 DEF ForwardLeave
  <1>4. ASSUME NEW k \in Backlogs, ForwardCheck(k) PROVE UniqueOpeners'
    BY <1>4 DEF ForwardCheck
  <1>5. ASSUME NEW k \in Backlogs, ForwardSend(k) PROVE UniqueOpeners'
    BY <1>5 DEF ForwardSend
  <1>6. ASSUME NEW k \in Backlogs, ForwardAnswer(k) PROVE UniqueOpeners'
    BY <1>6 DEF ForwardAnswer
  <1>7. ASSUME AllAnswered PROVE UniqueOpeners'
    BY <1>7 DEF AllAnswered, MgrGoto
  <1>8. ASSUME Scan PROVE UniqueOpeners'
    BY <1>8 DEF Scan, MgrGoto
  <1>9. ASSUME NEW k \in Backlogs, Create(k) PROVE UniqueOpeners'
    BY <1>9 DEF Create, MgrGoto, OpenerInv
  <1>10. ASSUME CreateFails PROVE UniqueOpeners'
    BY <1>10 DEF CreateFails, MgrGoto
  <1>11. ASSUME LookUp PROVE UniqueOpeners'
    BY <1>11 DEF LookUp, MgrGoto
  <1>12. ASSUME NEW k \in Backlogs, Start(k) PROVE UniqueOpeners'
    BY <1>12 DEF Start, MgrGoto, OpenerInv
  <1>13. ASSUME NEW k \in Backlogs, WorkerSnapshot(k) PROVE UniqueOpeners'
    BY <1>13 DEF WorkerSnapshot
  <1>14. ASSUME NEW k \in Backlogs, WorkerMatch(k) PROVE UniqueOpeners'
    BY <1>14 DEF WorkerMatch
  <1>15. ASSUME NEW k \in Backlogs, NEW e \in Events, Process(k, e) PROVE UniqueOpeners'
    <2>1. PICK n : Append(k, e, n)
      BY <1>15 DEF Process
    <2>2. UNCHANGED mgr
      BY <1>15 DEF Process
    <2> HIDE DEF TypeOK
    <2> QED
      BY <2>1, <2>2, AppendKeeps
  <1>16. ASSUME NEW k \in Backlogs, Expire(k) PROVE UniqueOpeners'
    BY <1>16 DEF Expire, Want
  <1>17. ASSUME NEW k \in Backlogs, DeleteMark(k) PROVE UniqueOpeners'
    BY <1>17 DEF DeleteMark
  <1>18. ASSUME NEW k \in Backlogs, DeleteClose(k) PROVE UniqueOpeners'
    BY <1>18 DEF DeleteClose
  <1>19. ASSUME NEW k \in Backlogs, DeleteLock(k) PROVE UniqueOpeners'
    BY <1>19 DEF DeleteLock
  <1>20. ASSUME NEW k \in Backlogs, DeleteUnlock(k) PROVE UniqueOpeners'
    BY <1>20 DEF DeleteUnlock
  <1>21. CASE UNCHANGED vars
    BY <1>21 DEF vars
  <1> QED
    BY <1>1, <1>2, <1>3, <1>4, <1>5, <1>6, <1>7, <1>8, <1>9, <1>10, <1>11, <1>12, <1>13, <1>14, <1>15, <1>16, <1>17, <1>18, <1>19, <1>20, <1>21
    DEF Next, Manage, Forward, Work, Delete, Idle

-----------------------------------------------------------------------------
(* The theorems *)

\* The invariant holds at first ...
LEMMA InitIInv == Init => IInv
  <1> SUFFICES ASSUME Init PROVE IInv
    OBVIOUS
  <1>1. LockInv /\ ForwardInv /\ AnswerAwaited
    BY DEF Init, LockInv, ForwardInv, AnswerAwaited
  <1>2. OpenerInv /\ UniqueOpeners
    BY DEF Init, OpenerInv, UniqueOpeners, Listed
  <1> QED
    BY <1>1, <1>2, InitType DEF IInv

\* ... and every step keeps it.
LEMMA StepIInv == IInv /\ [Next]_vars => IInv'
  BY StepType, StepEvent, StepLock, StepForward, StepAwaited, StepOpener, StepUnique DEF IInv

\* A worker with an answer always has the manager waiting for it, whatever ends,
\* expires or is removed meanwhile: the manager and its backlogs do not lose
\* each other.
THEOREM AnswersCorrect == Spec => []AnswerAwaited
  <1>1. IInv => AnswerAwaited
    BY DEF IInv
  <1> QED
    BY <1>1, InitIInv, StepIInv, PTL DEF Spec

\* However often and whenever an event is delivered again, it opens no backlog
\* while one it has opened is in the map.
THEOREM OpenersCorrect == Spec => []UniqueOpeners
  <1>1. IInv => UniqueOpeners
    BY DEF IInv
  <1> QED
    BY <1>1, InitIInv, StepIInv, PTL DEF Spec

=============================================================================
