---------------------------- MODULE PipelineEnds ----------------------------
(***************************************************************************)
(* What a pipeline processor promises its caller and how it ends, for every *)
(* number of threads and queries and every buffer size.  On a connection   *)
(* that does not break it implements CallbackService, and with room for     *)
(* every query also on one that breaks (the run pipeline_late_answer shows   *)
(* what happens without).  What is on the wire is timed, a lost connection   *)
(* leaves no callback behind, and the promise of the destructor is set once. *)
(***************************************************************************)
EXTENDS PipelineProofs, FiniteSetTheorems

USE DEF IsRunning, At, OwnerAt, Goto, vars, threadVars, cbVars, buffVars, stopVars,
        clockVars, linkVars, OwnerVars, EnvUnchanged

-----------------------------------------------------------------------------
(* The service, on a connection that does not break.                         *)

(* The abstract line: the callback being called and the callbacks queued.   *)
Line == (IF cur.cb = NoQuery THEN <<>> ELSE <<cur.cb>>) \o cb_queue

(* A posted handler without an error keeps the queue free of errors.        *)
LEMMA NoErrAppended ==
  ASSUME TypeOK, NEW e \in Events, ioq' = Append(ioq, e), e \notin {"read_err", "write_err"},
         \A i \in DOMAIN ioq : ioq[i] \notin {"read_err", "write_err"}
  PROVE  \A i \in DOMAIN ioq' : ioq'[i] \notin {"read_err", "write_err"}
BY DEF TypeOK, LinkTypeOK

(* Where connections do not break no error handler is ever posted.          *)
LEMMA NoBreakStep ==
  ASSUME TypeOK, NoBreakOK, [Next]_vars
  PROVE  NoBreakOK'
<1> USE ThreadAssumption DEF TypeOK, ThreadsTypeOK, FlagsTypeOK, LinkTypeOK, NoBreakOK, Threads
<1>1. CASE \E t \in Clients, q \in Query : CallPush(t, q)
  BY <1>1 DEF CallPush
<1>2. CASE \E t \in Threads : PushIgnored(t)
  BY <1>2 DEF PushIgnored, Return
<1>3. CASE \E t \in Threads : PushWait(t)
  BY <1>3 DEF PushWait
<1>4. CASE \E t \in Threads : PushCallback(t)
  BY <1>4 DEF PushCallback
<1>5. CASE \E t \in Threads : AddQuery(t)
  BY <1>5 DEF AddQuery
<1>6. CASE \E t \in Threads : CompareExchange(t)
  BY <1>6 DEF CompareExchange, Return
<1>7. CASE \E t \in Threads : NothingToSend(t)
  BY <1>7 DEF NothingToSend
<1>8. CASE \E t \in Threads : Unset(t)
  BY <1>8 DEF Unset, Return
<1>9. CASE \E t \in Threads : TimerCheck(t)
  BY <1>9 DEF TimerCheck
<1>10. CASE \E t \in Threads : TimerStart(t)
  BY <1>10 DEF TimerStart
<1>11. CASE \E t \in Threads : GetBuffer(t)
  BY <1>11 DEF GetBuffer
<1>12. CASE \E t \in Threads : Write(t)
  BY <1>12, NoErrAppended DEF Write, Events, Return
<1>13. CASE Dispatch
  BY <1>13 DEF Dispatch, FirstLabel, Events
<1>14. CASE ReqSent
  BY <1>14 DEF ReqSent, Notified
<1>15. CASE ReqDone
  BY <1>15 DEF ReqDone
<1>16. CASE SocketErrorAgain
  BY <1>16 DEF SocketErrorAgain
<1>17. CASE SocketError
  BY <1>17 DEF SocketError, Notified
<1>18. CASE Drain
  BY <1>18 DEF Drain
<1>19. CASE ParseReply
  BY <1>19 DEF ParseReply
<1>20. CASE ParseUnexpected
  BY <1>20 DEF ParseUnexpected
<1>21. CASE ParseNothing
  BY <1>21 DEF ParseNothing
<1>22. CASE Callback
  BY <1>22 DEF Callback
<1>23. CASE WorkDone
  BY <1>23 DEF WorkDone
<1>24. CASE NextReply
  BY <1>24 DEF NextReply
<1>25. CASE TailBusy
  BY <1>25 DEF TailBusy, ReadAgain
<1>26. CASE TailIdle
  BY <1>26 DEF TailIdle
<1>27. CASE Disarm
  BY <1>27 DEF Disarm
<1>28. CASE Cancel
  BY <1>28 DEF Cancel, ReadAgain
<1>29. CASE \E n \in 1..Unsent : WriteDone(n)
  BY <1>29 DEF WriteDone
<1>30. CASE WritePosted
  BY <1>30, NoErrAppended DEF WritePosted, Events
<1>31. CASE WriteFails
  BY <1>31 DEF WriteFails
<1>32. CASE Reply
  BY <1>32 DEF Reply
<1>33. CASE \E n \in 0..Len(net) : ReadDone(n)
  BY <1>33, NoErrAppended DEF ReadDone, Events
<1>34. CASE ReadFails
  BY <1>34 DEF ReadFails
<1>35. CASE Break
  BY <1>35 DEF Break
<1>36. CASE TimerExpires
  BY <1>36, NoErrAppended DEF TimerExpires, Events
<1>37. CASE
        \/ Stop
        \/ StopCheck
        \/ StopWait
        \/ Destroy
  BY <1>37 DEF Stop, StopCheck, StopWait, Destroy
<1>38. CASE UNCHANGED vars
  BY <1>38
<1> QED
  BY <1>1, <1>2, <1>3, <1>4, <1>5, <1>6, <1>7, <1>8, <1>9, <1>10,
       <1>11, <1>12, <1>13, <1>14, <1>15, <1>16, <1>17, <1>18, <1>19, <1>20,
       <1>21, <1>22, <1>23, <1>24, <1>25, <1>26, <1>27, <1>28, <1>29, <1>30,
       <1>31, <1>32, <1>33, <1>34, <1>35, <1>36, <1>37, <1>38 DEF Next, PushStep, LoopStep, OwnerStep, Threads

(* Every step keeps each query in one place: with the thread that pushes    *)
(* it, once in the callback queue, with the callback being called, or       *)
(* finished.                                                                *)
LEMMA UniqueStep ==
  ASSUME TypeOK, ArgOK, UniqueOK, [Next]_vars
  PROVE  UniqueOK'
<1> USE ThreadAssumption, QueryAssumption DEF TypeOK, ThreadsTypeOK, CallbacksTypeOK, ArgOK,
        PushingLabels, UniqueOK, Unaccepted, Queued, Threads
<1>1. CASE \E t \in Clients, q \in Query : CallPush(t, q)
  BY <1>1 DEF CallPush, Fresh
<1>2. CASE \E t \in Threads : PushIgnored(t)
  BY <1>2 DEF PushIgnored, Return
<1>3. CASE \E t \in Threads : PushWait(t)
  BY <1>3 DEF PushWait
<1>4. CASE \E t \in Threads : PushCallback(t)
  BY <1>4 DEF PushCallback
<1>5. CASE \E t \in Threads : AddQuery(t)
  BY <1>5 DEF AddQuery
<1>6. CASE \E t \in Threads : CompareExchange(t)
  BY <1>6 DEF CompareExchange, Return
<1>7. CASE \E t \in Threads : NothingToSend(t)
  BY <1>7 DEF NothingToSend
<1>8. CASE \E t \in Threads : Unset(t)
  BY <1>8 DEF Unset, Return
<1>9. CASE \E t \in Threads : TimerCheck(t)
  BY <1>9 DEF TimerCheck
<1>10. CASE \E t \in Threads : TimerStart(t)
  BY <1>10 DEF TimerStart
<1>11. CASE \E t \in Threads : GetBuffer(t)
  BY <1>11 DEF GetBuffer
<1>12. CASE \E t \in Threads : Write(t)
  BY <1>12 DEF Write, Return
<1>13. CASE Dispatch
  BY <1>13 DEF Dispatch, FirstLabel, LinkTypeOK, Events
<1>14. CASE ReqSent
  BY <1>14 DEF ReqSent, Notified
<1>15. CASE ReqDone
  BY <1>15 DEF ReqDone
<1>16. CASE SocketErrorAgain
  BY <1>16 DEF SocketErrorAgain
<1>17. CASE SocketError
  BY <1>17 DEF SocketError, Notified
<1>18. CASE Drain
  BY <1>18 DEF Drain
<1>19. CASE ParseReply
  BY <1>19 DEF ParseReply
<1>20. CASE ParseUnexpected
  BY <1>20 DEF ParseUnexpected
<1>21. CASE ParseNothing
  BY <1>21 DEF ParseNothing
<1>22. CASE Callback
  BY <1>22 DEF Callback, Fresh, NoCallback
<1>23. CASE WorkDone
  BY <1>23 DEF WorkDone
<1>24. CASE NextReply
  BY <1>24 DEF NextReply
<1>25. CASE TailBusy
  BY <1>25 DEF TailBusy
<1>26. CASE TailIdle
  BY <1>26 DEF TailIdle
<1>27. CASE Disarm
  BY <1>27 DEF Disarm
<1>28. CASE Cancel
  BY <1>28 DEF Cancel
<1>29. CASE
        \/ Stop
        \/ StopCheck
        \/ StopWait
        \/ Destroy
        \/ \E n \in 1..Unsent : WriteDone(n)
        \/ WritePosted
  BY <1>29 DEF Stop, StopCheck, StopWait, Destroy, WriteDone, WritePosted
<1>30. CASE
        \/ WriteFails
        \/ Reply
        \/ \E n \in 0..Len(net) : ReadDone(n)
        \/ ReadFails
        \/ Break
        \/ TimerExpires
  BY <1>30 DEF WriteFails, Reply, ReadDone, ReadFails, Break, TimerExpires
<1>31. CASE UNCHANGED vars
  BY <1>31
<1> QED
  BY <1>1, <1>2, <1>3, <1>4, <1>5, <1>6, <1>7, <1>8, <1>9, <1>10,
       <1>11, <1>12, <1>13, <1>14, <1>15, <1>16, <1>17, <1>18, <1>19, <1>20,
       <1>21, <1>22, <1>23, <1>24, <1>25, <1>26, <1>27, <1>28, <1>29, <1>30,
       <1>31 DEF Next, PushStep, LoopStep, OwnerStep, Threads

(* The abstract line holds the queries queued and the one being answered.   *)
LEMMA LineTypes ==
  ASSUME TypeOK
  PROVE  /\ Line \in Seq(Query)
         /\ \A q \in Query : (\E i \in DOMAIN Line : Line[i] = q) <=> Queued(q) \/ cur.cb = q
<1> USE QueryAssumption DEF TypeOK, CallbacksTypeOK
<1>1. CASE cur.cb = NoQuery
  <2>1. Line = cb_queue
    BY <1>1, EmptySeq, ConcatEmptySeq DEF Line
  <2> QED
    BY <1>1, <2>1 DEF Queued
<1>2. CASE cur.cb # NoQuery
  <2>1. cur.cb \in Query /\ Line = <<cur.cb>> \o cb_queue
    BY <1>2 DEF Line
  <2>2. Line \in Seq(Query) /\ Len(Line) = Len(cb_queue) + 1 /\ Line[1] = cur.cb
        /\ \A i \in 1..Len(cb_queue) : Line[i + 1] = cb_queue[i]
    BY <2>1
  <2>3. ASSUME NEW q \in Query, NEW i \in DOMAIN Line, Line[i] = q
        PROVE  Queued(q) \/ cur.cb = q
    <3>1. i = 1 \/ (i - 1 \in 1..Len(cb_queue) /\ Line[(i - 1) + 1] = cb_queue[i - 1])
      BY <2>2, <2>3
    <3> QED
      BY <2>2, <2>3, <3>1 DEF Queued
  <2>4. ASSUME NEW q \in Query, Queued(q) \/ cur.cb = q
        PROVE  \E i \in DOMAIN Line : Line[i] = q
    <3>1. CASE cur.cb = q
      BY <2>2, <3>1
    <3>2. CASE Queued(q)
      <4> PICK i \in 1..Len(cb_queue) : cb_queue[i] = q
        BY <3>2 DEF Queued
      <4> QED
        BY <2>2
    <3> QED
      BY <2>4, <3>1, <3>2
  <2> QED
    BY <2>2, <2>3, <2>4
<1> QED
  BY <1>1, <1>2

(* _cb_queue.push is the abstract Accept.                                   *)
LEMMA Accepts ==
  ASSUME TypeOK, ArgOK, OrderOK, StopOK, UniqueOK, ~error,
         NEW t \in Threads, PushCallback(t)
  PROVE  Service!Accept(arg[t])
<1> USE DEF TypeOK, ThreadsTypeOK, CallbacksTypeOK, FlagsTypeOK
<1>1. arg[t] \in Query /\ ~stop /\ pc[t] = "push_cb"
  BY DEF PushCallback, ArgOK, PushingLabels, StopOK
<1>2. ~Queued(arg[t]) /\ cur.cb # arg[t] /\ outcome[arg[t]] = Uncalled
  BY <1>1 DEF UniqueOK, Unaccepted
<1>3. ~(\E i \in DOMAIN Line : Line[i] = arg[t])
  BY <1>1, <1>2, LineTypes
<1>4. Line' = Append(Line, arg[t])
  <2>1. cur' = cur /\ cb_queue' = Append(cb_queue, arg[t])
    BY DEF PushCallback
  <2>2. \A s \in Seq(Query) : s \o Append(cb_queue, arg[t]) = Append(s \o cb_queue, arg[t])
    BY <1>1, AppendToConcat
  <2> QED
    BY <2>1, <2>2 DEF Line
<1>5. UNCHANGED <<outcome, stop>>
  BY DEF PushCallback
<1> QED
  BY <1>1, <1>2, <1>3, <1>4, <1>5
     DEF Service!Accept, Service!Waiting, Service!Uncalled, Uncalled, Line

(* The early return of push is the abstract Refuse.                         *)
LEMMA Refuses ==
  ASSUME TypeOK, ArgOK, UniqueOK, NEW t \in Threads, PushIgnored(t)
  PROVE  Service!Refuse(arg[t])
<1>1. arg[t] \in Query /\ stop /\ pc[t] = "lock" /\ UNCHANGED <<cur, cb_queue, stop>>
      /\ outcome' = [outcome EXCEPT ![arg[t]] = Ignored]
  BY DEF PushIgnored, ArgOK, PushingLabels
<1>2. ~Queued(arg[t]) /\ cur.cb # arg[t] /\ outcome[arg[t]] = Uncalled
  BY <1>1 DEF UniqueOK, Unaccepted
<1>3. ~(\E i \in DOMAIN Line : Line[i] = arg[t]) /\ Line' = Line
  BY <1>1, <1>2, LineTypes DEF Line
<1> QED
  BY <1>1, <1>2, <1>3
     DEF Service!Refuse, Service!Waiting, Service!Uncalled, Service!Ignored, Uncalled, Ignored, Line

(* The call of the callback is the abstract Answer.                         *)
LEMMA Answers ==
  ASSUME TypeOK, ArgOK, OrderOK, UniqueOK, ~error, Callback
  PROVE  Service!Answer
<1> USE DEF TypeOK, CallbacksTypeOK
<1>1. pc[Loop] = "callback" /\ cur.cb \in Query /\ cur.reply = cur.cb
      /\ cur'.cb = NoQuery /\ UNCHANGED <<cb_queue, stop>>
      /\ outcome' = [outcome EXCEPT ![cur.cb] = Answered(cur.reply)]
  BY DEF Callback, ArgOK, OrderOK, NoCallback
<1>2. cur.cb # NoQuery /\ outcome[cur.cb] = Uncalled
  BY <1>1, QueryAssumption DEF UniqueOK
<1>3. Line = <<cur.cb>> \o cb_queue /\ Line' = <<>> \o cb_queue
  BY <1>1, <1>2 DEF Line
<1>4. Line # <<>> /\ Head(Line) = cur.cb /\ Tail(Line) = <<>> \o cb_queue
  BY <1>1, <1>3, HeadTailConcat
<1> QED
  BY <1>1, <1>2, <1>3, <1>4
     DEF Service!Answer, Service!Uncalled, Service!Answered, Uncalled, Answered, Line

(* Taking a callback from the queue changes nothing in the abstract line.   *)
LEMMA Takes ==
  ASSUME TypeOK, ArgOK, ParseReply
  PROVE  UNCHANGED Service!vars
<1>1. cur.cb = NoQuery
  BY DEF ParseReply, ArgOK, TypeOK, CallbacksTypeOK
<1>2. cb_queue \in Seq(Query) /\ cb_queue # <<>> /\ Head(cb_queue) \in Query
      /\ Head(cb_queue) # NoQuery
  BY QueryAssumption DEF ParseReply, TypeOK, CallbacksTypeOK
<1>3. Line = <<>> \o cb_queue /\ Line' = <<Head(cb_queue)>> \o Tail(cb_queue)
      /\ UNCHANGED <<outcome, stop>>
  BY <1>1, <1>2 DEF ParseReply, Line
<1>4. <<>> \o cb_queue = <<Head(cb_queue)>> \o Tail(cb_queue)
  BY <1>2
<1> QED
  BY <1>3, <1>4 DEF Service!vars, Line

(* soc_error_callbacks is the abstract FailAll.                             *)
LEMMA Fails ==
  ASSUME TypeOK, ArgOK, UniqueOK, stop, Drain
  PROVE  Service!FailAll
<1>1. cur.cb = NoQuery /\ cb_queue' = <<>> /\ UNCHANGED <<cur, stop>>
      /\ outcome' = [q \in Query |-> IF Queued(q) THEN Disconnected ELSE outcome[q]]
  BY DEF Drain, ArgOK, TypeOK, CallbacksTypeOK
<1>2. \A q \in Query : (\E i \in DOMAIN Line : Line[i] = q) <=> Queued(q)
  BY <1>1, LineTypes, QueryAssumption
<1>3. Line' = <<>>
  BY <1>1, EmptySeq, ConcatEmptySeq DEF Line
<1>4. \A q \in Query : Queued(q) => outcome[q] = Uncalled
  BY DEF UniqueOK
<1>5. outcome' = [q \in Query |-> IF \E i \in DOMAIN Line : Line[i] = q THEN Disconnected ELSE outcome[q]]
  BY <1>1, <1>2
<1> QED
  BY <1>1, <1>2, <1>3, <1>4, <1>5
     DEF Service!FailAll, Service!Waiting, Service!Uncalled, Service!Disconnected,
         Uncalled, Disconnected, Line

(* Every step of the processor is a step of CallbackService or leaves it    *)
(* alone, as long as nothing is accepted or answered after an error.        *)
LEMMA ServiceStep ==
  ASSUME TypeOK, ArgOK, OrderOK, StopOK, UniqueOK, [Next]_vars,
         error => pc[Loop] # "callback" /\ \A t \in Threads : pc[t] # "push_cb",
         pc[Loop] = "drain" => stop
  PROVE  [Service!Next]_(Service!vars)
<1>1. CASE \E t \in Clients, q \in Query : CallPush(t, q)
  BY <1>1 DEF CallPush, Service!vars
<1>2. CASE \E t \in Threads : PushIgnored(t)
  <2> PICK t \in Threads : PushIgnored(t)
    BY <1>2
  <2>1. arg[t] \in Query /\ Service!Refuse(arg[t])
    BY Refuses DEF PushIgnored, ArgOK, PushingLabels
  <2> QED
    BY <2>1 DEF Service!Next
<1>3. CASE \E t \in Threads : PushWait(t)
  BY <1>3 DEF PushWait, Service!vars
<1>4. CASE \E t \in Threads : PushCallback(t)
  <2> PICK t \in Threads : PushCallback(t)
    BY <1>4
  <2>1. ~error
    BY DEF PushCallback
  <2>2. arg[t] \in Query /\ Service!Accept(arg[t])
    BY <2>1, Accepts DEF PushCallback, ArgOK, PushingLabels
  <2> QED
    BY <2>2 DEF Service!Next
<1>5. CASE \E t \in Threads : AddQuery(t)
  BY <1>5 DEF AddQuery, Service!vars
<1>6. CASE \E t \in Threads : CompareExchange(t)
  BY <1>6 DEF CompareExchange, Service!vars
<1>7. CASE \E t \in Threads : NothingToSend(t)
  BY <1>7 DEF NothingToSend, Service!vars
<1>8. CASE \E t \in Threads : Unset(t)
  BY <1>8 DEF Unset, Service!vars
<1>9. CASE \E t \in Threads : TimerCheck(t)
  BY <1>9 DEF TimerCheck, Service!vars
<1>10. CASE \E t \in Threads : TimerStart(t)
  BY <1>10 DEF TimerStart, Service!vars
<1>11. CASE \E t \in Threads : GetBuffer(t)
  BY <1>11 DEF GetBuffer, Service!vars
<1>12. CASE \E t \in Threads : Write(t)
  BY <1>12 DEF Write, Service!vars
<1>13. CASE Dispatch
  BY <1>13 DEF Dispatch, Service!vars
<1>14. CASE ReqSent
  BY <1>14 DEF ReqSent, Service!vars
<1>15. CASE ReqDone
  BY <1>15 DEF ReqDone, Service!vars
<1>16. CASE SocketErrorAgain
  BY <1>16 DEF SocketErrorAgain, Service!vars
<1>17. CASE SocketError
  BY <1>17 DEF SocketError, Service!Next, Service!Close
<1>18. CASE Drain
  BY <1>18, Fails DEF Drain, Service!Next
<1>19. CASE ParseReply
  BY <1>19, Takes DEF ParseReply
<1>20. CASE ParseUnexpected
  BY <1>20 DEF ParseUnexpected, Service!vars
<1>21. CASE ParseNothing
  BY <1>21 DEF ParseNothing, Service!vars
<1>22. CASE Callback
  BY <1>22, Answers DEF Callback, Service!Next
<1>23. CASE WorkDone
  BY <1>23 DEF WorkDone, Service!vars
<1>24. CASE NextReply
  BY <1>24 DEF NextReply, Service!vars
<1>25. CASE TailBusy
  BY <1>25 DEF TailBusy, Service!vars
<1>26. CASE TailIdle
  BY <1>26 DEF TailIdle, Service!vars
<1>27. CASE Disarm
  BY <1>27 DEF Disarm, Service!vars
<1>28. CASE Cancel
  BY <1>28 DEF Cancel, Service!vars
<1>29. CASE Stop
  BY <1>29 DEF Stop, Service!Next, Service!Close
<1>30. CASE StopCheck
  BY <1>30 DEF StopCheck, Service!vars
<1>31. CASE StopWait
  BY <1>31 DEF StopWait, Service!vars
<1>32. CASE Destroy
  BY <1>32 DEF Destroy, Service!vars
<1>33. CASE \E n \in 1..Unsent : WriteDone(n)
  BY <1>33 DEF WriteDone, Service!vars
<1>34. CASE WritePosted
  BY <1>34 DEF WritePosted, Service!vars
<1>35. CASE WriteFails
  BY <1>35 DEF WriteFails, Service!vars
<1>36. CASE Reply
  BY <1>36 DEF Reply, Service!vars
<1>37. CASE \E n \in 0..Len(net) : ReadDone(n)
  BY <1>37 DEF ReadDone, Service!vars
<1>38. CASE ReadFails
  BY <1>38 DEF ReadFails, Service!vars
<1>39. CASE Break
  BY <1>39 DEF Break, Service!vars
<1>40. CASE TimerExpires
  BY <1>40 DEF TimerExpires, Service!vars
<1>41. CASE UNCHANGED vars
  BY <1>41 DEF Service!vars
<1> QED
  BY <1>1, <1>2, <1>3, <1>4, <1>5, <1>6, <1>7, <1>8, <1>9, <1>10,
       <1>11, <1>12, <1>13, <1>14, <1>15, <1>16, <1>17, <1>18, <1>19, <1>20,
       <1>21, <1>22, <1>23, <1>24, <1>25, <1>26, <1>27, <1>28, <1>29, <1>30,
       <1>31, <1>32, <1>33, <1>34, <1>35, <1>36, <1>37, <1>38, <1>39, <1>40,
       <1>41 DEF Next, PushStep, LoopStep, OwnerStep, Threads

(* A new processor is a new service.                                        *)
LEMMA ServiceStart ==
  ASSUME Init
  PROVE  Service!Init
<1>1. cb_queue = <<>> /\ cur.cb = NoQuery /\ outcome = [q \in Query |-> Uncalled] /\ stop = FALSE
  BY DEF Init, NoCallback
<1>2. <<>> \o <<>> = <<>>
  OBVIOUS
<1> QED
  BY <1>1, <1>2 DEF Service!Init, Service!Uncalled, Uncalled

-----------------------------------------------------------------------------
(* The additional conjuncts hold from the start and are kept. *)
THEOREM ServiceInvariance == Spec => []ServiceInv
<1>1. Init => UniqueOK /\ NoBreakOK
  BY ThreadAssumption, QueryAssumption
     DEF Init, UniqueOK, NoBreakOK, Unaccepted, Queued, NoCallback, Threads
<1>2. IInv /\ UniqueOK /\ NoBreakOK /\ [Next]_vars => UniqueOK' /\ NoBreakOK'
  BY UniqueStep, NoBreakStep DEF IInv
<1> QED
  BY <1>1, <1>2, Invariance, PTL DEF Spec, ServiceInv

(* The processor implements the service its callers rely on: push() accepts *)
(* or refuses, resp_handler answers in order and once, stop() closes.       *)
THEOREM Implementation == ASSUME ~CanBreak PROVE Spec => ImplementsService
<1>1. ServiceInv /\ [Next]_vars => [Service!Next]_(Service!vars)
  BY ServiceStep DEF ServiceInv, IInv, NoBreakOK
<1> QED
  BY ServiceStart, <1>1, ServiceInvariance, PTL DEF Spec, ImplementsService, Service!Spec

-----------------------------------------------------------------------------
(* The timer, and the end of the connection and of the processor.            *)

(* Posting a handler adds it to the queue and takes none away.              *)
LEMMA PostedIn ==
  ASSUME NEW s \in Seq(Events), NEW e \in Events, NEW x
  PROVE  (\E i \in DOMAIN Append(s, e) : Append(s, e)[i] = x)
           <=> (\E i \in DOMAIN s : s[i] = x) \/ e = x
<1>1. /\ DOMAIN s = 1..Len(s) /\ Len(s) \in Nat
      /\ DOMAIN Append(s, e) = 1..(Len(s) + 1)
      /\ \A i \in 1..Len(s) : Append(s, e)[i] = s[i]
      /\ Append(s, e)[Len(s) + 1] = e
  OBVIOUS
<1> QED
  BY <1>1

(* Taking the first handler leaves the others, and adds none.               *)
LEMMA TakenIn ==
  ASSUME NEW s \in Seq(Events), s # <<>>, NEW x
  PROVE  /\ (\E i \in DOMAIN Tail(s) : Tail(s)[i] = x) => \E i \in DOMAIN s : s[i] = x
         /\ (\E i \in DOMAIN s : s[i] = x) /\ Head(s) # x
              => \E i \in DOMAIN Tail(s) : Tail(s)[i] = x
         /\ \E i \in DOMAIN s : s[i] = Head(s)
<1>1. /\ DOMAIN s = 1..Len(s) /\ Len(s) \in Nat \ {0}
      /\ DOMAIN Tail(s) = 1..(Len(s) - 1)
      /\ \A i \in 1..(Len(s) - 1) : Tail(s)[i] = s[i + 1]
      /\ Head(s) = s[1]
  OBVIOUS
<1>2. (\E i \in DOMAIN Tail(s) : Tail(s)[i] = x) => \E i \in DOMAIN s : s[i] = x
  BY <1>1
<1>3. ASSUME NEW i \in DOMAIN s, s[i] = x, Head(s) # x
      PROVE  \E j \in DOMAIN Tail(s) : Tail(s)[j] = x
  <2>1. i - 1 \in DOMAIN Tail(s) /\ Tail(s)[i - 1] = x
    BY <1>1, <1>3
  <2> QED
    BY <2>1
<1> QED
  BY <1>1, <1>2, <1>3

(* What posting a handler does to the handlers that TimedOK speaks of.      *)
LEMMA QueuePosts ==
  ASSUME TypeOK, NEW e \in Events, ioq' = Append(ioq, e)
  PROVE  /\ HasOk(ioq') <=> HasOk(ioq) \/ e = "write_ok"
         /\ HasTimer(ioq') <=> HasTimer(ioq) \/ e = "timer"
         /\ HasErr(ioq') <=> HasErr(ioq) \/ e = "write_err"
<1>1. ioq \in Seq(Events)
  BY DEF TypeOK, LinkTypeOK
<1>2. HasOk(Append(ioq, e)) <=> HasOk(ioq) \/ e = "write_ok"
  BY <1>1, PostedIn DEF HasOk
<1>3. (\E i \in DOMAIN Append(ioq, e) : Append(ioq, e)[i] = "timer")
        <=> HasTimer(ioq) \/ e = "timer"
  BY <1>1, PostedIn DEF HasTimer
<1>4. HasErr(Append(ioq, e)) <=> HasErr(ioq) \/ e = "write_err"
  BY <1>1, PostedIn DEF HasErr
<1> QED
  BY <1>2, <1>3, <1>4 DEF HasTimer

(* Posting the handler of the only read leaves exactly one in the queue.    *)
LEMMA ReadAppended ==
  ASSUME NEW s \in Seq(Events), NEW e \in Events, OneRead(s), HasRead(s) => ~IsRead(e)
  PROVE  /\ OneRead(Append(s, e))
         /\ HasRead(Append(s, e)) <=> HasRead(s) \/ IsRead(e)
<1>1. /\ DOMAIN s = 1..Len(s) /\ Len(s) \in Nat
      /\ DOMAIN Append(s, e) = 1..(Len(s) + 1)
      /\ \A i \in 1..Len(s) : Append(s, e)[i] = s[i]
      /\ Append(s, e)[Len(s) + 1] = e
  OBVIOUS
<1> HIDE DEF IsRead
<1>2. OneRead(Append(s, e))
  BY <1>1 DEF OneRead, HasRead
<1>3. HasRead(Append(s, e)) <=> HasRead(s) \/ IsRead(e)
  BY <1>1 DEF HasRead
<1> QED
  BY <1>2, <1>3

(* Taking the handler of the only read leaves none in the queue.            *)
LEMMA ReadTaken ==
  ASSUME NEW s \in Seq(Events), s # <<>>, OneRead(s)
  PROVE  /\ OneRead(Tail(s))
         /\ HasRead(Tail(s)) => HasRead(s) /\ ~IsRead(Head(s))
         /\ IsRead(Head(s)) => HasRead(s)
         /\ Head(s) \in Events /\ Tail(s) \in Seq(Events)
<1>1. /\ DOMAIN s = 1..Len(s) /\ Len(s) \in Nat \ {0}
      /\ DOMAIN Tail(s) = 1..(Len(s) - 1)
      /\ \A i \in 1..(Len(s) - 1) : Tail(s)[i] = s[i + 1]
      /\ Head(s) = s[1]
  OBVIOUS
<1>2. OneRead(Tail(s))
  BY <1>1 DEF OneRead
<1>3. HasRead(Tail(s)) => HasRead(s) /\ ~IsRead(Head(s))
  BY <1>1 DEF HasRead, OneRead
<1>4. IsRead(Head(s)) => HasRead(s)
  BY <1>1 DEF HasRead
<1> QED
  BY <1>2, <1>3, <1>4

(* Closing the socket posts the handler of the outstanding read, if any.    *)
LEMMA ReadAborted ==
  ASSUME TypeOK, ReaderOK
  PROVE  /\ OneRead(ioq \o Aborted)
         /\ HasRead(ioq \o Aborted) => HasRead(ioq) \/ reading
<1> DEFINE S == IF reading THEN Append(ioq, "read_err") ELSE ioq
<1>1. ioq \in Seq(Events) /\ "read_err" \in Events /\ "write_err" \in Events
  BY DEF TypeOK, LinkTypeOK, Events
<1>2. S \in Seq(Events) /\ OneRead(S) /\ (HasRead(S) => HasRead(ioq) \/ reading)
  BY <1>1, ReadAppended DEF ReaderOK, IsRead
<1>3. ioq \o Aborted = IF writing = "pending" THEN Append(S, "write_err") ELSE S
  <2>1. CASE reading
    BY <1>1, <2>1 DEF Aborted
  <2>2. CASE ~reading
    BY <1>1, <2>2 DEF Aborted
  <2> QED
    BY <2>1, <2>2
<1> HIDE DEF S
<1>4. /\ OneRead(Append(S, "write_err"))
      /\ HasRead(Append(S, "write_err")) <=> HasRead(S)
  BY <1>1, <1>2, ReadAppended DEF IsRead
<1> QED
  BY <1>2, <1>3, <1>4

(* One read at a time: resp_handler, or a push() from one of its callbacks, *)
(* holds what a read handler or an outstanding read held before.            *)
LEMMA ReaderStep ==
  ASSUME TypeOK, ArgOK, ReaderOK, [Next]_vars
  PROVE  ReaderOK'
<1> USE ThreadAssumption, QueryAssumption
    DEF TypeOK, ThreadsTypeOK, LinkTypeOK, ReaderOK, Replying, ReadLabels, PushLabels,
        ArgOK, PushingLabels, Threads
<1>1. CASE \E t \in Clients, q \in Query : CallPush(t, q)
  BY <1>1 DEF CallPush
<1>2. CASE \E t \in Threads : PushIgnored(t)
  BY <1>2 DEF PushIgnored, Return
<1>3. CASE \E t \in Threads : PushWait(t)
  BY <1>3 DEF PushWait
<1>4. CASE \E t \in Threads : PushCallback(t)
  BY <1>4 DEF PushCallback
<1>5. CASE \E t \in Threads : AddQuery(t)
  BY <1>5 DEF AddQuery
<1>6. CASE \E t \in Threads : CompareExchange(t)
  BY <1>6 DEF CompareExchange, Return
<1>7. CASE \E t \in Threads : NothingToSend(t)
  BY <1>7 DEF NothingToSend
<1>8. CASE \E t \in Threads : Unset(t)
  BY <1>8 DEF Unset, Return
<1>9. CASE \E t \in Threads : TimerCheck(t)
  BY <1>9 DEF TimerCheck
<1>10. CASE \E t \in Threads : TimerStart(t)
  BY <1>10 DEF TimerStart
<1>11. CASE \E t \in Threads : GetBuffer(t)
  BY <1>11 DEF GetBuffer
<1>12. CASE \E t \in Threads : Write(t)
  <2> PICK t \in Threads : Write(t)
    BY <1>12
  <2>1. \A e \in {"write_ok", "write_err"} : e \in Events /\ ~IsRead(e)
    BY DEF Events, IsRead
  <2>2. \A e \in {"write_ok", "write_err"} :
           OneRead(Append(ioq, e)) /\ (HasRead(Append(ioq, e)) <=> HasRead(ioq))
    BY <2>1, ReadAppended
  <2>3. OneRead(ioq') /\ (HasRead(ioq') <=> HasRead(ioq)) /\ reading' = reading
    BY <2>2 DEF Write
  <2>4. Replying' => Replying
    BY DEF Write, Return
  <2> QED
    BY <2>3, <2>4 DEF Write, Return
<1>13. CASE Dispatch
  <2>1. /\ OneRead(ioq') /\ (HasRead(ioq') => HasRead(ioq) /\ ~IsRead(Head(ioq)))
        /\ (IsRead(Head(ioq)) => HasRead(ioq)) /\ Head(ioq) \in Events
    BY <1>13, ReadTaken DEF Dispatch
  <2>2. arg' = arg /\ arg[Loop] = NoQuery /\ reading' = reading
    BY <1>13 DEF Dispatch
  <2>3. pc'[Loop] \in ReadLabels => IsRead(Head(ioq))
    BY <1>13, <2>1 DEF Dispatch, FirstLabel, Events, IsRead
  <2> QED
    BY <2>1, <2>2, <2>3
<1>14. CASE ReqSent
  BY <1>14 DEF ReqSent, Notified
<1>15. CASE ReqDone
  BY <1>15 DEF ReqDone
<1>16. CASE SocketErrorAgain
  BY <1>16 DEF SocketErrorAgain, FirstError
<1>17. CASE SocketError
  <2>1. OneRead(ioq') /\ ~reading' /\ pc'[Loop] = "drain" /\ arg' = arg
    BY <1>17, ReadAborted DEF SocketError, Notified
  <2>2. arg[Loop] = NoQuery
    BY <1>17 DEF SocketError
  <2> QED
    BY <2>1, <2>2
<1>18. CASE Drain
  BY <1>18 DEF Drain
<1>19. CASE ParseReply
  BY <1>19 DEF ParseReply
<1>20. CASE ParseUnexpected
  BY <1>20 DEF ParseUnexpected
<1>21. CASE ParseNothing
  BY <1>21 DEF ParseNothing
<1>22. CASE Callback
  BY <1>22 DEF Callback
<1>23. CASE WorkDone
  BY <1>23 DEF WorkDone, LastReply
<1>24. CASE NextReply
  BY <1>24 DEF NextReply, LastReply
<1>25. CASE TailBusy
  <2>1. "read_err" \in Events /\ ioq \in Seq(Events)
    BY DEF Events
  <2>2. OneRead(Append(ioq, "read_err"))
    BY <1>25, <2>1, ReadAppended DEF TailBusy
  <2>5. ~reading /\ ~HasRead(ioq)
    BY <1>25 DEF TailBusy
  <2>6. (ioq' = Append(ioq, "read_err") /\ ~reading') \/ ioq' = ioq
    BY <1>25, <2>5 DEF TailBusy, ReadAgain
  <2>3. OneRead(ioq') /\ (reading' => ~HasRead(ioq'))
    BY <2>2, <2>5, <2>6
  <2>4. arg[Loop] = NoQuery /\ ~Replying'
    BY <1>25 DEF TailBusy
  <2> QED
    BY <1>25, <2>3, <2>4 DEF TailBusy
<1>26. CASE TailIdle
  BY <1>26 DEF TailIdle
<1>27. CASE Disarm
  BY <1>27 DEF Disarm
<1>28. CASE Cancel
  <2>1. "read_err" \in Events /\ ioq \in Seq(Events)
    BY DEF Events
  <2>2. OneRead(Append(ioq, "read_err"))
    BY <1>28, <2>1, ReadAppended DEF Cancel
  <2>5. ~reading /\ ~HasRead(ioq)
    BY <1>28 DEF Cancel
  <2>6. (ioq' = Append(ioq, "read_err") /\ ~reading') \/ ioq' = ioq
    BY <1>28, <2>5 DEF Cancel, ReadAgain
  <2>3. OneRead(ioq') /\ (reading' => ~HasRead(ioq'))
    BY <2>2, <2>5, <2>6
  <2>4. arg[Loop] = NoQuery /\ ~Replying'
    BY <1>28 DEF Cancel
  <2> QED
    BY <1>28, <2>3, <2>4 DEF Cancel
<1>29. CASE
        \/ Stop
        \/ StopCheck
        \/ StopWait
        \/ Destroy
  BY <1>29 DEF Stop, StopCheck, StopWait, Destroy
<1>30. CASE \E n \in 1..Unsent : WriteDone(n)
  BY <1>30 DEF WriteDone
<1>31. CASE \E n \in 0..Len(net) : ReadDone(n)
  <2>1. "read_ok" \in Events /\ ioq \in Seq(Events)
    BY DEF Events
  <2> QED
    BY <1>31, <2>1, ReadAppended DEF ReadDone, IsRead
<1>32. CASE WritePosted
  <2>1. "write_ok" \in Events /\ ioq \in Seq(Events)
    BY DEF Events
  <2> QED
    BY <1>32, <2>1, ReadAppended DEF WritePosted, IsRead
<1>33. CASE WriteFails
  <2>1. "write_err" \in Events /\ ioq \in Seq(Events)
    BY DEF Events
  <2> QED
    BY <1>33, <2>1, ReadAppended DEF WriteFails, IsRead
<1>34. CASE
        \/ Reply
        \/ Break
  BY <1>34 DEF Reply, Break
<1>35. CASE ReadFails
  <2>1. "read_err" \in Events /\ ioq \in Seq(Events)
    BY DEF Events
  <2> QED
    BY <1>35, <2>1, ReadAppended DEF ReadFails, IsRead
<1>36. CASE TimerExpires
  <2>1. "timer" \in Events /\ ioq \in Seq(Events)
    BY DEF Events
  <2> QED
    BY <1>36, <2>1, ReadAppended DEF TimerExpires, IsRead
<1>37. CASE UNCHANGED vars
  BY <1>37
<1> QED
  BY <1>1, <1>2, <1>3, <1>4, <1>5, <1>6, <1>7, <1>8, <1>9, <1>10, <1>11, <1>12,
     <1>13, <1>14, <1>15, <1>16, <1>17, <1>18, <1>19, <1>20, <1>21, <1>22, <1>23, <1>24,
     <1>25, <1>26, <1>27, <1>28, <1>29, <1>30, <1>31, <1>32, <1>33, <1>34, <1>35, <1>36,
     <1>37
     DEF Next, PushStep, LoopStep, OwnerStep, Threads

(* A lost connection is closed for good, and the processor stopped.         *)
LEMMA ClosedStep ==
  ASSUME TypeOK, ClosedOK, [Next]_vars
  PROVE  ClosedOK'
<1> USE ThreadAssumption DEF TypeOK, ThreadsTypeOK, FlagsTypeOK, LinkTypeOK, ClosedOK, Threads
<1>1. CASE \E t \in Clients, q \in Query : CallPush(t, q)
  BY <1>1 DEF CallPush
<1>2. CASE
        \/ \E t \in Threads : PushIgnored(t)
        \/ \E t \in Threads : PushWait(t)
        \/ \E t \in Threads : PushCallback(t)
        \/ \E t \in Threads : AddQuery(t)
        \/ \E t \in Threads : CompareExchange(t)
        \/ \E t \in Threads : NothingToSend(t)
        \/ \E t \in Threads : Unset(t)
        \/ \E t \in Threads : TimerCheck(t)
        \/ \E t \in Threads : TimerStart(t)
        \/ \E t \in Threads : GetBuffer(t)
        \/ \E t \in Threads : Write(t)
  BY <1>2 DEF PushIgnored, Return, PushWait, PushCallback, AddQuery,
              CompareExchange, NothingToSend, Unset, TimerCheck, TimerStart,
              GetBuffer, Write
<1>3. CASE
        \/ Dispatch
        \/ ReqSent
        \/ ReqDone
        \/ SocketErrorAgain
  <2>1. CASE Dispatch
    <3>1. Head(ioq) \in Events
      BY <2>1 DEF Dispatch
    <3>2. FirstLabel(Head(ioq)) # "drain"
      BY <3>1 DEF FirstLabel, Events
    <3> QED
      BY <2>1, <3>2 DEF Dispatch
  <2> QED
    BY <1>3, <2>1 DEF ReqSent, Notified, ReqDone, SocketErrorAgain, FirstError
<1>4. CASE SocketError
  BY <1>4 DEF SocketError, FirstError, Notified
<1>5. CASE
        \/ Drain
        \/ ParseReply
        \/ ParseUnexpected
        \/ ParseNothing
        \/ Callback
  BY <1>5 DEF Drain, ParseReply, ParseUnexpected, ParseNothing, Callback
<1>6. CASE
        \/ WorkDone
        \/ NextReply
        \/ TailBusy
        \/ TailIdle
        \/ Disarm
        \/ Cancel
  BY <1>6 DEF WorkDone, LastReply, NextReply, TailBusy, ReadAgain, TailIdle, Disarm,
              Cancel
<1>7. CASE
        \/ Stop
        \/ StopCheck
        \/ StopWait
        \/ Destroy
  BY <1>7 DEF Stop, StopCheck, StopWait, Destroy
<1>8. CASE
        \/ \E n \in 1..Unsent : WriteDone(n)
        \/ \E n \in 0..Len(net) : ReadDone(n)
        \/ WritePosted
        \/ WriteFails
        \/ Reply
        \/ ReadFails
        \/ Break
        \/ TimerExpires
  BY <1>8 DEF WriteDone, ReadDone, WritePosted, WriteFails, Reply, ReadFails, Break,
              TimerExpires
<1>9. CASE UNCHANGED vars
  BY <1>9
<1> QED
  BY <1>1, <1>2, <1>3, <1>4, <1>5, <1>6, <1>7, <1>8, <1>9
     DEF Next, PushStep, LoopStep, OwnerStep, Threads

(* When Flow is empty nothing is on the wire, and every byte of the frozen   *)
(* block has been taken by the kernel.                                      *)
LEMMA EmptyFlow ==
  ASSUME TypeOK, BytesOK, ~error, Flow = <<>>
  PROVE  wire = <<>> /\ Unreported = <<>> /\ sended + bytes_sent = Len(frozen)
<1>1. /\ input \in Seq(Query) /\ net \in Seq(Query) /\ wire \in Seq(Query)
      /\ Unreported \in Seq(Query) /\ buff \in Seq(Query)
      /\ input \o net \in Seq(Query) /\ input \o net \o wire \in Seq(Query)
      /\ input \o net \o wire \o Unreported \in Seq(Query)
      /\ Flow = input \o net \o wire \o Unreported \o buff
      /\ sended + bytes_sent \in 0..Len(frozen) /\ frozen \in Seq(Query)
  BY FlowTypes
<1>2. \A s, r \in Seq(Query) : s \o r = <<>> => s = <<>> /\ r = <<>>
  OBVIOUS
<1>3. input \o net \o wire \o Unreported = <<>>
  BY <1>1, <1>2
<1>4. input \o net \o wire = <<>> /\ Unreported = <<>>
  BY <1>1, <1>2, <1>3
<1>5. wire = <<>>
  BY <1>1, <1>2, <1>4
<1>6. Len(Unreported) = Len(frozen) - (sended + bytes_sent)
  BY <1>1 DEF Unreported
<1>7. sended + bytes_sent = Len(frozen)
  BY <1>1, <1>4, <1>6
<1> QED
  BY <1>4, <1>5, <1>7

(* Whoever clears the timer, or puts queries on the wire, leaves a write     *)
(* whose handler arms the timer.                                            *)
LEMMA TimedStep ==
  ASSUME TypeOK, OneWriter, OrderOK, BytesOK, MutexOK, ArgOK, ClosedOK, TimedOK, [Next]_vars
  PROVE  TimedOK'
<1> USE ThreadAssumption DEF TypeOK, ThreadsTypeOK, FlagsTypeOK, LinkTypeOK,
                             TimedOK, Reporting, Threads
<1>1. CASE \E t \in Clients, q \in Query : CallPush(t, q)
  BY <1>1 DEF CallPush
<1>2. CASE \E t \in Threads : PushIgnored(t)
  BY <1>2 DEF PushIgnored, Return
<1>3. CASE \E t \in Threads : PushWait(t)
  BY <1>3 DEF PushWait
<1>4. CASE \E t \in Threads : PushCallback(t)
  BY <1>4 DEF PushCallback
<1>5. CASE \E t \in Threads : AddQuery(t)
  BY <1>5 DEF AddQuery
<1>6. CASE \E t \in Threads : CompareExchange(t)
  BY <1>6 DEF CompareExchange, Return
<1>7. CASE \E t \in Threads : NothingToSend(t)
  BY <1>7 DEF NothingToSend
<1>8. CASE \E t \in Threads : Unset(t)
  BY <1>8 DEF Unset, Return
<1>9. CASE \E t \in Threads : TimerCheck(t)
  BY <1>9 DEF TimerCheck
<1>10. CASE \E t \in Threads : TimerStart(t)
  BY <1>10 DEF TimerStart
<1>11. CASE \E t \in Threads : GetBuffer(t)
  BY <1>11 DEF GetBuffer
<1>12. CASE \E t \in Threads : Write(t)
  <2> PICK t \in Threads : Write(t)
    BY <1>12
  <2> SUFFICES ASSUME ~error', IsRunning', wire' # <<>>
               PROVE  /\ \/ timer' \/ Reporting' \/ pc'[Loop] = "sent"
                         \/ HasTimer(ioq')
                      /\ pc'[Loop] \in {"disarm", "cancel"} => Reporting'
    OBVIOUS
  <2>1. writing = "no" /\ pc[t] = "write"
    BY DEF Write, OneWriter, Sending, ReqLabels
  <2>2. ioq' = ioq \/ \E e \in Events : ioq' = Append(ioq, e)
    BY DEF Write, Events
  <2>3. (HasOk(ioq) => HasOk(ioq')) /\ (HasTimer(ioq) => HasTimer(ioq'))
    BY <2>2, QueuePosts
  <2>4. pc'[Loop] \in {"disarm", "cancel"} => pc[Loop] = pc'[Loop]
    BY <2>1 DEF Write, Return
  <2>5. pc[Loop] = "sent" => pc'[Loop] = "sent"
    BY <2>1 DEF Write, Return
  <2>6. timer' = timer /\ wire' = wire /\ error' = error /\ status' = status
    BY DEF Write
  <2> QED
    BY <2>1, <2>3, <2>4, <2>5, <2>6
<1>13. CASE Dispatch
  <2> SUFFICES ASSUME ~error', IsRunning', wire' # <<>>
               PROVE  /\ \/ timer' \/ Reporting' \/ pc'[Loop] = "sent"
                         \/ HasTimer(ioq')
                      /\ pc'[Loop] \in {"disarm", "cancel"} => Reporting'
    OBVIOUS
  <2>1. Head(ioq) \in Events /\ Head(ioq) # "timer"
    BY <1>13 DEF Dispatch, Events
  <2>2. Head(ioq) # "write_ok" => (HasOk(ioq) => HasOk(ioq'))
    BY <1>13, TakenIn DEF Dispatch, HasOk
  <2>3. HasTimer(ioq) => HasTimer(ioq')
    BY <1>13, <2>1, TakenIn DEF Dispatch, HasTimer
  <2>4. Head(ioq) = "write_ok" => pc'[Loop] = "sent"
    BY <1>13 DEF Dispatch, FirstLabel
  <2>5. pc'[Loop] \notin {"disarm", "cancel"}
    BY <1>13, <2>1 DEF Dispatch, FirstLabel, Events
  <2> QED
    BY <1>13, <2>2, <2>3, <2>4, <2>5 DEF Dispatch
<1>14. CASE ReqSent
  BY <1>14 DEF ReqSent, Notified
<1>15. CASE ReqDone
  BY <1>15 DEF ReqDone
<1>16. CASE SocketErrorAgain
  BY <1>16 DEF SocketErrorAgain, FirstError
<1>17. CASE SocketError
  BY <1>17 DEF SocketError
<1>18. CASE Drain
  BY <1>18 DEF Drain
<1>19. CASE ParseReply
  BY <1>19 DEF ParseReply
<1>20. CASE ParseUnexpected
  BY <1>20 DEF ParseUnexpected
<1>21. CASE ParseNothing
  BY <1>21 DEF ParseNothing
<1>22. CASE Callback
  BY <1>22 DEF Callback
<1>23. CASE WorkDone
  BY <1>23 DEF WorkDone, LastReply
<1>24. CASE NextReply
  BY <1>24 DEF NextReply, LastReply
<1>25. CASE TailBusy
  <2>1. ~error => conn # "closed" \/ \E e \in Events : ioq' = Append(ioq, e)
    BY <1>25 DEF TailBusy, ReadAgain, Events
  <2>2. (HasOk(ioq) => HasOk(ioq')) /\ (HasTimer(ioq) => HasTimer(ioq'))
    <3>1. ioq' = ioq \/ \E e \in Events : ioq' = Append(ioq, e)
      BY <1>25 DEF TailBusy, ReadAgain, Events
    <3> QED
      BY <3>1, QueuePosts
  <2> QED
    BY <1>25, <2>2 DEF TailBusy
<1>26. CASE TailIdle
  <2> SUFFICES ASSUME ~error
               PROVE  wire = <<>>
    BY <1>26 DEF TailIdle
  <2>1. \A t \in Threads : pc[t] # "add_query"
    <3> SUFFICES ASSUME NEW t \in Threads, pc[t] = "add_query"
                 PROVE  FALSE
      OBVIOUS
    <3>1. cb_queue = Append(Flow, arg[t]) /\ Flow \in Seq(Query) /\ arg[t] \in Query
      BY FlowTypes DEF OrderOK, ArgOK, PushingLabels
    <3>2. Append(Flow, arg[t]) # <<>>
      BY <3>1
    <3> QED
      BY <1>26, <3>1, <3>2 DEF TailIdle
  <2>2. Flow = <<>>
    BY <1>26, <2>1 DEF TailIdle, OrderOK
  <2> QED
    BY <2>2, EmptyFlow
<1>27. CASE Disarm
  BY <1>27 DEF Disarm
<1>28. CASE Cancel
  <2>1. ~error => conn # "closed" \/ \E e \in Events : ioq' = Append(ioq, e)
    BY <1>28 DEF Cancel, ReadAgain, Events
  <2>2. (HasOk(ioq) => HasOk(ioq')) /\ (HasTimer(ioq) => HasTimer(ioq'))
    <3>1. ioq' = ioq \/ \E e \in Events : ioq' = Append(ioq, e)
      BY <1>28 DEF Cancel, ReadAgain, Events
    <3> QED
      BY <3>1, QueuePosts
  <2> QED
    BY <1>28, <2>2 DEF Cancel
<1>29. CASE
        \/ Stop
        \/ StopCheck
        \/ StopWait
        \/ Destroy
  BY <1>29 DEF Stop, StopCheck, StopWait, Destroy
<1>30. CASE \E n \in 1..Unsent : WriteDone(n)
  BY <1>30 DEF WriteDone
<1>31. CASE \E n \in 0..Len(net) : ReadDone(n)
  <2>1. "read_ok" \in Events
    BY DEF Events
  <2>2. (HasOk(ioq) => HasOk(ioq')) /\ (HasTimer(ioq) => HasTimer(ioq'))
    BY <1>31, <2>1, QueuePosts DEF ReadDone
  <2> QED
    BY <1>31, <2>2 DEF ReadDone
<1>32. CASE WritePosted
  <2>1. "write_ok" \in Events
    BY DEF Events
  <2>2. HasOk(ioq') /\ (HasOk(ioq) => HasOk(ioq')) /\ (HasTimer(ioq) => HasTimer(ioq'))
    BY <1>32, <2>1, QueuePosts DEF WritePosted
  <2> QED
    BY <1>32, <2>2 DEF WritePosted
<1>33. CASE WriteFails
  <2>1. "write_err" \in Events
    BY DEF Events
  <2>2. (HasOk(ioq) => HasOk(ioq')) /\ (HasTimer(ioq) => HasTimer(ioq'))
    BY <1>33, <2>1, QueuePosts DEF WriteFails
  <2> QED
    BY <1>33, <2>2 DEF WriteFails
<1>34. CASE Reply
  BY <1>34 DEF Reply
<1>35. CASE ReadFails
  <2>1. "read_err" \in Events
    BY DEF Events
  <2>2. (HasOk(ioq) => HasOk(ioq')) /\ (HasTimer(ioq) => HasTimer(ioq'))
    BY <1>35, <2>1, QueuePosts DEF ReadFails
  <2> QED
    BY <1>35, <2>2 DEF ReadFails
<1>36. CASE Break
  BY <1>36 DEF Break
<1>37. CASE TimerExpires
  <2>1. "timer" \in Events
    BY DEF Events
  <2>2. (HasOk(ioq) => HasOk(ioq')) /\ (HasTimer(ioq) => HasTimer(ioq')) /\ HasTimer(ioq')
    BY <1>37, <2>1, QueuePosts DEF TimerExpires
  <2> QED
    BY <1>37, <2>2 DEF TimerExpires
<1>38. CASE UNCHANGED vars
  BY <1>38
<1> QED
  BY <1>1, <1>2, <1>3, <1>4, <1>5, <1>6, <1>7, <1>8, <1>9, <1>10, <1>11, <1>12,
     <1>13, <1>14, <1>15, <1>16, <1>17, <1>18, <1>19, <1>20, <1>21, <1>22, <1>23, <1>24,
     <1>25, <1>26, <1>27, <1>28, <1>29, <1>30, <1>31, <1>32, <1>33, <1>34, <1>35, <1>36,
     <1>37, <1>38
     DEF Next, PushStep, LoopStep, OwnerStep, Threads

(* No thread that is about to write, and no outstanding write, has bytes that *)
(* a handler still has to report.                                           *)
LEMMA NothingToReport ==
  ASSUME TypeOK, OneWriter, BytesOK
  PROVE  /\ writing = "pending" => bytes_sent = 0
         /\ \A t \in Threads : pc[t] = "write" => bytes_sent = 0
<1> USE ThreadAssumption DEF Threads, OneWriter, BytesOK, Sending, ReqLabels
<1>1. HasOk(ioq) => HasWrite(ioq)
  BY DEF HasOk, HasWrite, IsWrite
<1>2. writing = "pending" => bytes_sent = 0
  BY <1>1
<1>3. ASSUME NEW t \in Threads, pc[t] = "write"
      PROVE  bytes_sent = 0
  BY <1>1, <1>3
<1> QED
  BY <1>2, <1>3

(* The frozen block does not change under a write that has not succeeded.   *)
LEMMA LeftStep ==
  ASSUME TypeOK, OneWriter, BytesOK, WriteLeft, [Next]_vars
  PROVE  WriteLeft'
<1> USE ThreadAssumption DEF TypeOK, ThreadsTypeOK, FlagsTypeOK, BufferTypeOK,
                             LinkTypeOK, WriteLeft, Threads
<1>1. CASE \E t \in Clients, q \in Query : CallPush(t, q)
  BY <1>1 DEF CallPush
<1>2. CASE \E t \in Threads : PushIgnored(t)
  BY <1>2 DEF PushIgnored, Return
<1>3. CASE \E t \in Threads : PushWait(t)
  BY <1>3 DEF PushWait
<1>4. CASE \E t \in Threads : PushCallback(t)
  BY <1>4 DEF PushCallback
<1>5. CASE \E t \in Threads : AddQuery(t)
  BY <1>5 DEF AddQuery
<1>6. CASE \E t \in Threads : CompareExchange(t)
  BY <1>6 DEF CompareExchange, Return
<1>7. CASE \E t \in Threads : NothingToSend(t)
  BY <1>7 DEF NothingToSend
<1>8. CASE \E t \in Threads : Unset(t)
  BY <1>8 DEF Unset, Return
<1>9. CASE \E t \in Threads : TimerCheck(t)
  BY <1>9 DEF TimerCheck
<1>10. CASE \E t \in Threads : TimerStart(t)
  BY <1>10 DEF TimerStart
<1>11. CASE \E t \in Threads : GetBuffer(t)
  <2> PICK t \in Threads : GetBuffer(t)
    BY <1>11
  <2>1. writing = "no" /\ ~HasWrite(ioq)
    BY DEF GetBuffer, OneWriter, Sending, ReqLabels
  <2>2. ~HasErr(ioq)
    BY <2>1 DEF HasErr, HasWrite, IsWrite
  <2> QED
    BY <2>1, <2>2 DEF GetBuffer
<1>12. CASE \E t \in Threads : Write(t)
  <2> PICK t \in Threads : Write(t)
    BY <1>12
  <2>1. pc[t] = "write" /\ writing = "no" /\ bytes_sent = 0 /\ ~HasWrite(ioq)
    BY NothingToReport DEF Write, OneWriter, Sending, ReqLabels
  <2>2. ~HasErr(ioq)
    BY <2>1 DEF HasErr, HasWrite, IsWrite
  <2>3. /\ "write_ok" \in Events /\ "write_err" \in Events
        /\ (ioq' = Append(ioq, "write_ok") => ~HasErr(ioq'))
    BY <2>2, QueuePosts DEF Events
  <2> QED
    BY <2>1, <2>2, <2>3 DEF Write
<1>13. CASE Dispatch
  <2>1. HasErr(ioq') => HasErr(ioq)
    BY <1>13, TakenIn DEF Dispatch, HasErr
  <2> QED
    BY <1>13, <2>1 DEF Dispatch
<1>14. CASE ReqSent
  <2>1. writing = "no" /\ ~HasWrite(ioq)
    BY <1>14 DEF ReqSent, OneWriter, Sending, ReqLabels
  <2>2. ~HasErr(ioq)
    BY <2>1 DEF HasErr, HasWrite, IsWrite
  <2> QED
    BY <1>14, <2>1, <2>2 DEF ReqSent
<1>15. CASE ReqDone
  BY <1>15 DEF ReqDone
<1>16. CASE SocketErrorAgain
  BY <1>16 DEF SocketErrorAgain, FirstError
<1>17. CASE SocketError
  BY <1>17 DEF SocketError
<1>18. CASE Drain
  BY <1>18 DEF Drain
<1>19. CASE ParseReply
  BY <1>19 DEF ParseReply
<1>20. CASE ParseUnexpected
  BY <1>20 DEF ParseUnexpected
<1>21. CASE ParseNothing
  BY <1>21 DEF ParseNothing
<1>22. CASE Callback
  BY <1>22 DEF Callback
<1>23. CASE WorkDone
  BY <1>23 DEF WorkDone, LastReply
<1>24. CASE NextReply
  BY <1>24 DEF NextReply, LastReply
<1>25. CASE TailBusy
  <2>1. ioq' = ioq \/ ioq' = Append(ioq, "read_err")
    BY <1>25 DEF TailBusy, ReadAgain
  <2>2. HasErr(ioq') <=> HasErr(ioq)
    BY <2>1, QueuePosts DEF Events
  <2> QED
    BY <1>25, <2>2 DEF TailBusy
<1>26. CASE TailIdle
  BY <1>26 DEF TailIdle
<1>27. CASE Disarm
  BY <1>27 DEF Disarm
<1>28. CASE Cancel
  <2>1. ioq' = ioq \/ ioq' = Append(ioq, "read_err")
    BY <1>28 DEF Cancel, ReadAgain
  <2>2. HasErr(ioq') <=> HasErr(ioq)
    BY <2>1, QueuePosts DEF Events
  <2> QED
    BY <1>28, <2>2 DEF Cancel
<1>29. CASE
        \/ Stop
        \/ StopCheck
        \/ StopWait
        \/ Destroy
  BY <1>29 DEF Stop, StopCheck, StopWait, Destroy
<1>30. CASE \E n \in 1..Unsent : WriteDone(n)
  <2>1. writing = "pending" /\ writing' = "done" /\ ioq' = ioq
    BY <1>30 DEF WriteDone
  <2>2. ~HasErr(ioq)
    BY <2>1 DEF HasErr, OneWriter, HasWrite, IsWrite
  <2> QED
    BY <2>1, <2>2
<1>31. CASE \E n \in 0..Len(net) : ReadDone(n)
  <2>1. "read_ok" \in Events
    BY DEF Events
  <2>2. HasErr(ioq') <=> HasErr(ioq)
    BY <1>31, <2>1, QueuePosts DEF ReadDone
  <2> QED
    BY <1>31, <2>2 DEF ReadDone
<1>32. CASE WritePosted
  <2>1. "write_ok" \in Events
    BY DEF Events
  <2>2. HasErr(ioq') <=> HasErr(ioq)
    BY <1>32, <2>1, QueuePosts DEF WritePosted
  <2> QED
    BY <1>32, <2>2 DEF WritePosted
<1>33. CASE WriteFails
  <2>1. writing = "pending" /\ writing' = "no"
    BY <1>33 DEF WriteFails
  <2> QED
    BY <1>33, <2>1 DEF WriteFails
<1>34. CASE Reply
  BY <1>34 DEF Reply
<1>35. CASE ReadFails
  <2>1. "read_err" \in Events
    BY DEF Events
  <2>2. HasErr(ioq') <=> HasErr(ioq)
    BY <1>35, <2>1, QueuePosts DEF ReadFails
  <2> QED
    BY <1>35, <2>2 DEF ReadFails
<1>36. CASE Break
  BY <1>36 DEF Break
<1>37. CASE TimerExpires
  <2>1. "timer" \in Events
    BY DEF Events
  <2>2. HasErr(ioq') <=> HasErr(ioq)
    BY <1>37, <2>1, QueuePosts DEF TimerExpires
  <2> QED
    BY <1>37, <2>2 DEF TimerExpires
<1>38. CASE UNCHANGED vars
  BY <1>38
<1> QED
  BY <1>1, <1>2, <1>3, <1>4, <1>5, <1>6, <1>7, <1>8, <1>9, <1>10, <1>11, <1>12,
     <1>13, <1>14, <1>15, <1>16, <1>17, <1>18, <1>19, <1>20, <1>21, <1>22, <1>23, <1>24,
     <1>25, <1>26, <1>27, <1>28, <1>29, <1>30, <1>31, <1>32, <1>33, <1>34, <1>35, <1>36,
     <1>37, <1>38
     DEF Next, PushStep, LoopStep, OwnerStep, Threads

(* The last reply is the last thing that happens to a processor that stops:  *)
(* there is no other read, and, as every reply has come, no write.          *)
LEMMA LastReplyStep ==
  ASSUME TypeOK, ArgOK, OneWriter, BytesOK, OrderOK, StopOK, ReaderOK, WriteLeft, LastReplyOK,
         [Next]_vars
  PROVE  LastReplyOK'
<1> USE ThreadAssumption, QueryAssumption
    DEF TypeOK, ThreadsTypeOK, CallbacksTypeOK, FlagsTypeOK, LinkTypeOK, ReaderOK, LastReplyOK,
        Replying, ReadLabels, PushLabels, Threads
<1>1. CASE \E t \in Clients, q \in Query : CallPush(t, q)
  BY <1>1 DEF CallPush
<1>2. CASE \E t \in Threads : PushIgnored(t)
  BY <1>2 DEF PushIgnored, Return
<1>3. CASE \E t \in Threads : PushWait(t)
  BY <1>3 DEF PushWait
<1>4. CASE \E t \in Threads : PushCallback(t)
  BY <1>4 DEF PushCallback
<1>5. CASE \E t \in Threads : AddQuery(t)
  BY <1>5 DEF AddQuery
<1>6. CASE \E t \in Threads : CompareExchange(t)
  BY <1>6 DEF CompareExchange, Return
<1>7. CASE \E t \in Threads : NothingToSend(t)
  BY <1>7 DEF NothingToSend
<1>8. CASE \E t \in Threads : Unset(t)
  BY <1>8 DEF Unset, Return
<1>9. CASE \E t \in Threads : TimerCheck(t)
  BY <1>9 DEF TimerCheck
<1>10. CASE \E t \in Threads : TimerStart(t)
  BY <1>10 DEF TimerStart
<1>11. CASE \E t \in Threads : GetBuffer(t)
  BY <1>11 DEF GetBuffer
<1>12. CASE \E t \in Threads : Write(t)
  <2> PICK t \in Threads : Write(t)
    BY <1>12
  <2> SUFFICES ASSUME promise, ~error
               PROVE  /\ ~reading' /\ ~HasRead(ioq') /\ ~Replying' /\ pc'[Loop] # "error"
                      /\ writing' # "pending" /\ ~HasErr(ioq')
    BY DEF Write
  <2>1. Flow = <<>> /\ bytes_sent = 0 /\ sended + bytes_sent = Len(frozen)
    BY EmptyFlow, NothingToReport DEF StopOK, OrderOK, Write
  <2>2. ioq' = Append(ioq, "write_ok") /\ writing' = writing /\ reading' = reading
    BY <2>1 DEF Write, BufferTypeOK
  <2>3. "write_ok" \in Events
    BY DEF Events
  <2>4. ~HasErr(ioq') /\ ~HasRead(ioq')
    BY <2>2, <2>3, QueuePosts, ReadAppended DEF IsRead
  <2>5. ~Replying' /\ pc'[Loop] # "error"
    BY DEF Write, Return
  <2> QED
    BY <2>2, <2>4, <2>5
<1>13. CASE Dispatch
  <2> SUFFICES ASSUME promise, ~error
               PROVE  /\ ~reading' /\ ~HasRead(ioq') /\ ~Replying' /\ pc'[Loop] # "error"
                      /\ writing' # "pending" /\ ~HasErr(ioq')
    BY <1>13 DEF Dispatch
  <2>1. ~HasRead(ioq') /\ ~IsRead(Head(ioq)) /\ Head(ioq) \in Events
    BY <1>13, ReadTaken DEF Dispatch
  <2>2. ~HasErr(ioq') /\ Head(ioq) # "write_err"
    BY <1>13, TakenIn DEF Dispatch, HasErr
  <2>3. pc'[Loop] \in {"sent", "idle"}
    BY <1>13, <2>1, <2>2 DEF Dispatch, FirstLabel, Events, IsRead
  <2> QED
    BY <1>13, <2>1, <2>2, <2>3 DEF Dispatch
<1>14. CASE ReqSent
  BY <1>14 DEF ReqSent, Notified
<1>15. CASE ReqDone
  BY <1>15 DEF ReqDone
<1>16. CASE SocketErrorAgain
  BY <1>16 DEF SocketErrorAgain, FirstError
<1>17. CASE SocketError
  BY <1>17 DEF SocketError
<1>18. CASE Drain
  BY <1>18 DEF Drain
<1>19. CASE ParseReply
  <2>1. pc[Loop] \in ReadLabels
    BY <1>19 DEF ParseReply
  <2> QED
    BY <1>19, <2>1 DEF ParseReply
<1>20. CASE ParseUnexpected
  <2>1. pc[Loop] \in ReadLabels
    BY <1>20 DEF ParseUnexpected
  <2> QED
    BY <1>20, <2>1 DEF ParseUnexpected
<1>21. CASE ParseNothing
  <2>1. pc[Loop] \in ReadLabels
    BY <1>21 DEF ParseNothing
  <2> QED
    BY <1>21, <2>1 DEF ParseNothing
<1>22. CASE Callback
  <2>1. pc[Loop] \in ReadLabels
    BY <1>22 DEF Callback
  <2> QED
    BY <1>22, <2>1 DEF Callback
<1>23. CASE WorkDone
  <2> SUFFICES ASSUME ~error
               PROVE  /\ ~reading' /\ ~HasRead(ioq') /\ ~Replying' /\ pc'[Loop] # "error"
                      /\ writing' # "pending" /\ ~HasErr(ioq')
    BY <1>23 DEF WorkDone
  <2>1. ~reading /\ ~HasRead(ioq) /\ arg[Loop] = NoQuery /\ pc[Loop] = "cb_done"
    BY <1>23 DEF WorkDone
  <2>2. Flow = <<>>
    <3>1. \A t \in Threads : pc[t] # "add_query"
      <4> SUFFICES ASSUME NEW t \in Threads, pc[t] = "add_query"
                   PROVE  FALSE
        OBVIOUS
      <4>1. cb_queue = Append(Flow, arg[t]) /\ Flow \in Seq(Query) /\ arg[t] \in Query
        BY FlowTypes DEF OrderOK, ArgOK, PushingLabels
      <4>2. Append(Flow, arg[t]) # <<>>
        BY SMTT(20), <4>1
      <4> QED
        BY <1>23, <4>1, <4>2 DEF WorkDone, LastReply
    <3> QED
      BY <1>23, <3>1 DEF WorkDone, LastReply, OrderOK
  <2>3. sended + bytes_sent = Len(frozen)
    BY <2>2, EmptyFlow
  <2>4. writing # "pending" /\ ~HasErr(ioq)
    BY <2>3 DEF WriteLeft, BufferTypeOK
  <2> QED
    BY <1>23, <2>1, <2>4 DEF WorkDone
<1>24. CASE NextReply
  <2>1. pc[Loop] \in ReadLabels
    BY <1>24 DEF NextReply
  <2> QED
    BY <1>24, <2>1 DEF NextReply
<1>25. CASE TailBusy
  <2>1. pc[Loop] \in ReadLabels
    BY <1>25 DEF TailBusy
  <2> QED
    BY <1>25, <2>1 DEF TailBusy
<1>26. CASE TailIdle
  <2>1. pc[Loop] \in ReadLabels
    BY <1>26 DEF TailIdle
  <2> QED
    BY <1>26, <2>1 DEF TailIdle
<1>27. CASE Disarm
  <2>1. pc[Loop] \in ReadLabels
    BY <1>27 DEF Disarm
  <2> QED
    BY <1>27, <2>1 DEF Disarm
<1>28. CASE Cancel
  <2>1. pc[Loop] \in ReadLabels
    BY <1>28 DEF Cancel
  <2> QED
    BY <1>28, <2>1 DEF Cancel
<1>29. CASE
        \/ Stop
        \/ StopCheck
        \/ StopWait
        \/ Destroy
  BY <1>29 DEF Stop, StopCheck, StopWait, Destroy
<1>30. CASE \E n \in 1..Unsent : WriteDone(n)
  BY <1>30 DEF WriteDone
<1>31. CASE \E n \in 0..Len(net) : ReadDone(n)
  BY <1>31 DEF ReadDone
<1>32. CASE WritePosted
  <2>1. "write_ok" \in Events
    BY DEF Events
  <2>2. HasErr(ioq') <=> HasErr(ioq)
    BY <1>32, <2>1, QueuePosts DEF WritePosted
  <2>3. ioq' = Append(ioq, "write_ok") /\ ~IsRead("write_ok")
    BY <1>32 DEF WritePosted, IsRead
  <2>4. HasRead(ioq') <=> HasRead(ioq)
    BY <2>1, <2>3, ReadAppended
  <2> QED
    BY <1>32, <2>2, <2>4 DEF WritePosted
<1>33. CASE WriteFails
  BY <1>33 DEF WriteFails
<1>34. CASE Reply
  BY <1>34 DEF Reply
<1>35. CASE ReadFails
  BY <1>35 DEF ReadFails
<1>36. CASE Break
  BY <1>36 DEF Break
<1>37. CASE TimerExpires
  <2>1. "timer" \in Events
    BY DEF Events
  <2>2. HasErr(ioq') <=> HasErr(ioq)
    BY <1>37, <2>1, QueuePosts DEF TimerExpires
  <2>3. ioq' = Append(ioq, "timer") /\ ~IsRead("timer")
    BY <1>37 DEF TimerExpires, IsRead
  <2>4. HasRead(ioq') <=> HasRead(ioq)
    BY <2>1, <2>3, ReadAppended
  <2> QED
    BY <1>37, <2>2, <2>4 DEF TimerExpires
<1>38. CASE UNCHANGED vars
  BY <1>38
<1> QED
  BY <1>1, <1>2, <1>3, <1>4, <1>5, <1>6, <1>7, <1>8, <1>9, <1>10, <1>11, <1>12,
     <1>13, <1>14, <1>15, <1>16, <1>17, <1>18, <1>19, <1>20, <1>21, <1>22, <1>23, <1>24,
     <1>25, <1>26, <1>27, <1>28, <1>29, <1>30, <1>31, <1>32, <1>33, <1>34, <1>35, <1>36,
     <1>37, <1>38
     DEF Next, PushStep, LoopStep, OwnerStep, Threads

(* With room for every query at once nobody has to wait: what is in the      *)
(* buffer has a callback in the queue, no query has two, and the query that *)
(* is being pushed has none yet.                                            *)
LEMMA RoomForOne ==
  ASSUME IInv, UniqueOK, IsFiniteSet(Query), Cardinality(Query) < MaxBuff, ~error,
         NEW t \in Threads, pc[t] \in {"lock", "relock"}, mux = NoThread
  PROVE  ~Overflow
<1> USE ThreadAssumption, QueryAssumption, BuffAssumption DEF Threads
<1>1. /\ TypeOK /\ ArgOK /\ OneWriter /\ BytesOK /\ MutexOK /\ OrderOK
      /\ cb_queue \in Seq(Query) /\ buff \in Seq(Query) /\ arg[t] \in Query
  BY DEF IInv, TypeOK, CallbacksTypeOK, BufferTypeOK, ArgOK, PushingLabels
<1>2. \A u \in Threads : pc[u] # "add_query"
  BY <1>1 DEF MutexOK, Admitted
<1>3. cb_queue = Flow
  BY <1>1, <1>2 DEF OrderOK
<1>4. Len(buff) <= Len(cb_queue)
  <2> DEFINE rest == input \o net \o wire \o Unreported
  <2>1. rest \in Seq(Query) /\ Flow = rest \o buff
    BY <1>1, FlowTypes
  <2> HIDE DEF rest
  <2> QED
    BY <1>1, <1>3, <2>1
<1> DEFINE n == Len(cb_queue)
           Others == Query \ {arg[t]}
<1>5. n \in Nat /\ IsFiniteSet(1..n) /\ Cardinality(1..n) = n
  <2>1. n \in Nat /\ 1 \in Int /\ n \in Int
    BY <1>1
  <2>2. IsFiniteSet(1..n) /\ Cardinality(1..n) = IF 1 > n THEN 0 ELSE n - 1 + 1
    BY <2>1, FS_Interval
  <2> QED
    BY <2>1, <2>2
<1>6. /\ IsFiniteSet(Others) /\ Cardinality(Others) = Cardinality(Query) - 1
      /\ Cardinality(Query) \in Nat /\ Cardinality(Others) \in Nat
  BY <1>1, FS_RemoveElement, FS_CardinalityType
<1>7. cb_queue \in [1..n -> Others]
  <2>1. \A i \in 1..n : cb_queue[i] \in Query /\ cb_queue[i] # arg[t]
    BY <1>1 DEF UniqueOK, Unaccepted, Queued
  <2> QED
    BY <1>1, <2>1
<1>8. \A i, j \in 1..n : i # j => cb_queue[i] # cb_queue[j]
  BY <1>1 DEF UniqueOK
<1> HIDE DEF n, Others
<1>9. ~(Cardinality(Others) < Cardinality(1..n))
  <2> SUFFICES ASSUME Cardinality(Others) < Cardinality(1..n)
               PROVE  FALSE
    OBVIOUS
  <2>1. \E i, j \in 1..n : i # j /\ cb_queue[i] = cb_queue[j]
    BY <1>5, <1>6, <1>7, FS_PigeonHole
  <2> QED
    BY <2>1, <1>8
<1>10. n <= Cardinality(Query) - 1
  BY <1>5, <1>6, <1>9
<1>11. Len(buff) + 1 < MaxBuff
  BY <1>1, <1>4, <1>5, <1>6, <1>10 DEF n
<1> QED
  BY <1>11 DEF Overflow

(* With room for every query the test for room never fails. *)
LEMMA NobodyWaitsStep ==
  ASSUME IInv, UniqueOK, ClosedOK, NobodyWaits, IsFiniteSet(Query), Cardinality(Query) < MaxBuff,
         [Next]_vars
  PROVE  NobodyWaits'
<1> USE ThreadAssumption DEF IInv, TypeOK, ThreadsTypeOK, NobodyWaits, Threads
<1>1. CASE \E t \in Clients, q \in Query : CallPush(t, q)
  BY <1>1 DEF CallPush
<1>2. CASE \E t \in Threads : PushIgnored(t)
  BY <1>2 DEF PushIgnored, Return
<1>3. CASE \E t \in Threads : PushWait(t)
  <2> PICK t \in Threads : PushWait(t)
    BY <1>3
  <2>1. ~error
    BY DEF PushWait, ClosedOK
  <2>2. ~Overflow
    BY <2>1, RoomForOne DEF PushWait
  <2> QED
    BY <2>2 DEF PushWait
<1>4. CASE \E t \in Threads : PushCallback(t)
  BY <1>4 DEF PushCallback
<1>5. CASE \E t \in Threads : AddQuery(t)
  BY <1>5 DEF AddQuery
<1>6. CASE
        \/ \E t \in Threads : CompareExchange(t)
        \/ \E t \in Threads : NothingToSend(t)
        \/ \E t \in Threads : Unset(t)
        \/ \E t \in Threads : TimerCheck(t)
        \/ \E t \in Threads : TimerStart(t)
        \/ \E t \in Threads : GetBuffer(t)
        \/ \E t \in Threads : Write(t)
  BY <1>6 DEF CompareExchange, Return, NothingToSend, Unset, TimerCheck, TimerStart,
              GetBuffer, Write
<1>7. CASE Dispatch
  BY <1>7 DEF Dispatch, FirstLabel, LinkTypeOK, Events
<1>8. CASE ReqSent
  BY <1>8 DEF ReqSent, Notified
<1>9. CASE
        \/ ReqDone
        \/ SocketErrorAgain
  BY <1>9 DEF ReqDone, SocketErrorAgain, FirstError
<1>10. CASE SocketError
  BY <1>10 DEF SocketError, FirstError, Notified
<1>11. CASE Drain
  BY <1>11 DEF Drain
<1>12. CASE ParseReply
  BY <1>12 DEF ParseReply
<1>13. CASE
        \/ ParseUnexpected
        \/ ParseNothing
        \/ NextReply
  BY <1>13 DEF ParseUnexpected, ParseNothing, NextReply, LastReply
<1>14. CASE Callback
  BY <1>14 DEF Callback
<1>15. CASE WorkDone
  BY <1>15 DEF WorkDone, LastReply
<1>16. CASE
        \/ TailBusy
        \/ TailIdle
        \/ Disarm
        \/ Cancel
  BY <1>16 DEF TailBusy, ReadAgain, TailIdle, Disarm, Cancel
<1>17. CASE
        \/ Stop
        \/ StopCheck
        \/ StopWait
        \/ Destroy
  BY <1>17 DEF Stop, StopCheck, StopWait, Destroy
<1>18. CASE
        \/ \E n \in 1..Unsent : WriteDone(n)
        \/ \E n \in 0..Len(net) : ReadDone(n)
        \/ WritePosted
        \/ WriteFails
        \/ Reply
        \/ ReadFails
        \/ Break
        \/ TimerExpires
  BY <1>18 DEF WriteDone, ReadDone, WritePosted, WriteFails, Reply, ReadFails,
               Break, TimerExpires
<1>19. CASE UNCHANGED vars
  BY <1>19
<1> QED
  BY <1>1, <1>2, <1>3, <1>4, <1>5, <1>6, <1>7, <1>8, <1>9, <1>10, <1>11, <1>12,
     <1>13, <1>14, <1>15, <1>16, <1>17, <1>18, <1>19
     DEF Next, PushStep, LoopStep, OwnerStep, Threads

(* The error comes when nobody is inside push() with the mutex, and closes  *)
(* the processor to those that come later.                                  *)
LEMMA LostStep ==
  ASSUME TypeOK, ArgOK, MutexOK, ReaderOK, ClosedOK, NobodyWaits, LostOK, [Next]_vars
  PROVE  LostOK'
<1> USE ThreadAssumption, QueryAssumption
    DEF TypeOK, ThreadsTypeOK, CallbacksTypeOK, FlagsTypeOK, ClosedOK, NobodyWaits, LostOK, Admitted,
        Threads
<1>1. CASE \E t \in Clients, q \in Query : CallPush(t, q)
  BY <1>1 DEF CallPush
<1>2. CASE \E t \in Threads : PushIgnored(t)
  BY <1>2 DEF PushIgnored, Return
<1>3. CASE \E t \in Threads : PushWait(t)
  BY <1>3 DEF PushWait
<1>4. CASE \E t \in Threads : PushCallback(t)
  BY <1>4 DEF PushCallback
<1>5. CASE \E t \in Threads : AddQuery(t)
  BY <1>5 DEF AddQuery
<1>6. CASE \E t \in Threads : CompareExchange(t)
  BY <1>6 DEF CompareExchange, Return
<1>7. CASE \E t \in Threads : NothingToSend(t)
  BY <1>7 DEF NothingToSend
<1>8. CASE \E t \in Threads : Unset(t)
  BY <1>8 DEF Unset, Return
<1>9. CASE \E t \in Threads : TimerCheck(t)
  BY <1>9 DEF TimerCheck
<1>10. CASE \E t \in Threads : TimerStart(t)
  BY <1>10 DEF TimerStart
<1>11. CASE \E t \in Threads : GetBuffer(t)
  BY <1>11 DEF GetBuffer
<1>12. CASE \E t \in Threads : Write(t)
  BY <1>12 DEF Write, Return
<1>13. CASE Dispatch
  BY <1>13 DEF Dispatch, FirstLabel, LinkTypeOK, Events
<1>14. CASE ReqSent
  BY <1>14 DEF ReqSent, Notified
<1>15. CASE
        \/ ReqDone
        \/ SocketErrorAgain
  BY <1>15 DEF ReqDone, SocketErrorAgain, FirstError
<1>16. CASE SocketError
  <2>1. \A t \in Threads : pc[t] \notin Admitted
    BY <1>16 DEF SocketError, MutexOK
  <2>2. arg[Loop] = NoQuery
    BY <1>16 DEF SocketError, ReaderOK, PushLabels
  <2> QED
    BY <1>16, <2>1, <2>2 DEF SocketError, Notified
<1>17. CASE Drain
  BY <1>17 DEF Drain
<1>18. CASE ParseReply
  BY <1>18 DEF ParseReply
<1>19. CASE
        \/ ParseUnexpected
        \/ ParseNothing
        \/ NextReply
  BY <1>19 DEF ParseUnexpected, ParseNothing, NextReply, LastReply
<1>20. CASE Callback
  BY <1>20 DEF Callback
<1>21. CASE WorkDone
  BY <1>21 DEF WorkDone, LastReply
<1>22. CASE
        \/ TailBusy
        \/ TailIdle
        \/ Disarm
        \/ Cancel
  BY <1>22 DEF TailBusy, ReadAgain, TailIdle, Disarm, Cancel
<1>23. CASE
        \/ Stop
        \/ StopCheck
        \/ StopWait
        \/ Destroy
  BY <1>23 DEF Stop, StopCheck, StopWait, Destroy
<1>24. CASE
        \/ \E n \in 1..Unsent : WriteDone(n)
        \/ \E n \in 0..Len(net) : ReadDone(n)
        \/ WritePosted
        \/ WriteFails
        \/ Reply
        \/ ReadFails
        \/ Break
        \/ TimerExpires
  BY <1>24 DEF WriteDone, ReadDone, WritePosted, WriteFails, Reply, ReadFails,
               Break, TimerExpires
<1>25. CASE UNCHANGED vars
  BY <1>25
<1> QED
  BY <1>1, <1>2, <1>3, <1>4, <1>5, <1>6, <1>7, <1>8, <1>9, <1>10, <1>11, <1>12,
     <1>13, <1>14, <1>15, <1>16, <1>17, <1>18, <1>19, <1>20, <1>21, <1>22, <1>23, <1>24,
     <1>25
     DEF Next, PushStep, LoopStep, OwnerStep, Threads

(* No callback is called with a reply after the error. *)
LEMMA OwnAnswerStep ==
  ASSUME TypeOK, OrderOK, OrderOK', LostOK, OwnAnswer, [Next]_vars
  PROVE  OwnAnswer'
<1> USE DEF TypeOK, CallbacksTypeOK, OwnAnswer, Ignored, Disconnected
<1>1. CASE \E t \in Clients, q \in Query : CallPush(t, q)
  BY <1>1 DEF CallPush
<1>2. CASE \E t \in Threads : PushIgnored(t)
  BY <1>2 DEF PushIgnored, Return
<1>3. CASE
        \/ \E t \in Threads : PushWait(t)
        \/ \E t \in Threads : PushCallback(t)
        \/ \E t \in Threads : AddQuery(t)
        \/ \E t \in Threads : CompareExchange(t)
        \/ \E t \in Threads : NothingToSend(t)
        \/ \E t \in Threads : Unset(t)
        \/ \E t \in Threads : TimerCheck(t)
        \/ \E t \in Threads : TimerStart(t)
        \/ \E t \in Threads : GetBuffer(t)
        \/ \E t \in Threads : Write(t)
  BY <1>3 DEF PushWait, PushCallback, AddQuery, CompareExchange, Return,
              NothingToSend, Unset, TimerCheck, TimerStart, GetBuffer, Write
<1>4. CASE
        \/ Dispatch
        \/ ReqSent
  BY <1>4 DEF Dispatch, FirstLabel, ReqSent, Notified
<1>5. CASE
        \/ ReqDone
        \/ SocketErrorAgain
  BY <1>5 DEF ReqDone, SocketErrorAgain, FirstError
<1>6. CASE SocketError
  BY <1>6 DEF SocketError, FirstError, Notified
<1>7. CASE Drain
  BY <1>7 DEF Drain
<1>8. CASE ParseReply
  BY <1>8 DEF ParseReply
<1>9. CASE
        \/ ParseUnexpected
        \/ ParseNothing
        \/ NextReply
  BY <1>9 DEF ParseUnexpected, ParseNothing, NextReply, LastReply
<1>10. CASE Callback
  <2>1. ~error /\ pc[Loop] = "callback"
    BY <1>10 DEF Callback, LostOK
  <2>2. ~error'
    BY <1>10, <2>1 DEF Callback
  <2> QED
    BY <2>2 DEF OrderOK
<1>11. CASE WorkDone
  BY <1>11 DEF WorkDone, LastReply
<1>12. CASE
        \/ TailBusy
        \/ TailIdle
        \/ Disarm
        \/ Cancel
  BY <1>12 DEF TailBusy, ReadAgain, TailIdle, Disarm, Cancel
<1>13. CASE
        \/ Stop
        \/ StopCheck
        \/ StopWait
        \/ Destroy
  BY <1>13 DEF Stop, StopCheck, StopWait, Destroy
<1>14. CASE
        \/ \E n \in 1..Unsent : WriteDone(n)
        \/ \E n \in 0..Len(net) : ReadDone(n)
        \/ WritePosted
        \/ WriteFails
        \/ Reply
        \/ ReadFails
        \/ Break
        \/ TimerExpires
  BY <1>14 DEF WriteDone, ReadDone, WritePosted, WriteFails, Reply, ReadFails,
               Break, TimerExpires
<1>15. CASE UNCHANGED vars
  BY <1>15
<1> QED
  BY <1>1, <1>2, <1>3, <1>4, <1>5, <1>6, <1>7, <1>8, <1>9, <1>10, <1>11, <1>12,
     <1>13, <1>14, <1>15
     DEF Next, PushStep, LoopStep, OwnerStep, Threads

(* The promise is set by the last reply or by the error, whichever is first. *)
LEMMA PromiseStep ==
  ASSUME TypeOK, LastReplyOK, LostOK, PromiseOnce, [Next]_vars
  PROVE  PromiseOnce'
<1> USE DEF TypeOK, FlagsTypeOK, PromiseOnce, LastReplyOK, LostOK, Replying, ReadLabels
<1>1. CASE
        \/ \E t \in Clients, q \in Query : CallPush(t, q)
        \/ \E t \in Threads : PushIgnored(t)
        \/ \E t \in Threads : PushWait(t)
        \/ \E t \in Threads : PushCallback(t)
        \/ \E t \in Threads : AddQuery(t)
        \/ \E t \in Threads : CompareExchange(t)
        \/ \E t \in Threads : NothingToSend(t)
        \/ \E t \in Threads : Unset(t)
        \/ \E t \in Threads : TimerCheck(t)
        \/ \E t \in Threads : TimerStart(t)
        \/ \E t \in Threads : GetBuffer(t)
        \/ \E t \in Threads : Write(t)
  BY <1>1 DEF CallPush, PushIgnored, Return, PushWait, PushCallback, AddQuery,
              CompareExchange, NothingToSend, Unset, TimerCheck, TimerStart,
              GetBuffer, Write
<1>2. CASE Dispatch
  BY <1>2 DEF Dispatch, FirstLabel
<1>3. CASE ReqSent
  BY <1>3 DEF ReqSent, Notified
<1>4. CASE
        \/ ReqDone
        \/ SocketErrorAgain
  BY <1>4 DEF ReqDone, SocketErrorAgain, FirstError
<1>5. CASE SocketError
  BY <1>5 DEF SocketError, FirstError, Notified
<1>6. CASE
        \/ Drain
        \/ ParseReply
        \/ ParseUnexpected
        \/ ParseNothing
        \/ Callback
  BY <1>6 DEF Drain, ParseReply, ParseUnexpected, ParseNothing, Callback
<1>7. CASE WorkDone
  BY <1>7 DEF WorkDone, LastReply
<1>8. CASE
        \/ NextReply
        \/ TailBusy
        \/ TailIdle
        \/ Disarm
        \/ Cancel
  BY <1>8 DEF NextReply, LastReply, TailBusy, ReadAgain, TailIdle, Disarm, Cancel
<1>9. CASE
        \/ Stop
        \/ StopCheck
        \/ StopWait
        \/ Destroy
  BY <1>9 DEF Stop, StopCheck, StopWait, Destroy
<1>10. CASE
        \/ \E n \in 1..Unsent : WriteDone(n)
        \/ \E n \in 0..Len(net) : ReadDone(n)
        \/ WritePosted
        \/ WriteFails
        \/ Reply
        \/ ReadFails
        \/ Break
        \/ TimerExpires
  BY <1>10 DEF WriteDone, ReadDone, WritePosted, WriteFails, Reply, ReadFails,
               Break, TimerExpires
<1>11. CASE UNCHANGED vars
  BY <1>11
<1> QED
  BY <1>1, <1>2, <1>3, <1>4, <1>5, <1>6, <1>7, <1>8, <1>9, <1>10, <1>11
     DEF Next, PushStep, LoopStep, OwnerStep, Threads

-----------------------------------------------------------------------------
(* What a step does to the reads, the writes and the timer is all EndOK needs *)
(* in addition to IInv.                                                     *)
THEOREM EndInvariance == Spec => []EndOK
<1>1. Init => EndOK
  <2> USE ThreadAssumption, QueryAssumption DEF Init, Threads
  <2>1. Init => ReaderOK
    BY DEF ReaderOK, OneRead, HasRead, Replying, ReadLabels
  <2>2. Init => WriteLeft /\ LastReplyOK /\ ClosedOK /\ TimedOK
    BY DEF WriteLeft, HasErr, LastReplyOK, ClosedOK, TimedOK
  <2> QED
    BY <2>1, <2>2 DEF EndOK
<1>2. IInv /\ EndOK /\ [Next]_vars => EndOK'
  BY ReaderStep, LeftStep, LastReplyStep, ClosedStep, TimedStep DEF IInv, EndOK
<1> QED
  BY <1>1, <1>2, Invariance, PTL DEF Spec

(* When the event loop sleeps with a query on the wire of a live connection *)
(* the timer runs, although push() reads _timer_is_started without a lock   *)
(* while resp_handler clears it (__req_poc, __reset_timeout).               *)
THEOREM WireTimed == Spec => []WireIsTimed
<1>1. IInv /\ EndOK => WireIsTimed
  BY DEF IInv, EndOK, TypeOK, LinkTypeOK, ClosedOK, TimedOK, Reporting, HasOk,
         HasTimer, WireIsTimed,
         LoopAsleep
<1> QED
  BY <1>1, Invariance, EndInvariance, PTL

(* With room in the buffer for every query, RoomyInv is kept beside the     *)
(* invariants above.                                                        *)
THEOREM RoomyInvariance ==
  ASSUME IsFiniteSet(Query), Cardinality(Query) < MaxBuff
  PROVE  Spec => []RoomyInv
<1>1. Init => RoomyInv
  BY ThreadAssumption DEF Init, Threads, RoomyInv, NobodyWaits, LostOK, OwnAnswer,
                          Uncalled, PromiseOnce
<1>2. ServiceInv /\ ServiceInv' /\ EndOK /\ RoomyInv /\ [Next]_vars => RoomyInv'
  <2> SUFFICES ASSUME ServiceInv, ServiceInv', EndOK, RoomyInv, [Next]_vars
               PROVE  RoomyInv'
    OBVIOUS
  <2>1. IInv /\ UniqueOK /\ OrderOK' /\ EndOK /\ RoomyInv
    BY DEF ServiceInv, IInv
  <2>2. NobodyWaits' /\ LostOK'
    BY <2>1, NobodyWaitsStep, LostStep DEF IInv, EndOK, RoomyInv
  <2>3. OwnAnswer' /\ PromiseOnce'
    BY <2>1, OwnAnswerStep, PromiseStep DEF IInv, EndOK, RoomyInv
  <2> QED
    BY <2>2, <2>3 DEF RoomyInv
<1> QED
  BY <1>1, <1>2, ServiceInvariance, EndInvariance, PTL DEF Spec

(* A lost connection leaves no callback behind when no thread waits for     *)
(* room (soc_error_callbacks; the test of _stop_in_progress in push).       *)
THEOREM LostLeavesNothing ==
  ASSUME IsFiniteSet(Query), Cardinality(Query) < MaxBuff
  PROVE  Spec => []DisconnectDrains
<1>1. RoomyInv => DisconnectDrains
  BY DEF RoomyInv, LostOK, DisconnectDrains
<1> QED
  BY <1>1, RoomyInvariance, PTL

(* The promise that the destructor waits for is not set twice, by the last  *)
(* reply and by an error (resp_handler, __socket_error_hendler).            *)
THEOREM OnePromise ==
  ASSUME IsFiniteSet(Query), Cardinality(Query) < MaxBuff
  PROVE  Spec => []PromiseOnce
<1>1. RoomyInv => PromiseOnce
  BY DEF RoomyInv
<1> QED
  BY <1>1, RoomyInvariance, PTL

(* Every callback that gets a reply gets that of its own query, also when    *)
(* the connection is lost while replies are on their way.                   *)
THEOREM RightReplyAlways ==
  ASSUME IsFiniteSet(Query), Cardinality(Query) < MaxBuff
  PROVE  Spec => []OwnAnswer
<1>1. RoomyInv => OwnAnswer
  BY DEF RoomyInv
<1> QED
  BY <1>1, RoomyInvariance, PTL

(* A processor with room for every query implements the service also on a    *)
(* connection that may break: __socket_error_hendler closes the service,    *)
(* soc_error_callbacks answers all that is in line with an error, and       *)
(* nothing is accepted or answered after it.                                *)
THEOREM RoomyImplementation ==
  ASSUME IsFiniteSet(Query), Cardinality(Query) < MaxBuff
  PROVE  Spec => ImplementsService
<1>1. ServiceInv /\ EndOK /\ RoomyInv /\ [Next]_vars => [Service!Next]_(Service!vars)
  BY ServiceStep DEF ServiceInv, IInv, EndOK, ClosedOK, RoomyInv, LostOK, Admitted
<1> QED
  BY ServiceStart, <1>1, ServiceInvariance, EndInvariance, RoomyInvariance, PTL
     DEF Spec, ImplementsService, Service!Spec
=============================================================================
