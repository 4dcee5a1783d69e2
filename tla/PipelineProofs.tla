--------------------------- MODULE PipelineProofs ---------------------------
(***************************************************************************)
(* Theorems about Pipeline for every number of threads and queries, every  *)
(* buffer size, and connections that break or not.  Each conjunct of IInv  *)
(* has a lemma that every step keeps it; the theorems at the end put them  *)
(* together.                                                               *)
(***************************************************************************)
EXTENDS PipelineInvariant, SequenceFacts, TLAPS

USE DEF IsRunning, At, OwnerAt, Goto, vars, threadVars, cbVars, buffVars, stopVars,
        clockVars, linkVars, OwnerVars, EnvUnchanged

Unreported == SubSeq(frozen, sended + bytes_sent + 1, Len(frozen))

FlowUnchanged == UNCHANGED <<input, net, wire, frozen, sended, bytes_sent, buff>>

(* Both parts of a sequence cut in two are sequences over the same set.     *)
LEMMA SubSeqTypes ==
  ASSUME NEW S, NEW s \in Seq(S), NEW n \in 0..Len(s)
  PROVE  SubSeq(s, 1, n) \in Seq(S) /\ SubSeq(s, n + 1, Len(s)) \in Seq(S)
OBVIOUS

(* Handlers posted one after the other keep the queue a sequence of events. *)
LEMMA EventSeqs ==
  ASSUME NEW s \in Seq(Events), NEW e \in Events
  PROVE  /\ Append(s, e) \in Seq(Events)
         /\ <<e>> \in Seq(Events)
         /\ <<>> \in Seq(Events)
         /\ \A r \in Seq(Events) : s \o r \in Seq(Events)
OBVIOUS

(* Every step keeps the threads, their arguments and the mutex in their     *)
(* types, and only a thread inside push() holds a query it has yet to add.  *)
LEMMA ThreadsType ==
  ASSUME TypeOK, ArgOK, [Next]_vars
  PROVE  ThreadsTypeOK' /\ ArgOK'
<1> USE ThreadAssumption, QueryAssumption
    DEF TypeOK, ThreadsTypeOK, CallbacksTypeOK, ArgOK, Threads, PushLabels, LoopLabels,
        PushingLabels
<1>1. CASE \E t \in Clients, q \in Query : CallPush(t, q)
  BY <1>1 DEF CallPush
<1>2. CASE \E t \in Threads : PushIgnored(t)
  BY <1>2 DEF PushIgnored, Return
<1>3. CASE \E t \in Threads : PushWait(t)
  BY <1>3 DEF PushWait
<1>4. CASE \E t \in Threads : PushCallback(t)
  BY <1>4 DEF PushCallback
<1>5. CASE \E t \in Threads : AddQuery(t)
  BY <1>5 DEF AddQuery
<1>6. CASE \E t \in Threads : CompareExchange(t)
  BY <1>6 DEF CompareExchange, Return
<1>7. CASE \E t \in Threads : NothingToSend(t)
  BY <1>7 DEF NothingToSend
<1>8. CASE \E t \in Threads : Unset(t)
  BY <1>8 DEF Unset, Return
<1>9. CASE \E t \in Threads : TimerCheck(t)
  BY <1>9 DEF TimerCheck
<1>10. CASE \E t \in Threads : TimerStart(t)
  BY <1>10 DEF TimerStart
<1>11. CASE \E t \in Threads : GetBuffer(t)
  BY <1>11 DEF GetBuffer
<1>12. CASE \E t \in Threads : Write(t)
  BY <1>12 DEF Write, Return
<1>13. CASE Dispatch
  BY <1>13 DEF Dispatch, FirstLabel, Events, LinkTypeOK
<1>14. CASE ReqSent
  BY <1>14 DEF ReqSent, Notified
<1>15. CASE ReqDone
  BY <1>15 DEF ReqDone
<1>16. CASE SocketErrorAgain
  BY <1>16 DEF SocketErrorAgain
<1>17. CASE SocketError
  BY <1>17 DEF SocketError, Notified
<1>18. CASE Drain
  BY <1>18 DEF Drain
<1>19. CASE ParseReply
  BY <1>19 DEF ParseReply
<1>20. CASE ParseUnexpected
  BY <1>20 DEF ParseUnexpected
<1>21. CASE ParseNothing
  BY <1>21 DEF ParseNothing
<1>22. CASE Callback
  BY <1>22 DEF Callback, NoCallback
<1>23. CASE WorkDone
  BY <1>23 DEF WorkDone
<1>24. CASE NextReply
  BY <1>24 DEF NextReply
<1>25. CASE TailBusy
  BY <1>25 DEF TailBusy
<1>26. CASE TailIdle
  BY <1>26 DEF TailIdle
<1>27. CASE Disarm
  BY <1>27 DEF Disarm
<1>28. CASE Cancel
  BY <1>28 DEF Cancel
<1>29. CASE
        \/ Stop
        \/ StopCheck
        \/ StopWait
        \/ Destroy
        \/ \E n \in 1..Unsent : WriteDone(n)
        \/ WritePosted
  BY <1>29 DEF Stop, StopCheck, StopWait, Destroy, WriteDone, WritePosted
<1>30. CASE
        \/ WriteFails
        \/ Reply
        \/ \E n \in 0..Len(net) : ReadDone(n)
        \/ ReadFails
        \/ Break
        \/ TimerExpires
  BY <1>30 DEF WriteFails, Reply, ReadDone, ReadFails, Break, TimerExpires
<1>31. CASE UNCHANGED vars
  BY <1>31
<1> QED
  BY <1>1, <1>2, <1>3, <1>4, <1>5, <1>6, <1>7, <1>8, <1>9, <1>10,
       <1>11, <1>12, <1>13, <1>14, <1>15, <1>16, <1>17, <1>18, <1>19, <1>20,
       <1>21, <1>22, <1>23, <1>24, <1>25, <1>26, <1>27, <1>28, <1>29, <1>30,
       <1>31 DEF Next, PushStep, LoopStep, OwnerStep, Threads

(* Every step keeps the callback queue, the outcomes and the callback being *)
(* called in their types.                                                   *)
LEMMA CallbacksType ==
  ASSUME TypeOK, ArgOK, [Next]_vars
  PROVE  CallbacksTypeOK'
<1> USE QueryAssumption DEF TypeOK, ThreadsTypeOK, CallbacksTypeOK, ArgOK
<1>1. CASE \E t \in Threads : PushIgnored(t)
  BY <1>1 DEF PushIgnored, PushingLabels, Ignored, Service!Outcome
<1>2. CASE \E t \in Threads : PushCallback(t)
  BY <1>2 DEF PushCallback, PushingLabels
<1>3. CASE Drain
  BY <1>3 DEF Drain, Disconnected, Service!Outcome
<1>4. CASE ParseReply
  BY <1>4 DEF ParseReply, LinkTypeOK
<1>5. CASE Callback
  BY <1>5 DEF Callback, Answered, NoCallback, Service!Outcome
<1>6. CASE
        \/ \E t \in Clients, q \in Query : CallPush(t, q)
        \/ \E t \in Threads : PushWait(t)
        \/ \E t \in Threads : AddQuery(t)
        \/ \E t \in Threads : CompareExchange(t)
        \/ \E t \in Threads : NothingToSend(t)
        \/ \E t \in Threads : Unset(t)
  BY <1>6 DEF CallPush, PushWait, AddQuery, CompareExchange, NothingToSend,
       Unset
<1>7. CASE
        \/ \E t \in Threads : TimerCheck(t)
        \/ \E t \in Threads : TimerStart(t)
        \/ \E t \in Threads : GetBuffer(t)
        \/ \E t \in Threads : Write(t)
  BY <1>7 DEF TimerCheck, TimerStart, GetBuffer, Write
<1>8. CASE
        \/ Dispatch
        \/ ReqSent
        \/ ReqDone
        \/ SocketErrorAgain
        \/ SocketError
        \/ ParseUnexpected
  BY <1>8 DEF Dispatch, ReqSent, ReqDone, SocketErrorAgain, SocketError,
       ParseUnexpected
<1>9. CASE
        \/ ParseNothing
        \/ WorkDone
        \/ NextReply
        \/ TailBusy
        \/ TailIdle
        \/ Disarm
  BY <1>9 DEF ParseNothing, WorkDone, NextReply, TailBusy, TailIdle, Disarm
<1>10. CASE
        \/ Cancel
  BY <1>10 DEF Cancel
<1>11. CASE
        \/ Stop
        \/ StopCheck
        \/ StopWait
        \/ Destroy
        \/ \E n \in 1..Unsent : WriteDone(n)
        \/ WritePosted
  BY <1>11 DEF Stop, StopCheck, StopWait, Destroy, WriteDone, WritePosted
<1>12. CASE
        \/ WriteFails
        \/ Reply
        \/ \E n \in 0..Len(net) : ReadDone(n)
        \/ ReadFails
        \/ Break
        \/ TimerExpires
  BY <1>12 DEF WriteFails, Reply, ReadDone, ReadFails, Break, TimerExpires
<1>13. CASE UNCHANGED vars
  BY <1>13
<1> QED
  BY <1>1, <1>2, <1>3, <1>4, <1>5, <1>6, <1>7, <1>8, <1>9, <1>10,
       <1>11, <1>12, <1>13 DEF Next, PushStep, LoopStep, OwnerStep, Threads

(* Every step keeps the two output buffers and the offset in their types.   *)
LEMMA BufferType ==
  ASSUME TypeOK, ArgOK, [Next]_vars
  PROVE  BufferTypeOK'
<1> USE DEF TypeOK, ThreadsTypeOK, BufferTypeOK, LinkTypeOK, ArgOK
<1>1. CASE \E t \in Threads : AddQuery(t)
  BY <1>1 DEF AddQuery, PushingLabels
<1>2. CASE \E t \in Threads : GetBuffer(t)
  <2>1. \/ UNCHANGED <<buff, frozen, sended, have_frozen>>
        \/ frozen' = buff /\ buff' = <<>> /\ sended' = sended /\ have_frozen' = TRUE
    BY <1>2 DEF GetBuffer, buffVars
  <2>2. <<>> \in Seq(Query)
    BY EmptySeq
  <2> QED
    BY <2>1, <2>2
<1>3. CASE ReqSent
  <2>1. CASE sended + bytes_sent < Len(frozen)
    BY <1>3, <2>1 DEF ReqSent
  <2>2. CASE ~(sended + bytes_sent < Len(frozen))
    <3>1. frozen' = <<>> /\ sended' = 0 /\ have_frozen' = FALSE /\ buff' = buff
      BY <1>3, <2>2 DEF ReqSent
    <3> QED
      BY <3>1, EmptySeq
  <2> QED
    BY <2>1, <2>2
<1>4. CASE SocketError
  BY <1>4, EmptySeq DEF SocketError
<1>5. CASE
        \/ \E t \in Clients, q \in Query : CallPush(t, q)
        \/ \E t \in Threads : PushIgnored(t)
        \/ \E t \in Threads : PushWait(t)
        \/ \E t \in Threads : PushCallback(t)
        \/ \E t \in Threads : CompareExchange(t)
        \/ \E t \in Threads : NothingToSend(t)
  BY <1>5 DEF CallPush, PushIgnored, PushWait, PushCallback, CompareExchange,
       NothingToSend
<1>6. CASE
        \/ \E t \in Threads : Unset(t)
        \/ \E t \in Threads : TimerCheck(t)
        \/ \E t \in Threads : TimerStart(t)
        \/ \E t \in Threads : Write(t)
  BY <1>6 DEF Unset, TimerCheck, TimerStart, Write
<1>7. CASE
        \/ Dispatch
        \/ ReqDone
        \/ SocketErrorAgain
        \/ Drain
        \/ ParseReply
        \/ ParseUnexpected
  BY <1>7 DEF Dispatch, ReqDone, SocketErrorAgain, Drain, ParseReply,
       ParseUnexpected
<1>8. CASE
        \/ ParseNothing
        \/ Callback
        \/ WorkDone
        \/ NextReply
        \/ TailBusy
        \/ TailIdle
  BY <1>8 DEF ParseNothing, Callback, WorkDone, NextReply, TailBusy, TailIdle
<1>9. CASE
        \/ Disarm
        \/ Cancel
  BY <1>9 DEF Disarm, Cancel
<1>10. CASE
        \/ Stop
        \/ StopCheck
        \/ StopWait
        \/ Destroy
        \/ \E n \in 1..Unsent : WriteDone(n)
        \/ WritePosted
  BY <1>10 DEF Stop, StopCheck, StopWait, Destroy, WriteDone, WritePosted
<1>11. CASE
        \/ WriteFails
        \/ Reply
        \/ \E n \in 0..Len(net) : ReadDone(n)
        \/ ReadFails
        \/ Break
        \/ TimerExpires
  BY <1>11 DEF WriteFails, Reply, ReadDone, ReadFails, Break, TimerExpires
<1>12. CASE UNCHANGED vars
  BY <1>12
<1> QED
  BY <1>1, <1>2, <1>3, <1>4, <1>5, <1>6, <1>7, <1>8, <1>9, <1>10,
       <1>11, <1>12 DEF Next, PushStep, LoopStep, OwnerStep, Threads

(* Every step keeps the flags, the destructor and the status in their       *)
(* types.                                                                   *)
LEMMA FlagsType ==
  ASSUME TypeOK, ArgOK, [Next]_vars
  PROVE  FlagsTypeOK'
<1> USE DEF TypeOK, FlagsTypeOK
<1>1. CASE \E t \in Threads : CompareExchange(t)
  BY <1>1 DEF CompareExchange
<1>2. CASE \E t \in Threads : Unset(t)
  BY <1>2 DEF Unset
<1>3. CASE \E t \in Threads : TimerStart(t)
  BY <1>3 DEF TimerStart
<1>4. CASE Dispatch
  BY <1>4 DEF Dispatch
<1>5. CASE ReqSent
  BY <1>5 DEF ReqSent
<1>6. CASE ReqDone
  BY <1>6 DEF ReqDone
<1>7. CASE SocketError
  BY <1>7 DEF SocketError
<1>8. CASE ParseUnexpected
  BY <1>8 DEF ParseUnexpected
<1>9. CASE WorkDone
  BY <1>9 DEF WorkDone
<1>10. CASE TailBusy
  BY <1>10 DEF TailBusy
<1>11. CASE Disarm
  BY <1>11 DEF Disarm
<1>12. CASE Cancel
  BY <1>12 DEF Cancel
<1>13. CASE Stop
  BY <1>13 DEF Stop
<1>14. CASE StopCheck
  BY <1>14 DEF StopCheck
<1>15. CASE StopWait
  BY <1>15 DEF StopWait
<1>16. CASE Destroy
  BY <1>16 DEF Destroy
<1>17. CASE TimerExpires
  BY <1>17 DEF TimerExpires
<1>18. CASE
        \/ \E t \in Clients, q \in Query : CallPush(t, q)
        \/ \E t \in Threads : PushIgnored(t)
        \/ \E t \in Threads : PushWait(t)
        \/ \E t \in Threads : PushCallback(t)
        \/ \E t \in Threads : AddQuery(t)
        \/ \E t \in Threads : NothingToSend(t)
  BY <1>18 DEF CallPush, PushIgnored, PushWait, PushCallback, AddQuery,
       NothingToSend
<1>19. CASE
        \/ \E t \in Threads : TimerCheck(t)
        \/ \E t \in Threads : GetBuffer(t)
        \/ \E t \in Threads : Write(t)
  BY <1>19 DEF TimerCheck, GetBuffer, Write
<1>20. CASE
        \/ SocketErrorAgain
        \/ Drain
        \/ ParseReply
        \/ ParseNothing
        \/ Callback
        \/ NextReply
  BY <1>20 DEF SocketErrorAgain, Drain, ParseReply, ParseNothing, Callback,
       NextReply
<1>21. CASE
        \/ TailIdle
  BY <1>21 DEF TailIdle
<1>22. CASE
        \/ \E n \in 1..Unsent : WriteDone(n)
        \/ WritePosted
        \/ WriteFails
        \/ Reply
        \/ \E n \in 0..Len(net) : ReadDone(n)
        \/ ReadFails
  BY <1>22 DEF WriteDone, WritePosted, WriteFails, Reply, ReadDone, ReadFails
<1>23. CASE
        \/ Break
  BY <1>23 DEF Break
<1>24. CASE UNCHANGED vars
  BY <1>24
<1> QED
  BY <1>1, <1>2, <1>3, <1>4, <1>5, <1>6, <1>7, <1>8, <1>9, <1>10,
       <1>11, <1>12, <1>13, <1>14, <1>15, <1>16, <1>17, <1>18, <1>19, <1>20,
       <1>21, <1>22, <1>23, <1>24 DEF Next, PushStep, LoopStep, OwnerStep, Threads

(* Every step keeps the socket, the wire and the queue of handlers in their *)
(* types.                                                                   *)
LEMMA LinkType ==
  ASSUME TypeOK, ArgOK, [Next]_vars
  PROVE  LinkTypeOK'
<1> USE DEF TypeOK, BufferTypeOK, LinkTypeOK, Events
<1>1. CASE \E t \in Threads : Write(t)
  BY <1>1, EventSeqs DEF Write
<1>2. CASE Dispatch
  BY <1>2 DEF Dispatch
<1>3. CASE ReqSent
  BY <1>3 DEF ReqSent
<1>4. CASE SocketError
  BY <1>4, EventSeqs DEF SocketError, Aborted
<1>5. CASE ParseReply
  BY <1>5 DEF ParseReply
<1>6. CASE ParseUnexpected
  BY <1>6 DEF ParseUnexpected
<1>7. CASE TailBusy
  BY <1>7, EventSeqs DEF TailBusy, ReadAgain
<1>8. CASE Cancel
  BY <1>8, EventSeqs DEF Cancel, ReadAgain
<1>9. CASE \E n \in 1..Unsent : WriteDone(n)
  BY <1>9 DEF WriteDone, Unsent
<1>10. CASE WritePosted
  BY <1>10 DEF WritePosted
<1>11. CASE WriteFails
  BY <1>11 DEF WriteFails
<1>12. CASE Reply
  BY <1>12 DEF Reply
<1>13. CASE \E n \in 0..Len(net) : ReadDone(n)
  <2> PICK n \in 0..Len(net) : ReadDone(n)
    BY <1>13
  <2>1. SubSeq(net, 1, n) \in Seq(Query) /\ SubSeq(net, n + 1, Len(net)) \in Seq(Query)
    BY SubSeqTypes
  <2>2. (input \o SubSeq(net, 1, n)) \in Seq(Query)
    BY <2>1
  <2>3. Append(ioq, "read_ok") \in Seq(Events)
    BY EventSeqs
  <2> QED
    BY <2>1, <2>2, <2>3 DEF ReadDone
<1>14. CASE ReadFails
  BY <1>14, EventSeqs DEF ReadFails
<1>15. CASE Break
  BY <1>15 DEF Break
<1>16. CASE TimerExpires
  BY <1>16 DEF TimerExpires
<1>17. CASE
        \/ \E t \in Clients, q \in Query : CallPush(t, q)
        \/ \E t \in Threads : PushIgnored(t)
        \/ \E t \in Threads : PushWait(t)
        \/ \E t \in Threads : PushCallback(t)
        \/ \E t \in Threads : AddQuery(t)
        \/ \E t \in Threads : CompareExchange(t)
  BY <1>17 DEF CallPush, PushIgnored, PushWait, PushCallback, AddQuery,
       CompareExchange
<1>18. CASE
        \/ \E t \in Threads : NothingToSend(t)
        \/ \E t \in Threads : Unset(t)
        \/ \E t \in Threads : TimerCheck(t)
        \/ \E t \in Threads : TimerStart(t)
        \/ \E t \in Threads : GetBuffer(t)
  BY <1>18 DEF NothingToSend, Unset, TimerCheck, TimerStart, GetBuffer
<1>19. CASE
        \/ ReqDone
        \/ SocketErrorAgain
        \/ Drain
        \/ ParseNothing
        \/ Callback
        \/ WorkDone
  BY <1>19 DEF ReqDone, SocketErrorAgain, Drain, ParseNothing, Callback,
       WorkDone
<1>20. CASE
        \/ NextReply
        \/ TailIdle
        \/ Disarm
  BY <1>20 DEF NextReply, TailIdle, Disarm
<1>21. CASE
        \/ Stop
        \/ StopCheck
        \/ StopWait
        \/ Destroy
  BY <1>21 DEF Stop, StopCheck, StopWait, Destroy
<1>22. CASE UNCHANGED vars
  BY <1>22
<1> QED
  BY <1>1, <1>2, <1>3, <1>4, <1>5, <1>6, <1>7, <1>8, <1>9, <1>10,
       <1>11, <1>12, <1>13, <1>14, <1>15, <1>16, <1>17, <1>18, <1>19, <1>20,
       <1>21, <1>22 DEF Next, PushStep, LoopStep, OwnerStep, Threads

(* Posting the handler of the only write leaves exactly one in the queue;   *)
(* posting another handler changes nothing about writes.                    *)
LEMMA WriteAppended ==
  ASSUME NEW s \in Seq(Events), NEW e \in Events, OneWrite(s), HasWrite(s) => ~IsWrite(e)
  PROVE  /\ OneWrite(Append(s, e))
         /\ HasWrite(Append(s, e)) <=> HasWrite(s) \/ IsWrite(e)
<1>1. /\ DOMAIN s = 1..Len(s) /\ Len(s) \in Nat
      /\ DOMAIN Append(s, e) = 1..(Len(s) + 1)
      /\ \A i \in 1..Len(s) : Append(s, e)[i] = s[i]
      /\ Append(s, e)[Len(s) + 1] = e
  OBVIOUS
<1> HIDE DEF IsWrite
<1>2. OneWrite(Append(s, e))
  BY <1>1 DEF OneWrite, HasWrite
<1>3. HasWrite(Append(s, e)) <=> HasWrite(s) \/ IsWrite(e)
  BY <1>1 DEF HasWrite
<1> QED
  BY <1>2, <1>3

(* Taking the handler of the only write leaves none in the queue.           *)
LEMMA WriteTaken ==
  ASSUME NEW s \in Seq(Events), s # <<>>, OneWrite(s)
  PROVE  /\ OneWrite(Tail(s))
         /\ HasWrite(Tail(s)) => HasWrite(s) /\ ~IsWrite(Head(s))
         /\ IsWrite(Head(s)) => HasWrite(s)
         /\ Head(s) \in Events /\ Tail(s) \in Seq(Events)
<1>1. /\ DOMAIN s = 1..Len(s) /\ Len(s) \in Nat \ {0}
      /\ DOMAIN Tail(s) = 1..(Len(s) - 1)
      /\ \A i \in 1..(Len(s) - 1) : Tail(s)[i] = s[i + 1]
      /\ Head(s) = s[1]
  OBVIOUS
<1>2. OneWrite(Tail(s))
  BY <1>1 DEF OneWrite
<1>3. HasWrite(Tail(s)) => HasWrite(s) /\ ~IsWrite(Head(s))
  BY <1>1 DEF HasWrite, OneWrite
<1>4. IsWrite(Head(s)) => HasWrite(s)
  BY <1>1 DEF HasWrite
<1> QED
  BY <1>2, <1>3, <1>4

(* Closing the socket posts at most one handler of a write, for the write   *)
(* that was outstanding.                                                    *)
LEMMA WriteAborted ==
  ASSUME TypeOK, OneWrite(ioq), writing = "pending" => ~HasWrite(ioq)
  PROVE  /\ OneWrite(ioq \o Aborted)
         /\ HasWrite(ioq \o Aborted) <=> HasWrite(ioq) \/ writing = "pending"
         /\ (ioq \o Aborted) \in Seq(Events)
<1> DEFINE R == IF reading THEN <<"read_err">> ELSE <<>>
           S == IF reading THEN Append(ioq, "read_err") ELSE ioq
<1>1. ioq \in Seq(Events) /\ "read_err" \in Events /\ "write_err" \in Events
  BY DEF TypeOK, LinkTypeOK, Events
<1>2. /\ S \in Seq(Events) /\ OneWrite(S)
      /\ HasWrite(S) <=> HasWrite(ioq)
  BY <1>1, WriteAppended DEF IsWrite
<1>3. ioq \o Aborted = IF writing = "pending" THEN Append(S, "write_err") ELSE S
  <2>1. CASE reading
    BY <1>1, <2>1 DEF Aborted
  <2>2. CASE ~reading
    BY <1>1, <2>2 DEF Aborted
  <2> QED
    BY <2>1, <2>2
<1> HIDE DEF S
<1>4. CASE writing = "pending"
  <2>1. OneWrite(Append(S, "write_err")) /\ HasWrite(Append(S, "write_err"))
    BY <1>1, <1>2, <1>4, WriteAppended DEF IsWrite
  <2> QED
    BY <1>1, <1>2, <1>3, <1>4, <2>1
<1>5. CASE writing # "pending"
  BY <1>2, <1>3, <1>5
<1> QED
  BY <1>4, <1>5

(* No step of any thread breaks the token that _req_proc_running is: it is  *)
(* taken by compare-exchange and travels with the thread, the write, the    *)
(* handler in the queue and the handler that runs.                          *)
LEMMA OneWriterStep ==
  ASSUME TypeOK, OneWriter, [Next]_vars
  PROVE  OneWriter'
<1> USE ThreadAssumption
    DEF TypeOK, ThreadsTypeOK, LinkTypeOK, Threads, OneWriter, Sending, ReqLabels, Events
<1>1. CASE \E t \in Clients, q \in Query : CallPush(t, q)
  BY <1>1 DEF CallPush
<1>2. CASE \E t \in Threads : PushIgnored(t)
  BY <1>2 DEF PushIgnored, Return
<1>3. CASE \E t \in Threads : PushWait(t)
  BY <1>3 DEF PushWait
<1>4. CASE \E t \in Threads : PushCallback(t)
  BY <1>4 DEF PushCallback
<1>5. CASE \E t \in Threads : AddQuery(t)
  BY <1>5 DEF AddQuery
<1>6. CASE \E t \in Threads : CompareExchange(t)
  BY <1>6 DEF CompareExchange, Return
<1>7. CASE \E t \in Threads : NothingToSend(t)
  BY <1>7 DEF NothingToSend
<1>8. CASE \E t \in Threads : Unset(t)
  BY <1>8 DEF Unset, Return
<1>9. CASE \E t \in Threads : TimerCheck(t)
  BY <1>9 DEF TimerCheck
<1>10. CASE \E t \in Threads : TimerStart(t)
  BY <1>10 DEF TimerStart
<1>11. CASE \E t \in Threads : GetBuffer(t)
  BY <1>11 DEF GetBuffer
<1>12. CASE \E t \in Threads : Write(t)
  <2> PICK t \in Threads : Write(t)
    BY <1>12
  <2>1. pc[t] = "write" /\ writing = "no" /\ ~HasWrite(ioq) /\ running
    BY DEF Write
  <2>2. \A e \in {"write_ok", "write_err"} : OneWrite(Append(ioq, e))
    BY <2>1, WriteAppended
  <2>3. OneWrite(ioq') /\ (HasWrite(ioq') => writing' = "no") /\ running'
    BY <2>1, <2>2 DEF Write
  <2>4. \A u \in Threads : pc'[u] \notin ReqLabels
    BY <2>1 DEF Write, Return
  <2> QED
    BY <2>1, <2>3, <2>4 DEF Write
<1>13. CASE Dispatch
  BY <1>13, WriteTaken DEF Dispatch, FirstLabel, IsWrite
<1>14. CASE ReqSent
  BY <1>14 DEF ReqSent, Notified
<1>15. CASE ReqDone
  BY <1>15 DEF ReqDone
<1>16. CASE SocketErrorAgain
  BY <1>16 DEF SocketErrorAgain
<1>17. CASE SocketError
  BY <1>17, WriteAborted DEF SocketError, Notified
<1>18. CASE Drain
  BY <1>18 DEF Drain
<1>19. CASE ParseReply
  BY <1>19 DEF ParseReply
<1>20. CASE ParseUnexpected
  BY <1>20 DEF ParseUnexpected
<1>21. CASE ParseNothing
  BY <1>21 DEF ParseNothing
<1>22. CASE Callback
  BY <1>22 DEF Callback
<1>23. CASE WorkDone
  BY <1>23 DEF WorkDone
<1>24. CASE NextReply
  BY <1>24 DEF NextReply
<1>25. CASE TailBusy
  <2>1. ioq' \in {ioq, Append(ioq, "read_err")}
    BY <1>25 DEF TailBusy, ReadAgain
  <2>2. OneWrite(Append(ioq, "read_err")) /\ (HasWrite(Append(ioq, "read_err")) <=> HasWrite(ioq))
    BY WriteAppended DEF IsWrite
  <2>3. OneWrite(ioq') /\ (HasWrite(ioq') <=> HasWrite(ioq))
    BY <2>1, <2>2
  <2> QED
    BY <1>25, <2>3 DEF TailBusy
<1>26. CASE TailIdle
  BY <1>26 DEF TailIdle
<1>27. CASE Disarm
  BY <1>27 DEF Disarm
<1>28. CASE Cancel
  <2>1. ioq' \in {ioq, Append(ioq, "read_err")}
    BY <1>28 DEF Cancel, ReadAgain
  <2>2. OneWrite(Append(ioq, "read_err")) /\ (HasWrite(Append(ioq, "read_err")) <=> HasWrite(ioq))
    BY WriteAppended DEF IsWrite
  <2>3. OneWrite(ioq') /\ (HasWrite(ioq') <=> HasWrite(ioq))
    BY <2>1, <2>2
  <2> QED
    BY <1>28, <2>3 DEF Cancel
<1>29. CASE \E n \in 1..Unsent : WriteDone(n)
  BY <1>29 DEF WriteDone
<1>30. CASE WritePosted
  BY <1>30, WriteAppended DEF WritePosted, IsWrite
<1>31. CASE WriteFails
  BY <1>31, WriteAppended DEF WriteFails, IsWrite
<1>32. CASE \E n \in 0..Len(net) : ReadDone(n)
  BY <1>32, WriteAppended DEF ReadDone, IsWrite
<1>33. CASE ReadFails
  BY <1>33, WriteAppended DEF ReadFails, IsWrite
<1>34. CASE TimerExpires
  BY <1>34, WriteAppended DEF TimerExpires, IsWrite
<1>35. CASE
        \/ Stop
        \/ StopCheck
        \/ StopWait
        \/ Destroy
        \/ Reply
        \/ Break
  BY <1>35 DEF Stop, StopCheck, StopWait, Destroy, Reply, Break
<1>36. CASE UNCHANGED vars
  BY <1>36
<1> QED
  BY <1>1, <1>2, <1>3, <1>4, <1>5, <1>6, <1>7, <1>8, <1>9, <1>10,
       <1>11, <1>12, <1>13, <1>14, <1>15, <1>16, <1>17, <1>18, <1>19, <1>20,
       <1>21, <1>22, <1>23, <1>24, <1>25, <1>26, <1>27, <1>28, <1>29, <1>30,
       <1>31, <1>32, <1>33, <1>34, <1>35, <1>36 DEF Next, PushStep, LoopStep, OwnerStep, Threads

(* A posted success handler is in the queue, and the others still are.      *)
LEMMA OkAppended ==
  ASSUME NEW s \in Seq(Events), NEW e \in Events
  PROVE  HasOk(Append(s, e)) <=> HasOk(s) \/ e = "write_ok"
<1>1. /\ DOMAIN s = 1..Len(s) /\ Len(s) \in Nat
      /\ DOMAIN Append(s, e) = 1..(Len(s) + 1)
      /\ \A i \in 1..Len(s) : Append(s, e)[i] = s[i]
      /\ Append(s, e)[Len(s) + 1] = e
  OBVIOUS
<1> QED
  BY <1>1 DEF HasOk

(* A success handler that is not the first one stays in the queue when the  *)
(* first is taken.                                                          *)
LEMMA OkTaken ==
  ASSUME NEW s \in Seq(Events), s # <<>>, HasOk(s), Head(s) # "write_ok"
  PROVE  HasOk(Tail(s))
<1>1. /\ DOMAIN s = 1..Len(s) /\ Len(s) \in Nat \ {0}
      /\ DOMAIN Tail(s) = 1..(Len(s) - 1)
      /\ \A i \in 1..(Len(s) - 1) : Tail(s)[i] = s[i + 1]
      /\ Head(s) = s[1]
  OBVIOUS
<1>2. PICK i \in 1..Len(s) : s[i] = "write_ok"
  BY <1>1 DEF HasOk
<1>3. i - 1 \in 1..(Len(s) - 1) /\ Tail(s)[i - 1] = "write_ok"
  BY <1>1, <1>2
<1> QED
  BY <1>1, <1>3 DEF HasOk

(* The handlers posted by closing the socket leave the success handlers in  *)
(* the queue.                                                               *)
LEMMA OkAborted ==
  ASSUME TypeOK, HasOk(ioq)
  PROVE  HasOk(ioq \o Aborted)
<1>1. ioq \in Seq(Events) /\ Aborted \in Seq(Events)
  <2>1. /\ <<"read_err">> \in Seq(Events)
        /\ <<"write_err">> \in Seq(Events)
        /\ <<>> \in Seq(Events)
        /\ ioq \in Seq(Events)
    BY DEF TypeOK, LinkTypeOK, Events
  <2>2. /\ (IF reading THEN <<"read_err">> ELSE <<>>) \in Seq(Events)
        /\ (IF writing = "pending" THEN <<"write_err">> ELSE <<>>) \in Seq(Events)
    BY <2>1
  <2> QED
    BY <2>1, <2>2, ConcatProperties DEF Aborted
<1>2. PICK i \in DOMAIN ioq : ioq[i] = "write_ok"
  BY DEF HasOk
<1>3. i \in DOMAIN (ioq \o Aborted) /\ (ioq \o Aborted)[i] = ioq[i]
  BY <1>1, <1>2
<1> QED
  BY <1>2, <1>3 DEF HasOk

(* Whoever is between the callback push and the query push, or drains the   *)
(* callbacks, holds _buff_mux, at every step.                               *)
LEMMA MutexStep ==
  ASSUME TypeOK, MutexOK, [Next]_vars
  PROVE  MutexOK'
<1> USE ThreadAssumption DEF TypeOK, ThreadsTypeOK, Threads, MutexOK, Admitted
<1>1. CASE \E t \in Clients, q \in Query : CallPush(t, q)
  BY <1>1 DEF CallPush
<1>2. CASE \E t \in Threads : PushIgnored(t)
  BY <1>2 DEF PushIgnored, Return
<1>3. CASE \E t \in Threads : PushWait(t)
  BY <1>3 DEF PushWait
<1>4. CASE \E t \in Threads : PushCallback(t)
  BY <1>4 DEF PushCallback
<1>5. CASE \E t \in Threads : AddQuery(t)
  BY <1>5 DEF AddQuery
<1>6. CASE \E t \in Threads : CompareExchange(t)
  BY <1>6 DEF CompareExchange, Return
<1>7. CASE \E t \in Threads : NothingToSend(t)
  BY <1>7 DEF NothingToSend
<1>8. CASE \E t \in Threads : Unset(t)
  BY <1>8 DEF Unset, Return
<1>9. CASE \E t \in Threads : TimerCheck(t)
  BY <1>9 DEF TimerCheck
<1>10. CASE \E t \in Threads : TimerStart(t)
  BY <1>10 DEF TimerStart
<1>11. CASE \E t \in Threads : GetBuffer(t)
  BY <1>11 DEF GetBuffer
<1>12. CASE \E t \in Threads : Write(t)
  BY <1>12 DEF Write, Return
<1>13. CASE Dispatch
  BY <1>13 DEF Dispatch, FirstLabel, Events, LinkTypeOK
<1>14. CASE ReqSent
  BY <1>14 DEF ReqSent, Notified
<1>15. CASE ReqDone
  BY <1>15 DEF ReqDone
<1>16. CASE SocketErrorAgain
  BY <1>16 DEF SocketErrorAgain
<1>17. CASE SocketError
  BY <1>17 DEF SocketError, Notified
<1>18. CASE Drain
  BY <1>18 DEF Drain
<1>19. CASE ParseReply
  BY <1>19 DEF ParseReply
<1>20. CASE ParseUnexpected
  BY <1>20 DEF ParseUnexpected
<1>21. CASE ParseNothing
  BY <1>21 DEF ParseNothing
<1>22. CASE Callback
  BY <1>22 DEF Callback
<1>23. CASE WorkDone
  BY <1>23 DEF WorkDone
<1>24. CASE NextReply
  BY <1>24 DEF NextReply
<1>25. CASE TailBusy
  BY <1>25 DEF TailBusy
<1>26. CASE TailIdle
  BY <1>26 DEF TailIdle
<1>27. CASE Disarm
  BY <1>27 DEF Disarm
<1>28. CASE Cancel
  BY <1>28 DEF Cancel
<1>29. CASE
        \/ Stop
        \/ StopCheck
        \/ StopWait
        \/ Destroy
        \/ \E n \in 1..Unsent : WriteDone(n)
        \/ WritePosted
  BY <1>29 DEF Stop, StopCheck, StopWait, Destroy, WriteDone, WritePosted
<1>30. CASE
        \/ WriteFails
        \/ Reply
        \/ \E n \in 0..Len(net) : ReadDone(n)
        \/ ReadFails
        \/ Break
        \/ TimerExpires
  BY <1>30 DEF WriteFails, Reply, ReadDone, ReadFails, Break, TimerExpires
<1>31. CASE UNCHANGED vars
  BY <1>31
<1> QED
  BY <1>1, <1>2, <1>3, <1>4, <1>5, <1>6, <1>7, <1>8, <1>9, <1>10,
       <1>11, <1>12, <1>13, <1>14, <1>15, <1>16, <1>17, <1>18, <1>19, <1>20,
       <1>21, <1>22, <1>23, <1>24, <1>25, <1>26, <1>27, <1>28, <1>29, <1>30,
       <1>31 DEF Next, PushStep, LoopStep, OwnerStep, Threads

(* Every step keeps the bytes reported within the frozen buffer: only the   *)
(* one writer moves the offset, and the buffer is freed by its handler or   *)
(* by the error.                                                            *)
LEMMA BytesStep ==
  ASSUME TypeOK, OneWriter, BytesOK, [Next]_vars
  PROVE  BytesOK'
<1> USE ThreadAssumption
    DEF TypeOK, ThreadsTypeOK, LinkTypeOK, BufferTypeOK, FlagsTypeOK, Threads, OneWriter, Sending, ReqLabels, BytesOK,
        Events
<1>1. CASE \E t \in Clients, q \in Query : CallPush(t, q)
  BY <1>1 DEF CallPush
<1>2. CASE \E t \in Threads : PushIgnored(t)
  BY <1>2 DEF PushIgnored, Return
<1>3. CASE \E t \in Threads : PushWait(t)
  BY <1>3 DEF PushWait
<1>4. CASE \E t \in Threads : PushCallback(t)
  BY <1>4 DEF PushCallback
<1>5. CASE \E t \in Threads : AddQuery(t)
  BY <1>5 DEF AddQuery
<1>6. CASE \E t \in Threads : CompareExchange(t)
  BY <1>6 DEF CompareExchange, Return
<1>7. CASE \E t \in Threads : NothingToSend(t)
  BY <1>7 DEF NothingToSend
<1>8. CASE \E t \in Threads : Unset(t)
  BY <1>8 DEF Unset, Return
<1>9. CASE \E t \in Threads : TimerCheck(t)
  BY <1>9 DEF TimerCheck
<1>10. CASE \E t \in Threads : TimerStart(t)
  BY <1>10 DEF TimerStart
<1>11. CASE \E t \in Threads : GetBuffer(t)
  BY <1>11 DEF GetBuffer
<1>12. CASE \E t \in Threads : Write(t)
  <2> PICK t \in Threads : Write(t)
    BY <1>12
  <2>1. bytes_sent = 0 \/ HasOk(ioq) \/ pc[Loop] = "sent"
    BY DEF Write
  <2>2. pc[Loop] = "sent" => t = Loop
    BY DEF Write
  <2>3. HasOk(ioq) => HasOk(ioq')
    <3>1. ioq' \in {ioq, Append(ioq, "write_ok"), Append(ioq, "write_err")}
      BY DEF Write
    <3>2. \A e \in Events : HasOk(ioq) => HasOk(Append(ioq, e))
      BY OkAppended
    <3> QED
      BY <3>1, <3>2
  <2> QED
    BY <2>1, <2>2, <2>3 DEF Write, Return
<1>13. CASE Dispatch
  BY <1>13, OkTaken DEF Dispatch, FirstLabel
<1>14. CASE ReqSent
  BY <1>14 DEF ReqSent, Notified
<1>15. CASE ReqDone
  BY <1>15 DEF ReqDone
<1>16. CASE SocketErrorAgain
  BY <1>16 DEF SocketErrorAgain
<1>17. CASE SocketError
  BY <1>17, OkAborted DEF SocketError, Notified
<1>18. CASE Drain
  BY <1>18 DEF Drain
<1>19. CASE ParseReply
  BY <1>19 DEF ParseReply
<1>20. CASE ParseUnexpected
  BY <1>20 DEF ParseUnexpected
<1>21. CASE ParseNothing
  BY <1>21 DEF ParseNothing
<1>22. CASE Callback
  BY <1>22 DEF Callback
<1>23. CASE WorkDone
  BY <1>23 DEF WorkDone
<1>24. CASE NextReply
  BY <1>24 DEF NextReply
<1>25. CASE TailBusy
  <2>1. ioq' \in {ioq, Append(ioq, "read_err")}
    BY <1>25 DEF TailBusy, ReadAgain
  <2>2. HasOk(Append(ioq, "read_err")) <=> HasOk(ioq)
    BY OkAppended
  <2>3. HasOk(ioq') <=> HasOk(ioq)
    BY <2>1, <2>2
  <2> QED
    BY <1>25, <2>3 DEF TailBusy
<1>26. CASE TailIdle
  BY <1>26 DEF TailIdle
<1>27. CASE Disarm
  BY <1>27 DEF Disarm
<1>28. CASE Cancel
  <2>1. ioq' \in {ioq, Append(ioq, "read_err")}
    BY <1>28 DEF Cancel, ReadAgain
  <2>2. HasOk(Append(ioq, "read_err")) <=> HasOk(ioq)
    BY OkAppended
  <2>3. HasOk(ioq') <=> HasOk(ioq)
    BY <2>1, <2>2
  <2> QED
    BY <1>28, <2>3 DEF Cancel
<1>29. CASE \E n \in 1..Unsent : WriteDone(n)
  BY <1>29 DEF WriteDone, Unsent
<1>30. CASE WritePosted
  BY <1>30, OkAppended DEF WritePosted
<1>31. CASE WriteFails
  BY <1>31, OkAppended DEF WriteFails
<1>32. CASE Reply
  BY <1>32 DEF Reply
<1>33. CASE \E n \in 0..Len(net) : ReadDone(n)
  BY <1>33, OkAppended DEF ReadDone
<1>34. CASE ReadFails
  BY <1>34, OkAppended DEF ReadFails
<1>35. CASE Break
  BY <1>35 DEF Break
<1>36. CASE TimerExpires
  BY <1>36, OkAppended DEF TimerExpires
<1>37. CASE
        \/ Stop
        \/ StopCheck
        \/ StopWait
        \/ Destroy
  BY <1>37 DEF Stop, StopCheck, StopWait, Destroy
<1>38. CASE UNCHANGED vars
  BY <1>38
<1> QED
  BY <1>1, <1>2, <1>3, <1>4, <1>5, <1>6, <1>7, <1>8, <1>9, <1>10,
       <1>11, <1>12, <1>13, <1>14, <1>15, <1>16, <1>17, <1>18, <1>19, <1>20,
       <1>21, <1>22, <1>23, <1>24, <1>25, <1>26, <1>27, <1>28, <1>29, <1>30,
       <1>31, <1>32, <1>33, <1>34, <1>35, <1>36, <1>37, <1>38 DEF Next, PushStep, LoopStep, OwnerStep, Threads

(* The parts of Flow are sequences of queries.                              *)
LEMMA FlowTypes ==
  ASSUME TypeOK, BytesOK, ~error
  PROVE  /\ input \in Seq(Query) /\ net \in Seq(Query) /\ wire \in Seq(Query)
         /\ Unreported \in Seq(Query) /\ buff \in Seq(Query)
         /\ sended + bytes_sent \in 0..Len(frozen) /\ frozen \in Seq(Query)
         /\ input \o net \in Seq(Query)
         /\ input \o net \o wire \in Seq(Query)
         /\ input \o net \o wire \o Unreported \in Seq(Query)
         /\ Flow \in Seq(Query)
         /\ Flow = input \o net \o wire \o Unreported \o buff
<1>1. input \in Seq(Query) /\ net \in Seq(Query) /\ wire \in Seq(Query) /\ buff \in Seq(Query)
      /\ frozen \in Seq(Query)
  BY DEF TypeOK, LinkTypeOK, BufferTypeOK
<1>2. sended + bytes_sent \in 0..Len(frozen)
  BY DEF TypeOK, LinkTypeOK, BufferTypeOK, BytesOK
<1>3. Unreported \in Seq(Query)
  <2>1. sended + bytes_sent \in sended + bytes_sent..Len(frozen)
    BY <1>2
  <2> QED
    BY <1>1, <1>2, <2>1, SplitSuffix DEF Unreported
<1>4. input \o net \in Seq(Query)
  BY <1>1, ConcatProperties
<1>5. input \o net \o wire \in Seq(Query)
  BY <1>1, <1>4, ConcatProperties
<1>6. input \o net \o wire \o Unreported \in Seq(Query)
  BY <1>3, <1>5, ConcatProperties
<1>7. input \o net \o wire \o Unreported \o buff \in Seq(Query)
  BY <1>1, <1>6, ConcatProperties
<1>8. Flow = input \o net \o wire \o Unreported \o buff
  BY DEF Flow, Unreported
<1> QED
  BY <1>1, <1>2, <1>3, <1>4, <1>5, <1>6, <1>7, <1>8

(* Adding a query to the buffer adds it at the end of Flow.                 *)
LEMMA AddQueryFlow ==
  ASSUME TypeOK, BytesOK, ~error, NEW t \in Threads, arg[t] \in Query, AddQuery(t)
  PROVE  Flow' = Append(Flow, arg[t])
<1>1. Flow' = input \o net \o wire \o Unreported \o Append(buff, arg[t])
  BY DEF AddQuery, Flow, Unreported
<1> DEFINE X == input \o net \o wire \o Unreported
<1>2. X \in Seq(Query) /\ buff \in Seq(Query) /\ Flow = X \o buff
  BY FlowTypes
<1>3. Flow' = X \o Append(buff, arg[t])
  BY <1>1
<1> HIDE DEF X
<1> QED
  BY <1>2, <1>3, AppendToConcat

(* Freezing the buffer moves queries within Flow and changes no order.      *)
LEMMA GetBufferFlow ==
  ASSUME TypeOK, OneWriter, BytesOK, ~error, NEW t \in Threads, GetBuffer(t)
  PROVE  Flow' = Flow
<1>1. CASE have_frozen
  BY <1>1 DEF GetBuffer, Flow
<1>2. CASE ~have_frozen
  <2>1. Sending(t) /\ pc[t] = "get_buffer"
    BY DEF GetBuffer, Sending, ReqLabels
  <2>2. writing = "no" /\ ~HasWrite(ioq)
    BY <2>1 DEF OneWriter
  <2>3. ~HasOk(ioq)
    BY <2>2 DEF HasOk, HasWrite, IsWrite
  <2>4. pc[Loop] # "sent"
    BY <2>1 DEF OneWriter, Sending, ReqLabels, Threads
  <2>5. bytes_sent = 0 /\ sended = 0 /\ frozen = <<>>
    BY <1>2, <2>2, <2>3, <2>4 DEF BytesOK
  <2>6. frozen' = buff /\ buff' = <<>> /\ sended' = 0 /\ bytes_sent' = 0
        /\ UNCHANGED <<input, net, wire>>
    BY <1>2, <2>5 DEF GetBuffer
  <2>7. Unreported = <<>> /\ Unreported' = buff
    <3>1. Unreported = <<>>
      BY <2>5, SubSeqEmpty DEF Unreported
    <3>2. Unreported' = SubSeq(buff, 1, Len(buff))
      BY <2>6 DEF Unreported
    <3> QED
      BY <3>1, <3>2, FlowTypes, SubSeqFull
  <2>8. Flow' = input \o net \o wire \o buff \o <<>>
    BY <2>6, <2>7 DEF Flow, Unreported
  <2>9. Flow = input \o net \o wire \o <<>> \o buff
    BY <2>7 DEF Flow, Unreported
  <2>10. (input \o net \o wire) \o <<>> = input \o net \o wire
    BY FlowTypes, ConcatEmptySeq
  <2>11. (input \o net \o wire \o buff) \o <<>> = input \o net \o wire \o buff
    <3>1. input \o net \o wire \o buff \in Seq(Query)
      BY FlowTypes, ConcatProperties
    <3> QED
      BY <3>1, ConcatEmptySeq
  <2> QED
    BY <2>8, <2>9, <2>10, <2>11
<1> QED
  BY <1>1, <1>2

(* Reporting a write, whole or partial, moves only the boundary between the *)
(* wire and the frozen buffer.                                              *)
LEMMA ReqSentFlow ==
  ASSUME TypeOK, BytesOK, ~error, ReqSent
  PROVE  Flow' = Flow
<1>1. sended \in Nat /\ bytes_sent \in Nat /\ Len(frozen) \in Nat
      /\ sended + bytes_sent <= Len(frozen)
  BY DEF TypeOK, BufferTypeOK, LinkTypeOK, BytesOK
<1>2. Unreported' = Unreported
  <2>1. CASE sended + bytes_sent < Len(frozen)
    <3>1. sended' + bytes_sent' = sended + bytes_sent /\ frozen' = frozen
      BY <1>1, <2>1 DEF ReqSent
    <3> QED
      BY <3>1 DEF Unreported
  <2>2. CASE ~(sended + bytes_sent < Len(frozen))
    <3>1. sended + bytes_sent + 1 > Len(frozen)
      BY <1>1, <2>2
    <3>2. Unreported = <<>>
      BY <1>1, <3>1, SubSeqEmpty DEF Unreported
    <3>3. frozen' = <<>> /\ sended' = 0 /\ bytes_sent' = 0
      BY <1>1, <2>2 DEF ReqSent
    <3>4. Unreported' = SubSeq(<<>>, 1, 0)
      BY <3>3 DEF Unreported
    <3> QED
      BY <3>2, <3>4, SubSeqEmpty
  <2> QED
    BY <2>1, <2>2
<1>3. UNCHANGED <<input, net, wire, buff>>
  BY DEF ReqSent
<1> QED
  BY <1>2, <1>3 DEF Flow, Unreported

(* Concatenation of sequences of queries is associative.                    *)
LEMMA QueryConcat ==
  \A r, s, u \in Seq(Query) : (r \o s) \o u = r \o (s \o u)
BY ConcatAssociative

(* What the kernel takes goes from the front of the frozen buffer to the    *)
(* end of the wire.                                                         *)
LEMMA WriteDoneFlow ==
  ASSUME TypeOK, OneWriter, BytesOK, ~error, NEW n \in 1..Unsent, WriteDone(n)
  PROVE  Flow' = Flow
<1>1. writing = "pending" /\ ~HasWrite(ioq)
  BY DEF WriteDone, OneWriter
<1>2. ~HasOk(ioq)
  BY <1>1 DEF HasOk, HasWrite, IsWrite
<1>3. pc[Loop] # "sent"
  BY <1>1 DEF OneWriter, Sending, ReqLabels, Threads
<1>4. bytes_sent = 0
  BY <1>1, <1>2, <1>3 DEF BytesOK
<1>5. sended \in 0..Len(frozen) /\ sended + n \in sended..Len(frozen)
      /\ sended + bytes_sent + 1 = sended + 1
  BY <1>4, FlowTypes DEF Unsent, TypeOK, BufferTypeOK
<1> DEFINE A == SubSeq(frozen, sended + 1, sended + n)
           B == SubSeq(frozen, sended + n + 1, Len(frozen))
<1>6. A \o B = Unreported /\ A \in Seq(Query) /\ B \in Seq(Query)
  BY <1>5, FlowTypes, SplitSuffix DEF Unreported
<1>7. Unreported' = B /\ wire' = wire \o A /\ UNCHANGED <<input, net, buff>>
  BY DEF WriteDone, Unreported
<1>8. Flow' = input \o net \o (wire \o A) \o B \o buff
  BY <1>7 DEF Flow, Unreported
<1> DEFINE X == input \o net
<1>9. /\ X \in Seq(Query) /\ wire \in Seq(Query) /\ X \o wire \in Seq(Query)
      /\ Flow = X \o wire \o Unreported \o buff
      /\ Flow' = X \o (wire \o A) \o B \o buff
  BY <1>8, FlowTypes
<1> HIDE DEF A, B, X
<1>10. X \o (wire \o A) = (X \o wire) \o A
  <2>1. X \in Seq(Query) /\ wire \in Seq(Query) /\ A \in Seq(Query)
    BY <1>6, <1>9
  <2> QED
    BY <2>1, QueryConcat
<1> DEFINE Y == X \o wire
<1>11. Y \in Seq(Query) /\ Flow = Y \o Unreported \o buff /\ Flow' = (Y \o A) \o B \o buff
  BY <1>9, <1>10
<1> HIDE DEF Y
<1>12. (Y \o A) \o B = Y \o (A \o B)
  BY <1>6, <1>11, QueryConcat
<1> QED
  BY <1>6, <1>11, <1>12

(* A reply of the server keeps Flow: queries become replies in order.       *)
LEMMA ReplyFlow ==
  ASSUME TypeOK, BytesOK, ~error, Reply
  PROVE  Flow' = Flow
<1>1. net' = Append(net, Head(wire)) /\ wire' = Tail(wire) /\ wire # <<>>
      /\ UNCHANGED <<input, frozen, sended, bytes_sent, buff>>
  BY DEF Reply
<1>2. Head(wire) \in Query /\ Tail(wire) \in Seq(Query)
  BY <1>1, FlowTypes, HeadTailProperties
<1>3. input \o Append(net, Head(wire)) = Append(input \o net, Head(wire))
  BY SMTT(20), <1>2, FlowTypes, AppendToConcat
<1>4. Append(input \o net, Head(wire)) \o Tail(wire) = (input \o net) \o wire
  BY <1>1, FlowTypes, MoveHead
<1>5. Flow' = input \o Append(net, Head(wire)) \o Tail(wire) \o Unreported \o buff
  BY <1>1 DEF Flow, Unreported
<1> QED
  BY <1>3, <1>4, <1>5, FlowTypes

(* A completed read keeps Flow: replies move into the input buffer in       *)
(* order.                                                                   *)
LEMMA ReadDoneFlow ==
  ASSUME TypeOK, BytesOK, ~error, NEW n \in 0..Len(net), ReadDone(n)
  PROVE  Flow' = Flow
<1> DEFINE A == SubSeq(net, 1, n)
           B == SubSeq(net, n + 1, Len(net))
<1>1. 0 \in 0..Len(net) /\ n \in 0..Len(net) /\ 0 + 1 = 1
  OBVIOUS
<1>2. A \o B = SubSeq(net, 1, Len(net)) /\ A \in Seq(Query) /\ B \in Seq(Query)
  BY <1>1, FlowTypes, SplitSuffix
<1>3. A \o B = net
  BY <1>2, FlowTypes, SubSeqFull
<1>4. Flow' = (input \o A) \o B \o wire \o Unreported \o buff
  BY DEF ReadDone, Flow, Unreported
<1> HIDE DEF A, B
<1>5. (input \o A) \o B = input \o net
  <2>1. input \in Seq(Query)
    BY FlowTypes
  <2>2. (input \o A) \o B = input \o (A \o B)
    BY <1>2, <2>1, QueryConcat
  <2> QED
    BY <1>3, <2>2
<1> QED
  BY <1>4, <1>5, FlowTypes

(* Parsing a reply takes the oldest element of Flow.                        *)
LEMMA ParseFlow ==
  ASSUME TypeOK, BytesOK, ~error, ParseReply \/ ParseUnexpected
  PROVE  Flow # <<>> /\ Head(Flow) = Head(input) /\ Flow' = Tail(Flow)
<1>1. input # <<>> /\ input' = Tail(input)
      /\ UNCHANGED <<net, wire, frozen, sended, bytes_sent, buff>>
  BY DEF ParseReply, ParseUnexpected
<1>2. Flow' = Tail(input) \o net \o wire \o Unreported \o buff
  BY <1>1 DEF Flow, Unreported
<1>3. /\ input \in Seq(Query) /\ net \in Seq(Query) /\ wire \in Seq(Query)
      /\ Unreported \in Seq(Query) /\ buff \in Seq(Query)
  BY FlowTypes
<1> DEFINE X == input \o net
           Y == X \o wire
           Z == Y \o Unreported
           T == Tail(input)
<1>4. X \in Seq(Query) /\ X # <<>> /\ Head(X) = Head(input) /\ Tail(X) = T \o net
  BY <1>1, <1>3, HeadTailConcat, ConcatProperties
<1> HIDE DEF X
<1>5. Y \in Seq(Query) /\ Y # <<>> /\ Head(Y) = Head(X) /\ Tail(Y) = Tail(X) \o wire
  BY <1>3, <1>4, HeadTailConcat, ConcatProperties
<1> HIDE DEF Y
<1>6. Z \in Seq(Query) /\ Z # <<>> /\ Head(Z) = Head(Y) /\ Tail(Z) = Tail(Y) \o Unreported
  BY <1>3, <1>5, HeadTailConcat, ConcatProperties
<1> HIDE DEF Z
<1>7. Z \o buff # <<>> /\ Head(Z \o buff) = Head(Z) /\ Tail(Z \o buff) = Tail(Z) \o buff
  BY <1>3, <1>6, HeadTailConcat
<1>8. Flow = Z \o buff
  BY FlowTypes DEF X, Y, Z
<1> QED
  BY <1>2, <1>4, <1>5, <1>6, <1>7, <1>8

(* A step that touches no buffer keeps Flow.                                *)
LEMMA FlowFrame ==
  ASSUME FlowUnchanged
  PROVE  Flow' = Flow
BY DEF FlowUnchanged, Flow

(* At most one thread is between the test for room and the end of           *)
(* add_query.                                                               *)
LEMMA OneAdder ==
  ASSUME TypeOK, MutexOK, NEW t \in Threads, NEW u \in Threads,
         pc[t] \in {"push_cb", "add_query"}, pc[u] \in {"push_cb", "add_query"}
  PROVE  t = u
BY DEF MutexOK, Admitted

(* A reply that finds no callback comes after an error: before one, the     *)
(* callback queue is as long as Flow, which is not empty.                   *)
LEMMA ReplyHasCallback ==
  ASSUME TypeOK, ArgOK, OneWriter, BytesOK, OrderOK, ParseUnexpected
  PROVE  error
<1> SUFFICES ASSUME ~error
             PROVE  FALSE
  OBVIOUS
<1>1. Flow # <<>> /\ Flow \in Seq(Query) /\ cb_queue = <<>>
  BY ParseFlow, FlowTypes DEF ParseUnexpected
<1>2. CASE \A t \in Threads : pc[t] # "add_query"
  BY <1>1, <1>2 DEF OrderOK
<1>3. CASE \E t \in Threads : pc[t] = "add_query"
  <2> PICK t \in Threads : pc[t] = "add_query"
    BY <1>3
  <2>1. arg[t] \in Query /\ cb_queue = Append(Flow, arg[t])
    BY DEF ArgOK, PushingLabels, OrderOK
  <2>2. Append(Flow, arg[t]) # <<>>
    BY <1>1, <2>1, AppendProperties
  <2> QED
    BY <1>1, <2>1, <2>2
<1> QED
  BY <1>2, <1>3

(* Every step keeps the callback queue equal to Flow until the first error, *)
(* a thread inside add_query excepted, and every answer with its own query. *)
LEMMA OrderStep ==
  ASSUME TypeOK, ArgOK, OneWriter, BytesOK, MutexOK, OrderOK, [Next]_vars
  PROVE  OrderOK'
<1> USE ThreadAssumption DEF TypeOK, ThreadsTypeOK, CallbacksTypeOK, OrderOK, OwnAnswer, Threads
<1>1. CASE \E t \in Clients, q \in Query : CallPush(t, q)
  BY <1>1, FlowFrame DEF CallPush, FlowUnchanged
<1>2. CASE \E t \in Threads : PushIgnored(t)
  BY <1>2, FlowFrame DEF PushIgnored, FlowUnchanged, Return, Ignored
<1>3. CASE \E t \in Threads : PushWait(t)
  BY <1>3, FlowFrame DEF PushWait, FlowUnchanged
<1>4. CASE \E t \in Threads : PushCallback(t)
  <2> PICK t \in Threads : PushCallback(t)
    BY <1>4
  <2>1. Flow' = Flow
    BY FlowFrame DEF PushCallback, FlowUnchanged
  <2>2. pc[t] = "push_cb" /\ \A u \in Threads : pc[u] # "add_query"
    BY OneAdder DEF PushCallback
  <2>3. ~error => cb_queue' = Append(Flow, arg[t])
    BY <2>2 DEF PushCallback
  <2> QED
    BY <2>1, <2>2, <2>3 DEF PushCallback
<1>5. CASE \E t \in Threads : AddQuery(t)
  <2> PICK t \in Threads : AddQuery(t)
    BY <1>5
  <2>1. pc[t] = "add_query" /\ arg[t] \in Query
    BY DEF AddQuery, ArgOK, PushingLabels
  <2>2. \A u \in Threads : pc'[u] # "add_query"
    BY <2>1, OneAdder DEF AddQuery
  <2>3. ~error => Flow' = Append(Flow, arg[t])
    BY <2>1, AddQueryFlow
  <2>4. ~error => cb_queue' = Flow'
    BY <2>1, <2>3 DEF AddQuery
  <2> QED
    BY <2>1, <2>2, <2>4 DEF AddQuery
<1>6. CASE \E t \in Threads : CompareExchange(t)
  BY <1>6, FlowFrame DEF CompareExchange, FlowUnchanged, Return
<1>7. CASE \E t \in Threads : NothingToSend(t)
  BY <1>7, FlowFrame DEF NothingToSend, FlowUnchanged
<1>8. CASE \E t \in Threads : Unset(t)
  BY <1>8, FlowFrame DEF Unset, FlowUnchanged, Return
<1>9. CASE \E t \in Threads : TimerCheck(t)
  BY <1>9, FlowFrame DEF TimerCheck, FlowUnchanged
<1>10. CASE \E t \in Threads : TimerStart(t)
  BY <1>10, FlowFrame DEF TimerStart, FlowUnchanged
<1>11. CASE \E t \in Threads : GetBuffer(t)
  <2> PICK t \in Threads : GetBuffer(t)
    BY <1>11
  <2>1. ~error => Flow' = Flow
    BY GetBufferFlow
  <2> QED
    BY <2>1 DEF GetBuffer
<1>12. CASE \E t \in Threads : Write(t)
  BY <1>12, FlowFrame DEF Write, FlowUnchanged, Return
<1>13. CASE Dispatch
  BY <1>13, FlowFrame DEF Dispatch, FlowUnchanged, FirstLabel, Events,
       LinkTypeOK
<1>14. CASE ReqSent
  <2>1. ~error => Flow' = Flow
    BY <1>14, ReqSentFlow
  <2> QED
    BY <1>14, <2>1 DEF ReqSent, Notified
<1>15. CASE ReqDone
  BY <1>15, FlowFrame DEF ReqDone, FlowUnchanged
<1>16. CASE SocketErrorAgain
  BY <1>16, FlowFrame DEF SocketErrorAgain, FlowUnchanged
<1>17. CASE SocketError
  BY <1>17 DEF SocketError
<1>18. CASE Drain
  BY <1>18 DEF Drain, MutexOK
<1>19. CASE ParseReply
  <2> SUFFICES ASSUME ~error
               PROVE  OrderOK'
    BY <1>19 DEF ParseReply
  <2>1. Flow # <<>> /\ Head(Flow) = Head(input) /\ Flow' = Tail(Flow) /\ Flow \in Seq(Query)
    BY <1>19, ParseFlow, FlowTypes
  <2>2. cb_queue' = Tail(cb_queue) /\ cur' = [cb |-> Head(cb_queue), reply |-> Head(input)]
        /\ UNCHANGED <<arg, outcome>> /\ pc' = [pc EXCEPT ![Loop] = "callback"]
    BY <1>19 DEF ParseReply
  <2>3. OwnAnswer'
    BY <2>2 DEF OwnAnswer
  <2>4. CASE \A t \in Threads : pc[t] # "add_query"
    BY <2>1, <2>2, <2>3, <2>4
  <2>5. CASE \E t \in Threads : pc[t] = "add_query"
    <3> PICK t \in Threads : pc[t] = "add_query"
      BY <2>5
    <3>1. \A u \in Threads : pc[u] = "add_query" => u = t
      BY OneAdder
    <3>2. cb_queue = Append(Flow, arg[t]) /\ t # Loop
      BY <1>19 DEF ParseReply
    <3>3. Head(cb_queue) = Head(Flow) /\ Tail(cb_queue) = Append(Tail(Flow), arg[t])
      BY <2>1, <3>2, HeadTailAppend
    <3>4. \A u \in Threads : pc'[u] = "add_query" => u = t
      BY <2>2, <3>1
    <3>5. pc'[t] = "add_query"
      BY <2>2, <3>2
    <3> QED
      BY <2>1, <2>2, <2>3, <3>2, <3>3, <3>4, <3>5
  <2> QED
    BY <2>4, <2>5
<1>20. CASE ParseUnexpected
  BY <1>20, ReplyHasCallback, FlowFrame DEF ParseUnexpected
<1>21. CASE ParseNothing
  BY <1>21, FlowFrame DEF ParseNothing, FlowUnchanged
<1>22. CASE Callback
  <2>1. Flow' = Flow
    BY <1>22, FlowFrame DEF Callback, FlowUnchanged
  <2>2. outcome' = [outcome EXCEPT ![cur.cb] = Answered(cur.reply)] /\ pc[Loop] = "callback"
        /\ UNCHANGED <<error, cb_queue>>
    BY <1>22 DEF Callback
  <2>3. ~error => OwnAnswer'
    BY <2>2 DEF OwnAnswer, Answered
  <2>4. \A t \in Threads : (pc'[t] = "add_query" <=> pc[t] = "add_query")
                          /\ (pc[t] = "add_query" => arg'[t] = arg[t])
    BY <1>22, <2>2 DEF Callback
  <2>5. pc'[Loop] # "callback"
    BY <1>22 DEF Callback
  <2> QED
    BY <2>1, <2>2, <2>3, <2>4, <2>5
<1>23. CASE WorkDone
  BY <1>23, FlowFrame DEF WorkDone, FlowUnchanged
<1>24. CASE NextReply
  BY <1>24, FlowFrame DEF NextReply, FlowUnchanged
<1>25. CASE TailBusy
  BY <1>25, FlowFrame DEF TailBusy, FlowUnchanged
<1>26. CASE TailIdle
  BY <1>26, FlowFrame DEF TailIdle, FlowUnchanged
<1>27. CASE Disarm
  BY <1>27, FlowFrame DEF Disarm, FlowUnchanged
<1>28. CASE Cancel
  BY <1>28, FlowFrame DEF Cancel, FlowUnchanged
<1>29. CASE \E n \in 1..Unsent : WriteDone(n)
  <2> PICK n \in 1..Unsent : WriteDone(n)
    BY <1>29
  <2>1. ~error => Flow' = Flow
    BY WriteDoneFlow
  <2> QED
    BY <2>1 DEF WriteDone
<1>30. CASE WritePosted
  BY <1>30, FlowFrame DEF WritePosted, FlowUnchanged
<1>31. CASE WriteFails
  BY <1>31, FlowFrame DEF WriteFails, FlowUnchanged
<1>32. CASE Reply
  <2>1. ~error => Flow' = Flow
    BY <1>32, ReplyFlow
  <2> QED
    BY <1>32, <2>1 DEF Reply
<1>33. CASE \E n \in 0..Len(net) : ReadDone(n)
  <2> PICK n \in 0..Len(net) : ReadDone(n)
    BY <1>33
  <2>1. ~error => Flow' = Flow
    BY ReadDoneFlow
  <2> QED
    BY <2>1 DEF ReadDone
<1>34. CASE ReadFails
  BY <1>34, FlowFrame DEF ReadFails, FlowUnchanged
<1>35. CASE Break
  BY <1>35, FlowFrame DEF Break, FlowUnchanged
<1>36. CASE TimerExpires
  BY <1>36, FlowFrame DEF TimerExpires, FlowUnchanged
<1>37. CASE
        \/ Stop
        \/ StopCheck
        \/ StopWait
        \/ Destroy
  BY <1>37, FlowFrame DEF FlowUnchanged, Stop, StopCheck, StopWait, Destroy
<1>38. CASE UNCHANGED vars
  BY <1>38, FlowFrame DEF FlowUnchanged
<1> QED
  BY <1>1, <1>2, <1>3, <1>4, <1>5, <1>6, <1>7, <1>8, <1>9, <1>10,
       <1>11, <1>12, <1>13, <1>14, <1>15, <1>16, <1>17, <1>18, <1>19, <1>20,
       <1>21, <1>22, <1>23, <1>24, <1>25, <1>26, <1>27, <1>28, <1>29, <1>30,
       <1>31, <1>32, <1>33, <1>34, <1>35, <1>36, <1>37, <1>38 DEF Next, PushStep, LoopStep, OwnerStep, Threads

(* No step throws the sync error.                                           *)
LEMMA SyncStep ==
  ASSUME TypeOK, ArgOK, OneWriter, BytesOK, OrderOK, NoSyncError, [Next]_vars
  PROVE  NoSyncError'
<1> USE DEF NoSyncError
<1>1. CASE Dispatch
  BY <1>1 DEF Dispatch
<1>2. CASE ReqSent
  BY <1>2 DEF ReqSent
<1>3. CASE SocketError
  BY <1>3 DEF SocketError
<1>4. CASE ParseUnexpected
  BY <1>4, ReplyHasCallback DEF ParseUnexpected
<1>5. CASE WorkDone
  BY <1>5 DEF WorkDone
<1>6. CASE Destroy
  BY <1>6 DEF Destroy
<1>7. CASE
        \/ \E t \in Clients, q \in Query : CallPush(t, q)
        \/ \E t \in Threads : PushIgnored(t)
        \/ \E t \in Threads : PushWait(t)
        \/ \E t \in Threads : PushCallback(t)
        \/ \E t \in Threads : AddQuery(t)
        \/ \E t \in Threads : CompareExchange(t)
  BY <1>7 DEF CallPush, PushIgnored, PushWait, PushCallback, AddQuery,
       CompareExchange
<1>8. CASE
        \/ \E t \in Threads : NothingToSend(t)
        \/ \E t \in Threads : Unset(t)
        \/ \E t \in Threads : TimerCheck(t)
        \/ \E t \in Threads : TimerStart(t)
        \/ \E t \in Threads : GetBuffer(t)
        \/ \E t \in Threads : Write(t)
  BY <1>8 DEF NothingToSend, Unset, TimerCheck, TimerStart, GetBuffer, Write
<1>9. CASE
        \/ ReqDone
        \/ SocketErrorAgain
        \/ Drain
        \/ ParseReply
        \/ ParseNothing
        \/ Callback
  BY <1>9 DEF ReqDone, SocketErrorAgain, Drain, ParseReply, ParseNothing,
       Callback
<1>10. CASE
        \/ NextReply
        \/ TailBusy
        \/ TailIdle
        \/ Disarm
        \/ Cancel
  BY <1>10 DEF NextReply, TailBusy, TailIdle, Disarm, Cancel
<1>11. CASE
        \/ Stop
        \/ StopCheck
        \/ StopWait
        \/ \E n \in 1..Unsent : WriteDone(n)
        \/ WritePosted
        \/ WriteFails
  BY <1>11 DEF Stop, StopCheck, StopWait, WriteDone, WritePosted, WriteFails
<1>12. CASE
        \/ Reply
        \/ \E n \in 0..Len(net) : ReadDone(n)
        \/ ReadFails
        \/ Break
        \/ TimerExpires
  BY <1>12 DEF Reply, ReadDone, ReadFails, Break, TimerExpires
<1>13. CASE UNCHANGED vars
  BY <1>13
<1> QED
  BY <1>1, <1>2, <1>3, <1>4, <1>5, <1>6, <1>7, <1>8, <1>9, <1>10,
       <1>11, <1>12, <1>13 DEF Next, PushStep, LoopStep, OwnerStep, Threads

(* Every step keeps the buffer below its limit: the test for room and       *)
(* add_query happen under one holding of the mutex.                         *)
LEMMA RoomStep ==
  ASSUME TypeOK, MutexOK, RoomOK, [Next]_vars
  PROVE  RoomOK'
<1> USE ThreadAssumption, BuffAssumption DEF TypeOK, ThreadsTypeOK, BufferTypeOK, RoomOK, BufferWithinLimit,
        Admitted, Threads
<1>1. CASE \E t \in Clients, q \in Query : CallPush(t, q)
  BY <1>1 DEF CallPush
<1>2. CASE \E t \in Threads : PushIgnored(t)
  BY <1>2 DEF PushIgnored, Return
<1>3. CASE \E t \in Threads : PushWait(t)
  BY <1>3 DEF PushWait, Overflow
<1>4. CASE \E t \in Threads : PushCallback(t)
  BY <1>4 DEF PushCallback
<1>5. CASE \E t \in Threads : AddQuery(t)
  <2> PICK t \in Threads : AddQuery(t)
    BY <1>5
  <2>1. pc[t] = "add_query" /\ \A u \in Threads : pc'[u] \notin Admitted
    BY OneAdder DEF AddQuery
  <2>2. Len(buff') = Len(buff) + 1
    BY DEF AddQuery
  <2> QED
    BY <2>1, <2>2
<1>6. CASE \E t \in Threads : CompareExchange(t)
  BY <1>6 DEF CompareExchange, Return
<1>7. CASE \E t \in Threads : NothingToSend(t)
  BY <1>7 DEF NothingToSend
<1>8. CASE \E t \in Threads : Unset(t)
  BY <1>8 DEF Unset, Return
<1>9. CASE \E t \in Threads : TimerCheck(t)
  BY <1>9 DEF TimerCheck
<1>10. CASE \E t \in Threads : TimerStart(t)
  BY <1>10 DEF TimerStart
<1>11. CASE \E t \in Threads : GetBuffer(t)
  BY <1>11 DEF GetBuffer
<1>12. CASE \E t \in Threads : Write(t)
  BY <1>12 DEF Write, Return
<1>13. CASE Dispatch
  BY <1>13 DEF Dispatch, FirstLabel, LinkTypeOK, Events
<1>14. CASE ReqSent
  BY <1>14 DEF ReqSent, Notified
<1>15. CASE ReqDone
  BY <1>15 DEF ReqDone
<1>16. CASE SocketErrorAgain
  BY <1>16 DEF SocketErrorAgain
<1>17. CASE SocketError
  BY <1>17 DEF SocketError, Notified
<1>18. CASE Drain
  BY <1>18 DEF Drain
<1>19. CASE ParseReply
  BY <1>19 DEF ParseReply
<1>20. CASE ParseUnexpected
  BY <1>20 DEF ParseUnexpected
<1>21. CASE ParseNothing
  BY <1>21 DEF ParseNothing
<1>22. CASE Callback
  BY <1>22 DEF Callback
<1>23. CASE WorkDone
  BY <1>23 DEF WorkDone
<1>24. CASE NextReply
  BY <1>24 DEF NextReply
<1>25. CASE TailBusy
  BY <1>25 DEF TailBusy
<1>26. CASE TailIdle
  BY <1>26 DEF TailIdle
<1>27. CASE Disarm
  BY <1>27 DEF Disarm
<1>28. CASE Cancel
  BY <1>28 DEF Cancel
<1>29. CASE
        \/ Stop
        \/ StopCheck
        \/ StopWait
        \/ Destroy
        \/ \E n \in 1..Unsent : WriteDone(n)
        \/ WritePosted
  BY <1>29 DEF Stop, StopCheck, StopWait, Destroy, WriteDone, WritePosted
<1>30. CASE
        \/ WriteFails
        \/ Reply
        \/ \E n \in 0..Len(net) : ReadDone(n)
        \/ ReadFails
        \/ Break
        \/ TimerExpires
  BY <1>30 DEF WriteFails, Reply, ReadDone, ReadFails, Break, TimerExpires
<1>31. CASE UNCHANGED vars
  BY <1>31
<1> QED
  BY <1>1, <1>2, <1>3, <1>4, <1>5, <1>6, <1>7, <1>8, <1>9, <1>10,
       <1>11, <1>12, <1>13, <1>14, <1>15, <1>16, <1>17, <1>18, <1>19, <1>20,
       <1>21, <1>22, <1>23, <1>24, <1>25, <1>26, <1>27, <1>28, <1>29, <1>30,
       <1>31 DEF Next, PushStep, LoopStep, OwnerStep, Threads

(* Every step keeps a stopped processor closed to pushes, and its promise   *)
(* unset until the last reply or an error.                                  *)
LEMMA StopStep ==
  ASSUME TypeOK, ArgOK, StopOK, [Next]_vars
  PROVE  StopOK'
<1> USE ThreadAssumption, QueryAssumption DEF TypeOK, ThreadsTypeOK, CallbacksTypeOK, FlagsTypeOK, ArgOK,
        PushingLabels, StopOK, StopDrains, Threads
<1>1. CASE \E t \in Clients, q \in Query : CallPush(t, q)
  BY <1>1 DEF CallPush
<1>2. CASE \E t \in Threads : PushIgnored(t)
  BY <1>2 DEF PushIgnored, Return
<1>3. CASE \E t \in Threads : PushWait(t)
  BY <1>3 DEF PushWait
<1>4. CASE \E t \in Threads : PushCallback(t)
  BY <1>4 DEF PushCallback
<1>5. CASE \E t \in Threads : AddQuery(t)
  BY <1>5 DEF AddQuery
<1>6. CASE \E t \in Threads : CompareExchange(t)
  BY <1>6 DEF CompareExchange, Return
<1>7. CASE \E t \in Threads : NothingToSend(t)
  BY <1>7 DEF NothingToSend
<1>8. CASE \E t \in Threads : Unset(t)
  BY <1>8 DEF Unset, Return
<1>9. CASE \E t \in Threads : TimerCheck(t)
  BY <1>9 DEF TimerCheck
<1>10. CASE \E t \in Threads : TimerStart(t)
  BY <1>10 DEF TimerStart
<1>11. CASE \E t \in Threads : GetBuffer(t)
  BY <1>11 DEF GetBuffer
<1>12. CASE \E t \in Threads : Write(t)
  BY <1>12 DEF Write, Return
<1>13. CASE Dispatch
  BY <1>13 DEF Dispatch, FirstLabel, LinkTypeOK, Events
<1>14. CASE ReqSent
  BY <1>14 DEF ReqSent, Notified
<1>15. CASE ReqDone
  BY <1>15 DEF ReqDone
<1>16. CASE SocketErrorAgain
  BY <1>16 DEF SocketErrorAgain
<1>17. CASE SocketError
  BY <1>17 DEF SocketError, Notified
<1>18. CASE Drain
  BY <1>18 DEF Drain
<1>19. CASE ParseReply
  BY <1>19 DEF ParseReply
<1>20. CASE ParseUnexpected
  BY <1>20 DEF ParseUnexpected
<1>21. CASE ParseNothing
  BY <1>21 DEF ParseNothing
<1>22. CASE Callback
  BY <1>22 DEF Callback
<1>23. CASE WorkDone
  BY <1>23 DEF WorkDone, LastReply
<1>24. CASE NextReply
  BY <1>24 DEF NextReply
<1>25. CASE TailBusy
  BY <1>25 DEF TailBusy
<1>26. CASE TailIdle
  BY <1>26 DEF TailIdle
<1>27. CASE Disarm
  BY <1>27 DEF Disarm
<1>28. CASE Cancel
  BY <1>28 DEF Cancel
<1>29. CASE Stop
  BY <1>29 DEF Stop
<1>30. CASE StopCheck
  BY <1>30 DEF StopCheck
<1>31. CASE StopWait
  BY <1>31 DEF StopWait
<1>32. CASE Destroy
  BY <1>32 DEF Destroy
<1>33. CASE
        \/ \E n \in 1..Unsent : WriteDone(n)
        \/ WritePosted
        \/ WriteFails
        \/ Reply
        \/ \E n \in 0..Len(net) : ReadDone(n)
        \/ ReadFails
  BY <1>33 DEF WriteDone, WritePosted, WriteFails, Reply, ReadDone, ReadFails
<1>34. CASE
        \/ Break
        \/ TimerExpires
  BY <1>34 DEF Break, TimerExpires
<1>35. CASE UNCHANGED vars
  BY <1>35
<1> QED
  BY <1>1, <1>2, <1>3, <1>4, <1>5, <1>6, <1>7, <1>8, <1>9, <1>10,
       <1>11, <1>12, <1>13, <1>14, <1>15, <1>16, <1>17, <1>18, <1>19, <1>20,
       <1>21, <1>22, <1>23, <1>24, <1>25, <1>26, <1>27, <1>28, <1>29, <1>30,
       <1>31, <1>32, <1>33, <1>34, <1>35 DEF Next, PushStep, LoopStep, OwnerStep, Threads

(* A step that makes room, or ends a write, is one that notifies, or         *)
(* get_buffer, which leaves a write to come.                                *)
LEMMA WaitStep ==
  ASSUME TypeOK, WaiterHasCause, [Next]_vars
  PROVE  WaiterHasCause'
<1> USE ThreadAssumption, BuffAssumption DEF TypeOK, ThreadsTypeOK, BufferTypeOK, WaiterHasCause, Overflow, Threads
<1>1. CASE \E t \in Clients, q \in Query : CallPush(t, q)
  BY <1>1 DEF CallPush
<1>2. CASE \E t \in Threads : PushIgnored(t)
  BY <1>2 DEF PushIgnored, Return
<1>3. CASE \E t \in Threads : PushWait(t)
  BY <1>3 DEF PushWait
<1>4. CASE \E t \in Threads : PushCallback(t)
  BY <1>4 DEF PushCallback
<1>5. CASE \E t \in Threads : AddQuery(t)
  <2> PICK t \in Threads : AddQuery(t)
    BY <1>5
  <2>1. Len(buff') = Len(buff) + 1 /\ \A u \in Threads : pc'[u] = "wait" => pc[u] = "wait"
    BY DEF AddQuery
  <2> QED
    BY <2>1 DEF AddQuery
<1>6. CASE \E t \in Threads : CompareExchange(t)
  BY <1>6 DEF CompareExchange, Return
<1>7. CASE \E t \in Threads : NothingToSend(t)
  BY <1>7 DEF NothingToSend
<1>8. CASE \E t \in Threads : Unset(t)
  BY <1>8 DEF Unset, Return
<1>9. CASE \E t \in Threads : TimerCheck(t)
  BY <1>9 DEF TimerCheck
<1>10. CASE \E t \in Threads : TimerStart(t)
  BY <1>10 DEF TimerStart
<1>11. CASE \E t \in Threads : GetBuffer(t)
  BY <1>11 DEF GetBuffer
<1>12. CASE \E t \in Threads : Write(t)
  BY <1>12 DEF Write, Return
<1>13. CASE Dispatch
  BY <1>13 DEF Dispatch, FirstLabel, LinkTypeOK, Events
<1>14. CASE ReqSent
  BY <1>14 DEF ReqSent, Notified
<1>15. CASE ReqDone
  BY <1>15 DEF ReqDone
<1>16. CASE SocketErrorAgain
  BY <1>16 DEF SocketErrorAgain
<1>17. CASE SocketError
  BY <1>17 DEF SocketError, Notified
<1>18. CASE Drain
  BY <1>18 DEF Drain
<1>19. CASE ParseReply
  BY <1>19 DEF ParseReply
<1>20. CASE ParseUnexpected
  BY <1>20 DEF ParseUnexpected
<1>21. CASE ParseNothing
  BY <1>21 DEF ParseNothing
<1>22. CASE Callback
  BY <1>22 DEF Callback
<1>23. CASE WorkDone
  BY <1>23 DEF WorkDone
<1>24. CASE NextReply
  BY <1>24 DEF NextReply
<1>25. CASE TailBusy
  BY <1>25 DEF TailBusy
<1>26. CASE TailIdle
  BY <1>26 DEF TailIdle
<1>27. CASE Disarm
  BY <1>27 DEF Disarm
<1>28. CASE Cancel
  BY <1>28 DEF Cancel
<1>29. CASE
        \/ Stop
        \/ StopCheck
        \/ StopWait
        \/ Destroy
        \/ \E n \in 1..Unsent : WriteDone(n)
        \/ WritePosted
  BY <1>29 DEF Stop, StopCheck, StopWait, Destroy, WriteDone, WritePosted
<1>30. CASE
        \/ WriteFails
        \/ Reply
        \/ \E n \in 0..Len(net) : ReadDone(n)
        \/ ReadFails
        \/ Break
        \/ TimerExpires
  BY <1>30 DEF WriteFails, Reply, ReadDone, ReadFails, Break, TimerExpires
<1>31. CASE UNCHANGED vars
  BY <1>31
<1> QED
  BY <1>1, <1>2, <1>3, <1>4, <1>5, <1>6, <1>7, <1>8, <1>9, <1>10,
       <1>11, <1>12, <1>13, <1>14, <1>15, <1>16, <1>17, <1>18, <1>19, <1>20,
       <1>21, <1>22, <1>23, <1>24, <1>25, <1>26, <1>27, <1>28, <1>29, <1>30,
       <1>31 DEF Next, PushStep, LoopStep, OwnerStep, Threads

-----------------------------------------------------------------------------
(* The constructor leaves the processor in a state where IInv holds. *)
LEMMA InitInv ==
  ASSUME Init
  PROVE  IInv
<1> USE ThreadAssumption, QueryAssumption, BuffAssumption DEF Init, Threads
<1>1. TypeOK
  <2>1. ThreadsTypeOK
    BY DEF ThreadsTypeOK, LoopLabels
  <2>2. CallbacksTypeOK
    BY DEF CallbacksTypeOK, Uncalled, NoCallback, Service!Outcome
  <2>3. BufferTypeOK
    <3>1. <<>> \in Seq(Query)
      OBVIOUS
    <3> QED
      BY <3>1, Zenon DEF BufferTypeOK
  <2>4. FlagsTypeOK
    BY DEF FlagsTypeOK
  <2>5. LinkTypeOK
    BY DEF LinkTypeOK
  <2> QED
    BY <2>1, <2>2, <2>3, <2>4, <2>5 DEF TypeOK
<1>2. ArgOK
  BY DEF ArgOK, PushingLabels, NoCallback
<1>3. OneWriter
  BY DEF OneWriter, Sending, ReqLabels, HasWrite, OneWrite
<1>4. BytesOK /\ MutexOK
  BY DEF BytesOK, MutexOK, Admitted
<1>5. Flow = <<>>
  BY DEF Flow
<1>6. OrderOK
  BY <1>5 DEF OrderOK, OwnAnswer, Uncalled
<1>7. NoSyncError /\ RoomOK /\ StopOK
  BY DEF NoSyncError, RoomOK, BufferWithinLimit, Admitted, StopOK, StopDrains
<1> QED
  BY <1>1, <1>2, <1>3, <1>4, <1>6, <1>7 DEF IInv

(* IInv is inductive. *)
LEMMA NextInv ==
  ASSUME IInv, [Next]_vars
  PROVE  IInv'
<1> USE DEF IInv
<1>1. TypeOK' /\ ArgOK'
  BY ThreadsType, CallbacksType, BufferType, FlagsType, LinkType DEF TypeOK
<1>2. OneWriter' /\ BytesOK' /\ MutexOK'
  BY OneWriterStep, BytesStep, MutexStep
<1>3. OrderOK' /\ NoSyncError'
  BY OrderStep, SyncStep
<1>4. RoomOK' /\ StopOK'
  BY RoomStep, StopStep
<1> QED
  BY <1>1, <1>2, <1>3, <1>4

(* Every reachable state satisfies the inductive invariant. *)
THEOREM Invariance == Spec => []IInv
<1>1. Init => IInv
  BY InitInv
<1>2. IInv /\ [Next]_vars => IInv'
  BY NextInv
<1> QED
  BY <1>1, <1>2, PTL DEF Spec

(* Every variable keeps its type, whatever threads, queries and breaks.     *)
THEOREM TypeCorrect == Spec => []TypeOK
<1>1. IInv => TypeOK
  BY DEF IInv
<1> QED
  BY <1>1, Invariance, PTL

(* Two writes are never outstanding together, although every pushing thread *)
(* and every write handler may start one: __req_proc_manager's exchange,    *)
(* and the store that ends it, make _req_proc_running a token.              *)
THEOREM SingleWriter == Spec => []OneWriter
<1>1. IInv => OneWriter
  BY DEF IInv
<1> QED
  BY <1>1, Invariance, PTL

(* Until the first error the callback queue and the queries in the buffers  *)
(* and on the wire are the same sequence, but for the query of a thread     *)
(* between _cb_queue.push and add_query (pipeline::push under _buff_mux).   *)
THEOREM CallbackOrder == Spec => []CallbacksMatchQueries
<1>1. IInv => CallbacksMatchQueries
  BY DEF IInv, OrderOK, CallbacksMatchQueries
<1> QED
  BY <1>1, Invariance, PTL

(* Before the first error every callback gets the reply of its own query    *)
(* (resp_handler); after one it may get another's, as a run shows.          *)
THEOREM RightReply == Spec => [](~error => OwnAnswer)
<1>1. IInv => (~error => OwnAnswer)
  BY DEF IInv, OrderOK
<1> QED
  BY <1>1, Invariance, PTL

(* resp_handler never throws "Query/resp processors sync error." with a     *)
(* server that answers in order.                                            *)
THEOREM NeverOutOfSync == Spec => []NoSyncError
<1>1. IInv => NoSyncError
  BY DEF IInv
<1> QED
  BY <1>1, Invariance, PTL

(* However many threads wait for room and are woken by one notify_all, the  *)
(* buffer stays below max_buff_size (check_overflow and add_query).         *)
THEOREM RoomKept == Spec => []BufferWithinLimit
<1>1. IInv => BufferWithinLimit
  BY DEF IInv, RoomOK
<1> QED
  BY <1>1, Invariance, PTL

(* When stop() returns on a live connection every accepted query has had    *)
(* its callback called or taken (proc_abstract::stop, _work_done_report).   *)
THEOREM StopWaitsForAll == Spec => []StopDrains
<1>1. IInv => StopDrains
  BY DEF IInv, StopOK
<1> QED
  BY <1>1, Invariance, PTL

(* No thread sleeps beside free room: whoever waits in push() waits for a    *)
(* buffer that is full or for a write whose handler will notify.            *)
THEOREM NobodyWaitsInVain == Spec => []WaiterHasCause
<1>1. Init => WaiterHasCause
  BY DEF Init, WaiterHasCause
<1>2. IInv /\ WaiterHasCause /\ [Next]_vars => WaiterHasCause'
  BY WaitStep DEF IInv
<1> QED
  BY <1>1, <1>2, Invariance, PTL DEF Spec
=============================================================================
