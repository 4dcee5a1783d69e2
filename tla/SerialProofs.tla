---------------------------- MODULE SerialProofs ----------------------------
(***************************************************************************)
(* Theorems about Serial for every number of threads and queries, every    *)
(* limit of the queue and of a batch, and connections that break or not:   *)
(* the inductive invariant, the properties it implies, and that the serial *)
(* processor implements CallbackService but for the late push.             *)
(***************************************************************************)
EXTENDS SerialInvariant, SequenceFacts, TLAPS

USE DEF IsRunning, At, OwnerAt, Goto, vars, threadVars, queueVars, cbVars, stopVars,
        clockVars, linkVars, OwnerVars, EnvUnchanged

(* A fresh query is a query, and nobody has it. *)
LEMMA FreshFacts ==
  ASSUME FreshQueries # {}, NEW q, q = CHOOSE r \in FreshQueries : TRUE
  PROVE  q \in Query /\ Fresh(q)
BY DEF FreshQueries

(* The head and the tail of a sequence that is not empty. *)
LEMMA HeadTail ==
  ASSUME NEW S, NEW s \in Seq(S), s # <<>>
  PROVE  /\ Head(s) \in S /\ Tail(s) \in Seq(S) /\ Len(Tail(s)) = Len(s) - 1
         /\ Head(s) = s[1] /\ DOMAIN s = 1..Len(s) /\ Len(s) \in Nat /\ Len(s) > 0
         /\ \A i \in 1..Len(s) - 1 : Tail(s)[i] = s[i + 1]
BY HeadTailProperties

(* Appending puts one element behind the others. *)
LEMMA AppendFacts ==
  ASSUME NEW S, NEW s \in Seq(S), NEW e \in S
  PROVE  /\ Append(s, e) \in Seq(S) /\ Len(Append(s, e)) = Len(s) + 1 /\ Append(s, e) # <<>>
         /\ DOMAIN s = 1..Len(s) /\ DOMAIN Append(s, e) = 1..Len(s) + 1 /\ Len(s) \in Nat
         /\ Append(s, e)[Len(s) + 1] = e
         /\ \A i \in 1..Len(s) : Append(s, e)[i] = s[i]
BY AppendProperties

(* Every step keeps the threads where a thread can be. *)
LEMMA ThreadsType ==
  ASSUME IInv, [Next]_vars
  PROVE  ThreadsTypeOK'
<1> USE SerialThreadAssumption, SerialQueryAssumption
    DEF TypeOK, IInv, ThreadsTypeOK, PushLabels, LoopLabels, Threads
<1>1. CASE \E t \in Clients : CallPush(t)
  <2>1. PICK t \in Clients : CallPush(t)
    BY <1>1
  <2>2. (CHOOSE q \in FreshQueries : TRUE) \in Query
    BY <2>1, FreshFacts DEF CallPush
  <2> QED
    BY <2>1, <2>2 DEF CallPush
<1>2. CASE \E t \in Threads : PushIgnored(t)
  BY <1>2 DEF PushIgnored, Return
<1>3. CASE \E t \in Threads : CompareExchange(t)
  BY <1>3 DEF CompareExchange, Return
<1>4. CASE \E t \in Threads : NothingToSend(t)
  BY <1>4 DEF NothingToSend
<1>5. CASE \E t \in Threads : Unset(t)
  BY <1>5 DEF Unset, Return
<1>6. CASE \E t \in Threads : Put(t)
  BY <1>6 DEF Put
<1>7. CASE \E t \in Threads : Notify(t)
  BY <1>7 DEF Notify, Notified
<1>8. CASE \E t \in Threads : Write(t)
  BY <1>8 DEF Write, Return
<1>9. CASE ReqSent
  BY <1>9 DEF ReqSent, Handle
<1>10. CASE ReqFailed
  BY <1>10 DEF ReqFailed, Handle
<1>11. CASE RespRead
  BY <1>11 DEF RespRead, Handle
<1>12. CASE TimeoutHandler
  BY <1>12 DEF TimeoutHandler, Handle
<1>13. CASE SocketError
  BY <1>13 DEF SocketError, Notified
<1>14. CASE ParseReply
  <2>1. ParseReply
    BY <1>14
  <2>2. pc' = pc \/ pc' = [pc EXCEPT ![Loop] = "callback"]
    BY <2>1 DEF ParseReply
  <2>3. arg' = arg /\ mux' = mux
    BY <2>1 DEF ParseReply
  <2> QED
    BY <2>2, <2>3
<1>15. CASE Callback
  BY <1>15 DEF Callback
<1>16. CASE
        \/ \E t \in Threads : PushEnters(t)
        \/ \E t \in Threads : PushWait(t)
        \/ \E t \in Threads : PushQuery(t)
        \/ \E t \in Threads : Take(t)
        \/ \E t \in Threads : TakeNothing(t)
        \/ Drain
        \/ ParseNothing
        \/ ReadAgain
        \/ WorkDone
        \/ WorkGoesOn
        \/ Release
        \/ Stop
  BY <1>16 DEF PushEnters, PushWait, PushQuery, Take, TakeNothing, Drain, ParseNothing,
     ReadAgain, WorkDone, WorkGoesOn, Release, Stop
<1>17. CASE
        \/ StopCheckSended
        \/ StopCheckQueued
        \/ StopWait
        \/ Destroy
        \/ WriteSome
        \/ WriteDone
        \/ WriteFails
        \/ Reply
        \/ \E n \in 0..Len(net) : ReadDone(n)
        \/ ReadFails
        \/ Break
        \/ TimerExpires
  BY <1>17 DEF StopCheckSended, StopCheckQueued, StopWait, Destroy, WriteSome, WriteDone,
     WriteFails, Reply, ReadDone, ReadFails, Break, TimerExpires
<1>18. CASE UNCHANGED vars
  BY <1>18
<1> QED
  BY <1>1, <1>2, <1>3, <1>4, <1>5, <1>6, <1>7, <1>8, <1>9, <1>10, <1>11, <1>12, <1>13,
     <1>14, <1>15, <1>16, <1>17, <1>18
     DEF Next, PushStep, LoopStep, OwnerStep, Threads

(* Every step keeps the queue and the batch within their limits. *)
LEMMA QueuesType ==
  ASSUME IInv, [Next]_vars
  PROVE  QueuesTypeOK'
<1> USE SerialThreadAssumption, SerialQueryAssumption, SerialLimitAssumption
    DEF TypeOK, IInv, ThreadsTypeOK, QueuesTypeOK, HandsOK, Threads
<1>1. CASE \E t \in Threads : PushQuery(t)
  <2>1. PICK t \in Threads : PushQuery(t)
    BY <1>1
  <2>2. arg[t] \in Query
    BY <2>1 DEF PushQuery
  <2> QED
    BY <2>1, <2>2 DEF PushQuery, HasRoom
<1>2. CASE \E t \in Threads : Take(t)
  BY <1>2 DEF Take
<1>3. CASE \E t \in Threads : Put(t)
  <2>1. PICK t \in Threads : Put(t)
    BY <1>3
  <2>2. q_tmp \in Query
    BY <2>1 DEF Put
  <2>3. Len(multibuf) <= MaxBatch
    BY <2>1 DEF Put, MultibufOK
  <2> QED
    BY <2>1, <2>2, <2>3 DEF Put
<1>4. CASE Drain
  BY <1>4 DEF Drain
<1>5. CASE ParseReply
  <2>1. ParseReply
    BY <1>5
  <2>2. sended_queries' \in Seq(Query)
    <3>1. CASE sended_queries # <<>>
      <4>1. Tail(sended_queries) \in Seq(Query)
        BY <3>1
      <4> QED
        BY <2>1, <3>1, <4>1 DEF ParseReply
    <3>2. CASE sended_queries = <<>>
      BY <2>1, <3>2 DEF ParseReply
    <3> QED
      BY <3>1, <3>2
  <2> QED
    BY <2>1, <2>2 DEF ParseReply
<1>6. CASE WriteSome
  BY <1>6 DEF WriteSome
<1>7. CASE
        \/ \E t \in Clients : CallPush(t)
        \/ \E t \in Threads : PushIgnored(t)
        \/ \E t \in Threads : PushEnters(t)
        \/ \E t \in Threads : PushWait(t)
        \/ \E t \in Threads : CompareExchange(t)
        \/ \E t \in Threads : NothingToSend(t)
        \/ \E t \in Threads : Unset(t)
        \/ \E t \in Threads : TakeNothing(t)
        \/ \E t \in Threads : Notify(t)
        \/ \E t \in Threads : Write(t)
        \/ ReqSent
        \/ ReqFailed
        \/ RespRead
        \/ TimeoutHandler
        \/ SocketError
        \/ ParseNothing
  BY <1>7 DEF CallPush, PushIgnored, Return, PushEnters, PushWait, CompareExchange,
     NothingToSend, Unset, TakeNothing, Notify, Notified, Write, ReqSent, Handle, ReqFailed,
     RespRead, TimeoutHandler, SocketError, ParseNothing
<1>8. CASE
        \/ Callback
        \/ ReadAgain
        \/ WorkDone
        \/ WorkGoesOn
        \/ Release
        \/ Stop
        \/ StopCheckSended
        \/ StopCheckQueued
        \/ StopWait
        \/ Destroy
        \/ WriteDone
        \/ WriteFails
        \/ Reply
        \/ \E n \in 0..Len(net) : ReadDone(n)
        \/ ReadFails
        \/ Break
        \/ TimerExpires
  BY <1>8 DEF Callback, ReadAgain, WorkDone, WorkGoesOn, Release, Stop, StopCheckSended,
     StopCheckQueued, StopWait, Destroy, WriteDone, WriteFails, Reply, ReadDone, ReadFails,
     Break, TimerExpires
<1>9. CASE UNCHANGED vars
  BY <1>9
<1> QED
  BY <1>1, <1>2, <1>3, <1>4, <1>5, <1>6, <1>7, <1>8, <1>9
     DEF Next, PushStep, LoopStep, OwnerStep, Threads

(* Every step keeps the outcomes and the callback in hand in their types. *)
LEMMA CallbacksType ==
  ASSUME IInv, [Next]_vars
  PROVE  CallbacksTypeOK'
<1> USE SerialThreadAssumption, SerialQueryAssumption
    DEF TypeOK, IInv, CallbacksTypeOK, Threads
<1>1. CASE \E t \in Threads : PushIgnored(t)
  BY <1>1 DEF PushIgnored, Return, Ignored, Service!Outcome, HandsOK, ThreadsTypeOK
<1>2. CASE Drain
  BY <1>2 DEF Drain, Disconnected, Service!Outcome
<1>3. CASE ParseReply
  <2>1. ParseReply
    BY <1>3
  <2>2. CASE sended_queries # <<>>
    <3>1. Head(sended_queries) \in Query /\ Head(input) \in Query
      BY <2>1, <2>2, HeadTail DEF ParseReply, QueuesTypeOK, LinkTypeOK
    <3> QED
      BY <2>1, <2>2, <3>1 DEF ParseReply
  <2>3. CASE sended_queries = <<>>
    BY <2>1, <2>3 DEF ParseReply
  <2> QED
    BY <2>2, <2>3
<1>4. CASE Callback
  <2>0. Callback
    BY <1>4
  <2>1. outcome' = [outcome EXCEPT ![cur.cb] = Answered(cur.reply)] /\ cur' = NoCallback
    BY <2>0 DEF Callback
  <2>2. Answered(cur.reply) \in Service!Outcome /\ NoCallback \in [cb : {NoQuery}, reply : {NoQuery}]
    BY DEF Answered, NoCallback, Service!Outcome
  <2> QED
    BY <2>1, <2>2 DEF NoCallback
<1>5. CASE
        \/ \E t \in Clients : CallPush(t)
        \/ \E t \in Threads : PushEnters(t)
        \/ \E t \in Threads : PushWait(t)
        \/ \E t \in Threads : PushQuery(t)
        \/ \E t \in Threads : CompareExchange(t)
        \/ \E t \in Threads : NothingToSend(t)
        \/ \E t \in Threads : Unset(t)
        \/ \E t \in Threads : Take(t)
        \/ \E t \in Threads : TakeNothing(t)
        \/ \E t \in Threads : Put(t)
        \/ \E t \in Threads : Notify(t)
        \/ \E t \in Threads : Write(t)
        \/ ReqSent
        \/ ReqFailed
        \/ RespRead
        \/ TimeoutHandler
        \/ SocketError
  BY <1>5 DEF CallPush, PushEnters, PushWait, PushQuery, CompareExchange, Return,
     NothingToSend, Unset, Take, TakeNothing, Put, Notify, Notified, Write, ReqSent, Handle,
     ReqFailed, RespRead, TimeoutHandler, SocketError
<1>6. CASE
        \/ ParseNothing
        \/ ReadAgain
        \/ WorkDone
        \/ WorkGoesOn
        \/ Release
        \/ Stop
        \/ StopCheckSended
        \/ StopCheckQueued
        \/ StopWait
        \/ Destroy
        \/ WriteSome
        \/ WriteDone
        \/ WriteFails
        \/ Reply
        \/ \E n \in 0..Len(net) : ReadDone(n)
        \/ ReadFails
        \/ Break
        \/ TimerExpires
  BY <1>6 DEF ParseNothing, ReadAgain, WorkDone, WorkGoesOn, Release, Stop, StopCheckSended,
     StopCheckQueued, StopWait, Destroy, WriteSome, WriteDone, WriteFails, Reply, ReadDone,
     ReadFails, Break, TimerExpires
<1>7. CASE UNCHANGED vars
  BY <1>7
<1> QED
  BY <1>1, <1>2, <1>3, <1>4, <1>5, <1>6, <1>7
     DEF Next, PushStep, LoopStep, OwnerStep, Threads

(* Every step keeps the flags in their types. *)
LEMMA FlagsType ==
  ASSUME IInv, [Next]_vars
  PROVE  FlagsTypeOK'
<1> USE DEF TypeOK, IInv, FlagsTypeOK
<1>1. CASE \E t \in Threads : CompareExchange(t)
  BY <1>1 DEF CompareExchange, Return
<1>2. CASE \E t \in Threads : Unset(t)
  BY <1>2 DEF Unset, Return
<1>3. CASE \E t \in Threads : Write(t)
  BY <1>3 DEF Write, Return
<1>4. CASE ReqSent
  BY <1>4 DEF ReqSent, Handle
<1>5. CASE ReqFailed
  BY <1>5 DEF ReqFailed, Handle
<1>6. CASE RespRead
  BY <1>6 DEF RespRead, Handle
<1>7. CASE TimeoutHandler
  BY <1>7 DEF TimeoutHandler, Handle
<1>8. CASE SocketError
  BY <1>8 DEF SocketError, Notified
<1>9. CASE ParseReply
  BY <1>9 DEF ParseReply
<1>10. CASE ReadAgain
  BY <1>10 DEF ReadAgain
<1>11. CASE WorkDone
  BY <1>11 DEF WorkDone
<1>12. CASE Release
  BY <1>12 DEF Release
<1>13. CASE StopCheckSended
  BY <1>13 DEF StopCheckSended
<1>14. CASE StopCheckQueued
  BY <1>14 DEF StopCheckQueued
<1>15. CASE
        \/ \E t \in Clients : CallPush(t)
        \/ \E t \in Threads : PushIgnored(t)
        \/ \E t \in Threads : PushEnters(t)
        \/ \E t \in Threads : PushWait(t)
        \/ \E t \in Threads : PushQuery(t)
        \/ \E t \in Threads : NothingToSend(t)
        \/ \E t \in Threads : Take(t)
        \/ \E t \in Threads : TakeNothing(t)
        \/ \E t \in Threads : Put(t)
        \/ \E t \in Threads : Notify(t)
        \/ Drain
        \/ ParseNothing
  BY <1>15 DEF CallPush, PushIgnored, Return, PushEnters, PushWait, PushQuery,
     NothingToSend, Take, TakeNothing, Put, Notify, Notified, Drain, ParseNothing
<1>16. CASE
        \/ Callback
        \/ WorkGoesOn
        \/ Stop
        \/ StopWait
        \/ Destroy
        \/ WriteSome
        \/ WriteDone
        \/ WriteFails
        \/ Reply
        \/ \E n \in 0..Len(net) : ReadDone(n)
        \/ ReadFails
        \/ Break
        \/ TimerExpires
  BY <1>16 DEF Callback, WorkGoesOn, Stop, StopWait, Destroy, WriteSome, WriteDone,
     WriteFails, Reply, ReadDone, ReadFails, Break, TimerExpires
<1>17. CASE UNCHANGED vars
  BY <1>17
<1> QED
  BY <1>1, <1>2, <1>3, <1>4, <1>5, <1>6, <1>7, <1>8, <1>9, <1>10, <1>11, <1>12, <1>13,
     <1>14, <1>15, <1>16, <1>17
     DEF Next, PushStep, LoopStep, OwnerStep, Threads

(* Every step keeps what is on its way in its types. *)
LEMMA LinkType ==
  ASSUME IInv, [Next]_vars
  PROVE  LinkTypeOK'
<1> USE DEF TypeOK, IInv, LinkTypeOK
<1>1. CASE ReqSent
  BY <1>1 DEF ReqSent, Handle
<1>2. CASE ReqFailed
  BY <1>2 DEF ReqFailed, Handle
<1>3. CASE RespRead
  <2>1. RespRead
    BY <1>3
  <2>2. ioq # <<>> /\ ioq' = Tail(ioq) /\ wire' = wire /\ net' = net /\ input' = input
    BY <2>1 DEF RespRead, Handle
  <2> QED
    BY <2>2
<1>4. CASE TimeoutHandler
  BY <1>4 DEF TimeoutHandler, Handle
<1>5. CASE ParseReply
  BY <1>5 DEF ParseReply
<1>6. CASE WriteSome
  BY <1>6 DEF WriteSome, QueuesTypeOK
<1>7. CASE WriteDone
  BY <1>7, AppendFacts DEF WriteDone, Events
<1>8. CASE WriteFails
  BY <1>8, AppendFacts DEF WriteFails, Events
<1>9. CASE Reply
  BY <1>9 DEF Reply
<1>10. CASE \E n \in 0..Len(net) : ReadDone(n)
  <2>1. PICK n \in 0..Len(net) : ReadDone(n)
    BY <1>10
  <2>2. SubSeq(net, 1, n) \in Seq(Query) /\ SubSeq(net, n + 1, Len(net)) \in Seq(Query)
    BY <2>1
  <2>3. "read_ok" \in Events
    BY DEF Events
  <2>4. Append(ioq, "read_ok") \in Seq(Events) /\ input \o SubSeq(net, 1, n) \in Seq(Query)
    BY <2>2, <2>3
  <2> QED
    BY <2>1, <2>2, <2>4 DEF ReadDone
<1>11. CASE ReadFails
  BY <1>11, AppendFacts DEF ReadFails, Events
<1>12. CASE TimerExpires
  BY <1>12, AppendFacts DEF TimerExpires, Events
<1>13. CASE
        \/ \E t \in Clients : CallPush(t)
        \/ \E t \in Threads : PushIgnored(t)
        \/ \E t \in Threads : PushEnters(t)
        \/ \E t \in Threads : PushWait(t)
        \/ \E t \in Threads : PushQuery(t)
        \/ \E t \in Threads : CompareExchange(t)
        \/ \E t \in Threads : NothingToSend(t)
        \/ \E t \in Threads : Unset(t)
        \/ \E t \in Threads : Take(t)
        \/ \E t \in Threads : TakeNothing(t)
        \/ \E t \in Threads : Put(t)
        \/ \E t \in Threads : Notify(t)
        \/ \E t \in Threads : Write(t)
  BY <1>13 DEF CallPush, PushIgnored, Return, PushEnters, PushWait, PushQuery,
     CompareExchange, NothingToSend, Unset, Take, TakeNothing, Put, Notify, Notified, Write
<1>14. CASE
        \/ SocketError
        \/ Drain
        \/ ParseNothing
        \/ Callback
        \/ ReadAgain
        \/ WorkDone
        \/ WorkGoesOn
        \/ Release
        \/ Stop
        \/ StopCheckSended
        \/ StopCheckQueued
        \/ StopWait
        \/ Destroy
        \/ Break
  BY <1>14 DEF SocketError, Notified, Drain, ParseNothing, Callback, ReadAgain, WorkDone,
     WorkGoesOn, Release, Stop, StopCheckSended, StopCheckQueued, StopWait, Destroy, Break
<1>15. CASE UNCHANGED vars
  BY <1>15
<1> QED
  BY <1>1, <1>2, <1>3, <1>4, <1>5, <1>6, <1>7, <1>8, <1>9, <1>10, <1>11, <1>12, <1>13,
     <1>14, <1>15
     DEF Next, PushStep, LoopStep, OwnerStep, Threads

(* Every step keeps queries in the hands of the threads that have them. *)
LEMMA HandsStep ==
  ASSUME IInv, [Next]_vars
  PROVE  HandsOK'
<1> USE SerialThreadAssumption, SerialQueryAssumption DEF ThreadsTypeOK, QueuesTypeOK, CallbacksTypeOK, HandsOK, Threads
<1>t. ThreadsTypeOK /\ HandsOK /\ QueuesTypeOK /\ CallbacksTypeOK
  BY DEF IInv, TypeOK
<1> USE <1>t
<1>1. CASE \E t \in Clients : CallPush(t)
  <2>1. PICK t \in Clients : CallPush(t)
    BY <1>1
  <2>2. (CHOOSE q \in FreshQueries : TRUE) \in Query
    BY <2>1, FreshFacts DEF CallPush
  <2> QED
    BY <2>1, <2>2 DEF CallPush
<1>2. CASE \E t \in Threads : PushIgnored(t)
  BY <1>2 DEF PushIgnored, Return
<1>3. CASE \E t \in Threads : CompareExchange(t)
  <2>1. PICK t \in Threads : CompareExchange(t)
    BY <1>3
  <2>2. CASE running
    BY <2>1, <2>2 DEF CompareExchange, Return
  <2>3. CASE ~running
    <3>1. /\ pc[t] = "cas" /\ pc' = [pc EXCEPT ![t] = "check"]
          /\ arg' = arg /\ cur' = cur /\ q_tmp' = q_tmp
      BY <2>1, <2>3 DEF CompareExchange
    <3>2. arg[Loop] = NoQuery \/ t # Loop
      BY <2>3, <2>1 DEF IInv, BatchOK, Batching
    <3> QED
      BY <3>1, <3>2
  <2> QED
    BY <2>2, <2>3
<1>4. CASE \E t \in Threads : Unset(t)
  BY <1>4 DEF Unset, Return
<1>5. CASE \E t \in Threads : Take(t)
  <2>1. PICK t \in Threads : Take(t)
    BY <1>5
  <2>2. Head(query_queue) \in Query
    BY <2>1 DEF Take
  <2> QED
    BY <2>1, <2>2 DEF Take
<1>6. CASE \E t \in Threads : Put(t)
  <2>1. PICK t \in Threads : Put(t)
    BY <1>6
  <2>2. \A u \in Threads : pc[u] = "put" => u = t
    BY <2>1 DEF Put, IInv, BatchOK, Batching, BatchLabels
  <2> QED
    BY <2>1, <2>2 DEF Put
<1>7. CASE \E t \in Threads : Notify(t)
  <2>1. PICK t \in Threads : Notify(t)
    BY <1>7
  <2>2. /\ \A u \in Threads : pc'[u] = IF u = t THEN "write"
                                    ELSE IF pc[u] = "wait" THEN "lock" ELSE pc[u]
        /\ pc[t] = "notify" /\ arg' = arg /\ cur' = cur /\ q_tmp' = q_tmp
    BY <2>1 DEF Notify, Notified
  <2> QED
    BY <2>2
<1>8. CASE \E t \in Threads : Write(t)
  BY <1>8 DEF Write, Return
<1>9. CASE ReqSent
  BY <1>9 DEF ReqSent, Handle
<1>10. CASE ReqFailed
  BY <1>10 DEF ReqFailed, Handle
<1>11. CASE RespRead
  BY <1>11 DEF RespRead, Handle
<1>12. CASE TimeoutHandler
  BY <1>12 DEF TimeoutHandler, Handle
<1>13. CASE SocketError
  BY <1>13 DEF SocketError, Notified
<1>14. CASE Drain
  BY <1>14 DEF Drain
<1>15. CASE ParseReply
  <2>1. ParseReply
    BY <1>15
  <2>2. CASE sended_queries # <<>>
    <3>1. Head(sended_queries) \in Query
      BY <2>2, HeadTail
    <3> QED
      BY <2>1, <2>2, <3>1 DEF ParseReply
  <2>3. CASE sended_queries = <<>>
    BY <2>1, <2>3 DEF ParseReply
  <2> QED
    BY <2>2, <2>3
<1>16. CASE Callback
  BY <1>16 DEF Callback, NoCallback
<1>17. CASE Release
  BY <1>17 DEF Release
<1>18. CASE
        \/ \E t \in Threads : PushEnters(t)
        \/ \E t \in Threads : PushWait(t)
        \/ \E t \in Threads : PushQuery(t)
        \/ \E t \in Threads : NothingToSend(t)
        \/ \E t \in Threads : TakeNothing(t)
        \/ ParseNothing
        \/ ReadAgain
        \/ WorkDone
  BY <1>18 DEF PushEnters, PushWait, PushQuery, NothingToSend, TakeNothing, ParseNothing,
     ReadAgain, WorkDone
<1>19. CASE
        \/ WorkGoesOn
        \/ Stop
        \/ StopCheckSended
        \/ StopCheckQueued
        \/ StopWait
        \/ Destroy
        \/ WriteSome
        \/ WriteDone
  BY <1>19 DEF WorkGoesOn, Stop, StopCheckSended, StopCheckQueued, StopWait, Destroy,
     WriteSome, WriteDone
<1>20. CASE
        \/ WriteFails
        \/ Reply
        \/ \E n \in 0..Len(net) : ReadDone(n)
        \/ ReadFails
        \/ Break
        \/ TimerExpires
  BY <1>20 DEF WriteFails, Reply, ReadDone, ReadFails, Break, TimerExpires
<1>21. CASE UNCHANGED vars
  BY <1>21
<1> QED
  BY <1>1, <1>2, <1>3, <1>4, <1>5, <1>6, <1>7, <1>8, <1>9, <1>10, <1>11, <1>12, <1>13,
     <1>14, <1>15, <1>16, <1>17, <1>18, <1>19, <1>20, <1>21
     DEF Next, PushStep, LoopStep, OwnerStep, Threads

(* At most one completion handler of a write or a read is ready to run. *)
OneHandler == \A i, j \in DOMAIN ioq : IsIO(ioq[i]) /\ IsIO(ioq[j]) => i = j

(* What a handler that is posted changes: the timer's nothing, another's     *)
(* that a read or a write was outstanding.                                  *)
LEMMA Posted ==
  ASSUME ioq \in Seq(Events), NEW e \in Events, ioq' = Append(ioq, e), OneHandler
  PROVE  /\ ~IsIO(e) => OneHandler' /\ (HandlersQuiet' <=> HandlersQuiet)
         /\ HandlersQuiet => OneHandler'
         /\ IsIO(e) => ~HandlersQuiet'
BY AppendFacts DEF OneHandler, HandlersQuiet

(* What taking a handler changes. *)
LEMMA Taken ==
  ASSUME ioq \in Seq(Events), ioq # <<>>, ioq' = Tail(ioq), OneHandler
  PROVE  /\ OneHandler'
         /\ IsIO(Head(ioq)) => HandlersQuiet' /\ ~HandlersQuiet
         /\ ~IsIO(Head(ioq)) => (HandlersQuiet' <=> HandlersQuiet)
<1>1. /\ Head(ioq) = ioq[1] /\ DOMAIN ioq = 1..Len(ioq) /\ DOMAIN ioq' = 1..Len(ioq) - 1
      /\ Len(ioq) \in Nat /\ Len(ioq) > 0
      /\ \A i \in 1..Len(ioq) - 1 : ioq'[i] = ioq[i + 1] /\ i + 1 \in 1..Len(ioq)
  BY HeadTail
<1>2. OneHandler'
  <2> SUFFICES ASSUME NEW i \in DOMAIN ioq', NEW j \in DOMAIN ioq', IsIO(ioq'[i]), IsIO(ioq'[j])
               PROVE  i = j
    BY DEF OneHandler
  <2>1. i + 1 = j + 1
    BY <1>1 DEF OneHandler
  <2> QED
    BY <2>1, <1>1
<1>3. IsIO(Head(ioq)) => HandlersQuiet' /\ ~HandlersQuiet
  <2> SUFFICES ASSUME IsIO(Head(ioq)) PROVE HandlersQuiet' /\ ~HandlersQuiet
    OBVIOUS
  <2>1. 1 \in DOMAIN ioq /\ IsIO(ioq[1])
    BY <1>1
  <2>2. \A i \in DOMAIN ioq : IsIO(ioq[i]) => i = 1
    BY <2>1 DEF OneHandler
  <2>3. \A i \in DOMAIN ioq' : ~IsIO(ioq'[i])
    <3> TAKE i \in DOMAIN ioq'
    <3>1. i + 1 \in DOMAIN ioq /\ ioq'[i] = ioq[i + 1] /\ i + 1 # 1
      BY <1>1
    <3> QED
      BY <2>2, <3>1
  <2> QED
    BY <2>1, <2>3 DEF HandlersQuiet
<1>4. ~IsIO(Head(ioq)) => (HandlersQuiet' <=> HandlersQuiet)
  <2> SUFFICES ASSUME ~IsIO(Head(ioq)) PROVE HandlersQuiet' <=> HandlersQuiet
    OBVIOUS
  <2>1. HandlersQuiet => HandlersQuiet'
    BY <1>1 DEF HandlersQuiet
  <2>2. ASSUME HandlersQuiet', NEW i \in DOMAIN ioq
        PROVE  ~IsIO(ioq[i])
    <3>1. CASE i = 1
      BY <1>1, <3>1
    <3>2. CASE i # 1
      <4>1. i - 1 \in DOMAIN ioq' /\ ioq'[i - 1] = ioq[i]
        BY <1>1, <3>2
      <4> QED
        BY <2>2, <4>1 DEF HandlersQuiet
    <3> QED
      BY <3>1, <3>2
  <2> QED
    BY <2>1, <2>2 DEF HandlersQuiet
<1> QED
  BY <1>2, <1>3, <1>4

(* Every step keeps one batch at most under way: a write, a read or their    *)
(* handler is outstanding, or a thread builds a batch, or Loop handles the   *)
(* replies of one.                                                          *)
LEMMA BatchStep ==
  ASSUME IInv, [Next]_vars
  PROVE  BatchOK'
<1> USE SerialThreadAssumption, SerialQueryAssumption
    DEF ThreadsTypeOK, HandsOK, Batching, BatchLabels, Quiet, PushLabels, LoopLabels, Threads
<1>t. /\ ThreadsTypeOK /\ HandsOK
      /\ \A t, u \in Threads : Batching(t) /\ Batching(u) => t = u
      /\ (\E t \in Threads : Batching(t)) => Quiet
      /\ ~(reading /\ writing) /\ (reading \/ writing => HandlersQuiet)
      /\ OneHandler
      /\ (\E t \in Threads : Batching(t)) \/ ~Quiet => running /\ ~error
      /\ error => running
      /\ ioq \in Seq(Events)
  BY DEF IInv, TypeOK, LinkTypeOK, BatchOK, OneHandler
<1>b. UNCHANGED ioq => UNCHANGED <<HandlersQuiet, OneHandler>>
  BY DEF HandlersQuiet, OneHandler
<1> SUFFICES
      /\ \A t, u \in Threads : Batching(t)' /\ Batching(u)' => t = u
      /\ (\E t \in Threads : Batching(t)') => Quiet'
      /\ ~(reading' /\ writing') /\ (reading' \/ writing' => HandlersQuiet')
      /\ OneHandler'
      /\ (\E t \in Threads : Batching(t)') \/ ~Quiet' => running' /\ ~error'
      /\ error' => running'
  BY DEF BatchOK, OneHandler
<1> USE <1>t, <1>b
<1>1. CASE \E t \in Clients : CallPush(t)
  BY <1>1, FreshFacts DEF CallPush
<1>2. CASE \E t \in Threads : PushIgnored(t)
  BY <1>2 DEF PushIgnored, Return
<1>3. CASE \E t \in Threads : PushEnters(t)
  BY <1>3 DEF PushEnters
<1>4. CASE \E t \in Threads : PushWait(t)
  BY <1>4 DEF PushWait
<1>5. CASE \E t \in Threads : PushQuery(t)
  BY <1>5 DEF PushQuery
<1>6. CASE \E t \in Threads : CompareExchange(t)
  BY <1>6 DEF CompareExchange, Return
<1>7. CASE \E t \in Threads : NothingToSend(t)
  BY <1>7 DEF NothingToSend
<1>8. CASE \E t \in Threads : Unset(t)
  BY <1>8 DEF Unset, Return
<1>9. CASE \E t \in Threads : Take(t)
  BY <1>9 DEF Take
<1>10. CASE \E t \in Threads : TakeNothing(t)
  BY <1>10 DEF TakeNothing
<1>11. CASE \E t \in Threads : Put(t)
  BY <1>11 DEF Put
<1>12. CASE \E t \in Threads : Notify(t)
  BY <1>12 DEF Notify, Notified
<1>13. CASE \E t \in Threads : Write(t)
  BY <1>13 DEF Write, Return
<1>14. CASE ReqSent
  <2>1. ReqSent
    BY <1>14
  <2>2. ioq # <<>> /\ ioq' = Tail(ioq) /\ Head(ioq) = "write_ok" /\ IsIO(Head(ioq))
    BY <2>1 DEF ReqSent, Handle, IsIO
  <2>3. OneHandler' /\ HandlersQuiet' /\ ~HandlersQuiet
    BY <2>2, Taken
  <2> QED
    BY <2>1, <2>3 DEF ReqSent, Handle
<1>15. CASE ReqFailed
  <2>1. ReqFailed
    BY <1>15
  <2>2. ioq # <<>> /\ ioq' = Tail(ioq) /\ Head(ioq) = "write_err" /\ IsIO(Head(ioq))
    BY <2>1 DEF ReqFailed, Handle, IsIO
  <2>3. OneHandler' /\ HandlersQuiet' /\ ~HandlersQuiet
    BY <2>2, Taken
  <2> QED
    BY <2>1, <2>3 DEF ReqFailed, Handle
<1>16. CASE RespRead
  <2>1. RespRead
    BY <1>16
  <2>2. ioq # <<>> /\ ioq' = Tail(ioq) /\ IsIO(Head(ioq))
    BY <2>1 DEF RespRead, Handle, IsIO
  <2>3. OneHandler' /\ HandlersQuiet' /\ ~HandlersQuiet
    BY <2>2, Taken
  <2>4. /\ reading' = reading /\ writing' = writing /\ running' = running /\ error' = error
        /\ arg' = arg /\ pc[Loop] = "idle"
        /\ (pc' = [pc EXCEPT ![Loop] = "parse"] \/ pc' = [pc EXCEPT ![Loop] = "error"])
    BY <2>1 DEF RespRead, Handle
  <2> QED
    BY <2>3, <2>4
<1>17. CASE TimeoutHandler
  <2>1. TimeoutHandler
    BY <1>17
  <2>2. ioq # <<>> /\ ioq' = Tail(ioq) /\ Head(ioq) = "timer" /\ ~IsIO(Head(ioq))
    BY <2>1 DEF TimeoutHandler, Handle, IsIO
  <2>3. OneHandler' /\ (HandlersQuiet' <=> HandlersQuiet)
    BY <2>2, Taken
  <2> QED
    BY <2>1, <2>3 DEF TimeoutHandler, Handle
<1>18. CASE SocketError
  BY <1>18 DEF SocketError, Notified
<1>19. CASE Drain
  BY <1>19 DEF Drain
<1>20. CASE ParseReply
  BY <1>20 DEF ParseReply
<1>21. CASE ParseNothing
  BY <1>21 DEF ParseNothing
<1>22. CASE Callback
  BY <1>22 DEF Callback
<1>23. CASE ReadAgain
  BY <1>23 DEF ReadAgain
<1>24. CASE WorkDone
  BY <1>24 DEF WorkDone
<1>25. CASE WorkGoesOn
  BY <1>25 DEF WorkGoesOn
<1>26. CASE Release
  BY <1>26 DEF Release
<1>27. CASE Stop
  BY <1>27 DEF Stop
<1>28. CASE StopCheckSended
  BY <1>28 DEF StopCheckSended
<1>29. CASE StopCheckQueued
  BY <1>29 DEF StopCheckQueued
<1>30. CASE StopWait
  BY <1>30 DEF StopWait
<1>31. CASE Destroy
  BY <1>31 DEF Destroy
<1>32. CASE WriteSome
  BY <1>32 DEF WriteSome
<1>33. CASE WriteDone
  <2>1. WriteDone
    BY <1>33
  <2>2. ioq' = Append(ioq, "write_ok") /\ "write_ok" \in Events /\ IsIO("write_ok")
    BY <2>1 DEF WriteDone, Events, IsIO
  <2>3. OneHandler' /\ ~HandlersQuiet'
    BY <2>2, Posted, <2>1 DEF WriteDone
  <2> QED
    BY <2>1, <2>3 DEF WriteDone
<1>34. CASE WriteFails
  <2>1. WriteFails
    BY <1>34
  <2>2. ioq' = Append(ioq, "write_err") /\ "write_err" \in Events /\ IsIO("write_err")
    BY <2>1 DEF WriteFails, Events, IsIO
  <2>3. OneHandler' /\ ~HandlersQuiet'
    BY <2>2, Posted, <2>1 DEF WriteFails
  <2> QED
    BY <2>1, <2>3 DEF WriteFails
<1>35. CASE Reply
  BY <1>35 DEF Reply
<1>36. CASE \E n \in 0..Len(net) : ReadDone(n)
  <2>1. PICK n \in 0..Len(net) : ReadDone(n)
    BY <1>36
  <2>2. ioq' = Append(ioq, "read_ok") /\ "read_ok" \in Events /\ IsIO("read_ok")
    BY <2>1 DEF ReadDone, Events, IsIO
  <2>3. OneHandler' /\ ~HandlersQuiet'
    BY <2>2, Posted, <2>1 DEF ReadDone
  <2> QED
    BY <2>1, <2>3 DEF ReadDone
<1>37. CASE ReadFails
  <2>1. ReadFails
    BY <1>37
  <2>2. ioq' = Append(ioq, "read_err") /\ "read_err" \in Events /\ IsIO("read_err")
    BY <2>1 DEF ReadFails, Events, IsIO
  <2>3. OneHandler' /\ ~HandlersQuiet'
    BY <2>2, Posted, <2>1 DEF ReadFails
  <2> QED
    BY <2>1, <2>3 DEF ReadFails
<1>38. CASE Break
  BY <1>38 DEF Break
<1>39. CASE TimerExpires
  <2>1. TimerExpires
    BY <1>39
  <2>2. ioq' = Append(ioq, "timer") /\ "timer" \in Events /\ ~IsIO("timer")
    BY <2>1 DEF TimerExpires, Events, IsIO
  <2>3. OneHandler' /\ (HandlersQuiet' <=> HandlersQuiet)
    BY <2>2, Posted
  <2> QED
    BY <2>1, <2>3 DEF TimerExpires
<1>40. CASE UNCHANGED vars
  BY <1>40
<1> QED
  BY <1>1, <1>2, <1>3, <1>4, <1>5, <1>6, <1>7, <1>8, <1>9, <1>10, <1>11, <1>12, <1>13,
     <1>14, <1>15, <1>16, <1>17, <1>18, <1>19, <1>20, <1>21, <1>22, <1>23, <1>24, <1>25,
     <1>26, <1>27, <1>28, <1>29, <1>30, <1>31, <1>32, <1>33, <1>34, <1>35, <1>36, <1>37,
     <1>38, <1>39, <1>40
     DEF Next, PushStep, LoopStep, OwnerStep, Threads

(* The handler of a write that failed is ready to run. *)
FailedWrite == \E i \in DOMAIN ioq : ioq[i] = "write_err"

(* It stays there when another handler is posted behind it. *)
LEMMA FailurePosted ==
  ASSUME ioq \in Seq(Events), NEW e \in Events, ioq' = Append(ioq, e)
  PROVE  (e = "write_err" => FailedWrite') /\ (FailedWrite => FailedWrite')
<1>1. /\ DOMAIN ioq = 1..Len(ioq) /\ DOMAIN ioq' = 1..Len(ioq) + 1 /\ Len(ioq) \in Nat
      /\ ioq'[Len(ioq) + 1] = e /\ \A i \in 1..Len(ioq) : ioq'[i] = ioq[i]
  BY AppendFacts
<1>2. Len(ioq) + 1 \in DOMAIN ioq' /\ \A i \in DOMAIN ioq : i \in DOMAIN ioq'
  BY <1>1
<1> QED
  BY <1>1, <1>2 DEF FailedWrite

(* It stays there when another handler is taken from in front of it. *)
LEMMA FailureStays ==
  ASSUME ioq \in Seq(Events), ioq # <<>>, ioq' = Tail(ioq), Head(ioq) # "write_err", FailedWrite
  PROVE  FailedWrite'
<1>1. /\ Head(ioq) = ioq[1] /\ DOMAIN ioq = 1..Len(ioq) /\ DOMAIN ioq' = 1..Len(ioq) - 1
      /\ Len(ioq) \in Nat /\ \A i \in 1..Len(ioq) - 1 : ioq'[i] = ioq[i + 1]
  BY HeadTail
<1>2. PICK i \in 1..Len(ioq) : ioq[i] = "write_err"
  BY <1>1 DEF FailedWrite
<1>3. i # 1 /\ i - 1 \in 1..Len(ioq) - 1
  BY <1>1, <1>2
<1>4. ioq'[i - 1] = ioq[i]
  BY <1>1, <1>3
<1> QED
  BY <1>1, <1>2, <1>3, <1>4 DEF FailedWrite

(* Every step keeps the bytes of a batch accounted for. *)
LEMMA MultibufStep ==
  ASSUME IInv, [Next]_vars
  PROVE  MultibufOK'
<1> USE SerialThreadAssumption, SerialLimitAssumption
    DEF ThreadsTypeOK, QueuesTypeOK, LinkTypeOK, BuildLabels, Threads
<1>t. ThreadsTypeOK /\ HandsOK /\ BatchOK /\ QueuesTypeOK /\ LinkTypeOK
  BY DEF IInv, TypeOK
<1> USE <1>t
<1>m. /\ multibuf # <<>> =>
           \/ \E t \in Threads : pc[t] \in BuildLabels
           \/ writing \/ FailedWrite \/ pc[Loop] = "error" \/ error
      /\ \A t \in Threads : pc[t] \in {"take", "put"} => Len(multibuf) <= MaxBatch
  BY DEF IInv, MultibufOK, FailedWrite
<1>f. UNCHANGED ioq => (FailedWrite' <=> FailedWrite)
  BY DEF FailedWrite
<1> SUFFICES
      /\ multibuf' # <<>> =>
           \/ \E t \in Threads : pc'[t] \in BuildLabels
           \/ writing' \/ FailedWrite' \/ pc'[Loop] = "error" \/ error'
      /\ \A t \in Threads : pc'[t] \in {"take", "put"} => Len(multibuf') <= MaxBatch
  BY DEF MultibufOK, FailedWrite
<1> USE <1>m, <1>f
<1>1. CASE \E t \in Threads : PushIgnored(t)
  BY <1>1 DEF PushIgnored, Return
<1>2. CASE \E t \in Threads : CompareExchange(t)
  BY <1>2 DEF CompareExchange, Return
<1>3. CASE \E t \in Threads : NothingToSend(t)
  <2>1. PICK t \in Threads : NothingToSend(t)
    BY <1>3
  <2>2. multibuf = <<>>
    <3>1. Quiet /\ ~error /\ pc[Loop] # "error" /\ \A u \in Threads : pc[u] \notin BuildLabels
      BY <2>1 DEF NothingToSend, BatchOK, Batching, BatchLabels
    <3>2. ~FailedWrite
      BY <3>1 DEF Quiet, HandlersQuiet, IsIO, FailedWrite
    <3> QED
      BY <3>1, <3>2 DEF Quiet
  <2>3. multibuf' = multibuf /\ Len(multibuf) <= MaxBatch
    BY <2>1, <2>2 DEF NothingToSend
  <2> QED
    BY <2>1, <2>2, <2>3 DEF NothingToSend
<1>4. CASE \E t \in Threads : Unset(t)
  BY <1>4 DEF Unset, Return
<1>5. CASE \E t \in Threads : Put(t)
  <2>1. PICK t \in Threads : Put(t)
    BY <1>5
  <2>2. \A u \in Threads : u # t => pc[u] \notin {"take", "put"}
    BY <2>1 DEF Put, BatchOK, Batching, BatchLabels
  <2>3. q_tmp \in Query /\ Len(multibuf') = Len(multibuf) + 1 /\ Len(multibuf) \in Nat
    BY <2>1 DEF Put, HandsOK
  <2> QED
    BY <2>1, <2>2, <2>3 DEF Put
<1>6. CASE \E t \in Threads : Notify(t)
  BY <1>6 DEF Notify, Notified
<1>7. CASE \E t \in Threads : Write(t)
  BY <1>7 DEF Write, Return
<1>8. CASE ReqSent
  <2>1. ReqSent
    BY <1>8
  <2>2. ioq # <<>> /\ ioq' = Tail(ioq) /\ Head(ioq) # "write_err"
    BY <2>1 DEF ReqSent, Handle
  <2>3. FailedWrite => FailedWrite'
    BY <2>2, FailureStays
  <2> QED
    BY <2>1, <2>3 DEF ReqSent, Handle
<1>9. CASE ReqFailed
  BY <1>9 DEF ReqFailed, Handle
<1>10. CASE RespRead
  <2>1. RespRead
    BY <1>10
  <2>2. ioq # <<>> /\ ioq' = Tail(ioq) /\ Head(ioq) # "write_err" /\ pc[Loop] = "idle"
        /\ UNCHANGED <<multibuf, writing, error>> /\ \A u \in Threads : u # Loop => pc'[u] = pc[u]
    BY <2>1 DEF RespRead, Handle
  <2>3. FailedWrite => FailedWrite'
    BY <2>2, FailureStays
  <2>4. pc'[Loop] \in {"parse", "error"}
    BY <2>1 DEF RespRead, Handle
  <2> QED
    BY <2>2, <2>3, <2>4
<1>11. CASE TimeoutHandler
  <2>1. TimeoutHandler
    BY <1>11
  <2>2. ioq # <<>> /\ ioq' = Tail(ioq) /\ Head(ioq) # "write_err"
    BY <2>1 DEF TimeoutHandler, Handle
  <2>3. FailedWrite => FailedWrite'
    BY <2>2, FailureStays
  <2> QED
    BY <2>1, <2>3 DEF TimeoutHandler, Handle
<1>12. CASE SocketError
  BY <1>12 DEF SocketError, Notified
<1>13. CASE WriteSome
  <2>1. WriteSome
    BY <1>13
  <2>2. \A u \in Threads : pc[u] \notin {"take", "put"}
    BY <2>1 DEF WriteSome, BatchOK, Batching, BatchLabels, Quiet
  <2> QED
    BY <2>1, <2>2 DEF WriteSome
<1>14. CASE WriteDone
  BY <1>14 DEF WriteDone
<1>15. CASE WriteFails
  <2>1. WriteFails
    BY <1>15
  <2>2. ioq' = Append(ioq, "write_err") /\ "write_err" \in Events
    BY <2>1 DEF WriteFails, Events
  <2>3. FailedWrite'
    BY <2>2, FailurePosted
  <2> QED
    BY <2>1, <2>3 DEF WriteFails
<1>16. CASE \E n \in 0..Len(net) : ReadDone(n)
  <2>1. PICK n \in 0..Len(net) : ReadDone(n)
    BY <1>16
  <2>2. ioq' = Append(ioq, "read_ok") /\ "read_ok" \in Events
    BY <2>1 DEF ReadDone, Events
  <2>3. FailedWrite => FailedWrite'
    BY <2>2, FailurePosted
  <2> QED
    BY <2>1, <2>3 DEF ReadDone
<1>17. CASE ReadFails
  <2>1. ReadFails
    BY <1>17
  <2>2. ioq' = Append(ioq, "read_err") /\ "read_err" \in Events
    BY <2>1 DEF ReadFails, Events
  <2>3. FailedWrite => FailedWrite'
    BY <2>2, FailurePosted
  <2> QED
    BY <2>1, <2>3 DEF ReadFails
<1>18. CASE TimerExpires
  <2>1. TimerExpires
    BY <1>18
  <2>2. ioq' = Append(ioq, "timer") /\ "timer" \in Events
    BY <2>1 DEF TimerExpires, Events
  <2>3. FailedWrite => FailedWrite'
    BY <2>2, FailurePosted
  <2> QED
    BY <2>1, <2>3 DEF TimerExpires
<1>19. CASE
        \/ \E t \in Clients : CallPush(t)
        \/ \E t \in Threads : PushEnters(t)
        \/ \E t \in Threads : PushWait(t)
        \/ \E t \in Threads : PushQuery(t)
        \/ \E t \in Threads : Take(t)
        \/ \E t \in Threads : TakeNothing(t)
        \/ Drain
  <2>1. CASE \/ \E t \in Clients : CallPush(t)
             \/ \E t \in Threads : PushEnters(t)
             \/ \E t \in Threads : PushWait(t)
    BY <2>1 DEF CallPush, PushEnters, PushWait
  <2>2. CASE (\E t \in Threads : PushQuery(t)) \/ Drain
    BY <2>2 DEF PushQuery, Drain
  <2>3. CASE \E t \in Threads : Take(t)
    BY <2>3 DEF Take
  <2>4. CASE \E t \in Threads : TakeNothing(t)
    BY <2>4 DEF TakeNothing
  <2> QED
    BY <1>19, <2>1, <2>2, <2>3, <2>4
<1>20. CASE
        \/ ParseReply
        \/ ParseNothing
        \/ Callback
        \/ ReadAgain
        \/ WorkDone
        \/ WorkGoesOn
        \/ Release
  BY <1>20 DEF ParseReply, ParseNothing, Callback, ReadAgain, WorkDone, WorkGoesOn, Release
<1>21. CASE
        \/ Stop
        \/ StopCheckSended
        \/ StopCheckQueued
        \/ StopWait
        \/ Destroy
        \/ Reply
        \/ Break
  BY <1>21 DEF Stop, StopCheckSended, StopCheckQueued, StopWait, Destroy, Reply, Break
<1>22. CASE UNCHANGED vars
  BY <1>22
<1> QED
  BY <1>1, <1>2, <1>3, <1>4, <1>5, <1>6, <1>7, <1>8, <1>9, <1>10, <1>11, <1>12, <1>13,
     <1>14, <1>15, <1>16, <1>17, <1>18, <1>19, <1>20, <1>21, <1>22
     DEF Next, PushStep, LoopStep, OwnerStep, Threads

(* Every step keeps whoever waits out of the way of soc_error_callbacks. *)
LEMMA DrainStep ==
  ASSUME IInv, [Next]_vars
  PROVE  DrainOK'
<1> USE SerialThreadAssumption DEF IInv, TypeOK, ThreadsTypeOK, DrainOK, Threads
<1>1. CASE \E t \in Threads : PushIgnored(t)
  BY <1>1 DEF PushIgnored, Return
<1>2. CASE \E t \in Threads : PushWait(t)
  BY <1>2 DEF PushWait
<1>3. CASE \E t \in Threads : CompareExchange(t)
  BY <1>3 DEF CompareExchange, Return
<1>4. CASE \E t \in Threads : Unset(t)
  BY <1>4 DEF Unset, Return
<1>5. CASE \E t \in Threads : Notify(t)
  BY <1>5 DEF Notify, Notified
<1>6. CASE \E t \in Threads : Write(t)
  BY <1>6 DEF Write, Return
<1>7. CASE ReqSent
  BY <1>7 DEF ReqSent, Handle
<1>8. CASE ReqFailed
  BY <1>8 DEF ReqFailed, Handle
<1>9. CASE RespRead
  BY <1>9 DEF RespRead, Handle
<1>10. CASE TimeoutHandler
  BY <1>10 DEF TimeoutHandler, Handle
<1>11. CASE SocketError
  BY <1>11 DEF SocketError, Notified
<1>12. CASE Drain
  BY <1>12 DEF Drain
<1>13. CASE ParseReply
  BY <1>13 DEF ParseReply
<1>14. CASE Callback
  BY <1>14 DEF Callback
<1>15. CASE
        \/ \E t \in Clients : CallPush(t)
        \/ \E t \in Threads : PushEnters(t)
        \/ \E t \in Threads : PushQuery(t)
        \/ \E t \in Threads : NothingToSend(t)
        \/ \E t \in Threads : Take(t)
        \/ \E t \in Threads : TakeNothing(t)
        \/ \E t \in Threads : Put(t)
  BY <1>15 DEF CallPush, PushEnters, PushQuery, NothingToSend, Take, TakeNothing, Put
<1>16. CASE
        \/ ParseNothing
        \/ ReadAgain
        \/ WorkDone
        \/ WorkGoesOn
        \/ Release
        \/ Stop
        \/ StopCheckSended
  BY <1>16 DEF ParseNothing, ReadAgain, WorkDone, WorkGoesOn, Release, Stop, StopCheckSended
<1>17. CASE
        \/ StopCheckQueued
        \/ StopWait
        \/ Destroy
        \/ WriteSome
        \/ WriteDone
        \/ WriteFails
        \/ Reply
  BY <1>17 DEF StopCheckQueued, StopWait, Destroy, WriteSome, WriteDone, WriteFails, Reply
<1>18. CASE
        \/ \E n \in 0..Len(net) : ReadDone(n)
        \/ ReadFails
        \/ Break
        \/ TimerExpires
  BY <1>18 DEF ReadDone, ReadFails, Break, TimerExpires
<1>19. CASE UNCHANGED vars
  BY <1>19
<1> QED
  BY <1>1, <1>2, <1>3, <1>4, <1>5, <1>6, <1>7, <1>8, <1>9, <1>10, <1>11, <1>12, <1>13,
     <1>14, <1>15, <1>16, <1>17, <1>18, <1>19
     DEF Next, PushStep, LoopStep, OwnerStep, Threads

(* Every step keeps the pushes past the test of _stop_in_progress there only  *)
(* while the processor runs, or after an error.                             *)
LEMMA StopStep ==
  ASSUME IInv, [Next]_vars
  PROVE  StopOK'
<1> USE SerialThreadAssumption DEF IInv, TypeOK, ThreadsTypeOK, HandsOK, StopOK, Threads
<1>1. CASE \E t \in Threads : PushIgnored(t)
  BY <1>1 DEF PushIgnored, Return
<1>2. CASE \E t \in Threads : PushEnters(t)
  BY <1>2 DEF PushEnters
<1>3. CASE \E t \in Threads : CompareExchange(t)
  BY <1>3 DEF CompareExchange, Return
<1>4. CASE \E t \in Threads : Unset(t)
  BY <1>4 DEF Unset, Return
<1>5. CASE \E t \in Threads : Notify(t)
  BY <1>5 DEF Notify, Notified
<1>6. CASE \E t \in Threads : Write(t)
  BY <1>6 DEF Write, Return
<1>7. CASE ReqSent
  BY <1>7 DEF ReqSent, Handle
<1>8. CASE ReqFailed
  BY <1>8 DEF ReqFailed, Handle
<1>9. CASE RespRead
  BY <1>9 DEF RespRead, Handle
<1>10. CASE TimeoutHandler
  BY <1>10 DEF TimeoutHandler, Handle
<1>11. CASE SocketError
  BY <1>11 DEF SocketError, Notified
<1>12. CASE ParseReply
  BY <1>12 DEF ParseReply
<1>13. CASE Callback
  BY <1>13 DEF Callback
<1>14. CASE Stop
  BY <1>14 DEF Stop
<1>15. CASE
        \/ \E t \in Clients : CallPush(t)
        \/ \E t \in Threads : PushWait(t)
        \/ \E t \in Threads : PushQuery(t)
        \/ \E t \in Threads : NothingToSend(t)
        \/ \E t \in Threads : Take(t)
        \/ \E t \in Threads : TakeNothing(t)
        \/ \E t \in Threads : Put(t)
  BY <1>15 DEF CallPush, PushWait, PushQuery, NothingToSend, Take, TakeNothing, Put
<1>16. CASE
        \/ Drain
        \/ ParseNothing
        \/ ReadAgain
        \/ WorkDone
        \/ WorkGoesOn
        \/ Release
        \/ StopCheckSended
  BY <1>16 DEF Drain, ParseNothing, ReadAgain, WorkDone, WorkGoesOn, Release,
     StopCheckSended
<1>17. CASE
        \/ StopCheckQueued
        \/ StopWait
        \/ Destroy
        \/ WriteSome
        \/ WriteDone
        \/ WriteFails
        \/ Reply
  BY <1>17 DEF StopCheckQueued, StopWait, Destroy, WriteSome, WriteDone, WriteFails, Reply
<1>18. CASE
        \/ \E n \in 0..Len(net) : ReadDone(n)
        \/ ReadFails
        \/ Break
        \/ TimerExpires
  BY <1>18 DEF ReadDone, ReadFails, Break, TimerExpires
<1>19. CASE UNCHANGED vars
  BY <1>19
<1> QED
  BY <1>1, <1>2, <1>3, <1>4, <1>5, <1>6, <1>7, <1>8, <1>9, <1>10, <1>11, <1>12, <1>13,
     <1>14, <1>15, <1>16, <1>17, <1>18, <1>19
     DEF Next, PushStep, LoopStep, OwnerStep, Threads

(* Every step keeps waiters with a cause to wait. *)
LEMMA WaitStep ==
  ASSUME IInv, [Next]_vars
  PROVE  WaiterHasCause'
<1> USE SerialThreadAssumption, SerialLimitAssumption
    DEF TypeOK, ThreadsTypeOK, QueuesTypeOK, WaiterHasCause, HasRoom, Threads
<1>t. TypeOK /\ HandsOK /\ DrainOK /\ WaiterHasCause
  BY DEF IInv
<1> USE <1>t
<1>1. CASE \E t \in Threads : PushIgnored(t)
  BY <1>1 DEF PushIgnored, Return
<1>2. CASE \E t \in Threads : PushWait(t)
  BY <1>2 DEF PushWait
<1>3. CASE \E t \in Threads : PushQuery(t)
  <2>1. PICK t \in Threads : PushQuery(t)
    BY <1>3
  <2>2. Len(query_queue') = Len(query_queue) + 1 /\ Len(query_queue) \in Nat
    BY <2>1 DEF PushQuery, HandsOK
  <2> QED
    BY <2>1, <2>2 DEF PushQuery
<1>4. CASE \E t \in Threads : CompareExchange(t)
  BY <1>4 DEF CompareExchange, Return
<1>5. CASE \E t \in Threads : NothingToSend(t)
  BY <1>5 DEF NothingToSend
<1>6. CASE \E t \in Threads : Unset(t)
  BY <1>6 DEF Unset, Return
<1>7. CASE \E t \in Threads : Take(t)
  BY <1>7 DEF Take
<1>8. CASE \E t \in Threads : TakeNothing(t)
  BY <1>8 DEF TakeNothing
<1>9. CASE \E t \in Threads : Put(t)
  BY <1>9 DEF Put
<1>10. CASE \E t \in Threads : Notify(t)
  BY <1>10 DEF Notify, Notified
<1>11. CASE \E t \in Threads : Write(t)
  <2>1. PICK t \in Threads : Write(t)
    BY <1>11
  <2>2. /\ UNCHANGED query_queue /\ pc[t] = "write" /\ pc'[t] \in {"parse", "idle"}
        /\ \A u \in Threads : u # t => pc'[u] = pc[u]
    BY <2>1 DEF Write, Return
  <2> QED
    BY <2>2
<1>12. CASE ReqSent
  BY <1>12 DEF ReqSent, Handle
<1>13. CASE ReqFailed
  BY <1>13 DEF ReqFailed, Handle
<1>14. CASE RespRead
  BY <1>14 DEF RespRead, Handle
<1>15. CASE TimeoutHandler
  BY <1>15 DEF TimeoutHandler, Handle
<1>16. CASE SocketError
  BY <1>16 DEF SocketError, Notified
<1>17. CASE Drain
  BY <1>17 DEF Drain, DrainOK
<1>18. CASE ParseReply
  BY <1>18 DEF ParseReply
<1>19. CASE Callback
  BY <1>19 DEF Callback
<1>20. CASE
        \/ \E t \in Clients : CallPush(t)
        \/ \E t \in Threads : PushEnters(t)
        \/ ParseNothing
        \/ ReadAgain
        \/ WorkDone
        \/ WorkGoesOn
        \/ Release
  BY <1>20 DEF CallPush, PushEnters, ParseNothing, ReadAgain, WorkDone, WorkGoesOn, Release
<1>21. CASE
        \/ Stop
        \/ StopCheckSended
        \/ StopCheckQueued
        \/ StopWait
        \/ Destroy
        \/ WriteSome
        \/ WriteDone
  BY <1>21 DEF Stop, StopCheckSended, StopCheckQueued, StopWait, Destroy, WriteSome,
     WriteDone
<1>22. CASE
        \/ WriteFails
        \/ Reply
        \/ \E n \in 0..Len(net) : ReadDone(n)
        \/ ReadFails
        \/ Break
        \/ TimerExpires
  BY <1>22 DEF WriteFails, Reply, ReadDone, ReadFails, Break, TimerExpires
<1>23. CASE UNCHANGED vars
  BY <1>23
<1> QED
  BY <1>1, <1>2, <1>3, <1>4, <1>5, <1>6, <1>7, <1>8, <1>9, <1>10, <1>11, <1>12, <1>13,
     <1>14, <1>15, <1>16, <1>17, <1>18, <1>19, <1>20, <1>21, <1>22, <1>23
     DEF Next, PushStep, LoopStep, OwnerStep, Threads

(* Every step keeps the sent queries answered after an error. *)
LEMMA DrainsStep ==
  ASSUME IInv, [Next]_vars
  PROVE  SendedDrains'
<1> USE SerialThreadAssumption
    DEF TypeOK, ThreadsTypeOK, BatchOK, HandsOK, Batching, BatchLabels, SendedDrains, Threads
<1>t. TypeOK /\ HandsOK /\ BatchOK /\ DrainOK /\ SendedDrains
  BY DEF IInv
<1> USE <1>t
<1>1. CASE \E t \in Threads : PushIgnored(t)
  BY <1>1 DEF PushIgnored, Return
<1>2. CASE \E t \in Threads : CompareExchange(t)
  BY <1>2 DEF CompareExchange, Return
<1>3. CASE \E t \in Threads : Unset(t)
  BY <1>3 DEF Unset, Return
<1>4. CASE \E t \in Threads : Take(t)
  BY <1>4 DEF Take
<1>5. CASE \E t \in Threads : Put(t)
  BY <1>5 DEF Put
<1>6. CASE \E t \in Threads : Notify(t)
  BY <1>6 DEF Notify, Notified
<1>7. CASE \E t \in Threads : Write(t)
  BY <1>7 DEF Write, Return
<1>8. CASE ReqSent
  BY <1>8 DEF ReqSent, Handle
<1>9. CASE ReqFailed
  BY <1>9 DEF ReqFailed, Handle
<1>10. CASE RespRead
  BY <1>10 DEF RespRead, Handle
<1>11. CASE TimeoutHandler
  BY <1>11 DEF TimeoutHandler, Handle
<1>12. CASE SocketError
  BY <1>12 DEF SocketError, Notified
<1>13. CASE Drain
  BY <1>13 DEF Drain
<1>14. CASE ParseReply
  BY <1>14 DEF ParseReply
<1>15. CASE Callback
  BY <1>15 DEF Callback
<1>16. CASE
        \/ \E t \in Clients : CallPush(t)
        \/ \E t \in Threads : PushEnters(t)
        \/ \E t \in Threads : PushWait(t)
        \/ \E t \in Threads : PushQuery(t)
        \/ \E t \in Threads : NothingToSend(t)
        \/ \E t \in Threads : TakeNothing(t)
        \/ ParseNothing
        \/ ReadAgain
  BY <1>16 DEF CallPush, PushEnters, PushWait, PushQuery, NothingToSend, TakeNothing,
     ParseNothing, ReadAgain
<1>17. CASE
        \/ WorkDone
        \/ WorkGoesOn
        \/ Release
        \/ Stop
        \/ StopCheckSended
        \/ StopCheckQueued
        \/ StopWait
        \/ Destroy
  BY <1>17 DEF WorkDone, WorkGoesOn, Release, Stop, StopCheckSended, StopCheckQueued,
     StopWait, Destroy
<1>18. CASE
        \/ WriteSome
        \/ WriteDone
        \/ WriteFails
        \/ Reply
        \/ \E n \in 0..Len(net) : ReadDone(n)
        \/ ReadFails
        \/ Break
        \/ TimerExpires
  BY <1>18 DEF WriteSome, WriteDone, WriteFails, Reply, ReadDone, ReadFails, Break,
     TimerExpires
<1>19. CASE UNCHANGED vars
  BY <1>19
<1> QED
  BY <1>1, <1>2, <1>3, <1>4, <1>5, <1>6, <1>7, <1>8, <1>9, <1>10, <1>11, <1>12, <1>13,
     <1>14, <1>15, <1>16, <1>17, <1>18, <1>19
     DEF Next, PushStep, LoopStep, OwnerStep, Threads

(* What is sent and not answered, as the batch, the wire and the input       *)
(* buffer have it.                                                          *)
Flow == input \o net \o wire \o multibuf

(* The parts of the flow are sequences of queries. *)
LEMMA FlowTypes ==
  ASSUME TypeOK
  PROVE  /\ input \in Seq(Query) /\ net \in Seq(Query) /\ wire \in Seq(Query)
         /\ multibuf \in Seq(Query) /\ sended_queries \in Seq(Query)
         /\ input \o net \in Seq(Query) /\ (input \o net) \o wire \in Seq(Query)
         /\ Flow \in Seq(Query)
BY ConcatProperties DEF TypeOK, QueuesTypeOK, LinkTypeOK, Flow

(* The query that is put in the batch goes to the end of the flow. *)
LEMMA FlowPut ==
  ASSUME TypeOK, HandsOK, NEW t \in Threads, Put(t)
  PROVE  Flow' = Append(Flow, q_tmp)
<1>1. q_tmp \in Query
  BY DEF Put, HandsOK, TypeOK, QueuesTypeOK
<1>2. multibuf' = Append(multibuf, q_tmp) /\ UNCHANGED <<input, net, wire>>
  BY DEF Put
<1>3. ((input \o net) \o wire) \o Append(multibuf, q_tmp)
        = Append(((input \o net) \o wire) \o multibuf, q_tmp)
  BY <1>1, FlowTypes, AppendToConcat
<1> QED
  BY <1>2, <1>3 DEF Flow

(* What the kernel, the server and a read move stays in its place. *)
LEMMA FlowMoves ==
  ASSUME TypeOK, WriteSome \/ Reply \/ \E n \in 0..Len(net) : ReadDone(n)
  PROVE  Flow' = Flow
<1>0. input \in Seq(Query) /\ net \in Seq(Query) /\ wire \in Seq(Query)
      /\ multibuf \in Seq(Query) /\ input \o net \in Seq(Query)
      /\ (input \o net) \o wire \in Seq(Query)
  BY FlowTypes
<1>1. CASE WriteSome
  <2>1. multibuf # <<>> /\ wire' = Append(wire, Head(multibuf)) /\ multibuf' = Tail(multibuf)
        /\ input' = input /\ net' = net
    BY <1>1 DEF WriteSome
  <2>2. Head(multibuf) \in Query
    BY <1>0, <2>1, HeadTail
  <2>3. (input \o net) \o Append(wire, Head(multibuf))
          = Append((input \o net) \o wire, Head(multibuf))
    BY <1>0, <2>2, AppendToConcat
  <2>4. Append((input \o net) \o wire, Head(multibuf)) \o Tail(multibuf)
          = ((input \o net) \o wire) \o multibuf
    BY <1>0, <2>1, MoveHead
  <2> QED
    BY <2>1, <2>3, <2>4 DEF Flow
<1>2. CASE Reply
  <2>1. wire # <<>> /\ net' = Append(net, Head(wire)) /\ wire' = Tail(wire)
        /\ input' = input /\ multibuf' = multibuf
    BY <1>2 DEF Reply
  <2>2. Head(wire) \in Query
    BY <1>0, <2>1, HeadTail
  <2>3. input \o Append(net, Head(wire)) = Append(input \o net, Head(wire))
    BY <1>0, <2>2, AppendToConcat
  <2>4. Append(input \o net, Head(wire)) \o Tail(wire) = (input \o net) \o wire
    BY <1>0, <2>1, MoveHead
  <2> QED
    BY <2>1, <2>3, <2>4 DEF Flow
<1>3. ASSUME NEW n \in 0..Len(net), ReadDone(n)
      PROVE  Flow' = Flow
  <2>1. input' = input \o SubSeq(net, 1, n) /\ net' = SubSeq(net, n + 1, Len(net))
        /\ wire' = wire /\ multibuf' = multibuf
    BY <1>3 DEF ReadDone
  <2>2. (input \o SubSeq(net, 1, n)) \o SubSeq(net, n + 1, Len(net)) = input \o net
    BY <1>0, <1>3, MovePrefix
  <2>3. input' \o net' = input \o net
    BY <2>1, <2>2
  <2> QED
    BY <2>1, <2>3 DEF Flow
<1> QED
  BY <1>1, <1>2, <1>3

(* The first reply in the input buffer is the head of the flow. *)
LEMMA FlowHead ==
  ASSUME TypeOK, input # <<>>
  PROVE  /\ Flow # <<>> /\ Head(Flow) = Head(input)
         /\ Tail(Flow) = Tail(input) \o net \o wire \o multibuf
<1>0. input \in Seq(Query) /\ net \in Seq(Query) /\ wire \in Seq(Query)
      /\ multibuf \in Seq(Query) /\ input \o net \in Seq(Query)
      /\ (input \o net) \o wire \in Seq(Query)
  BY FlowTypes
<1>1. input \o net # <<>> /\ Head(input \o net) = Head(input)
      /\ Tail(input \o net) = Tail(input) \o net
  BY <1>0, HeadTailConcat
<1>2. (input \o net) \o wire # <<>> /\ Head((input \o net) \o wire) = Head(input)
      /\ Tail((input \o net) \o wire) = (Tail(input) \o net) \o wire
  BY <1>0, <1>1, HeadTailConcat
<1>3. Flow # <<>> /\ Head(Flow) = Head(input)
      /\ Tail(Flow) = ((Tail(input) \o net) \o wire) \o multibuf
  BY <1>0, <1>2, HeadTailConcat DEF Flow
<1> QED
  BY <1>3

(* Every step keeps the queries sent and not answered those of the flow, and *)
(* the reply in hand the one of the callback in hand.                       *)
LEMMA MatchStep ==
  ASSUME IInv, [Next]_vars
  PROVE  SendedMatchesWire' /\ CallbackOK'
<1> USE SerialThreadAssumption DEF ThreadsTypeOK, CallbackOK, Threads
<1>t. /\ TypeOK /\ ThreadsTypeOK /\ HandsOK /\ BatchOK /\ DrainOK /\ CallbackOK
      /\ ~error => sended_queries = Flow
  BY DEF IInv, TypeOK, SendedMatchesWire, Flow
<1>f. UNCHANGED <<input, net, wire, multibuf>> => Flow' = Flow
  BY DEF Flow
<1> SUFFICES (~error' => sended_queries' = Flow') /\ CallbackOK'
  BY DEF SendedMatchesWire, Flow
<1> USE <1>t, <1>f
<1>1. CASE \E t \in Threads : PushIgnored(t)
  BY <1>1 DEF PushIgnored, Return
<1>2. CASE \E t \in Threads : CompareExchange(t)
  BY <1>2 DEF CompareExchange, Return
<1>3. CASE \E t \in Threads : NothingToSend(t)
  BY <1>3 DEF NothingToSend
<1>4. CASE \E t \in Threads : Unset(t)
  BY <1>4 DEF Unset, Return
<1>5. CASE \E t \in Threads : Put(t)
  <2>1. PICK t \in Threads : Put(t)
    BY <1>5
  <2>2. Flow' = Append(Flow, q_tmp)
    BY <2>1, FlowPut
  <2> QED
    BY <2>1, <2>2 DEF Put
<1>6. CASE \E t \in Threads : Notify(t)
  BY <1>6 DEF Notify, Notified
<1>7. CASE \E t \in Threads : Write(t)
  BY <1>7 DEF Write, Return
<1>8. CASE ReqSent
  BY <1>8 DEF ReqSent, Handle
<1>9. CASE ReqFailed
  BY <1>9 DEF ReqFailed, Handle
<1>10. CASE RespRead
  BY <1>10 DEF RespRead, Handle
<1>11. CASE TimeoutHandler
  BY <1>11 DEF TimeoutHandler, Handle
<1>12. CASE SocketError
  BY <1>12 DEF SocketError, Notified
<1>13. CASE Drain
  BY <1>13 DEF Drain, DrainOK
<1>14. CASE ParseReply
  <2>1. ParseReply
    BY <1>14
  <2>2. ~error /\ input # <<>> /\ input' = Tail(input) /\ UNCHANGED <<net, wire, multibuf, error>>
    BY <2>1 DEF ParseReply, BatchOK, Batching, BatchLabels
  <2>3. sended_queries = Flow /\ Flow # <<>> /\ Head(Flow) = Head(input) /\ Tail(Flow) = Flow'
    BY <2>2, FlowHead DEF Flow
  <2>4. sended_queries' = Tail(sended_queries) /\ cur' = [cb |-> Head(sended_queries), reply |-> Head(input)]
    BY <2>1, <2>3 DEF ParseReply
  <2> QED
    BY <2>3, <2>4
<1>15. CASE Callback
  BY <1>15 DEF Callback
<1>16. CASE WriteSome
  <2>1. WriteSome
    BY <1>16
  <2>2. Flow' = Flow
    BY <2>1, FlowMoves
  <2> QED
    BY <2>1, <2>2 DEF WriteSome
<1>17. CASE Reply
  <2>1. Reply
    BY <1>17
  <2>2. Flow' = Flow
    BY <2>1, FlowMoves
  <2> QED
    BY <2>1, <2>2 DEF Reply
<1>18. CASE \E n \in 0..Len(net) : ReadDone(n)
  <2>1. PICK n \in 0..Len(net) : ReadDone(n)
    BY <1>18
  <2>2. Flow' = Flow
    BY <2>1, FlowMoves
  <2> QED
    BY <2>1, <2>2 DEF ReadDone
<1>19. CASE
        \/ \E t \in Clients : CallPush(t)
        \/ \E t \in Threads : PushEnters(t)
        \/ \E t \in Threads : PushWait(t)
        \/ \E t \in Threads : PushQuery(t)
        \/ \E t \in Threads : Take(t)
        \/ \E t \in Threads : TakeNothing(t)
  BY <1>19 DEF CallPush, PushEnters, PushWait, PushQuery, Take, TakeNothing
<1>20. CASE
        \/ ParseNothing
        \/ ReadAgain
        \/ WorkDone
        \/ WorkGoesOn
        \/ Release
  BY <1>20 DEF ParseNothing, ReadAgain, WorkDone, WorkGoesOn, Release
<1>21. CASE
        \/ Stop
        \/ StopCheckSended
        \/ StopCheckQueued
        \/ StopWait
        \/ Destroy
        \/ WriteDone
        \/ WriteFails
        \/ ReadFails
        \/ Break
        \/ TimerExpires
  BY <1>21 DEF Stop, StopCheckSended, StopCheckQueued, StopWait, Destroy, WriteDone,
     WriteFails, ReadFails, Break, TimerExpires
<1>22. CASE UNCHANGED vars
  BY <1>22
<1> QED
  BY <1>1, <1>2, <1>3, <1>4, <1>5, <1>6, <1>7, <1>8, <1>9, <1>10, <1>11, <1>12, <1>13,
     <1>14, <1>15, <1>16, <1>17, <1>18, <1>19, <1>20, <1>21, <1>22
     DEF Next, PushStep, LoopStep, OwnerStep, Threads

(* Every step keeps the replies with the callbacks they are for. *)
LEMMA AnswerStep ==
  ASSUME IInv, [Next]_vars
  PROVE  OwnAnswer'
<1> USE SerialThreadAssumption, SerialQueryAssumption
    DEF TypeOK, ThreadsTypeOK, CallbacksTypeOK, HandsOK, CallbackOK, OwnAnswer, Threads
<1>t. TypeOK /\ HandsOK /\ CallbackOK /\ OwnAnswer
  BY DEF IInv
<1> USE <1>t
<1>1. CASE \E t \in Threads : PushIgnored(t)
  BY <1>1 DEF PushIgnored, Return, Ignored
<1>2. CASE Drain
  BY <1>2 DEF Drain, Disconnected
<1>3. CASE Callback
  BY <1>3 DEF Callback, Answered
<1>4. CASE
        \/ \E t \in Clients : CallPush(t)
        \/ \E t \in Threads : PushEnters(t)
        \/ \E t \in Threads : PushWait(t)
        \/ \E t \in Threads : PushQuery(t)
        \/ \E t \in Threads : CompareExchange(t)
        \/ \E t \in Threads : NothingToSend(t)
        \/ \E t \in Threads : Unset(t)
        \/ \E t \in Threads : Take(t)
  BY <1>4 DEF CallPush, PushEnters, PushWait, PushQuery, CompareExchange, Return,
     NothingToSend, Unset, Take
<1>5. CASE
        \/ \E t \in Threads : TakeNothing(t)
        \/ \E t \in Threads : Put(t)
        \/ \E t \in Threads : Notify(t)
        \/ \E t \in Threads : Write(t)
        \/ ReqSent
        \/ ReqFailed
        \/ RespRead
        \/ TimeoutHandler
  BY <1>5 DEF TakeNothing, Put, Notify, Notified, Write, Return, ReqSent, Handle, ReqFailed,
     RespRead, TimeoutHandler
<1>6. CASE
        \/ SocketError
        \/ ParseReply
        \/ ParseNothing
        \/ ReadAgain
        \/ WorkDone
        \/ WorkGoesOn
        \/ Release
        \/ Stop
  BY <1>6 DEF SocketError, Notified, ParseReply, ParseNothing, ReadAgain, WorkDone,
     WorkGoesOn, Release, Stop
<1>7. CASE
        \/ StopCheckSended
        \/ StopCheckQueued
        \/ StopWait
        \/ Destroy
        \/ WriteSome
        \/ WriteDone
        \/ WriteFails
        \/ Reply
  BY <1>7 DEF StopCheckSended, StopCheckQueued, StopWait, Destroy, WriteSome, WriteDone,
     WriteFails, Reply
<1>8. CASE
        \/ \E n \in 0..Len(net) : ReadDone(n)
        \/ ReadFails
        \/ Break
        \/ TimerExpires
  BY <1>8 DEF ReadDone, ReadFails, Break, TimerExpires
<1>9. CASE UNCHANGED vars
  BY <1>9
<1> QED
  BY <1>1, <1>2, <1>3, <1>4, <1>5, <1>6, <1>7, <1>8, <1>9
     DEF Next, PushStep, LoopStep, OwnerStep, Threads

(* Concatenation of sequences of queries is associative, and the empty one   *)
(* is neutral.                                                              *)
LEMMA QueryConcat ==
  /\ \A r, t, u \in Seq(Query) : (r \o t) \o u = r \o (t \o u)
  /\ \A r, t \in Seq(Query) : r \o t \in Seq(Query)
  /\ \A r \in Seq(Query) : <<>> \o r = r /\ r \o <<>> = r
  /\ \A r \in Seq(Query) : r # <<>> => r = <<Head(r)>> \o Tail(r) /\ Tail(r) \in Seq(Query)
                                       /\ Head(r) \in Query
  /\ <<>> \in Seq(Query) /\ \A q \in Query : <<q>> \in Seq(Query)
<1>1. \A r, t, u \in Seq(Query) : (r \o t) \o u = r \o (t \o u)
  BY ConcatAssociative
<1>2. \A r, t \in Seq(Query) : r \o t \in Seq(Query)
  BY ConcatProperties
<1>3. \A r \in Seq(Query) : <<>> \o r = r /\ r \o <<>> = r
  BY ConcatEmptySeq
<1>4. \A r \in Seq(Query) : r # <<>> => r = <<Head(r)>> \o Tail(r) /\ Tail(r) \in Seq(Query)
                                        /\ Head(r) \in Query
  OBVIOUS
<1> QED
  BY <1>1, <1>2, <1>3, <1>4

(* A query is in two sequences put together when it is in one of them. *)
LEMMA InConcat ==
  ASSUME NEW r \in Seq(Query), NEW t \in Seq(Query), NEW q
  PROVE  In(q, r \o t) <=> In(q, r) \/ In(q, t)
<1>1. /\ DOMAIN r = 1..Len(r) /\ DOMAIN t = 1..Len(t) /\ DOMAIN (r \o t) = 1..Len(r) + Len(t)
      /\ Len(r) \in Nat /\ Len(t) \in Nat
      /\ \A i \in 1..Len(r) + Len(t) : (r \o t)[i] = IF i <= Len(r) THEN r[i] ELSE t[i - Len(r)]
  BY ConcatProperties
<1>2. In(q, r) => In(q, r \o t)
  BY <1>1 DEF In
<1>3. ASSUME In(q, t) PROVE In(q, r \o t)
  <2>1. PICK i \in 1..Len(t) : t[i] = q
    BY <1>1, <1>3 DEF In
  <2>2. i + Len(r) \in DOMAIN (r \o t) /\ (r \o t)[i + Len(r)] = t[(i + Len(r)) - Len(r)]
    BY <1>1
  <2> QED
    BY <1>1, <2>1, <2>2 DEF In
<1>4. ASSUME In(q, r \o t) PROVE In(q, r) \/ In(q, t)
  <2>1. PICK i \in 1..Len(r) + Len(t) : (r \o t)[i] = q
    BY <1>1, <1>4 DEF In
  <2>2. CASE i <= Len(r)
    BY <1>1, <2>1, <2>2 DEF In
  <2>3. CASE ~(i <= Len(r))
    <3>1. i - Len(r) \in DOMAIN t /\ t[i - Len(r)] = q
      BY <1>1, <2>1, <2>3
    <3> QED
      BY <3>1 DEF In
  <2> QED
    BY <2>2, <2>3
<1> QED
  BY <1>2, <1>3, <1>4

(* The parts of the line, and who is in it. *)
LEMMA LineFacts ==
  ASSUME TypeOK
  PROVE  /\ InHand(cur.cb) \in Seq(Query) /\ InHand(q_tmp) \in Seq(Query)
         /\ query_queue \in Seq(Query) /\ sended_queries \in Seq(Query)
         /\ InHand(q_tmp) \o query_queue \in Seq(Query)
         /\ sended_queries \o (InHand(q_tmp) \o query_queue) \in Seq(Query)
         /\ Line \in Seq(Query)
         /\ \A q \in Query : In(q, Line) <=> \/ cur.cb = q \/ In(q, sended_queries)
                                             \/ q_tmp = q \/ In(q, query_queue)
<1>1. /\ InHand(cur.cb) \in Seq(Query) /\ InHand(q_tmp) \in Seq(Query)
      /\ query_queue \in Seq(Query) /\ sended_queries \in Seq(Query)
  BY QueryConcat DEF TypeOK, QueuesTypeOK, CallbacksTypeOK, InHand
<1>2. InHand(q_tmp) \o query_queue \in Seq(Query)
  BY <1>1, QueryConcat
<1>3. sended_queries \o (InHand(q_tmp) \o query_queue) \in Seq(Query)
  BY <1>1, <1>2, QueryConcat
<1>4. Line \in Seq(Query)
  BY <1>1, <1>3, QueryConcat DEF Line
<1>5. ASSUME NEW q \in Query
      PROVE  In(q, Line) <=> \/ cur.cb = q \/ In(q, sended_queries)
                             \/ q_tmp = q \/ In(q, query_queue)
  <2>1. \A x : In(q, InHand(x)) <=> x = q
    BY SerialQueryAssumption DEF In, InHand
  <2>2. In(q, InHand(q_tmp) \o query_queue) <=> q_tmp = q \/ In(q, query_queue)
    BY <1>1, <2>1, InConcat
  <2>3. In(q, sended_queries \o (InHand(q_tmp) \o query_queue))
          <=> In(q, sended_queries) \/ q_tmp = q \/ In(q, query_queue)
    <3>1. \A r, v \in Seq(Query) : In(q, r \o v) <=> In(q, r) \/ In(q, v)
      BY InConcat
    <3> QED
      BY <1>1, <1>2, <2>2, <3>1
  <2>4. In(q, InHand(cur.cb) \o (sended_queries \o (InHand(q_tmp) \o query_queue)))
          <=> \/ In(q, InHand(cur.cb))
              \/ In(q, sended_queries \o (InHand(q_tmp) \o query_queue))
    <3>1. \A r, v \in Seq(Query) : In(q, r \o v) <=> In(q, r) \/ In(q, v)
      BY InConcat
    <3> QED
      BY <1>1, <1>3, <3>1
  <2> QED
    BY <2>1, <2>3, <2>4 DEF Line
<1> QED
  BY <1>1, <1>2, <1>3, <1>4, <1>5

(* Taking a query, putting it in the batch and taking its callback move it   *)
(* along the line, and every other step but a push, a callback and the      *)
(* draining leaves the line alone.                                          *)
LEMMA LineKept ==
  ASSUME IInv, [Next]_vars, \A t \in Threads : ~PushQuery(t), ~Callback, ~Drain
  PROVE  Line' = Line
<1> USE DEF TypeOK, CallbacksTypeOK
<1>t. TypeOK
  BY DEF IInv
<1>l. UNCHANGED <<cur, sended_queries, q_tmp, query_queue>> => Line' = Line
  BY DEF Line
<1> USE <1>l
<1>1. CASE \E t \in Threads : PushQuery(t)
  BY <1>1
<1>2. CASE \E t \in Threads : Take(t)
  <2>1. PICK t \in Threads : Take(t)
    BY <1>2
  <2>2. q_tmp = NoQuery
    BY <2>1 DEF Take, IInv, HandsOK, BatchOK, Batching, BatchLabels
  <2>3. /\ Head(query_queue) \in Query /\ query_queue = <<Head(query_queue)>> \o Tail(query_queue)
        /\ <<>> \o query_queue = query_queue
    BY <1>t, <2>1, LineFacts, QueryConcat DEF Take
  <2>4. InHand(q_tmp') \o query_queue' = InHand(q_tmp) \o query_queue
    BY <2>1, <2>2, <2>3, SerialQueryAssumption DEF Take, InHand
  <2> QED
    BY <2>1, <2>4 DEF Take, Line
<1>3. CASE \E t \in Threads : Put(t)
  <2>1. PICK t \in Threads : Put(t)
    BY <1>3
  <2>2. q_tmp \in Query /\ q_tmp # NoQuery
    BY <1>t, <2>1, SerialQueryAssumption DEF Put, IInv, HandsOK, QueuesTypeOK
  <2>3. sended_queries' = sended_queries \o <<q_tmp>> /\ q_tmp' = NoQuery /\ query_queue' = query_queue
        /\ cur' = cur
    BY <1>t, <2>1, <2>2, LineFacts, AppendIsConcat DEF Put
  <2>4. InHand(q_tmp) = <<q_tmp>> /\ InHand(q_tmp') = <<>> /\ <<q_tmp>> \in Seq(Query)
    BY <2>2, <2>3 DEF InHand
  <2>5. (sended_queries \o <<q_tmp>>) \o query_queue
          = sended_queries \o (<<q_tmp>> \o query_queue) /\ <<>> \o query_queue = query_queue
    BY <1>t, <2>4, LineFacts, QueryConcat
  <2> QED
    BY <2>3, <2>4, <2>5 DEF Line
<1>4. CASE Drain
  BY <1>4
<1>5. CASE ParseReply
  <2>1. ParseReply
    BY <1>5
  <2>2. CASE sended_queries = <<>>
    BY <2>1, <2>2 DEF ParseReply, Line
  <2>3. CASE sended_queries # <<>>
    <3> DEFINE rest == InHand(q_tmp) \o query_queue
               tl == Tail(sended_queries)
    <3>1. cur.cb = NoQuery
      BY <2>1 DEF ParseReply, IInv, HandsOK
    <3>2. Head(sended_queries) \in Query /\ tl \in Seq(Query)
          /\ sended_queries = <<Head(sended_queries)>> \o tl
          /\ <<Head(sended_queries)>> \in Seq(Query) /\ rest \in Seq(Query)
          /\ sended_queries \o rest \in Seq(Query)
      BY <1>t, <2>3, LineFacts, QueryConcat
    <3>3. cur'.cb = Head(sended_queries) /\ sended_queries' = tl
          /\ InHand(q_tmp') \o query_queue' = rest
      BY <2>1, <2>3 DEF ParseReply
    <3>4. InHand(cur.cb) = <<>> /\ InHand(cur'.cb) = <<Head(sended_queries)>>
      BY <3>1, <3>2, <3>3, SerialQueryAssumption DEF InHand
    <3>5. Line = sended_queries \o rest
      BY <3>2, <3>4, QueryConcat DEF Line
    <3>6. Line' = <<Head(sended_queries)>> \o (tl \o rest)
      BY <3>3, <3>4 DEF Line
    <3>7. (<<Head(sended_queries)>> \o tl) \o rest = <<Head(sended_queries)>> \o (tl \o rest)
      BY <3>2, QueryConcat
    <3> QED
      BY <3>2, <3>5, <3>6, <3>7
  <2> QED
    BY <2>2, <2>3
<1>6. CASE Callback
  BY <1>6
<1>7. CASE
        \/ \E t \in Clients : CallPush(t)
        \/ \E t \in Threads : PushIgnored(t)
        \/ \E t \in Threads : PushEnters(t)
        \/ \E t \in Threads : PushWait(t)
        \/ \E t \in Threads : CompareExchange(t)
        \/ \E t \in Threads : NothingToSend(t)
        \/ \E t \in Threads : Unset(t)
  BY <1>7 DEF CallPush, PushIgnored, Return, PushEnters, PushWait, CompareExchange,
     NothingToSend, Unset
<1>8. CASE
        \/ \E t \in Threads : TakeNothing(t)
        \/ \E t \in Threads : Notify(t)
        \/ \E t \in Threads : Write(t)
        \/ ReqSent
        \/ ReqFailed
        \/ RespRead
        \/ TimeoutHandler
  BY <1>8 DEF TakeNothing, Notify, Notified, Write, Return, ReqSent, Handle, ReqFailed,
     RespRead, TimeoutHandler
<1>9. CASE
        \/ SocketError
        \/ ParseNothing
        \/ ReadAgain
        \/ WorkDone
        \/ WorkGoesOn
        \/ Release
        \/ Stop
  BY <1>9 DEF SocketError, Notified, ParseNothing, ReadAgain, WorkDone, WorkGoesOn, Release,
     Stop
<1>10. CASE
        \/ StopCheckSended
        \/ StopCheckQueued
        \/ StopWait
        \/ Destroy
        \/ WriteSome
        \/ WriteDone
        \/ WriteFails
  BY <1>10 DEF StopCheckSended, StopCheckQueued, StopWait, Destroy, WriteSome, WriteDone,
     WriteFails
<1>11. CASE
        \/ Reply
        \/ \E n \in 0..Len(net) : ReadDone(n)
        \/ ReadFails
        \/ Break
        \/ TimerExpires
  BY <1>11 DEF Reply, ReadDone, ReadFails, Break, TimerExpires
<1>12. CASE UNCHANGED vars
  BY <1>12
<1> QED
  BY <1>1, <1>2, <1>3, <1>4, <1>5, <1>6, <1>7, <1>8, <1>9, <1>10, <1>11, <1>12
     DEF Next, PushStep, LoopStep, OwnerStep, Threads

(* A push puts its query at the end of the line. *)
LEMMA LinePushed ==
  ASSUME IInv, NEW t \in Threads, PushQuery(t)
  PROVE  arg[t] \in Query /\ Line' = Append(Line, arg[t])
<1>1. TypeOK /\ arg[t] \in Query
  BY SerialThreadAssumption DEF IInv, PushQuery, HandsOK, TypeOK, ThreadsTypeOK, Threads
<1>2. query_queue' = Append(query_queue, arg[t]) /\ UNCHANGED <<cur, sended_queries, q_tmp>>
  BY DEF PushQuery
<1>3. InHand(q_tmp) \o Append(query_queue, arg[t]) = Append(InHand(q_tmp) \o query_queue, arg[t])
  BY <1>1, LineFacts, AppendToConcat
<1>4. sended_queries \o Append(InHand(q_tmp) \o query_queue, arg[t])
        = Append(sended_queries \o (InHand(q_tmp) \o query_queue), arg[t])
  BY <1>1, LineFacts, AppendToConcat
<1>5. InHand(cur.cb) \o Append(sended_queries \o (InHand(q_tmp) \o query_queue), arg[t])
        = Append(InHand(cur.cb) \o (sended_queries \o (InHand(q_tmp) \o query_queue)), arg[t])
  BY SMTT(20), <1>1, LineFacts, AppendToConcat
<1> QED
  BY <1>1, <1>2, <1>3, <1>4, <1>5 DEF Line

(* The callback being called is the first in line, and leaves it. *)
LEMMA LineCalled ==
  ASSUME IInv, Callback
  PROVE  /\ cur.cb \in Query /\ Line # <<>> /\ Head(Line) = cur.cb /\ Line' = Tail(Line)
<1> DEFINE rest == sended_queries \o (InHand(q_tmp) \o query_queue)
<1>1. TypeOK /\ cur.cb \in Query /\ cur.cb # NoQuery
  BY SerialQueryAssumption DEF IInv, Callback, HandsOK, TypeOK, CallbacksTypeOK
<1>2. InHand(cur.cb) = <<cur.cb>> /\ rest \in Seq(Query) /\ <<cur.cb>> \in Seq(Query)
  BY <1>1, LineFacts DEF InHand
<1>3. cur'.cb = NoQuery /\ UNCHANGED <<sended_queries, q_tmp, query_queue>>
  BY DEF Callback, NoCallback
<1>4. Line = <<cur.cb>> \o rest /\ Line' = <<>> \o rest
  BY <1>2, <1>3 DEF Line, InHand
<1>5. <<cur.cb>> # <<>> /\ Head(<<cur.cb>>) = cur.cb /\ Tail(<<cur.cb>>) = <<>>
  BY <1>1
<1> HIDE DEF rest
<1>6. <<cur.cb>> \o rest # <<>> /\ Head(<<cur.cb>> \o rest) = Head(<<cur.cb>>)
      /\ Tail(<<cur.cb>> \o rest) = Tail(<<cur.cb>>) \o rest
  BY <1>2, <1>5, HeadTailConcat
<1> QED
  BY <1>1, <1>4, <1>5, <1>6

(* soc_error_callbacks finds the line in the two queues, and empties them. *)
LEMMA LineDrained ==
  ASSUME IInv, Drain
  PROVE  /\ Line' = <<>>
         /\ \A q \in Query : In(q, Line) <=> In(q, sended_queries) \/ In(q, query_queue)
<1>1. TypeOK /\ cur.cb = NoQuery /\ q_tmp = NoQuery
  BY DEF IInv, Drain, HandsOK, DrainOK, BatchOK, Batching, BatchLabels
<1>2. <<>> \in Seq(Query) /\ <<>> \o <<>> = <<>>
  BY QueryConcat
<1>3. Line' = <<>>
  BY <1>1, <1>2 DEF Drain, Line, InHand
<1> QED
  BY <1>1, <1>3, LineFacts, SerialQueryAssumption

(* Every step keeps each query in one place. *)
LEMMA UniqueStep ==
  ASSUME IInv, TypeOK', HandsOK', [Next]_vars
  PROVE  UniqueOK'
<1> USE SerialThreadAssumption, SerialQueryAssumption
    DEF ThreadsTypeOK, CallbacksTypeOK, HandsOK, UniqueOK, Unaccepted, Threads
<1>t. /\ TypeOK /\ ThreadsTypeOK /\ CallbacksTypeOK /\ HandsOK /\ UniqueOK
      /\ Line \in Seq(Query) /\ DOMAIN Line = 1..Len(Line) /\ Len(Line) \in Nat
      /\ \A t \in Threads : pc[t] \in Unaccepted => arg[t] \in Query
  BY LineFacts DEF IInv, TypeOK
<1> USE <1>t
<1> SUFFICES
      /\ \A t, u \in Threads : arg'[t] = arg'[u] /\ arg'[t] # NoQuery => t = u
      /\ \A t \in Threads : pc'[t] \in Unaccepted =>
           outcome'[arg'[t]] = Uncalled /\ ~In(arg'[t], Line')
      /\ \A i \in DOMAIN Line' : outcome'[Line'[i]] = Uncalled
      /\ \A i, j \in DOMAIN Line' : Line'[i] = Line'[j] => i = j
  OBVIOUS
<1>1. CASE \E t \in Threads : PushQuery(t)
  <2>1. PICK t \in Threads : PushQuery(t)
    BY <1>1
  <2>2. arg[t] \in Query /\ Line' = Append(Line, arg[t])
    BY <2>1, LinePushed
  <2>3. /\ DOMAIN Line' = 1..Len(Line) + 1 /\ Line'[Len(Line) + 1] = arg[t]
        /\ \A i \in 1..Len(Line) : Line'[i] = Line[i]
    BY <2>2, AppendFacts
  <2>4. /\ \A i \in 1..Len(Line) : Line[i] # arg[t]
        /\ outcome[arg[t]] = Uncalled
    BY <2>1 DEF PushQuery, In
  <2>5. \A u \in Threads : pc'[u] \in Unaccepted => u # t /\ pc[u] \in Unaccepted /\ arg[u] # arg[t]
    BY <2>1 DEF PushQuery
  <2>6. arg' = arg /\ outcome' = outcome
    BY <2>1 DEF PushQuery
  <2>7. \A u \in Threads : pc'[u] \in Unaccepted =>
          outcome'[arg'[u]] = Uncalled /\ ~In(arg'[u], Line')
    <3> SUFFICES ASSUME NEW u \in Threads, pc'[u] \in Unaccepted
                 PROVE  outcome[arg[u]] = Uncalled /\ ~In(arg[u], Line')
      BY <2>6
    <3>1. outcome[arg[u]] = Uncalled /\ ~In(arg[u], Line) /\ arg[u] # arg[t]
      BY <2>5
    <3>2. \A i \in 1..Len(Line) + 1 : Line'[i] = arg[t] \/ \E j \in 1..Len(Line) : Line'[i] = Line[j]
      BY <2>3
    <3> QED
      BY <2>3, <3>1, <3>2 DEF In
  <2>8. \A i \in DOMAIN Line' : outcome'[Line'[i]] = Uncalled
    BY <2>3, <2>4, <2>6
  <2>9. \A i, j \in DOMAIN Line' : Line'[i] = Line'[j] => i = j
    BY <2>3, <2>4
  <2> QED
    BY <2>6, <2>7, <2>8, <2>9
<1>2. CASE Callback
  <2>1. cur.cb \in Query /\ Line # <<>> /\ Head(Line) = cur.cb /\ Line' = Tail(Line)
    BY <1>2, LineCalled
  <2>2. /\ DOMAIN Line' = 1..Len(Line) - 1 /\ Len(Line) > 0 /\ Line[1] = cur.cb
        /\ \A i \in 1..Len(Line) - 1 : Line'[i] = Line[i + 1] /\ i + 1 \in DOMAIN Line
    BY <2>1, HeadTail
  <2>3. \A i \in DOMAIN Line' : Line'[i] # cur.cb
    <3> SUFFICES ASSUME NEW i \in DOMAIN Line', Line'[i] = cur.cb PROVE FALSE
      OBVIOUS
    <3>1. i + 1 = 1
      BY <2>2
    <3> QED
      BY <2>2, <3>1
  <2>4. \A q \in Query : q # cur.cb => outcome'[q] = outcome[q]
    BY <1>2 DEF Callback
  <2>5. \A q \in Query : ~In(q, Line) => ~In(q, Line')
    <3> SUFFICES ASSUME NEW q \in Query, NEW i \in DOMAIN Line', Line'[i] = q
                 PROVE  In(q, Line)
      BY DEF In
    <3>1. i + 1 \in DOMAIN Line /\ Line[i + 1] = q
      BY <2>2
    <3> QED
      BY <3>1 DEF In
  <2>6. In(cur.cb, Line)
    BY <2>2 DEF In
  <2>7. \A t \in Threads : pc'[t] \in Unaccepted =>
          outcome'[arg'[t]] = Uncalled /\ ~In(arg'[t], Line')
    <3> SUFFICES ASSUME NEW t \in Threads, pc'[t] \in Unaccepted
                 PROVE  outcome'[arg'[t]] = Uncalled /\ ~In(arg'[t], Line')
      OBVIOUS
    <3>1. arg'[t] \in Query /\ outcome[arg'[t]] = Uncalled /\ ~In(arg'[t], Line)
      <4>1. CASE t = Loop
        <5>1. PICK q \in FromCallback : Fresh(q) /\ arg'[Loop] = q
          BY <1>2, <4>1 DEF Callback
        <5>2. q \in Query /\ outcome[q] = Uncalled /\ ~In(q, Line)
          BY <5>1, LineFacts DEF Fresh
        <5> QED
          BY <4>1, <5>1, <5>2
      <4>2. CASE t # Loop
        BY <1>2, <4>2 DEF Callback
      <4> QED
        BY <4>1, <4>2
    <3>2. arg'[t] # cur.cb
      BY <2>6, <3>1
    <3> QED
      BY <2>4, <2>5, <3>1, <3>2
  <2>8. \A t, u \in Threads : arg'[t] = arg'[u] /\ arg'[t] # NoQuery => t = u
    BY <1>2 DEF Callback, Fresh
  <2>9. \A i \in DOMAIN Line' : outcome'[Line'[i]] = Uncalled
    <3> TAKE i \in DOMAIN Line'
    <3>1. i + 1 \in DOMAIN Line /\ Line'[i] = Line[i + 1] /\ Line[i + 1] \in Query
      BY <2>2
    <3> QED
      BY <2>3, <2>4, <3>1
  <2>10. \A i, j \in DOMAIN Line' : Line'[i] = Line'[j] => i = j
    <3> SUFFICES ASSUME NEW i \in DOMAIN Line', NEW j \in DOMAIN Line', Line'[i] = Line'[j]
                 PROVE  i = j
      OBVIOUS
    <3>1. Line[i + 1] = Line[j + 1] /\ i + 1 \in DOMAIN Line /\ j + 1 \in DOMAIN Line
      BY <2>2
    <3>2. i + 1 = j + 1
      BY <3>1
    <3> QED
      BY <2>2, <3>2
  <2> QED
    BY <2>7, <2>8, <2>9, <2>10
<1>3. CASE Drain
  <2>1. Line' = <<>> /\ \A q \in Query : In(q, Line) <=> In(q, sended_queries) \/ In(q, query_queue)
    BY <1>3, LineDrained
  <2>2. \A t \in Threads : pc'[t] \in Unaccepted => pc[t] \in Unaccepted /\ arg'[t] = arg[t]
    BY <1>3 DEF Drain
  <2>3. \A q \in Query : ~In(q, Line) => outcome'[q] = outcome[q]
    BY <1>3, <2>1 DEF Drain
  <2>4. DOMAIN Line' = {} /\ \A q : ~In(q, Line')
    BY <2>1 DEF In
  <2> QED
    BY <1>3, <2>2, <2>3, <2>4 DEF Drain
<1>4. CASE (\A t \in Threads : ~PushQuery(t)) /\ ~Callback /\ ~Drain
  <2>1. Line' = Line
    BY <1>4, LineKept
  <2>2. \A q : In(q, Line') <=> In(q, Line)
    BY <2>1 DEF In
  <2>3. CASE \E t \in Clients : CallPush(t)
    <3>1. PICK t \in Clients : CallPush(t)
      BY <2>3
    <3>2. PICK q \in Query : Fresh(q) /\ arg' = [arg EXCEPT ![t] = q]
      BY <3>1, FreshFacts DEF CallPush
    <3>3. outcome[q] = Uncalled /\ ~In(q, Line) /\ \A u \in Threads : arg[u] # q
      BY <3>2, LineFacts DEF Fresh
    <3>4. outcome' = outcome /\ pc' = [pc EXCEPT ![t] = "enter"]
      BY <3>1 DEF CallPush
    <3> QED
      BY <2>1, <2>2, <3>2, <3>3, <3>4
  <2>4. CASE \E t \in Threads : PushIgnored(t)
    <3>1. PICK t \in Threads : PushIgnored(t)
      BY <2>4
    <3>2. arg[t] \in Query /\ ~In(arg[t], Line) /\ pc[t] = "enter"
      BY <3>1 DEF PushIgnored
    <3>3. \A q \in Query : q # arg[t] => outcome'[q] = outcome[q]
      BY <3>1 DEF PushIgnored
    <3>4. \A u \in Threads : u # t => pc'[u] = pc[u] /\ arg'[u] = arg[u]
      BY <3>1 DEF PushIgnored, Return
    <3>5. pc'[t] \notin Unaccepted /\ arg'[t] = NoQuery
      BY <3>1 DEF PushIgnored, Return
    <3>6. \A i \in DOMAIN Line : Line[i] \in Query /\ Line[i] # arg[t]
      BY <3>2 DEF In
    <3>7. \A u \in Threads : pc'[u] \in Unaccepted => u # t /\ arg[u] # arg[t] /\ arg[u] \in Query
      BY <3>2, <3>4, <3>5
    <3> QED
      BY <2>1, <2>2, <3>3, <3>4, <3>5, <3>6, <3>7
  <2>5. CASE /\ outcome' = outcome
             /\ \A t \in Threads : /\ arg'[t] = arg[t] \/ arg'[t] = NoQuery
                                   /\ pc'[t] \in Unaccepted => pc[t] \in Unaccepted
    <3>1. \A t \in Threads : pc'[t] \in Unaccepted => arg'[t] = arg[t]
      BY <2>5
    <3> QED
      BY <2>1, <2>2, <2>5, <3>1
  <2>6. QED
    <3>1. ASSUME ~\E t \in Clients : CallPush(t), ~\E t \in Threads : PushIgnored(t)
          PROVE  /\ outcome' = outcome
                 /\ \A t \in Threads : /\ arg'[t] = arg[t] \/ arg'[t] = NoQuery
                                       /\ pc'[t] \in Unaccepted => pc[t] \in Unaccepted
      <4>1. CASE \E t \in Clients : CallPush(t)
        BY <4>1, <3>1
      <4>2. CASE \E t \in Threads : PushIgnored(t)
        BY <4>2, <3>1
      <4>3. CASE \E t \in Threads : PushQuery(t)
        BY <4>3, <1>4
      <4>4. CASE Drain
        BY <4>4, <1>4
      <4>5. CASE Callback
        BY <4>5, <1>4
      <4>6. CASE
              \/ \E t \in Threads : PushEnters(t)
              \/ \E t \in Threads : PushWait(t)
              \/ \E t \in Threads : NothingToSend(t)
              \/ \E t \in Threads : Take(t)
              \/ \E t \in Threads : TakeNothing(t)
              \/ \E t \in Threads : Put(t)
        BY <4>6 DEF PushEnters, PushWait, NothingToSend, Take, TakeNothing, Put
      <4>7. CASE
              \/ \E t \in Threads : CompareExchange(t)
              \/ \E t \in Threads : Unset(t)
              \/ \E t \in Threads : Write(t)
        BY <4>7 DEF CompareExchange, Return, Unset, Write
      <4>8. CASE
              \/ \E t \in Threads : Notify(t)
              \/ SocketError
        BY <4>8 DEF Notify, Notified, SocketError
      <4>9. CASE
              \/ ReqSent
              \/ ReqFailed
              \/ RespRead
              \/ TimeoutHandler
        BY <4>9 DEF ReqSent, Handle, ReqFailed, RespRead, TimeoutHandler
      <4>10. CASE
              \/ ParseReply
              \/ ParseNothing
              \/ ReadAgain
              \/ WorkDone
              \/ WorkGoesOn
              \/ Release
        BY <4>10 DEF ParseReply, ParseNothing, ReadAgain, WorkDone, WorkGoesOn, Release
      <4>11. CASE
              \/ Stop
              \/ StopCheckSended
              \/ StopCheckQueued
              \/ StopWait
              \/ Destroy
        BY <4>11 DEF Stop, StopCheckSended, StopCheckQueued, StopWait, Destroy
      <4>12. CASE
              \/ WriteSome
              \/ WriteDone
              \/ WriteFails
              \/ Reply
              \/ \E n \in 0..Len(net) : ReadDone(n)
              \/ ReadFails
              \/ Break
              \/ TimerExpires
        BY <4>12 DEF WriteSome, WriteDone, WriteFails, Reply, ReadDone, ReadFails, Break,
           TimerExpires
      <4>13. CASE UNCHANGED vars
        BY <4>13
      <4> QED
        BY <4>1, <4>2, <4>3, <4>4, <4>5, <4>6, <4>7, <4>8, <4>9, <4>10, <4>11, <4>12, <4>13
           DEF Next, PushStep, LoopStep, OwnerStep, Threads
    <3> QED
      BY <2>3, <2>4, <2>5, <3>1
<1> QED
  BY <1>1, <1>2, <1>3, <1>4

(* The initial states satisfy the inductive invariant. *)
LEMMA InitInv ==
  ASSUME Init
  PROVE  IInv
<1> USE SerialThreadAssumption, SerialQueryAssumption, SerialLimitAssumption DEF Init, Threads
<1>1. Line = <<>>
  BY QueryConcat DEF Line, InHand, NoCallback
<1>2. TypeOK
  <2>1. ThreadsTypeOK /\ QueuesTypeOK
    BY EmptySeq DEF ThreadsTypeOK, QueuesTypeOK, LoopLabels
  <2>2. CallbacksTypeOK
    BY DEF CallbacksTypeOK, NoCallback, Service!Outcome, Uncalled
  <2>3. FlagsTypeOK
    BY Zenon DEF FlagsTypeOK
  <2>4. LinkTypeOK
    BY DEF LinkTypeOK
  <2> QED
    BY <2>1, <2>2, <2>3, <2>4 DEF TypeOK
<1>3. HandsOK
  BY DEF HandsOK, NoCallback
<1>4. BatchOK
  BY DEF BatchOK, Batching, BatchLabels, Quiet, HandlersQuiet
<1>5. MultibufOK /\ DrainOK /\ CallbackOK /\ StopOK
  BY DEF MultibufOK, DrainOK, CallbackOK, StopOK
<1>6. UniqueOK
  BY <1>1 DEF UniqueOK, Unaccepted
<1>7. OwnAnswer /\ WaiterHasCause /\ SendedDrains
  BY DEF OwnAnswer, WaiterHasCause, SendedDrains, Uncalled
<1>8. SendedMatchesWire
  BY QueryConcat DEF SendedMatchesWire
<1> QED
  BY <1>2, <1>3, <1>4, <1>5, <1>6, <1>7, <1>8 DEF IInv

(* IInv is inductive. *)
LEMMA NextInv ==
  ASSUME IInv, [Next]_vars
  PROVE  IInv'
<1>1. TypeOK'
  BY ThreadsType, QueuesType, CallbacksType, FlagsType, LinkType DEF TypeOK
<1>2. HandsOK' /\ BatchOK' /\ MultibufOK' /\ DrainOK' /\ StopOK'
  BY HandsStep, BatchStep, MultibufStep, DrainStep, StopStep
<1>3. SendedMatchesWire' /\ CallbackOK' /\ OwnAnswer'
  BY MatchStep, AnswerStep
<1>4. WaiterHasCause' /\ SendedDrains'
  BY WaitStep, DrainsStep
<1>5. UniqueOK'
  BY <1>1, <1>2, UniqueStep
<1> QED
  BY <1>1, <1>2, <1>3, <1>4, <1>5 DEF IInv

(* Every reachable state satisfies the inductive invariant. *)
THEOREM Invariance == Spec => []IInv
<1>1. Init => IInv
  BY InitInv
<1>2. IInv /\ [Next]_vars => IInv'
  BY NextInv
<1> QED
  BY <1>1, <1>2, PTL DEF Spec

(* The queue exceeds max_buff_size by one at most, and a batch                *)
(* max_query_in_multibuff by one (serial.hpp:34, serial.cpp:47).             *)
THEOREM TypeCorrect == Spec => []TypeOK
<1>1. IInv => TypeOK
  BY DEF IInv
<1> QED
  BY <1>1, Invariance, PTL

(* One batch at a time: while one is built, written or read for, no thread   *)
(* starts another, and the first error is the last (_req_proc_running).      *)
THEOREM SingleBatch == Spec => []OneBatch
<1>1. IInv => OneBatch
  BY SerialThreadAssumption DEF IInv, BatchOK, Batching, BatchLabels, OneBatch, Threads
<1> QED
  BY <1>1, Invariance, PTL

(* The queries sent and not answered are those of the batch, the wire and    *)
(* the input buffer, so that resp_handler never finds a reply too many.      *)
THEOREM SendedInOrder == Spec => []SendedMatchesWire
<1>1. IInv => SendedMatchesWire
  BY DEF IInv
<1> QED
  BY <1>1, Invariance, PTL

(* A callback that gets a reply gets that of its own query, whether or not   *)
(* the connection breaks: what Pipeline promises only before an error.       *)
THEOREM RightReply == Spec => []OwnAnswer
<1>1. IInv => OwnAnswer
  BY DEF IInv
<1> QED
  BY <1>1, Invariance, PTL

(* No thread sleeps in push() beside a queue with room that nobody is taking *)
(* from (push, __req_poc).                                                   *)
THEOREM NobodyWaitsInVain == Spec => []WaiterHasCause
<1>1. IInv => WaiterHasCause
  BY DEF IInv
<1> QED
  BY <1>1, Invariance, PTL

(* An error leaves no query that was sent without its callback called.       *)
THEOREM ErrorAnswersAll == Spec => []SendedDrains
<1>1. IInv => SendedDrains
  BY DEF IInv
<1> QED
  BY <1>1, Invariance, PTL

(* The initial states are initial states of CallbackService. *)
LEMMA InitService ==
  ASSUME Init
  PROVE  Service!Init
<1>1. Line = <<>>
  BY QueryConcat DEF Init, Line, InHand, NoCallback
<1> QED
  BY <1>1 DEF Init, Service!Init, Uncalled, Service!Uncalled

(* Every step is one of CallbackService, or the late push, or changes        *)
(* nothing that CallbackService speaks of.                                   *)
LEMMA NextService ==
  ASSUME IInv, [Next]_vars
  PROVE  [Service!Next \/ LatePush]_(Service!vars)
<1> USE SerialThreadAssumption, SerialQueryAssumption
    DEF ThreadsTypeOK, CallbacksTypeOK, HandsOK, UniqueOK, Unaccepted, Threads, Service!vars,
        Uncalled, Service!Uncalled
<1>t. /\ TypeOK /\ ThreadsTypeOK /\ CallbacksTypeOK /\ HandsOK /\ UniqueOK
      /\ Line \in Seq(Query) /\ DOMAIN Line = 1..Len(Line) /\ Len(Line) \in Nat
      /\ stop \in BOOLEAN
      /\ \A t \in Threads : pc[t] \in Unaccepted => arg[t] \in Query
  BY LineFacts DEF IInv, TypeOK, FlagsTypeOK
<1>w. \A q : Service!Waiting(q) <=> In(q, Line)
  BY DEF Service!Waiting, In
<1> USE <1>t, <1>w
<1>1. CASE \E t \in Threads : PushQuery(t)
  <2>1. PICK t \in Threads : PushQuery(t)
    BY <1>1
  <2>2. arg[t] \in Query /\ Line' = Append(Line, arg[t])
    BY <2>1, LinePushed
  <2>3. outcome[arg[t]] = Uncalled /\ ~In(arg[t], Line) /\ outcome' = outcome /\ stop' = stop
    BY <2>1 DEF PushQuery
  <2>4. CASE stop
    <3>1. error
      BY <2>1, <2>4 DEF PushQuery, IInv, StopOK
    <3> QED
      BY <2>1, <3>1 DEF LatePush
  <2>5. CASE ~stop
    <3>1. Service!Accept(arg[t])
      BY <2>2, <2>3, <2>5 DEF Service!Accept
    <3> QED
      BY <2>2, <3>1 DEF Service!Next
  <2> QED
    BY <2>4, <2>5
<1>2. CASE Callback
  <2>1. cur.cb \in Query /\ Line # <<>> /\ Head(Line) = cur.cb /\ Line' = Tail(Line)
    BY <1>2, LineCalled
  <2>2. outcome[cur.cb] = Uncalled
    BY <2>1, HeadTail
  <2>3. cur.reply = cur.cb
    BY <1>2 DEF Callback, IInv, CallbackOK
  <2>4. outcome' = [outcome EXCEPT ![cur.cb] = Service!Answered(cur.cb)] /\ stop' = stop
    BY <1>2, <2>3 DEF Callback, Answered, Service!Answered
  <2>5. Service!Answer
    BY <2>1, <2>2, <2>4 DEF Service!Answer
  <2> QED
    BY <2>5 DEF Service!Next
<1>3. CASE Drain
  <2>1. Line' = <<>> /\ \A q \in Query : In(q, Line) <=> In(q, sended_queries) \/ In(q, query_queue)
    BY <1>3, LineDrained
  <2>2. stop /\ stop' = stop
    BY <1>3 DEF Drain, IInv, DrainOK, StopOK
  <2>3. \A q \in Query : In(q, Line) => outcome[q] = Uncalled
    BY DEF In
  <2>4. outcome' = [q \in Query |-> IF In(q, Line) THEN Service!Disconnected ELSE outcome[q]]
    BY <1>3, <2>1 DEF Drain, Disconnected, Service!Disconnected
  <2>5. Service!FailAll
    BY <2>1, <2>2, <2>3, <2>4 DEF Service!FailAll
  <2> QED
    BY <2>5 DEF Service!Next
<1>4. CASE (\A t \in Threads : ~PushQuery(t)) /\ ~Callback /\ ~Drain
  <2>1. Line' = Line
    BY <1>4, LineKept
  <2>2. CASE \E t \in Threads : PushIgnored(t)
    <3>1. PICK t \in Threads : PushIgnored(t)
      BY <2>2
    <3>2. arg[t] \in Query /\ ~In(arg[t], Line) /\ outcome[arg[t]] = Uncalled /\ stop /\ stop' = stop
      BY <3>1 DEF PushIgnored
    <3>3. outcome' = [outcome EXCEPT ![arg[t]] = Service!Ignored]
      BY <3>1 DEF PushIgnored, Ignored, Service!Ignored
    <3>4. Service!Refuse(arg[t])
      BY <2>1, <3>2, <3>3 DEF Service!Refuse
    <3> QED
      BY <3>2, <3>4 DEF Service!Next
  <2>3. CASE Stop \/ SocketError
    <3>1. stop' = TRUE /\ outcome' = outcome
      BY <2>3 DEF Stop, SocketError
    <3>2. Service!Close
      BY <2>1, <3>1 DEF Service!Close
    <3> QED
      BY <3>2 DEF Service!Next
  <2>4. CASE outcome' = outcome /\ stop' = stop
    BY <2>1, <2>4
  <2>5. QED
    <3>1. ASSUME ~\E t \in Threads : PushIgnored(t), ~Stop, ~SocketError
          PROVE  outcome' = outcome /\ stop' = stop
      <4>1. CASE \E t \in Threads : PushIgnored(t)
        BY <4>1, <3>1
      <4>2. CASE \E t \in Threads : PushQuery(t)
        BY <4>2, <1>4
      <4>3. CASE SocketError
        BY <4>3, <3>1
      <4>4. CASE Drain
        BY <4>4, <1>4
      <4>5. CASE Callback
        BY <4>5, <1>4
      <4>6. CASE Stop
        BY <4>6, <3>1
      <4>7. CASE
              \/ \E t \in Clients : CallPush(t)
              \/ \E t \in Threads : PushEnters(t)
              \/ \E t \in Threads : PushWait(t)
              \/ \E t \in Threads : NothingToSend(t)
              \/ \E t \in Threads : Take(t)
              \/ \E t \in Threads : TakeNothing(t)
              \/ \E t \in Threads : Put(t)
              \/ \E t \in Threads : Notify(t)
        BY <4>7 DEF CallPush, PushEnters, PushWait, NothingToSend, Take, TakeNothing, Put, Notify,
           Notified
      <4>8. CASE
              \/ \E t \in Threads : CompareExchange(t)
              \/ \E t \in Threads : Unset(t)
              \/ \E t \in Threads : Write(t)
        BY <4>8 DEF CompareExchange, Return, Unset, Write
      <4>9. CASE
              \/ ReqSent
              \/ ReqFailed
              \/ RespRead
              \/ TimeoutHandler
        BY <4>9 DEF ReqSent, Handle, ReqFailed, RespRead, TimeoutHandler
      <4>10. CASE
              \/ ParseReply
              \/ ParseNothing
              \/ ReadAgain
              \/ WorkDone
              \/ WorkGoesOn
              \/ Release
        BY <4>10 DEF ParseReply, ParseNothing, ReadAgain, WorkDone, WorkGoesOn, Release
      <4>11. CASE
              \/ StopCheckSended
              \/ StopCheckQueued
              \/ StopWait
              \/ Destroy
        BY <4>11 DEF StopCheckSended, StopCheckQueued, StopWait, Destroy
      <4>12. CASE
              \/ WriteSome
              \/ WriteDone
              \/ WriteFails
              \/ Reply
              \/ \E n \in 0..Len(net) : ReadDone(n)
              \/ ReadFails
              \/ Break
              \/ TimerExpires
        BY <4>12 DEF WriteSome, WriteDone, WriteFails, Reply, ReadDone, ReadFails, Break,
           TimerExpires
      <4>13. CASE UNCHANGED vars
        BY <4>13
      <4> QED
        BY <4>1, <4>2, <4>3, <4>4, <4>5, <4>6, <4>7, <4>8, <4>9, <4>10, <4>11, <4>12, <4>13
           DEF Next, PushStep, LoopStep, OwnerStep, Threads
    <3> QED
      BY <2>2, <2>3, <2>4, <3>1
<1> QED
  BY <1>1, <1>2, <1>3, <1>4

(* The serial processor implements the service its callers rely on but for   *)
(* the push that tested _stop_in_progress before an error and reached the    *)
(* queue after it, for every number of threads and queries.                  *)
THEOREM Implementation == Spec => ImplementsService
<1>1. Init => Service!Init
  BY InitService
<1>2. IInv /\ [Next]_vars => [Service!Next \/ LatePush]_(Service!vars)
  BY NextService
<1> QED
  BY <1>1, <1>2, Invariance, PTL DEF Spec, ImplementsService
=============================================================================
