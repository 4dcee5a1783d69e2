------------------------------- MODULE Serial -------------------------------
(***************************************************************************)
(* The serial request processor: procs::serial and the part of             *)
(* procs::proc_abstract it runs on.  It sends the queued queries in        *)
(* batches, and sends a batch only when every reply to the one before has  *)
(* been handled.                                                           *)
(*                                                                         *)
(* The threads are those of Pipeline: Clients push, Loop runs every        *)
(* completion handler, and the destructor runs in a thread of its own.     *)
(* _req_proc_running stays set from the exchange that starts a batch to    *)
(* its last reply, and after an error, so that a write and a read are never *)
(* outstanding together and no batch is built while an error is handled.   *)
(***************************************************************************)
EXTENDS Integers, Sequences

CONSTANTS
  Clients,       (* application threads                                     *)
  Loop,          (* the thread that runs the io_service                     *)
  NoThread,      (* nobody: the mutex is free                               *)
  Query,         (* the queries, each pushed at most once                   *)
  NoQuery,       (* absence of a query                                      *)
  FromCallback,  (* the queries pushed from inside a callback, by Loop      *)
  MaxQueue,      (* max_buff_size                                           *)
  MaxBatch,      (* max_query_in_multibuff                                  *)
  CanBreak       (* the connection may break                                *)

ASSUME SerialThreadAssumption ==
  /\ Loop \notin Clients
  /\ NoThread \notin Clients \cup {Loop}
ASSUME SerialQueryAssumption ==
  /\ NoQuery \notin Query
  /\ FromCallback \subseteq Query
ASSUME SerialLimitAssumption == MaxQueue \in Nat /\ MaxBatch \in Nat
ASSUME SerialBreakAssumption == CanBreak \in BOOLEAN

Threads == Clients \cup {Loop}

VARIABLES
  pc,            (* where each thread is                                    *)
  arg,           (* the query each thread is pushing                        *)
  mux,           (* _buff_mux: its holder                                   *)
  query_queue,   (* _query_queue                                            *)
  q_tmp,         (* popped from query_queue and not in sended_queries yet   *)
  sended_queries,(* _sended_queries                                         *)
  multibuf,      (* queries of the batch the kernel has not taken           *)
  outcome,       (* what the callback of each query was called with         *)
  cur,           (* the callback taken from sended_queries, and _respond    *)
  running,       (* _req_proc_running                                       *)
  stop,          (* _stop_in_progress                                       *)
  error,         (* _error_status                                           *)
  promise,       (* _work_done_waiter has its value                         *)
  timer_started, (* _timer_is_started                                       *)
  timer,         (* _timeout_clock is waiting                               *)
  conn,          (* the connection: "up", "broken", or "closed" by us       *)
  reading,       (* an async_read_some is outstanding                       *)
  writing,       (* an async_write is outstanding                           *)
  wire,          (* queries on their way to the server                      *)
  net,           (* replies on their way to the client                      *)
  input,         (* replies in _reading_buff                                *)
  ioq,           (* completion handlers ready to run, in posting order      *)
  owner,         (* where the destructor is                                 *)
  status         (* "running", or how the processor ended                   *)

threadVars == <<pc, arg, mux>>
queueVars  == <<query_queue, q_tmp, sended_queries, multibuf>>
cbVars     == <<outcome, cur>>
stopVars   == <<stop, error, promise, owner, status>>
clockVars  == <<timer_started, timer>>
linkVars   == <<conn, reading, writing, wire, net, input, ioq>>
vars == <<threadVars, queueVars, cbVars, running, stopVars, clockVars, linkVars>>

InHand(q) == IF q = NoQuery THEN <<>> ELSE <<q>>

Line == InHand(cur.cb) \o (sended_queries \o (InHand(q_tmp) \o query_queue))

Service == INSTANCE CallbackService WITH line <- Line, open <- ~stop

Uncalled     == [code |-> -1, reply |-> NoQuery]
Answered(r)  == [code |-> 0, reply |-> r]
Ignored      == [code |-> 100, reply |-> NoQuery]
Disconnected == [code |-> 110, reply |-> NoQuery]

NoCallback == [cb |-> NoQuery, reply |-> NoQuery]

PushLabels == {"enter", "lock", "wait", "cas", "check", "unset", "take", "put",
               "notify", "write"}
LoopLabels == {"error", "drain", "parse", "callback", "tail", "release"}
Events     == {"read_ok", "read_err", "write_ok", "write_err", "timer"}

In(q, s) == \E i \in DOMAIN s : s[i] = q

(* A query no thread has pushed yet. *)
Fresh(q) ==
  /\ outcome[q] = Uncalled
  /\ ~In(q, query_queue) /\ ~In(q, sended_queries)
  /\ q_tmp # q /\ cur.cb # q
  /\ \A t \in Threads : arg[t] # q

(* Application threads push nothing but fresh queries, in one fixed order:   *)
(* the names of the queries do not matter.                                 *)
FreshQueries == {q \in Query \ FromCallback : Fresh(q)}

IsRunning == status = "running"

At(t, label) == IsRunning /\ pc[t] = label

Goto(t, label) == pc' = [pc EXCEPT ![t] = label]

(* push() is over: an application thread is idle again, and the Loop goes  *)
(* back to the callback it called push() from, or to its event loop.       *)
Return(t) ==
  /\ Goto(t, IF t = Loop /\ arg[t] # NoQuery THEN "parse" ELSE "idle")
  /\ arg' = [arg EXCEPT ![t] = NoQuery]

-----------------------------------------------------------------------------
Init ==
  /\ pc = [t \in Threads |-> "idle"]
  /\ arg = [t \in Threads |-> NoQuery]
  /\ mux = NoThread
  /\ query_queue = <<>> /\ q_tmp = NoQuery /\ sended_queries = <<>> /\ multibuf = <<>>
  /\ outcome = [q \in Query |-> Uncalled]
  /\ cur = NoCallback
  /\ running = FALSE
  /\ stop = FALSE /\ error = FALSE /\ promise = FALSE
  /\ owner = "alive" /\ status = "running"
  /\ timer_started = FALSE /\ timer = FALSE
  /\ conn = "up"
  /\ reading = FALSE /\ writing = FALSE
  /\ wire = <<>> /\ net = <<>> /\ input = <<>> /\ ioq = <<>>

-----------------------------------------------------------------------------
(* push() *)

CallPush(t) ==
  /\ At(t, "idle")
  /\ FreshQueries # {}
  /\ arg' = [arg EXCEPT ![t] = CHOOSE q \in FreshQueries : TRUE]
  /\ Goto(t, "enter")
  /\ UNCHANGED <<mux, queueVars, cbVars, running, stopVars, clockVars, linkVars>>

(* _stop_in_progress is tested before the mutex is taken. *)
PushIgnored_NoReturn(t) ==
  /\ At(t, "enter")
  /\ stop
  /\ outcome' = [outcome EXCEPT ![arg[t]] = Ignored]
  /\ Goto(t, "lock")
  /\ UNCHANGED <<arg, mux, queueVars, cur, running, stopVars, clockVars, linkVars>>
PushIgnored(t) ==
  /\ At(t, "enter")
  /\ stop
  /\ outcome' = [outcome EXCEPT ![arg[t]] = Ignored]
  /\ Return(t)
  /\ UNCHANGED <<mux, queueVars, cur, running, stopVars, clockVars, linkVars>>

PushEnters(t) ==
  /\ At(t, "enter")
  /\ ~stop
  /\ Goto(t, "lock")
  /\ UNCHANGED <<arg, mux, queueVars, cbVars, running, stopVars, clockVars, linkVars>>

HasRoom_Always == TRUE
HasRoom == Len(query_queue) <= MaxQueue

PushWait(t) ==
  /\ At(t, "lock") /\ mux = NoThread
  /\ ~HasRoom
  /\ Goto(t, "wait")
  /\ UNCHANGED <<arg, mux, queueVars, cbVars, running, stopVars, clockVars, linkVars>>

PushQuery(t) ==
  /\ At(t, "lock") /\ mux = NoThread
  /\ HasRoom
  /\ query_queue' = Append(query_queue, arg[t])
  /\ Goto(t, "cas")
  /\ UNCHANGED <<arg, mux, q_tmp, sended_queries, multibuf, cbVars, running, stopVars,
                 clockVars, linkVars>>

-----------------------------------------------------------------------------
(* __req_proc_manager() and __req_poc() *)

CompareExchange_Blind(t) ==
  /\ At(t, "cas")
  /\ running' = TRUE
  /\ Goto(t, "check")
  /\ UNCHANGED <<arg, mux, queueVars, cbVars, stopVars, clockVars, linkVars>>
CompareExchange(t) ==
  /\ At(t, "cas")
  /\ running' = TRUE
  /\ IF running THEN Return(t) ELSE Goto(t, "check") /\ UNCHANGED arg
  /\ UNCHANGED <<mux, queueVars, cbVars, stopVars, clockVars, linkVars>>

NothingToSend(t) ==
  /\ At(t, "check")
  /\ Goto(t, IF query_queue = <<>> THEN "unset" ELSE "take")
  /\ UNCHANGED <<arg, mux, queueVars, cbVars, running, stopVars, clockVars, linkVars>>

Unset(t) ==
  /\ At(t, "unset")
  /\ running' = FALSE
  /\ Return(t)
  /\ UNCHANGED <<mux, queueVars, cbVars, stopVars, clockVars, linkVars>>

Take(t) ==
  /\ At(t, "take")
  /\ query_queue # <<>>
  /\ q_tmp' = Head(query_queue)
  /\ query_queue' = Tail(query_queue)
  /\ Goto(t, "put")
  /\ UNCHANGED <<arg, mux, sended_queries, multibuf, cbVars, running, stopVars,
                 clockVars, linkVars>>

TakeNothing(t) ==
  /\ At(t, "take")
  /\ query_queue = <<>>
  /\ Goto(t, "notify")
  /\ UNCHANGED <<arg, mux, queueVars, cbVars, running, stopVars, clockVars, linkVars>>

(* mq_counter is the number of queries put before this one. *)
Put_Front(t) ==
  /\ At(t, "put")
  /\ sended_queries' = <<q_tmp>> \o sended_queries
  /\ multibuf' = Append(multibuf, q_tmp)
  /\ q_tmp' = NoQuery
  /\ Goto(t, IF Len(multibuf) >= MaxBatch THEN "notify" ELSE "take")
  /\ UNCHANGED <<arg, mux, query_queue, cbVars, running, stopVars, clockVars, linkVars>>
Put(t) ==
  /\ At(t, "put")
  /\ sended_queries' = Append(sended_queries, q_tmp)
  /\ multibuf' = Append(multibuf, q_tmp)
  /\ q_tmp' = NoQuery
  /\ Goto(t, IF Len(multibuf) >= MaxBatch THEN "notify" ELSE "take")
  /\ UNCHANGED <<arg, mux, query_queue, cbVars, running, stopVars, clockVars, linkVars>>

(* notify_all(), under the mutex *)
Notified_Nobody(p) == p
Notified(p) == [t \in Threads |-> IF p[t] = "wait" THEN "lock" ELSE p[t]]
Notify(t) ==
  /\ At(t, "notify") /\ mux = NoThread
  /\ pc' = [Notified(pc) EXCEPT ![t] = "write"]
  /\ UNCHANGED <<arg, mux, queueVars, cbVars, running, stopVars, clockVars, linkVars>>

(* The first batch starts the timer. *)
Write(t) ==
  /\ At(t, "write")
  /\ timer_started' = TRUE
  /\ timer' = (timer \/ ~timer_started)
  /\ writing' = TRUE
  /\ Return(t)
  /\ UNCHANGED <<mux, queueVars, cbVars, running, stopVars,
                 conn, reading, wire, net, input, ioq>>

PushStep(t) ==
  \/ PushIgnored(t)
  \/ PushEnters(t)
  \/ PushWait(t)
  \/ PushQuery(t)
  \/ CompareExchange(t)
  \/ NothingToSend(t)
  \/ Unset(t)
  \/ Take(t)
  \/ TakeNothing(t)
  \/ Put(t)
  \/ Notify(t)
  \/ Write(t)

-----------------------------------------------------------------------------
(* The completion handlers, which the event loop takes in posting order. *)

Handle(e, label) ==
  /\ At(Loop, "idle")
  /\ ioq # <<>> /\ Head(ioq) = e
  /\ ioq' = Tail(ioq)
  /\ Goto(Loop, label)
  /\ UNCHANGED <<arg, mux, queueVars, cbVars, running, stop, error, promise, owner,
                 timer_started, conn, writing, wire, net, input>>

(* req_handler: __reset_timeout and __resp_proc *)
ReqSent_ReadsNothing ==
  /\ Handle("write_ok", "idle")
  /\ timer' = TRUE
  /\ UNCHANGED <<reading, status>>
ReqSent ==
  /\ Handle("write_ok", "idle")
  /\ timer' = TRUE /\ reading' = TRUE
  /\ UNCHANGED status

ReqFailed == Handle("write_err", "error") /\ UNCHANGED <<timer, reading, status>>

(* resp_handler resets the timer before it looks at the error. *)
RespRead ==
  /\ Handle("read_ok", "parse") \/ Handle("read_err", "error")
  /\ timer' = TRUE
  /\ UNCHANGED <<reading, status>>

TimeoutHandler ==
  /\ Handle("timer", "idle")
  /\ status' = "timeout"
  /\ UNCHANGED <<timer, reading>>

(* __socket_error_hendler, under the mutex: the operation that failed was   *)
(* the only one, so that this runs once and closing the socket aborts no   *)
(* other.                                                                  *)
SocketError ==
  /\ At(Loop, "error") /\ mux = NoThread
  /\ ~error
  /\ error' = TRUE /\ stop' = TRUE
  /\ timer' = FALSE
  /\ conn' = "closed"
  /\ promise' = TRUE
  /\ status' = IF promise THEN "promise_error" ELSE status
  /\ pc' = [Notified(pc) EXCEPT ![Loop] = "drain"]
  /\ mux' = Loop
  /\ UNCHANGED <<arg, queueVars, cbVars, running, owner, timer_started,
                 reading, writing, wire, net, input, ioq>>

(* soc_error_callbacks *)
Drain_Queue ==
  /\ At(Loop, "drain")
  /\ outcome' = [q \in Query |-> IF In(q, query_queue) THEN Disconnected ELSE outcome[q]]
  /\ query_queue' = <<>>
  /\ mux' = NoThread
  /\ Goto(Loop, "idle")
  /\ UNCHANGED <<arg, q_tmp, sended_queries, multibuf, cur, running, stopVars, clockVars, linkVars>>
Drain ==
  /\ At(Loop, "drain")
  /\ outcome' = [q \in Query |->
       IF In(q, sended_queries) \/ In(q, query_queue) THEN Disconnected ELSE outcome[q]]
  /\ sended_queries' = <<>> /\ query_queue' = <<>>
  /\ mux' = NoThread
  /\ Goto(Loop, "idle")
  /\ UNCHANGED <<arg, q_tmp, multibuf, cur, running, stopVars, clockVars, linkVars>>

-----------------------------------------------------------------------------
(* resp_handler *)

(* parse_one finds a reply and try_pop a callback; without a callback the   *)
(* handler throws.                                                         *)
ParseReply ==
  /\ At(Loop, "parse")
  /\ input # <<>>
  /\ input' = Tail(input)
  /\ IF sended_queries # <<>>
     THEN /\ cur' = [cb |-> Head(sended_queries), reply |-> Head(input)]
          /\ sended_queries' = Tail(sended_queries)
          /\ Goto(Loop, "callback")
          /\ UNCHANGED status
     ELSE /\ status' = "sync_error"
          /\ UNCHANGED <<pc, cur, sended_queries>>
  /\ UNCHANGED <<arg, mux, query_queue, q_tmp, multibuf, outcome, running, stop, error, promise,
                 owner, clockVars, conn, reading, writing, wire, net, ioq>>

ParseNothing ==
  /\ At(Loop, "parse")
  /\ input = <<>>
  /\ Goto(Loop, "tail")
  /\ UNCHANGED <<arg, mux, queueVars, cbVars, running, stopVars, clockVars, linkVars>>

(* The callback, which may push a query of its own. *)
Callback ==
  /\ At(Loop, "callback")
  /\ outcome' = [outcome EXCEPT ![cur.cb] = Answered(cur.reply)]
  /\ cur' = NoCallback
  /\ \/ Goto(Loop, "parse") /\ UNCHANGED arg
     \/ \E q \in FromCallback :
          /\ Fresh(q)
          /\ arg' = [arg EXCEPT ![Loop] = q]
          /\ Goto(Loop, "enter")
  /\ UNCHANGED <<mux, queueVars, running, stopVars, clockVars, linkVars>>

(* Replies are missing: read on. *)
ReadAgain ==
  /\ At(Loop, "tail")
  /\ sended_queries # <<>>
  /\ reading' = TRUE
  /\ Goto(Loop, "idle")
  /\ UNCHANGED <<arg, mux, queueVars, cbVars, running, stopVars, clockVars,
                 conn, writing, wire, net, input, ioq>>

WorkIsDone == stop /\ query_queue = <<>>

WorkDone ==
  /\ At(Loop, "tail")
  /\ sended_queries = <<>> /\ WorkIsDone
  /\ promise' = TRUE
  /\ status' = IF promise THEN "promise_error" ELSE status
  /\ Goto(Loop, "idle")
  /\ UNCHANGED <<arg, mux, queueVars, cbVars, running, stop, error, owner, clockVars, linkVars>>

WorkGoesOn ==
  /\ At(Loop, "tail")
  /\ sended_queries = <<>> /\ ~WorkIsDone
  /\ Goto(Loop, "release")
  /\ UNCHANGED <<arg, mux, queueVars, cbVars, running, stopVars, clockVars, linkVars>>

Release ==
  /\ At(Loop, "release")
  /\ running' = FALSE
  /\ Goto(Loop, "cas")
  /\ UNCHANGED <<arg, mux, queueVars, cbVars, stopVars, clockVars, linkVars>>

LoopStep ==
  \/ PushStep(Loop)
  \/ ReqSent
  \/ ReqFailed
  \/ RespRead
  \/ TimeoutHandler
  \/ SocketError
  \/ Drain
  \/ ParseReply
  \/ ParseNothing
  \/ Callback
  \/ ReadAgain
  \/ WorkDone
  \/ WorkGoesOn
  \/ Release

-----------------------------------------------------------------------------
(* ~serial: stop(), with the queues tested one after the other, then the   *)
(* timer and the socket.  No push() of another thread may be in progress.  *)

OwnerAt(label) == IsRunning /\ owner = label

OwnerVars == <<threadVars, queueVars, cbVars, running, error, promise, clockVars, linkVars>>

Stop ==
  /\ OwnerAt("alive")
  /\ \A t \in Threads : arg[t] = NoQuery
  /\ stop' = TRUE
  /\ owner' = "sended"
  /\ UNCHANGED <<OwnerVars, status>>

StopCheckSended ==
  /\ OwnerAt("sended")
  /\ owner' = IF sended_queries = <<>> THEN "queued" ELSE "wait"
  /\ UNCHANGED <<OwnerVars, stop, status>>

StopCheckQueued ==
  /\ OwnerAt("queued")
  /\ owner' = IF query_queue = <<>> THEN "close" ELSE "wait"
  /\ UNCHANGED <<OwnerVars, stop, status>>

StopWait ==
  /\ OwnerAt("wait")
  /\ promise
  /\ owner' = "close"
  /\ UNCHANGED <<OwnerVars, stop, status>>

Destroy ==
  /\ OwnerAt("close")
  /\ status' = "destroyed"
  /\ UNCHANGED <<OwnerVars, stop, owner>>

OwnerStep == Stop \/ StopCheckSended \/ StopCheckQueued \/ StopWait \/ Destroy

-----------------------------------------------------------------------------
(* The socket, the server and the clock *)

EnvUnchanged == UNCHANGED <<threadVars, query_queue, q_tmp, sended_queries, cbVars, running, stopVars>>

(* async_write goes on until the kernel has the whole batch. *)
WriteSome ==
  /\ IsRunning
  /\ writing
  /\ multibuf # <<>>
  /\ wire' = Append(wire, Head(multibuf))
  /\ multibuf' = Tail(multibuf)
  /\ EnvUnchanged
  /\ UNCHANGED <<clockVars, conn, reading, writing, net, input, ioq>>

WriteDone ==
  /\ IsRunning
  /\ writing
  /\ multibuf = <<>>
  /\ writing' = FALSE
  /\ ioq' = Append(ioq, "write_ok")
  /\ EnvUnchanged
  /\ UNCHANGED <<multibuf, clockVars, conn, reading, wire, net, input>>

WriteFails ==
  /\ IsRunning
  /\ writing
  /\ conn = "broken"
  /\ writing' = FALSE
  /\ ioq' = Append(ioq, "write_err")
  /\ EnvUnchanged
  /\ UNCHANGED <<multibuf, clockVars, conn, reading, wire, net, input>>

(* The server answers in the order of the queries. *)
Reply ==
  /\ IsRunning
  /\ conn = "up"
  /\ wire # <<>>
  /\ net' = Append(net, Head(wire))
  /\ wire' = Tail(wire)
  /\ EnvUnchanged
  /\ UNCHANGED <<multibuf, clockVars, conn, reading, writing, input, ioq>>

(* A read returns n whole replies, or with n = 0 a part of one. *)
ReadDone(n) ==
  /\ IsRunning
  /\ reading
  /\ net # <<>>
  /\ n \in 0..Len(net)
  /\ reading' = FALSE
  /\ input' = input \o SubSeq(net, 1, n)
  /\ net' = SubSeq(net, n + 1, Len(net))
  /\ ioq' = Append(ioq, "read_ok")
  /\ EnvUnchanged
  /\ UNCHANGED <<multibuf, clockVars, conn, writing, wire>>

ReadFails ==
  /\ IsRunning
  /\ reading
  /\ conn = "broken"
  /\ reading' = FALSE
  /\ ioq' = Append(ioq, "read_err")
  /\ EnvUnchanged
  /\ UNCHANGED <<multibuf, clockVars, conn, writing, wire, net, input>>

Break ==
  /\ IsRunning
  /\ CanBreak
  /\ conn = "up"
  /\ conn' = "broken"
  /\ EnvUnchanged
  /\ UNCHANGED <<multibuf, clockVars, reading, writing, wire, net, input, ioq>>

TimerExpires ==
  /\ IsRunning
  /\ timer
  /\ timer' = FALSE
  /\ ioq' = Append(ioq, "timer")
  /\ EnvUnchanged
  /\ UNCHANGED <<multibuf, timer_started, conn, reading, writing, wire, net, input>>

-----------------------------------------------------------------------------
Next ==
  \/ \E t \in Clients : CallPush(t) \/ PushStep(t)
  \/ LoopStep
  \/ OwnerStep
  \/ WriteSome
  \/ WriteDone
  \/ WriteFails
  \/ Reply
  \/ \E n \in 0..Len(net) : ReadDone(n)
  \/ ReadFails
  \/ Break
  \/ TimerExpires

Spec == Init /\ [][Next]_vars

(* The fairness of Pipeline: threads that can run do, the kernel moves      *)
(* bytes, the server answers.                                              *)
Fairness ==
  /\ \A t \in Clients : WF_vars(PushStep(t))
  /\ WF_vars(LoopStep)
  /\ WF_vars(StopCheckSended \/ StopCheckQueued \/ StopWait \/ Destroy)
  /\ WF_vars(WriteSome)
  /\ WF_vars(WriteDone)
  /\ WF_vars(Reply)
  /\ SF_vars(\E n \in 1..Len(net) : ReadDone(n))
  /\ WF_vars(ReadFails)

FairSpec == Spec /\ Fairness

-----------------------------------------------------------------------------
(* Types and limits.  However many threads wait for room, the queue exceeds  *)
(* its limit by one at most (serial.hpp:34: the test admits a query to a    *)
(* queue that is full), and a batch takes the query at which mq_counter     *)
(* reaches max_query_in_multibuff, one more than the name says, and no      *)
(* other (serial.cpp:47).                                                   *)
ThreadsTypeOK ==
  /\ pc \in [Threads -> {"idle"} \cup PushLabels \cup LoopLabels]
  /\ \A t \in Clients : pc[t] \notin LoopLabels
  /\ arg \in [Threads -> Query \cup {NoQuery}]
  /\ mux \in {Loop, NoThread}
QueuesTypeOK ==
  /\ query_queue \in Seq(Query) /\ sended_queries \in Seq(Query) /\ multibuf \in Seq(Query)
  /\ Len(query_queue) <= MaxQueue + 1 /\ Len(multibuf) <= MaxBatch + 1
  /\ q_tmp \in Query \cup {NoQuery}
CallbacksTypeOK ==
  /\ outcome \in [Query -> Service!Outcome]
  /\ cur \in [cb : Query \cup {NoQuery}, reply : Query \cup {NoQuery}]
FlagsTypeOK ==
  /\ {running, stop, error, promise, timer_started, timer, reading, writing} \subseteq BOOLEAN
  /\ conn \in {"up", "broken", "closed"}
  /\ owner \in {"alive", "sended", "queued", "wait", "close"}
  /\ status \in {"running", "timeout", "sync_error", "promise_error", "destroyed"}
LinkTypeOK ==
  /\ wire \in Seq(Query) /\ net \in Seq(Query) /\ input \in Seq(Query)
  /\ ioq \in Seq(Events)
TypeOK == ThreadsTypeOK /\ QueuesTypeOK /\ CallbacksTypeOK /\ FlagsTypeOK /\ LinkTypeOK

(* A query whose push() tested _stop_in_progress before the connection was   *)
(* lost, and took the mutex after it, is put in a queue nobody sends from   *)
(* any more (serial.hpp:20-36).                                            *)
LatePush == error /\ \E t \in Threads : PushQuery(t)

(* The serial processor implements the service its callers rely on, as the  *)
(* pipeline does (push, __req_poc, resp_handler, soc_error_callbacks,       *)
(* stop): the late push is the one step that breaks the promise.            *)
ImplementsService == Service!Init /\ [][Service!Next \/ LatePush]_(Service!vars)

(* Until the first error the queries sent and not answered are those of the *)
(* batch, on the wire and in the input buffer, in their order, so that      *)
(* "Query/resp processors sync error." (serial.cpp:82) is not thrown.       *)
SendedMatchesWire == ~error => sended_queries = input \o net \o wire \o multibuf

(* A callback that gets a reply gets the reply of its own query, broken     *)
(* connection or not.                                                       *)
OwnAnswer == \A q \in Query : outcome[q].code = 0 => outcome[q].reply = q

(* The steps of a batch, from the exchange to the store that ends it. *)
BatchLabels == {"check", "unset", "take", "put", "notify", "write",
                "error", "parse", "callback", "tail", "release"}
IsIO(e) == e # "timer"
HandlersQuiet == \A i \in DOMAIN ioq : ~IsIO(ioq[i])
Quiet == ~reading /\ ~writing /\ HandlersQuiet

(* A batch is built, written, or read for, and never two of these at once:   *)
(* no thread starts one while another is unanswered, and _buff_mux is not   *)
(* needed to keep an error away from __req_poc; the first error is the     *)
(* last, so that the test of _error_status never finds it set.             *)
OneBatch ==
  /\ \A t, u \in Threads : pc[t] \in BatchLabels /\ pc[u] \in BatchLabels => t = u
  /\ (\E t \in Threads : pc[t] \in BatchLabels) => Quiet /\ running
  /\ ~(reading /\ writing) /\ (reading \/ writing => HandlersQuiet)
  /\ \A i, j \in DOMAIN ioq : IsIO(ioq[i]) /\ IsIO(ioq[j]) => i = j
  /\ ~Quiet => running
  /\ pc[Loop] = "error" => ~error

(* A thread waits for room only while there is none, or while a batch is     *)
(* being taken from the queue, whose thread will notify.                    *)
WaiterHasCause ==
  \A t \in Threads :
    pc[t] = "wait" => ~HasRoom \/ \E u \in Threads : pc[u] \in {"take", "put", "notify"}

(* After a lost connection no query that was sent is left without an answer. *)
SendedDrains == error /\ pc[Loop] # "drain" => sended_queries = <<>> /\ q_tmp = NoQuery

-----------------------------------------------------------------------------
(* A query that is sent is answered, or the processor ends, or a callback   *)
(* that pushes waits for room and stops the loop, the thread that would     *)
(* make it (serial.hpp:33).                                                *)
SendedIsAnswered ==
  \A q \in Query :
    In(q, sended_queries) ~> outcome[q] # Uncalled \/ ~IsRunning \/ pc[Loop] = "wait"
=============================================================================
