------------------------------ MODULE Pipeline ------------------------------
(***************************************************************************)
(* The pipelining request processor: procs::pipeline and the part of       *)
(* procs::proc_abstract it runs on.                                        *)
(*                                                                         *)
(* Threads of the application (Clients) call push(); one thread (Loop)     *)
(* runs the io_service and with it every completion handler, one at a      *)
(* time; the destructor runs in a thread of its own (owner).  The socket,  *)
(* the timer and the server are the environment.                           *)
(*                                                                         *)
(* A query is one unit of buffer space and its reply is the query itself:  *)
(* "the right reply" is all the properties need to tell apart.             *)
(***************************************************************************)
EXTENDS Integers, Sequences

CONSTANTS
  Clients,       (* application threads                                     *)
  Loop,          (* the thread that runs the io_service                     *)
  NoThread,      (* nobody: the mutex is free                               *)
  Query,         (* the queries, each pushed at most once                   *)
  NoQuery,       (* absence of a query                                      *)
  FromCallback,  (* the queries pushed from inside a callback, by Loop      *)
  MaxBuff,       (* output_buff::max_buff_size, in queries                  *)
  CanBreak       (* the connection may break                                *)

ASSUME ThreadAssumption ==
  /\ Loop \notin Clients
  /\ NoThread \notin Clients \cup {Loop}
ASSUME QueryAssumption ==
  /\ NoQuery \notin Query
  /\ FromCallback \subseteq Query
ASSUME BuffAssumption == MaxBuff \in Nat \ {0}
ASSUME BreakAssumption == CanBreak \in BOOLEAN

Threads == Clients \cup {Loop}

VARIABLES
  pc,            (* where each thread is                                    *)
  arg,           (* the query each thread is pushing                        *)
  mux,           (* _buff_mux: its holder                                   *)
  cb_queue,      (* _cb_queue: the query each waiting callback belongs to   *)
  outcome,       (* what the callback of each query was called with         *)
  cur,           (* the callback taken from cb_queue, and _respond          *)
  buff,          (* _sending_buff: queries added and not frozen             *)
  frozen,        (* _frozen_data                                            *)
  sended,        (* _frozen_sended_offset                                   *)
  have_frozen,   (* _have_frozen_buffer                                     *)
  running,       (* _req_proc_running                                       *)
  stop,          (* _stop_in_progress                                       *)
  error,         (* _error_status                                           *)
  promise,       (* _work_done_waiter has its value                         *)
  timer_started, (* _timer_is_started                                       *)
  timer,         (* _timeout_clock is waiting                               *)
  conn,          (* the connection: "up", "broken", or "closed" by us       *)
  reading,       (* an async_read_some is outstanding                       *)
  writing,       (* the async_write_some: "no", "pending", or "done"        *)
  bytes_sent,    (* what a write that is "done" has to report               *)
  wire,          (* queries on their way to the server                      *)
  net,           (* replies on their way to the client                      *)
  input,         (* replies in _reading_buff                                *)
  ioq,           (* completion handlers ready to run, in posting order      *)
  owner,         (* where the destructor is                                 *)
  status         (* "running", or how the processor ended                   *)

threadVars == <<pc, arg, mux>>
cbVars     == <<cb_queue, outcome, cur>>
buffVars   == <<buff, frozen, sended, have_frozen>>
stopVars   == <<stop, error, promise, owner, status>>
clockVars  == <<timer_started, timer>>
linkVars   == <<conn, reading, writing, bytes_sent, wire, net, input, ioq>>
vars == <<threadVars, cbVars, buffVars, running, stopVars, clockVars, linkVars>>

Service == INSTANCE CallbackService WITH
  line <- (IF cur.cb = NoQuery THEN <<>> ELSE <<cur.cb>>) \o cb_queue,
  open <- ~stop

Uncalled     == [code |-> -1, reply |-> NoQuery]
Answered(r)  == [code |-> 0, reply |-> r]
Ignored      == [code |-> 100, reply |-> NoQuery]
Disconnected == [code |-> 110, reply |-> NoQuery]

NoCallback == [cb |-> NoQuery, reply |-> NoQuery]

PushLabels == {"lock", "wait", "relock", "push_cb", "add_query", "cas", "check",
               "unset", "timer_check", "timer_start", "get_buffer", "write"}
LoopLabels == {"sent", "req_done", "error", "drain", "parse", "callback",
               "cb_done", "tail", "disarm", "cancel"}
Events     == {"read_ok", "read_err", "write_ok", "write_err", "timer"}

Queued(q) == \E i \in DOMAIN cb_queue : cb_queue[i] = q

(* A query no thread has pushed yet. *)
Fresh(q) ==
  /\ outcome[q] = Uncalled
  /\ ~Queued(q)
  /\ cur.cb # q
  /\ \A t \in Threads : arg[t] # q

(* check_overflow(query_.size()) *)
Overflow_Inclusive == Len(buff) + 1 > MaxBuff
Overflow == Len(buff) + 1 >= MaxBuff

nothing_to_send == buff = <<>> /\ ~have_frozen

IsRunning == status = "running"

At(t, label) == IsRunning /\ pc[t] = label

Goto(t, label) == pc' = [pc EXCEPT ![t] = label]

(* push() is over: an application thread is idle again, and the Loop goes  *)
(* back to the callback it called push() from, or, when it came from a     *)
(* write handler, to its event loop.                                       *)
Return(t) ==
  /\ pc' = [pc EXCEPT ![t] = IF arg[t] # NoQuery /\ t = Loop THEN "cb_done" ELSE "idle"]
  /\ arg' = [arg EXCEPT ![t] = NoQuery]

(* notify_all() *)
Notified_Nobody(p) == p
Notified(p) == [t \in Threads |-> IF p[t] = "wait" THEN "relock" ELSE p[t]]

-----------------------------------------------------------------------------
Init ==
  /\ pc = [t \in Threads |-> "idle"]
  /\ arg = [t \in Threads |-> NoQuery]
  /\ mux = NoThread
  /\ cb_queue = <<>>
  /\ outcome = [q \in Query |-> Uncalled]
  /\ cur = NoCallback
  /\ buff = <<>>
  /\ frozen = <<>>
  /\ sended = 0
  /\ have_frozen = FALSE
  /\ running = FALSE
  /\ stop = FALSE
  /\ error = FALSE
  /\ promise = FALSE
  /\ timer_started = FALSE
  /\ timer = FALSE
  /\ conn = "up"
  /\ reading = TRUE
  /\ writing = "no"
  /\ bytes_sent = 0
  /\ wire = <<>>
  /\ net = <<>>
  /\ input = <<>>
  /\ ioq = <<>>
  /\ owner = "alive"
  /\ status = "running"

-----------------------------------------------------------------------------
(* push() *)

CallPush(t, q) ==
  /\ t \in Clients
  /\ At(t, "idle")
  /\ q \notin FromCallback
  /\ Fresh(q)
  /\ Goto(t, "lock")
  /\ arg' = [arg EXCEPT ![t] = q]
  /\ UNCHANGED <<mux, cbVars, buffVars, running, stopVars, clockVars, linkVars>>

(* The mutex is taken and a stop is in progress: the callback is called     *)
(* with 100 and the mutex released.                                        *)
PushIgnored_NoReturn(t) ==
  /\ At(t, "lock")
  /\ mux = NoThread
  /\ stop
  /\ outcome' = [outcome EXCEPT ![arg[t]] = Ignored]
  /\ mux' = t
  /\ Goto(t, "push_cb")
  /\ UNCHANGED <<arg, cb_queue, cur, buffVars, running, stopVars, clockVars, linkVars>>
PushIgnored(t) ==
  /\ At(t, "lock")
  /\ mux = NoThread
  /\ stop
  /\ outcome' = [outcome EXCEPT ![arg[t]] = Ignored]
  /\ Return(t)
  /\ UNCHANGED <<mux, cb_queue, cur, buffVars, running, stopVars, clockVars, linkVars>>

(* The mutex is taken, at first or after a notification: the wait() tests  *)
(* its predicate, and nothing but its predicate.                           *)
PushWait(t) ==
  /\ At(t, "relock") \/ (At(t, "lock") /\ ~stop)
  /\ mux = NoThread
  /\ \/ /\ Overflow
        /\ Goto(t, "wait")
        /\ UNCHANGED mux
     \/ /\ ~Overflow
        /\ Goto(t, "push_cb")
        /\ mux' = t
  /\ UNCHANGED <<arg, cbVars, buffVars, running, stopVars, clockVars, linkVars>>

PushCallback_Unlocks(t) ==
  /\ At(t, "push_cb")
  /\ cb_queue' = Append(cb_queue, arg[t])
  /\ mux' = NoThread
  /\ Goto(t, "add_query")
  /\ UNCHANGED <<arg, outcome, cur, buffVars, running, stopVars, clockVars, linkVars>>
PushCallback(t) ==
  /\ At(t, "push_cb")
  /\ cb_queue' = Append(cb_queue, arg[t])
  /\ Goto(t, "add_query")
  /\ UNCHANGED <<arg, mux, outcome, cur, buffVars, running, stopVars, clockVars, linkVars>>

AddQuery(t) ==
  /\ At(t, "add_query")
  /\ buff' = Append(buff, arg[t])
  /\ mux' = NoThread
  /\ Goto(t, "cas")
  /\ UNCHANGED <<arg, cbVars, frozen, sended, have_frozen, running, stopVars,
                 clockVars, linkVars>>

-----------------------------------------------------------------------------
(* __req_proc_manager() and __req_poc() *)

CompareExchange_Blind(t) ==
  /\ At(t, "cas")
  /\ running' = TRUE
  /\ Goto(t, "check")
  /\ UNCHANGED <<arg, mux, cbVars, buffVars, stopVars, clockVars, linkVars>>
CompareExchange(t) ==
  /\ At(t, "cas")
  /\ \/ /\ running
        /\ Return(t)
        /\ UNCHANGED running
     \/ /\ ~running
        /\ running' = TRUE
        /\ Goto(t, "check")
        /\ UNCHANGED arg
  /\ UNCHANGED <<mux, cbVars, buffVars, stopVars, clockVars, linkVars>>

NothingToSend(t) ==
  /\ At(t, "check")
  /\ Goto(t, IF nothing_to_send THEN "unset" ELSE "timer_check")
  /\ UNCHANGED <<arg, mux, cbVars, buffVars, running, stopVars, clockVars, linkVars>>

Unset(t) ==
  /\ At(t, "unset")
  /\ running' = FALSE
  /\ Return(t)
  /\ UNCHANGED <<mux, cbVars, buffVars, stopVars, clockVars, linkVars>>

TimerCheck(t) ==
  /\ At(t, "timer_check")
  /\ Goto(t, IF timer_started THEN "get_buffer" ELSE "timer_start")
  /\ UNCHANGED <<arg, mux, cbVars, buffVars, running, stopVars, clockVars, linkVars>>

TimerStart(t) ==
  /\ At(t, "timer_start")
  /\ mux = NoThread
  /\ \/ /\ ~error
        /\ timer_started' = TRUE
        /\ timer' = TRUE
     \/ /\ error
        /\ UNCHANGED clockVars
  /\ Goto(t, "get_buffer")
  /\ UNCHANGED <<arg, mux, cbVars, buffVars, running, stopVars, linkVars>>

GetBuffer(t) ==
  /\ At(t, "get_buffer")
  /\ \/ /\ have_frozen
        /\ UNCHANGED buffVars
     \/ /\ ~have_frozen
        /\ frozen' = buff
        /\ buff' = <<>>
        /\ have_frozen' = TRUE
        /\ UNCHANGED sended
  /\ Goto(t, "write")
  /\ UNCHANGED <<arg, mux, cbVars, running, stopVars, clockVars, linkVars>>

(* async_write_some: an empty buffer completes at once, whatever the state *)
(* of the socket, and a closed socket fails at once.                       *)
Write(t) ==
  /\ At(t, "write")
  /\ \/ /\ sended >= Len(frozen)
        /\ ioq' = Append(ioq, "write_ok")
        /\ UNCHANGED writing
     \/ /\ sended < Len(frozen)
        /\ conn = "closed"
        /\ ioq' = Append(ioq, "write_err")
        /\ UNCHANGED writing
     \/ /\ sended < Len(frozen)
        /\ conn # "closed"
        /\ writing' = "pending"
        /\ UNCHANGED ioq
  /\ Return(t)
  /\ UNCHANGED <<mux, cbVars, buffVars, running, stopVars, clockVars,
                 conn, reading, bytes_sent, wire, net, input>>

PushStep(t) ==
  \/ PushIgnored(t)
  \/ PushWait(t)
  \/ PushCallback(t)
  \/ AddQuery(t)
  \/ CompareExchange(t)
  \/ NothingToSend(t)
  \/ Unset(t)
  \/ TimerCheck(t)
  \/ TimerStart(t)
  \/ GetBuffer(t)
  \/ Write(t)

-----------------------------------------------------------------------------
(* The event loop takes the next completion handler. *)

FirstLabel(e) ==
  CASE e = "write_ok" -> "sent"
    [] e = "read_ok" -> "parse"
    [] e \in {"read_err", "write_err"} -> "error"
    [] e = "timer" -> "idle"

(* The timer's handler throws, and nothing above io_service::run catches.  *)
Dispatch ==
  /\ At(Loop, "idle")
  /\ ioq # <<>>
  /\ Goto(Loop, FirstLabel(Head(ioq)))
  /\ ioq' = Tail(ioq)
  /\ status' = IF Head(ioq) = "timer" THEN "timeout" ELSE status
  /\ UNCHANGED <<arg, mux, cbVars, buffVars, running, stop, error, promise, owner,
                 clockVars, conn, reading, writing, bytes_sent, wire, net, input>>

-----------------------------------------------------------------------------
(* req_handler *)

(* Success: the mutex, __reset_timeout, sending_report and notify_all.     *)
(* sending_report frees _frozen_data when the whole of it is sent; freeing *)
(* it a second time may abort the process.                                 *)
ReqSent ==
  /\ At(Loop, "sent")
  /\ mux = NoThread
  /\ timer' = TRUE
  /\ \/ /\ sended + bytes_sent < Len(frozen)
        /\ sended' = sended + bytes_sent
        /\ UNCHANGED <<frozen, have_frozen, status>>
     \/ /\ sended + bytes_sent >= Len(frozen)
        /\ frozen' = <<>>
        /\ sended' = 0
        /\ have_frozen' = FALSE
        /\ status' \in {"running"} \cup (IF have_frozen THEN {} ELSE {"aborted"})
  /\ bytes_sent' = 0
  /\ pc' = [Notified(pc) EXCEPT ![Loop] = "req_done"]
  /\ UNCHANGED <<arg, mux, cbVars, buff, running, stop, error, promise, owner,
                 timer_started, conn, reading, writing, wire, net, input, ioq>>

ReqDone_KeepsFlag ==
  /\ At(Loop, "req_done")
  /\ Goto(Loop, "cas")
  /\ UNCHANGED <<arg, mux, cbVars, buffVars, running, stopVars, clockVars, linkVars>>
ReqDone ==
  /\ At(Loop, "req_done")
  /\ running' = FALSE
  /\ Goto(Loop, "cas")
  /\ UNCHANGED <<arg, mux, cbVars, buffVars, stopVars, clockVars, linkVars>>

-----------------------------------------------------------------------------
(* __socket_error_hendler, under the mutex, and soc_error_callbacks *)

Aborted == (IF reading THEN <<"read_err">> ELSE <<>>) \o
           (IF writing = "pending" THEN <<"write_err">> ELSE <<>>)

(* "Do this once." *)
FirstError_Always == TRUE
FirstError == ~error

SocketErrorAgain ==
  /\ At(Loop, "error")
  /\ mux = NoThread
  /\ ~FirstError
  /\ Goto(Loop, "idle")
  /\ UNCHANGED <<arg, mux, cbVars, buffVars, running, stopVars, clockVars, linkVars>>

SocketError ==
  /\ At(Loop, "error")
  /\ mux = NoThread
  /\ FirstError
  /\ error' = TRUE
  /\ stop' = TRUE
  /\ timer' = FALSE
  /\ conn' = "closed"
  /\ ioq' = ioq \o Aborted
  /\ reading' = FALSE
  /\ writing' = IF writing = "pending" THEN "no" ELSE writing
  /\ buff' = <<>>
  /\ frozen' = <<>>
  /\ sended' = 0
  /\ have_frozen' = FALSE
  /\ promise' = TRUE
  /\ status' = IF promise THEN "promise_error" ELSE status
  /\ pc' = [Notified(pc) EXCEPT ![Loop] = "drain"]
  /\ mux' = Loop
  /\ UNCHANGED <<arg, cbVars, running, owner, timer_started, bytes_sent, wire, net, input>>

Drain_First ==
  /\ At(Loop, "drain")
  /\ cb_queue # <<>>
  /\ outcome' = [outcome EXCEPT ![Head(cb_queue)] = Disconnected]
  /\ cb_queue' = Tail(cb_queue)
  /\ mux' = NoThread
  /\ Goto(Loop, "idle")
  /\ UNCHANGED <<arg, cur, buffVars, running, stopVars, clockVars, linkVars>>
Drain ==
  /\ At(Loop, "drain")
  /\ outcome' = [q \in Query |-> IF Queued(q) THEN Disconnected ELSE outcome[q]]
  /\ cb_queue' = <<>>
  /\ mux' = NoThread
  /\ Goto(Loop, "idle")
  /\ UNCHANGED <<arg, cur, buffVars, running, stopVars, clockVars, linkVars>>

-----------------------------------------------------------------------------
(* resp_handler *)

(* parse_one finds a reply and try_pop a callback. *)
ParseReply ==
  /\ At(Loop, "parse")
  /\ input # <<>>
  /\ cb_queue # <<>>
  /\ cur' = [cb |-> Head(cb_queue), reply |-> Head(input)]
  /\ cb_queue' = Tail(cb_queue)
  /\ input' = Tail(input)
  /\ Goto(Loop, "callback")
  /\ UNCHANGED <<arg, mux, outcome, buffVars, running, stopVars, clockVars,
                 conn, reading, writing, bytes_sent, wire, net, ioq>>

(* A reply and no callback: after an error the handler ends, without        *)
(* reading again; otherwise it throws.                                     *)
ParseUnexpected ==
  /\ At(Loop, "parse")
  /\ input # <<>>
  /\ cb_queue = <<>>
  /\ input' = Tail(input)
  /\ status' = IF error THEN status ELSE "sync_error"
  /\ Goto(Loop, "idle")
  /\ UNCHANGED <<arg, mux, cbVars, buffVars, running, stop, error, promise, owner, clockVars,
                 conn, reading, writing, bytes_sent, wire, net, ioq>>

ParseNothing ==
  /\ At(Loop, "parse")
  /\ input = <<>>
  /\ Goto(Loop, "tail")
  /\ UNCHANGED <<arg, mux, cbVars, buffVars, running, stopVars, clockVars, linkVars>>

(* cb(0, _respond), which may push a query of its own. *)
Callback ==
  /\ At(Loop, "callback")
  /\ outcome' = [outcome EXCEPT ![cur.cb] = Answered(cur.reply)]
  /\ cur' = NoCallback
  /\ \/ /\ Goto(Loop, "cb_done")
        /\ UNCHANGED arg
     \/ \E q \in FromCallback :
          /\ Fresh(q)
          /\ Goto(Loop, "lock")
          /\ arg' = [arg EXCEPT ![Loop] = q]
  /\ UNCHANGED <<mux, cb_queue, buffVars, running, stopVars, clockVars, linkVars>>

(* The last reply of a processor that stops; a promise set twice throws.   *)
LastReply_Any == stop
LastReply == stop /\ cb_queue = <<>>

WorkDone ==
  /\ At(Loop, "cb_done")
  /\ LastReply
  /\ promise' = TRUE
  /\ status' = IF promise THEN "promise_error" ELSE status
  /\ Goto(Loop, "idle")
  /\ UNCHANGED <<arg, mux, cbVars, buffVars, running, stop, error, owner, clockVars, linkVars>>

NextReply ==
  /\ At(Loop, "cb_done")
  /\ ~LastReply
  /\ Goto(Loop, "parse")
  /\ UNCHANGED <<arg, mux, cbVars, buffVars, running, stopVars, clockVars, linkVars>>

(* __resp_proc: on a closed socket the read fails at once. *)
ReadAgain_WhenQueued ==
  /\ reading' = (cb_queue # <<>>)
  /\ UNCHANGED ioq
ReadAgain ==
  \/ /\ conn = "closed"
     /\ ioq' = Append(ioq, "read_err")
     /\ UNCHANGED reading
  \/ /\ conn # "closed"
     /\ reading' = TRUE
     /\ UNCHANGED ioq

TailBusy ==
  /\ At(Loop, "tail")
  /\ cb_queue # <<>>
  /\ timer' = (timer \/ ~error)
  /\ ReadAgain
  /\ Goto(Loop, "idle")
  /\ UNCHANGED <<arg, mux, cbVars, buffVars, running, stopVars, timer_started,
                 conn, writing, bytes_sent, wire, net, input>>

TailIdle_Always ==
  /\ At(Loop, "tail")
  /\ Goto(Loop, "disarm")
  /\ UNCHANGED <<arg, mux, cbVars, buffVars, running, stopVars, clockVars, linkVars>>
TailIdle ==
  /\ At(Loop, "tail")
  /\ cb_queue = <<>>
  /\ Goto(Loop, "disarm")
  /\ UNCHANGED <<arg, mux, cbVars, buffVars, running, stopVars, clockVars, linkVars>>

Disarm ==
  /\ At(Loop, "disarm")
  /\ timer_started' = FALSE
  /\ Goto(Loop, "cancel")
  /\ UNCHANGED <<arg, mux, cbVars, buffVars, running, stopVars, timer, linkVars>>

Cancel ==
  /\ At(Loop, "cancel")
  /\ timer' = FALSE
  /\ ReadAgain
  /\ Goto(Loop, "idle")
  /\ UNCHANGED <<arg, mux, cbVars, buffVars, running, stopVars, timer_started,
                 conn, writing, bytes_sent, wire, net, input>>

LoopStep ==
  \/ PushStep(Loop)
  \/ Dispatch
  \/ ReqSent
  \/ ReqDone
  \/ SocketErrorAgain
  \/ SocketError
  \/ Drain
  \/ ParseReply
  \/ ParseUnexpected
  \/ ParseNothing
  \/ Callback
  \/ WorkDone
  \/ NextReply
  \/ TailBusy
  \/ TailIdle
  \/ Disarm
  \/ Cancel

-----------------------------------------------------------------------------
(* ~pipeline: stop(), then the timer and the socket.  No push() may be in   *)
(* progress when the last reference to the processor goes away.            *)

OwnerAt(label) == IsRunning /\ owner = label

OwnerVars == <<threadVars, cbVars, buffVars, running, error, promise, clockVars, linkVars>>

Stop ==
  /\ OwnerAt("alive")
  /\ \A t \in Threads : arg[t] = NoQuery
  /\ stop' = TRUE
  /\ owner' = "check"
  /\ UNCHANGED <<OwnerVars, status>>

StopCheck ==
  /\ OwnerAt("check")
  /\ owner' = IF cb_queue = <<>> THEN "close" ELSE "wait"
  /\ UNCHANGED <<OwnerVars, stop, status>>

StopWait ==
  /\ OwnerAt("wait")
  /\ promise
  /\ owner' = "close"
  /\ UNCHANGED <<OwnerVars, stop, status>>

Destroy ==
  /\ OwnerAt("close")
  /\ status' = "destroyed"
  /\ UNCHANGED <<OwnerVars, stop, owner>>

OwnerStep == Stop \/ StopCheck \/ StopWait \/ Destroy

-----------------------------------------------------------------------------
(* The socket, the server and the clock *)

EnvUnchanged == UNCHANGED <<threadVars, cbVars, buffVars, running, stopVars>>

Unsent == Len(frozen) - sended

(* The kernel takes n queries; the handler is posted by another step, for   *)
(* the thread that started the write may lose the processor in between.    *)
WriteDone(n) ==
  /\ IsRunning
  /\ writing = "pending"
  /\ n \in 1..Unsent
  /\ writing' = "done"
  /\ bytes_sent' = n
  /\ wire' = wire \o SubSeq(frozen, sended + 1, sended + n)
  /\ EnvUnchanged
  /\ UNCHANGED <<clockVars, conn, reading, net, input, ioq>>

WritePosted ==
  /\ IsRunning
  /\ writing = "done"
  /\ writing' = "no"
  /\ ioq' = Append(ioq, "write_ok")
  /\ EnvUnchanged
  /\ UNCHANGED <<clockVars, conn, reading, bytes_sent, wire, net, input>>

WriteFails ==
  /\ IsRunning
  /\ writing = "pending"
  /\ conn = "broken"
  /\ writing' = "no"
  /\ ioq' = Append(ioq, "write_err")
  /\ EnvUnchanged
  /\ UNCHANGED <<clockVars, conn, reading, bytes_sent, wire, net, input>>

(* The server answers in the order of the queries. *)
Reply ==
  /\ IsRunning
  /\ conn = "up"
  /\ wire # <<>>
  /\ net' = Append(net, Head(wire))
  /\ wire' = Tail(wire)
  /\ EnvUnchanged
  /\ UNCHANGED <<clockVars, conn, reading, writing, bytes_sent, input, ioq>>

(* A read returns n whole replies, or with n = 0 a part of one. *)
ReadDone(n) ==
  /\ IsRunning
  /\ reading
  /\ net # <<>>
  /\ n \in 0..Len(net)
  /\ reading' = FALSE
  /\ input' = input \o SubSeq(net, 1, n)
  /\ net' = SubSeq(net, n + 1, Len(net))
  /\ ioq' = Append(ioq, "read_ok")
  /\ EnvUnchanged
  /\ UNCHANGED <<clockVars, conn, writing, bytes_sent, wire>>

ReadFails ==
  /\ IsRunning
  /\ reading
  /\ conn = "broken"
  /\ reading' = FALSE
  /\ ioq' = Append(ioq, "read_err")
  /\ EnvUnchanged
  /\ UNCHANGED <<clockVars, conn, writing, bytes_sent, wire, net, input>>

Break ==
  /\ IsRunning
  /\ CanBreak
  /\ conn = "up"
  /\ conn' = "broken"
  /\ EnvUnchanged
  /\ UNCHANGED <<clockVars, reading, writing, bytes_sent, wire, net, input, ioq>>

(* The timer expires: its handler can no longer be cancelled. *)
TimerExpires ==
  /\ IsRunning
  /\ timer
  /\ timer' = FALSE
  /\ ioq' = Append(ioq, "timer")
  /\ EnvUnchanged
  /\ UNCHANGED <<timer_started, conn, reading, writing, bytes_sent, wire, net, input>>

-----------------------------------------------------------------------------
Next ==
  \/ \E t \in Clients, q \in Query : CallPush(t, q)
  \/ \E t \in Clients : PushStep(t)
  \/ LoopStep
  \/ OwnerStep
  \/ \E n \in 1..Unsent : WriteDone(n)
  \/ WritePosted
  \/ WriteFails
  \/ Reply
  \/ \E n \in 0..Len(net) : ReadDone(n)
  \/ ReadFails
  \/ Break
  \/ TimerExpires

Spec == Init /\ [][Next]_vars

(* Threads that can run do, the kernel moves bytes, the server answers,    *)
(* and a reply does not arrive in parts for ever.  Nobody has to push, to  *)
(* destroy the processor, to break the connection or to let a timer expire.*)
Fairness ==
  /\ \A t \in Clients : WF_vars(PushStep(t))
  /\ WF_vars(LoopStep)
  /\ WF_vars(StopCheck \/ StopWait \/ Destroy)
  /\ WF_vars(\E n \in 1..Unsent : WriteDone(n))
  /\ WF_vars(WritePosted)
  /\ WF_vars(Reply)
  /\ SF_vars(\E n \in 1..Len(net) : ReadDone(n))
  /\ WF_vars(ReadFails)

FairSpec == Spec /\ Fairness

-----------------------------------------------------------------------------
ThreadsTypeOK ==
  /\ pc \in [Threads -> {"idle"} \cup PushLabels \cup LoopLabels]
  /\ \A t \in Clients : pc[t] \notin LoopLabels
  /\ arg \in [Threads -> Query \cup {NoQuery}]
  /\ mux \in Threads \cup {NoThread}

CallbacksTypeOK ==
  /\ cb_queue \in Seq(Query)
  /\ outcome \in [Query -> Service!Outcome]
  /\ cur \in [cb : Query \cup {NoQuery}, reply : Query \cup {NoQuery}]

BufferTypeOK ==
  /\ buff \in Seq(Query)
  /\ frozen \in Seq(Query)
  /\ sended \in Nat
  /\ have_frozen \in BOOLEAN

FlagsTypeOK ==
  /\ running \in BOOLEAN
  /\ stop \in BOOLEAN
  /\ error \in BOOLEAN
  /\ promise \in BOOLEAN
  /\ timer_started \in BOOLEAN
  /\ timer \in BOOLEAN
  /\ owner \in {"alive", "check", "wait", "close"}
  /\ status \in {"running", "timeout", "sync_error", "promise_error", "aborted", "destroyed"}

LinkTypeOK ==
  /\ conn \in {"up", "broken", "closed"}
  /\ reading \in BOOLEAN
  /\ writing \in {"no", "pending", "done"}
  /\ bytes_sent \in Nat
  /\ wire \in Seq(Query)
  /\ net \in Seq(Query)
  /\ input \in Seq(Query)
  /\ ioq \in Seq(Events)

TypeOK ==
  /\ ThreadsTypeOK
  /\ CallbacksTypeOK
  /\ BufferTypeOK
  /\ FlagsTypeOK
  /\ LinkTypeOK

(* The detailed processor implements the abstract one: an accepted query     *)
(* waits in line, gets its own reply in its turn, and no callback is called *)
(* twice (push, resp_handler, soc_error_callbacks, stop).                   *)
ImplementsService == Service!Spec

(* The queries that have not been parsed yet, oldest first. *)
Flow == input \o net \o wire \o SubSeq(frozen, sended + bytes_sent + 1, Len(frozen)) \o buff

(* Until the first error the callback queue lists exactly the queries that   *)
(* are in the output buffers, on the wire or in the input buffer, in their  *)
(* order, whatever threads push, freeze, send and read meanwhile.           *)
CallbacksMatchQueries ==
  ~error =>
    \/ cb_queue = Flow
    \/ \E t \in Threads : pc[t] = "add_query" /\ cb_queue = Append(Flow, arg[t])

(* "Query/resp processors sync error." is never thrown (pipeline.cpp:112). *)
NoSyncError == status # "sync_error"

(* A callback that gets a reply gets the reply of its own query. *)
OwnAnswer == \A q \in Query : outcome[q].code = 0 => outcome[q].reply = q

(* Holding _req_proc_running: between the exchange that sets it and the     *)
(* store that clears it lie the thread's steps, the outstanding write and   *)
(* the queued handler.                                                      *)
ReqLabels == {"check", "unset", "timer_check", "timer_start", "get_buffer", "write",
              "sent", "req_done"}
Sending(t) == pc[t] \in ReqLabels
IsWrite(e) == e \in {"write_ok", "write_err"}
HasWrite(q) == \E i \in DOMAIN q : IsWrite(q[i])
OneWrite(q) == \A i, j \in DOMAIN q : IsWrite(q[i]) /\ IsWrite(q[j]) => i = j

(* There is never more than one write, from whichever thread and handler,   *)
(* and while there is one _req_proc_running says so.                        *)
OneWriter ==
  /\ \A t, u \in Threads : Sending(t) /\ Sending(u) => t = u
  /\ \A t \in Threads : Sending(t) => writing = "no" /\ ~HasWrite(ioq) /\ running
  /\ writing # "no" => running /\ ~HasWrite(ioq)
  /\ HasWrite(ioq) => running
  /\ OneWrite(ioq)

(* check_overflow keeps the output buffer below its limit, however many     *)
(* threads wait for room and are woken together.                            *)
BufferWithinLimit == Len(buff) < MaxBuff

(* A thread waits for room only while there is none, or while a write is     *)
(* under way, whose handler notifies: neither get_buffer, which makes room  *)
(* without the mutex, nor an error leaves it asleep.                        *)
WaiterHasCause == \A t \in Threads : pc[t] = "wait" => Overflow \/ have_frozen

(* When the destructor goes on to close the socket, no callback is left in   *)
(* the queue, unless the connection was lost.                               *)
StopDrains == owner = "close" /\ ~error => cb_queue = <<>>

(* After a lost connection no callback is left in the queue, and none is     *)
(* added (soc_error_callbacks, and the test of _stop_in_progress in push).  *)
DisconnectDrains == error /\ pc[Loop] # "drain" => cb_queue = <<>>

(* The promise that wakes the destructor is set once, by the last reply or   *)
(* by the error, never by both (set_value throws the second time).          *)
PromiseOnce == status # "promise_error"

-----------------------------------------------------------------------------
(* A query that a write has taken on a live connection is answered, with a   *)
(* reply or with the error, or the processor ends: the remainder of a       *)
(* partial write is sent by the handler of the part before.                 *)
InFrozen(q) == \E i \in DOMAIN frozen : frozen[i] = q
FrozenIsAnswered ==
  \A q \in Query : (InFrozen(q) /\ ~error) ~> (outcome[q] # Uncalled \/ ~IsRunning)

(* A broken connection is noticed, even by an idle processor: a read is      *)
(* always outstanding.                                                      *)
BrokenIsNoticed == (conn = "broken") ~> (error \/ ~IsRunning)

(* Every query's callback is called (examples/example.cpp:29-30 counts them).*)
EveryQueryAnswered ==
  \A q \in Query : Queued(q) ~> (outcome[q] # Uncalled \/ ~IsRunning)

(* The event loop waits for something to happen. *)
LoopAsleep == At(Loop, "idle") /\ ioq = <<>> /\ writing = "no"

(* The timeout is the server's time to respond (types.hpp:61): when the      *)
(* event loop sleeps and a query is on the wire, the timer runs, although a *)
(* thread may have read _timer_is_started just before resp_handler cleared  *)
(* it: the handler of the write arms the timer again.                       *)
WireIsTimed == LoopAsleep /\ conn = "up" /\ wire # <<>> => timer
=============================================================================
