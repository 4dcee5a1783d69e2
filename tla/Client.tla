------------------------------- MODULE Client -------------------------------
(***************************************************************************)
(* redis::client: how it connects to a master and a pool of slaves, two     *)
(* processors for each, and disconnects, reconnects and routes queries.     *)
(*                                                                         *)
(* One thread of the application (app) calls the client and waits for the  *)
(* future of each connect or reconnect, as the examples do; the event loop *)
(* (loop) runs the handlers of ConnManager.  A chain of async_get calls,    *)
(* each in the callback of the one before, runs on either thread, because  *)
(* async_get calls back at once for a cached socket.                       *)
(*                                                                         *)
(* A processor is its socket; what it does with queries is CallbackService, *)
(* and it is idle whenever it is destroyed.  The client has an event loop of *)
(* its own, as its constructors without a strand make it.                   *)
(***************************************************************************)
EXTENDS ConnManager, ListBalancer, CmdTraits

CONSTANTS
  MasterServer, (* the endpoint of the master                                 *)
  Calls,        (* overloads of future_connect: [master, slaves], the slaves  *)
                (* with their preferences                                     *)
  BadAddress,   (* the servers whose address is not an IP address             *)
  MaxRequests   (* how often the application connects and reconnects          *)

ASSUME CallAssumption ==
  /\ MasterServer \in Servers
  /\ Calls \subseteq [master : BOOLEAN, slaves : Seq([server : Servers, pref : 1..10])]
  /\ MaxRequests \in Nat

VARIABLES
  master_conn,      (* _master_conn is set                                    *)
  slave_pool,       (* _slave_pool                                            *)
  master_pipeline,  (* _master_pipeline: its socket                           *)
  master_serial,    (* _master_serial                                         *)
  pipeline_pool,    (* _slave_pipeline_pool                                   *)
  serial_pool,      (* _slave_serial_pool                                     *)
  connected,        (* _connected                                             *)
  failed,           (* the processors that have had a socket error            *)
  chain,            (* the step of the chain each thread is at                *)
  app,              (* what the application's thread does                     *)
  req,              (* how many times it has asked for a connection           *)
  answers,          (* what the confirmation of each request was called with  *)
  late,             (* a timer has run out (history)                          *)
  worked_time,      (* _worked_time: "waiting", "expired" or "off"            *)
  io_returned,      (* io_service::run has returned, and the worker ended     *)
  status            (* "running", "terminated" by an exception, "destroyed"   *)

procVars == <<master_pipeline, master_serial, pipeline_pool, serial_pool, failed>>
setupVars == <<master_conn, slave_pool>>
loopVars == <<worked_time, io_returned>>
vars == <<connVars, setupVars, procVars, loopVars, connected, chain, app, req, answers, late, status>>

NoSocket == 0    (* a null pointer *)

NoStep == [req |-> 0, step |-> 0]

Ready == [goal |-> "none", clearing |-> <<>>]

held == ({master_pipeline, master_serial} \ {NoSocket})
          \cup ToSet(pipeline_pool.list) \cup ToSet(serial_pool.list)

Init ==
  /\ ConnInit
  /\ master_conn = FALSE /\ slave_pool = <<>>
  /\ master_pipeline = NoSocket /\ master_serial = NoSocket
  /\ pipeline_pool = new_pool /\ serial_pool = new_pool
  /\ connected = FALSE
  /\ failed = {}
  /\ chain = [t \in {"app", "loop"} |-> NoStep]
  /\ app = Ready
  /\ req = 0
  /\ answers = [r \in 1..MaxRequests |-> <<>>]
  /\ late = FALSE
  /\ worked_time = "waiting" /\ io_returned = FALSE
  /\ status = "running"

(* The chain: the master's two processors, the slaves' pipelines, the       *)
(* slaves' serials.                                                        *)
Units(proc) ==
  [i \in DOMAIN slave_pool |-> [proc |-> proc, server |-> slave_pool[i].server, pref |-> slave_pool[i].pref]]
OfMaster(proc) == [proc |-> proc, server |-> MasterServer, pref |-> 0]

Steps_DropsLast ==
  (IF master_conn THEN <<OfMaster("master_pipeline"), OfMaster("master_serial")>> ELSE <<>>)
    \o Units("pipeline") \o SubSeq(Units("serial"), 1, Len(slave_pool) - 1)
Steps ==
  (IF master_conn THEN <<OfMaster("master_pipeline"), OfMaster("master_serial")>> ELSE <<>>)
    \o Units("pipeline") \o Units("serial")

(* The confirmation callback sets a promise, which may be set once.         *)
Answer(r, code) ==
  /\ answers' = [answers EXCEPT ![r] = Append(@, code)]
  /\ status' = IF answers[r] = <<>> THEN status ELSE "terminated"

Quiet == UNCHANGED <<answers, status>>

(* A processor takes socket s, at step k of the chain; a processor it        *)
(* replaces is destroyed and closes its socket.                             *)
Install(s, k) ==
  LET unit == Steps[k]
      replaced == CASE unit.proc = "master_pipeline" -> {master_pipeline}
                    [] unit.proc = "master_serial" -> {master_serial}
                    [] OTHER -> {}
  IN /\ master_pipeline' = IF unit.proc = "master_pipeline" THEN s ELSE master_pipeline
     /\ master_serial' = IF unit.proc = "master_serial" THEN s ELSE master_serial
     /\ pipeline_pool' = IF unit.proc = "pipeline" THEN add_unit(pipeline_pool, s, unit.pref) ELSE pipeline_pool
     /\ serial_pool' = IF unit.proc = "serial" THEN add_unit(serial_pool, s, unit.pref) ELSE serial_pool
     /\ open' = open \ replaced
     /\ failed' = failed \ ({s} \cup replaced)

-----------------------------------------------------------------------------
(* A thread goes on with its chain: async_get of the next manager, or the    *)
(* end.                                                                    *)
ChainEnds(t) ==
  /\ chain[t].step = Len(Steps) + 1
  /\ connected' = TRUE
  /\ Answer(chain[t].req, "ok")
  /\ chain' = [chain EXCEPT ![t] = NoStep]
  /\ UNCHANGED <<connVars, procVars>>

ChainFromCache(t) ==
  /\ chain[t].step \in DOMAIN Steps
  /\ LET server == Steps[chain[t].step].server
     IN \E i \in FirstFree(server, held) :
          /\ cache' = [cache EXCEPT ![server] = Rotated(@, i)]
          /\ Install(cache[server][i], chain[t].step)
  /\ chain' = [chain EXCEPT ![t].step = @ + 1]
  /\ Quiet
  /\ UNCHANGED <<connecting, timer, waiter, connected>>

ChainAttempt_NoReturn(t) ==
  /\ chain[t].step \in DOMAIN Steps
  /\ LET server == Steps[chain[t].step].server
     IN /\ FirstFree(server, held) = {}
        /\ IF server \in BadAddress THEN Answer(chain[t].req, "bad_address") ELSE Quiet
        /\ StartAttempt(server, chain[t].req, chain[t].step, held)
  /\ chain' = [chain EXCEPT ![t] = NoStep]
  /\ UNCHANGED <<procVars, connected>>
ChainAttempt(t) ==
  /\ chain[t].step \in DOMAIN Steps
  /\ LET server == Steps[chain[t].step].server
     IN /\ FirstFree(server, held) = {}
        /\ IF server \in BadAddress THEN
             /\ Answer(chain[t].req, "bad_address")
             /\ UNCHANGED connVars
           ELSE
             /\ StartAttempt(server, chain[t].req, chain[t].step, held)
             /\ Quiet
  /\ chain' = [chain EXCEPT ![t] = NoStep]
  /\ UNCHANGED <<procVars, connected>>

ChainStep(t) ==
  /\ status = "running"
  /\ chain[t] # NoStep
  /\ ChainEnds(t) \/ ChainFromCache(t) \/ ChainAttempt(t)
  /\ UNCHANGED <<setupVars, loopVars, app, req, late>>

(* The application, when what it asked for has been answered. *)
AppIsFree ==
  /\ status = "running"
  /\ app = Ready /\ chain["app"] = NoStep
  /\ req > 0 => answers[req] # <<>>

(* The event loop, when it is not in a chain. *)
LoopIsFree == status = "running" /\ ~io_returned /\ chain["loop"] = NoStep

ConnectionHandlerFails_Silent(s) ==
  /\ ConnectFailed(s)
  /\ IF timer[s] = "waiting" THEN Quiet ELSE Answer(waiter[s].req, "error")
  /\ UNCHANGED <<procVars, chain, late, connected>>
ConnectionHandlerFails(s) ==
  /\ ConnectFailed(s)
  /\ Answer(waiter[s].req, "error")
  /\ UNCHANGED <<procVars, chain, late, connected>>

ConnectionHandler(s) ==
  /\ ConnectDone(s)
  /\ Install(s, waiter[s].step)
  /\ chain' = [chain EXCEPT !["loop"] = [req |-> waiter[s].req, step |-> waiter[s].step + 1]]
  /\ Quiet
  /\ UNCHANGED <<late, connected>>

TimeoutAborted(s) ==
  /\ TimerAborted(s)
  /\ Quiet
  /\ UNCHANGED <<procVars, chain, late, connected>>

TimeoutHandler(s) ==
  /\ TimedOut(s)
  /\ Answer(waiter[s].req, "timed_out")
  /\ late' = TRUE
  /\ UNCHANGED <<procVars, chain, connected>>

HandlerRuns ==
  /\ LoopIsFree
  /\ \E s \in Sockets :
       \/ ConnectionHandlerFails(s)
       \/ ConnectionHandler(s)
       \/ TimeoutAborted(s)
       \/ TimeoutHandler(s)
  /\ UNCHANGED <<setupVars, loopVars, app, req>>

(* A processor loses its connection, or finds that it never had one:         *)
(* __socket_error_hendler, once, and __proc_disconnect_handler.             *)
ProcDisconnects(s) ==
  /\ LoopIsFree
  /\ s \in held \ failed
  /\ failed' = failed \cup {s}
  /\ open' = open \ {s}
  /\ connected' = FALSE
  /\ UNCHANGED <<connecting, timer, waiter, cache, setupVars, loopVars, chain, app, req, answers, late, status,
                 master_pipeline, master_serial, pipeline_pool, serial_pool>>

(* _worked_time: every five seconds its handler sets it again.  That only    *)
(* the destructor looks at it is why it need not run out while the          *)
(* application is busy.                                                    *)
WorkedTimeExpires ==
  /\ LoopIsFree /\ AppIsFree
  /\ worked_time = "waiting"
  /\ worked_time' = "expired"
  /\ UNCHANGED <<connVars, setupVars, procVars, io_returned, connected, chain, app, req, answers, late, status>>

reset_timer_Once ==
  /\ LoopIsFree
  /\ worked_time = "expired"
  /\ worked_time' = "off"
  /\ UNCHANGED <<connVars, setupVars, procVars, io_returned, connected, chain, app, req, answers, late, status>>
reset_timer ==
  /\ LoopIsFree
  /\ worked_time = "expired"
  /\ worked_time' = "waiting"
  /\ UNCHANGED <<connVars, setupVars, procVars, io_returned, connected, chain, app, req, answers, late, status>>

(* An operation that has not ended keeps io_service::run from returning: the *)
(* timer, an attempt or its timer, the read that a pipeline always has        *)
(* outstanding.                                                             *)
LoopHasWork ==
  \/ worked_time # "off"
  \/ \E s \in Sockets : connecting[s] # "off" \/ timer[s] # "off"
  \/ ({master_pipeline} \cup ToSet(pipeline_pool.list)) \ ({NoSocket} \cup failed) # {}

LoopReturns ==
  /\ LoopIsFree
  /\ ~LoopHasWork
  /\ io_returned' = TRUE
  /\ UNCHANGED <<connVars, setupVars, procVars, worked_time, connected, chain, app, req, answers, late, status>>

(* Handlers run in the order they are posted: that of an aborted timer before *)
(* the handler of anything that completes after the abort.                  *)
Network(s) ==
  /\ status = "running"
  /\ \A u \in Sockets : timer[u] # "aborted"
  /\ Connects(s) \/ Refuses(s) \/ TimerExpires(s)
  /\ UNCHANGED <<setupVars, loopVars, procVars, connected, chain, app, req, answers, late, status>>

-----------------------------------------------------------------------------
Begin(r) == chain' = [chain EXCEPT !["app"] = [req |-> r, step |-> 1]]

Connect(call) ==
  /\ AppIsFree
  /\ req = 0 /\ MaxRequests > 0
  /\ master_conn' = call.master
  /\ slave_pool' = call.slaves
  /\ req' = 1
  /\ Begin(1)
  /\ UNCHANGED <<connVars, procVars, loopVars, connected, app, answers, late, status>>

Pointers_NoPipelinePool == <<"master_pipeline", "master_serial", "serial_pool">>
Pointers == <<"master_pipeline", "master_serial", "pipeline_pool", "serial_pool">>

(* disconnect(), and async_reconnect() and the destructor, which begin with  *)
(* it; the destructor first cancels the timer, but a handler that is        *)
(* already in the queue runs as if it had not.                              *)
Disconnect(goal) ==
  /\ AppIsFree
  /\ goal # "destroy" => req > 0
  /\ connected' = FALSE
  /\ app' = [goal |-> goal, clearing |-> Pointers]
  /\ worked_time' = IF goal = "destroy" /\ worked_time = "waiting" THEN "off" ELSE worked_time
  /\ UNCHANGED <<connVars, setupVars, procVars, io_returned, chain, req, answers, late, status>>

(* One pointer or pool after the other lets go of its processors, which      *)
(* close their sockets.                                                     *)
Clear ==
  LET p == Head(app.clearing)
      closed == CASE p = "master_pipeline" -> {master_pipeline}
                  [] p = "master_serial"   -> {master_serial}
                  [] p = "pipeline_pool"   -> ToSet(pipeline_pool.list)
                  [] p = "serial_pool"     -> ToSet(serial_pool.list)
  IN /\ status = "running"
     /\ app.clearing # <<>>
     /\ master_pipeline' = IF p = "master_pipeline" THEN NoSocket ELSE master_pipeline
     /\ master_serial' = IF p = "master_serial" THEN NoSocket ELSE master_serial
     /\ pipeline_pool' = IF p = "pipeline_pool" THEN clear(pipeline_pool) ELSE pipeline_pool
     /\ serial_pool' = IF p = "serial_pool" THEN clear(serial_pool) ELSE serial_pool
     /\ open' = open \ closed
     /\ failed' = failed \ closed
     /\ app' = [app EXCEPT !.clearing = Tail(@)]
     /\ UNCHANGED <<connecting, timer, waiter, cache, setupVars, loopVars, connected, chain, req,
                    answers, late, status>>

(* async_reconnect throws when there is no endpoint. *)
Disconnected ==
  /\ status = "running"
  /\ app.goal \in {"disconnect", "reconnect"} /\ app.clearing = <<>>
  /\ app' = Ready
  /\ IF app.goal = "reconnect" /\ (master_conn \/ slave_pool # <<>>) /\ req < MaxRequests THEN
       /\ req' = req + 1
       /\ Begin(req + 1)
     ELSE UNCHANGED <<req, chain>>
  /\ UNCHANGED <<connVars, setupVars, procVars, loopVars, connected, answers, late, status>>

(* The destructor waits for the worker. *)
IsJoining == status = "running" /\ app.goal = "destroy" /\ app.clearing = <<>>

Join ==
  /\ IsJoining
  /\ io_returned
  /\ status' = "destroyed"
  /\ UNCHANGED <<connVars, setupVars, procVars, loopVars, connected, chain, app, req, answers, late>>

(* async_send and async_send_master: the text of a query goes to the         *)
(* master's pipeline; a query with a common buffer goes to a pipeline, one   *)
(* with a direct buffer to a serial processor, of the master or of any      *)
(* server.                                                                  *)
ToMaster(socket) == IF socket = NoSocket THEN "throws" ELSE "master"

ToAny(pool, socket) ==
  IF is_empty(pool) THEN {ToMaster(socket)}
  ELSE {IF InList(pool, i) THEN "slave" ELSE "outside" : i \in Picks(pool)}

Routes(kind) ==
  CASE kind = "string" -> {IF master_pipeline = NoSocket THEN "null" ELSE "master"}
    [] kind = "pipeline_master" -> {ToMaster(master_pipeline)}
    [] kind = "pipeline_any" -> ToAny(pipeline_pool, master_pipeline)
    [] kind = "serial_master" -> {ToMaster(master_serial)}
    [] kind = "serial_any" -> ToAny(serial_pool, master_serial)

Buffers == {"common_buffer", "direct_write_buffer"}

SendKind(c, buffer) ==
  CASE buffer = "common_buffer" /\ only_master(c)        -> "pipeline_master"
    [] buffer = "common_buffer" /\ ~only_master(c)       -> "pipeline_any"
    [] buffer = "direct_write_buffer" /\ only_master(c)  -> "serial_master"
    [] buffer = "direct_write_buffer" /\ ~only_master(c) -> "serial_any"

(* The ways of a query object of a command among cmds. *)
KindsOf(cmds) == {SendKind(c, b) : c \in cmds, b \in Buffers}

Next ==
  \/ \E call \in Calls : Connect(call)
  \/ \E goal \in {"disconnect", "reconnect", "destroy"} : Disconnect(goal)
  \/ Clear
  \/ Disconnected
  \/ Join
  \/ ChainStep("app")
  \/ ChainStep("loop")
  \/ HandlerRuns
  \/ \E s \in Sockets : ProcDisconnects(s)
  \/ WorkedTimeExpires
  \/ reset_timer
  \/ LoopReturns
  \/ \E s \in Sockets : Network(s)

Spec == Init /\ [][Next]_vars

(* Threads that can go on do, run() runs the handlers that are ready and     *)
(* returns when there is nothing left, and an attempt ends.  Nothing makes   *)
(* the application call, or a connection break.                             *)
Fairness ==
  /\ WF_vars(Clear)
  /\ WF_vars(Join)
  /\ WF_vars(ChainStep("app"))
  /\ WF_vars(ChainStep("loop"))
  /\ WF_vars(HandlerRuns)
  /\ WF_vars(reset_timer)
  /\ WF_vars(LoopReturns)
  /\ \A s \in Sockets : WF_vars(Network(s))

FairSpec == Spec /\ Fairness

-----------------------------------------------------------------------------
TypeOK ==
  /\ open \subseteq Sockets
  /\ \A s \in Sockets :
       /\ connecting[s] \in {"off", "waiting", "ok", "error"}
       /\ timer[s] \in {"off", "waiting", "expired", "aborted"}
       /\ waiter[s].server \in Servers \cup {"none"}
  /\ \A v \in Servers : ToSet(cache[v]) \subseteq Sockets /\ Cardinality(ToSet(cache[v])) = Len(cache[v])
  /\ master_pipeline \in Sockets \cup {NoSocket} /\ master_serial \in Sockets \cup {NoSocket}
  /\ connected \in BOOLEAN /\ late \in BOOLEAN
  /\ failed \subseteq held
  /\ req \in 0..MaxRequests
  /\ \A t \in {"app", "loop"} : chain[t].req \in 0..req
  /\ worked_time \in {"waiting", "expired", "off"} /\ io_returned \in BOOLEAN
  /\ status \in {"running", "terminated", "destroyed"}

(* With the types: no two processors have the same socket, and no processor  *)
(* has one that an attempt still uses: the cache gives a socket to one of   *)
(* them at a time.                                                         *)
Owners(s) ==
  (IF master_pipeline = s THEN 1 ELSE 0) + (IF master_serial = s THEN 1 ELSE 0)
    + Cardinality({i \in DOMAIN pipeline_pool.list : pipeline_pool.list[i] = s})
    + Cardinality({i \in DOMAIN serial_pool.list : serial_pool.list[i] = s})

SocketsNotShared ==
  /\ TypeOK
  /\ \A s \in Sockets : Owners(s) <= 1 /\ (s \in held => connecting[s] = "off")

(* A timer that can still expire belongs to an attempt that has not been     *)
(* answered: it does not cut off a processor's connection.                  *)
TimerGuardsAttempt == \A s \in Sockets : timer[s] = "waiting" => connecting[s] # "off"

(* As long as no timer has run out, each request is confirmed once.          *)
ConfirmedOnceInTime == ~late => status # "terminated" /\ \A r \in 1..MaxRequests : Len(answers[r]) <= 1

(* As long as no timer has run out, a client that says it is connected has   *)
(* both processors of the master and of every slave, each of them once.      *)
ConnectedIsComplete ==
  connected /\ ~late =>
    /\ master_conn => NoSocket \notin {master_pipeline, master_serial}
    /\ Len(pipeline_pool.list) = Len(slave_pool)
    /\ Len(serial_pool.list) = Len(slave_pool)

(* While the client says it is connected, no query goes to an index outside  *)
(* its pool, although clearing a pool leaves its map as it is.  A query that *)
(* only a master may execute causes an exception of a client without one    *)
(* (client.hpp:58-59), and no other query does if there is a server for it.  *)
(* A command that writes, by whatever processor, goes to no slave.          *)
(* Two documents that the code contradicts are not part of it: the comment   *)
(* on custom, which is not in Writes, "Slave by default in client::send"     *)
(* (cmd_traits.hpp:510), and client.hpp:58-59 for a query given as a string, *)
(* of which it says something with a master only.                          *)
QueryFindsProcessor ==
  connected /\ ~late =>
    /\ \A kind \in KindsOf(Command) : "outside" \notin Routes(kind)
    /\ \A kind \in KindsOf({c \in Command : only_master(c)}) : "throws" \in Routes(kind) <=> ~master_conn
    /\ \A kind \in KindsOf({c \in Command : ~only_master(c)}) :
         "throws" \in Routes(kind) <=> ~master_conn /\ slave_pool = <<>>
    /\ \A kind \in KindsOf(Writes) : "slave" \notin Routes(kind)
    /\ master_conn => Routes("string") = {"master"}

(* No request is forgotten: until it is confirmed a thread is in its chain,  *)
(* or an attempt of it has a handler still to run.                          *)
RequestIsPending ==
  \A r \in 1..req : answers[r] = <<>> =>
    \/ \E t \in {"app", "loop"} : chain[t].req = r
    \/ \E s \in Sockets : waiter[s].req = r /\ connecting[s] # "off"

(* As long as the client lives its event loop runs, however long nothing is  *)
(* asked of it: run() returns only for the destructor.                      *)
LoopOutlivesClient == io_returned => app.goal = "destroy"

(* The destructor returns, unless the timer's handler was in the queue when  *)
(* it cancelled the timer, and set it again (client.cpp:171), or a timeout   *)
(* left a chain behind that goes on to make processors.                     *)
DestructorReturns == IsJoining ~> (status # "running" \/ worked_time = "waiting" \/ late)

(* client.hpp:65-75: the future of a connect has one result.                 *)
ConfirmedOnce == \A r \in 1..MaxRequests : Len(answers[r]) <= 1
=============================================================================
