--------------------------- MODULE ClientInvariant ---------------------------
(***************************************************************************)
(* The inductive invariant of Client, conjunct by conjunct.                *)
(***************************************************************************)
EXTENDS Client

Agents == {"app", "loop"}
Attempting(s) == connecting[s] # "off"

(* The types that TypeOK leaves open. *)
Unit == [server : Servers, pref : 1..10]
Pool == [list : Seq(Sockets), map : Seq(Nat)]
Codes == {"ok", "error", "bad_address", "timed_out"}
ConnTypeOK ==
  /\ connecting \in [Sockets -> {"off", "waiting", "ok", "error"}]
  /\ timer \in [Sockets -> {"off", "waiting", "expired", "aborted"}]
  /\ waiter \in [Sockets -> [server : Servers \cup {"none"}, req : 0..MaxRequests, step : Nat]]
  /\ cache \in [Servers -> Seq(Sockets)]
  /\ open \subseteq Sockets
SetupTypeOK ==
  /\ master_conn \in BOOLEAN /\ slave_pool \in Seq(Unit)
  /\ master_pipeline \in Sockets \cup {NoSocket} /\ master_serial \in Sockets \cup {NoSocket}
  /\ pipeline_pool \in Pool /\ serial_pool \in Pool
  /\ failed \subseteq held
ClientTypeOK ==
  /\ connected \in BOOLEAN /\ late \in BOOLEAN
  /\ chain \in [Agents -> [req : 0..MaxRequests, step : Nat]]
  /\ app \in [goal : {"none", "disconnect", "reconnect", "destroy"}, clearing : Seq(ToSet(Pointers))]
  /\ req \in 0..MaxRequests
  /\ answers \in [1..MaxRequests -> Seq(Codes)]
  /\ worked_time \in {"waiting", "expired", "off"} /\ io_returned \in BOOLEAN
  /\ status \in {"running", "terminated", "destroyed"}

(* The cache has a socket once, and none that is being connected.            *)
CacheOK ==
  /\ \A v \in Servers : \A i, j \in DOMAIN cache[v] : cache[v][i] = cache[v][j] => i = j
  /\ \A v \in Servers : \A i \in DOMAIN cache[v] : ~Attempting(cache[v][i])

(* A processor has its socket for itself, and it is not being connected.     *)
DistinctOK ==
  /\ master_pipeline # NoSocket => master_pipeline # master_serial
  /\ \A s \in {master_pipeline, master_serial} : s \notin ToSet(pipeline_pool.list) \cup ToSet(serial_pool.list)
  /\ ToSet(pipeline_pool.list) \cap ToSet(serial_pool.list) = {}
  /\ \A i, j \in DOMAIN pipeline_pool.list : pipeline_pool.list[i] = pipeline_pool.list[j] => i = j
  /\ \A i, j \in DOMAIN serial_pool.list : serial_pool.list[i] = serial_pool.list[j] => i = j
HeldOK == DistinctOK /\ \A s \in held : ~Attempting(s)

(* What a handler still keeps, and a chain, belong to a request that was     *)
(* made, and are at a step there is.                                        *)
Kept(s) == Attempting(s) \/ timer[s] # "off"
AttemptOK ==
  \A s \in Sockets : Kept(s) =>
    /\ waiter[s].req \in 1..req
    /\ waiter[s].step \in 1..Len(Steps)
    /\ waiter[s].server \in Servers
ChainOK ==
  \A t \in Agents : chain[t] # NoStep => chain[t].req \in 1..req /\ chain[t].step \in 1..(Len(Steps) + 1)

(* The application asks for nothing before the last request was answered.    *)
AskedOK ==
  /\ \A r \in 1..MaxRequests : r > req => answers[r] = <<>>
  /\ \A r \in 1..req : r < req \/ app.goal # "none" => answers[r] # <<>>

(* While it disconnects it is in no chain; the pointers are cleared in order. *)
AppOK ==
  /\ app.goal # "none" => chain["app"] = NoStep
  /\ app.goal = "none" => app.clearing = <<>>
  /\ \E k \in 1..(Len(Pointers) + 1) : app.clearing = SubSeq(Pointers, k, Len(Pointers))

(* The timer is off, and the event loop ends, only for the destructor.       *)
LoopOK ==
  /\ worked_time = "off" => app.goal = "destroy"
  /\ io_returned => worked_time = "off"

(* While no timer has run out, one thread or attempt works for a request     *)
(* that is not answered, and none for one that is.                          *)
Works(t, r) == chain[t].req = r /\ r # 0
Serves(s, r) == Attempting(s) /\ waiter[s].req = r
OneWorker ==
  /\ ~(\E r \in 1..req : Works("app", r) /\ Works("loop", r))
  /\ \A r \in 1..req, t \in Agents, s \in Sockets : ~(Works(t, r) /\ Serves(s, r))
  /\ \A r \in 1..req, s, u \in Sockets : Serves(s, r) /\ Serves(u, r) => s = u
  /\ \A r \in 1..req, t \in Agents : Works(t, r) => answers[r] = <<>>
  /\ \A r \in 1..req, s \in Sockets : Serves(s, r) => answers[r] = <<>>

(* What there is when the chain is at step k: a processor for each step       *)
(* before, and no other.                                                    *)
MasterSteps == IF master_conn THEN 2 ELSE 0
UpTo(n, limit) == IF n < 0 THEN 0 ELSE IF n > limit THEN limit ELSE n
Built(k) ==
  /\ master_conn /\ k > 1 => master_pipeline # NoSocket
  /\ master_conn /\ k > 2 => master_serial # NoSocket
  /\ Len(pipeline_pool.list) = UpTo(k - 1 - MasterSteps, Len(slave_pool))
  /\ Len(serial_pool.list) = UpTo(k - 1 - MasterSteps - Len(slave_pool), Len(slave_pool))

(* A pointer that is not to be cleared any more is null, or its pool empty.   *)
Cleared(p) ==
  CASE p = "master_pipeline" -> master_pipeline = NoSocket
    [] p = "master_serial"   -> master_serial = NoSocket
    [] p = "pipeline_pool"   -> pipeline_pool.list = <<>>
    [] p = "serial_pool"     -> serial_pool.list = <<>>

BuiltOK ==
  /\ \A t \in Agents : chain[t] # NoStep => Built(chain[t].step)
  /\ \A s \in Sockets : Attempting(s) => Built(waiter[s].step)
  /\ connected => app.goal = "none" /\ req > 0 /\ answers[req] # <<>> /\ Built(Len(Steps) + 1)
  /\ req = 0 \/ app.goal # "none" => \A p \in ToSet(Pointers) \ ToSet(app.clearing) : Cleared(p)

(* The map never points further than the pool was, or will be, long.         *)
MapOK(pool) == \A i \in DOMAIN pool.map : pool.map[i] < Len(slave_pool)
MapsOK ==
  /\ req = 0 => pipeline_pool.map = <<>> /\ serial_pool.map = <<>>
  /\ MapOK(pipeline_pool) /\ MapOK(serial_pool)

(* A client without a master has none of the master's processors.            *)
MasterOK == ~master_conn => master_pipeline = NoSocket /\ master_serial = NoSocket

InTimeOK == ~late => OneWorker /\ BuiltOK /\ MapsOK /\ MasterOK

IInv ==
  /\ ConnTypeOK /\ SetupTypeOK /\ ClientTypeOK
  /\ CacheOK /\ HeldOK /\ AttemptOK /\ ChainOK /\ AskedOK /\ AppOK /\ LoopOK
  /\ TimerGuardsAttempt /\ RequestIsPending
  /\ InTimeOK /\ ConfirmedOnceInTime
=============================================================================
