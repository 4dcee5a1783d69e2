----------------------------- MODULE ConnManager -----------------------------
(***************************************************************************)
(* The connection managers of a client, one for each server, and their      *)
(* caches of sockets (conn_queue).  A connection attempt is a socket with   *)
(* two handlers on the event loop, one of async_connect and one of a timer; *)
(* both keep the socket and the callback of async_get.                     *)
(*                                                                         *)
(* A shared_ptr's use_count is who keeps the socket: the cache, a timer     *)
(* handler that has not run, or a processor (held).                        *)
(***************************************************************************)
EXTENDS Integers, SequencesExt

CONSTANTS
  Servers,      (* the servers a manager is made for                          *)
  Slow,         (* those that may take longer than the timeout                *)
  MaxSockets    (* how many sockets there may be at a time                    *)

ASSUME SocketAssumption == MaxSockets \in Nat \ {0}

Sockets == 1..MaxSockets

VARIABLES
  open,         (* the sockets that are connected and not closed              *)
  connecting,   (* the async_connect of each: "off", "waiting", "ok", "error" *)
  timer,        (* its timer: "off", "waiting", "expired", "aborted"          *)
  waiter,       (* what its callback will do: [server, req, step]             *)
  cache         (* _cache of each manager, head first                         *)

connVars == <<open, connecting, timer, waiter, cache>>

NoWaiter == [server |-> "none", req |-> 0, step |-> 0]

ConnInit ==
  /\ open = {}
  /\ connecting = [s \in Sockets |-> "off"]
  /\ timer = [s \in Sockets |-> "off"]
  /\ waiter = [s \in Sockets |-> NoWaiter]
  /\ cache = [v \in Servers |-> <<>>]

Cached == UNION {ToSet(cache[v]) : v \in Servers}

(* get_first_free: the first socket that only the cache keeps.               *)
FirstFree_Any(server, held) == {1} \cap DOMAIN cache[server]
FirstFree(server, held) ==
  {i \in DOMAIN cache[server] :
     /\ cache[server][i] \notin held /\ timer[cache[server][i]] = "off"
     /\ \A j \in 1..(i - 1) : cache[server][j] \in held \/ timer[cache[server][j]] # "off"}

(* It and those before it go to the tail: head_to_tail.                      *)
Rotated_Copies(queue, i) == SubSeq(queue, i, Len(queue)) \o SubSeq(queue, 1, i)
Rotated(queue, i) == SubSeq(queue, i + 1, Len(queue)) \o SubSeq(queue, 1, i)

(* A socket nobody keeps, for a new attempt.                                 *)
Unused(held) ==
  {s \in Sockets : s \notin held \cup Cached /\ connecting[s] = "off" /\ timer[s] = "off"}

(* async_get, when the cache has nothing free.                               *)
StartAttempt(server, req, step, held) ==
  LET s == Min(Unused(held))
  IN /\ Unused(held) # {}
     /\ connecting' = [connecting EXCEPT ![s] = "waiting"]
     /\ timer' = [timer EXCEPT ![s] = "waiting"]
     /\ waiter' = [waiter EXCEPT ![s] = [server |-> server, req |-> req, step |-> step]]
     /\ UNCHANGED <<open, cache>>

(* steady_timer::cancel: a handler that is already in the queue runs as if   *)
(* nothing had been cancelled.                                              *)
Cancelled_Not(s) == timer[s]
Cancelled(s) == IF timer[s] = "waiting" THEN "aborted" ELSE timer[s]

(* The callback goes with the last handler that keeps it. *)
Dropped(s) == waiter' = [waiter EXCEPT ![s] = IF connecting'[s] = "off" /\ timer'[s] = "off" THEN NoWaiter ELSE @]

(* The handlers, without what the callback does.                            *)
ConnectFailed(s) ==
  /\ connecting[s] = "error"
  /\ connecting' = [connecting EXCEPT ![s] = "off"]
  /\ timer' = [timer EXCEPT ![s] = Cancelled(s)]
  /\ Dropped(s)
  /\ UNCHANGED <<open, cache>>

ConnectDone(s) ==
  /\ connecting[s] = "ok"
  /\ connecting' = [connecting EXCEPT ![s] = "off"]
  /\ timer' = [timer EXCEPT ![s] = Cancelled(s)]
  /\ cache' = [cache EXCEPT ![waiter[s].server] = Append(@, s)]
  /\ Dropped(s)

TimerAborted(s) ==
  /\ timer[s] = "aborted"
  /\ timer' = [timer EXCEPT ![s] = "off"]
  /\ UNCHANGED <<open, connecting, cache>>
  /\ Dropped(s)

(* soc_p->cancel(): an attempt that still waits ends with an error.          *)
TimedOut(s) ==
  /\ timer[s] = "expired"
  /\ timer' = [timer EXCEPT ![s] = "off"]
  /\ connecting' = [connecting EXCEPT ![s] = IF @ = "waiting" THEN "error" ELSE @]
  /\ Dropped(s)
  /\ UNCHANGED <<open, cache>>

(* The network and the clock. *)
Connects(s) ==
  /\ connecting[s] = "waiting"
  /\ connecting' = [connecting EXCEPT ![s] = "ok"]
  /\ open' = open \cup {s}
  /\ UNCHANGED <<timer, waiter, cache>>

Refuses(s) ==
  /\ connecting[s] = "waiting"
  /\ connecting' = [connecting EXCEPT ![s] = "error"]
  /\ UNCHANGED <<open, timer, waiter, cache>>

TimerExpires(s) ==
  /\ timer[s] = "waiting"
  /\ waiter[s].server \in Slow
  /\ timer' = [timer EXCEPT ![s] = "expired"]
  /\ UNCHANGED <<open, connecting, waiter, cache>>
=============================================================================
