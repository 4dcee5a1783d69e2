-------------------------- MODULE SerialInvariant --------------------------
(***************************************************************************)
(* The inductive invariant of Serial, conjunct by conjunct.  A run checks  *)
(* it on a small instance, SerialProofs proves it and derives the          *)
(* properties from it.                                                     *)
(***************************************************************************)
EXTENDS Serial

(* A thread has a query from the call of push() to its return, and nobody    *)
(* but Loop comes to __req_poc without one.  What is taken from a queue is   *)
(* in the hands of the thread that took it.                                 *)
HandsOK ==
  /\ \A t \in Clients : arg[t] # NoQuery <=> pc[t] # "idle"
  /\ pc[Loop] \in {"enter", "lock", "wait"} => arg[Loop] # NoQuery
  /\ arg[Loop] # NoQuery => pc[Loop] \in {"enter", "lock", "wait", "cas"}
  /\ q_tmp # NoQuery <=> \E t \in Threads : pc[t] = "put"
  /\ cur.cb # NoQuery <=> pc[Loop] = "callback"

(* A push that a callback makes belongs to the batch whose replies are being *)
(* handled: it finds _req_proc_running set and starts none.  No batch is     *)
(* built after an error.                                                    *)
Batching(t) == pc[t] \in BatchLabels \/ (t = Loop /\ arg[Loop] # NoQuery)
BatchOK ==
  /\ \A t, u \in Threads : Batching(t) /\ Batching(u) => t = u
  /\ (\E t \in Threads : Batching(t)) => Quiet
  /\ ~(reading /\ writing) /\ (reading \/ writing => HandlersQuiet)
  /\ \A i, j \in DOMAIN ioq : IsIO(ioq[i]) /\ IsIO(ioq[j]) => i = j
  /\ (\E t \in Threads : Batching(t)) \/ ~Quiet => running /\ ~error
  /\ error => running

(* What the kernel has not taken belongs to a batch that is being built or   *)
(* written, or whose write has failed.                                      *)
BuildLabels == {"take", "put", "notify", "write"}
MultibufOK ==
  /\ multibuf # <<>> =>
       \/ \E t \in Threads : pc[t] \in BuildLabels
       \/ writing \/ \E i \in DOMAIN ioq : ioq[i] = "write_err"
       \/ pc[Loop] = "error" \/ error
  /\ \A t \in Threads : pc[t] \in {"take", "put"} => Len(multibuf) <= MaxBatch

(* While the queues are drained Loop has the mutex, and nobody waits. *)
DrainOK ==
  /\ mux = Loop <=> pc[Loop] = "drain"
  /\ pc[Loop] = "drain" => error /\ \A t \in Threads : pc[t] # "wait"

(* The reply in hand is that of the callback in hand. *)
CallbackOK == pc[Loop] = "callback" => cur.cb = cur.reply

(* Only an error stops the processor between a push's test of                *)
(* _stop_in_progress and the queue.                                         *)
StopOK ==
  /\ \A t \in Threads : pc[t] \in {"lock", "wait"} => (stop => error)
  /\ error => stop

(* A query is in one place: with the thread that pushes it, once in the line *)
(* of accepted queries, or finished.                                        *)
Unaccepted == {"enter", "lock", "wait"}
UniqueOK ==
  /\ \A t, u \in Threads : arg[t] = arg[u] /\ arg[t] # NoQuery => t = u
  /\ \A t \in Threads : pc[t] \in Unaccepted => outcome[arg[t]] = Uncalled /\ ~In(arg[t], Line)
  /\ \A i \in DOMAIN Line : outcome[Line[i]] = Uncalled
  /\ \A i, j \in DOMAIN Line : Line[i] = Line[j] => i = j

IInv ==
  /\ TypeOK
  /\ HandsOK
  /\ BatchOK
  /\ MultibufOK
  /\ DrainOK
  /\ CallbackOK
  /\ StopOK
  /\ UniqueOK
  /\ SendedMatchesWire
  /\ OwnAnswer
  /\ WaiterHasCause
  /\ SendedDrains
=============================================================================
