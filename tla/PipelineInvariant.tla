------------------------- MODULE PipelineInvariant -------------------------
(***************************************************************************)
(* The inductive invariant of Pipeline, conjunct by conjunct.  Runs check  *)
(* it on small instances, PipelineProofs and PipelineEnds prove it         *)
(* and derive the properties from it.                                      *)
(***************************************************************************)
EXTENDS Pipeline

PushingLabels == {"lock", "wait", "relock", "push_cb", "add_query"}

(* A thread inside push() has a query, and a callback is in hand exactly     *)
(* while it is called.                                                      *)
ArgOK ==
  /\ \A t \in Threads : pc[t] \in PushingLabels => arg[t] \in Query
  /\ cur.cb \in Query <=> pc[Loop] = "callback"

HasOk(q) == \E i \in DOMAIN q : q[i] = "write_ok"

(* The bytes a write reports are bytes of the frozen buffer, and nobody      *)
(* forgets them before the handler of the write has run.                    *)
BytesOK ==
  /\ bytes_sent # 0 => writing = "done" \/ HasOk(ioq) \/ pc[Loop] = "sent"
  /\ ~have_frozen => frozen = <<>> /\ sended = 0
  /\ ~error => sended + bytes_sent <= Len(frozen)

(* Who is between the test for room and the end of add_query, and who       *)
(* drains the callbacks, holds _buff_mux.                                   *)
Admitted == {"push_cb", "add_query"}
MutexOK ==
  /\ \A t \in Threads : pc[t] \in Admitted => mux = t
  /\ pc[Loop] = "drain" => mux = Loop /\ error

(* Callbacks and queries are in step until the first error. *)
OrderOK ==
  ~error =>
    /\ \A t \in Threads : pc[t] = "add_query" => cb_queue = Append(Flow, arg[t])
    /\ (\A t \in Threads : pc[t] # "add_query") => cb_queue = Flow
    /\ pc[Loop] = "callback" => cur.cb = cur.reply
    /\ OwnAnswer

(* The room a thread was admitted for is still there. *)
RoomOK ==
  /\ \A t \in Threads : pc[t] \in Admitted => Len(buff) + 1 < MaxBuff
  /\ BufferWithinLimit

(* Nobody is inside push() when the destructor runs, so that the promise is *)
(* set by the very last reply.                                              *)
StopOK ==
  /\ stop => error \/ owner # "alive"
  /\ owner # "alive" =>
       stop /\ \A t \in Threads : pc[t] \notin {"wait", "relock", "push_cb", "add_query"}
  /\ promise /\ ~error => owner # "alive" /\ cb_queue = <<>>
  /\ StopDrains

IInv ==
  /\ TypeOK
  /\ ArgOK
  /\ OneWriter
  /\ BytesOK
  /\ MutexOK
  /\ OrderOK
  /\ NoSyncError
  /\ RoomOK
  /\ StopOK

(* A query is in one place: with the thread that pushes it, once in the      *)
(* callback queue, with the callback being called, or finished.             *)
Unaccepted == {"lock", "wait", "relock", "push_cb"}
UniqueOK ==
  /\ \A t, u \in Threads : arg[t] = arg[u] /\ arg[t] # NoQuery => t = u
  /\ \A t \in Threads : pc[t] \in Unaccepted =>
       outcome[arg[t]] = Uncalled /\ ~Queued(arg[t]) /\ cur.cb # arg[t]
  /\ \A q \in Query : Queued(q) \/ cur.cb = q => outcome[q] = Uncalled
  /\ \A i, j \in DOMAIN cb_queue : cb_queue[i] = cb_queue[j] => i = j
  /\ ~Queued(cur.cb)

(* A connection that cannot break reports no error. *)
NoBreakOK ==
  ~CanBreak =>
    /\ conn = "up"
    /\ ~error
    /\ pc[Loop] \notin {"error", "drain"}
    /\ \A i \in DOMAIN ioq : ioq[i] \notin {"read_err", "write_err"}

(* What implementing CallbackService rests on, in addition to IInv. *)
ServiceInv == IInv /\ UniqueOK /\ NoBreakOK

-----------------------------------------------------------------------------
(* How a processor ends, and what keeps the timer running.                  *)

IsRead(e) == e \in {"read_ok", "read_err"}
HasRead(q) == \E i \in DOMAIN q : IsRead(q[i])
OneRead(q) == \A i, j \in DOMAIN q : IsRead(q[i]) /\ IsRead(q[j]) => i = j

(* The event loop is in resp_handler, or in a push() from a callback of it. *)
ReadLabels == {"parse", "callback", "cb_done", "tail", "disarm", "cancel"}
Replying == pc[Loop] \in ReadLabels \/ arg[Loop] # NoQuery

(* There is one read: outstanding, in the queue, or being handled. *)
ReaderOK ==
  /\ arg[Loop] # NoQuery => pc[Loop] \in PushLabels
  /\ OneRead(ioq)
  /\ reading => ~HasRead(ioq)
  /\ Replying => ~reading /\ ~HasRead(ioq)

HasErr(q) == \E i \in DOMAIN q : q[i] = "write_err"

(* A write that has not succeeded has a part of the frozen block before it. *)
WriteLeft ==
  ~error /\ (writing = "pending" \/ HasErr(ioq)) =>
    sended < Len(frozen) /\ bytes_sent = 0

(* After the last reply of a processor that stops nothing is left that could *)
(* still report an error: no read, and no write.                            *)
LastReplyOK ==
  promise /\ ~error =>
    /\ ~reading /\ ~HasRead(ioq) /\ ~Replying /\ pc[Loop] # "error"
    /\ writing # "pending" /\ ~HasErr(ioq)

(* soc_error_callbacks runs after __socket_error_hendler has closed the      *)
(* socket and stopped the processor.                                        *)
ClosedOK ==
  /\ error => stop /\ conn = "closed"
  /\ pc[Loop] = "drain" => error

(* A write that has put queries on the wire arms the timer when it is        *)
(* reported; resp_handler, once it has decided to cancel the timer, cancels *)
(* it before such a write is reported.                                      *)
HasTimer(q) == \E i \in DOMAIN q : q[i] = "timer"
Reporting == writing = "done" \/ HasOk(ioq)
TimedOK ==
  ~error /\ IsRunning /\ wire # <<>> =>
    /\ timer \/ HasTimer(ioq) \/ Reporting \/ pc[Loop] = "sent"
    /\ pc[Loop] \in {"disarm", "cancel"} => Reporting

EndOK == ReaderOK /\ WriteLeft /\ LastReplyOK /\ ClosedOK /\ TimedOK

(* While nobody waits for room, nobody is inside push() when a connection is *)
(* found lost, and no callback comes after the error.                       *)
NobodyWaits == \A t \in Threads : pc[t] \notin {"wait", "relock"}
LostOK ==
  error =>
    /\ \A t \in Threads : pc[t] \notin Admitted
    /\ pc[Loop] # "drain" => cb_queue = <<>>
    /\ pc[Loop] \notin {"callback", "cb_done"} /\ arg[Loop] = NoQuery

(* What the end of a processor with room for every query rests on. *)
RoomyInv == NobodyWaits /\ LostOK /\ OwnAnswer /\ PromiseOnce
=============================================================================
