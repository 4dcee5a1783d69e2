----------------------------- MODULE FifoQueue -----------------------------
(***************************************************************************)
(* What threadsafe::queue promises to the threads that share one: push     *)
(* adds at the end, try_pop takes from the front and fails only on an      *)
(* empty queue, and empty tells the truth, each of them in one indivisible *)
(* step somewhere between its call and its return.                         *)
(***************************************************************************)
EXTENDS Sequences

CONSTANTS
  Threads,   (* the threads that share the queue      *)
  Value,     (* the values                            *)
  NoValue    (* what a failed try_pop leaves          *)

VARIABLES
  items,     (* the values in the queue, oldest first *)
  got,       (* the result of each thread's try_pop   *)
  answer     (* the result of each thread's empty     *)

vars == <<items, got, answer>>

Init ==
  /\ items = <<>>
  /\ got = [t \in Threads |-> NoValue]
  /\ answer = [t \in Threads |-> TRUE]

Push(v) ==
  /\ items' = Append(items, v)
  /\ UNCHANGED <<got, answer>>

Pop(t) ==
  /\ items # <<>>
  /\ got' = [got EXCEPT ![t] = Head(items)]
  /\ items' = Tail(items)
  /\ UNCHANGED answer

PopNothing(t) ==
  /\ items = <<>>
  /\ got' = [got EXCEPT ![t] = NoValue]
  /\ UNCHANGED <<items, answer>>

Empty(t) ==
  /\ answer' = [answer EXCEPT ![t] = (items = <<>>)]
  /\ UNCHANGED <<items, got>>

Next ==
  \/ \E v \in Value : Push(v)
  \/ \E t \in Threads : Pop(t) \/ PopNothing(t) \/ Empty(t)

Spec == Init /\ [][Next]_vars
=============================================================================
