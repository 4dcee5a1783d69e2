---------------------------- MODULE TwoLockQueue ----------------------------
(***************************************************************************)
(* threadsafe::queue: a linked list with a dummy node at its tail, a lock  *)
(* for each end and an atomic size.  push holds the tail lock, try_pop the *)
(* head lock and, for the moment of reading _tail, both; empty holds the   *)
(* head lock.                                                              *)
(*                                                                         *)
(* chain lists the nodes from _head to _tail.  It is a history variable:   *)
(* no step reads it.                                                       *)
(***************************************************************************)
EXTENDS Integers, Sequences

CONSTANTS
  Threads,   (* the threads that share the queue                            *)
  NoThread,  (* nobody: a lock is free                                      *)
  Node,      (* the heap, which bounds the nodes allocated at a time        *)
  NoNode,    (* a pointer that nobody has set                               *)
  Value,     (* the values pushed                                           *)
  NoValue    (* what a node or a result holds before                        *)

ASSUME NamesAssumption ==
  /\ NoThread \notin Threads
  /\ NoNode \notin Node
  /\ NoValue \notin Value

VARIABLES
  pc,        (* where each thread is                                        *)
  arg,       (* the value each thread pushes                                *)
  mine,      (* p of push, old_head of try_pop                              *)
  seen,      (* what get_tail returned to each thread                       *)
  res,       (* the result of each thread's last try_pop                    *)
  answer,    (* the result of each thread's last empty                      *)
  data, next,(* the fields of the nodes                                     *)
  heap,      (* the nodes that are allocated                                *)
  head,      (* _head                                                       *)
  tail,      (* _tail                                                       *)
  size,      (* _size                                                       *)
  head_mux,  (* _head_mux: its holder                                       *)
  tail_mux,  (* _tail_mux: its holder                                       *)
  chain      (* the nodes from head to tail                                 *)

localVars == <<pc, arg, mine, seen, res, answer>>
listVars  == <<data, next, head, tail, chain>>
lockVars  == <<head_mux, tail_mux>>
vars == <<localVars, listVars, heap, size, lockVars>>

PushLabels == {"tail_lock", "data", "next", "tail", "size"}
PopLabels  == {"head_lock", "get_tail", "compare", "pop_head", "dec", "move", "delete"}

Goto(t, label) == pc' = [pc EXCEPT ![t] = label]

-----------------------------------------------------------------------------
Init ==
  /\ pc = [t \in Threads |-> "idle"]
  /\ arg = [t \in Threads |-> NoValue]
  /\ mine = [t \in Threads |-> NoNode]
  /\ seen = [t \in Threads |-> NoNode]
  /\ res = [t \in Threads |-> NoValue]
  /\ answer = [t \in Threads |-> TRUE]
  /\ data = [n \in Node |-> NoValue]
  /\ next = [n \in Node |-> NoNode]
  /\ head \in Node
  /\ tail = head
  /\ heap = {head}
  /\ size = 0
  /\ head_mux = NoThread
  /\ tail_mux = NoThread
  /\ chain = <<head>>

-----------------------------------------------------------------------------
(* push *)

(* The node is allocated before the lock is taken, and its next is not set. *)
CallPush(t, v, p) ==
  /\ pc[t] = "idle"
  /\ p \in Node \ heap
  /\ heap' = heap \cup {p}
  /\ data' = [data EXCEPT ![p] = NoValue]
  /\ next' = [next EXCEPT ![p] = NoNode]
  /\ arg' = [arg EXCEPT ![t] = v]
  /\ mine' = [mine EXCEPT ![t] = p]
  /\ Goto(t, "tail_lock")
  /\ UNCHANGED <<seen, res, answer, head, tail, chain, size, lockVars>>

LockTail(t) ==
  /\ pc[t] = "tail_lock"
  /\ tail_mux = NoThread
  /\ tail_mux' = t
  /\ Goto(t, "data")
  /\ UNCHANGED <<arg, mine, seen, res, answer, listVars, heap, size, head_mux>>

SetData(t) ==
  /\ pc[t] = "data"
  /\ data' = [data EXCEPT ![tail] = arg[t]]
  /\ Goto(t, "next")
  /\ UNCHANGED <<arg, mine, seen, res, answer, next, head, tail, chain, heap, size, lockVars>>

SetNext(t) ==
  /\ pc[t] = "next"
  /\ next' = [next EXCEPT ![tail] = mine[t]]
  /\ Goto(t, "tail")
  /\ UNCHANGED <<arg, mine, seen, res, answer, data, head, tail, chain, heap, size, lockVars>>

SetTail(t) ==
  /\ pc[t] = "tail"
  /\ tail' = mine[t]
  /\ chain' = Append(chain, mine[t])
  /\ Goto(t, "size")
  /\ UNCHANGED <<arg, mine, seen, res, answer, data, next, head, heap, size, lockVars>>

(* ++_size, and the lock is released. *)
CountUp(t) ==
  /\ pc[t] = "size"
  /\ size' = size + 1
  /\ tail_mux' = NoThread
  /\ mine' = [mine EXCEPT ![t] = NoNode]
  /\ arg' = [arg EXCEPT ![t] = NoValue]
  /\ Goto(t, "idle")
  /\ UNCHANGED <<seen, res, answer, listVars, heap, head_mux>>

-----------------------------------------------------------------------------
(* try_pop *)

CallTryPop(t) ==
  /\ pc[t] = "idle"
  /\ Goto(t, "head_lock")
  /\ UNCHANGED <<arg, mine, seen, res, answer, listVars, heap, size, lockVars>>

LockHead_Shared(t) ==
  /\ pc[t] = "head_lock"
  /\ head_mux' = t
  /\ Goto(t, "get_tail")
  /\ UNCHANGED <<arg, mine, seen, res, answer, listVars, heap, size, tail_mux>>
LockHead(t) ==
  /\ pc[t] = "head_lock"
  /\ head_mux = NoThread
  /\ head_mux' = t
  /\ Goto(t, "get_tail")
  /\ UNCHANGED <<arg, mine, seen, res, answer, listVars, heap, size, tail_mux>>

(* get_tail takes and releases the tail lock. *)
GetTail_NoLock(t) ==
  /\ pc[t] = "get_tail"
  /\ seen' = [seen EXCEPT ![t] = tail]
  /\ Goto(t, "compare")
  /\ UNCHANGED <<arg, mine, res, answer, listVars, heap, size, lockVars>>
GetTail(t) ==
  /\ pc[t] = "get_tail"
  /\ tail_mux = NoThread
  /\ seen' = [seen EXCEPT ![t] = tail]
  /\ Goto(t, "compare")
  /\ UNCHANGED <<arg, mine, res, answer, listVars, heap, size, lockVars>>

(* An empty list: the lock is released and try_pop fails. *)
PopFails(t) ==
  /\ pc[t] = "compare"
  /\ head = seen[t]
  /\ head_mux' = NoThread
  /\ seen' = [seen EXCEPT ![t] = NoNode]
  /\ res' = [res EXCEPT ![t] = NoValue]
  /\ Goto(t, "idle")
  /\ UNCHANGED <<arg, mine, answer, listVars, heap, size, tail_mux>>

PopGoesOn(t) ==
  /\ pc[t] = "compare"
  /\ head # seen[t]
  /\ seen' = [seen EXCEPT ![t] = NoNode]
  /\ Goto(t, "pop_head")
  /\ UNCHANGED <<arg, mine, res, answer, listVars, heap, size, lockVars>>

PopHead_Unlocks(t) ==
  /\ pc[t] = "pop_head"
  /\ mine' = [mine EXCEPT ![t] = head]
  /\ head' = next[head]
  /\ chain' = Tail(chain)
  /\ head_mux' = NoThread
  /\ Goto(t, "dec")
  /\ UNCHANGED <<arg, seen, res, answer, data, next, tail, heap, size, tail_mux>>
PopHead(t) ==
  /\ pc[t] = "pop_head"
  /\ mine' = [mine EXCEPT ![t] = head]
  /\ head' = next[head]
  /\ chain' = Tail(chain)
  /\ Goto(t, "dec")
  /\ UNCHANGED <<arg, seen, res, answer, data, next, tail, heap, size, lockVars>>

(* --_size, and the lock is released. *)
CountDown(t) ==
  /\ pc[t] = "dec"
  /\ size' = size - 1
  /\ head_mux' = NoThread
  /\ Goto(t, "move")
  /\ UNCHANGED <<arg, mine, seen, res, answer, listVars, heap, tail_mux>>

(* The value is moved out of the node after the lock is released. *)
MoveData(t) ==
  /\ pc[t] = "move"
  /\ res' = [res EXCEPT ![t] = data[mine[t]]]
  /\ data' = [data EXCEPT ![mine[t]] = NoValue]
  /\ Goto(t, "delete")
  /\ UNCHANGED <<arg, mine, seen, answer, next, head, tail, chain, heap, size, lockVars>>

DeleteNode(t) ==
  /\ pc[t] = "delete"
  /\ heap' = heap \ {mine[t]}
  /\ mine' = [mine EXCEPT ![t] = NoNode]
  /\ Goto(t, "idle")
  /\ UNCHANGED <<arg, seen, res, answer, listVars, size, lockVars>>

-----------------------------------------------------------------------------
(* empty: the head lock is taken, _size read, and the lock released. *)
Empty(t) ==
  /\ pc[t] = "idle"
  /\ head_mux = NoThread
  /\ answer' = [answer EXCEPT ![t] = (size = 0)]
  /\ UNCHANGED <<pc, arg, mine, seen, res, listVars, heap, size, lockVars>>

-----------------------------------------------------------------------------
Next ==
  \/ \E t \in Threads, v \in Value, p \in Node : CallPush(t, v, p)
  \/ \E t \in Threads : LockTail(t)
  \/ \E t \in Threads : SetData(t)
  \/ \E t \in Threads : SetNext(t)
  \/ \E t \in Threads : SetTail(t)
  \/ \E t \in Threads : CountUp(t)
  \/ \E t \in Threads : CallTryPop(t)
  \/ \E t \in Threads : LockHead(t)
  \/ \E t \in Threads : GetTail(t)
  \/ \E t \in Threads : PopFails(t)
  \/ \E t \in Threads : PopGoesOn(t)
  \/ \E t \in Threads : PopHead(t)
  \/ \E t \in Threads : CountDown(t)
  \/ \E t \in Threads : MoveData(t)
  \/ \E t \in Threads : DeleteNode(t)
  \/ \E t \in Threads : Empty(t)

Spec == Init /\ [][Next]_vars

-----------------------------------------------------------------------------
TypeOK ==
  /\ pc \in [Threads -> {"idle"} \cup PushLabels \cup PopLabels]
  /\ arg \in [Threads -> Value \cup {NoValue}]
  /\ mine \in [Threads -> Node \cup {NoNode}]
  /\ seen \in [Threads -> Node \cup {NoNode}]
  /\ res \in [Threads -> Value \cup {NoValue}]
  /\ answer \in [Threads -> BOOLEAN]
  /\ data \in [Node -> Value \cup {NoValue}]
  /\ next \in [Node -> Node \cup {NoNode}]
  /\ heap \in SUBSET Node
  /\ head \in Node
  /\ tail \in Node
  /\ size \in Nat
  /\ head_mux \in Threads \cup {NoThread}
  /\ tail_mux \in Threads \cup {NoThread}
  /\ chain \in Seq(Node)

(* A push takes effect when it counts its node, a try_pop that succeeds when *)
(* it moves _head, one that fails when it reads _tail.                      *)
Uncounted == IF \E t \in Threads : pc[t] = "size" THEN 1 ELSE 0
Items == [i \in 1..(Len(chain) - 1 - Uncounted) |-> data[chain[i]]]
Got == [t \in Threads |->
          IF pc[t] \in {"dec", "move"} THEN data[mine[t]]
          ELSE IF pc[t] = "compare" /\ head = seen[t] THEN NoValue
          ELSE res[t]]

Fifo == INSTANCE FifoQueue WITH items <- Items, got <- Got

(* The queue with two locks is a first-in first-out queue whose operations   *)
(* are indivisible (queue.hpp), which is how the processors use it.         *)
ImplementsFifo == Fifo!Spec

(* The list the pointers make is the chain: nothing is lost, skipped or      *)
(* linked twice.                                                            *)
ChainIsList ==
  /\ chain # <<>>
  /\ head = chain[1]
  /\ tail = chain[Len(chain)]
  /\ \A i \in 1..(Len(chain) - 1) : next[chain[i]] = chain[i + 1]

(* No thread is about to use, or to delete, a node that is not allocated,    *)
(* whatever the other end of the list does.                                 *)
NoUseAfterFree ==
  /\ head \in heap /\ tail \in heap
  /\ \A t \in Threads : mine[t] # NoNode => mine[t] \in heap

(* A node is in the list or in the hands of the one thread that adds or      *)
(* deletes it.                                                              *)
NoLeak ==
  \A n \in heap :
    \/ \E i \in DOMAIN chain : chain[i] = n
    \/ \E t \in Threads : mine[t] = n

(* With the types, the list and the heap are sound together: the pointers    *)
(* make the chain, no node in use was deleted, and no other is left (push,  *)
(* try_pop).                                                               *)
ListIsSound == TypeOK /\ ChainIsList /\ NoUseAfterFree /\ NoLeak

(* Whoever holds the head lock without being inside pop_head reads from      *)
(* _size how many values a try_pop could take: empty() tells the truth, and *)
(* the counter, changed under two different locks, never wraps.             *)
SizeCountsItems ==
  head_mux = NoThread => size = Len(Items)

-----------------------------------------------------------------------------
(* The inductive invariant, by which the properties are proved. *)

(* A lock is held from the step that takes it to the one that releases it.   *)
TailHeld == {"data", "next", "tail", "size"}
HeadHeld == {"get_tail", "compare", "pop_head", "dec"}
LocksOK ==
  \A t \in Threads :
    /\ pc[t] \in TailHeld <=> tail_mux = t
    /\ pc[t] \in HeadHeld <=> head_mux = t

(* A thread has a node in its hands from the allocation until the tail lock  *)
(* is released, and from pop_head until the node is deleted; nobody else has *)
(* it, and it is not in the list, but for the moment between _tail = p and   *)
(* the release.                                                             *)
Unlinked == {"tail_lock", "data", "next", "tail", "dec", "move", "delete"}
InChain(n) == \E i \in DOMAIN chain : chain[i] = n
HandsOK ==
  /\ \A t \in Threads : mine[t] # NoNode <=> pc[t] \in Unlinked \cup {"size"}
  /\ \A t \in Threads : pc[t] \in Unlinked => ~InChain(mine[t])
  /\ \A t \in Threads : pc[t] = "size" => mine[t] = tail
  /\ \A t, u \in Threads : mine[t] = mine[u] /\ mine[t] # NoNode => t = u

(* The nodes of the list are allocated, and none is in it twice. *)
ChainOK ==
  /\ \A i \in DOMAIN chain : chain[i] \in heap
  /\ \A i, j \in DOMAIN chain : chain[i] = chain[j] => i = j

(* What a push has written so far is in the list, and is still what it wrote. *)
PushOK ==
  \A t \in Threads :
    /\ pc[t] \in PushLabels => arg[t] \in Value
    /\ pc[t] \in {"next", "tail"} => data[tail] = arg[t]
    /\ pc[t] = "tail" => next[tail] = mine[t]
    /\ pc[t] = "size" => Len(chain) > 1 /\ data[chain[Len(chain) - 1]] = arg[t]

(* The tail that a try_pop has seen is a node of the list that follows        *)
(* counted ones only, and a try_pop that goes on takes one of those.         *)
PopOK ==
  \A t \in Threads :
    /\ pc[t] = "compare" => \E i \in 1..(Len(chain) - Uncounted) : chain[i] = seen[t]
    /\ pc[t] = "pop_head" => Len(chain) - Uncounted > 1

(* The size lags behind the list while a try_pop is between pop_head and      *)
(* the decrement.                                                           *)
Untaken == IF \E t \in Threads : pc[t] = "dec" THEN 1 ELSE 0
SizeOK == size = Len(chain) - 1 - Uncounted + Untaken

IInv == ListIsSound /\ LocksOK /\ HandsOK /\ ChainOK /\ PushOK /\ PopOK /\ SizeOK
=============================================================================
