------------------------- MODULE TwoLockQueueProofs -------------------------
(***************************************************************************)
(* Theorems about threadsafe::queue for every number of threads, nodes and *)
(* values: the list is never broken, and the queue implements FifoQueue.   *)
(***************************************************************************)
EXTENDS TwoLockQueue, SequenceFacts, TLAPS

USE NamesAssumption DEF Goto, vars, localVars, listVars, lockVars

(* Exactly one thread is about to count a node, if any. *)
LEMMA UncountedFacts ==
  ASSUME TypeOK, LocksOK
  PROVE  /\ Uncounted \in {0, 1}
         /\ \A t \in Threads : pc[t] = "size" => Uncounted = 1
         /\ \A t \in Threads : pc[t] \in {"data", "next", "tail"} => Uncounted = 0
         /\ tail_mux = NoThread => Uncounted = 0
BY DEF TypeOK, LocksOK, TailHeld, Uncounted

(* Exactly one thread has taken a node that is still counted, if any. *)
LEMMA UntakenFacts ==
  ASSUME TypeOK, LocksOK
  PROVE  /\ Untaken \in {0, 1}
         /\ \A t \in Threads : pc[t] = "dec" => Untaken = 1
         /\ \A t \in Threads : pc[t] \in {"get_tail", "compare", "pop_head"} => Untaken = 0
         /\ head_mux = NoThread => Untaken = 0
BY DEF TypeOK, LocksOK, HeadHeld, Untaken

(* Every step keeps the locks with the threads that are inside them. *)
LEMMA LocksStep ==
  ASSUME TypeOK, LocksOK, [Next]_vars
  PROVE  LocksOK'
<1> USE DEF TypeOK, LocksOK, TailHeld, HeadHeld
<1>1. CASE \E t \in Threads, v \in Value, p \in Node : CallPush(t, v, p)
  BY <1>1 DEF CallPush
<1>2. CASE \E t \in Threads : LockTail(t)
  BY <1>2 DEF LockTail
<1>3. CASE \E t \in Threads : SetData(t)
  BY <1>3 DEF SetData
<1>4. CASE \E t \in Threads : SetNext(t)
  BY <1>4 DEF SetNext
<1>5. CASE \E t \in Threads : SetTail(t)
  BY <1>5 DEF SetTail
<1>6. CASE \E t \in Threads : CountUp(t)
  BY <1>6 DEF CountUp
<1>7. CASE \E t \in Threads : CallTryPop(t)
  BY <1>7 DEF CallTryPop
<1>8. CASE \E t \in Threads : LockHead(t)
  BY <1>8 DEF LockHead
<1>9. CASE \E t \in Threads : GetTail(t)
  BY <1>9 DEF GetTail
<1>10. CASE \E t \in Threads : PopFails(t)
  BY <1>10 DEF PopFails
<1>11. CASE \E t \in Threads : PopGoesOn(t)
  BY <1>11 DEF PopGoesOn
<1>12. CASE \E t \in Threads : PopHead(t)
  BY <1>12 DEF PopHead
<1>13. CASE \E t \in Threads : CountDown(t)
  BY <1>13 DEF CountDown
<1>14. CASE \E t \in Threads : MoveData(t)
  BY <1>14 DEF MoveData
<1>15. CASE \E t \in Threads : DeleteNode(t)
  BY <1>15 DEF DeleteNode
<1>16. CASE \E t \in Threads : Empty(t)
  BY <1>16 DEF Empty
<1>17. CASE UNCHANGED vars
  BY <1>17
<1> QED
  BY <1>1, <1>2, <1>3, <1>4, <1>5, <1>6, <1>7, <1>8, <1>9, <1>10, <1>11, <1>12, <1>13,
     <1>14, <1>15, <1>16, <1>17 DEF Next

(* Where the list has a node to take, its second node is the next of _head. *)
LEMMA SecondNode ==
  ASSUME TypeOK, ChainIsList, Len(chain) > 1
  PROVE  /\ next[head] = chain[2] /\ next[head] \in Node
         /\ Tail(chain) \in Seq(Node) /\ Len(Tail(chain)) = Len(chain) - 1
         /\ \A i \in 1..Len(chain) - 1 : Tail(chain)[i] = chain[i + 1]
BY DEF TypeOK, ChainIsList

(* A node in a thread's hands is a node. *)
LEMMA MineIsNode ==
  ASSUME TypeOK, HandsOK, NEW t \in Threads, pc[t] \in Unlinked \cup {"size"}
  PROVE  mine[t] \in Node
BY DEF TypeOK, HandsOK

(* A list from which a try_pop takes has a node to take. *)
LEMMA PopHasNode ==
  ASSUME TypeOK, LocksOK, PopOK, NEW t \in Threads, pc[t] = "pop_head"
  PROVE  Len(chain) > 1
<1>1. Uncounted \in {0, 1}
  BY UncountedFacts
<1> QED
  BY <1>1 DEF PopOK, TypeOK

(* The list holds its dummy beside the node that a push has yet to count. *)
LEMMA DummyIsThere ==
  ASSUME TypeOK, ChainIsList, PushOK
  PROVE  Len(chain) - 1 - Uncounted \in Nat
BY DEF TypeOK, ChainIsList, PushOK, Uncounted

(* Every step keeps every variable in its type. *)
LEMMA TypeStep ==
  ASSUME IInv, [Next]_vars
  PROVE  TypeOK'
<1> USE DEF IInv, ListIsSound
<1>0. TypeOK
  OBVIOUS
<1> USE DEF TypeOK, PushLabels, PopLabels
<1>1. CASE \E t \in Threads, v \in Value, p \in Node : CallPush(t, v, p)
  BY <1>1 DEF CallPush
<1>2. CASE \E t \in Threads : LockTail(t)
  BY <1>2 DEF LockTail
<1>3. CASE \E t \in Threads : SetData(t)
  BY <1>3 DEF SetData
<1>4. CASE \E t \in Threads : SetNext(t)
  BY <1>4 DEF SetNext
<1>5. CASE \E t \in Threads : SetTail(t)
  <2>1. PICK t \in Threads : SetTail(t)
    BY <1>5
  <2>2. mine[t] \in Node
    BY <1>0, <2>1, MineIsNode DEF SetTail, Unlinked
  <2> QED
    BY <2>1, <2>2 DEF SetTail
<1>6. CASE \E t \in Threads : CountUp(t)
  BY <1>6 DEF CountUp
<1>7. CASE \E t \in Threads : CallTryPop(t)
  BY <1>7 DEF CallTryPop
<1>8. CASE \E t \in Threads : LockHead(t)
  BY <1>8 DEF LockHead
<1>9. CASE \E t \in Threads : GetTail(t)
  BY <1>9 DEF GetTail
<1>10. CASE \E t \in Threads : PopFails(t)
  BY <1>10 DEF PopFails
<1>11. CASE \E t \in Threads : PopGoesOn(t)
  BY <1>11 DEF PopGoesOn
<1>12. CASE \E t \in Threads : PopHead(t)
  <2>1. PICK t \in Threads : PopHead(t)
    BY <1>12
  <2>2. Len(chain) > 1
    BY <1>0, <2>1, PopHasNode DEF PopHead
  <2>3. next[head] \in Node /\ Tail(chain) \in Seq(Node)
    BY <1>0, <2>2, SecondNode
  <2> QED
    BY <2>1, <2>3 DEF PopHead
<1>13. CASE \E t \in Threads : CountDown(t)
  <2>1. PICK t \in Threads : CountDown(t)
    BY <1>13
  <2>2. Untaken = 1
    BY <1>0, <2>1, UntakenFacts DEF CountDown
  <2>3. Len(chain) - 1 - Uncounted \in Nat /\ Uncounted \in {0, 1}
    BY <1>0, DummyIsThere, UncountedFacts
  <2>4. size - 1 \in Nat
    BY <2>2, <2>3 DEF SizeOK
  <2> QED
    BY <2>1, <2>4 DEF CountDown
<1>14. CASE \E t \in Threads : MoveData(t)
  <2>1. PICK t \in Threads : MoveData(t)
    BY <1>14
  <2>2. mine[t] \in Node
    BY <1>0, <2>1, MineIsNode DEF MoveData, Unlinked
  <2> QED
    BY <2>1, <2>2 DEF MoveData
<1>15. CASE \E t \in Threads : DeleteNode(t)
  BY <1>15 DEF DeleteNode
<1>16. CASE \E t \in Threads : Empty(t)
  BY <1>16 DEF Empty
<1>17. CASE UNCHANGED vars
  BY <1>17
<1> QED
  BY <1>1, <1>2, <1>3, <1>4, <1>5, <1>6, <1>7, <1>8, <1>9, <1>10, <1>11, <1>12, <1>13,
     <1>14, <1>15, <1>16, <1>17 DEF Next
(* Every step keeps the nodes in the hands of the threads apart. *)
LEMMA HandsStep ==
  ASSUME IInv, [Next]_vars
  PROVE  HandsOK'
<1> USE DEF IInv, ListIsSound, TypeOK, LocksOK, HandsOK, InChain, Unlinked, TailHeld
<1>1. CASE \E t \in Threads, v \in Value, p \in Node : CallPush(t, v, p)
  <2>1. PICK t \in Threads, v \in Value, p \in Node : CallPush(t, v, p)
    BY <1>1
  <2>2. p \notin heap /\ p # NoNode
    BY <2>1 DEF CallPush
  <2>3. \A u \in Threads : mine[u] # p
    BY <2>2 DEF NoUseAfterFree
  <2>4. \A i \in DOMAIN chain : chain[i] # p
    BY <2>2 DEF ChainOK
  <2> QED
    BY <2>1, <2>2, <2>3, <2>4 DEF CallPush
<1>2. CASE \E t \in Threads : LockTail(t)
  BY <1>2 DEF LockTail
<1>3. CASE \E t \in Threads : SetData(t)
  BY <1>3 DEF SetData
<1>4. CASE \E t \in Threads : SetNext(t)
  BY <1>4 DEF SetNext
<1>5. CASE \E t \in Threads : SetTail(t)
  <2>1. PICK t \in Threads : SetTail(t)
    BY <1>5
  <2>2. mine[t] \in Node /\ \A u \in Threads : u # t => mine[u] # mine[t] \/ mine[u] = NoNode
    BY <2>1 DEF SetTail
  <2>3. DOMAIN chain' = 1..Len(chain) + 1 /\ DOMAIN chain = 1..Len(chain)
        /\ chain'[Len(chain) + 1] = mine[t] /\ \A i \in 1..Len(chain) : chain'[i] = chain[i]
    BY <2>1, <2>2 DEF SetTail
  <2>4. \A u \in Threads : u # t => pc[u] # "size"
    BY <2>1 DEF SetTail
  <2>5. \A u \in Threads : pc'[u] \in Unlinked => ~InChain(mine[u])'
    BY <2>1, <2>2, <2>3 DEF SetTail
  <2> QED
    BY <2>1, <2>4, <2>5 DEF SetTail
<1>6. CASE \E t \in Threads : CountUp(t)
  BY <1>6 DEF CountUp
<1>7. CASE \E t \in Threads : CallTryPop(t)
  BY <1>7 DEF CallTryPop
<1>8. CASE \E t \in Threads : LockHead(t)
  BY <1>8 DEF LockHead
<1>9. CASE \E t \in Threads : GetTail(t)
  BY <1>9 DEF GetTail
<1>10. CASE \E t \in Threads : PopFails(t)
  BY <1>10 DEF PopFails
<1>11. CASE \E t \in Threads : PopGoesOn(t)
  BY <1>11 DEF PopGoesOn
<1>12. CASE \E t \in Threads : PopHead(t)
  <2>1. PICK t \in Threads : PopHead(t)
    BY <1>12
  <2>2. Len(chain) > 1
    BY <2>1, PopHasNode DEF PopHead
  <2>3. DOMAIN chain = 1..Len(chain) /\ DOMAIN chain' = 1..Len(chain) - 1
        /\ \A i \in 1..Len(chain) - 1 : chain'[i] = chain[i + 1]
    BY <2>1, <2>2 DEF PopHead
  <2>4. head = chain[1] /\ tail = chain[Len(chain)]
        /\ \A i \in 2..Len(chain) : chain[i] # head
    BY <2>2, <2>3 DEF ChainIsList, ChainOK
  <2>5. \A u \in Threads : mine[u] # head
    BY <2>2, <2>3, <2>4
  <2>6. \A u \in Threads : pc'[u] \in Unlinked => ~InChain(mine[u])'
    <3> SUFFICES ASSUME NEW u \in Threads, pc'[u] \in Unlinked,
                        NEW i \in 1..Len(chain) - 1, chain'[i] = mine'[u]
                 PROVE  FALSE
      BY <2>3
    <3>0. i + 1 \in 2..Len(chain) /\ i + 1 \in DOMAIN chain /\ chain[i + 1] = mine'[u]
      BY <2>2, <2>3
    <3>1. CASE u = t
      BY <3>0, <3>1, <2>1, <2>4 DEF PopHead
    <3>2. CASE u # t
      BY <3>0, <3>2, <2>1 DEF PopHead
    <3> QED
      BY <3>1, <3>2
  <2> QED
    BY <2>1, <2>4, <2>5, <2>6 DEF PopHead
<1>13. CASE \E t \in Threads : CountDown(t)
  BY <1>13 DEF CountDown
<1>14. CASE \E t \in Threads : MoveData(t)
  BY <1>14 DEF MoveData
<1>15. CASE \E t \in Threads : DeleteNode(t)
  BY <1>15 DEF DeleteNode
<1>16. CASE \E t \in Threads : Empty(t)
  BY <1>16 DEF Empty
<1>17. CASE UNCHANGED vars
  BY <1>17
<1> QED
  BY <1>1, <1>2, <1>3, <1>4, <1>5, <1>6, <1>7, <1>8, <1>9, <1>10, <1>11, <1>12, <1>13,
     <1>14, <1>15, <1>16, <1>17 DEF Next

(* Every step keeps the pointers in line with the chain, without a repetition. *)
LEMMA ChainStep ==
  ASSUME IInv, [Next]_vars
  PROVE  ChainIsList' /\ ChainOK'
<1> USE DEF IInv, ListIsSound, TypeOK, ChainIsList, ChainOK
<1>1. CASE \E t \in Threads, v \in Value, p \in Node : CallPush(t, v, p)
  <2>1. PICK t \in Threads, v \in Value, p \in Node : CallPush(t, v, p)
    BY <1>1
  <2>2. \A i \in DOMAIN chain : chain[i] # p
    BY <2>1 DEF CallPush
  <2>3. chain' = chain /\ head' = head /\ tail' = tail /\ heap \subseteq heap'
        /\ \A n \in Node : n # p => next'[n] = next[n]
    BY <2>1 DEF CallPush
  <2>4. \A i \in 1..Len(chain) - 1 : chain[i] \in Node /\ chain[i] # p
    BY <2>2
  <2> QED
    BY <2>3, <2>4
<1>2. CASE \E t \in Threads : LockTail(t)
  BY <1>2 DEF LockTail
<1>3. CASE \E t \in Threads : SetData(t)
  BY <1>3 DEF SetData
<1>4. CASE \E t \in Threads : SetNext(t)
  <2>1. PICK t \in Threads : SetNext(t)
    BY <1>4
  <2>2. DOMAIN chain = 1..Len(chain) /\ \A i \in 1..Len(chain) - 1 : chain[i] # tail
    OBVIOUS
  <2> QED
    BY <2>1, <2>2 DEF SetNext
<1>5. CASE \E t \in Threads : SetTail(t)
  <2>1. PICK t \in Threads : SetTail(t)
    BY <1>5
  <2>2. mine[t] \in Node /\ mine[t] \in heap /\ next[tail] = mine[t]
    BY <2>1, MineIsNode DEF SetTail, Unlinked, NoUseAfterFree, HandsOK, PushOK
  <2>3. DOMAIN chain' = 1..Len(chain) + 1 /\ DOMAIN chain = 1..Len(chain) /\ chain' # <<>>
        /\ Len(chain') = Len(chain) + 1 /\ Len(chain) \in Nat \ {0}
        /\ chain'[Len(chain) + 1] = mine[t] /\ \A i \in 1..Len(chain) : chain'[i] = chain[i]
    BY <2>1, <2>2 DEF SetTail
  <2>4. \A i \in 1..Len(chain) : chain[i] # mine[t]
    BY <2>1, <2>3 DEF SetTail, HandsOK, Unlinked, InChain
  <2>5. ChainIsList'
    BY <2>1, <2>2, <2>3 DEF SetTail
  <2>6. ChainOK'
    BY <2>1, <2>2, <2>3, <2>4 DEF SetTail
  <2> QED
    BY <2>5, <2>6
<1>6. CASE \E t \in Threads : CountUp(t)
  BY <1>6 DEF CountUp
<1>7. CASE \E t \in Threads : CallTryPop(t)
  BY <1>7 DEF CallTryPop
<1>8. CASE \E t \in Threads : LockHead(t)
  BY <1>8 DEF LockHead
<1>9. CASE \E t \in Threads : GetTail(t)
  BY <1>9 DEF GetTail
<1>10. CASE \E t \in Threads : PopFails(t)
  BY <1>10 DEF PopFails
<1>11. CASE \E t \in Threads : PopGoesOn(t)
  BY <1>11 DEF PopGoesOn
<1>12. CASE \E t \in Threads : PopHead(t)
  <2>1. PICK t \in Threads : PopHead(t)
    BY <1>12
  <2>2. Len(chain) > 1
    BY <2>1, PopHasNode DEF PopHead
  <2>3. DOMAIN chain = 1..Len(chain) /\ DOMAIN chain' = 1..Len(chain) - 1
        /\ Len(chain') = Len(chain) - 1
        /\ \A i \in 1..Len(chain) - 1 : chain'[i] = chain[i + 1]
    BY <2>1, <2>2 DEF PopHead
  <2>4. chain' # <<>>
    BY <2>2, <2>3
  <2>5. head' = chain[2] /\ next' = next /\ tail' = tail /\ heap' = heap
    BY <2>1, <2>2, SecondNode DEF PopHead
  <2>6. ChainIsList'
    <3>1. head' = chain'[1] /\ tail' = chain'[Len(chain')]
      BY <2>2, <2>3, <2>5
    <3>2. ASSUME NEW i \in 1..Len(chain') - 1
          PROVE  next[chain'[i]] = chain'[i + 1]
      <4>1. chain'[i] = chain[i + 1] /\ chain'[i + 1] = chain[(i + 1) + 1]
            /\ i + 1 \in 1..Len(chain) - 1
        BY <2>2, <2>3
      <4> QED
        BY <4>1
    <3> QED
      BY <2>4, <2>5, <3>1, <3>2
  <2>7. \A i \in DOMAIN chain' : i + 1 \in DOMAIN chain /\ chain'[i] = chain[i + 1]
    BY <2>2, <2>3
  <2>8. \A i, j \in DOMAIN chain' : chain'[i] = chain'[j] => i = j
    <3> SUFFICES ASSUME NEW i \in DOMAIN chain', NEW j \in DOMAIN chain', chain'[i] = chain'[j]
                 PROVE  i = j
      OBVIOUS
    <3>1. i + 1 = j + 1
      BY <2>7
    <3> QED
      BY <3>1, <2>3
  <2>9. ChainOK'
    BY <2>5, <2>7, <2>8
  <2> QED
    BY <2>6, <2>9
<1>13. CASE \E t \in Threads : CountDown(t)
  BY <1>13 DEF CountDown
<1>14. CASE \E t \in Threads : MoveData(t)
  BY <1>14 DEF MoveData
<1>15. CASE \E t \in Threads : DeleteNode(t)
  <2>1. PICK t \in Threads : DeleteNode(t)
    BY <1>15
  <2>2. \A i \in DOMAIN chain : chain[i] # mine[t]
    BY <2>1 DEF DeleteNode, HandsOK, Unlinked, InChain
  <2> QED
    BY <2>1, <2>2 DEF DeleteNode
<1>16. CASE \E t \in Threads : Empty(t)
  BY <1>16 DEF Empty
<1>17. CASE UNCHANGED vars
  BY <1>17
<1> QED
  BY <1>1, <1>2, <1>3, <1>4, <1>5, <1>6, <1>7, <1>8, <1>9, <1>10, <1>11, <1>12, <1>13,
     <1>14, <1>15, <1>16, <1>17 DEF Next

(* Every step keeps what is used allocated, and what is allocated in use. *)
LEMMA HeapStep ==
  ASSUME IInv, [Next]_vars
  PROVE  NoUseAfterFree' /\ NoLeak'
<1> USE DEF IInv, ListIsSound, TypeOK, NoUseAfterFree, NoLeak
<1>1. CASE \E t \in Threads, v \in Value, p \in Node : CallPush(t, v, p)
  BY <1>1 DEF CallPush, HandsOK, Unlinked
<1>2. CASE \E t \in Threads : LockTail(t)
  BY <1>2 DEF LockTail
<1>3. CASE \E t \in Threads : SetData(t)
  BY <1>3 DEF SetData
<1>4. CASE \E t \in Threads : SetNext(t)
  BY <1>4 DEF SetNext
<1>5. CASE \E t \in Threads : SetTail(t)
  <2>1. PICK t \in Threads : SetTail(t)
    BY <1>5
  <2>2. mine[t] \in Node /\ mine[t] \in heap
    BY <2>1, MineIsNode DEF SetTail, Unlinked, HandsOK
  <2>3. DOMAIN chain' = 1..Len(chain) + 1 /\ DOMAIN chain = 1..Len(chain)
        /\ \A i \in 1..Len(chain) : chain'[i] = chain[i]
    BY <2>1, <2>2 DEF SetTail
  <2> QED
    BY <2>1, <2>2, <2>3 DEF SetTail
<1>6. CASE \E t \in Threads : CountUp(t)
  <2>1. PICK t \in Threads : CountUp(t)
    BY <1>6
  <2>2. mine[t] = tail /\ tail = chain[Len(chain)] /\ Len(chain) \in DOMAIN chain
    BY <2>1 DEF CountUp, HandsOK, ChainIsList
  <2> QED
    BY <2>1, <2>2 DEF CountUp
<1>7. CASE \E t \in Threads : CallTryPop(t)
  BY <1>7 DEF CallTryPop
<1>8. CASE \E t \in Threads : LockHead(t)
  BY <1>8 DEF LockHead
<1>9. CASE \E t \in Threads : GetTail(t)
  BY <1>9 DEF GetTail
<1>10. CASE \E t \in Threads : PopFails(t)
  BY <1>10 DEF PopFails
<1>11. CASE \E t \in Threads : PopGoesOn(t)
  BY <1>11 DEF PopGoesOn
<1>12. CASE \E t \in Threads : PopHead(t)
  <2>1. PICK t \in Threads : PopHead(t)
    BY <1>12
  <2>2. Len(chain) > 1
    BY <2>1, PopHasNode DEF PopHead
  <2>3. DOMAIN chain = 1..Len(chain) /\ DOMAIN chain' = 1..Len(chain) - 1
        /\ \A i \in 1..Len(chain) - 1 : chain'[i] = chain[i + 1]
    BY <2>1, <2>2 DEF PopHead
  <2>4. head = chain[1] /\ next[head] = chain[2] /\ chain[2] \in heap /\ mine[t] = NoNode
    BY <2>1, <2>2, <2>3 DEF PopHead, ChainIsList, ChainOK, HandsOK, Unlinked
  <2>5. \A i \in DOMAIN chain : chain[i] = head \/ \E j \in DOMAIN chain' : chain'[j] = chain[i]
    <3> TAKE i \in DOMAIN chain
    <3>1. CASE i = 1
      BY <3>1, <2>4
    <3>2. CASE i # 1
      <4>1. i - 1 \in DOMAIN chain' /\ chain'[i - 1] = chain[i]
        BY <3>2, <2>2, <2>3
      <4> QED
        BY <4>1
    <3> QED
      BY <3>1, <3>2
  <2>6. NoUseAfterFree'
    BY <2>1, <2>4 DEF PopHead
  <2>7. NoLeak'
    <3> SUFFICES ASSUME NEW n \in heap
                 PROVE  \/ \E i \in DOMAIN chain' : chain'[i] = n
                        \/ \E u \in Threads : mine'[u] = n
      BY <2>1 DEF PopHead
    <3>1. CASE \E i \in DOMAIN chain : chain[i] = n
      BY <3>1, <2>1, <2>5 DEF PopHead
    <3>2. CASE \E u \in Threads : mine[u] = n
      BY <3>2, <2>1, <2>4 DEF PopHead
    <3> QED
      BY <3>1, <3>2
  <2> QED
    BY <2>6, <2>7
<1>13. CASE \E t \in Threads : CountDown(t)
  BY <1>13 DEF CountDown
<1>14. CASE \E t \in Threads : MoveData(t)
  BY <1>14 DEF MoveData
<1>15. CASE \E t \in Threads : DeleteNode(t)
  <2>1. PICK t \in Threads : DeleteNode(t)
    BY <1>15
  <2>2. \A i \in DOMAIN chain : chain[i] # mine[t]
    BY <2>1 DEF DeleteNode, HandsOK, Unlinked, InChain
  <2>3. head # mine[t] /\ tail # mine[t]
    BY <2>2 DEF ChainIsList
  <2>4. \A u \in Threads : u # t => mine[u] # mine[t] \/ mine[u] = NoNode
    BY <2>1 DEF DeleteNode, HandsOK, Unlinked
  <2> QED
    BY <2>1, <2>2, <2>3, <2>4 DEF DeleteNode
<1>16. CASE \E t \in Threads : Empty(t)
  BY <1>16 DEF Empty
<1>17. CASE UNCHANGED vars
  BY <1>17
<1> QED
  BY <1>1, <1>2, <1>3, <1>4, <1>5, <1>6, <1>7, <1>8, <1>9, <1>10, <1>11, <1>12, <1>13,
     <1>14, <1>15, <1>16, <1>17 DEF Next

(* Setting _tail makes one node uncounted, and counting it makes it none. *)
LEMMA CountsChange ==
  ASSUME TypeOK, LocksOK, NEW t \in Threads
  PROVE  /\ SetTail(t) => Uncounted = 0 /\ Uncounted' = 1
         /\ CountUp(t) => Uncounted = 1 /\ Uncounted' = 0
         /\ PopHead(t) => Untaken = 0 /\ Untaken' = 1
         /\ CountDown(t) => Untaken = 1 /\ Untaken' = 0
<1> USE DEF TypeOK, LocksOK, TailHeld, HeadHeld, Uncounted, Untaken
<1>1. SetTail(t) => Uncounted = 0 /\ Uncounted' = 1
  BY DEF SetTail
<1>2. CountUp(t) => Uncounted = 1 /\ Uncounted' = 0
  BY DEF CountUp
<1>3. PopHead(t) => Untaken = 0 /\ Untaken' = 1
  BY DEF PopHead
<1>4. CountDown(t) => Untaken = 1 /\ Untaken' = 0
  BY DEF CountDown
<1> QED
  BY <1>1, <1>2, <1>3, <1>4

(* Every step keeps what a push has written as it wrote it. *)
LEMMA PushStep ==
  ASSUME IInv, [Next]_vars
  PROVE  PushOK'
<1> USE DEF IInv, ListIsSound, TypeOK, LocksOK, PushOK, TailHeld, PushLabels
<1>1. CASE \E t \in Threads, v \in Value, p \in Node : CallPush(t, v, p)
  <2>1. PICK t \in Threads, v \in Value, p \in Node : CallPush(t, v, p)
    BY <1>1
  <2>2. p # tail
    BY <2>1 DEF CallPush, NoUseAfterFree
  <2>3. \A i \in DOMAIN chain : chain[i] # p
    BY <2>1 DEF CallPush, ChainOK
  <2>4. Len(chain) > 1 => chain[Len(chain) - 1] \in Node /\ chain[Len(chain) - 1] # p
    BY <2>3
  <2> QED
    BY <2>1, <2>2, <2>4 DEF CallPush
<1>2. CASE \E t \in Threads : LockTail(t)
  BY <1>2 DEF LockTail
<1>3. CASE \E t \in Threads : SetData(t)
  BY <1>3 DEF SetData
<1>4. CASE \E t \in Threads : SetNext(t)
  BY <1>4 DEF SetNext
<1>5. CASE \E t \in Threads : SetTail(t)
  <2>1. PICK t \in Threads : SetTail(t)
    BY <1>5
  <2>2. mine[t] \in Node
    BY <2>1, MineIsNode DEF SetTail, Unlinked
  <2>3. Len(chain') = Len(chain) + 1 /\ Len(chain) > 0 /\ Len(chain) \in Nat
        /\ chain'[Len(chain)] = tail
    BY <2>1, <2>2 DEF SetTail, ChainIsList
  <2> QED
    BY <2>1, <2>3 DEF SetTail
<1>6. CASE \E t \in Threads : CountUp(t)
  BY <1>6 DEF CountUp
<1>7. CASE \E t \in Threads : CallTryPop(t)
  BY <1>7 DEF CallTryPop
<1>8. CASE \E t \in Threads : LockHead(t)
  BY <1>8 DEF LockHead
<1>9. CASE \E t \in Threads : GetTail(t)
  BY <1>9 DEF GetTail
<1>10. CASE \E t \in Threads : PopFails(t)
  BY <1>10 DEF PopFails
<1>11. CASE \E t \in Threads : PopGoesOn(t)
  BY <1>11 DEF PopGoesOn
<1>12. CASE \E t \in Threads : PopHead(t)
  <2>1. PICK t \in Threads : PopHead(t)
    BY <1>12
  <2>2. Len(chain) > 1 /\ Len(chain) \in Nat
    BY <2>1, PopHasNode DEF PopHead
  <2>3. DOMAIN chain = 1..Len(chain) /\ Len(chain') = Len(chain) - 1
        /\ \A i \in 1..Len(chain) - 1 : chain'[i] = chain[i + 1]
    BY <2>1, <2>2 DEF PopHead
  <2>4. ASSUME NEW u \in Threads, pc'[u] = "size"
        PROVE  Len(chain') > 1 /\ chain'[Len(chain') - 1] = chain[Len(chain) - 1]
    <3>1. pc[u] = "size" /\ Uncounted = 1
      BY <2>1, <2>4, UncountedFacts DEF PopHead
    <3>2. Len(chain) - 1 > 1
      BY <2>1, <2>2, <3>1 DEF PopHead, PopOK
    <3>3. Len(chain) - 2 \in 1..Len(chain) - 1
      BY <2>2, <3>2
    <3>4. chain'[Len(chain) - 2] = chain[(Len(chain) - 2) + 1]
      BY <2>3, <3>3
    <3> QED
      BY <2>2, <2>3, <3>2, <3>4
  <2> QED
    BY <2>1, <2>4 DEF PopHead
<1>13. CASE \E t \in Threads : CountDown(t)
  BY <1>13 DEF CountDown
<1>14. CASE \E t \in Threads : MoveData(t)
  <2>1. PICK t \in Threads : MoveData(t)
    BY <1>14
  <2>2. \A i \in DOMAIN chain : chain[i] # mine[t]
    BY <2>1 DEF MoveData, HandsOK, Unlinked, InChain
  <2>3. tail # mine[t]
    BY <2>2 DEF ChainIsList
  <2>4. Len(chain) > 1 => chain[Len(chain) - 1] \in Node /\ chain[Len(chain) - 1] # mine[t]
    BY <2>2
  <2> QED
    BY <2>1, <2>3, <2>4 DEF MoveData
<1>15. CASE \E t \in Threads : DeleteNode(t)
  BY <1>15 DEF DeleteNode
<1>16. CASE \E t \in Threads : Empty(t)
  BY <1>16 DEF Empty
<1>17. CASE UNCHANGED vars
  BY <1>17
<1> QED
  BY <1>1, <1>2, <1>3, <1>4, <1>5, <1>6, <1>7, <1>8, <1>9, <1>10, <1>11, <1>12, <1>13,
     <1>14, <1>15, <1>16, <1>17 DEF Next

(* Every step keeps what a try_pop has seen in front of the uncounted node. *)
LEMMA PopStep ==
  ASSUME IInv, [Next]_vars
  PROVE  PopOK'
<1> USE DEF IInv, ListIsSound, TypeOK, LocksOK, PopOK, HeadHeld
<1>1. CASE \E t \in Threads, v \in Value, p \in Node : CallPush(t, v, p)
  <2>1. PICK t \in Threads, v \in Value, p \in Node : CallPush(t, v, p)
    BY <1>1
  <2>2. Uncounted' = Uncounted
    BY <2>1 DEF CallPush, Uncounted, Untaken
  <2> QED
    BY <2>1, <2>2 DEF CallPush
<1>2. CASE \E t \in Threads : LockTail(t)
  <2>1. PICK t \in Threads : LockTail(t)
    BY <1>2
  <2>2. Uncounted' = Uncounted
    BY <2>1 DEF LockTail, Uncounted, Untaken
  <2> QED
    BY <2>1, <2>2 DEF LockTail
<1>3. CASE \E t \in Threads : SetData(t)
  <2>1. PICK t \in Threads : SetData(t)
    BY <1>3
  <2>2. Uncounted' = Uncounted
    BY <2>1 DEF SetData, Uncounted, Untaken
  <2> QED
    BY <2>1, <2>2 DEF SetData
<1>4. CASE \E t \in Threads : SetNext(t)
  <2>1. PICK t \in Threads : SetNext(t)
    BY <1>4
  <2>2. Uncounted' = Uncounted
    BY <2>1 DEF SetNext, Uncounted, Untaken
  <2> QED
    BY <2>1, <2>2 DEF SetNext
<1>5. CASE \E t \in Threads : SetTail(t)
  <2>1. PICK t \in Threads : SetTail(t)
    BY <1>5
  <2>2. mine[t] \in Node
    BY <2>1, MineIsNode DEF SetTail, Unlinked
  <2>3. Len(chain') = Len(chain) + 1 /\ Len(chain) \in Nat
        /\ \A i \in 1..Len(chain) : chain'[i] = chain[i]
    BY <2>1, <2>2 DEF SetTail
  <2>4. Uncounted = 0 /\ Uncounted' = 1
    BY <2>1, CountsChange
  <2> QED
    BY <2>1, <2>3, <2>4 DEF SetTail
<1>6. CASE \E t \in Threads : CountUp(t)
  <2>1. PICK t \in Threads : CountUp(t)
    BY <1>6
  <2>2. Uncounted = 1 /\ Uncounted' = 0
    BY <2>1, CountsChange
  <2>3. Len(chain) \in Nat
    OBVIOUS
  <2> QED
    BY <2>1, <2>2, <2>3 DEF CountUp
<1>7. CASE \E t \in Threads : CallTryPop(t)
  <2>1. PICK t \in Threads : CallTryPop(t)
    BY <1>7
  <2>2. Uncounted' = Uncounted
    BY <2>1 DEF CallTryPop, Uncounted, Untaken
  <2> QED
    BY <2>1, <2>2 DEF CallTryPop
<1>8. CASE \E t \in Threads : LockHead(t)
  <2>1. PICK t \in Threads : LockHead(t)
    BY <1>8
  <2>2. Uncounted' = Uncounted
    BY <2>1 DEF LockHead, Uncounted, Untaken
  <2> QED
    BY <2>1, <2>2 DEF LockHead
<1>9. CASE \E t \in Threads : GetTail(t)
  <2>1. PICK t \in Threads : GetTail(t)
    BY <1>9
  <2>2. Uncounted = 0 /\ Uncounted' = Uncounted
    BY <2>1, UncountedFacts DEF GetTail, Uncounted
  <2>3. tail = chain[Len(chain)] /\ Len(chain) \in 1..Len(chain)
    BY DEF ChainIsList
  <2> QED
    BY <2>1, <2>2, <2>3 DEF GetTail
<1>10. CASE \E t \in Threads : PopFails(t)
  <2>1. PICK t \in Threads : PopFails(t)
    BY <1>10
  <2>2. Uncounted' = Uncounted
    BY <2>1 DEF PopFails, Uncounted, Untaken
  <2> QED
    BY <2>1, <2>2 DEF PopFails
<1>11. CASE \E t \in Threads : PopGoesOn(t)
  <2>1. PICK t \in Threads : PopGoesOn(t)
    BY <1>11
  <2>2. Uncounted' = Uncounted /\ Uncounted \in {0, 1}
    BY <2>1, UncountedFacts DEF PopGoesOn, Uncounted
  <2>3. PICK i \in 1..(Len(chain) - Uncounted) : chain[i] = seen[t]
    BY <2>1 DEF PopGoesOn
  <2>4. i # 1
    BY <2>1, <2>3 DEF PopGoesOn, ChainIsList
  <2>5. Len(chain) - Uncounted > 1
    BY <2>2, <2>3, <2>4
  <2> QED
    BY <2>1, <2>2, <2>5 DEF PopGoesOn
<1>12. CASE \E t \in Threads : PopHead(t)
  <2>1. PICK t \in Threads : PopHead(t)
    BY <1>12
  <2>2. \A u \in Threads : pc'[u] \notin {"compare", "pop_head"}
    BY <2>1 DEF PopHead
  <2> QED
    BY <2>2
<1>13. CASE \E t \in Threads : CountDown(t)
  <2>1. PICK t \in Threads : CountDown(t)
    BY <1>13
  <2>2. Uncounted' = Uncounted
    BY <2>1 DEF CountDown, Uncounted, Untaken
  <2> QED
    BY <2>1, <2>2 DEF CountDown
<1>14. CASE \E t \in Threads : MoveData(t)
  <2>1. PICK t \in Threads : MoveData(t)
    BY <1>14
  <2>2. Uncounted' = Uncounted
    BY <2>1 DEF MoveData, Uncounted, Untaken
  <2> QED
    BY <2>1, <2>2 DEF MoveData
<1>15. CASE \E t \in Threads : DeleteNode(t)
  <2>1. PICK t \in Threads : DeleteNode(t)
    BY <1>15
  <2>2. Uncounted' = Uncounted
    BY <2>1 DEF DeleteNode, Uncounted, Untaken
  <2> QED
    BY <2>1, <2>2 DEF DeleteNode
<1>16. CASE \E t \in Threads : Empty(t)
  BY <1>16 DEF Empty, Uncounted
<1>17. CASE UNCHANGED vars
  BY <1>17 DEF Uncounted
<1> QED
  BY <1>1, <1>2, <1>3, <1>4, <1>5, <1>6, <1>7, <1>8, <1>9, <1>10, <1>11, <1>12, <1>13,
     <1>14, <1>15, <1>16, <1>17 DEF Next

(* Every step keeps the size in line with the list. *)
LEMMA SizeStep ==
  ASSUME IInv, [Next]_vars
  PROVE  SizeOK'
<1> USE DEF IInv, ListIsSound, TypeOK, SizeOK
<1>1. CASE \E t \in Threads, v \in Value, p \in Node : CallPush(t, v, p)
  <2>1. PICK t \in Threads, v \in Value, p \in Node : CallPush(t, v, p)
    BY <1>1
  <2>2. Uncounted' = Uncounted /\ Untaken' = Untaken
    BY <2>1 DEF CallPush, Uncounted, Untaken
  <2> QED
    BY <2>1, <2>2 DEF CallPush
<1>2. CASE \E t \in Threads : LockTail(t)
  <2>1. PICK t \in Threads : LockTail(t)
    BY <1>2
  <2>2. Uncounted' = Uncounted /\ Untaken' = Untaken
    BY <2>1 DEF LockTail, Uncounted, Untaken
  <2> QED
    BY <2>1, <2>2 DEF LockTail
<1>3. CASE \E t \in Threads : SetData(t)
  <2>1. PICK t \in Threads : SetData(t)
    BY <1>3
  <2>2. Uncounted' = Uncounted /\ Untaken' = Untaken
    BY <2>1 DEF SetData, Uncounted, Untaken
  <2> QED
    BY <2>1, <2>2 DEF SetData
<1>4. CASE \E t \in Threads : SetNext(t)
  <2>1. PICK t \in Threads : SetNext(t)
    BY <1>4
  <2>2. Uncounted' = Uncounted /\ Untaken' = Untaken
    BY <2>1 DEF SetNext, Uncounted, Untaken
  <2> QED
    BY <2>1, <2>2 DEF SetNext
<1>5. CASE \E t \in Threads : SetTail(t)
  <2>1. PICK t \in Threads : SetTail(t)
    BY <1>5
  <2>2. Uncounted = 0 /\ Uncounted' = 1
    BY <2>1, CountsChange
  <2>3. Untaken' = Untaken
    BY <2>1 DEF SetTail, Uncounted, Untaken
  <2>4. Len(chain') = Len(chain) + 1
    BY <2>1, MineIsNode DEF SetTail, Unlinked
  <2>5. Len(chain) \in Nat /\ Uncounted \in {0, 1} /\ Untaken \in {0, 1}
    BY UncountedFacts, UntakenFacts
  <2> QED
    BY <2>1, <2>2, <2>3, <2>4, <2>5 DEF SetTail
<1>6. CASE \E t \in Threads : CountUp(t)
  <2>1. PICK t \in Threads : CountUp(t)
    BY <1>6
  <2>2. Uncounted = 1 /\ Uncounted' = 0
    BY <2>1, CountsChange
  <2>3. Untaken' = Untaken
    BY <2>1 DEF CountUp, Uncounted, Untaken
  <2>4. chain' = chain
    BY <2>1 DEF CountUp
  <2>5. Len(chain) \in Nat /\ Uncounted \in {0, 1} /\ Untaken \in {0, 1}
    BY UncountedFacts, UntakenFacts
  <2> QED
    BY <2>1, <2>2, <2>3, <2>4, <2>5 DEF CountUp
<1>7. CASE \E t \in Threads : CallTryPop(t)
  <2>1. PICK t \in Threads : CallTryPop(t)
    BY <1>7
  <2>2. Uncounted' = Uncounted /\ Untaken' = Untaken
    BY <2>1 DEF CallTryPop, Uncounted, Untaken
  <2> QED
    BY <2>1, <2>2 DEF CallTryPop
<1>8. CASE \E t \in Threads : LockHead(t)
  <2>1. PICK t \in Threads : LockHead(t)
    BY <1>8
  <2>2. Uncounted' = Uncounted /\ Untaken' = Untaken
    BY <2>1 DEF LockHead, Uncounted, Untaken
  <2> QED
    BY <2>1, <2>2 DEF LockHead
<1>9. CASE \E t \in Threads : GetTail(t)
  <2>1. PICK t \in Threads : GetTail(t)
    BY <1>9
  <2>2. Uncounted' = Uncounted /\ Untaken' = Untaken
    BY <2>1 DEF GetTail, Uncounted, Untaken
  <2> QED
    BY <2>1, <2>2 DEF GetTail
<1>10. CASE \E t \in Threads : PopFails(t)
  <2>1. PICK t \in Threads : PopFails(t)
    BY <1>10
  <2>2. Uncounted' = Uncounted /\ Untaken' = Untaken
    BY <2>1 DEF PopFails, Uncounted, Untaken
  <2> QED
    BY <2>1, <2>2 DEF PopFails
<1>11. CASE \E t \in Threads : PopGoesOn(t)
  <2>1. PICK t \in Threads : PopGoesOn(t)
    BY <1>11
  <2>2. Uncounted' = Uncounted /\ Untaken' = Untaken
    BY <2>1 DEF PopGoesOn, Uncounted, Untaken
  <2> QED
    BY <2>1, <2>2 DEF PopGoesOn
<1>12. CASE \E t \in Threads : PopHead(t)
  <2>1. PICK t \in Threads : PopHead(t)
    BY <1>12
  <2>2. Untaken = 0 /\ Untaken' = 1
    BY <2>1, CountsChange
  <2>3. Uncounted' = Uncounted
    BY <2>1 DEF PopHead, Uncounted, Untaken
  <2>4. Len(chain') = Len(chain) - 1
    BY <2>1, PopHasNode, SecondNode DEF PopHead
  <2>5. Len(chain) \in Nat /\ Uncounted \in {0, 1} /\ Untaken \in {0, 1}
    BY UncountedFacts, UntakenFacts
  <2> QED
    BY <2>1, <2>2, <2>3, <2>4, <2>5 DEF PopHead
<1>13. CASE \E t \in Threads : CountDown(t)
  <2>1. PICK t \in Threads : CountDown(t)
    BY <1>13
  <2>2. Untaken = 1 /\ Untaken' = 0
    BY <2>1, CountsChange
  <2>3. Uncounted' = Uncounted
    BY <2>1 DEF CountDown, Uncounted, Untaken
  <2>4. chain' = chain
    BY <2>1 DEF CountDown
  <2>5. Len(chain) \in Nat /\ Uncounted \in {0, 1} /\ Untaken \in {0, 1}
    BY UncountedFacts, UntakenFacts
  <2> QED
    BY <2>1, <2>2, <2>3, <2>4, <2>5 DEF CountDown
<1>14. CASE \E t \in Threads : MoveData(t)
  <2>1. PICK t \in Threads : MoveData(t)
    BY <1>14
  <2>2. Uncounted' = Uncounted /\ Untaken' = Untaken
    BY <2>1 DEF MoveData, Uncounted, Untaken
  <2> QED
    BY <2>1, <2>2 DEF MoveData
<1>15. CASE \E t \in Threads : DeleteNode(t)
  <2>1. PICK t \in Threads : DeleteNode(t)
    BY <1>15
  <2>2. Uncounted' = Uncounted /\ Untaken' = Untaken
    BY <2>1 DEF DeleteNode, Uncounted, Untaken
  <2> QED
    BY <2>1, <2>2 DEF DeleteNode
<1>16. CASE \E t \in Threads : Empty(t)
  BY <1>16 DEF Empty, Uncounted, Untaken
<1>17. CASE UNCHANGED vars
  BY <1>17 DEF Uncounted, Untaken
<1> QED
  BY <1>1, <1>2, <1>3, <1>4, <1>5, <1>6, <1>7, <1>8, <1>9, <1>10, <1>11, <1>12, <1>13,
     <1>14, <1>15, <1>16, <1>17 DEF Next

(* The initial states satisfy the inductive invariant. *)
LEMMA InitInv ==
  ASSUME Init
  PROVE  IInv
<1> USE DEF Init
<1>1. Len(chain) = 1 /\ DOMAIN chain = {1} /\ chain[1] = head /\ chain # <<>>
  OBVIOUS
<1>2. Uncounted = 0 /\ Untaken = 0
  BY DEF Uncounted, Untaken
<1>3. TypeOK
  BY DEF TypeOK
<1>4. ChainIsList /\ NoUseAfterFree /\ NoLeak /\ ChainOK
  BY <1>1 DEF ChainIsList, NoUseAfterFree, NoLeak, ChainOK
<1>5. LocksOK /\ HandsOK /\ PushOK /\ PopOK
  BY DEF LocksOK, TailHeld, HeadHeld, HandsOK, Unlinked, PushOK, PushLabels, PopOK
<1>6. SizeOK
  BY <1>1, <1>2 DEF SizeOK
<1> QED
  BY <1>3, <1>4, <1>5, <1>6 DEF IInv, ListIsSound

(* IInv is inductive. *)
LEMMA NextInv ==
  ASSUME IInv, [Next]_vars
  PROVE  IInv'
BY TypeStep, LocksStep, HandsStep, ChainStep, HeapStep, PushStep, PopStep, SizeStep
   DEF IInv, ListIsSound

(* Every reachable state satisfies the inductive invariant. *)
THEOREM Invariance == Spec => []IInv
<1>1. Init => IInv
  BY InitInv
<1>2. IInv /\ [Next]_vars => IInv'
  BY NextInv
<1> QED
  BY <1>1, <1>2, PTL DEF Spec

(* However pushes and pops interleave, the pointers make one list, no thread *)
(* touches a deleted node and no node is lost (threadsafe::queue).           *)
THEOREM ListSound == Spec => []ListIsSound
<1>1. IInv => ListIsSound
  BY DEF IInv
<1> QED
  BY <1>1, Invariance, PTL

(* The length of the abstract queue. *)
LEMMA ItemsLength ==
  ASSUME IInv
  PROVE  /\ Len(chain) - 1 - Uncounted \in Nat
         /\ Items \in Seq(Value \cup {NoValue})
         /\ Len(Items) = Len(chain) - 1 - Uncounted
<1> USE DEF IInv, ListIsSound
<1>1. Len(chain) - 1 - Uncounted \in Nat /\ Uncounted \in {0, 1}
  BY DummyIsThere, UncountedFacts
<1>2. \A i \in 1..(Len(chain) - 1 - Uncounted) : data[chain[i]] \in Value \cup {NoValue}
  BY <1>1 DEF TypeOK
<1> QED
  BY <1>1, <1>2 DEF Items

(* Whenever the head lock is free, _size is the number of values a try_pop   *)
(* could take, whatever push is between _tail and ++_size (empty, size).     *)
THEOREM SizeCounts == Spec => []SizeCountsItems
<1>1. IInv => SizeCountsItems
  <2> SUFFICES ASSUME IInv, head_mux = NoThread
               PROVE  size = Len(Items)
    BY DEF SizeCountsItems
  <2>1. Untaken = 0
    BY UntakenFacts DEF IInv, ListIsSound
  <2> QED
    BY <2>1, ItemsLength DEF IInv, SizeOK
<1> QED
  BY <1>1, Invariance, PTL

(* The abstract queue stays the same where no counted node changes. *)
LEMMA SameItems ==
  ASSUME IInv,
         Len(chain') - 1 - Uncounted' = Len(chain) - 1 - Uncounted,
         \A i \in 1..(Len(chain) - 1 - Uncounted) :
           i \in DOMAIN chain => chain'[i] = chain[i] /\ data'[chain[i]] = data[chain[i]]
  PROVE  Items' = Items
<1>1. Len(chain) - 1 - Uncounted \in Nat /\ Uncounted \in {0, 1} /\ Len(chain) \in Nat
      /\ DOMAIN chain = 1..Len(chain)
  BY DummyIsThere, UncountedFacts DEF IInv, ListIsSound, TypeOK
<1>2. \A i \in 1..(Len(chain) - 1 - Uncounted) : data'[chain'[i]] = data[chain[i]]
  BY <1>1
<1> QED
  BY <1>2 DEF Items

(* The initial states are initial states of FifoQueue. *)
LEMMA InitFifo ==
  ASSUME Init
  PROVE  Fifo!Init
<1>1. IInv
  BY InitInv
<1>2. Len(chain) = 1 /\ Uncounted = 0
  BY DEF Init, Uncounted
<1>3. Items = <<>>
  BY <1>1, <1>2, ItemsLength, EmptySeq
<1>4. Got = [t \in Threads |-> NoValue]
  BY DEF Init, Got
<1> QED
  BY <1>3, <1>4 DEF Init, Fifo!Init

(* Every step is a push, a pop, a failed pop or an empty of FifoQueue, or    *)
(* changes nothing that FifoQueue speaks of.                                 *)
LEMMA NextFifo ==
  ASSUME IInv, IInv', [Next]_vars
  PROVE  [Fifo!Next]_(Fifo!vars)
<1> USE DEF Fifo!vars
<1>t. TypeOK /\ LocksOK /\ TypeOK' /\ DOMAIN chain = 1..Len(chain) /\ Len(chain) \in Nat
      /\ Uncounted \in {0, 1}
  BY UncountedFacts DEF IInv, ListIsSound, TypeOK
<1>h. \A u \in Threads : pc[u] \in {"dec", "move", "delete"} =>
        mine[u] \in Node /\ \A i \in 1..Len(chain) : chain[i] # mine[u]
  <2> SUFFICES ASSUME NEW u \in Threads, pc[u] \in {"dec", "move", "delete"}
               PROVE  mine[u] \in Node /\ \A i \in 1..Len(chain) : chain[i] # mine[u]
    OBVIOUS
  <2>1. pc[u] \in Unlinked /\ HandsOK
    BY DEF Unlinked, IInv
  <2>2. mine[u] \in Node
    BY <1>t, <2>1, MineIsNode
  <2>3. ~InChain(mine[u])
    BY <2>1 DEF HandsOK
  <2> QED
    BY <1>t, <2>2, <2>3 DEF InChain
<1>1. CASE \E t \in Threads, v \in Value, p \in Node : CallPush(t, v, p)
  <2>1. PICK t \in Threads, v \in Value, p \in Node : CallPush(t, v, p)
    BY <1>1
  <2>2. Uncounted' = Uncounted /\ chain' = chain /\ \A n \in Node : n # p => data'[n] = data[n]
    BY <1>t, <2>1 DEF CallPush, Uncounted, TypeOK
  <2>3. (\A i \in 1..Len(chain) : chain[i] # p) /\ \A u \in Threads : mine[u] # p
    <3>1. p \notin heap /\ p # NoNode
      BY <2>1 DEF CallPush
    <3>2. \A i \in 1..Len(chain) : chain[i] # p
      BY <1>t, <3>1 DEF IInv, ChainOK
    <3>3. \A u \in Threads : mine[u] # p
      BY <3>1 DEF IInv, ListIsSound, NoUseAfterFree
    <3> QED
      BY <3>2, <3>3
  <2>4. Items' = Items
    BY <1>t, <2>2, <2>3, SameItems DEF TypeOK
  <2>5. Got' = Got /\ answer' = answer
    BY <1>t, <1>h, <2>1, <2>2, <2>3 DEF CallPush, Got, TypeOK
  <2> QED
    BY <2>4, <2>5
<1>2. CASE \E t \in Threads : LockTail(t)
  <2>1. PICK t \in Threads : LockTail(t)
    BY <1>2
  <2>2. Uncounted' = Uncounted /\ Items' = Items
    <3>1. Uncounted' = Uncounted
      BY <1>t, <2>1 DEF LockTail, Uncounted, TypeOK
    <3>2. chain' = chain /\ data' = data
      BY <2>1 DEF LockTail
    <3> QED
      BY <3>1, <3>2, SameItems
  <2>3. Got' = Got /\ answer' = answer
    BY <1>t, <2>1 DEF LockTail, Got, TypeOK
  <2> QED
    BY <2>2, <2>3
<1>3. CASE \E t \in Threads : SetData(t)
  <2>1. PICK t \in Threads : SetData(t)
    BY <1>3
  <2>2. Uncounted' = Uncounted /\ chain' = chain /\ \A n \in Node : n # tail => data'[n] = data[n]
    BY <1>t, <2>1 DEF SetData, Uncounted, TypeOK
  <2>3. tail = chain[Len(chain)] /\ Len(chain) > 0 /\ \A i \in 1..Len(chain) - 1 : chain[i] # tail
    BY <1>t DEF IInv, ListIsSound, ChainIsList, ChainOK
  <2>4. Items' = Items
    BY <1>t, <2>2, <2>3, SameItems DEF TypeOK
  <2>5. \A u \in Threads : pc[u] \in {"dec", "move"} => mine[u] \in Node /\ mine[u] # tail
    BY <1>t, <1>h, <2>3
  <2>6. Got' = Got /\ answer' = answer
    BY <1>t, <2>1, <2>2, <2>5 DEF SetData, Got, TypeOK
  <2> QED
    BY <2>4, <2>6
<1>4. CASE \E t \in Threads : SetNext(t)
  <2>1. PICK t \in Threads : SetNext(t)
    BY <1>4
  <2>2. Uncounted' = Uncounted /\ Items' = Items
    <3>1. Uncounted' = Uncounted
      BY <1>t, <2>1 DEF SetNext, Uncounted, TypeOK
    <3>2. chain' = chain /\ data' = data
      BY <2>1 DEF SetNext
    <3> QED
      BY <3>1, <3>2, SameItems
  <2>3. Got' = Got /\ answer' = answer
    BY <1>t, <2>1 DEF SetNext, Got, TypeOK
  <2> QED
    BY <2>2, <2>3
<1>5. CASE \E t \in Threads : SetTail(t)
  <2>1. PICK t \in Threads : SetTail(t)
    BY <1>5
  <2>2. Uncounted = 0 /\ Uncounted' = 1
    BY <1>t, <2>1, CountsChange
  <2>3. mine[t] \in Node /\ data' = data
    BY <1>t, <2>1, MineIsNode DEF SetTail, Unlinked, IInv
  <2>4. Len(chain') = Len(chain) + 1 /\ \A i \in 1..Len(chain) : chain'[i] = chain[i]
    BY <1>t, <2>1, <2>3 DEF SetTail, TypeOK
  <2>5. Items' = Items
    BY <1>t, <2>2, <2>3, <2>4, SameItems
  <2>6. Got' = Got /\ answer' = answer
    BY <1>t, <2>1 DEF SetTail, Got, TypeOK
  <2> QED
    BY <2>5, <2>6
<1>6. CASE \E t \in Threads : CountUp(t)
  <2>1. PICK t \in Threads : CountUp(t)
    BY <1>6
  <2>2. Uncounted = 1 /\ Uncounted' = 0 /\ chain' = chain /\ data' = data
    BY <1>t, <2>1, CountsChange DEF CountUp
  <2>3. arg[t] \in Value /\ Len(chain) > 1 /\ data[chain[Len(chain) - 1]] = arg[t]
    BY <2>1 DEF CountUp, IInv, PushOK, PushLabels
  <2>4. Items' = Append(Items, arg[t])
    <3>1. Items \in Seq(Value \cup {NoValue}) /\ Len(Items) = Len(chain) - 2
      <4>1. Items \in Seq(Value \cup {NoValue}) /\ Len(Items) = Len(chain) - 1 - Uncounted
        BY ItemsLength
      <4>2. Len(chain) - 1 - Uncounted = Len(chain) - 2
        BY <1>t, <2>2
      <4> QED
        BY <4>1, <4>2
    <3>2. Items' = [i \in 1..(Len(chain) - 1) |-> data[chain[i]]]
      BY <1>t, <2>2 DEF Items
    <3>3. Items = [i \in 1..(Len(chain) - 2) |-> data[chain[i]]]
      BY <1>t, <2>2 DEF Items
    <3>4. \A i \in 1..(Len(chain) - 1) : data[chain[i]] \in Value \cup {NoValue}
      BY <1>t DEF TypeOK
    <3>5. Items' \in Seq(Value \cup {NoValue}) /\ Len(Items') = Len(chain) - 1
      BY <1>t, <2>3, <3>2, <3>4
    <3>6. /\ Append(Items, arg[t]) \in Seq(Value \cup {NoValue})
          /\ Len(Append(Items, arg[t])) = Len(chain) - 1
          /\ \A i \in 1..(Len(chain) - 2) : Append(Items, arg[t])[i] = data[chain[i]]
          /\ Append(Items, arg[t])[Len(chain) - 1] = arg[t]
      <4>1. arg[t] \in Value \cup {NoValue}
        BY <2>3
      <4>2. Len(Items) + 1 = Len(chain) - 1 /\ 1..Len(Items) = 1..(Len(chain) - 2)
        BY <1>t, <3>1
      <4>3. /\ Append(Items, arg[t]) \in Seq(Value \cup {NoValue})
            /\ Len(Append(Items, arg[t])) = Len(Items) + 1
            /\ \A i \in 1..Len(Items) : Append(Items, arg[t])[i] = Items[i]
            /\ Append(Items, arg[t])[Len(Items) + 1] = arg[t]
        BY <3>1, <4>1, AppendProperties
      <4>4. \A i \in 1..(Len(chain) - 2) : Items[i] = data[chain[i]]
        BY <3>3
      <4> QED
        BY <4>2, <4>3, <4>4
    <3>7. \A i \in 1..(Len(chain) - 1) : Items'[i] = Append(Items, arg[t])[i]
      BY <1>t, <2>3, <3>2, <3>6
    <3> QED
      BY <3>5, <3>6, <3>7, SeqEqual
  <2>5. Got' = Got /\ answer' = answer
    BY <1>t, <2>1 DEF CountUp, Got, TypeOK
  <2>6. Fifo!Push(arg[t])
    BY <2>4, <2>5 DEF Fifo!Push
  <2> QED
    BY <2>3, <2>6 DEF Fifo!Next
<1>7. CASE \E t \in Threads : CallTryPop(t)
  <2>1. PICK t \in Threads : CallTryPop(t)
    BY <1>7
  <2>2. Uncounted' = Uncounted /\ Items' = Items
    <3>1. Uncounted' = Uncounted
      BY <1>t, <2>1 DEF CallTryPop, Uncounted, TypeOK
    <3>2. chain' = chain /\ data' = data
      BY <2>1 DEF CallTryPop
    <3> QED
      BY <3>1, <3>2, SameItems
  <2>3. Got' = Got /\ answer' = answer
    BY <1>t, <2>1 DEF CallTryPop, Got, TypeOK
  <2> QED
    BY <2>2, <2>3
<1>8. CASE \E t \in Threads : LockHead(t)
  <2>1. PICK t \in Threads : LockHead(t)
    BY <1>8
  <2>2. Uncounted' = Uncounted /\ Items' = Items
    <3>1. Uncounted' = Uncounted
      BY <1>t, <2>1 DEF LockHead, Uncounted, TypeOK
    <3>2. chain' = chain /\ data' = data
      BY <2>1 DEF LockHead
    <3> QED
      BY <3>1, <3>2, SameItems
  <2>3. Got' = Got /\ answer' = answer
    BY <1>t, <2>1 DEF LockHead, Got, TypeOK
  <2> QED
    BY <2>2, <2>3
<1>9. CASE \E t \in Threads : GetTail(t)
  <2>1. PICK t \in Threads : GetTail(t)
    BY <1>9
  <2>2. Uncounted = 0 /\ Uncounted' = Uncounted /\ chain' = chain /\ data' = data
    BY <1>t, <2>1, UncountedFacts DEF GetTail, Uncounted, TypeOK
  <2>3. Items' = Items /\ answer' = answer
    BY <2>1, <2>2, SameItems DEF GetTail
  <2>4. CASE head = tail
    <3>1. Len(chain) = 1
      <4>1. chain # <<>> /\ chain[1] = chain[Len(chain)]
        BY <2>4 DEF IInv, ListIsSound, ChainIsList
      <4>2. 1 \in 1..Len(chain) /\ Len(chain) \in 1..Len(chain)
        BY <1>t, <4>1, EmptySeq DEF TypeOK
      <4> QED
        BY <1>t, <4>1, <4>2 DEF IInv, ChainOK
    <3>2. Items = <<>>
      BY <2>2, <3>1, ItemsLength, EmptySeq
    <3>3. Got' = [Got EXCEPT ![t] = NoValue]
      BY <1>t, <2>1, <2>4 DEF GetTail, Got, TypeOK
    <3>4. Fifo!PopNothing(t)
      BY <2>3, <3>2, <3>3 DEF Fifo!PopNothing
    <3> QED
      BY <3>4 DEF Fifo!Next
  <2>5. CASE head # tail
    <3>1. Got' = Got
      BY <1>t, <2>1, <2>5 DEF GetTail, Got, TypeOK
    <3> QED
      BY <2>3, <3>1
  <2> QED
    BY <2>4, <2>5
<1>10. CASE \E t \in Threads : PopFails(t)
  <2>1. PICK t \in Threads : PopFails(t)
    BY <1>10
  <2>2. Uncounted' = Uncounted /\ Items' = Items
    <3>1. Uncounted' = Uncounted
      BY <1>t, <2>1 DEF PopFails, Uncounted, TypeOK
    <3>2. chain' = chain /\ data' = data
      BY <2>1 DEF PopFails
    <3> QED
      BY <3>1, <3>2, SameItems
  <2>3. Got' = Got /\ answer' = answer
    BY <1>t, <2>1 DEF PopFails, Got, TypeOK
  <2> QED
    BY <2>2, <2>3
<1>11. CASE \E t \in Threads : PopGoesOn(t)
  <2>1. PICK t \in Threads : PopGoesOn(t)
    BY <1>11
  <2>2. Uncounted' = Uncounted /\ Items' = Items
    <3>1. Uncounted' = Uncounted
      BY <1>t, <2>1 DEF PopGoesOn, Uncounted, TypeOK
    <3>2. chain' = chain /\ data' = data
      BY <2>1 DEF PopGoesOn
    <3> QED
      BY <3>1, <3>2, SameItems
  <2>3. Got' = Got /\ answer' = answer
    BY <1>t, <2>1 DEF PopGoesOn, Got, TypeOK
  <2> QED
    BY <2>2, <2>3
<1>12. CASE \E t \in Threads : PopHead(t)
  <2>1. PICK t \in Threads : PopHead(t)
    BY <1>12
  <2>2. Len(chain) > 1 /\ Len(chain) - Uncounted > 1
    BY <1>t, <2>1, PopHasNode DEF PopHead, IInv, PopOK
  <2>3. Uncounted' = Uncounted /\ data' = data /\ answer' = answer
    BY <1>t, <2>1 DEF PopHead, Uncounted, TypeOK
  <2>4. Len(chain') = Len(chain) - 1 /\ \A i \in 1..Len(chain) - 1 : chain'[i] = chain[i + 1]
    BY <1>t, <2>1, <2>2, SecondNode DEF PopHead, IInv, ListIsSound
  <2>5. /\ Items \in Seq(Value \cup {NoValue}) /\ Len(Items) = Len(chain) - 1 - Uncounted
        /\ Items # <<>> /\ head = chain[1] /\ Head(Items) = data[head]
    <3>1. Items \in Seq(Value \cup {NoValue}) /\ Len(Items) = Len(chain) - 1 - Uncounted
      BY ItemsLength
    <3>2. Len(Items) \in Nat \ {0} /\ 1 \in 1..(Len(chain) - 1 - Uncounted)
      <4>1. Len(chain) - 1 - Uncounted \in Nat /\ Len(chain) - 1 - Uncounted > 0
        BY <1>t, <2>2
      <4> QED
        BY <3>1, <4>1
    <3>3. Items[1] = data[chain[1]]
      BY <3>2 DEF Items
    <3>4. head = chain[1]
      BY DEF IInv, ListIsSound, ChainIsList
    <3>5. Items # <<>>
      BY <3>2
    <3> QED
      BY <3>1, <3>3, <3>4, <3>5
  <2>6. Items' = Tail(Items)
    <3>1. Items' = [i \in 1..(Len(chain) - 2 - Uncounted) |-> data[chain[i + 1]]]
      BY <1>t, <2>2, <2>3, <2>4 DEF Items
    <3>2. /\ Tail(Items) \in Seq(Value \cup {NoValue})
          /\ Len(Tail(Items)) = Len(chain) - 2 - Uncounted
          /\ \A i \in 1..Len(Tail(Items)) : Tail(Items)[i] = Items[i + 1]
      <4>1. Len(Items) - 1 = Len(chain) - 2 - Uncounted
        BY <1>t, <2>5
      <4> QED
        BY <2>5, <4>1, HeadTailProperties
    <3>3. \A i \in 1..(Len(chain) - 2 - Uncounted) :
            i + 1 \in 1..Len(chain) /\ Items[i + 1] = data[chain[i + 1]]
      BY <1>t, <2>2 DEF Items
    <3>4. Items' \in Seq(Value \cup {NoValue}) /\ Len(Items') = Len(chain) - 2 - Uncounted
      <4>1. \A i \in 1..(Len(chain) - 2 - Uncounted) : data[chain[i + 1]] \in Value \cup {NoValue}
        BY <1>t, <3>3 DEF TypeOK
      <4>2. Len(chain) - 2 - Uncounted \in Nat
        BY <1>t, <2>2
      <4> QED
        BY <3>1, <4>1, <4>2
    <3>5. \A i \in 1..Len(Items') : Items'[i] = Tail(Items)[i]
      BY <3>1, <3>2, <3>3, <3>4
    <3> QED
      BY <3>2, <3>4, <3>5, SeqEqual
  <2>7. Got' = [Got EXCEPT ![t] = data[head]]
    <3>1. \A u \in Threads : u # t => pc[u] \notin {"compare", "dec"}
      BY <2>1 DEF PopHead, IInv, LocksOK, HeadHeld
    <3> QED
      BY <1>t, <2>1, <2>3, <3>1 DEF PopHead, Got, TypeOK
  <2>8. Fifo!Pop(t)
    BY <2>3, <2>5, <2>6, <2>7 DEF Fifo!Pop
  <2> QED
    BY <2>8 DEF Fifo!Next
<1>13. CASE \E t \in Threads : CountDown(t)
  <2>1. PICK t \in Threads : CountDown(t)
    BY <1>13
  <2>2. Uncounted' = Uncounted /\ Items' = Items
    <3>1. Uncounted' = Uncounted
      BY <1>t, <2>1 DEF CountDown, Uncounted, TypeOK
    <3>2. chain' = chain /\ data' = data
      BY <2>1 DEF CountDown
    <3> QED
      BY <3>1, <3>2, SameItems
  <2>3. Got' = Got /\ answer' = answer
    BY <1>t, <2>1 DEF CountDown, Got, TypeOK
  <2> QED
    BY <2>2, <2>3
<1>14. CASE \E t \in Threads : MoveData(t)
  <2>1. PICK t \in Threads : MoveData(t)
    BY <1>14
  <2>2. Uncounted' = Uncounted /\ chain' = chain
        /\ \A n \in Node : n # mine[t] => data'[n] = data[n]
    BY <1>t, <2>1 DEF MoveData, Uncounted, TypeOK
  <2>3. \A i \in 1..Len(chain) : chain[i] \in Node /\ chain[i] # mine[t]
    BY <1>t, <1>h, <2>1 DEF MoveData, TypeOK
  <2>4. Items' = Items
    BY <1>t, <2>2, <2>3, SameItems
  <2>5. \A u \in Threads : u # t /\ pc[u] \in {"dec", "move"} => mine[u] # mine[t]
    BY <1>h, <2>1 DEF MoveData, IInv, HandsOK, Unlinked
  <2>6. Got' = Got /\ answer' = answer
    BY <1>t, <1>h, <2>1, <2>2, <2>5 DEF MoveData, Got, TypeOK
  <2> QED
    BY <2>4, <2>6
<1>15. CASE \E t \in Threads : DeleteNode(t)
  <2>1. PICK t \in Threads : DeleteNode(t)
    BY <1>15
  <2>2. Uncounted' = Uncounted /\ Items' = Items
    <3>1. Uncounted' = Uncounted
      BY <1>t, <2>1 DEF DeleteNode, Uncounted, TypeOK
    <3>2. chain' = chain /\ data' = data
      BY <2>1 DEF DeleteNode
    <3> QED
      BY <3>1, <3>2, SameItems
  <2>3. Got' = Got /\ answer' = answer
    BY <1>t, <2>1 DEF DeleteNode, Got, TypeOK
  <2> QED
    BY <2>2, <2>3
<1>16. CASE \E t \in Threads : Empty(t)
  <2>1. PICK t \in Threads : Empty(t)
    BY <1>16
  <2>2. Uncounted' = Uncounted /\ chain' = chain /\ data' = data
    BY <2>1 DEF Empty, Uncounted
  <2>3. Items' = Items /\ Got' = Got
    BY <2>1, <2>2, SameItems DEF Empty, Got
  <2>4. size = Len(Items)
    BY <1>t, <2>1, UntakenFacts, ItemsLength DEF Empty, IInv, SizeOK
  <2>5. (size = 0) = (Items = <<>>)
    BY <2>4, ItemsLength, EmptySeq
  <2>6. Fifo!Empty(t)
    BY <2>1, <2>3, <2>5 DEF Empty, Fifo!Empty
  <2> QED
    BY <2>6 DEF Fifo!Next
<1>17. CASE UNCHANGED vars
  BY <1>17 DEF Items, Uncounted, Got
<1> QED
  BY <1>1, <1>2, <1>3, <1>4, <1>5, <1>6, <1>7, <1>8, <1>9, <1>10, <1>11, <1>12, <1>13,
     <1>14, <1>15, <1>16, <1>17 DEF Next

(* The queue with two locks implements a first-in first-out queue whose      *)
(* push, try_pop and empty are indivisible, as the processors use it.       *)
THEOREM Implementation == Spec => ImplementsFifo
<1>1. Init => Fifo!Init
  BY InitFifo
<1>2. IInv /\ IInv' /\ [Next]_vars => [Fifo!Next]_(Fifo!vars)
  BY NextFifo
<1> QED
  BY <1>1, <1>2, Invariance, PTL DEF Spec, ImplementsFifo, Fifo!Spec
=============================================================================
