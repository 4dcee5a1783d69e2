---------------------------- MODULE ClientProofs ----------------------------
(***************************************************************************)
(* Proofs about Client, for any servers, any preferences of the slaves and *)
(* any number of requests and sockets.                                     *)
(***************************************************************************)
EXTENDS ClientInvariant, SequenceFacts, FiniteSetTheorems, WellFoundedInduction

USE DEF NoSocket, connVars, procVars, setupVars, loopVars, Quiet

-----------------------------------------------------------------------------
(* Sequences as lists of sockets.                                           *)

(* The elements of a longer list.                                           *)
LEMMA AppendSet ==
  ASSUME NEW S, NEW s \in Seq(S), NEW e \in S
  PROVE  ToSet(Append(s, e)) = ToSet(s) \cup {e}
<1>1. /\ Append(s, e) \in Seq(S) /\ Len(Append(s, e)) = Len(s) + 1 /\ Len(s) \in Nat
      /\ \A i \in 1..Len(s) : Append(s, e)[i] = s[i]
      /\ Append(s, e)[Len(s) + 1] = e
      /\ DOMAIN s = 1..Len(s) /\ DOMAIN Append(s, e) = 1..(Len(s) + 1)
  OBVIOUS
<1>2. 1..(Len(s) + 1) = 1..Len(s) \cup {Len(s) + 1}
  BY <1>1
<1> QED
  BY <1>1, <1>2 DEF ToSet

(* A list without repetitions stays one when something new is added.         *)
LEMMA AppendDistinct ==
  ASSUME NEW S, NEW s \in Seq(S), NEW e \in S, e \notin ToSet(s),
         \A i, j \in DOMAIN s : s[i] = s[j] => i = j
  PROVE  \A i, j \in DOMAIN Append(s, e) : Append(s, e)[i] = Append(s, e)[j] => i = j
<1>1. /\ Append(s, e) \in Seq(S) /\ Len(Append(s, e)) = Len(s) + 1 /\ Len(s) \in Nat
      /\ \A i \in 1..Len(s) : Append(s, e)[i] = s[i]
      /\ Append(s, e)[Len(s) + 1] = e
      /\ DOMAIN s = 1..Len(s) /\ DOMAIN Append(s, e) = 1..(Len(s) + 1)
  OBVIOUS
<1>2. \A i \in 1..Len(s) : s[i] # e
  BY <1>1 DEF ToSet
<1>3. \A i \in 1..(Len(s) + 1) : i \in 1..Len(s) \/ i = Len(s) + 1
  BY <1>1
<1> QED
  BY <1>1, <1>2, <1>3

(* The elements of a sequence are of its type.                               *)
LEMMA SetOfSeq ==
  ASSUME NEW S, NEW s \in Seq(S)
  PROVE  ToSet(s) \subseteq S
BY DEF ToSet

(* What is counted once in a list without repetitions.                       *)
LEMMA CountsOnce ==
  ASSUME NEW S, NEW s \in Seq(S), NEW e,
         \A i, j \in DOMAIN s : s[i] = s[j] => i = j
  PROVE  /\ Cardinality({i \in DOMAIN s : s[i] = e}) = IF e \in ToSet(s) THEN 1 ELSE 0
<1> DEFINE C == {i \in DOMAIN s : s[i] = e}
<1>1. CASE e \in ToSet(s)
  <2>1. PICK i \in DOMAIN s : s[i] = e
    BY <1>1 DEF ToSet
  <2>2. C = {i}
    BY <2>1
  <2>3. Cardinality({i}) = 1
    BY FS_Singleton
  <2> QED
    BY <1>1, <2>2, <2>3
<1>2. CASE e \notin ToSet(s)
  <2>1. C = {}
    BY <1>2 DEF ToSet
  <2> QED
    BY <1>2, <2>1, FS_EmptySet
<1> QED
  BY <1>1, <1>2

(* A list without repetitions has as many elements as it is long.            *)
LEMMA DistinctCounts ==
  ASSUME NEW S, NEW s \in Seq(S), \A i, j \in DOMAIN s : s[i] = s[j] => i = j
  PROVE  Cardinality(ToSet(s)) = Len(s)
<1>1. s \in [1..Len(s) -> S] /\ Len(s) \in Nat /\ DOMAIN s = 1..Len(s)
  OBVIOUS
<1>2. s \in [1..Len(s) -> ToSet(s)]
  BY <1>1 DEF ToSet
<1>3. s \in Injection(1..Len(s), ToSet(s))
  BY <1>1, <1>2 DEF Injection, IsInjective
<1>4. s \in Surjection(1..Len(s), ToSet(s))
  BY <1>1, <1>2 DEF Surjection, ToSet
<1>5. s \in Bijection(1..Len(s), ToSet(s))
  BY <1>3, <1>4 DEF Bijection
<1>6. ExistsBijection(1..Len(s), ToSet(s))
  BY <1>5 DEF ExistsBijection
<1> QED
  BY <1>1, <1>6, FS_CountingElements

(* A set of sockets that is not empty has a least one.                       *)
LEMMA MinIsIn ==
  ASSUME NEW S, S \subseteq Sockets, S # {}
  PROVE  Min(S) \in S
<1>1. S \subseteq Nat
  BY SocketAssumption DEF Sockets
<1>2. \E x \in S : \A y \in S : <<y, x>> \notin OpToRel(<, Nat)
  BY <1>1, NatLessThanWellFounded, WFMin
<1>3. \A x, y \in Nat : y < x => <<y, x>> \in OpToRel(<, Nat)
  <2>1. OpToRel(<, Nat) = {ss \in Nat \X Nat : ss[1] < ss[2]}
    BY Zenon DEF OpToRel
  <2> QED
    BY <2>1
<1>4. PICK x \in S : \A y \in S : <<y, x>> \notin OpToRel(<, Nat)
  BY <1>2
<1>5. \A y \in S : ~(y < x)
  BY <1>1, <1>3, <1>4
<1>6. \A y \in S : x <= y
  BY <1>1, <1>5
<1> QED
  BY <1>6 DEF Min

-----------------------------------------------------------------------------
(* The steps of the chain, and the processor that each makes.               *)

Procs == {"master_pipeline", "master_serial", "pipeline", "serial"}
StepType == [proc : Procs, server : Servers, pref : 0..10]

(* The slaves' steps are one for each slave.                                *)
LEMMA UnitsFacts ==
  ASSUME SetupTypeOK, NEW proc \in {"pipeline", "serial"}
  PROVE  /\ Units(proc) \in Seq(StepType) /\ Len(Units(proc)) = Len(slave_pool)
         /\ \A i \in 1..Len(slave_pool) : Units(proc)[i].proc = proc /\ Units(proc)[i].pref \in 1..10
<1>1. /\ slave_pool \in Seq(Unit) /\ Len(slave_pool) \in Nat /\ DOMAIN slave_pool = 1..Len(slave_pool)
      /\ \A i \in 1..Len(slave_pool) : slave_pool[i] \in Unit
  BY DEF SetupTypeOK
<1>2. \A i \in 1..Len(slave_pool) : slave_pool[i].server \in Servers /\ slave_pool[i].pref \in 1..10
  BY <1>1 DEF Unit
<1> DEFINE u(i) == [proc |-> proc, server |-> slave_pool[i].server, pref |-> slave_pool[i].pref]
<1>3. \A i \in 1..Len(slave_pool) : u(i) \in StepType /\ u(i).proc = proc /\ u(i).pref \in 1..10
  BY <1>2 DEF StepType, Procs
<1>4. Units(proc) = [i \in 1..Len(slave_pool) |-> u(i)]
  BY <1>1 DEF Units
<1> HIDE DEF u
<1> QED
  BY <1>1, <1>3, <1>4

(* Which step makes what, and where from.                                    *)
LEMMA StepsFacts ==
  ASSUME SetupTypeOK
  PROVE  /\ MasterSteps \in {0, 2} /\ (master_conn <=> MasterSteps = 2) /\ Len(slave_pool) \in Nat
         /\ Len(Steps) = MasterSteps + Len(slave_pool) + Len(slave_pool)
         /\ DOMAIN Steps = 1..Len(Steps)
         /\ \A k \in 1..Len(Steps) :
              /\ Steps[k].server \in Servers
              /\ k <= MasterSteps /\ k = 1 => Steps[k].proc = "master_pipeline"
              /\ k <= MasterSteps /\ k # 1 => Steps[k].proc = "master_serial"
              /\ k > MasterSteps /\ k <= MasterSteps + Len(slave_pool) =>
                   Steps[k].proc = "pipeline" /\ Steps[k].pref \in 1..10
              /\ k > MasterSteps + Len(slave_pool) =>
                   Steps[k].proc = "serial" /\ Steps[k].pref \in 1..10
<1> DEFINE m == IF master_conn THEN <<OfMaster("master_pipeline"), OfMaster("master_serial")>> ELSE <<>>
           n == Len(slave_pool)
           p == Units("pipeline")
           q == Units("serial")
<1>1. n \in Nat /\ MasterSteps \in {0, 2} /\ (master_conn <=> MasterSteps = 2)
  BY DEF SetupTypeOK, MasterSteps
<1>2. OfMaster("master_pipeline") \in StepType /\ OfMaster("master_serial") \in StepType
  BY CallAssumption DEF OfMaster, StepType, Procs
<1>3. /\ m \in Seq(StepType) /\ Len(m) = MasterSteps
      /\ MasterSteps = 2 => m[1].proc = "master_pipeline" /\ m[2].proc = "master_serial"
  <2>1. CASE master_conn
    BY <1>2, <2>1 DEF MasterSteps, OfMaster
  <2>2. CASE ~master_conn
    BY <2>2 DEF MasterSteps
  <2> QED
    BY <2>1, <2>2
<1>4. /\ p \in Seq(StepType) /\ Len(p) = n
      /\ \A i \in 1..n : p[i].proc = "pipeline" /\ p[i].pref \in 1..10
  BY UnitsFacts
<1>5. /\ q \in Seq(StepType) /\ Len(q) = n
      /\ \A i \in 1..n : q[i].proc = "serial" /\ q[i].pref \in 1..10
  BY UnitsFacts
<1>6. Steps = (m \o p) \o q
  BY DEF Steps
<1> HIDE DEF m, n, p, q
<1>7. /\ m \o p \in Seq(StepType) /\ Len(m \o p) = MasterSteps + n
      /\ \A i \in 1..(MasterSteps + n) : (m \o p)[i] = IF i <= MasterSteps THEN m[i] ELSE p[i - MasterSteps]
  BY <1>1, <1>3, <1>4, ConcatProperties
<1> DEFINE mp == m \o p
<1> HIDE DEF mp
<1>8. /\ mp \in Seq(StepType) /\ Len(mp) = MasterSteps + n /\ Steps = mp \o q
      /\ \A i \in 1..MasterSteps : mp[i] = m[i]
      /\ \A i \in 1..(MasterSteps + n) : i > MasterSteps => mp[i] = p[i - MasterSteps]
  <2>1. /\ mp \in Seq(StepType) /\ Len(mp) = MasterSteps + n /\ Steps = mp \o q
        /\ \A i \in 1..(MasterSteps + n) : mp[i] = IF i <= MasterSteps THEN m[i] ELSE p[i - MasterSteps]
    BY <1>6, <1>7 DEF mp
  <2>2. \A i \in 1..MasterSteps : i \in 1..(MasterSteps + n) /\ i <= MasterSteps
    BY <1>1
  <2>3. \A i \in 1..(MasterSteps + n) : i > MasterSteps => ~(i <= MasterSteps)
    BY <1>1
  <2>4. \A i \in 1..MasterSteps : mp[i] = m[i]
    BY <2>1, <2>2
  <2>5. \A i \in 1..(MasterSteps + n) : i > MasterSteps => mp[i] = p[i - MasterSteps]
    BY <2>1, <2>3
  <2> QED
    BY <2>1, <2>4, <2>5
<1>9. /\ Steps \in Seq(StepType) /\ Len(Steps) = MasterSteps + n + n
      /\ \A i \in 1..(MasterSteps + n + n) :
           Steps[i] = IF i <= MasterSteps + n THEN mp[i] ELSE q[i - (MasterSteps + n)]
  <2>1. /\ mp \o q \in Seq(StepType) /\ Len(mp \o q) = Len(mp) + Len(q)
        /\ \A i \in 1..(Len(mp) + Len(q)) : (mp \o q)[i] = IF i <= Len(mp) THEN mp[i] ELSE q[i - Len(mp)]
    BY <1>5, <1>8, ConcatProperties
  <2> QED
    BY <1>1, <1>5, <1>8, <2>1
<1>10. ASSUME NEW k \in 1..Len(Steps)
      PROVE  /\ Steps[k].server \in Servers
             /\ k <= MasterSteps /\ k = 1 => Steps[k].proc = "master_pipeline"
             /\ k <= MasterSteps /\ k # 1 => Steps[k].proc = "master_serial"
             /\ k > MasterSteps /\ k <= MasterSteps + n => Steps[k].proc = "pipeline" /\ Steps[k].pref \in 1..10
             /\ k > MasterSteps + n => Steps[k].proc = "serial" /\ Steps[k].pref \in 1..10
  <2>1. Steps[k] \in StepType
    BY <1>9
  <2>2. CASE k <= MasterSteps
    <3>1. MasterSteps = 2 /\ (k = 1 \/ k = 2) /\ k \in 1..(MasterSteps + n)
      BY <1>1, <2>2
    <3>2. Steps[k] = m[k]
      BY <1>1, <1>8, <1>9, <2>2, <3>1
    <3> QED
      BY <1>1, <1>3, <2>1, <2>2, <3>1, <3>2 DEF StepType
  <2>3. CASE k > MasterSteps /\ k <= MasterSteps + n
    <3>1. k \in 1..(MasterSteps + n) /\ k - MasterSteps \in 1..n
      BY <1>1, <2>3
    <3>2. Steps[k] = mp[k]
      BY <1>1, <1>9, <2>3
    <3>3. mp[k] = p[k - MasterSteps]
      BY <1>1, <1>8, <2>3, <3>1
    <3> QED
      BY <1>1, <1>4, <2>1, <2>3, <3>1, <3>2, <3>3 DEF StepType
  <2>4. CASE k > MasterSteps + n
    <3>1. k - (MasterSteps + n) \in 1..n
      BY <1>1, <1>9, <2>4
    <3>2. Steps[k] = q[k - (MasterSteps + n)]
      BY <1>1, <1>9, <2>4
    <3> QED
      BY <1>1, <1>5, <2>1, <2>4, <3>1, <3>2 DEF StepType
  <2> QED
    BY <1>1, <2>2, <2>3, <2>4
<1> QED
  BY <1>1, <1>9, <1>10 DEF n


(* A unit at the end of the list, its points at the end of the map.          *)
LEMMA AddUnitFacts ==
  ASSUME NEW pool \in Pool, NEW s \in Sockets, NEW pref \in 1..10
  PROVE  /\ add_unit(pool, s, pref) \in Pool
         /\ add_unit(pool, s, pref).list = Append(pool.list, s)
         /\ Len(add_unit(pool, s, pref).list) = Len(pool.list) + 1
         /\ ToSet(add_unit(pool, s, pref).list) = ToSet(pool.list) \cup {s}
         /\ \A limit \in Nat :
              (\A i \in DOMAIN pool.map : pool.map[i] < limit) /\ Len(pool.list) < limit =>
                \A i \in DOMAIN add_unit(pool, s, pref).map : add_unit(pool, s, pref).map[i] < limit
<1> DEFINE points == [k \in 1..pref |-> Len(pool.list)]
           new == add_unit(pool, s, pref)
<1>1. pool.list \in Seq(Sockets) /\ pool.map \in Seq(Nat) /\ Len(pool.list) \in Nat
  BY DEF Pool
<1>2. points \in Seq(Nat) /\ Len(points) = pref /\ \A k \in 1..pref : points[k] = Len(pool.list)
  BY <1>1
<1>3. new = [list |-> Append(pool.list, s), map |-> pool.map \o points]
  BY DEF add_unit, last_index
<1> HIDE DEF points, new
<1>4. /\ pool.map \o points \in Seq(Nat) /\ Len(pool.map \o points) = Len(pool.map) + Len(points)
      /\ \A i \in 1..(Len(pool.map) + Len(points)) :
           (pool.map \o points)[i] = IF i <= Len(pool.map) THEN pool.map[i] ELSE points[i - Len(pool.map)]
  BY <1>1, <1>2, ConcatProperties
<1>5. new \in Pool /\ new.list = Append(pool.list, s) /\ new.map = pool.map \o points
  BY <1>1, <1>3, <1>4 DEF Pool
<1>6. Len(new.list) = Len(pool.list) + 1
  BY <1>1, <1>5
<1>7. ToSet(new.list) = ToSet(pool.list) \cup {s}
  BY <1>1, <1>5, AppendSet
<1>8. ASSUME NEW limit \in Nat, \A i \in DOMAIN pool.map : pool.map[i] < limit, Len(pool.list) < limit
      PROVE  \A i \in DOMAIN new.map : new.map[i] < limit
  <2>1. Len(pool.map) \in Nat /\ DOMAIN new.map = 1..(Len(pool.map) + pref)
        /\ DOMAIN pool.map = 1..Len(pool.map)
    BY <1>1, <1>2, <1>4, <1>5
  <2>2. ASSUME NEW i \in 1..(Len(pool.map) + pref)
        PROVE  new.map[i] < limit
    <3>1. CASE i <= Len(pool.map)
      <4>1. i \in DOMAIN pool.map
        BY <2>1, <3>1
      <4>2. new.map[i] = pool.map[i]
        BY <1>2, <1>4, <1>5, <2>1, <3>1
      <4> QED
        BY <1>8, <4>1, <4>2
    <3>2. CASE i > Len(pool.map)
      <4>1. i - Len(pool.map) \in 1..pref
        BY <2>1, <3>2
      <4>2. new.map[i] = points[i - Len(pool.map)]
        BY <1>2, <1>4, <1>5, <2>1, <3>2
      <4> QED
        BY <1>2, <1>8, <4>1, <4>2
    <3> QED
      BY <2>1, <3>1, <3>2
  <2> QED
    BY <2>1, <2>2
<1> QED
  BY <1>5, <1>6, <1>7, <1>8 DEF new

(* The processor that step k makes of a socket.                              *)
LEMMA InstallCases ==
  ASSUME SetupTypeOK, NEW s \in Sockets, NEW k \in 1..Len(Steps), Install(s, k)
  PROVE  /\ open' \subseteq open
         /\ \/ /\ master_conn /\ k = 1
               /\ master_pipeline' = s /\ UNCHANGED <<master_serial, pipeline_pool, serial_pool>>
               /\ failed' = failed \ {s, master_pipeline}
            \/ /\ master_conn /\ k = 2
               /\ master_serial' = s /\ UNCHANGED <<master_pipeline, pipeline_pool, serial_pool>>
               /\ failed' = failed \ {s, master_serial}
            \/ /\ k > MasterSteps /\ k <= MasterSteps + Len(slave_pool)
               /\ pipeline_pool' = add_unit(pipeline_pool, s, Steps[k].pref) /\ Steps[k].pref \in 1..10
               /\ UNCHANGED <<master_pipeline, master_serial, serial_pool>> /\ failed' = failed \ {s}
            \/ /\ k > MasterSteps + Len(slave_pool)
               /\ serial_pool' = add_unit(serial_pool, s, Steps[k].pref) /\ Steps[k].pref \in 1..10
               /\ UNCHANGED <<master_pipeline, master_serial, pipeline_pool>> /\ failed' = failed \ {s}
<1> DEFINE proc == Steps[k].proc
           replaced == CASE proc = "master_pipeline" -> {master_pipeline}
                         [] proc = "master_serial" -> {master_serial}
                         [] OTHER -> {}
<1>1. /\ master_pipeline' = IF proc = "master_pipeline" THEN s ELSE master_pipeline
      /\ master_serial' = IF proc = "master_serial" THEN s ELSE master_serial
      /\ pipeline_pool' = IF proc = "pipeline" THEN add_unit(pipeline_pool, s, Steps[k].pref) ELSE pipeline_pool
      /\ serial_pool' = IF proc = "serial" THEN add_unit(serial_pool, s, Steps[k].pref) ELSE serial_pool
      /\ open' = open \ replaced
      /\ failed' = failed \ ({s} \cup replaced)
  BY DEF Install
<1>2. open' \subseteq open
  BY <1>1
<1>3. /\ MasterSteps \in {0, 2} /\ (master_conn <=> MasterSteps = 2) /\ Len(slave_pool) \in Nat
      /\ k <= MasterSteps /\ k = 1 => proc = "master_pipeline"
      /\ k <= MasterSteps /\ k # 1 => proc = "master_serial"
      /\ k > MasterSteps /\ k <= MasterSteps + Len(slave_pool) => proc = "pipeline" /\ Steps[k].pref \in 1..10
      /\ k > MasterSteps + Len(slave_pool) => proc = "serial" /\ Steps[k].pref \in 1..10
      /\ k \in Nat \ {0}
  BY StepsFacts
<1> HIDE DEF proc
<1>4. CASE k <= MasterSteps /\ k = 1
  BY <1>1, <1>2, <1>3, <1>4
<1>5. CASE k <= MasterSteps /\ k # 1
  <2>1. master_conn /\ k = 2
    BY <1>3, <1>5
  <2> QED
    BY <1>1, <1>2, <1>3, <1>5, <2>1
<1>6. CASE k > MasterSteps /\ k <= MasterSteps + Len(slave_pool)
  BY <1>1, <1>2, <1>3, <1>6
<1>7. CASE k > MasterSteps + Len(slave_pool)
  <2>1. proc = "serial" /\ Steps[k].pref \in 1..10
    BY <1>3, <1>7
  <2> QED
    BY <1>1, <1>2, <1>3, <1>7, <2>1
<1> QED
  BY <1>3, <1>4, <1>5, <1>6, <1>7

(* A processor takes a socket that no other has.                             *)
LEMMA InstallHeld ==
  ASSUME SetupTypeOK, DistinctOK, NEW s \in Sockets, s \notin held, NEW k \in 1..Len(Steps), Install(s, k),
         UNCHANGED setupVars
  PROVE  SetupTypeOK' /\ DistinctOK' /\ held' \subseteq held \cup {s}
<1>0. s # 0
  BY SocketAssumption DEF Sockets
<1>1. /\ master_conn \in BOOLEAN /\ slave_pool \in Seq(Unit) /\ UNCHANGED <<master_conn, slave_pool>>
      /\ master_pipeline \in Sockets \cup {0} /\ master_serial \in Sockets \cup {0}
      /\ pipeline_pool \in Pool /\ serial_pool \in Pool
      /\ pipeline_pool.list \in Seq(Sockets) /\ serial_pool.list \in Seq(Sockets)
      /\ failed \subseteq held
  BY DEF SetupTypeOK, setupVars, Pool
<1>2. s # master_pipeline /\ s # master_serial /\ s \notin ToSet(pipeline_pool.list)
      /\ s \notin ToSet(serial_pool.list)
  BY <1>0 DEF held
<1>3. CASE /\ master_pipeline' = s /\ UNCHANGED <<master_serial, pipeline_pool, serial_pool>>
           /\ failed' = failed \ {s, master_pipeline}
  <2>1. held' \subseteq held \cup {s} /\ held \ {master_pipeline} \subseteq held'
    BY <1>0, <1>3 DEF held
  <2>2. failed' \subseteq held'
    BY <1>1, <1>3, <2>1
  <2>3. SetupTypeOK'
    BY <1>1, <1>3, <2>2 DEF SetupTypeOK
  <2>4. DistinctOK'
    BY <1>2, <1>3 DEF DistinctOK
  <2> QED
    BY <2>1, <2>3, <2>4
<1>4. CASE /\ master_serial' = s /\ UNCHANGED <<master_pipeline, pipeline_pool, serial_pool>>
           /\ failed' = failed \ {s, master_serial}
  <2>1. held' \subseteq held \cup {s} /\ held \ {master_serial} \subseteq held'
    BY <1>0, <1>4 DEF held
  <2>2. failed' \subseteq held'
    BY <1>1, <1>4, <2>1
  <2>3. SetupTypeOK'
    BY <1>1, <1>4, <2>2 DEF SetupTypeOK
  <2>4. DistinctOK'
    BY <1>2, <1>4 DEF DistinctOK
  <2> QED
    BY <2>1, <2>3, <2>4
<1>5. CASE /\ pipeline_pool' = add_unit(pipeline_pool, s, Steps[k].pref) /\ Steps[k].pref \in 1..10
           /\ UNCHANGED <<master_pipeline, master_serial, serial_pool>> /\ failed' = failed \ {s}
  <2>1. /\ pipeline_pool' \in Pool /\ pipeline_pool'.list = Append(pipeline_pool.list, s)
        /\ ToSet(pipeline_pool'.list) = ToSet(pipeline_pool.list) \cup {s}
    BY <1>1, <1>5, AddUnitFacts
  <2>2. held' = held \cup {s}
    BY <1>0, <1>5, <2>1 DEF held
  <2>3. SetupTypeOK'
    BY <1>1, <1>5, <2>1, <2>2 DEF SetupTypeOK
  <2>4. \A i, j \in DOMAIN pipeline_pool'.list : pipeline_pool'.list[i] = pipeline_pool'.list[j] => i = j
    <3>1. \A i, j \in DOMAIN pipeline_pool.list : pipeline_pool.list[i] = pipeline_pool.list[j] => i = j
      BY DEF DistinctOK
    <3> QED
      BY <1>1, <1>2, <2>1, <3>1, AppendDistinct
  <2>5. DistinctOK'
    BY <1>2, <1>5, <2>1, <2>4 DEF DistinctOK
  <2> QED
    BY <2>2, <2>3, <2>5
<1>6. CASE /\ serial_pool' = add_unit(serial_pool, s, Steps[k].pref) /\ Steps[k].pref \in 1..10
           /\ UNCHANGED <<master_pipeline, master_serial, pipeline_pool>> /\ failed' = failed \ {s}
  <2>1. /\ serial_pool' \in Pool /\ serial_pool'.list = Append(serial_pool.list, s)
        /\ ToSet(serial_pool'.list) = ToSet(serial_pool.list) \cup {s}
    BY <1>1, <1>6, AddUnitFacts
  <2>2. held' = held \cup {s}
    BY <1>0, <1>6, <2>1 DEF held
  <2>3. SetupTypeOK'
    BY <1>1, <1>6, <2>1, <2>2 DEF SetupTypeOK
  <2>4. \A i, j \in DOMAIN serial_pool'.list : serial_pool'.list[i] = serial_pool'.list[j] => i = j
    <3>1. \A i, j \in DOMAIN serial_pool.list : serial_pool.list[i] = serial_pool.list[j] => i = j
      BY DEF DistinctOK
    <3> QED
      BY <1>1, <1>2, <2>1, <3>1, AppendDistinct
  <2>5. DistinctOK'
    BY <1>2, <1>6, <2>1, <2>4 DEF DistinctOK
  <2> QED
    BY <2>2, <2>3, <2>5
<1> QED
  BY <1>3, <1>4, <1>5, <1>6, InstallCases

(* What there is grows by the processor of step k.                           *)
LEMMA InstallBuilds ==
  ASSUME SetupTypeOK, NEW s \in Sockets, NEW k \in 1..Len(Steps), Install(s, k), Built(k), UNCHANGED setupVars,
         MapOK(pipeline_pool), MapOK(serial_pool)
  PROVE  Built(k + 1)' /\ MapOK(pipeline_pool)' /\ MapOK(serial_pool)'
<1> DEFINE n == Len(slave_pool)
<1>1. /\ UNCHANGED <<master_conn, slave_pool>> /\ n \in Nat /\ MasterSteps \in {0, 2}
      /\ (master_conn <=> MasterSteps = 2) /\ Len(Steps) = MasterSteps + n + n /\ k \in Nat \ {0}
      /\ k <= Len(Steps) /\ MasterSteps' = MasterSteps /\ s # 0
  <2>1. UNCHANGED <<master_conn, slave_pool>>
    BY DEF setupVars
  <2>2. MasterSteps' = MasterSteps
    BY <2>1 DEF MasterSteps
  <2>3. s # 0
    BY SocketAssumption DEF Sockets
  <2>4. /\ n \in Nat /\ MasterSteps \in {0, 2}
        /\ (master_conn <=> MasterSteps = 2) /\ Len(Steps) = MasterSteps + n + n
    BY StepsFacts
  <2>5. k \in Nat \ {0} /\ k <= Len(Steps)
    BY <2>4
  <2> QED
    BY <2>1, <2>2, <2>3, <2>4, <2>5
<1>2. /\ pipeline_pool \in Pool /\ serial_pool \in Pool
      /\ Len(pipeline_pool.list) \in Nat /\ Len(serial_pool.list) \in Nat
  BY DEF SetupTypeOK, Pool
<1>3. /\ master_conn /\ k > 1 => master_pipeline # 0
      /\ master_conn /\ k > 2 => master_serial # 0
      /\ Len(pipeline_pool.list) = UpTo(k - 1 - MasterSteps, n)
      /\ Len(serial_pool.list) = UpTo(k - 1 - MasterSteps - n, n)
  BY DEF Built
<1>4. SUFFICES /\ master_conn => master_pipeline' # 0
               /\ master_conn /\ k > 1 => master_serial' # 0
               /\ Len(pipeline_pool'.list) = UpTo(k - MasterSteps, n)
               /\ Len(serial_pool'.list) = UpTo(k - MasterSteps - n, n)
               /\ MapOK(pipeline_pool)' /\ MapOK(serial_pool)'
  <2>1. (k + 1) - 1 = k /\ (k + 1 > 1) /\ (k + 1 > 2 <=> k > 1)
    BY <1>1
  <2> QED
    BY <1>1, <2>1 DEF Built
<1>5. CASE /\ master_conn /\ k = 1
           /\ master_pipeline' = s /\ UNCHANGED <<master_serial, pipeline_pool, serial_pool>>
  BY <1>1, <1>3, <1>5 DEF UpTo, MapOK
<1>6. CASE /\ master_conn /\ k = 2
           /\ master_serial' = s /\ UNCHANGED <<master_pipeline, pipeline_pool, serial_pool>>
  BY <1>1, <1>3, <1>6 DEF UpTo, MapOK
<1>7. CASE /\ k > MasterSteps /\ k <= MasterSteps + n
           /\ pipeline_pool' = add_unit(pipeline_pool, s, Steps[k].pref) /\ Steps[k].pref \in 1..10
           /\ UNCHANGED <<master_pipeline, master_serial, serial_pool>>
  <2>1. Len(pipeline_pool.list) = k - 1 - MasterSteps /\ Len(pipeline_pool.list) < n
    BY <1>1, <1>3, <1>7 DEF UpTo
  <2>2. /\ Len(pipeline_pool'.list) = Len(pipeline_pool.list) + 1
        /\ \A i \in DOMAIN pipeline_pool'.map : pipeline_pool'.map[i] < n
    BY <1>1, <1>2, <1>7, <2>1, AddUnitFacts DEF MapOK
  <2>3. MapOK(pipeline_pool)' /\ MapOK(serial_pool)'
    BY <1>1, <1>7, <2>2 DEF MapOK
  <2>4. master_conn => master_pipeline # 0 /\ (k > 1 => master_serial # 0)
    BY <1>1, <1>3, <1>7
  <2>5. Len(serial_pool.list) = 0 /\ UpTo(k - MasterSteps - n, n) = 0 /\ UpTo(k - MasterSteps, n) = k - MasterSteps
    BY <1>1, <1>3, <1>7 DEF UpTo
  <2> QED
    BY <1>1, <1>7, <2>1, <2>2, <2>3, <2>4, <2>5
<1>8. CASE /\ k > MasterSteps + n
           /\ serial_pool' = add_unit(serial_pool, s, Steps[k].pref) /\ Steps[k].pref \in 1..10
           /\ UNCHANGED <<master_pipeline, master_serial, pipeline_pool>>
  <2>1. Len(serial_pool.list) = k - 1 - MasterSteps - n /\ Len(serial_pool.list) < n
    BY <1>1, <1>3, <1>8 DEF UpTo
  <2>2. /\ Len(serial_pool'.list) = Len(serial_pool.list) + 1
        /\ \A i \in DOMAIN serial_pool'.map : serial_pool'.map[i] < n
    BY <1>1, <1>2, <1>8, <2>1, AddUnitFacts DEF MapOK
  <2>3. MapOK(pipeline_pool)' /\ MapOK(serial_pool)'
    BY <1>1, <1>8, <2>2 DEF MapOK
  <2>4. master_conn => master_pipeline # 0 /\ (k > 1 => master_serial # 0)
    BY <1>1, <1>3, <1>8
  <2>5. /\ Len(pipeline_pool.list) = n /\ UpTo(k - MasterSteps, n) = n
        /\ UpTo(k - MasterSteps - n, n) = k - MasterSteps - n
    BY <1>1, <1>3, <1>8 DEF UpTo
  <2> QED
    BY <1>1, <1>8, <2>1, <2>2, <2>3, <2>4, <2>5
<1> QED
  BY <1>5, <1>6, <1>7, <1>8, InstallCases

(* head_to_tail turns the list, and leaves what is in it.                    *)
LEMMA RotatedFacts ==
  ASSUME NEW S, NEW q \in Seq(S), NEW i \in DOMAIN q
  PROVE  /\ Rotated(q, i) \in Seq(S) /\ Len(Rotated(q, i)) = Len(q)
         /\ \A k \in 1..Len(q) : Rotated(q, i)[k] \in ToSet(q)
         /\ (\A k, l \in DOMAIN q : q[k] = q[l] => k = l) =>
              \A k, l \in 1..Len(q) : Rotated(q, i)[k] = Rotated(q, i)[l] => k = l
<1> DEFINE n == Len(q)
           a == SubSeq(q, i + 1, n)
           b == SubSeq(q, 1, i)
           at(k) == IF k <= n - i THEN i + k ELSE k - (n - i)
<1>1. n \in Nat /\ i \in 1..n /\ DOMAIN q = 1..n /\ q \in Seq(S)
  OBVIOUS
<1>2. a \in Seq(S) /\ Len(a) = n - i /\ \A k \in 1..(n - i) : a[k] = q[i + k]
  <2>1. i + 1 \in 1..n + 1 /\ \A k \in i + 1..n : q[k] \in S
    BY <1>1
  <2> DEFINE m == i + 1
  <2> HIDE DEF m
  <2>2. /\ SubSeq(q, m, n) \in Seq(S) /\ Len(SubSeq(q, m, n)) = IF m <= n THEN n - m + 1 ELSE 0
        /\ \A k \in 1..n - m + 1 : SubSeq(q, m, n)[k] = q[m + k - 1]
    BY <1>1, <2>1, SubSeqProperties DEF m
  <2>3. n - m + 1 = n - i /\ (m > n => n - i = 0) /\ \A k \in 1..(n - i) : m + k - 1 = i + k
    BY <1>1 DEF m
  <2>4. m \in Int /\ m = i + 1
    BY <1>1 DEF m
  <2> QED
    BY <1>1, <2>2, <2>3, <2>4
<1>3. b \in Seq(S) /\ Len(b) = i /\ \A k \in 1..i : b[k] = q[k]
  BY <1>1
<1>4. Rotated(q, i) = a \o b
  BY DEF Rotated
<1> HIDE DEF a, b, n
<1>5. /\ a \o b \in Seq(S) /\ Len(a \o b) = Len(a) + Len(b)
      /\ \A k \in 1..(Len(a) + Len(b)) : (a \o b)[k] = IF k <= Len(a) THEN a[k] ELSE b[k - Len(a)]
  BY <1>2, <1>3, ConcatProperties
<1>6. Len(a) + Len(b) = n
  BY <1>1, <1>2, <1>3
<1>7. ASSUME NEW k \in 1..n
      PROVE  (a \o b)[k] = q[at(k)] /\ at(k) \in 1..n
  <2>1. CASE k <= n - i
    <3>1. k \in 1..(n - i) /\ i + k \in 1..n
      BY <1>1, <2>1
    <3> QED
      BY <1>2, <1>5, <1>6, <2>1, <3>1
  <2>2. CASE k > n - i
    <3>1. k - (n - i) \in 1..i /\ k - (n - i) \in 1..n /\ ~(k <= n - i)
      BY <1>1, <2>2
    <3>2. (a \o b)[k] = b[k - (n - i)]
      BY <1>2, <1>5, <1>6, <3>1
    <3> QED
      BY <1>3, <3>1, <3>2
  <2>3. k <= n - i \/ k > n - i
    BY <1>1
  <2> HIDE DEF at
  <2> QED
    BY <2>1, <2>2, <2>3
<1>8. \A k, l \in 1..n : at(k) = at(l) => k = l
  BY <1>1
<1> HIDE DEF at
<1>9. \A k \in 1..n : (a \o b)[k] \in ToSet(q)
  BY <1>1, <1>7 DEF ToSet
<1>10. ASSUME \A k, l \in DOMAIN q : q[k] = q[l] => k = l
       PROVE  \A k, l \in 1..n : (a \o b)[k] = (a \o b)[l] => k = l
  <2>1. \A k, l \in 1..n : (a \o b)[k] = (a \o b)[l] => at(k) = at(l)
    BY <1>1, <1>7, <1>10
  <2> QED
    BY <1>8, <2>1
<1> QED
  BY <1>4, <1>5, <1>6, <1>9, <1>10 DEF n

-----------------------------------------------------------------------------
(* The steps of the client.                                                 *)

ThreadStep(t) == status = "running" /\ chain[t] # NoStep /\ UNCHANGED <<setupVars, loopVars, app, req, late>>
HandlerStep == LoopIsFree /\ UNCHANGED <<setupVars, loopVars, app, req>>
TimerStep == WorkedTimeExpires \/ reset_timer \/ LoopReturns

(* One of these it is.                                                      *)
LEMMA NextCases ==
  ASSUME [Next]_vars
  PROVE  \/ \E call \in Calls : Connect(call)
         \/ \E goal \in {"disconnect", "reconnect", "destroy"} : Disconnect(goal)
         \/ Clear
         \/ Disconnected
         \/ Join
         \/ \E t \in Agents : ThreadStep(t) /\ ChainEnds(t)
         \/ \E t \in Agents : ThreadStep(t) /\ ChainFromCache(t)
         \/ \E t \in Agents : ThreadStep(t) /\ ChainAttempt(t)
         \/ \E s \in Sockets : HandlerStep /\ ConnectionHandlerFails(s)
         \/ \E s \in Sockets : HandlerStep /\ ConnectionHandler(s)
         \/ \E s \in Sockets : HandlerStep /\ TimeoutAborted(s)
         \/ \E s \in Sockets : HandlerStep /\ TimeoutHandler(s)
         \/ \E s \in Sockets : ProcDisconnects(s)
         \/ TimerStep
         \/ \E s \in Sockets : Network(s)
         \/ UNCHANGED vars
<1>1. CASE \E t \in Agents : ChainStep(t)
  BY <1>1 DEF ChainStep, ThreadStep
<1>2. CASE HandlerRuns
  BY <1>2 DEF HandlerRuns, HandlerStep
<1> QED
  BY <1>1, <1>2 DEF Next, Agents, TimerStep

(* The socket of a new attempt is in nobody's hands.                         *)
LEMMA AttemptFacts ==
  ASSUME NEW server, NEW r, NEW k, StartAttempt(server, r, k, held)
  PROVE  \E s \in Sockets :
           /\ s \notin held /\ s \notin Cached /\ connecting[s] = "off" /\ timer[s] = "off"
           /\ connecting' = [connecting EXCEPT ![s] = "waiting"]
           /\ timer' = [timer EXCEPT ![s] = "waiting"]
           /\ waiter' = [waiter EXCEPT ![s] = [server |-> server, req |-> r, step |-> k]]
           /\ UNCHANGED <<open, cache>>
<1> DEFINE s == Min(Unused(held))
<1>1. Unused(held) \subseteq Sockets /\ Unused(held) # {}
  BY DEF Unused, StartAttempt
<1>2. s \in Unused(held)
  BY <1>1, MinIsIn
<1> HIDE DEF s
<1>3. s \in Sockets /\ s \notin held /\ s \notin Cached /\ connecting[s] = "off" /\ timer[s] = "off"
  BY <1>2 DEF Unused
<1> QED
  BY <1>3 DEF StartAttempt, s

(* What the cache gives is free, and somebody takes it.                      *)
LEMMA CacheFacts ==
  ASSUME IInv, NEW t \in Agents, chain[t] # NoStep, ChainFromCache(t)
  PROVE  \E v \in Servers : \E i \in DOMAIN cache[v] :
           /\ cache[v][i] \in Sockets /\ cache[v][i] \notin held /\ timer[cache[v][i]] = "off"
           /\ connecting[cache[v][i]] = "off" /\ cache[v] \in Seq(Sockets)
           /\ cache' = [cache EXCEPT ![v] = Rotated(cache[v], i)]
           /\ chain[t].step \in 1..Len(Steps) /\ Install(cache[v][i], chain[t].step)
<1> DEFINE v == Steps[chain[t].step].server
<1>1. SetupTypeOK /\ ConnTypeOK /\ ClientTypeOK /\ CacheOK
  BY DEF IInv
<1>2. chain[t].step \in 1..Len(Steps) /\ v \in Servers
  BY <1>1, StepsFacts DEF ChainFromCache
<1> HIDE DEF v
<1>3. PICK i \in FirstFree(v, held) :
        cache' = [cache EXCEPT ![v] = Rotated(@, i)] /\ Install(cache[v][i], chain[t].step)
  BY DEF ChainFromCache, v
<1>4. i \in DOMAIN cache[v] /\ cache[v][i] \notin held /\ timer[cache[v][i]] = "off"
  BY <1>3 DEF FirstFree
<1>5. cache[v] \in Seq(Sockets)
  BY <1>1, <1>2 DEF ConnTypeOK
<1>6. cache[v][i] \in Sockets
  BY <1>4, <1>5
<1>7. connecting[cache[v][i]] = "off"
  BY <1>1, <1>2, <1>4 DEF CacheOK, Attempting
<1> QED
  BY <1>2, <1>3, <1>4, <1>5, <1>6, <1>7

(* An attempt is of a step that there is.                                    *)
LEMMA ServesFacts ==
  ASSUME IInv, NEW s \in Sockets, Attempting(s)
  PROVE  /\ waiter[s].req \in 1..req /\ waiter[s].req \in 1..MaxRequests /\ waiter[s].step \in 1..Len(Steps)
         /\ waiter[s].server \in Servers /\ s \notin held
         /\ \A v \in Servers : \A i \in DOMAIN cache[v] : cache[v][i] # s
<1>1. waiter[s].req \in 1..req /\ waiter[s].step \in 1..Len(Steps) /\ waiter[s].server \in Servers
  BY DEF IInv, AttemptOK, Kept
<1>2. req \in 0..MaxRequests /\ MaxRequests \in Nat
  BY CallAssumption DEF IInv, ClientTypeOK
<1> QED
  BY <1>1, <1>2 DEF IInv, HeldOK, CacheOK

(* A chain is of a request that was made.                                    *)
LEMMA WorksFacts ==
  ASSUME IInv, NEW t \in Agents, chain[t] # NoStep
  PROVE  chain[t].req \in 1..req /\ chain[t].req \in 1..MaxRequests /\ chain[t].step \in 1..(Len(Steps) + 1)
<1>1. chain[t].req \in 1..req /\ chain[t].step \in 1..(Len(Steps) + 1)
  BY DEF IInv, ChainOK
<1>2. req \in 0..MaxRequests /\ MaxRequests \in Nat
  BY CallAssumption DEF IInv, ClientTypeOK
<1> QED
  BY <1>1, <1>2

(* A processor made of a cached socket, or of the one of an attempt.         *)
LEMMA CacheHeld ==
  ASSUME IInv, NEW t \in Agents, ThreadStep(t), ChainFromCache(t)
  PROVE  SetupTypeOK' /\ DistinctOK' /\ open' \subseteq open /\
         \E v \in Servers : \E i \in DOMAIN cache[v] :
           held' \subseteq held \cup {cache[v][i]} /\ connecting[cache[v][i]] = "off"
<1>1. PICK v \in Servers : \E i \in DOMAIN cache[v] :
           /\ cache[v][i] \in Sockets /\ cache[v][i] \notin held /\ connecting[cache[v][i]] = "off"
           /\ chain[t].step \in 1..Len(Steps) /\ Install(cache[v][i], chain[t].step)
  BY CacheFacts DEF ThreadStep
<1>2. PICK i \in DOMAIN cache[v] :
           /\ cache[v][i] \in Sockets /\ cache[v][i] \notin held /\ connecting[cache[v][i]] = "off"
           /\ chain[t].step \in 1..Len(Steps) /\ Install(cache[v][i], chain[t].step)
  BY <1>1
<1>3. SetupTypeOK /\ DistinctOK /\ UNCHANGED setupVars
  BY DEF IInv, HeldOK, ThreadStep
<1> QED
  BY <1>2, <1>3, InstallHeld, InstallCases

(* The same with the socket of an attempt.                                   *)
LEMMA DoneHeld ==
  ASSUME IInv, NEW s \in Sockets, HandlerStep, ConnectionHandler(s)
  PROVE  SetupTypeOK' /\ DistinctOK' /\ open' \subseteq open /\ held' \subseteq held \cup {s}
<1>1. Attempting(s) /\ Install(s, waiter[s].step) /\ UNCHANGED setupVars
  BY DEF HandlerStep, ConnectionHandler, ConnectDone, Attempting
<1>2. waiter[s].step \in 1..Len(Steps) /\ s \notin held
  BY <1>1, ServesFacts
<1>3. SetupTypeOK /\ DistinctOK
  BY DEF IInv, HeldOK
<1> QED
  BY <1>1, <1>2, <1>3, InstallHeld, InstallCases

(* The types of the connection managers.                                     *)
LEMMA ConnTypeStep ==
  ASSUME IInv, [Next]_vars
  PROVE  ConnTypeOK'

<1> DEFINE W == [server : Servers \cup {"none"}, req : 0..MaxRequests, step : Nat]
<1>0. /\ connecting \in [Sockets -> {"off", "waiting", "ok", "error"}]
      /\ timer \in [Sockets -> {"off", "waiting", "expired", "aborted"}]
      /\ waiter \in [Sockets -> W]
      /\ cache \in [Servers -> Seq(Sockets)] /\ open \subseteq Sockets
      /\ NoWaiter \in W
  <2>1. MaxRequests \in Nat
    BY CallAssumption
  <2> QED
    BY <2>1 DEF IInv, ConnTypeOK, NoWaiter
<1>17. \A s \in Sockets : Dropped(s) => waiter' \in [Sockets -> W]
  BY <1>0 DEF Dropped
<1>18. \A s \in Sockets : Cancelled(s) \in {"off", "waiting", "expired", "aborted"}
  BY <1>0 DEF Cancelled
<1>1. ASSUME NEW call \in Calls, Connect(call)
      PROVE  ConnTypeOK'
  BY <1>0, <1>1 DEF Connect, Begin, ConnTypeOK
<1>2. ASSUME NEW goal \in {"disconnect", "reconnect", "destroy"}, Disconnect(goal)
      PROVE  ConnTypeOK'
  BY <1>0, <1>2 DEF Disconnect, ConnTypeOK
<1>3. ASSUME Clear
      PROVE  ConnTypeOK'
  BY <1>0, <1>3 DEF Clear, ConnTypeOK
<1>4. ASSUME Disconnected
      PROVE  ConnTypeOK'
  BY <1>0, <1>4 DEF Disconnected, Begin, ConnTypeOK
<1>5. ASSUME Join
      PROVE  ConnTypeOK'
  BY <1>0, <1>5 DEF Join, ConnTypeOK
<1>6. ASSUME NEW t \in Agents, ThreadStep(t), ChainEnds(t)
      PROVE  ConnTypeOK'
  BY <1>0, <1>6 DEF ThreadStep, ChainEnds, Answer, ConnTypeOK
<1>7. ASSUME NEW t \in Agents, ThreadStep(t), ChainFromCache(t)
      PROVE  ConnTypeOK'
  <2>0. PICK v \in Servers : \E i \in DOMAIN cache[v] :
           cache[v] \in Seq(Sockets) /\ cache' = [cache EXCEPT ![v] = Rotated(cache[v], i)]
    BY <1>7, CacheFacts DEF ThreadStep
  <2>1. PICK i \in DOMAIN cache[v] :
           cache[v] \in Seq(Sockets) /\ cache' = [cache EXCEPT ![v] = Rotated(cache[v], i)]
    BY <2>0
  <2>2. cache' \in [Servers -> Seq(Sockets)]
    BY <1>0, <2>1, RotatedFacts
  <2>3. open' \subseteq Sockets
    BY <1>0, <1>7, CacheHeld
  <2> QED
    BY <1>0, <1>7, <2>2, <2>3 DEF ChainFromCache, ConnTypeOK
<1>8. ASSUME NEW t \in Agents, ThreadStep(t), ChainAttempt(t)
      PROVE  ConnTypeOK'
  <2>1. CASE UNCHANGED connVars
    BY <1>0, <2>1 DEF ConnTypeOK
  <2>2. CASE StartAttempt(Steps[chain[t].step].server, chain[t].req, chain[t].step, held)
    <3>1. Steps[chain[t].step].server \in Servers /\ chain[t].req \in 0..MaxRequests /\ chain[t].step \in Nat
      BY <1>8, StepsFacts DEF IInv, ClientTypeOK, ChainAttempt
    <3>2. [server |-> Steps[chain[t].step].server, req |-> chain[t].req, step |-> chain[t].step] \in W
      BY <3>1
    <3>3. PICK s \in Sockets :
            /\ connecting' = [connecting EXCEPT ![s] = "waiting"]
            /\ timer' = [timer EXCEPT ![s] = "waiting"]
            /\ waiter' = [waiter EXCEPT ![s] = [server |-> Steps[chain[t].step].server, req |-> chain[t].req,
                                                step |-> chain[t].step]]
            /\ UNCHANGED <<open, cache>>
      BY <2>2, AttemptFacts
    <3>4. waiter' \in [Sockets -> W]
      BY <1>0, <3>2, <3>3
    <3> QED
      BY <1>0, <3>3, <3>4 DEF ConnTypeOK
  <2> QED
    BY <1>8, <2>1, <2>2 DEF ChainAttempt
<1>9. ASSUME NEW s \in Sockets, HandlerStep, ConnectionHandlerFails(s)
      PROVE  ConnTypeOK'
  <2>1. /\ connecting' = [connecting EXCEPT ![s] = "off"] /\ timer' = [timer EXCEPT ![s] = Cancelled(s)]
        /\ Dropped(s) /\ UNCHANGED <<open, cache>>
    BY <1>9 DEF ConnectionHandlerFails, ConnectFailed
  <2>2. waiter' \in [Sockets -> W]
    BY <1>17, <2>1
  <2> QED
    BY <1>0, <1>18, <2>1, <2>2 DEF ConnTypeOK
<1>10. ASSUME NEW s \in Sockets, HandlerStep, ConnectionHandler(s)
      PROVE  ConnTypeOK'
  <2>1. /\ connecting' = [connecting EXCEPT ![s] = "off"] /\ timer' = [timer EXCEPT ![s] = Cancelled(s)]
        /\ Dropped(s) /\ cache' = [cache EXCEPT ![waiter[s].server] = Append(@, s)] /\ Attempting(s)
    BY <1>10 DEF ConnectionHandler, ConnectDone, Attempting
  <2>2. waiter' \in [Sockets -> W]
    BY <1>17, <2>1
  <2>3. waiter[s].server \in Servers
    BY <2>1, ServesFacts
  <2>4. cache' \in [Servers -> Seq(Sockets)]
    BY <1>0, <2>1, <2>3
  <2>5. open' \subseteq Sockets
    BY <1>0, <1>10, DoneHeld
  <2> QED
    BY <1>0, <1>18, <2>1, <2>2, <2>4, <2>5 DEF ConnTypeOK
<1>11. ASSUME NEW s \in Sockets, HandlerStep, TimeoutAborted(s)
      PROVE  ConnTypeOK'
  <2>1. timer' = [timer EXCEPT ![s] = "off"] /\ Dropped(s) /\ UNCHANGED <<open, connecting, cache>>
    BY <1>11 DEF TimeoutAborted, TimerAborted
  <2>2. waiter' \in [Sockets -> W]
    BY <1>17, <2>1
  <2> QED
    BY <1>0, <2>1, <2>2 DEF ConnTypeOK
<1>12. ASSUME NEW s \in Sockets, HandlerStep, TimeoutHandler(s)
      PROVE  ConnTypeOK'
  <2>1. /\ timer' = [timer EXCEPT ![s] = "off"] /\ Dropped(s) /\ UNCHANGED <<open, cache>>
        /\ connecting' = [connecting EXCEPT ![s] = IF @ = "waiting" THEN "error" ELSE @]
    BY <1>12 DEF TimeoutHandler, TimedOut
  <2>2. waiter' \in [Sockets -> W]
    BY <1>17, <2>1
  <2>3. connecting' \in [Sockets -> {"off", "waiting", "ok", "error"}]
    BY <1>0, <2>1
  <2> QED
    BY <1>0, <2>1, <2>2, <2>3 DEF ConnTypeOK
<1>13. ASSUME NEW s \in Sockets, ProcDisconnects(s)
      PROVE  ConnTypeOK'
  BY <1>0, <1>13 DEF ProcDisconnects, ConnTypeOK
<1>14. ASSUME TimerStep
      PROVE  ConnTypeOK'
  BY <1>0, <1>14 DEF TimerStep, WorkedTimeExpires, reset_timer, LoopReturns, ConnTypeOK
<1>15. ASSUME NEW s \in Sockets, Network(s)
      PROVE  ConnTypeOK'
  BY <1>0, <1>15 DEF Network, Connects, Refuses, TimerExpires, ConnTypeOK
<1>16. ASSUME UNCHANGED vars
      PROVE  ConnTypeOK'
  BY <1>0, <1>16 DEF vars, ConnTypeOK
<1> QED
  BY <1>1, <1>2, <1>3, <1>4, <1>5, <1>6, <1>7, <1>8, <1>9, <1>10,
     <1>11, <1>12, <1>13, <1>14, <1>15, <1>16, NextCases

(* What disconnect() clears.                                                 *)
LEMMA PointersFacts ==
  /\ Pointers \in Seq(ToSet(Pointers)) /\ Len(Pointers) = 4
  /\ ToSet(Pointers) = {"master_pipeline", "master_serial", "pipeline_pool", "serial_pool"}
<1>1. /\ Len(Pointers) = 4 /\ DOMAIN Pointers = 1..4
      /\ Pointers[1] = "master_pipeline" /\ Pointers[2] = "master_serial"
      /\ Pointers[3] = "pipeline_pool" /\ Pointers[4] = "serial_pool"
  BY DEF Pointers
<1>2. 1..4 = {1, 2, 3, 4}
  OBVIOUS
<1>3. ToSet(Pointers) = {"master_pipeline", "master_serial", "pipeline_pool", "serial_pool"}
  BY <1>1, <1>2 DEF ToSet
<1>4. Pointers \in Seq({"master_pipeline", "master_serial", "pipeline_pool", "serial_pool"})
  BY DEF Pointers
<1> QED
  BY <1>1, <1>3, <1>4

(* A cleared pool is empty and keeps its map.                                *)
LEMMA ClearFacts ==
  ASSUME NEW pool \in Pool
  PROVE  clear(pool) \in Pool /\ clear(pool).list = <<>> /\ clear(pool).map = pool.map
<1>1. <<>> \in Seq(Sockets)
  OBVIOUS
<1> QED
  BY <1>1 DEF clear, Pool

(* The types of the processors and their pools.                              *)
LEMMA SetupTypeStep ==
  ASSUME IInv, [Next]_vars
  PROVE  SetupTypeOK'

<1>0. /\ master_conn \in BOOLEAN /\ slave_pool \in Seq(Unit)
      /\ master_pipeline \in Sockets \cup {0} /\ master_serial \in Sockets \cup {0}
      /\ pipeline_pool \in Pool /\ serial_pool \in Pool /\ failed \subseteq held
  BY DEF IInv, SetupTypeOK
<1>1. ASSUME NEW call \in Calls, Connect(call)
      PROVE  SetupTypeOK'
  <2>1. call.master \in BOOLEAN /\ call.slaves \in Seq(Unit)
    BY CallAssumption DEF Unit
  <2> QED
    BY <1>0, <1>1, <2>1 DEF Connect, SetupTypeOK, held
<1>2. ASSUME NEW goal \in {"disconnect", "reconnect", "destroy"}, Disconnect(goal)
      PROVE  SetupTypeOK'
  BY <1>0, <1>2 DEF Disconnect, SetupTypeOK, held
<1>3. ASSUME Clear
      PROVE  SetupTypeOK'
  <2> DEFINE p == Head(app.clearing)
  <2>1. p \in ToSet(Pointers)
    <3>1. app.clearing \in Seq(ToSet(Pointers)) /\ app.clearing # <<>>
      BY <1>3 DEF IInv, ClientTypeOK, Clear
    <3> QED
      BY <3>1
  <2>2. p \in {"master_pipeline", "master_serial", "pipeline_pool", "serial_pool"}
    BY <2>1, PointersFacts
  <2>3. clear(pipeline_pool) \in Pool /\ clear(serial_pool) \in Pool
    BY <1>0, ClearFacts
  <2>4. /\ master_pipeline' = IF p = "master_pipeline" THEN 0 ELSE master_pipeline
        /\ master_serial' = IF p = "master_serial" THEN 0 ELSE master_serial
        /\ pipeline_pool' = IF p = "pipeline_pool" THEN clear(pipeline_pool) ELSE pipeline_pool
        /\ serial_pool' = IF p = "serial_pool" THEN clear(serial_pool) ELSE serial_pool
        /\ UNCHANGED <<master_conn, slave_pool>>
    BY <1>3 DEF Clear
  <2> HIDE DEF p
  <2>5. failed' \subseteq held'
    <3>1. CASE p = "master_pipeline"
      <4>1. failed' = failed \ {master_pipeline}
        BY <1>3, <3>1 DEF Clear, p
      <4> QED
        BY <1>0, <2>4, <3>1, <4>1 DEF held
    <3>2. CASE p = "master_serial"
      <4>1. failed' = failed \ {master_serial}
        BY <1>3, <3>2 DEF Clear, p
      <4> QED
        BY <1>0, <2>4, <3>2, <4>1 DEF held
    <3>3. CASE p = "pipeline_pool"
      <4>1. failed' = failed \ ToSet(pipeline_pool.list)
        BY <1>3, <3>3 DEF Clear, p
      <4> QED
        BY <1>0, <2>4, <3>3, <4>1 DEF held
    <3>4. CASE p = "serial_pool"
      <4>1. failed' = failed \ ToSet(serial_pool.list)
        BY <1>3, <3>4 DEF Clear, p
      <4> QED
        BY <1>0, <2>4, <3>4, <4>1 DEF held
    <3> QED
      BY <2>2, <3>1, <3>2, <3>3, <3>4
  <2> QED
    BY <1>0, <2>3, <2>4, <2>5 DEF SetupTypeOK
<1>4. ASSUME Disconnected
      PROVE  SetupTypeOK'
  BY <1>0, <1>4 DEF Disconnected, Begin, SetupTypeOK, held
<1>5. ASSUME Join
      PROVE  SetupTypeOK'
  BY <1>0, <1>5 DEF Join, SetupTypeOK, held
<1>6. ASSUME NEW t \in Agents, ThreadStep(t), ChainEnds(t)
      PROVE  SetupTypeOK'
  BY <1>0, <1>6 DEF ThreadStep, ChainEnds, Answer, SetupTypeOK, held
<1>7. ASSUME NEW t \in Agents, ThreadStep(t), ChainFromCache(t)
      PROVE  SetupTypeOK'
  BY <1>7, CacheHeld
<1>8. ASSUME NEW t \in Agents, ThreadStep(t), ChainAttempt(t)
      PROVE  SetupTypeOK'
  BY <1>0, <1>8 DEF ThreadStep, ChainAttempt, Answer, SetupTypeOK, held
<1>9. ASSUME NEW s \in Sockets, HandlerStep, ConnectionHandlerFails(s)
      PROVE  SetupTypeOK'
  BY <1>0, <1>9 DEF HandlerStep, ConnectionHandlerFails, ConnectFailed, Answer, SetupTypeOK, held
<1>10. ASSUME NEW s \in Sockets, HandlerStep, ConnectionHandler(s)
      PROVE  SetupTypeOK'
  BY <1>10, DoneHeld
<1>11. ASSUME NEW s \in Sockets, HandlerStep, TimeoutAborted(s)
      PROVE  SetupTypeOK'
  BY <1>0, <1>11 DEF HandlerStep, TimeoutAborted, TimerAborted, SetupTypeOK, held
<1>12. ASSUME NEW s \in Sockets, HandlerStep, TimeoutHandler(s)
      PROVE  SetupTypeOK'
  BY <1>0, <1>12 DEF HandlerStep, TimeoutHandler, TimedOut, Answer, SetupTypeOK, held
<1>13. ASSUME NEW s \in Sockets, ProcDisconnects(s)
      PROVE  SetupTypeOK'
  BY <1>0, <1>13 DEF ProcDisconnects, SetupTypeOK, held
<1>14. ASSUME TimerStep
      PROVE  SetupTypeOK'
  BY <1>0, <1>14 DEF TimerStep, WorkedTimeExpires, reset_timer, LoopReturns, SetupTypeOK, held
<1>15. ASSUME NEW s \in Sockets, Network(s)
      PROVE  SetupTypeOK'
  BY <1>0, <1>15 DEF Network, Connects, Refuses, TimerExpires, SetupTypeOK, held
<1>16. ASSUME UNCHANGED vars
      PROVE  SetupTypeOK'
  BY <1>0, <1>16 DEF vars, SetupTypeOK, held
<1> QED
  BY <1>1, <1>2, <1>3, <1>4, <1>5, <1>6, <1>7, <1>8, <1>9, <1>10,
     <1>11, <1>12, <1>13, <1>14, <1>15, <1>16, NextCases

(* The types of the rest.                                                   *)
LEMMA ClientTypeStep ==
  ASSUME IInv, [Next]_vars
  PROVE  ClientTypeOK'

<1>0. /\ connected \in BOOLEAN /\ late \in BOOLEAN
      /\ chain \in [Agents -> [req : 0..MaxRequests, step : Nat]]
      /\ app \in [goal : {"none", "disconnect", "reconnect", "destroy"}, clearing : Seq(ToSet(Pointers))]
      /\ req \in 0..MaxRequests /\ MaxRequests \in Nat
      /\ answers \in [1..MaxRequests -> Seq(Codes)]
      /\ worked_time \in {"waiting", "expired", "off"} /\ io_returned \in BOOLEAN
      /\ status \in {"running", "terminated", "destroyed"}
      /\ NoStep \in [req : 0..MaxRequests, step : Nat] /\ "app" \in Agents /\ "loop" \in Agents
      /\ Codes = {"ok", "error", "bad_address", "timed_out"}
      /\ Ready \in [goal : {"none", "disconnect", "reconnect", "destroy"}, clearing : Seq(ToSet(Pointers))]
      /\ Pointers \in Seq(ToSet(Pointers))
  <2>1. <<>> \in Seq(ToSet(Pointers))
    OBVIOUS
  <2> QED
    BY <2>1, CallAssumption, PointersFacts DEF IInv, ClientTypeOK, NoStep, Agents, Codes, Ready
<1>17. ASSUME NEW r \in 1..MaxRequests, NEW code \in Codes, Answer(r, code)
       PROVE  answers' \in [1..MaxRequests -> Seq(Codes)] /\ status' \in {"running", "terminated", "destroyed"}
  <2>1. Append(answers[r], code) \in Seq(Codes)
    BY <1>0
  <2>2. answers' = [answers EXCEPT ![r] = Append(answers[r], code)]
    BY <1>17 DEF Answer
  <2>3. status' \in {"running", "terminated", "destroyed"}
    BY <1>0, <1>17 DEF Answer
  <2> QED
    BY <1>0, <2>1, <2>2, <2>3
<1>1. ASSUME NEW call \in Calls, Connect(call)
      PROVE  ClientTypeOK'
  <2>1. [req |-> 1, step |-> 1] \in [req : 0..MaxRequests, step : Nat] /\ 1 \in 0..MaxRequests
    BY <1>0, <1>1 DEF Connect
  <2>2. chain' \in [Agents -> [req : 0..MaxRequests, step : Nat]]
    BY <1>0, <1>1, <2>1 DEF Connect, Begin
  <2> QED
    BY <1>0, <1>1, <2>1, <2>2 DEF Connect, ClientTypeOK
<1>2. ASSUME NEW goal \in {"disconnect", "reconnect", "destroy"}, Disconnect(goal)
      PROVE  ClientTypeOK'
  BY <1>0, <1>2 DEF Disconnect, ClientTypeOK
<1>3. ASSUME Clear
      PROVE  ClientTypeOK'
  <2>1. Tail(app.clearing) \in Seq(ToSet(Pointers))
    BY <1>0, <1>3 DEF Clear
  <2>2. app' = [app EXCEPT !.clearing = Tail(app.clearing)]
    BY <1>3 DEF Clear
  <2>3. app' \in [goal : {"none", "disconnect", "reconnect", "destroy"}, clearing : Seq(ToSet(Pointers))]
    BY <1>0, <2>1, <2>2
  <2> QED
    BY <1>0, <1>3, <2>3 DEF Clear, ClientTypeOK
<1>4. ASSUME Disconnected
      PROVE  ClientTypeOK'
  <2>1. CASE UNCHANGED <<req, chain>>
    BY <1>0, <1>4, <2>1 DEF Disconnected, ClientTypeOK
  <2>2. CASE req < MaxRequests /\ req' = req + 1 /\ Begin(req + 1)
    <3>1. [req |-> req + 1, step |-> 1] \in [req : 0..MaxRequests, step : Nat] /\ req + 1 \in 0..MaxRequests
      BY <1>0, <2>2
    <3>2. chain' \in [Agents -> [req : 0..MaxRequests, step : Nat]]
      BY <1>0, <2>2, <3>1 DEF Begin
    <3> QED
      BY <1>0, <1>4, <2>2, <3>1, <3>2 DEF Disconnected, ClientTypeOK
  <2> QED
    BY <1>4, <2>1, <2>2 DEF Disconnected
<1>5. ASSUME Join
      PROVE  ClientTypeOK'
  BY <1>0, <1>5 DEF Join, ClientTypeOK
<1>6. ASSUME NEW t \in Agents, ThreadStep(t), ChainEnds(t)
      PROVE  ClientTypeOK'
  <2>1. answers' \in [1..MaxRequests -> Seq(Codes)] /\ status' \in {"running", "terminated", "destroyed"}
    BY <1>0, <1>17, <1>6, WorksFacts DEF ThreadStep, ChainEnds
  <2> QED
    BY <1>0, <1>6, <2>1 DEF ThreadStep, ChainEnds, ClientTypeOK
<1>7. ASSUME NEW t \in Agents, ThreadStep(t), ChainFromCache(t)
      PROVE  ClientTypeOK'
  <2>1. chain[t] \in [req : 0..MaxRequests, step : Nat]
    BY <1>0
  <2>2. [chain[t] EXCEPT !.step = @ + 1] \in [req : 0..MaxRequests, step : Nat]
    BY <2>1
  <2>3. chain' = [chain EXCEPT ![t] = [chain[t] EXCEPT !.step = @ + 1]]
    BY <1>7 DEF ChainFromCache
  <2>4. chain' \in [Agents -> [req : 0..MaxRequests, step : Nat]]
    BY <1>0, <2>2, <2>3
  <2> QED
    BY <1>0, <1>7, <2>4 DEF ThreadStep, ChainFromCache, ClientTypeOK
<1>8. ASSUME NEW t \in Agents, ThreadStep(t), ChainAttempt(t)
      PROVE  ClientTypeOK'
  <2>1. answers' \in [1..MaxRequests -> Seq(Codes)] /\ status' \in {"running", "terminated", "destroyed"}
    <3>1. CASE Answer(chain[t].req, "bad_address")
      BY <1>0, <1>17, <1>8, <3>1, WorksFacts DEF ThreadStep
    <3>2. CASE UNCHANGED <<answers, status>>
      BY <1>0, <3>2
    <3> QED
      BY <1>8, <3>1, <3>2 DEF ChainAttempt
  <2> QED
    BY <1>0, <1>8, <2>1 DEF ThreadStep, ChainAttempt, ClientTypeOK
<1>9. ASSUME NEW s \in Sockets, HandlerStep, ConnectionHandlerFails(s)
      PROVE  ClientTypeOK'
  <2>1. Attempting(s) /\ Answer(waiter[s].req, "error")
    BY <1>9 DEF ConnectionHandlerFails, ConnectFailed, Attempting
  <2>2. answers' \in [1..MaxRequests -> Seq(Codes)] /\ status' \in {"running", "terminated", "destroyed"}
    BY <1>0, <1>17, <2>1, ServesFacts
  <2> QED
    BY <1>0, <1>9, <2>2 DEF HandlerStep, ConnectionHandlerFails, ClientTypeOK
<1>10. ASSUME NEW s \in Sockets, HandlerStep, ConnectionHandler(s)
      PROVE  ClientTypeOK'
  <2>1. Attempting(s)
    BY <1>10 DEF ConnectionHandler, ConnectDone, Attempting
  <2>2. waiter[s].req \in 1..MaxRequests /\ waiter[s].step \in Nat
    BY <2>1, ServesFacts, StepsFacts DEF IInv
  <2>3. [req |-> waiter[s].req, step |-> waiter[s].step + 1] \in [req : 0..MaxRequests, step : Nat]
    BY SMTT(20), <1>0, <2>2
  <2>4. chain' \in [Agents -> [req : 0..MaxRequests, step : Nat]]
    BY <1>0, <1>10, <2>3 DEF ConnectionHandler
  <2> QED
    BY <1>0, <1>10, <2>4 DEF HandlerStep, ConnectionHandler, ClientTypeOK
<1>11. ASSUME NEW s \in Sockets, HandlerStep, TimeoutAborted(s)
      PROVE  ClientTypeOK'
  BY <1>0, <1>11 DEF HandlerStep, TimeoutAborted, TimerAborted, ClientTypeOK
<1>12. ASSUME NEW s \in Sockets, HandlerStep, TimeoutHandler(s)
      PROVE  ClientTypeOK'
  <2>1. timer[s] # "off" /\ Answer(waiter[s].req, "timed_out")
    BY <1>12 DEF TimeoutHandler, TimedOut
  <2>2. waiter[s].req \in 1..MaxRequests
    <3>1. waiter[s].req \in 1..req
      BY <2>1 DEF IInv, AttemptOK, Kept
    <3> QED
      BY <1>0, <3>1
  <2>3. answers' \in [1..MaxRequests -> Seq(Codes)] /\ status' \in {"running", "terminated", "destroyed"}
    BY <1>0, <1>17, <2>1, <2>2
  <2> QED
    BY <1>0, <1>12, <2>3 DEF HandlerStep, TimeoutHandler, ClientTypeOK
<1>13. ASSUME NEW s \in Sockets, ProcDisconnects(s)
      PROVE  ClientTypeOK'
  BY <1>0, <1>13 DEF ProcDisconnects, ClientTypeOK
<1>14. ASSUME TimerStep
      PROVE  ClientTypeOK'
  BY <1>0, <1>14 DEF TimerStep, WorkedTimeExpires, reset_timer, LoopReturns, ClientTypeOK
<1>15. ASSUME NEW s \in Sockets, Network(s)
      PROVE  ClientTypeOK'
  BY <1>0, <1>15 DEF Network, Connects, Refuses, TimerExpires, ClientTypeOK
<1>16. ASSUME UNCHANGED vars
      PROVE  ClientTypeOK'
  BY <1>0, <1>16 DEF vars, ClientTypeOK
<1> QED
  BY <1>1, <1>2, <1>3, <1>4, <1>5, <1>6, <1>7, <1>8, <1>9, <1>10,
     <1>11, <1>12, <1>13, <1>14, <1>15, <1>16, NextCases

(* What is in the cache stays free of repetitions and of attempts.            *)
LEMMA CacheStep ==
  ASSUME IInv, [Next]_vars
  PROVE  CacheOK'

<1>0. /\ connecting \in [Sockets -> {"off", "waiting", "ok", "error"}]
      /\ cache \in [Servers -> Seq(Sockets)]
      /\ \A v \in Servers : \A i, j \in DOMAIN cache[v] : cache[v][i] = cache[v][j] => i = j
      /\ \A v \in Servers : \A i \in DOMAIN cache[v] : cache[v][i] \in Sockets /\ connecting[cache[v][i]] = "off"
  BY DEF IInv, ConnTypeOK, CacheOK, Attempting
<1>17. ASSUME UNCHANGED cache, \A v \in Servers : \A i \in DOMAIN cache[v] : connecting'[cache[v][i]] = "off"
       PROVE  CacheOK'
  BY <1>0, <1>17 DEF CacheOK, Attempting
<1>1. ASSUME NEW call \in Calls, Connect(call)
      PROVE  CacheOK'
  BY <1>0, <1>1 DEF Connect, Begin, CacheOK, Attempting
<1>2. ASSUME NEW goal \in {"disconnect", "reconnect", "destroy"}, Disconnect(goal)
      PROVE  CacheOK'
  BY <1>0, <1>2 DEF Disconnect, CacheOK, Attempting
<1>3. ASSUME Clear
      PROVE  CacheOK'
  BY <1>0, <1>3 DEF Clear, CacheOK, Attempting
<1>4. ASSUME Disconnected
      PROVE  CacheOK'
  BY <1>0, <1>4 DEF Disconnected, Begin, CacheOK, Attempting
<1>5. ASSUME Join
      PROVE  CacheOK'
  BY <1>0, <1>5 DEF Join, CacheOK, Attempting
<1>6. ASSUME NEW t \in Agents, ThreadStep(t), ChainEnds(t)
      PROVE  CacheOK'
  BY <1>0, <1>6 DEF ThreadStep, ChainEnds, Answer, CacheOK, Attempting
<1>7. ASSUME NEW t \in Agents, ThreadStep(t), ChainFromCache(t)
      PROVE  CacheOK'
  <2>0. PICK v \in Servers : \E i \in DOMAIN cache[v] :
           cache[v] \in Seq(Sockets) /\ cache' = [cache EXCEPT ![v] = Rotated(cache[v], i)]
    BY <1>7, CacheFacts DEF ThreadStep
  <2>1. PICK i \in DOMAIN cache[v] :
           cache[v] \in Seq(Sockets) /\ cache' = [cache EXCEPT ![v] = Rotated(cache[v], i)]
    BY <2>0
  <2>2. cache'[v] = Rotated(cache[v], i) /\ \A u \in Servers : u # v => cache'[u] = cache[u]
    BY <1>0, <2>1
  <2>3. UNCHANGED connecting
    BY <1>7 DEF ChainFromCache
  <2> DEFINE q == Rotated(cache[v], i)
  <2>4. /\ q \in Seq(Sockets) /\ Len(q) = Len(cache[v])
        /\ \A k \in 1..Len(cache[v]) : q[k] \in ToSet(cache[v])
        /\ \A k, l \in 1..Len(cache[v]) : q[k] = q[l] => k = l
    BY <1>0, <2>1, RotatedFacts
  <2> HIDE DEF q
  <2>5. DOMAIN q = 1..Len(cache[v])
    BY <2>4
  <2>6. \A k \in DOMAIN q : connecting[q[k]] = "off"
    BY <1>0, <2>4, <2>5 DEF ToSet
  <2>7. cache'[v] = q
    BY <2>2 DEF q
  <2>8. \A u \in Servers : \A k, l \in DOMAIN cache'[u] : cache'[u][k] = cache'[u][l] => k = l
    BY <1>0, <2>2, <2>4, <2>5, <2>7
  <2>9. \A u \in Servers : \A k \in DOMAIN cache'[u] : connecting'[cache'[u][k]] = "off"
    BY <1>0, <2>2, <2>3, <2>6, <2>7
  <2> QED
    BY <2>8, <2>9 DEF CacheOK, Attempting
<1>8. ASSUME NEW t \in Agents, ThreadStep(t), ChainAttempt(t)
      PROVE  CacheOK'
  <2>1. CASE UNCHANGED connVars
    BY <1>0, <1>17, <2>1
  <2>2. CASE StartAttempt(Steps[chain[t].step].server, chain[t].req, chain[t].step, held)
    <3>1. PICK s \in Sockets :
            s \notin Cached /\ connecting' = [connecting EXCEPT ![s] = "waiting"] /\ UNCHANGED cache
      BY <2>2, AttemptFacts
    <3>2. \A v \in Servers : \A i \in DOMAIN cache[v] : cache[v][i] # s
      BY <3>1 DEF Cached, ToSet
    <3> QED
      BY <1>0, <1>17, <3>1, <3>2
  <2> QED
    BY <1>8, <2>1, <2>2 DEF ChainAttempt
<1>9. ASSUME NEW s \in Sockets, HandlerStep, ConnectionHandlerFails(s)
      PROVE  CacheOK'
  <2>1. connecting' = [connecting EXCEPT ![s] = "off"] /\ UNCHANGED cache
    BY <1>9 DEF ConnectionHandlerFails, ConnectFailed
  <2> QED
    BY <1>0, <1>17, <2>1
<1>10. ASSUME NEW s \in Sockets, HandlerStep, ConnectionHandler(s)
      PROVE  CacheOK'
  <2>1. connecting' = [connecting EXCEPT ![s] = "off"] /\ Attempting(s)
        /\ cache' = [cache EXCEPT ![waiter[s].server] = Append(cache[waiter[s].server], s)]
    BY <1>10 DEF ConnectionHandler, ConnectDone, Attempting
  <2>2. waiter[s].server \in Servers /\ \A v \in Servers : \A i \in DOMAIN cache[v] : cache[v][i] # s
    BY <2>1, ServesFacts
  <2> DEFINE v == waiter[s].server
             q == Append(cache[v], s)
  <2> HIDE DEF v
  <2>3. v \in Servers /\ cache[v] \in Seq(Sockets) /\ s \notin ToSet(cache[v])
        /\ \A k, l \in DOMAIN cache[v] : cache[v][k] = cache[v][l] => k = l
    BY <1>0, <2>2 DEF ToSet, v
  <2>4. \A k, l \in DOMAIN q : q[k] = q[l] => k = l
    BY <2>3, AppendDistinct
  <2>5. ToSet(q) = ToSet(cache[v]) \cup {s}
    BY <2>3, AppendSet
  <2> HIDE DEF q
  <2>6. cache'[v] = q /\ \A u \in Servers : u # v => cache'[u] = cache[u]
    BY <1>0, <2>1, <2>3 DEF v, q
  <2>7. \A k \in DOMAIN q : q[k] \in ToSet(cache[v]) \cup {s}
    BY <2>5 DEF ToSet
  <2>8. \A w \in Sockets : connecting[w] = "off" \/ w = s => connecting'[w] = "off"
    BY <1>0, <2>1
  <2>9. \A k \in DOMAIN q : connecting'[q[k]] = "off"
    BY <1>0, <2>3, <2>7, <2>8 DEF ToSet
  <2>10. \A u \in Servers : \A k, l \in DOMAIN cache'[u] : cache'[u][k] = cache'[u][l] => k = l
    BY <1>0, <2>4, <2>6
  <2>11. \A u \in Servers : \A k \in DOMAIN cache'[u] : connecting'[cache'[u][k]] = "off"
    BY <1>0, <2>6, <2>8, <2>9
  <2> QED
    BY <2>10, <2>11 DEF CacheOK, Attempting
<1>11. ASSUME NEW s \in Sockets, HandlerStep, TimeoutAborted(s)
      PROVE  CacheOK'
  BY <1>0, <1>11 DEF HandlerStep, TimeoutAborted, TimerAborted, CacheOK, Attempting
<1>12. ASSUME NEW s \in Sockets, HandlerStep, TimeoutHandler(s)
      PROVE  CacheOK'
  <2>1. connecting' = [connecting EXCEPT ![s] = IF @ = "waiting" THEN "error" ELSE @] /\ UNCHANGED cache
    BY <1>12 DEF TimeoutHandler, TimedOut
  <2> QED
    BY <1>0, <1>17, <2>1
<1>13. ASSUME NEW s \in Sockets, ProcDisconnects(s)
      PROVE  CacheOK'
  BY <1>0, <1>13 DEF ProcDisconnects, CacheOK, Attempting
<1>14. ASSUME TimerStep
      PROVE  CacheOK'
  BY <1>0, <1>14 DEF TimerStep, WorkedTimeExpires, reset_timer, LoopReturns, CacheOK, Attempting
<1>15. ASSUME NEW s \in Sockets, Network(s)
      PROVE  CacheOK'
  <2>1. /\ UNCHANGED cache
        /\ \/ UNCHANGED connecting
           \/ connecting[s] = "waiting" /\ \E c \in {"ok", "error"} : connecting' = [connecting EXCEPT ![s] = c]
    BY <1>15 DEF Network, Connects, Refuses, TimerExpires
  <2> QED
    BY <1>0, <1>17, <2>1
<1>16. ASSUME UNCHANGED vars
      PROVE  CacheOK'
  BY <1>0, <1>16 DEF vars, CacheOK, Attempting
<1> QED
  BY <1>1, <1>2, <1>3, <1>4, <1>5, <1>6, <1>7, <1>8, <1>9, <1>10,
     <1>11, <1>12, <1>13, <1>14, <1>15, <1>16, NextCases

(* A timer is set with an attempt, and cancelled with it.                    *)
LEMMA TimerGuardsStep ==
  ASSUME IInv, [Next]_vars
  PROVE  TimerGuardsAttempt'

<1>0. /\ connecting \in [Sockets -> {"off", "waiting", "ok", "error"}]
      /\ timer \in [Sockets -> {"off", "waiting", "expired", "aborted"}]
      /\ \A s \in Sockets : timer[s] = "waiting" => connecting[s] # "off"
  BY DEF IInv, ConnTypeOK, TimerGuardsAttempt
<1>1. ASSUME NEW call \in Calls, Connect(call)
      PROVE  TimerGuardsAttempt'
  BY <1>0, <1>1 DEF Connect, Begin, TimerGuardsAttempt
<1>2. ASSUME NEW goal \in {"disconnect", "reconnect", "destroy"}, Disconnect(goal)
      PROVE  TimerGuardsAttempt'
  BY <1>0, <1>2 DEF Disconnect, TimerGuardsAttempt
<1>3. ASSUME Clear
      PROVE  TimerGuardsAttempt'
  BY <1>0, <1>3 DEF Clear, TimerGuardsAttempt
<1>4. ASSUME Disconnected
      PROVE  TimerGuardsAttempt'
  BY <1>0, <1>4 DEF Disconnected, Begin, TimerGuardsAttempt
<1>5. ASSUME Join
      PROVE  TimerGuardsAttempt'
  BY <1>0, <1>5 DEF Join, TimerGuardsAttempt
<1>6. ASSUME NEW t \in Agents, ThreadStep(t), ChainEnds(t)
      PROVE  TimerGuardsAttempt'
  BY <1>0, <1>6 DEF ThreadStep, ChainEnds, Answer, TimerGuardsAttempt
<1>7. ASSUME NEW t \in Agents, ThreadStep(t), ChainFromCache(t)
      PROVE  TimerGuardsAttempt'
  BY <1>0, <1>7 DEF ThreadStep, ChainFromCache, TimerGuardsAttempt
<1>8. ASSUME NEW t \in Agents, ThreadStep(t), ChainAttempt(t)
      PROVE  TimerGuardsAttempt'
  <2>1. CASE UNCHANGED connVars
    BY <1>0, <2>1 DEF TimerGuardsAttempt
  <2>2. CASE StartAttempt(Steps[chain[t].step].server, chain[t].req, chain[t].step, held)
    <3>1. PICK s \in Sockets :
            /\ connecting' = [connecting EXCEPT ![s] = "waiting"]
            /\ timer' = [timer EXCEPT ![s] = "waiting"]
      BY <2>2, AttemptFacts
    <3> QED
      BY <1>0, <3>1 DEF TimerGuardsAttempt
  <2> QED
    BY <1>8, <2>1, <2>2 DEF ChainAttempt
<1>9. ASSUME NEW s \in Sockets, HandlerStep, ConnectionHandlerFails(s)
      PROVE  TimerGuardsAttempt'
  BY <1>0, <1>9 DEF HandlerStep, ConnectionHandlerFails, ConnectFailed, Answer, TimerGuardsAttempt, Cancelled
<1>10. ASSUME NEW s \in Sockets, HandlerStep, ConnectionHandler(s)
      PROVE  TimerGuardsAttempt'
  BY <1>0, <1>10 DEF HandlerStep, ConnectionHandler, ConnectDone, TimerGuardsAttempt, Cancelled
<1>11. ASSUME NEW s \in Sockets, HandlerStep, TimeoutAborted(s)
      PROVE  TimerGuardsAttempt'
  BY <1>0, <1>11 DEF HandlerStep, TimeoutAborted, TimerAborted, TimerGuardsAttempt
<1>12. ASSUME NEW s \in Sockets, HandlerStep, TimeoutHandler(s)
      PROVE  TimerGuardsAttempt'
  BY <1>0, <1>12 DEF HandlerStep, TimeoutHandler, TimedOut, Answer, TimerGuardsAttempt
<1>13. ASSUME NEW s \in Sockets, ProcDisconnects(s)
      PROVE  TimerGuardsAttempt'
  BY <1>0, <1>13 DEF ProcDisconnects, TimerGuardsAttempt
<1>14. ASSUME TimerStep
      PROVE  TimerGuardsAttempt'
  BY <1>0, <1>14 DEF TimerStep, WorkedTimeExpires, reset_timer, LoopReturns, TimerGuardsAttempt
<1>15. ASSUME NEW s \in Sockets, Network(s)
      PROVE  TimerGuardsAttempt'
  BY <1>0, <1>15 DEF Network, Connects, Refuses, TimerExpires, TimerGuardsAttempt
<1>16. ASSUME UNCHANGED vars
      PROVE  TimerGuardsAttempt'
  BY <1>0, <1>16 DEF vars, TimerGuardsAttempt
<1> QED
  BY <1>1, <1>2, <1>3, <1>4, <1>5, <1>6, <1>7, <1>8, <1>9, <1>10,
     <1>11, <1>12, <1>13, <1>14, <1>15, <1>16, NextCases

(* Nobody takes a socket that another has, or that is being connected.       *)
LEMMA HeldStep ==
  ASSUME IInv, [Next]_vars
  PROVE  HeldOK'

<1>0. /\ connecting \in [Sockets -> {"off", "waiting", "ok", "error"}] /\ DistinctOK
      /\ \A s \in held : s \in Sockets /\ connecting[s] = "off"
      /\ master_pipeline \in Sockets \cup {0} /\ master_serial \in Sockets \cup {0}
      /\ pipeline_pool.list \in Seq(Sockets) /\ serial_pool.list \in Seq(Sockets)
      /\ pipeline_pool \in Pool /\ serial_pool \in Pool
  <2>1. /\ master_pipeline \in Sockets \cup {0} /\ master_serial \in Sockets \cup {0}
        /\ pipeline_pool.list \in Seq(Sockets) /\ serial_pool.list \in Seq(Sockets)
        /\ pipeline_pool \in Pool /\ serial_pool \in Pool
    BY DEF IInv, SetupTypeOK, Pool
  <2>2. ToSet(pipeline_pool.list) \subseteq Sockets /\ ToSet(serial_pool.list) \subseteq Sockets
    BY <2>1, SetOfSeq
  <2>3. \A s \in held : s \in Sockets
    BY <2>1, <2>2 DEF held
  <2> QED
    BY <2>1, <2>3 DEF IInv, HeldOK, ConnTypeOK, Attempting
<1>17. ASSUME UNCHANGED <<master_pipeline, master_serial, pipeline_pool, serial_pool>>,
              \A s \in held : connecting'[s] = "off"
       PROVE  HeldOK'
  BY <1>0, <1>17 DEF HeldOK, DistinctOK, held, Attempting
<1>1. ASSUME NEW call \in Calls, Connect(call)
      PROVE  HeldOK'
  BY <1>0, <1>1, <1>17 DEF Connect, Begin, held
<1>2. ASSUME NEW goal \in {"disconnect", "reconnect", "destroy"}, Disconnect(goal)
      PROVE  HeldOK'
  BY <1>0, <1>2, <1>17 DEF Disconnect, held
<1>3. ASSUME Clear
      PROVE  HeldOK'
  <2>1. held' \subseteq held /\ DistinctOK'
    <3> DEFINE p == Head(app.clearing)
    <3>1. /\ master_pipeline' = IF p = "master_pipeline" THEN 0 ELSE master_pipeline
          /\ master_serial' = IF p = "master_serial" THEN 0 ELSE master_serial
          /\ pipeline_pool' = IF p = "pipeline_pool" THEN clear(pipeline_pool) ELSE pipeline_pool
          /\ serial_pool' = IF p = "serial_pool" THEN clear(serial_pool) ELSE serial_pool
      BY <1>3 DEF Clear
    <3> HIDE DEF p
    <3>2. clear(pipeline_pool).list = <<>> /\ clear(serial_pool).list = <<>>
      BY <1>0, ClearFacts
    <3>3. pipeline_pool'.list = <<>> \/ pipeline_pool'.list = pipeline_pool.list
      BY <3>1, <3>2
    <3>4. serial_pool'.list = <<>> \/ serial_pool'.list = serial_pool.list
      BY <3>1, <3>2
    <3>5. ToSet(<<>>) = {} /\ DOMAIN <<>> = {}
      BY DEF ToSet
    <3>6. ToSet(pipeline_pool'.list) \subseteq ToSet(pipeline_pool.list)
      BY <3>3, <3>5
    <3>7. ToSet(serial_pool'.list) \subseteq ToSet(serial_pool.list)
      BY <3>4, <3>5
    <3>8. master_pipeline' \in {0, master_pipeline} /\ master_serial' \in {0, master_serial}
      BY <3>1
    <3>9. held' \subseteq held
      BY <3>6, <3>7, <3>8 DEF held
    <3>10. 0 \notin ToSet(pipeline_pool.list) /\ 0 \notin ToSet(serial_pool.list)
      <4>1. 0 \notin Sockets
        BY SocketAssumption DEF Sockets
      <4> QED
        BY <1>0, <4>1, SetOfSeq
    <3>11. \A i, j \in DOMAIN pipeline_pool'.list : pipeline_pool'.list[i] = pipeline_pool'.list[j] => i = j
      BY <1>0, <3>3, <3>5 DEF DistinctOK
    <3>12. \A i, j \in DOMAIN serial_pool'.list : serial_pool'.list[i] = serial_pool'.list[j] => i = j
      BY <1>0, <3>4, <3>5 DEF DistinctOK
    <3>13. master_pipeline' # 0 => master_pipeline' # master_serial'
      BY <1>0, <3>8 DEF DistinctOK
    <3>14. \A s \in {master_pipeline', master_serial'} :
             s \notin ToSet(pipeline_pool'.list) \cup ToSet(serial_pool'.list)
      BY <1>0, <3>6, <3>7, <3>8, <3>10 DEF DistinctOK
    <3>15. ToSet(pipeline_pool'.list) \cap ToSet(serial_pool'.list) = {}
      BY <1>0, <3>6, <3>7 DEF DistinctOK
    <3> QED
      BY <3>9, <3>11, <3>12, <3>13, <3>14, <3>15 DEF DistinctOK
  <2>2. UNCHANGED connecting
    BY <1>3 DEF Clear
  <2> QED
    BY <1>0, <2>1, <2>2 DEF HeldOK, Attempting
<1>4. ASSUME Disconnected
      PROVE  HeldOK'
  BY <1>0, <1>4, <1>17 DEF Disconnected, Begin, held
<1>5. ASSUME Join
      PROVE  HeldOK'
  BY <1>0, <1>5, <1>17 DEF Join, held
<1>6. ASSUME NEW t \in Agents, ThreadStep(t), ChainEnds(t)
      PROVE  HeldOK'
  BY <1>0, <1>6, <1>17 DEF ThreadStep, ChainEnds, Answer, held
<1>7. ASSUME NEW t \in Agents, ThreadStep(t), ChainFromCache(t)
      PROVE  HeldOK'
  <2>1. PICK v \in Servers : \E i \in DOMAIN cache[v] :
           DistinctOK' /\ held' \subseteq held \cup {cache[v][i]} /\ connecting[cache[v][i]] = "off"
    BY <1>7, CacheHeld
  <2>2. PICK i \in DOMAIN cache[v] :
           DistinctOK' /\ held' \subseteq held \cup {cache[v][i]} /\ connecting[cache[v][i]] = "off"
    BY <2>1
  <2>3. UNCHANGED connecting
    BY <1>7 DEF ChainFromCache
  <2> QED
    BY <1>0, <2>2, <2>3 DEF HeldOK, Attempting
<1>8. ASSUME NEW t \in Agents, ThreadStep(t), ChainAttempt(t)
      PROVE  HeldOK'
  <2>0. UNCHANGED <<master_pipeline, master_serial, pipeline_pool, serial_pool>>
    BY <1>8 DEF ChainAttempt
  <2>1. CASE UNCHANGED connVars
    BY <1>0, <1>17, <2>0, <2>1
  <2>2. CASE StartAttempt(Steps[chain[t].step].server, chain[t].req, chain[t].step, held)
    <3>1. PICK s \in Sockets : s \notin held /\ connecting' = [connecting EXCEPT ![s] = "waiting"]
      BY <2>2, AttemptFacts
    <3> QED
      BY <1>0, <1>17, <2>0, <3>1
  <2> QED
    BY <1>8, <2>1, <2>2 DEF ChainAttempt
<1>9. ASSUME NEW s \in Sockets, HandlerStep, ConnectionHandlerFails(s)
      PROVE  HeldOK'
  <2>1. connecting' = [connecting EXCEPT ![s] = "off"]
        /\ UNCHANGED <<master_pipeline, master_serial, pipeline_pool, serial_pool>>
    BY <1>9 DEF ConnectionHandlerFails, ConnectFailed
  <2> QED
    BY <1>0, <1>17, <2>1
<1>10. ASSUME NEW s \in Sockets, HandlerStep, ConnectionHandler(s)
      PROVE  HeldOK'
  <2>1. connecting' = [connecting EXCEPT ![s] = "off"]
    BY <1>10 DEF ConnectionHandler, ConnectDone
  <2>2. DistinctOK' /\ held' \subseteq held \cup {s}
    BY <1>10, DoneHeld
  <2> QED
    BY <1>0, <2>1, <2>2 DEF HeldOK, Attempting
<1>11. ASSUME NEW s \in Sockets, HandlerStep, TimeoutAborted(s)
      PROVE  HeldOK'
  BY <1>0, <1>11, <1>17 DEF HandlerStep, TimeoutAborted, TimerAborted, held
<1>12. ASSUME NEW s \in Sockets, HandlerStep, TimeoutHandler(s)
      PROVE  HeldOK'
  <2>1. connecting' = [connecting EXCEPT ![s] = IF @ = "waiting" THEN "error" ELSE @]
        /\ UNCHANGED <<master_pipeline, master_serial, pipeline_pool, serial_pool>>
    BY <1>12 DEF TimeoutHandler, TimedOut
  <2> QED
    BY <1>0, <1>17, <2>1
<1>13. ASSUME NEW s \in Sockets, ProcDisconnects(s)
      PROVE  HeldOK'
  BY <1>0, <1>13, <1>17 DEF ProcDisconnects, held
<1>14. ASSUME TimerStep
      PROVE  HeldOK'
  BY <1>0, <1>14, <1>17 DEF TimerStep, WorkedTimeExpires, reset_timer, LoopReturns, held
<1>15. ASSUME NEW s \in Sockets, Network(s)
      PROVE  HeldOK'
  <2>1. /\ UNCHANGED <<master_pipeline, master_serial, pipeline_pool, serial_pool>>
        /\ \/ UNCHANGED connecting
           \/ connecting[s] = "waiting" /\ \E c \in {"ok", "error"} : connecting' = [connecting EXCEPT ![s] = c]
    BY <1>15 DEF Network, Connects, Refuses, TimerExpires
  <2> QED
    BY <1>0, <1>17, <2>1
<1>16. ASSUME UNCHANGED vars
      PROVE  HeldOK'
  BY <1>0, <1>16, <1>17 DEF vars, held
<1> QED
  BY <1>1, <1>2, <1>3, <1>4, <1>5, <1>6, <1>7, <1>8, <1>9, <1>10,
     <1>11, <1>12, <1>13, <1>14, <1>15, <1>16, NextCases

(* The steps of the chain are those of the call, until the next one.         *)
LEMMA StepsSame ==
  ASSUME UNCHANGED setupVars
  PROVE  Steps' = Steps /\ MasterSteps' = MasterSteps /\ UNCHANGED <<master_conn, slave_pool>>
<1>1. UNCHANGED <<master_conn, slave_pool>>
  OBVIOUS
<1> QED
  BY <1>1 DEF Steps, Units, MasterSteps

(* There is a number of them,                                                *)
StepsCounted == Len(Steps) \in Nat

LEMMA StepsCount == SetupTypeOK => StepsCounted
BY StepsFacts DEF StepsCounted

(* The same in the next state.                                               *)
LEMMA StepsCountPrime == SetupTypeOK' => StepsCounted'
BY StepsCount, PTL

(* Who can be working when the application is free.                          *)
LEMMA FirstCall ==
  ASSUME IInv, req = 0
  PROVE  /\ \A s \in Sockets : connecting[s] = "off" /\ timer[s] = "off"
         /\ \A t \in Agents : chain[t] = NoStep
<1>1. 1..req = {}
  OBVIOUS
<1> QED
  BY <1>1 DEF IInv, AttemptOK, Kept, Attempting, ChainOK

(* Attempts belong to requests.                                              *)
LEMMA AttemptStep ==
  ASSUME IInv, [Next]_vars
  PROVE  AttemptOK'

<1>0. /\ connecting \in [Sockets -> {"off", "waiting", "ok", "error"}]
      /\ timer \in [Sockets -> {"off", "waiting", "expired", "aborted"}]
      /\ waiter \in [Sockets -> [server : Servers \cup {"none"}, req : 0..MaxRequests, step : Nat]]
      /\ req \in Nat
  BY CallAssumption DEF IInv, ConnTypeOK, ClientTypeOK
<1>17. ASSUME UNCHANGED setupVars, req' \in Nat, req <= req',
              \A s \in Sockets : connecting'[s] # "off" \/ timer'[s] # "off" =>
                                   (connecting[s] # "off" \/ timer[s] # "off") /\ waiter'[s] = waiter[s]
       PROVE  AttemptOK'
  <2>1. 1..req \subseteq 1..req' /\ Steps' = Steps
    BY <1>0, <1>17, StepsSame
  <2>2. \A s \in Sockets : connecting'[s] # "off" \/ timer'[s] # "off" =>
          /\ waiter[s].req \in 1..req /\ waiter[s].step \in 1..Len(Steps) /\ waiter[s].server \in Servers
          /\ waiter'[s] = waiter[s]
    BY <1>17 DEF IInv, AttemptOK, Kept, Attempting
  <2> QED
    BY <2>1, <2>2 DEF AttemptOK, Kept, Attempting
<1>18. ASSUME NEW s \in Sockets, Dropped(s)
       PROVE  \A u \in Sockets : connecting'[u] # "off" \/ timer'[u] # "off" => waiter'[u] = waiter[u]
  BY <1>0, <1>18 DEF Dropped
<1>19. waiter' \in [Sockets -> [server : Servers \cup {"none"}, req : 0..MaxRequests, step : Nat]]
  BY ConnTypeStep DEF ConnTypeOK
<1>1. ASSUME NEW call \in Calls, Connect(call)
      PROVE  AttemptOK'
  <2>1. UNCHANGED <<connecting, timer, waiter>> /\ req = 0
    BY <1>1 DEF Connect
  <2> QED
    BY <2>1, FirstCall DEF AttemptOK, Kept, Attempting
<1>2. ASSUME NEW goal \in {"disconnect", "reconnect", "destroy"}, Disconnect(goal)
      PROVE  AttemptOK'
  BY <1>0, <1>2, <1>17, <1>19 DEF Disconnect, vars
<1>3. ASSUME Clear
      PROVE  AttemptOK'
  BY <1>0, <1>3, <1>17, <1>19 DEF Clear, vars
<1>4. ASSUME Disconnected
      PROVE  AttemptOK'
  <2>1. UNCHANGED <<connecting, timer, waiter>> /\ UNCHANGED setupVars /\ req' \in Nat /\ req <= req'
    BY <1>0, <1>4 DEF Disconnected
  <2> QED
    BY <1>17, <1>19, <2>1
<1>5. ASSUME Join
      PROVE  AttemptOK'
  BY <1>0, <1>5, <1>17, <1>19 DEF Join, vars
<1>6. ASSUME NEW t \in Agents, ThreadStep(t), ChainEnds(t)
      PROVE  AttemptOK'
  BY <1>0, <1>6, <1>17, <1>19 DEF ThreadStep, ChainEnds, Answer, vars
<1>7. ASSUME NEW t \in Agents, ThreadStep(t), ChainFromCache(t)
      PROVE  AttemptOK'
  BY <1>0, <1>7, <1>17, <1>19 DEF ThreadStep, ChainFromCache, vars
<1>8. ASSUME NEW t \in Agents, ThreadStep(t), ChainAttempt(t)
      PROVE  AttemptOK'
  <2>0. UNCHANGED setupVars /\ UNCHANGED req
    BY <1>8 DEF ThreadStep
  <2>1. CASE UNCHANGED connVars
    BY <1>0, <1>17, <1>19, <2>0, <2>1
  <2>2. CASE StartAttempt(Steps[chain[t].step].server, chain[t].req, chain[t].step, held)
    <3>1. Steps[chain[t].step].server \in Servers /\ chain[t].req \in 1..req /\ chain[t].step \in 1..Len(Steps)
      BY <1>8, StepsFacts, WorksFacts DEF IInv, ChainAttempt, ThreadStep
    <3>2. PICK s \in Sockets :
            /\ connecting' = [connecting EXCEPT ![s] = "waiting"]
            /\ timer' = [timer EXCEPT ![s] = "waiting"]
            /\ waiter' = [waiter EXCEPT ![s] = [server |-> Steps[chain[t].step].server, req |-> chain[t].req,
                                                step |-> chain[t].step]]
      BY <2>2, AttemptFacts
    <3>3. \A u \in Sockets : Kept(u)' =>
            waiter'[u].req \in 1..req /\ waiter'[u].step \in 1..Len(Steps) /\ waiter'[u].server \in Servers
      <4>1. CASE TRUE
        <5>1. waiter'[s].req \in 1..req /\ waiter'[s].step \in 1..Len(Steps) /\ waiter'[s].server \in Servers
          BY <1>0, <3>1, <3>2
        <5>2. \A u \in Sockets : u # s =>
                waiter'[u] = waiter[u] /\ connecting'[u] = connecting[u] /\ timer'[u] = timer[u]
          BY <1>0, <3>2
        <5> QED
          BY <5>1, <5>2 DEF IInv, AttemptOK, Kept, Attempting
      <4> QED
        BY <4>1
    <3> QED
      BY <2>0, <3>3, StepsSame DEF AttemptOK
  <2> QED
    BY <1>8, <2>1, <2>2 DEF ChainAttempt
<1>9. ASSUME NEW s \in Sockets, HandlerStep, ConnectionHandlerFails(s)
      PROVE  AttemptOK'
  <2>1. /\ connecting' = [connecting EXCEPT ![s] = "off"] /\ timer' = [timer EXCEPT ![s] = Cancelled(s)]
        /\ Dropped(s) /\ connecting[s] = "error" /\ UNCHANGED setupVars /\ UNCHANGED req
    BY <1>9 DEF HandlerStep, ConnectionHandlerFails, ConnectFailed
  <2> QED
    BY <1>0, <1>17, <1>18, <1>19, <2>1
<1>10. ASSUME NEW s \in Sockets, HandlerStep, ConnectionHandler(s)
      PROVE  AttemptOK'
  <2>1. /\ connecting' = [connecting EXCEPT ![s] = "off"] /\ timer' = [timer EXCEPT ![s] = Cancelled(s)]
        /\ Dropped(s) /\ connecting[s] = "ok" /\ UNCHANGED setupVars /\ UNCHANGED req
    BY <1>10 DEF HandlerStep, ConnectionHandler, ConnectDone
  <2> QED
    BY <1>0, <1>17, <1>18, <1>19, <2>1
<1>11. ASSUME NEW s \in Sockets, HandlerStep, TimeoutAborted(s)
      PROVE  AttemptOK'
  <2>1. /\ UNCHANGED connecting /\ timer' = [timer EXCEPT ![s] = "off"]
        /\ Dropped(s) /\ UNCHANGED setupVars /\ UNCHANGED req
    BY <1>11 DEF HandlerStep, TimeoutAborted, TimerAborted
  <2> QED
    BY <1>0, <1>17, <1>18, <1>19, <2>1
<1>12. ASSUME NEW s \in Sockets, HandlerStep, TimeoutHandler(s)
      PROVE  AttemptOK'
  <2>1. /\ connecting' = [connecting EXCEPT ![s] = IF @ = "waiting" THEN "error" ELSE @]
        /\ timer' = [timer EXCEPT ![s] = "off"] /\ timer[s] = "expired"
        /\ Dropped(s) /\ UNCHANGED setupVars /\ UNCHANGED req
    BY <1>12 DEF HandlerStep, TimeoutHandler, TimedOut
  <2> QED
    BY <1>0, <1>17, <1>18, <1>19, <2>1
<1>13. ASSUME NEW s \in Sockets, ProcDisconnects(s)
      PROVE  AttemptOK'
  BY <1>0, <1>13, <1>17, <1>19 DEF ProcDisconnects, vars
<1>14. ASSUME TimerStep
      PROVE  AttemptOK'
  BY <1>0, <1>14, <1>17, <1>19 DEF TimerStep, WorkedTimeExpires, reset_timer, LoopReturns, vars
<1>15. ASSUME NEW s \in Sockets, Network(s)
      PROVE  AttemptOK'
  BY <1>0, <1>15, <1>17, <1>19 DEF Network, Connects, Refuses, TimerExpires, vars
<1>16. ASSUME UNCHANGED vars
      PROVE  AttemptOK'
  BY <1>0, <1>16, <1>17, <1>19 DEF vars, vars
<1> QED
  BY <1>1, <1>2, <1>3, <1>4, <1>5, <1>6, <1>7, <1>8, <1>9, <1>10,
     <1>11, <1>12, <1>13, <1>14, <1>15, <1>16, NextCases

(* Chains belong to requests.                                                *)
LEMMA ChainsStep ==
  ASSUME IInv, [Next]_vars
  PROVE  ChainOK'

<1>0. /\ chain \in [Agents -> [req : 0..MaxRequests, step : Nat]] /\ req \in Nat /\ Len(Steps) \in Nat
      /\ \A t \in Agents : chain[t] # NoStep => chain[t].req \in 1..req /\ chain[t].step \in 1..(Len(Steps) + 1)
      /\ "app" \in Agents /\ "loop" \in Agents
  BY CallAssumption, StepsCount DEF IInv, ClientTypeOK, ChainOK, Agents, StepsCounted
<1>17. ASSUME UNCHANGED setupVars, UNCHANGED req,
              \A t \in Agents : \/ chain'[t] = chain[t] \/ chain'[t] = NoStep
                                \/ chain'[t].req \in 1..req /\ chain'[t].step \in 1..(Len(Steps) + 1)
       PROVE  ChainOK'
  BY <1>0, <1>17, StepsSame DEF ChainOK
<1>1. ASSUME NEW call \in Calls, Connect(call)
      PROVE  ChainOK'
  <2>1. chain' = [chain EXCEPT !["app"] = [req |-> 1, step |-> 1]] /\ req = 0 /\ req' = 1
    BY <1>1 DEF Connect, Begin
  <2>2. Len(Steps)' \in Nat
    BY SetupTypeStep, StepsCountPrime DEF StepsCounted
  <2>3. \A t \in Agents : chain'[t] = NoStep \/ chain'[t] = [req |-> 1, step |-> 1]
    BY <1>0, <2>1, FirstCall
  <2>4. 1 \in 1..req' /\ 1 \in 1..(Len(Steps)' + 1)
    BY <2>1, <2>2
  <2> QED
    BY <2>3, <2>4 DEF ChainOK
<1>2. ASSUME NEW goal \in {"disconnect", "reconnect", "destroy"}, Disconnect(goal)
      PROVE  ChainOK'
  BY <1>0, <1>2, <1>17 DEF Disconnect, vars
<1>3. ASSUME Clear
      PROVE  ChainOK'
  BY <1>0, <1>3, <1>17 DEF Clear, vars
<1>4. ASSUME Disconnected
      PROVE  ChainOK'
  <2>1. UNCHANGED setupVars
    BY <1>4 DEF Disconnected
  <2>2. CASE UNCHANGED <<req, chain>>
    BY <1>0, <1>17, <2>1, <2>2
  <2>3. CASE req' = req + 1 /\ chain' = [chain EXCEPT !["app"] = [req |-> req + 1, step |-> 1]]
    <3>1. req + 1 \in 1..req' /\ 1 \in 1..(Len(Steps) + 1) /\ 1..req \subseteq 1..req' /\ Steps' = Steps
      BY <1>0, <2>1, <2>3, StepsSame
    <3>2. \A t \in Agents : chain'[t] = chain[t] \/ chain'[t] = [req |-> req + 1, step |-> 1]
      BY <1>0, <2>3
    <3>3. ASSUME NEW t \in Agents, chain'[t] # NoStep
          PROVE  chain'[t].req \in 1..req' /\ chain'[t].step \in 1..(Len(Steps) + 1)
      <4>1. CASE chain'[t] = chain[t]
        BY <1>0, <3>1, <3>3, <4>1
      <4>2. CASE chain'[t] = [req |-> req + 1, step |-> 1]
        BY <3>1, <4>2
      <4> QED
        BY <3>2, <4>1, <4>2
    <3> QED
      BY <3>1, <3>3 DEF ChainOK
  <2> QED
    BY <1>4, <2>2, <2>3 DEF Disconnected, Begin
<1>5. ASSUME Join
      PROVE  ChainOK'
  BY <1>0, <1>5, <1>17 DEF Join, vars
<1>6. ASSUME NEW t \in Agents, ThreadStep(t), ChainEnds(t)
      PROVE  ChainOK'
  BY <1>0, <1>6, <1>17 DEF ThreadStep, ChainEnds, Answer, vars
<1>7. ASSUME NEW t \in Agents, ThreadStep(t), ChainFromCache(t)
      PROVE  ChainOK'
  <2>1. chain' = [chain EXCEPT ![t].step = @ + 1] /\ UNCHANGED setupVars /\ UNCHANGED req
    BY <1>7 DEF ChainFromCache, ThreadStep
  <2>2. chain[t].req \in 1..req /\ chain[t].step \in 1..Len(Steps)
    BY <1>7, WorksFacts, StepsFacts DEF IInv, ChainFromCache, ThreadStep
  <2>3. chain'[t].req \in 1..req /\ chain'[t].step \in 1..(Len(Steps) + 1)
    BY <1>0, <2>1, <2>2
  <2>4. \A u \in Agents : u # t => chain'[u] = chain[u]
    BY <1>0, <2>1
  <2> QED
    BY <1>17, <2>1, <2>3, <2>4
<1>8. ASSUME NEW t \in Agents, ThreadStep(t), ChainAttempt(t)
      PROVE  ChainOK'
  BY <1>0, <1>8, <1>17 DEF ThreadStep, ChainAttempt, Answer, vars
<1>9. ASSUME NEW s \in Sockets, HandlerStep, ConnectionHandlerFails(s)
      PROVE  ChainOK'
  BY <1>0, <1>9, <1>17 DEF HandlerStep, ConnectionHandlerFails, ConnectFailed, Answer, vars
<1>10. ASSUME NEW s \in Sockets, HandlerStep, ConnectionHandler(s)
      PROVE  ChainOK'
  <2>1. /\ chain' = [chain EXCEPT !["loop"] = [req |-> waiter[s].req, step |-> waiter[s].step + 1]]
        /\ UNCHANGED setupVars /\ UNCHANGED req /\ Attempting(s)
    BY <1>10 DEF HandlerStep, ConnectionHandler, ConnectDone, Attempting
  <2>2. waiter[s].req \in 1..req /\ waiter[s].step + 1 \in 1..(Len(Steps) + 1)
    BY <1>0, <2>1, ServesFacts
  <2> QED
    BY <1>0, <1>17, <2>1, <2>2
<1>11. ASSUME NEW s \in Sockets, HandlerStep, TimeoutAborted(s)
      PROVE  ChainOK'
  BY <1>0, <1>11, <1>17 DEF HandlerStep, TimeoutAborted, TimerAborted, vars
<1>12. ASSUME NEW s \in Sockets, HandlerStep, TimeoutHandler(s)
      PROVE  ChainOK'
  BY <1>0, <1>12, <1>17 DEF HandlerStep, TimeoutHandler, TimedOut, Answer, vars
<1>13. ASSUME NEW s \in Sockets, ProcDisconnects(s)
      PROVE  ChainOK'
  BY <1>0, <1>13, <1>17 DEF ProcDisconnects, vars
<1>14. ASSUME TimerStep
      PROVE  ChainOK'
  BY <1>0, <1>14, <1>17 DEF TimerStep, WorkedTimeExpires, reset_timer, LoopReturns, vars
<1>15. ASSUME NEW s \in Sockets, Network(s)
      PROVE  ChainOK'
  BY <1>0, <1>15, <1>17 DEF Network, Connects, Refuses, TimerExpires, vars
<1>16. ASSUME UNCHANGED vars
      PROVE  ChainOK'
  BY <1>0, <1>16, <1>17 DEF vars, vars
<1> QED
  BY <1>1, <1>2, <1>3, <1>4, <1>5, <1>6, <1>7, <1>8, <1>9, <1>10,
     <1>11, <1>12, <1>13, <1>14, <1>15, <1>16, NextCases

(* The confirmation of one request.                                          *)
LEMMA Answered ==
  ASSUME IInv, NEW r \in 1..req, NEW code \in Codes, Answer(r, code)
  PROVE  answers'[r] # <<>> /\ \A u \in 1..MaxRequests : u # r => answers'[u] = answers[u]
<1>1. answers \in [1..MaxRequests -> Seq(Codes)] /\ req \in 0..MaxRequests /\ MaxRequests \in Nat
  BY CallAssumption DEF IInv, ClientTypeOK
<1>2. answers' = [answers EXCEPT ![r] = Append(answers[r], code)] /\ r \in 1..MaxRequests
  BY <1>1 DEF Answer
<1>3. answers[r] \in Seq(Codes)
  BY <1>1, <1>2
<1> DEFINE a == Append(answers[r], code)
<1>4. Len(a) = Len(answers[r]) + 1 /\ Len(answers[r]) \in Nat
  BY <1>3
<1> HIDE DEF a
<1>5. a # <<>>
  <2>1. Len(<<>>) = 0
    OBVIOUS
  <2> QED
    BY <1>4, <2>1
<1> QED
  BY <1>1, <1>2, <1>5 DEF a

(* What is asked for next was not answered before, what was asked for is.    *)
LEMMA AskedStep ==
  ASSUME IInv, [Next]_vars
  PROVE  AskedOK'

<1>0. /\ req \in 0..MaxRequests /\ MaxRequests \in Nat
      /\ answers \in [1..MaxRequests -> Seq(Codes)]
      /\ \A r \in 1..MaxRequests : r > req => answers[r] = <<>>
      /\ \A r \in 1..req : r < req \/ app.goal # "none" => answers[r] # <<>>
      /\ 1..req \subseteq 1..MaxRequests
  BY CallAssumption DEF IInv, ClientTypeOK, AskedOK
<1>17. ASSUME NEW r \in 1..req, NEW code \in Codes, Answer(r, code), UNCHANGED <<app, req>>
       PROVE  AskedOK'
  <2>1. answers'[r] # <<>> /\ \A u \in 1..MaxRequests : u # r => answers'[u] = answers[u]
    BY <1>17, Answered
  <2>2. \A u \in 1..MaxRequests : u > req => u # r
    BY <1>0
  <2>3. \A u \in 1..MaxRequests : u > req => answers'[u] = <<>>
    BY <1>0, <2>1, <2>2
  <2>4. \A u \in 1..req : u < req \/ app.goal # "none" => answers'[u] # <<>>
    BY <1>0, <2>1
  <2> QED
    BY <1>17, <2>3, <2>4 DEF AskedOK
<1>18. ASSUME UNCHANGED answers, UNCHANGED req, app.goal # "none" \/ app'.goal = "none"
       PROVE  AskedOK'
  BY <1>0, <1>18 DEF AskedOK
<1>1. ASSUME NEW call \in Calls, Connect(call)
      PROVE  AskedOK'
  <2>1. req = 0 /\ req' = 1 /\ UNCHANGED <<answers, app>> /\ app = Ready
    BY <1>1 DEF Connect, AppIsFree
  <2> QED
    BY <1>0, <2>1 DEF AskedOK, Ready
<1>2. ASSUME NEW goal \in {"disconnect", "reconnect", "destroy"}, Disconnect(goal)
      PROVE  AskedOK'
  <2>1. UNCHANGED <<answers, req>> /\ (req > 0 => answers[req] # <<>>)
    BY <1>2 DEF Disconnect, AppIsFree
  <2> QED
    BY <1>0, <2>1 DEF AskedOK
<1>3. ASSUME Clear
      PROVE  AskedOK'
  BY <1>0, <1>3, <1>18 DEF Clear, vars
<1>4. ASSUME Disconnected
      PROVE  AskedOK'
  <2>1. app.goal # "none" /\ app'.goal = "none" /\ UNCHANGED answers /\ req' \in {req, req + 1}
    BY <1>4 DEF Disconnected, Ready
  <2> QED
    BY <1>0, <2>1 DEF AskedOK
<1>5. ASSUME Join
      PROVE  AskedOK'
  BY <1>0, <1>5, <1>18 DEF Join, vars
<1>6. ASSUME NEW t \in Agents, ThreadStep(t), ChainEnds(t)
      PROVE  AskedOK'
  <2>1. chain[t].req \in 1..req
    BY <1>6, WorksFacts DEF ThreadStep
  <2> QED
    BY <1>6, <1>17, <2>1 DEF ThreadStep, ChainEnds, Codes
<1>7. ASSUME NEW t \in Agents, ThreadStep(t), ChainFromCache(t)
      PROVE  AskedOK'
  BY <1>0, <1>7, <1>18 DEF ThreadStep, ChainFromCache, vars
<1>8. ASSUME NEW t \in Agents, ThreadStep(t), ChainAttempt(t)
      PROVE  AskedOK'
  <2>1. chain[t].req \in 1..req
    BY <1>8, WorksFacts DEF ThreadStep
  <2> QED
    BY <1>8, <1>17, <1>18, <2>1 DEF ThreadStep, ChainAttempt, Codes
<1>9. ASSUME NEW s \in Sockets, HandlerStep, ConnectionHandlerFails(s)
      PROVE  AskedOK'
  <2>1. waiter[s].req \in 1..req
    BY <1>9 DEF IInv, AttemptOK, Kept, Attempting, ConnectionHandlerFails, ConnectFailed
  <2> QED
    BY <1>9, <1>17, <2>1 DEF HandlerStep, ConnectionHandlerFails, Codes
<1>10. ASSUME NEW s \in Sockets, HandlerStep, ConnectionHandler(s)
      PROVE  AskedOK'
  BY <1>0, <1>10, <1>18 DEF HandlerStep, ConnectionHandler, ConnectDone, vars
<1>11. ASSUME NEW s \in Sockets, HandlerStep, TimeoutAborted(s)
      PROVE  AskedOK'
  BY <1>0, <1>11, <1>18 DEF HandlerStep, TimeoutAborted, TimerAborted, vars
<1>12. ASSUME NEW s \in Sockets, HandlerStep, TimeoutHandler(s)
      PROVE  AskedOK'
  <2>1. waiter[s].req \in 1..req
    BY <1>12 DEF IInv, AttemptOK, Kept, TimeoutHandler, TimedOut
  <2> QED
    BY <1>12, <1>17, <2>1 DEF HandlerStep, TimeoutHandler, Codes
<1>13. ASSUME NEW s \in Sockets, ProcDisconnects(s)
      PROVE  AskedOK'
  BY <1>0, <1>13, <1>18 DEF ProcDisconnects, vars
<1>14. ASSUME TimerStep
      PROVE  AskedOK'
  BY <1>0, <1>14, <1>18 DEF TimerStep, WorkedTimeExpires, reset_timer, LoopReturns, vars
<1>15. ASSUME NEW s \in Sockets, Network(s)
      PROVE  AskedOK'
  BY <1>0, <1>15, <1>18 DEF Network, Connects, Refuses, TimerExpires, vars
<1>16. ASSUME UNCHANGED vars
      PROVE  AskedOK'
  BY <1>0, <1>16, <1>18 DEF vars, vars
<1> QED
  BY <1>1, <1>2, <1>3, <1>4, <1>5, <1>6, <1>7, <1>8, <1>9, <1>10,
     <1>11, <1>12, <1>13, <1>14, <1>15, <1>16, NextCases

(* What the application does, it does in its order.                          *)
LEMMA AppStep ==
  ASSUME IInv, [Next]_vars
  PROVE  AppOK'

<1>0. /\ app.goal # "none" => chain["app"] = NoStep
      /\ app.goal = "none" => app.clearing = <<>>
      /\ \E k \in 1..(Len(Pointers) + 1) : app.clearing = SubSeq(Pointers, k, Len(Pointers))
      /\ chain \in [Agents -> [req : 0..MaxRequests, step : Nat]] /\ "app" \in Agents /\ "loop" \in Agents
      /\ app \in [goal : {"none", "disconnect", "reconnect", "destroy"}, clearing : Seq(ToSet(Pointers))]
      /\ Pointers \in Seq(ToSet(Pointers)) /\ Len(Pointers) = 4
  BY PointersFacts DEF IInv, ClientTypeOK, AppOK, Agents
<1>17. ASSUME UNCHANGED app, app.goal # "none" => chain'["app"] = NoStep
       PROVE  AppOK'
  BY <1>0, <1>17 DEF AppOK
<1>18. /\ Ready.goal = "none" /\ Ready.clearing = <<>>
       /\ \E k \in 1..(Len(Pointers) + 1) : <<>> = SubSeq(Pointers, k, Len(Pointers))
  <2>1. SubSeq(Pointers, 5, 4) = <<>>
    BY <1>0
  <2> QED
    BY <1>0, <2>1 DEF Ready
<1>1. ASSUME NEW call \in Calls, Connect(call)
      PROVE  AppOK'
  BY <1>0, <1>1, <1>17, <1>18 DEF Connect, Begin, AppIsFree
<1>2. ASSUME NEW goal \in {"disconnect", "reconnect", "destroy"}, Disconnect(goal)
      PROVE  AppOK'
  <2>1. app'.goal # "none" /\ app'.clearing = Pointers /\ chain'["app"] = NoStep
    BY <1>2 DEF Disconnect, AppIsFree
  <2>2. SubSeq(Pointers, 1, Len(Pointers)) = Pointers
    BY <1>0
  <2> QED
    BY <1>0, <2>1, <2>2 DEF AppOK
<1>3. ASSUME Clear
      PROVE  AppOK'
  <2>1. app.clearing # <<>> /\ app' = [app EXCEPT !.clearing = Tail(app.clearing)] /\ UNCHANGED chain
    BY <1>3 DEF Clear
  <2>2. app'.clearing = Tail(app.clearing) /\ app'.goal = app.goal
    BY <1>0, <2>1
  <2>3. PICK k \in 1..(Len(Pointers) + 1) : app.clearing = SubSeq(Pointers, k, Len(Pointers))
    BY <1>0
  <2>4. k \in 1..4
    BY <1>0, <1>18, <2>1, <2>3
  <2>5. Tail(app.clearing) = SubSeq(Pointers, k + 1, 4)
    BY <1>0, <2>3, <2>4
  <2>6. k + 1 \in 1..(Len(Pointers) + 1) /\ app'.clearing = SubSeq(Pointers, k + 1, Len(Pointers))
    <3>1. Len(Pointers) = 4
      BY <1>0
    <3>2. k + 1 \in 1..5
      BY <2>4
    <3>3. app'.clearing = SubSeq(Pointers, k + 1, 4)
      BY <2>2, <2>5, Zenon
    <3>4. 1..(Len(Pointers) + 1) = 1..5
      BY <3>1
    <3> QED
      BY <3>1, <3>2, <3>3, <3>4, Zenon
  <2>7. app'.goal # "none" /\ chain'["app"] = NoStep
    BY <1>0, <2>1, <2>2
  <2> QED
    BY <2>6, <2>7 DEF AppOK
<1>4. ASSUME Disconnected
      PROVE  AppOK'
  <2>1. app' = Ready
    BY <1>4 DEF Disconnected
  <2> QED
    BY <1>18, <2>1 DEF AppOK
<1>5. ASSUME Join
      PROVE  AppOK'
  BY <1>0, <1>5, <1>17 DEF Join, vars
<1>6. ASSUME NEW t \in Agents, ThreadStep(t), ChainEnds(t)
      PROVE  AppOK'
  BY <1>0, <1>6, <1>17 DEF ThreadStep, ChainEnds, Answer, vars
<1>7. ASSUME NEW t \in Agents, ThreadStep(t), ChainFromCache(t)
      PROVE  AppOK'
  BY <1>0, <1>7, <1>17 DEF ThreadStep, ChainFromCache, vars
<1>8. ASSUME NEW t \in Agents, ThreadStep(t), ChainAttempt(t)
      PROVE  AppOK'
  BY <1>0, <1>8, <1>17 DEF ThreadStep, ChainAttempt, Answer, vars
<1>9. ASSUME NEW s \in Sockets, HandlerStep, ConnectionHandlerFails(s)
      PROVE  AppOK'
  BY <1>0, <1>9, <1>17 DEF HandlerStep, ConnectionHandlerFails, ConnectFailed, Answer, vars
<1>10. ASSUME NEW s \in Sockets, HandlerStep, ConnectionHandler(s)
      PROVE  AppOK'
  BY <1>0, <1>10, <1>17 DEF HandlerStep, ConnectionHandler, ConnectDone, vars
<1>11. ASSUME NEW s \in Sockets, HandlerStep, TimeoutAborted(s)
      PROVE  AppOK'
  BY <1>0, <1>11, <1>17 DEF HandlerStep, TimeoutAborted, TimerAborted, vars
<1>12. ASSUME NEW s \in Sockets, HandlerStep, TimeoutHandler(s)
      PROVE  AppOK'
  BY <1>0, <1>12, <1>17 DEF HandlerStep, TimeoutHandler, TimedOut, Answer, vars
<1>13. ASSUME NEW s \in Sockets, ProcDisconnects(s)
      PROVE  AppOK'
  BY <1>0, <1>13, <1>17 DEF ProcDisconnects, vars
<1>14. ASSUME TimerStep
      PROVE  AppOK'
  BY <1>0, <1>14, <1>17 DEF TimerStep, WorkedTimeExpires, reset_timer, LoopReturns, vars
<1>15. ASSUME NEW s \in Sockets, Network(s)
      PROVE  AppOK'
  BY <1>0, <1>15, <1>17 DEF Network, Connects, Refuses, TimerExpires, vars
<1>16. ASSUME UNCHANGED vars
      PROVE  AppOK'
  BY <1>0, <1>16, <1>17 DEF vars, vars
<1> QED
  BY <1>1, <1>2, <1>3, <1>4, <1>5, <1>6, <1>7, <1>8, <1>9, <1>10,
     <1>11, <1>12, <1>13, <1>14, <1>15, <1>16, NextCases

(* Only the destructor lets the timer go, and only then the event loop ends. *)
LEMMA LoopStep ==
  ASSUME IInv, [Next]_vars
  PROVE  LoopOK'

<1>0. /\ worked_time = "off" => app.goal = "destroy"
      /\ io_returned => worked_time = "off"
      /\ app \in [goal : {"none", "disconnect", "reconnect", "destroy"}, clearing : Seq(ToSet(Pointers))]
      /\ Ready.goal = "none"
  BY DEF IInv, ClientTypeOK, LoopOK, Ready
<1>1. ASSUME NEW call \in Calls, Connect(call)
      PROVE  LoopOK'
  BY <1>0, <1>1 DEF Connect, Begin, LoopOK, AppIsFree
<1>2. ASSUME NEW goal \in {"disconnect", "reconnect", "destroy"}, Disconnect(goal)
      PROVE  LoopOK'
  BY <1>0, <1>2 DEF Disconnect, LoopOK, AppIsFree
<1>3. ASSUME Clear
      PROVE  LoopOK'
  BY <1>0, <1>3 DEF Clear, LoopOK
<1>4. ASSUME Disconnected
      PROVE  LoopOK'
  BY <1>0, <1>4 DEF Disconnected, Begin, LoopOK
<1>5. ASSUME Join
      PROVE  LoopOK'
  BY <1>0, <1>5 DEF Join, LoopOK
<1>6. ASSUME NEW t \in Agents, ThreadStep(t), ChainEnds(t)
      PROVE  LoopOK'
  BY <1>0, <1>6 DEF ThreadStep, ChainEnds, Answer, LoopOK
<1>7. ASSUME NEW t \in Agents, ThreadStep(t), ChainFromCache(t)
      PROVE  LoopOK'
  BY <1>0, <1>7 DEF ThreadStep, ChainFromCache, LoopOK
<1>8. ASSUME NEW t \in Agents, ThreadStep(t), ChainAttempt(t)
      PROVE  LoopOK'
  BY <1>0, <1>8 DEF ThreadStep, ChainAttempt, Answer, LoopOK
<1>9. ASSUME NEW s \in Sockets, HandlerStep, ConnectionHandlerFails(s)
      PROVE  LoopOK'
  BY <1>0, <1>9 DEF HandlerStep, ConnectionHandlerFails, ConnectFailed, Answer, LoopOK
<1>10. ASSUME NEW s \in Sockets, HandlerStep, ConnectionHandler(s)
      PROVE  LoopOK'
  BY <1>0, <1>10 DEF HandlerStep, ConnectionHandler, ConnectDone, LoopOK
<1>11. ASSUME NEW s \in Sockets, HandlerStep, TimeoutAborted(s)
      PROVE  LoopOK'
  BY <1>0, <1>11 DEF HandlerStep, TimeoutAborted, TimerAborted, LoopOK
<1>12. ASSUME NEW s \in Sockets, HandlerStep, TimeoutHandler(s)
      PROVE  LoopOK'
  BY <1>0, <1>12 DEF HandlerStep, TimeoutHandler, TimedOut, Answer, LoopOK
<1>13. ASSUME NEW s \in Sockets, ProcDisconnects(s)
      PROVE  LoopOK'
  BY <1>0, <1>13 DEF ProcDisconnects, LoopOK
<1>14. ASSUME TimerStep
      PROVE  LoopOK'
  BY <1>0, <1>14 DEF TimerStep, WorkedTimeExpires, reset_timer, LoopReturns, LoopOK, LoopHasWork, LoopIsFree
<1>15. ASSUME NEW s \in Sockets, Network(s)
      PROVE  LoopOK'
  BY <1>0, <1>15 DEF Network, Connects, Refuses, TimerExpires, LoopOK
<1>16. ASSUME UNCHANGED vars
      PROVE  LoopOK'
  BY <1>0, <1>16 DEF vars, LoopOK
<1> QED
  BY <1>1, <1>2, <1>3, <1>4, <1>5, <1>6, <1>7, <1>8, <1>9, <1>10,
     <1>11, <1>12, <1>13, <1>14, <1>15, <1>16, NextCases

Pending(r) ==
  \/ \E t \in Agents : chain[t].req = r
  \/ \E s \in Sockets : waiter[s].req = r /\ connecting[s] # "off"

(* A request that is not answered is handed on, or answered.                 *)
LEMMA PendingStep ==
  ASSUME IInv, [Next]_vars
  PROVE  RequestIsPending'

<1>0. /\ connecting \in [Sockets -> {"off", "waiting", "ok", "error"}]
      /\ timer \in [Sockets -> {"off", "waiting", "expired", "aborted"}]
      /\ waiter \in [Sockets -> [server : Servers \cup {"none"}, req : 0..MaxRequests, step : Nat]]
      /\ chain \in [Agents -> [req : 0..MaxRequests, step : Nat]] /\ "app" \in Agents /\ "loop" \in Agents
      /\ req \in 0..MaxRequests /\ MaxRequests \in Nat /\ 1..req \subseteq 1..MaxRequests
      /\ answers \in [1..MaxRequests -> Seq(Codes)] /\ NoStep.req = 0
      /\ \A r \in 1..req : answers[r] = <<>> =>
           \/ \E t \in Agents : chain[t].req = r
           \/ \E s \in Sockets : waiter[s].req = r /\ connecting[s] # "off"
  BY CallAssumption DEF IInv, ConnTypeOK, ClientTypeOK, RequestIsPending, Agents, NoStep
<1>17. ASSUME UNCHANGED req,
              \A r \in 1..req : answers[r] = <<>> =>
                 answers'[r] # <<>> \/ (\E t \in Agents : chain'[t].req = r)
                 \/ (\E s \in Sockets : waiter'[s].req = r /\ connecting'[s] # "off"),
              \A r \in 1..req : answers[r] # <<>> => answers'[r] # <<>>
       PROVE  RequestIsPending'
  <2>1. \A r \in 1..req : answers'[r] = <<>> =>
                 (\E t \in Agents : chain'[t].req = r)
                 \/ (\E s \in Sockets : waiter'[s].req = r /\ connecting'[s] # "off")
    BY <1>17
  <2> QED
    BY <1>17, <2>1 DEF RequestIsPending, Agents
<1>18. ASSUME UNCHANGED req,
              \A r \in 1..req : answers'[r] = <<>> => answers[r] = <<>>,
              \A r \in 1..req, t \in Agents : answers'[r] = <<>> /\ chain[t].req = r => Pending(r)',
              \A r \in 1..req, s \in Sockets :
                answers'[r] = <<>> /\ waiter[s].req = r /\ connecting[s] # "off" => Pending(r)'
       PROVE  RequestIsPending'
  <2>1. \A r \in 1..req : answers'[r] = <<>> => Pending(r)'
    BY <1>0, <1>18
  <2> QED
    BY <1>18, <2>1 DEF RequestIsPending, Agents, Pending
<1>19. ASSUME NEW r \in 1..req, NEW code \in Codes, Answer(r, code)
       PROVE  answers'[r] # <<>> /\ \A u \in 1..req : u # r => answers'[u] = answers[u]
  <2>1. 1..req \subseteq 1..MaxRequests
    BY CallAssumption DEF IInv, ClientTypeOK
  <2> QED
    BY <1>19, <2>1, Answered
<1>20. ASSUME NEW s \in Sockets, Dropped(s)
       PROVE  \A u \in Sockets : connecting'[u] # "off" => waiter'[u] = waiter[u]
  BY <1>0, <1>20 DEF Dropped
<1>1. ASSUME NEW call \in Calls, Connect(call)
      PROVE  RequestIsPending'
  <2>1. chain' = [chain EXCEPT !["app"] = [req |-> 1, step |-> 1]] /\ req' = 1
    BY <1>1 DEF Connect, Begin
  <2>2. chain'["app"].req = 1
    BY <1>0, <2>1
  <2> QED
    BY <1>0, <2>1, <2>2 DEF RequestIsPending, Agents
<1>2. ASSUME NEW goal \in {"disconnect", "reconnect", "destroy"}, Disconnect(goal)
      PROVE  RequestIsPending'
  BY <1>0, <1>2, <1>17 DEF Disconnect, vars
<1>3. ASSUME Clear
      PROVE  RequestIsPending'
  BY <1>0, <1>3, <1>17 DEF Clear, vars
<1>4. ASSUME Disconnected
      PROVE  RequestIsPending'
  <2>1. \A r \in 1..req : answers'[r] # <<>>
    <3>1. app.goal # "none" /\ UNCHANGED answers
      BY <1>4 DEF Disconnected
    <3> QED
      BY <3>1 DEF IInv, AskedOK
  <2>2. CASE UNCHANGED req
    BY <2>1, <2>2 DEF RequestIsPending
  <2>3. CASE req' = req + 1 /\ chain' = [chain EXCEPT !["app"] = [req |-> req + 1, step |-> 1]]
    <3>1. chain'["app"].req = req'
      BY <1>0, <2>3
    <3>2. \A r \in 1..req' : r \in 1..req \/ r = req'
      BY <1>0, <2>3
    <3> QED
      BY <1>0, <2>1, <3>1, <3>2 DEF RequestIsPending, Agents
  <2> QED
    BY <1>4, <2>2, <2>3 DEF Disconnected, Begin
<1>5. ASSUME Join
      PROVE  RequestIsPending'
  BY <1>0, <1>5, <1>17 DEF Join, vars
<1>6. ASSUME NEW t \in Agents, ThreadStep(t), ChainEnds(t)
      PROVE  RequestIsPending'
  <2>1. chain[t].req \in 1..req
    BY <1>6, WorksFacts DEF ThreadStep
  <2>2. UNCHANGED <<connecting, waiter, req>> /\ chain' = [chain EXCEPT ![t] = NoStep] /\ Answer(chain[t].req, "ok")
    BY <1>6 DEF ThreadStep, ChainEnds
  <2>3. \A u \in Agents : u # t => chain'[u] = chain[u]
    BY <1>0, <2>2
  <2>4. answers'[chain[t].req] # <<>> /\ \A u \in 1..req : u # chain[t].req => answers'[u] = answers[u]
    BY <1>19, <2>1, <2>2 DEF Codes
  <2>5. \A r \in 1..req, u \in Agents : answers'[r] = <<>> /\ chain[u].req = r => Pending(r)'
    BY <2>3, <2>4 DEF Pending
  <2>6. \A r \in 1..req, s \in Sockets :
          answers'[r] = <<>> /\ waiter[s].req = r /\ connecting[s] # "off" => Pending(r)'
    BY <2>2 DEF Pending
  <2> QED
    BY <1>18, <2>1, <2>2, <2>4, <2>5, <2>6
<1>7. ASSUME NEW t \in Agents, ThreadStep(t), ChainFromCache(t)
      PROVE  RequestIsPending'
  <2>1. chain' = [chain EXCEPT ![t].step = @ + 1] /\ UNCHANGED <<connecting, waiter, req, answers>>
    BY <1>7 DEF ThreadStep, ChainFromCache
  <2>2. \A u \in Agents : chain'[u].req = chain[u].req
    BY <1>0, <2>1
  <2> QED
    BY <1>0, <1>17, <2>1, <2>2
<1>8. ASSUME NEW t \in Agents, ThreadStep(t), ChainAttempt(t)
      PROVE  RequestIsPending'
  <2>1. chain[t].req \in 1..req
    BY <1>8, WorksFacts DEF ThreadStep
  <2>2. UNCHANGED req /\ chain' = [chain EXCEPT ![t] = NoStep]
    BY <1>8 DEF ThreadStep, ChainAttempt
  <2>3. \A u \in Agents : u # t => chain'[u] = chain[u]
    BY <1>0, <2>2
  <2>4. CASE Answer(chain[t].req, "bad_address") /\ UNCHANGED connVars
    <3>1. answers'[chain[t].req] # <<>> /\ \A u \in 1..req : u # chain[t].req => answers'[u] = answers[u]
      BY <1>19, <2>1, <2>4 DEF Codes
    <3>2. \A r \in 1..req, u \in Agents : answers'[r] = <<>> /\ chain[u].req = r => Pending(r)'
      BY <2>3, <3>1 DEF Pending
    <3>3. \A r \in 1..req, s \in Sockets :
            answers'[r] = <<>> /\ waiter[s].req = r /\ connecting[s] # "off" => Pending(r)'
      BY <2>4 DEF connVars, Pending
    <3> QED
      BY <1>18, <2>1, <2>2, <3>1, <3>2, <3>3
  <2>5. CASE StartAttempt(Steps[chain[t].step].server, chain[t].req, chain[t].step, held) /\ UNCHANGED answers
    <3>1. PICK s \in Sockets :
            /\ connecting[s] = "off"
            /\ connecting' = [connecting EXCEPT ![s] = "waiting"]
            /\ waiter' = [waiter EXCEPT ![s] = [server |-> Steps[chain[t].step].server, req |-> chain[t].req,
                                                step |-> chain[t].step]]
      BY <2>5, AttemptFacts
    <3>2. waiter'[s].req = chain[t].req /\ connecting'[s] # "off"
      BY <1>0, <3>1
    <3>3. \A u \in Sockets : connecting[u] # "off" => connecting'[u] # "off" /\ waiter'[u] = waiter[u]
      BY <1>0, <3>1
    <3>4. \A r \in 1..req, u \in Agents : chain[u].req = r => Pending(r)'
      BY <2>3, <3>2 DEF Pending
    <3>5. \A r \in 1..req, u \in Sockets : waiter[u].req = r /\ connecting[u] # "off" => Pending(r)'
      BY <3>3 DEF Pending
    <3> QED
      BY <1>18, <2>2, <2>5, <3>4, <3>5
  <2> QED
    BY <1>8, <2>4, <2>5 DEF ChainAttempt
<1>9. ASSUME NEW s \in Sockets, HandlerStep, ConnectionHandlerFails(s)
      PROVE  RequestIsPending'
  <2>1. Attempting(s)
    BY <1>9 DEF ConnectionHandlerFails, ConnectFailed, Attempting
  <2>2. waiter[s].req \in 1..req
    BY <2>1, ServesFacts
  <2>3. /\ UNCHANGED <<req, chain>> /\ Answer(waiter[s].req, "error")
        /\ Dropped(s) /\ connecting' = [connecting EXCEPT ![s] = "off"]
    BY <1>9 DEF HandlerStep, ConnectionHandlerFails, ConnectFailed
  <2>4. answers'[waiter[s].req] # <<>> /\ \A u \in 1..req : u # waiter[s].req => answers'[u] = answers[u]
    BY <1>19, <2>2, <2>3 DEF Codes
  <2>5. \A u \in Sockets : u # s /\ connecting[u] # "off" => connecting'[u] # "off" /\ waiter'[u] = waiter[u]
    BY <1>0, <1>20, <2>3
  <2>6. \A r \in 1..req, u \in Agents : chain[u].req = r => Pending(r)'
    BY <2>3 DEF Pending
  <2>7. \A r \in 1..req, u \in Sockets :
          answers'[r] = <<>> /\ waiter[u].req = r /\ connecting[u] # "off" => Pending(r)'
    BY <2>4, <2>5 DEF Pending
  <2> QED
    BY <1>18, <2>2, <2>3, <2>4, <2>6, <2>7
<1>10. ASSUME NEW s \in Sockets, HandlerStep, ConnectionHandler(s)
      PROVE  RequestIsPending'
  <2>1. /\ UNCHANGED <<req, answers>> /\ chain["loop"] = NoStep
        /\ chain' = [chain EXCEPT !["loop"] = [req |-> waiter[s].req, step |-> waiter[s].step + 1]]
        /\ Dropped(s) /\ connecting' = [connecting EXCEPT ![s] = "off"]
    BY <1>10 DEF HandlerStep, ConnectionHandler, ConnectDone, LoopIsFree
  <2>2. chain'["loop"].req = waiter[s].req /\ \A u \in Agents : u # "loop" => chain'[u] = chain[u]
    BY <1>0, <2>1
  <2>3. \A u \in Sockets : u # s /\ connecting[u] # "off" => connecting'[u] # "off" /\ waiter'[u] = waiter[u]
    BY <1>0, <1>20, <2>1
  <2>6. \A r \in 1..req, u \in Agents : chain[u].req = r => Pending(r)'
    BY <1>0, <2>1, <2>2 DEF Pending
  <2>7. \A r \in 1..req, u \in Sockets : waiter[u].req = r /\ connecting[u] # "off" => Pending(r)'
    <3> SUFFICES ASSUME NEW r \in 1..req, NEW u \in Sockets, waiter[u].req = r, connecting[u] # "off"
                 PROVE  Pending(r)'
      OBVIOUS
    <3>1. CASE u = s
      BY <2>2, <3>1 DEF Pending, Agents
    <3>2. CASE u # s
      BY <2>3, <3>2 DEF Pending
    <3> QED
      BY <3>1, <3>2
  <2> QED
    BY <1>18, <2>1, <2>6, <2>7
<1>11. ASSUME NEW s \in Sockets, HandlerStep, TimeoutAborted(s)
      PROVE  RequestIsPending'
  <2>1. UNCHANGED <<req, answers, chain, connecting>> /\ Dropped(s)
    BY <1>11 DEF HandlerStep, TimeoutAborted, TimerAborted
  <2>2. \A u \in Sockets : connecting[u] # "off" => connecting'[u] # "off" /\ waiter'[u] = waiter[u]
    BY <1>0, <1>20, <2>1
  <2>6. \A r \in 1..req, u \in Agents : chain[u].req = r => Pending(r)'
    BY <2>1 DEF Pending
  <2>7. \A r \in 1..req, u \in Sockets : waiter[u].req = r /\ connecting[u] # "off" => Pending(r)'
    BY <2>2 DEF Pending
  <2> QED
    BY <1>18, <2>1, <2>6, <2>7
<1>12. ASSUME NEW s \in Sockets, HandlerStep, TimeoutHandler(s)
      PROVE  RequestIsPending'
  <2>1. /\ UNCHANGED <<req, chain>> /\ Dropped(s) /\ timer[s] # "off" /\ Answer(waiter[s].req, "timed_out")
        /\ connecting' = [connecting EXCEPT ![s] = IF @ = "waiting" THEN "error" ELSE @]
    BY <1>12 DEF HandlerStep, TimeoutHandler, TimedOut
  <2>2. waiter[s].req \in 1..req
    BY <2>1 DEF IInv, AttemptOK, Kept
  <2>3. answers'[waiter[s].req] # <<>> /\ \A u \in 1..req : u # waiter[s].req => answers'[u] = answers[u]
    BY <1>19, <2>1, <2>2 DEF Codes
  <2>4. \A u \in Sockets : connecting[u] # "off" => connecting'[u] # "off" /\ waiter'[u] = waiter[u]
    BY <1>0, <1>20, <2>1
  <2>6. \A r \in 1..req, u \in Agents : chain[u].req = r => Pending(r)'
    BY <2>1 DEF Pending
  <2>7. \A r \in 1..req, u \in Sockets : waiter[u].req = r /\ connecting[u] # "off" => Pending(r)'
    BY <2>4 DEF Pending
  <2> QED
    BY <1>18, <2>1, <2>2, <2>3, <2>6, <2>7
<1>13. ASSUME NEW s \in Sockets, ProcDisconnects(s)
      PROVE  RequestIsPending'
  BY <1>0, <1>13, <1>17 DEF ProcDisconnects, vars
<1>14. ASSUME TimerStep
      PROVE  RequestIsPending'
  BY <1>0, <1>14, <1>17 DEF TimerStep, WorkedTimeExpires, reset_timer, LoopReturns, vars
<1>15. ASSUME NEW s \in Sockets, Network(s)
      PROVE  RequestIsPending'
  <2>1. UNCHANGED <<req, answers, chain, waiter>>
    BY <1>15 DEF Network, Connects, Refuses, TimerExpires
  <2>2. \A u \in Sockets : connecting[u] # "off" => connecting'[u] # "off"
    BY <1>0, <1>15 DEF Network, Connects, Refuses, TimerExpires
  <2> QED
    BY <1>0, <1>17, <2>1, <2>2
<1>16. ASSUME UNCHANGED vars
      PROVE  RequestIsPending'
  BY <1>0, <1>16, <1>17 DEF vars, vars
<1> QED
  BY <1>1, <1>2, <1>3, <1>4, <1>5, <1>6, <1>7, <1>8, <1>9, <1>10,
     <1>11, <1>12, <1>13, <1>14, <1>15, <1>16, NextCases

-----------------------------------------------------------------------------
(* While no timer has run out.                                              *)

(* At most one thread or attempt works for the client.                       *)
Lone ==
  /\ \A t, u \in Agents : chain[t] # NoStep /\ chain[u] # NoStep => t = u
  /\ \A t \in Agents, s \in Sockets : ~(chain[t] # NoStep /\ connecting[s] # "off")
  /\ \A s, u \in Sockets : connecting[s] # "off" /\ connecting[u] # "off" => s = u
  /\ \A t \in Agents : chain[t] # NoStep => answers[chain[t].req] = <<>>
  /\ \A s \in Sockets : connecting[s] # "off" => answers[waiter[s].req] = <<>>

(* It works for the last request, which is not answered.                     *)
LEMMA LoneFacts ==
  ASSUME IInv, ~late
  PROVE  /\ Lone
         /\ \A t \in Agents : chain[t] # NoStep =>
              chain[t].req = req /\ req > 0 /\ answers[req] = <<>> /\ app.goal = "none" /\ ~connected
         /\ \A s \in Sockets : connecting[s] # "off" =>
              waiter[s].req = req /\ req > 0 /\ answers[req] = <<>> /\ app.goal = "none" /\ ~connected
<1>1. /\ OneWorker /\ (connected => answers[req] # <<>>) /\ req \in Nat
      /\ \A r \in 1..req : r < req \/ app.goal # "none" => answers[r] # <<>>
  BY CallAssumption DEF IInv, InTimeOK, BuiltOK, AskedOK, ClientTypeOK
<1>2. \A t \in Agents : chain[t] # NoStep => chain[t].req \in 1..req /\ Works(t, chain[t].req)
  <2>1. \A t \in Agents : chain[t] # NoStep => chain[t].req \in 1..req /\ chain[t].req # 0
    BY <1>1 DEF IInv, ChainOK
  <2> QED
    BY <2>1 DEF Works
<1>3. \A s \in Sockets : connecting[s] # "off" => waiter[s].req \in 1..req /\ Serves(s, waiter[s].req)
  BY DEF IInv, AttemptOK, Kept, Attempting, Serves
<1>4. \A r \in 1..req : answers[r] = <<>> =>
        r = req /\ req > 0 /\ answers[req] = <<>> /\ app.goal = "none" /\ ~connected
  BY <1>1
<1>5. ASSUME NEW t \in Agents, chain[t] # NoStep
      PROVE  chain[t].req = req /\ req > 0 /\ answers[req] = <<>> /\ app.goal = "none" /\ ~connected
  <2>1. chain[t].req \in 1..req /\ answers[chain[t].req] = <<>>
    BY <1>1, <1>2, <1>5 DEF OneWorker
  <2> QED
    BY <1>4, <2>1
<1>6. ASSUME NEW s \in Sockets, connecting[s] # "off"
      PROVE  waiter[s].req = req /\ req > 0 /\ answers[req] = <<>> /\ app.goal = "none" /\ ~connected
  <2>1. waiter[s].req \in 1..req /\ answers[waiter[s].req] = <<>>
    BY <1>1, <1>3, <1>6 DEF OneWorker
  <2> QED
    BY <1>4, <2>1
<1>7. \A t \in Agents : chain[t] # NoStep => req \in 1..req /\ Works(t, req)
  BY <1>2, <1>5
<1>8. \A s \in Sockets : connecting[s] # "off" => req \in 1..req /\ Serves(s, req)
  BY <1>3, <1>6
<1>9. \A t, u \in Agents : chain[t] # NoStep /\ chain[u] # NoStep => t = u
  BY <1>1, <1>7 DEF OneWorker, Agents
<1>10. \A t \in Agents, s \in Sockets : ~(chain[t] # NoStep /\ connecting[s] # "off")
  BY <1>1, <1>7, <1>8 DEF OneWorker
<1>11. \A s, u \in Sockets : connecting[s] # "off" /\ connecting[u] # "off" => s = u
  BY <1>1, <1>8 DEF OneWorker
<1> QED
  BY <1>5, <1>6, <1>9, <1>10, <1>11 DEF Lone

(* While the application disconnects, and before it has asked for anything,  *)
(* nothing works.                                                           *)
LEMMA IdleFacts ==
  ASSUME IInv, ~late, req = 0 \/ app.goal # "none" \/ (req > 0 => answers[req] # <<>>)
  PROVE  /\ \A t \in Agents : chain[t] = NoStep
         /\ \A s \in Sockets : connecting[s] = "off"
BY LoneFacts

(* That is the fourth part of the invariant.                                 *)
LEMMA LoneIsOne == Lone => OneWorker
<1> SUFFICES ASSUME Lone
             PROVE  OneWorker
  OBVIOUS
<1>1. \A t \in Agents, r \in 1..req : Works(t, r) => chain[t] # NoStep /\ chain[t].req = r
  BY DEF Works, NoStep
<1>2. \A s \in Sockets, r \in 1..req : Serves(s, r) => connecting[s] # "off" /\ waiter[s].req = r
  BY DEF Serves, Attempting
<1>3. ~(\E r \in 1..req : Works("app", r) /\ Works("loop", r))
  BY <1>1 DEF Lone, Agents
<1>4. \A r \in 1..req, t \in Agents, s \in Sockets : ~(Works(t, r) /\ Serves(s, r))
  BY <1>1, <1>2 DEF Lone
<1>5. \A r \in 1..req, s, u \in Sockets : Serves(s, r) /\ Serves(u, r) => s = u
  BY <1>2 DEF Lone
<1>6. \A r \in 1..req, t \in Agents : Works(t, r) => answers[r] = <<>>
  BY <1>1 DEF Lone
<1>7. \A r \in 1..req, s \in Sockets : Serves(s, r) => answers[r] = <<>>
  BY <1>2 DEF Lone
<1> QED
  BY <1>3, <1>4, <1>5, <1>6, <1>7 DEF OneWorker

(* And in the next state.                                                    *)
LEMMA LoneIsOnePrime == Lone' => OneWorker'
BY LoneIsOne, PTL

(* A thread that stops hands on what it does, or answers.                    *)
LEMMA LoneStep ==
  ASSUME IInv, [Next]_vars, ~late'
  PROVE  Lone'

<1>0. /\ connecting \in [Sockets -> {"off", "waiting", "ok", "error"}]
      /\ waiter \in [Sockets -> [server : Servers \cup {"none"}, req : 0..MaxRequests, step : Nat]]
      /\ chain \in [Agents -> [req : 0..MaxRequests, step : Nat]] /\ "app" \in Agents /\ "loop" \in Agents
      /\ req \in 0..MaxRequests /\ MaxRequests \in Nat /\ late \in BOOLEAN
      /\ \A r \in 1..MaxRequests : r > req => answers[r] = <<>>
  BY CallAssumption DEF IInv, ConnTypeOK, ClientTypeOK, AskedOK, Agents
<1>17. ASSUME ~late, UNCHANGED answers,
              \A t \in Agents : chain'[t] # NoStep => chain[t] # NoStep /\ chain'[t].req = chain[t].req,
              \A s \in Sockets : connecting'[s] # "off" => connecting[s] # "off" /\ waiter'[s] = waiter[s]
       PROVE  Lone'
  <2>1. Lone
    BY <1>17, LoneFacts
  <2> QED
    BY <1>17, <2>1 DEF Lone
<1>18. ASSUME NEW t \in Agents, NEW n, chain' = [chain EXCEPT ![t] = n], answers'[n.req] = <<>>,
              \A u \in Agents : u # t => chain[u] = NoStep,
              \A s \in Sockets : connecting'[s] = "off"
       PROVE  Lone'
  <2>1. chain'[t] = n /\ \A u \in Agents : u # t => chain'[u] = NoStep
    BY <1>0, <1>18
  <2> QED
    BY <1>18, <2>1 DEF Lone
<1>19. ASSUME \A t \in Agents : chain'[t] = NoStep, \A s \in Sockets : connecting'[s] = "off"
       PROVE  Lone'
  BY <1>19 DEF Lone
<1>20. ASSUME NEW s \in Sockets, Dropped(s)
       PROVE  \A u \in Sockets : connecting'[u] # "off" => waiter'[u] = waiter[u]
  BY <1>0, <1>20 DEF Dropped
<1>1. ASSUME NEW call \in Calls, Connect(call)
      PROVE  Lone'
  <2>1. /\ chain' = [chain EXCEPT !["app"] = [req |-> 1, step |-> 1]] /\ req = 0 /\ MaxRequests > 0
        /\ UNCHANGED <<connecting, answers>>
    BY <1>1 DEF Connect, Begin
  <2>2. answers'[1] = <<>>
    BY <1>0, <2>1
  <2>3. answers'[[req |-> 1, step |-> 1].req] = <<>>
    BY <2>2
  <2> QED
    BY <1>0, <1>18, <2>1, <2>3, FirstCall
<1>2. ASSUME NEW goal \in {"disconnect", "reconnect", "destroy"}, Disconnect(goal)
      PROVE  Lone'
  BY <1>0, <1>2, <1>17 DEF Disconnect, vars
<1>3. ASSUME Clear
      PROVE  Lone'
  BY <1>0, <1>3, <1>17 DEF Clear, vars
<1>4. ASSUME Disconnected
      PROVE  Lone'
  <2>1. app.goal # "none" /\ UNCHANGED <<connecting, answers, waiter>> /\ ~late
    BY <1>4 DEF Disconnected
  <2>2. (\A t \in Agents : chain[t] = NoStep) /\ \A s \in Sockets : connecting[s] = "off"
    BY <2>1, IdleFacts
  <2>3. CASE UNCHANGED chain
    BY <1>19, <2>1, <2>2, <2>3
  <2>4. CASE req < MaxRequests /\ chain' = [chain EXCEPT !["app"] = [req |-> req + 1, step |-> 1]]
    <3>1. answers'[req + 1] = <<>>
      BY <1>0, <2>1, <2>4
    <3>2. answers'[[req |-> req + 1, step |-> 1].req] = <<>>
      BY <3>1
    <3> QED
      BY <1>0, <1>18, <2>1, <2>2, <2>4, <3>2
  <2> QED
    BY <1>4, <2>3, <2>4 DEF Disconnected, Begin
<1>5. ASSUME Join
      PROVE  Lone'
  BY <1>0, <1>5, <1>17 DEF Join, vars
<1>6. ASSUME NEW t \in Agents, ThreadStep(t), ChainEnds(t)
      PROVE  Lone'
  <2>1. ~late /\ chain[t] # NoStep /\ UNCHANGED connecting /\ chain' = [chain EXCEPT ![t] = NoStep]
    BY <1>6 DEF ThreadStep, ChainEnds
  <2>2. (\A u \in Agents : u # t => chain[u] = NoStep) /\ \A s \in Sockets : connecting[s] = "off"
    BY <2>1, LoneFacts DEF Lone
  <2> QED
    BY <1>0, <1>19, <2>1, <2>2
<1>7. ASSUME NEW t \in Agents, ThreadStep(t), ChainFromCache(t)
      PROVE  Lone'
  <2>1. /\ ~late /\ chain[t] # NoStep /\ UNCHANGED <<connecting, waiter, answers>>
        /\ chain' = [chain EXCEPT ![t].step = @ + 1]
    BY <1>7 DEF ThreadStep, ChainFromCache
  <2>2. \A u \in Agents : u # t => chain'[u] = chain[u]
    BY <1>0, <2>1
  <2>3. chain'[t].req = chain[t].req
    BY <1>0, <2>1
  <2> QED
    BY <1>17, <2>1, <2>2, <2>3
<1>8. ASSUME NEW t \in Agents, ThreadStep(t), ChainAttempt(t)
      PROVE  Lone'
  <2>1. ~late /\ chain[t] # NoStep /\ chain' = [chain EXCEPT ![t] = NoStep]
    BY <1>8 DEF ThreadStep, ChainAttempt
  <2>2. /\ \A u \in Agents : u # t => chain[u] = NoStep
        /\ \A s \in Sockets : connecting[s] = "off"
        /\ answers[chain[t].req] = <<>>
    BY <2>1, LoneFacts DEF Lone
  <2>3. \A u \in Agents : chain'[u] = NoStep
    BY <1>0, <2>1, <2>2
  <2>4. CASE UNCHANGED connVars
    BY <1>19, <2>2, <2>3, <2>4
  <2>5. CASE StartAttempt(Steps[chain[t].step].server, chain[t].req, chain[t].step, held) /\ UNCHANGED answers
    <3>1. PICK s \in Sockets :
            /\ connecting' = [connecting EXCEPT ![s] = "waiting"]
            /\ waiter' = [waiter EXCEPT ![s] = [server |-> Steps[chain[t].step].server, req |-> chain[t].req,
                                                step |-> chain[t].step]]
      BY <2>5, AttemptFacts
    <3>2. waiter'[s].req = chain[t].req /\ \A u \in Sockets : connecting'[u] # "off" => u = s
      BY <1>0, <2>2, <3>1
    <3> QED
      BY <2>2, <2>3, <2>5, <3>2 DEF Lone
  <2> QED
    BY <1>8, <2>4, <2>5 DEF ChainAttempt
<1>9. ASSUME NEW s \in Sockets, HandlerStep, ConnectionHandlerFails(s)
      PROVE  Lone'
  <2>1. /\ ~late /\ UNCHANGED chain /\ connecting' = [connecting EXCEPT ![s] = "off"] /\ connecting[s] # "off"
    BY <1>9 DEF HandlerStep, ConnectionHandlerFails, ConnectFailed
  <2>2. (\A t \in Agents : chain[t] = NoStep) /\ \A u \in Sockets : u # s => connecting[u] = "off"
    BY <2>1, LoneFacts DEF Lone
  <2> QED
    BY <1>0, <1>19, <2>1, <2>2
<1>10. ASSUME NEW s \in Sockets, HandlerStep, ConnectionHandler(s)
      PROVE  Lone'
  <2>1. /\ ~late /\ connecting' = [connecting EXCEPT ![s] = "off"] /\ connecting[s] # "off"
        /\ chain' = [chain EXCEPT !["loop"] = [req |-> waiter[s].req, step |-> waiter[s].step + 1]]
        /\ UNCHANGED answers
    BY <1>10 DEF HandlerStep, ConnectionHandler, ConnectDone
  <2>2. /\ \A t \in Agents : chain[t] = NoStep
        /\ \A u \in Sockets : u # s => connecting[u] = "off"
        /\ answers[waiter[s].req] = <<>>
    BY <2>1, LoneFacts DEF Lone
  <2>3. \A u \in Sockets : connecting'[u] = "off"
    BY <1>0, <2>1, <2>2
  <2>4. answers'[[req |-> waiter[s].req, step |-> waiter[s].step + 1].req] = <<>>
    BY <2>1, <2>2
  <2> QED
    BY <1>0, <1>18, <2>1, <2>2, <2>3, <2>4
<1>11. ASSUME NEW s \in Sockets, HandlerStep, TimeoutAborted(s)
      PROVE  Lone'
  <2>1. ~late /\ UNCHANGED <<answers, chain, connecting>> /\ Dropped(s)
    BY <1>11 DEF HandlerStep, TimeoutAborted, TimerAborted
  <2> QED
    BY <1>17, <1>20, <2>1
<1>12. ASSUME NEW s \in Sockets, HandlerStep, TimeoutHandler(s)
      PROVE  Lone'
  BY <1>12 DEF TimeoutHandler
<1>13. ASSUME NEW s \in Sockets, ProcDisconnects(s)
      PROVE  Lone'
  BY <1>0, <1>13, <1>17 DEF ProcDisconnects, vars
<1>14. ASSUME TimerStep
      PROVE  Lone'
  BY <1>0, <1>14, <1>17 DEF TimerStep, WorkedTimeExpires, reset_timer, LoopReturns, vars
<1>15. ASSUME NEW s \in Sockets, Network(s)
      PROVE  Lone'
  <2>1. ~late /\ UNCHANGED <<answers, chain, waiter>>
    BY <1>15 DEF Network, Connects, Refuses, TimerExpires
  <2>2. \A u \in Sockets : connecting'[u] # "off" => connecting[u] # "off"
    BY <1>0, <1>15 DEF Network, Connects, Refuses, TimerExpires
  <2> QED
    BY <1>17, <2>1, <2>2
<1>16. ASSUME UNCHANGED vars
      PROVE  Lone'
  BY <1>0, <1>16, <1>17 DEF vars, vars
<1> QED
  BY <1>1, <1>2, <1>3, <1>4, <1>5, <1>6, <1>7, <1>8, <1>9, <1>10,
     <1>11, <1>12, <1>13, <1>14, <1>15, <1>16, NextCases

(* No promise is set a second time.                                          *)
LEMMA ConfirmedStep ==
  ASSUME IInv, [Next]_vars, ~late'
  PROVE  status' # "terminated" /\ \A r \in 1..MaxRequests : Len(answers'[r]) <= 1

<1>0. /\ ~late => status # "terminated" /\ \A r \in 1..MaxRequests : Len(answers[r]) <= 1
      /\ \A t \in Agents : ~late /\ chain[t] # NoStep => chain[t].req \in 1..req /\ answers[chain[t].req] = <<>>
      /\ \A s \in Sockets : ~late /\ connecting[s] # "off" => waiter[s].req \in 1..req /\ answers[waiter[s].req] = <<>>
  BY LoneFacts, WorksFacts, ServesFacts DEF Lone, IInv, ConfirmedOnceInTime, Attempting
<1>17. ASSUME NEW r \in 1..req, NEW code \in Codes, Answer(r, code), answers[r] = <<>>, ~late
       PROVE  status' # "terminated" /\ \A u \in 1..MaxRequests : Len(answers'[u]) <= 1
  <2>1. status' # "terminated" /\ answers' = [answers EXCEPT ![r] = Append(<<>>, code)]
    BY <1>0, <1>17 DEF Answer
  <2>2. Len(Append(<<>>, code)) = 1
    OBVIOUS
  <2>3. answers \in [1..MaxRequests -> Seq(Codes)]
    BY DEF IInv, ClientTypeOK
  <2>4. ASSUME NEW u \in 1..MaxRequests
        PROVE  Len(answers'[u]) <= 1
    <3>1. CASE u = r
      BY <2>1, <2>2, <2>3, <3>1
    <3>2. CASE u # r
      BY <1>0, <1>17, <2>1, <2>3, <3>2
    <3> QED
      BY <3>1, <3>2
  <2> QED
    BY <2>1, <2>4
<1>1. ASSUME NEW call \in Calls, Connect(call)
      PROVE  status' # "terminated" /\ \A r \in 1..MaxRequests : Len(answers'[r]) <= 1
  BY <1>0, <1>1 DEF Connect, Begin, vars
<1>2. ASSUME NEW goal \in {"disconnect", "reconnect", "destroy"}, Disconnect(goal)
      PROVE  status' # "terminated" /\ \A r \in 1..MaxRequests : Len(answers'[r]) <= 1
  BY <1>0, <1>2 DEF Disconnect, vars
<1>3. ASSUME Clear
      PROVE  status' # "terminated" /\ \A r \in 1..MaxRequests : Len(answers'[r]) <= 1
  BY <1>0, <1>3 DEF Clear, vars
<1>4. ASSUME Disconnected
      PROVE  status' # "terminated" /\ \A r \in 1..MaxRequests : Len(answers'[r]) <= 1
  BY <1>0, <1>4 DEF Disconnected, Begin, vars
<1>5. ASSUME Join
      PROVE  status' # "terminated" /\ \A r \in 1..MaxRequests : Len(answers'[r]) <= 1
  BY <1>0, <1>5 DEF Join, vars
<1>6. ASSUME NEW t \in Agents, ThreadStep(t), ChainEnds(t)
      PROVE  status' # "terminated" /\ \A r \in 1..MaxRequests : Len(answers'[r]) <= 1
  <2>1. ~late /\ chain[t] # NoStep /\ Answer(chain[t].req, "ok")
    BY <1>6 DEF ThreadStep, ChainEnds
  <2> QED
    BY <1>0, <1>17, <2>1 DEF Codes
<1>7. ASSUME NEW t \in Agents, ThreadStep(t), ChainFromCache(t)
      PROVE  status' # "terminated" /\ \A r \in 1..MaxRequests : Len(answers'[r]) <= 1
  BY <1>0, <1>7 DEF ThreadStep, ChainFromCache, vars
<1>8. ASSUME NEW t \in Agents, ThreadStep(t), ChainAttempt(t)
      PROVE  status' # "terminated" /\ \A r \in 1..MaxRequests : Len(answers'[r]) <= 1
  <2>1. ~late /\ chain[t] # NoStep /\ (Answer(chain[t].req, "bad_address") \/ UNCHANGED <<answers, status>>)
    BY <1>8 DEF ThreadStep, ChainAttempt
  <2> QED
    BY <1>0, <1>17, <2>1 DEF Codes
<1>9. ASSUME NEW s \in Sockets, HandlerStep, ConnectionHandlerFails(s)
      PROVE  status' # "terminated" /\ \A r \in 1..MaxRequests : Len(answers'[r]) <= 1
  <2>1. ~late /\ connecting[s] # "off" /\ Answer(waiter[s].req, "error")
    BY <1>9 DEF ConnectionHandlerFails, ConnectFailed
  <2> QED
    BY <1>0, <1>17, <2>1 DEF Codes
<1>10. ASSUME NEW s \in Sockets, HandlerStep, ConnectionHandler(s)
      PROVE  status' # "terminated" /\ \A r \in 1..MaxRequests : Len(answers'[r]) <= 1
  BY <1>0, <1>10 DEF HandlerStep, ConnectionHandler, ConnectDone, vars
<1>11. ASSUME NEW s \in Sockets, HandlerStep, TimeoutAborted(s)
      PROVE  status' # "terminated" /\ \A r \in 1..MaxRequests : Len(answers'[r]) <= 1
  BY <1>0, <1>11 DEF HandlerStep, TimeoutAborted, TimerAborted, vars
<1>12. ASSUME NEW s \in Sockets, HandlerStep, TimeoutHandler(s)
      PROVE  status' # "terminated" /\ \A r \in 1..MaxRequests : Len(answers'[r]) <= 1
  BY <1>12 DEF TimeoutHandler
<1>13. ASSUME NEW s \in Sockets, ProcDisconnects(s)
      PROVE  status' # "terminated" /\ \A r \in 1..MaxRequests : Len(answers'[r]) <= 1
  BY <1>0, <1>13 DEF ProcDisconnects, vars
<1>14. ASSUME TimerStep
      PROVE  status' # "terminated" /\ \A r \in 1..MaxRequests : Len(answers'[r]) <= 1
  BY <1>0, <1>14 DEF TimerStep, WorkedTimeExpires, reset_timer, LoopReturns, vars
<1>15. ASSUME NEW s \in Sockets, Network(s)
      PROVE  status' # "terminated" /\ \A r \in 1..MaxRequests : Len(answers'[r]) <= 1
  BY <1>0, <1>15 DEF Network, Connects, Refuses, TimerExpires, vars
<1>16. ASSUME UNCHANGED vars
      PROVE  status' # "terminated" /\ \A r \in 1..MaxRequests : Len(answers'[r]) <= 1
  BY <1>0, <1>16 DEF vars, vars
<1> QED
  BY <1>1, <1>2, <1>3, <1>4, <1>5, <1>6, <1>7, <1>8, <1>9, <1>10,
     <1>11, <1>12, <1>13, <1>14, <1>15, <1>16, NextCases

(* With every pointer cleared, the first step has what it starts from.       *)
LEMMA NothingBuilt ==
  ASSUME NEW n \in Nat, NEW m \in {0, 2}
  PROVE  UpTo(1 - 1 - m, n) = 0 /\ UpTo(1 - 1 - m - n, n) = 0
BY DEF UpTo

(* Each step adds its processor to those of the steps before.               *)
LEMMA BuiltStep ==
  ASSUME IInv, [Next]_vars, ~late'
  PROVE  BuiltOK' /\ MapsOK'

<1>0. /\ connecting \in [Sockets -> {"off", "waiting", "ok", "error"}]
      /\ waiter \in [Sockets -> [server : Servers \cup {"none"}, req : 0..MaxRequests, step : Nat]]
      /\ chain \in [Agents -> [req : 0..MaxRequests, step : Nat]] /\ "app" \in Agents /\ "loop" \in Agents
      /\ req \in Nat /\ Ready.goal = "none" /\ Ready.clearing = <<>>
      /\ app \in [goal : {"none", "disconnect", "reconnect", "destroy"}, clearing : Seq(ToSet(Pointers))]
  BY CallAssumption DEF IInv, ConnTypeOK, ClientTypeOK, Agents, Ready
<1>23. ~late => BuiltOK /\ MapsOK
  BY DEF IInv, InTimeOK
<1>17. ASSUME ~late, UNCHANGED setupVars, UNCHANGED <<master_pipeline, master_serial, pipeline_pool, serial_pool>>,
              req' = 0 => req = 0,
              \A t \in Agents : chain'[t] # NoStep => Built(chain'[t].step),
              \A s \in Sockets : connecting'[s] # "off" => Built(waiter'[s].step),
              connected' => app'.goal = "none" /\ req' > 0 /\ answers'[req'] # <<>> /\ Built(Len(Steps) + 1),
              req' = 0 \/ app'.goal # "none" => \A p \in ToSet(Pointers) \ ToSet(app'.clearing) : Cleared(p)
       PROVE  BuiltOK' /\ MapsOK'
  <2>1. Steps' = Steps /\ MasterSteps' = MasterSteps /\ UNCHANGED <<master_conn, slave_pool>>
    BY <1>17, StepsSame
  <2>2. \A t \in Agents : chain'[t] # NoStep => Built(chain[t].step)'
    BY <1>17, <2>1 DEF Built
  <2>3. \A s \in Sockets : connecting'[s] # "off" => Built(waiter[s].step)'
    BY <1>17, <2>1 DEF Built
  <2>4. connected' => Built(Len(Steps) + 1)'
    BY <1>17, <2>1 DEF Built
  <2>5. req' = 0 \/ app'.goal # "none" => \A p \in ToSet(Pointers) \ ToSet(app'.clearing) : Cleared(p)'
    BY <1>17 DEF Cleared
  <2>6. MapsOK'
    BY <1>23, <1>17, <2>1 DEF MapsOK, MapOK
  <2> QED
    BY <1>17, <2>2, <2>3, <2>4, <2>5, <2>6 DEF BuiltOK, Attempting
<1>18. ASSUME \A p \in ToSet(Pointers) : Cleared(p)
       PROVE  /\ master_pipeline = 0 /\ master_serial = 0 /\ pipeline_pool.list = <<>> /\ serial_pool.list = <<>>
              /\ Built(1)
  <2>1. Cleared("master_pipeline") /\ Cleared("master_serial") /\ Cleared("pipeline_pool") /\ Cleared("serial_pool")
    BY <1>18, PointersFacts
  <2>2. master_pipeline = 0 /\ master_serial = 0 /\ pipeline_pool.list = <<>> /\ serial_pool.list = <<>>
    BY <2>1 DEF Cleared
  <2>3. MasterSteps \in {0, 2} /\ Len(slave_pool) \in Nat /\ Len(<<>>) = 0
    BY StepsFacts DEF IInv
  <2> QED
    BY <2>2, <2>3, NothingBuilt DEF Built
<1>19. ASSUME NEW s \in Sockets, Dropped(s)
       PROVE  \A u \in Sockets : connecting'[u] # "off" => waiter'[u] = waiter[u]
  BY <1>0, <1>19 DEF Dropped
<1>20. ASSUME ~late
       PROVE  /\ \A t \in Agents : chain[t] # NoStep => Built(chain[t].step)
              /\ \A s \in Sockets : connecting[s] # "off" => Built(waiter[s].step)
              /\ connected => app.goal = "none" /\ req > 0 /\ answers[req] # <<>> /\ Built(Len(Steps) + 1)
              /\ req = 0 \/ app.goal # "none" => \A p \in ToSet(Pointers) \ ToSet(app.clearing) : Cleared(p)
  BY <1>23, <1>20 DEF BuiltOK, Attempting
<1>21. ASSUME NEW r \in 1..req, NEW code \in Codes, Answer(r, code)
       PROVE  answers'[r] # <<>> /\ \A u \in 1..req : u # r => answers'[u] = answers[u]
  <2>1. 1..req \subseteq 1..MaxRequests
    BY CallAssumption DEF IInv, ClientTypeOK
  <2> QED
    BY <1>21, <2>1, Answered
<1>22. ASSUME NEW k \in 1..Len(Steps), NEW s \in Sockets, Install(s, k), Built(k), UNCHANGED setupVars,
              NEW t \in Agents, chain'[t].step = k + 1, \A u \in Agents : u # t => chain'[u] = NoStep,
              \A u \in Sockets : connecting'[u] = "off", ~connected', app'.goal = "none", req' > 0, ~late
       PROVE  BuiltOK' /\ MapsOK'
  <2>1. Built(k + 1)' /\ MapOK(pipeline_pool)' /\ MapOK(serial_pool)'
    BY <1>23, <1>22, InstallBuilds DEF IInv, MapsOK
  <2>2. \A u \in Agents : chain'[u] # NoStep => Built(chain[u].step)'
    BY <1>22, <2>1 DEF Built
  <2>3. ~(req' = 0)
    BY <1>22
  <2> QED
    BY <1>22, <2>1, <2>2, <2>3 DEF BuiltOK, MapsOK, Attempting
<1>1. ASSUME NEW call \in Calls, Connect(call)
      PROVE  BuiltOK' /\ MapsOK'
  <2>1. /\ chain' = [chain EXCEPT !["app"] = [req |-> 1, step |-> 1]] /\ req = 0 /\ app = Ready /\ ~late /\ req' = 1
        /\ UNCHANGED <<connecting, app, connected, master_pipeline, master_serial, pipeline_pool, serial_pool>>
        /\ slave_pool' = call.slaves
    BY <1>1 DEF Connect, Begin, AppIsFree
  <2>2. Len(slave_pool') \in Nat /\ MasterSteps' \in {0, 2}
    <3>1. call.slaves \in Seq([server : Servers, pref : 1..10])
      BY CallAssumption
    <3> QED
      BY <2>1, <3>1 DEF MasterSteps
  <2>3. ToSet(<<>>) = {}
    BY DEF ToSet
  <2>4. /\ pipeline_pool.list = <<>> /\ serial_pool.list = <<>> /\ ~connected
    BY <1>0, <1>18, <1>20, <2>1, <2>3
  <2>5. pipeline_pool.map = <<>> /\ serial_pool.map = <<>>
    BY <1>23, <2>1 DEF MapsOK
  <2>6. \A t \in Agents : chain'[t] # NoStep => chain'[t].step = 1
    BY <1>0, <2>1, FirstCall
  <2>7. Built(1)'
    <3>1. Len(<<>>) = 0
      OBVIOUS
    <3>2. Len(pipeline_pool'.list) = 0 /\ Len(serial_pool'.list) = 0
      BY <2>1, <2>4, <3>1
    <3> QED
      BY <2>2, <3>2, NothingBuilt DEF Built
  <2>8. \A t \in Agents : chain'[t] # NoStep => Built(chain[t].step)'
    BY <2>6, <2>7 DEF Built
  <2>9. \A s \in Sockets : connecting'[s] = "off"
    BY <2>1, FirstCall
  <2>10. BuiltOK'
    BY <1>0, <2>1, <2>4, <2>8, <2>9 DEF BuiltOK, Attempting
  <2>11. MapsOK'
    <3>1. DOMAIN <<>> = {}
      OBVIOUS
    <3> QED
      BY <2>1, <2>5, <3>1 DEF MapsOK, MapOK
  <2> QED
    BY <2>10, <2>11
<1>2. ASSUME NEW goal \in {"disconnect", "reconnect", "destroy"}, Disconnect(goal)
      PROVE  BuiltOK' /\ MapsOK'
  <2>1. /\ ~late /\ UNCHANGED setupVars /\ UNCHANGED <<master_pipeline, master_serial, pipeline_pool, serial_pool>>
        /\ UNCHANGED <<req, chain, connecting, waiter>> /\ ~connected' /\ app'.clearing = Pointers
    BY <1>2 DEF Disconnect
  <2> QED
    BY <1>17, <1>20, <2>1
<1>3. ASSUME Clear
      PROVE  BuiltOK' /\ MapsOK'
  <2>1. /\ ~late /\ app.clearing # <<>> /\ UNCHANGED setupVars /\ UNCHANGED <<req, chain, connecting, connected>>
        /\ app' = [app EXCEPT !.clearing = Tail(app.clearing)]
    BY <1>3 DEF Clear
  <2> DEFINE p == Head(app.clearing)
  <2>2. /\ master_pipeline' = IF p = "master_pipeline" THEN 0 ELSE master_pipeline
        /\ master_serial' = IF p = "master_serial" THEN 0 ELSE master_serial
        /\ pipeline_pool' = IF p = "pipeline_pool" THEN clear(pipeline_pool) ELSE pipeline_pool
        /\ serial_pool' = IF p = "serial_pool" THEN clear(serial_pool) ELSE serial_pool
    BY <1>3 DEF Clear
  <2>3. ToSet(app.clearing) \subseteq {p} \cup ToSet(Tail(app.clearing))
    <3>1. app.clearing \in Seq(ToSet(Pointers))
      BY <1>0
    <3> DEFINE c == app.clearing
    <3>2. \A i \in 1..Len(c) : i = 1 \/ (i - 1 \in 1..Len(Tail(c)) /\ c[i] = Tail(c)[i - 1])
      BY <2>1, <3>1
    <3>3. DOMAIN c = 1..Len(c) /\ DOMAIN Tail(c) = 1..Len(Tail(c)) /\ p = c[1]
      BY <2>1, <3>1
    <3> HIDE DEF c, p
    <3>4. ASSUME NEW i \in 1..Len(c)
          PROVE  c[i] = p \/ \E j \in 1..Len(Tail(c)) : c[i] = Tail(c)[j]
      BY <3>2, <3>3
    <3>5. ASSUME NEW x \in ToSet(c)
          PROVE  x \in {p} \cup ToSet(Tail(c))
      <4>1. PICK i \in 1..Len(c) : x = c[i]
        BY <3>3 DEF ToSet
      <4>2. x = p \/ \E j \in DOMAIN Tail(c) : x = Tail(c)[j]
        BY <3>3, <3>4, <4>1
      <4> QED
        BY <4>2 DEF ToSet
    <3> QED
      BY <3>5 DEF c
  <2> HIDE DEF p
  <2>4. app.goal # "none"
    BY <2>1 DEF IInv, AppOK
  <2>5. (\A t \in Agents : chain[t] = NoStep) /\ (\A s \in Sockets : connecting[s] = "off") /\ ~connected
    BY <1>20, <2>1, <2>4, IdleFacts
  <2>6. /\ clear(pipeline_pool).list = <<>> /\ clear(pipeline_pool).map = pipeline_pool.map
        /\ clear(serial_pool).list = <<>> /\ clear(serial_pool).map = serial_pool.map
    BY ClearFacts DEF IInv, SetupTypeOK
  <2>7. app'.clearing = Tail(app.clearing)
    BY <1>0, <2>1
  <2>8. ASSUME NEW q \in ToSet(Pointers) \ ToSet(app'.clearing)
        PROVE  Cleared(q)'
    <3>1. q = p \/ Cleared(q)
      BY <1>20, <2>1, <2>3, <2>4, <2>7, <2>8
    <3>2. q \in {"master_pipeline", "master_serial", "pipeline_pool", "serial_pool"}
      BY <2>8, PointersFacts
    <3>3. CASE q = "master_pipeline"
      BY <2>2, <3>1, <3>3 DEF Cleared
    <3>4. CASE q = "master_serial"
      BY <2>2, <3>1, <3>4 DEF Cleared
    <3>5. CASE q = "pipeline_pool"
      BY <2>2, <2>6, <3>1, <3>5 DEF Cleared
    <3>6. CASE q = "serial_pool"
      BY <2>2, <2>6, <3>1, <3>6 DEF Cleared
    <3> QED
      BY <3>2, <3>3, <3>4, <3>5, <3>6
  <2>9. BuiltOK'
    BY <2>1, <2>5, <2>8 DEF BuiltOK, Attempting
  <2>10. pipeline_pool'.map = pipeline_pool.map /\ serial_pool'.map = serial_pool.map
    BY <2>2, <2>6
  <2>11. MapsOK'
    BY <1>23, <2>1, <2>10 DEF MapsOK, MapOK
  <2> QED
    BY <2>9, <2>11
<1>4. ASSUME Disconnected
      PROVE  BuiltOK' /\ MapsOK'
  <2>1. /\ ~late /\ app.goal # "none" /\ app.clearing = <<>> /\ app' = Ready
        /\ UNCHANGED setupVars /\ UNCHANGED <<master_pipeline, master_serial, pipeline_pool, serial_pool>>
        /\ UNCHANGED <<connecting, connected>>
    BY <1>4 DEF Disconnected
  <2>2. (\A t \in Agents : chain[t] = NoStep) /\ \A s \in Sockets : connecting[s] = "off"
    BY <2>1, IdleFacts
  <2>3. ToSet(<<>>) = {}
    BY DEF ToSet
  <2>4. (\A p \in ToSet(Pointers) : Cleared(p)) /\ ~connected
    BY <1>20, <2>1, <2>3
  <2>5. Built(1)
    BY <1>18, <2>4
  <2>6. CASE UNCHANGED <<req, chain>>
    BY <1>17, <2>1, <2>2, <2>4, <2>6
  <2>7. CASE req' = req + 1 /\ chain' = [chain EXCEPT !["app"] = [req |-> req + 1, step |-> 1]]
    <3>1. \A t \in Agents : chain'[t] # NoStep => chain'[t].step = 1
      BY <1>0, <2>2, <2>7
    <3>2. \A t \in Agents : chain'[t] # NoStep => Built(chain'[t].step)
      BY <2>5, <3>1
    <3> QED
      BY <1>0, <1>17, <2>1, <2>2, <2>4, <2>7, <3>2
  <2> QED
    BY <1>4, <2>6, <2>7 DEF Disconnected, Begin
<1>5. ASSUME Join
      PROVE  BuiltOK' /\ MapsOK'
  BY <1>0, <1>5, <1>17, <1>20 DEF Join, vars
<1>6. ASSUME NEW t \in Agents, ThreadStep(t), ChainEnds(t)
      PROVE  BuiltOK' /\ MapsOK'
  <2>1. /\ ~late /\ chain[t] # NoStep /\ UNCHANGED <<connecting, req, app>> /\ chain' = [chain EXCEPT ![t] = NoStep]
        /\ Answer(chain[t].req, "ok") /\ chain[t].step = Len(Steps) + 1
        /\ UNCHANGED setupVars /\ UNCHANGED <<master_pipeline, master_serial, pipeline_pool, serial_pool>>
    BY <1>6 DEF ThreadStep, ChainEnds
  <2>2. (\A u \in Agents : u # t => chain[u] = NoStep) /\ \A s \in Sockets : connecting[s] = "off"
    BY <2>1, LoneFacts DEF Lone
  <2>3. chain[t].req = req /\ req > 0 /\ app.goal = "none"
    BY <2>1, LoneFacts
  <2>4. \A u \in Agents : chain'[u] = NoStep
    BY <1>0, <2>1, <2>2
  <2>5. answers'[req] # <<>>
    <3>1. req \in 1..req
      BY <1>0, <2>3
    <3> QED
      BY <1>21, <2>1, <2>3, <3>1 DEF Codes
  <2>6. Built(Len(Steps) + 1)
    BY <1>20, <2>1
  <2> QED
    BY <1>17, <2>1, <2>2, <2>3, <2>4, <2>5, <2>6
<1>7. ASSUME NEW t \in Agents, ThreadStep(t), ChainFromCache(t)
      PROVE  BuiltOK' /\ MapsOK'
  <2>1. /\ ~late /\ chain[t] # NoStep /\ UNCHANGED <<connecting, connected, req, app>>
        /\ chain' = [chain EXCEPT ![t].step = @ + 1] /\ UNCHANGED setupVars
    BY <1>7 DEF ThreadStep, ChainFromCache
  <2>2. (\A u \in Agents : u # t => chain[u] = NoStep) /\ \A s \in Sockets : connecting[s] = "off"
    BY <2>1, LoneFacts DEF Lone
  <2>3. req > 0 /\ app.goal = "none" /\ ~connected
    BY <2>1, LoneFacts
  <2>4. chain'[t].step = chain[t].step + 1 /\ \A u \in Agents : u # t => chain'[u] = NoStep
    BY <1>0, <2>1, <2>2
  <2>5. PICK v \in Servers : \E i \in DOMAIN cache[v] :
          cache[v][i] \in Sockets /\ chain[t].step \in 1..Len(Steps) /\ Install(cache[v][i], chain[t].step)
    BY <1>7, <2>1, CacheFacts
  <2>6. PICK i \in DOMAIN cache[v] :
          cache[v][i] \in Sockets /\ chain[t].step \in 1..Len(Steps) /\ Install(cache[v][i], chain[t].step)
    BY <2>5
  <2>7. Built(chain[t].step)
    BY <1>20, <2>1
  <2> QED
    BY <1>22, <2>1, <2>2, <2>3, <2>4, <2>6, <2>7
<1>8. ASSUME NEW t \in Agents, ThreadStep(t), ChainAttempt(t)
      PROVE  BuiltOK' /\ MapsOK'
  <2>1. /\ ~late /\ chain[t] # NoStep /\ UNCHANGED <<req, app, connected>> /\ chain' = [chain EXCEPT ![t] = NoStep]
        /\ UNCHANGED setupVars /\ UNCHANGED <<master_pipeline, master_serial, pipeline_pool, serial_pool>>
    BY <1>8 DEF ThreadStep, ChainAttempt
  <2>2. (\A u \in Agents : u # t => chain[u] = NoStep) /\ \A s \in Sockets : connecting[s] = "off"
    BY <2>1, LoneFacts DEF Lone
  <2>3. req > 0 /\ app.goal = "none" /\ ~connected
    BY <2>1, LoneFacts
  <2>4. \A u \in Agents : chain'[u] = NoStep
    BY <1>0, <2>1, <2>2
  <2>5. CASE UNCHANGED connVars
    BY <1>17, <2>1, <2>2, <2>3, <2>4, <2>5
  <2>6. CASE StartAttempt(Steps[chain[t].step].server, chain[t].req, chain[t].step, held)
    <3>1. PICK s \in Sockets :
            /\ connecting' = [connecting EXCEPT ![s] = "waiting"]
            /\ waiter' = [waiter EXCEPT ![s] = [server |-> Steps[chain[t].step].server, req |-> chain[t].req,
                                                step |-> chain[t].step]]
      BY <2>6, AttemptFacts
    <3>2. waiter'[s].step = chain[t].step /\ \A u \in Sockets : connecting'[u] # "off" => u = s
      BY <1>0, <2>2, <3>1
    <3>3. Built(chain[t].step)
      BY <1>20, <2>1
    <3>4. \A u \in Sockets : connecting'[u] # "off" => Built(waiter'[u].step)
      BY <3>2, <3>3
    <3> QED
      BY <1>17, <2>1, <2>3, <2>4, <3>4
  <2> QED
    BY <1>8, <2>5, <2>6 DEF ChainAttempt
<1>9. ASSUME NEW s \in Sockets, HandlerStep, ConnectionHandlerFails(s)
      PROVE  BuiltOK' /\ MapsOK'
  <2>1. /\ ~late /\ UNCHANGED <<req, app, connected, chain>> /\ connecting[s] # "off"
        /\ connecting' = [connecting EXCEPT ![s] = "off"]
        /\ UNCHANGED setupVars /\ UNCHANGED <<master_pipeline, master_serial, pipeline_pool, serial_pool>>
    BY <1>9 DEF HandlerStep, ConnectionHandlerFails, ConnectFailed
  <2>2. (\A t \in Agents : chain[t] = NoStep) /\ \A u \in Sockets : u # s => connecting[u] = "off"
    BY <2>1, LoneFacts DEF Lone
  <2>3. req > 0 /\ app.goal = "none" /\ ~connected
    BY <2>1, LoneFacts
  <2>4. \A u \in Sockets : connecting'[u] = "off"
    BY <1>0, <2>1, <2>2
  <2> QED
    BY <1>17, <2>1, <2>2, <2>3, <2>4
<1>10. ASSUME NEW s \in Sockets, HandlerStep, ConnectionHandler(s)
      PROVE  BuiltOK' /\ MapsOK'
  <2>1. /\ ~late /\ UNCHANGED <<req, app, connected>> /\ connecting[s] # "off"
        /\ connecting' = [connecting EXCEPT ![s] = "off"]
        /\ chain' = [chain EXCEPT !["loop"] = [req |-> waiter[s].req, step |-> waiter[s].step + 1]]
        /\ UNCHANGED setupVars /\ Install(s, waiter[s].step)
    BY <1>10 DEF HandlerStep, ConnectionHandler, ConnectDone
  <2>2. (\A t \in Agents : chain[t] = NoStep) /\ \A u \in Sockets : u # s => connecting[u] = "off"
    BY <2>1, LoneFacts DEF Lone
  <2>3. req > 0 /\ app.goal = "none" /\ ~connected
    BY <2>1, LoneFacts
  <2>4. \A u \in Sockets : connecting'[u] = "off"
    BY <1>0, <2>1, <2>2
  <2>5. chain'["loop"].step = waiter[s].step + 1 /\ \A u \in Agents : u # "loop" => chain'[u] = NoStep
    BY <1>0, <2>1, <2>2
  <2>6. waiter[s].step \in 1..Len(Steps) /\ Built(waiter[s].step)
    BY <1>20, <2>1, ServesFacts DEF Attempting
  <2> QED
    BY <1>0, <1>22, <2>1, <2>3, <2>4, <2>5, <2>6
<1>11. ASSUME NEW s \in Sockets, HandlerStep, TimeoutAborted(s)
      PROVE  BuiltOK' /\ MapsOK'
  <2>1. /\ ~late /\ UNCHANGED <<req, app, answers, chain, connected, connecting>> /\ Dropped(s)
        /\ UNCHANGED setupVars /\ UNCHANGED <<master_pipeline, master_serial, pipeline_pool, serial_pool>>
    BY <1>11 DEF HandlerStep, TimeoutAborted, TimerAborted
  <2>2. \A u \in Sockets : connecting'[u] # "off" => Built(waiter'[u].step)
    BY <1>19, <1>20, <2>1
  <2> QED
    BY <1>17, <1>20, <2>1, <2>2
<1>12. ASSUME NEW s \in Sockets, HandlerStep, TimeoutHandler(s)
      PROVE  BuiltOK' /\ MapsOK'
  BY <1>12 DEF TimeoutHandler
<1>13. ASSUME NEW s \in Sockets, ProcDisconnects(s)
      PROVE  BuiltOK' /\ MapsOK'
  BY <1>0, <1>13, <1>17, <1>20 DEF ProcDisconnects, vars
<1>14. ASSUME TimerStep
      PROVE  BuiltOK' /\ MapsOK'
  BY <1>0, <1>14, <1>17, <1>20 DEF TimerStep, WorkedTimeExpires, reset_timer, LoopReturns, vars
<1>15. ASSUME NEW s \in Sockets, Network(s)
      PROVE  BuiltOK' /\ MapsOK'
  <2>1. /\ ~late /\ UNCHANGED <<req, app, answers, chain, waiter, connected>>
        /\ UNCHANGED setupVars /\ UNCHANGED <<master_pipeline, master_serial, pipeline_pool, serial_pool>>
    BY <1>15 DEF Network, Connects, Refuses, TimerExpires
  <2>2. \A u \in Sockets : connecting'[u] # "off" => connecting[u] # "off"
    BY <1>0, <1>15 DEF Network, Connects, Refuses, TimerExpires
  <2>3. \A u \in Sockets : connecting'[u] # "off" => Built(waiter'[u].step)
    BY <1>20, <2>1, <2>2
  <2> QED
    BY <1>17, <1>20, <2>1, <2>3
<1>16. ASSUME UNCHANGED vars
      PROVE  BuiltOK' /\ MapsOK'
  BY <1>0, <1>16, <1>17, <1>20 DEF vars, vars
<1> QED
  BY <1>1, <1>2, <1>3, <1>4, <1>5, <1>6, <1>7, <1>8, <1>9, <1>10,
     <1>11, <1>12, <1>13, <1>14, <1>15, <1>16, NextCases

(* A master's processor is made in the chain of a client that has a master. *)
LEMMA MasterStep ==
  ASSUME IInv, [Next]_vars, ~late'
  PROVE  MasterOK'
<1>0. ASSUME UNCHANGED <<master_conn, master_pipeline, master_serial, late>>
      PROVE  MasterOK'
  BY <1>0 DEF IInv, InTimeOK, MasterOK
<1>17. ASSUME NEW s \in Sockets, NEW k \in 1..Len(Steps), Install(s, k), UNCHANGED <<master_conn, late>>
       PROVE  MasterOK'
  <2>1. SetupTypeOK /\ MasterOK
    BY <1>17 DEF IInv, InTimeOK
  <2>2. \/ master_conn
        \/ UNCHANGED <<master_pipeline, master_serial>>
    BY <1>17, <2>1, InstallCases
  <2> QED
    BY <1>17, <2>1, <2>2 DEF MasterOK
<1>1. ASSUME NEW call \in Calls, Connect(call)
      PROVE  MasterOK'
  <2>1. req = 0 /\ app.clearing = <<>> /\ BuiltOK
    BY <1>1 DEF Connect, AppIsFree, Ready, IInv, InTimeOK
  <2>2. ToSet(<<>>) = {}
    BY DEF ToSet
  <2>3. Cleared("master_pipeline") /\ Cleared("master_serial")
    BY <2>1, <2>2, PointersFacts DEF BuiltOK
  <2>4. master_pipeline = 0 /\ master_serial = 0
    BY <2>3 DEF Cleared, NoSocket
  <2> QED
    BY <1>1, <2>4 DEF Connect, procVars, MasterOK, NoSocket
<1>2. ASSUME NEW goal \in {"disconnect", "reconnect", "destroy"}, Disconnect(goal)
      PROVE  MasterOK'
  BY <1>0, <1>2 DEF Disconnect, setupVars, procVars
<1>3. ASSUME Clear
      PROVE  MasterOK'
  <2>1. /\ master_pipeline' \in {0, master_pipeline} /\ master_serial' \in {0, master_serial}
        /\ UNCHANGED <<master_conn, late>>
    BY <1>3 DEF Clear, setupVars, NoSocket
  <2> QED
    BY <2>1 DEF IInv, InTimeOK, MasterOK, NoSocket
<1>4. ASSUME Disconnected
      PROVE  MasterOK'
  BY <1>0, <1>4 DEF Disconnected, setupVars, procVars
<1>5. ASSUME Join
      PROVE  MasterOK'
  BY <1>0, <1>5 DEF Join, setupVars, procVars
<1>6. ASSUME NEW t \in Agents, ThreadStep(t), ChainEnds(t)
      PROVE  MasterOK'
  BY <1>0, <1>6 DEF ThreadStep, ChainEnds, setupVars, procVars
<1>7. ASSUME NEW t \in Agents, ThreadStep(t), ChainFromCache(t)
      PROVE  MasterOK'
  <2>1. PICK v \in Servers : \E i \in DOMAIN cache[v] :
          /\ cache[v][i] \in Sockets
          /\ chain[t].step \in 1..Len(Steps) /\ Install(cache[v][i], chain[t].step)
    BY <1>7, CacheFacts DEF ThreadStep
  <2> QED
    BY <1>7, <1>17, <2>1 DEF ThreadStep, setupVars
<1>8. ASSUME NEW t \in Agents, ThreadStep(t), ChainAttempt(t)
      PROVE  MasterOK'
  BY <1>0, <1>8 DEF ThreadStep, ChainAttempt, setupVars, procVars
<1>9. ASSUME NEW s \in Sockets, HandlerStep, ConnectionHandlerFails(s)
      PROVE  MasterOK'
  BY <1>0, <1>9 DEF HandlerStep, ConnectionHandlerFails, setupVars, procVars
<1>10. ASSUME NEW s \in Sockets, HandlerStep, ConnectionHandler(s)
      PROVE  MasterOK'
  <2>1. Attempting(s) /\ Install(s, waiter[s].step) /\ UNCHANGED <<master_conn, late>>
    BY <1>10 DEF HandlerStep, ConnectionHandler, ConnectDone, Attempting, setupVars
  <2>2. waiter[s].step \in 1..Len(Steps)
    BY <2>1 DEF IInv, AttemptOK, Kept
  <2> QED
    BY <1>17, <2>1, <2>2
<1>11. ASSUME NEW s \in Sockets, HandlerStep, TimeoutAborted(s)
      PROVE  MasterOK'
  BY <1>0, <1>11 DEF HandlerStep, TimeoutAborted, setupVars, procVars
<1>12. ASSUME NEW s \in Sockets, HandlerStep, TimeoutHandler(s)
      PROVE  MasterOK'
  BY <1>12 DEF TimeoutHandler
<1>13. ASSUME NEW s \in Sockets, ProcDisconnects(s)
      PROVE  MasterOK'
  BY <1>0, <1>13 DEF ProcDisconnects, setupVars
<1>14. ASSUME TimerStep
      PROVE  MasterOK'
  BY <1>0, <1>14 DEF TimerStep, WorkedTimeExpires, reset_timer, LoopReturns, setupVars, procVars
<1>15. ASSUME NEW s \in Sockets, Network(s)
      PROVE  MasterOK'
  BY <1>0, <1>15 DEF Network, setupVars, procVars
<1>16. ASSUME UNCHANGED vars
      PROVE  MasterOK'
  BY <1>0, <1>16 DEF vars, setupVars, procVars
<1> QED
  BY <1>1, <1>2, <1>3, <1>4, <1>5, <1>6, <1>7, <1>8, <1>9, <1>10,
     <1>11, <1>12, <1>13, <1>14, <1>15, <1>16, NextCases

-----------------------------------------------------------------------------
(* The invariant.                                                           *)

(* What does not depend on the time.                                         *)
LEMMA NextInv ==
  ASSUME IInv, [Next]_vars
  PROVE  /\ ConnTypeOK' /\ SetupTypeOK' /\ ClientTypeOK'
         /\ CacheOK' /\ HeldOK' /\ AttemptOK' /\ ChainOK' /\ AskedOK' /\ AppOK' /\ LoopOK'
         /\ TimerGuardsAttempt' /\ RequestIsPending'
BY ConnTypeStep, SetupTypeStep, ClientTypeStep, CacheStep, HeldStep, AttemptStep, ChainsStep, AskedStep,
   AppStep, LoopStep, TimerGuardsStep, PendingStep

(* What holds until a timer runs out.                                        *)
LEMMA NextInTime ==
  ASSUME IInv, [Next]_vars
  PROVE  InTimeOK' /\ ConfirmedOnceInTime'
<1>1. CASE late'
  BY <1>1 DEF InTimeOK, ConfirmedOnceInTime
<1>2. CASE ~late'
  <2>1. OneWorker'
    <3>1. Lone'
      BY <1>2, LoneStep
    <3> QED
      BY <3>1, LoneIsOnePrime
  <2>2. BuiltOK' /\ MapsOK'
    BY <1>2, BuiltStep
  <2>3. ConfirmedOnceInTime'
    BY <1>2, ConfirmedStep DEF ConfirmedOnceInTime
  <2>4. MasterOK'
    BY <1>2, MasterStep
  <2> QED
    BY <2>1, <2>2, <2>3, <2>4 DEF InTimeOK
<1> QED
  BY <1>1, <1>2

(* A new client.                                                             *)
LEMMA InitInv == Init => IInv
<1> SUFFICES ASSUME Init
             PROVE  IInv
  OBVIOUS
<1>1. /\ open = {} /\ connecting = [s \in Sockets |-> "off"] /\ timer = [s \in Sockets |-> "off"]
      /\ waiter = [s \in Sockets |-> NoWaiter] /\ cache = [v \in Servers |-> <<>>]
      /\ master_conn = FALSE /\ slave_pool = <<>> /\ master_pipeline = 0 /\ master_serial = 0
      /\ pipeline_pool = new_pool /\ serial_pool = new_pool /\ connected = FALSE /\ failed = {}
      /\ chain = [t \in Agents |-> NoStep] /\ app = Ready /\ req = 0
      /\ answers = [r \in 1..MaxRequests |-> <<>>] /\ late = FALSE
      /\ worked_time = "waiting" /\ io_returned = FALSE /\ status = "running"
      /\ pipeline_pool.list = <<>> /\ serial_pool.list = <<>>
      /\ pipeline_pool.map = <<>> /\ serial_pool.map = <<>>
      /\ MaxRequests \in Nat
  BY CallAssumption DEF Init, ConnInit, Agents, new_pool
<1>2. /\ <<>> \in Seq(Sockets) /\ <<>> \in Seq(Nat) /\ <<>> \in Seq(Unit) /\ <<>> \in Seq(Codes)
      /\ <<>> \in Seq(ToSet(Pointers)) /\ DOMAIN <<>> = {} /\ ToSet(<<>>) = {} /\ Len(<<>>) = 0
  <2>1. DOMAIN <<>> = {}
    OBVIOUS
  <2>2. ToSet(<<>>) = {}
    BY DEF ToSet
  <2> QED
    BY <2>1, <2>2
<1>3. NoWaiter \in [server : Servers \cup {"none"}, req : 0..MaxRequests, step : Nat]
  BY <1>1 DEF NoWaiter
<1>4. NoStep \in [req : 0..MaxRequests, step : Nat]
  BY <1>1 DEF NoStep
<1>5. new_pool \in Pool
  BY <1>2 DEF new_pool, Pool
<1>6. Ready \in [goal : {"none", "disconnect", "reconnect", "destroy"}, clearing : Seq(ToSet(Pointers))]
  BY <1>2 DEF Ready
<1>7. held = {}
  BY <1>1, <1>2 DEF held
<1>8. ConnTypeOK
  BY <1>1, <1>2, <1>3 DEF ConnTypeOK
<1>9. SetupTypeOK
  BY <1>1, <1>2, <1>5, <1>7 DEF SetupTypeOK
<1>10. ClientTypeOK
  <2>1. chain \in [Agents -> [req : 0..MaxRequests, step : Nat]]
    BY <1>1, <1>4
  <2>2. answers \in [1..MaxRequests -> Seq(Codes)]
    BY <1>1, <1>2
  <2>3. app \in [goal : {"none", "disconnect", "reconnect", "destroy"}, clearing : Seq(ToSet(Pointers))]
    BY <1>1, <1>6
  <2>4. req \in 0..MaxRequests
    BY <1>1
  <2> QED
    BY <1>1, <2>1, <2>2, <2>3, <2>4 DEF ClientTypeOK
<1>11. \A s \in Sockets : connecting[s] = "off" /\ timer[s] = "off"
  BY <1>1
<1>12. \A t \in Agents : chain[t] = NoStep
  BY <1>1
<1>13. CacheOK
  BY <1>1, <1>2 DEF CacheOK
<1>14. HeldOK
  BY <1>1, <1>2, <1>7 DEF HeldOK, DistinctOK
<1>15. AttemptOK /\ ChainOK
  BY <1>11, <1>12 DEF AttemptOK, ChainOK, Kept, Attempting
<1>16. AskedOK
  BY <1>1 DEF AskedOK, Ready
<1>17. AppOK
  <2>1. Len(Pointers) = 4 /\ SubSeq(Pointers, 5, 4) = <<>>
    BY PointersFacts
  <2>2. 5 \in 1..(Len(Pointers) + 1) /\ app.clearing = SubSeq(Pointers, 5, Len(Pointers))
    BY <1>1, <2>1 DEF Ready
  <2> QED
    BY <1>1, <2>2 DEF AppOK, Ready
<1>18. LoopOK /\ TimerGuardsAttempt /\ RequestIsPending
  BY <1>1 DEF LoopOK, TimerGuardsAttempt, RequestIsPending
<1>19. Lone
  BY <1>11, <1>12 DEF Lone
<1>20. BuiltOK
  <2>1. \A p \in ToSet(Pointers) : Cleared(p)
    BY <1>1, PointersFacts DEF Cleared
  <2> QED
    BY <1>1, <1>11, <1>12, <2>1 DEF BuiltOK, Attempting
<1>21. MapsOK
  BY <1>1, <1>2 DEF MapsOK, MapOK
<1>22. InTimeOK /\ ConfirmedOnceInTime
  <2>1. MasterOK
    BY <1>1 DEF MasterOK
  <2> QED
    BY <1>1, <1>2, <1>19, <1>20, <1>21, <2>1, LoneIsOne DEF InTimeOK, ConfirmedOnceInTime
<1> QED
  BY <1>8, <1>9, <1>10, <1>13, <1>14, <1>15, <1>16, <1>17, <1>18, <1>22 DEF IInv

(* Whatever the application, the event loop and the network do, the parts of *)
(* the invariant stay true: src/src/client.cpp, conn_manager.cpp.            *)
THEOREM Invariance == Spec => []IInv
<1>1. IInv /\ [Next]_vars => IInv'
  BY NextInv, NextInTime DEF IInv
<1> QED
  BY InitInv, <1>1, PTL DEF Spec

-----------------------------------------------------------------------------
(* What the runs check.                                                     *)

(* The cache gives a socket to one processor at a time, and none that is     *)
(* still being connected.                                                   *)
THEOREM EachItsSocket == Spec => []SocketsNotShared
<1>1. IInv => SocketsNotShared
  <2> SUFFICES ASSUME IInv
               PROVE  SocketsNotShared
    OBVIOUS
  <2>1. ConnTypeOK /\ SetupTypeOK /\ ClientTypeOK /\ CacheOK /\ DistinctOK /\ ChainOK
        /\ \A s \in held : connecting[s] = "off"
    BY DEF IInv, HeldOK, Attempting
  <2>2. \A v \in Servers : ToSet(cache[v]) \subseteq Sockets /\ Cardinality(ToSet(cache[v])) = Len(cache[v])
    <3> SUFFICES ASSUME NEW v \in Servers
                 PROVE  ToSet(cache[v]) \subseteq Sockets /\ Cardinality(ToSet(cache[v])) = Len(cache[v])
      OBVIOUS
    <3>1. cache[v] \in Seq(Sockets) /\ \A i, j \in DOMAIN cache[v] : cache[v][i] = cache[v][j] => i = j
      BY <2>1 DEF ConnTypeOK, CacheOK
    <3> QED
      BY <3>1, SetOfSeq, DistinctCounts
  <2>3. \A t \in Agents : chain[t].req \in 0..req
    <3>1. \A t \in Agents : chain[t] = NoStep \/ chain[t].req \in 1..req
      BY <2>1 DEF ChainOK
    <3>2. req \in Nat
      BY <2>1, CallAssumption DEF ClientTypeOK
    <3> QED
      BY <3>1, <3>2 DEF NoStep
  <2>4. \A s \in Sockets :
          /\ connecting[s] \in {"off", "waiting", "ok", "error"}
          /\ timer[s] \in {"off", "waiting", "expired", "aborted"}
          /\ waiter[s].server \in Servers \cup {"none"}
    BY <2>1 DEF ConnTypeOK
  <2>5. TypeOK
    BY <2>1, <2>2, <2>3, <2>4 DEF TypeOK, ConnTypeOK, SetupTypeOK, ClientTypeOK, Agents
  <2>6. ASSUME NEW s \in Sockets
        PROVE  Owners(s) <= 1
    <3>1. pipeline_pool.list \in Seq(Sockets) /\ serial_pool.list \in Seq(Sockets) /\ s # 0
      BY <2>1, SocketAssumption DEF SetupTypeOK, Pool, Sockets
    <3>2. Cardinality({i \in DOMAIN pipeline_pool.list : pipeline_pool.list[i] = s})
            = IF s \in ToSet(pipeline_pool.list) THEN 1 ELSE 0
      BY <2>1, <3>1, CountsOnce DEF DistinctOK
    <3>3. Cardinality({i \in DOMAIN serial_pool.list : serial_pool.list[i] = s})
            = IF s \in ToSet(serial_pool.list) THEN 1 ELSE 0
      BY <2>1, <3>1, CountsOnce DEF DistinctOK
    <3>4. /\ ~(master_pipeline = s /\ master_serial = s)
          /\ master_pipeline = s \/ master_serial = s =>
               s \notin ToSet(pipeline_pool.list) /\ s \notin ToSet(serial_pool.list)
          /\ ~(s \in ToSet(pipeline_pool.list) /\ s \in ToSet(serial_pool.list))
      BY <2>1, <3>1 DEF DistinctOK
    <3> QED
      BY <3>2, <3>3, <3>4 DEF Owners
  <2> QED
    BY <2>1, <2>5, <2>6 DEF SocketsNotShared
<1> QED
  BY Invariance, <1>1, PTL

(* A timer that can still expire belongs to an attempt: the handlers of an   *)
(* attempt cancel it.                                                       *)
THEOREM TimerOfAttempt == Spec => []TimerGuardsAttempt
<1>1. IInv => TimerGuardsAttempt
  BY DEF IInv
<1> QED
  BY Invariance, <1>1, PTL

(* No request is forgotten: a thread or an attempt still works for it.       *)
THEOREM NoneForgotten == Spec => []RequestIsPending
<1>1. IInv => RequestIsPending
  BY DEF IInv
<1> QED
  BY Invariance, <1>1, PTL

(* Until a timer runs out, no promise is set twice.                          *)
THEOREM OneConfirmation == Spec => []ConfirmedOnceInTime
<1>1. IInv => ConfirmedOnceInTime
  BY DEF IInv
<1> QED
  BY Invariance, <1>1, PTL

(* The pools are full when the chain is at its end.                          *)
LEMMA AllBuilt ==
  ASSUME IInv, connected, ~late
  PROVE  /\ master_conn => 0 \notin {master_pipeline, master_serial}
         /\ Len(pipeline_pool.list) = Len(slave_pool)
         /\ Len(serial_pool.list) = Len(slave_pool)
<1> DEFINE n == Len(slave_pool)
           k == Len(Steps) + 1
<1>1. Built(k)
  BY DEF IInv, InTimeOK, BuiltOK
<1>2. MasterSteps \in {0, 2} /\ (master_conn <=> MasterSteps = 2) /\ n \in Nat /\ Len(Steps) = MasterSteps + n + n
  BY StepsFacts DEF IInv
<1> HIDE DEF n
<1>3. k - 1 - MasterSteps = n + n /\ k - 1 - MasterSteps - n = n /\ (master_conn => k > 1 /\ k > 2)
  <2>1. \A m \in {0, 2}, l \in Nat : /\ l = m + n + n => (l + 1) - 1 - m = n + n /\ (l + 1) - 1 - m - n = n
                                   /\ l = m + n + n /\ m = 2 => l + 1 > 1 /\ l + 1 > 2
    BY <1>2
  <2>2. Len(Steps) \in Nat
    BY <1>2
  <2> QED
    BY <1>2, <2>1, <2>2
<1> HIDE DEF k
<1>4. UpTo(k - 1 - MasterSteps, n) = n /\ UpTo(k - 1 - MasterSteps - n, n) = n
  <2>1. UpTo(n + n, n) = n /\ UpTo(n, n) = n
    BY <1>2 DEF UpTo
  <2> QED
    BY <1>3, <2>1
<1> QED
  BY <1>1, <1>3, <1>4 DEF Built, n

(* A client that says it is connected has all of its processors, until a     *)
(* timer runs out.                                                          *)
THEOREM CompleteWhenConnected == Spec => []ConnectedIsComplete
<1>1. IInv => ConnectedIsComplete
  BY AllBuilt DEF ConnectedIsComplete
<1> QED
  BY Invariance, <1>1, PTL

(* Commands that write are for the master only.                              *)
LEMMA WritesAreForMaster == \A c \in Writes : only_master(c)
BY DEF Writes, only_master, HashWrites, HashReads, KeyReads, KeyOthers

(* Where a command goes that only a master may execute, and where another.   *)
LEMMA KindsFacts ==
  /\ KindsOf({c \in Command : only_master(c)}) \subseteq {"pipeline_master", "serial_master"}
  /\ KindsOf({c \in Command : ~only_master(c)}) \subseteq {"pipeline_any", "serial_any"}
  /\ KindsOf(Writes) \subseteq {"pipeline_master", "serial_master"}
  /\ KindsOf(Command) \subseteq {"pipeline_master", "serial_master", "pipeline_any", "serial_any"}
<1>1. \A c, b : b \in Buffers /\ only_master(c) => SendKind(c, b) \in {"pipeline_master", "serial_master"}
  BY DEF SendKind, Buffers
<1>2. \A c, b : b \in Buffers /\ ~only_master(c) => SendKind(c, b) \in {"pipeline_any", "serial_any"}
  BY DEF SendKind, Buffers
<1> QED
  BY <1>1, <1>2, WritesAreForMaster DEF KindsOf

(* Where the queries of a connected client go, until a timer runs out.       *)
LEMMA RoutesFacts ==
  ASSUME IInv, connected, ~late
  PROVE  /\ \A kind \in {"pipeline_master", "serial_master"} :
              Routes(kind) = IF master_conn THEN {"master"} ELSE {"throws"}
         /\ \A kind \in {"pipeline_any", "serial_any"} :
              /\ slave_pool = <<>> => Routes(kind) = IF master_conn THEN {"master"} ELSE {"throws"}
              /\ slave_pool # <<>> => Routes(kind) \subseteq {"slave"}
         /\ Routes("string") = IF master_conn THEN {"master"} ELSE {"null"}
<1>1. /\ master_conn => 0 \notin {master_pipeline, master_serial}
      /\ Len(pipeline_pool.list) = Len(slave_pool)
      /\ Len(serial_pool.list) = Len(slave_pool)
  BY AllBuilt
<1>2. /\ MapOK(pipeline_pool) /\ MapOK(serial_pool) /\ MasterOK
      /\ pipeline_pool \in Pool /\ serial_pool \in Pool /\ slave_pool \in Seq(Unit)
  BY DEF IInv, InTimeOK, MapsOK, SetupTypeOK
<1>3. /\ ToMaster(master_pipeline) = (IF master_conn THEN "master" ELSE "throws")
      /\ ToMaster(master_serial) = (IF master_conn THEN "master" ELSE "throws")
  BY <1>1, <1>2 DEF ToMaster, MasterOK, NoSocket
<1>4. ASSUME NEW pool \in Pool, NEW socket, MapOK(pool), Len(pool.list) = Len(slave_pool)
      PROVE  /\ slave_pool = <<>> => ToAny(pool, socket) = {ToMaster(socket)}
             /\ slave_pool # <<>> => ToAny(pool, socket) \subseteq {"slave"}
  <2>1. \A i \in Picks(pool) : InList(pool, i)
    BY <1>4 DEF Picks, InList, MapOK, ToSet
  <2>2. is_empty(pool) <=> slave_pool = <<>>
    <3>1. pool.list \in Seq(Sockets)
      BY DEF Pool
    <3> QED
      BY <1>2, <1>4, <3>1 DEF is_empty
  <2> QED
    BY <2>1, <2>2 DEF ToAny
<1>5. /\ Routes("string") = {IF master_pipeline = 0 THEN "null" ELSE "master"}
      /\ Routes("pipeline_master") = {ToMaster(master_pipeline)}
      /\ Routes("pipeline_any") = ToAny(pipeline_pool, master_pipeline)
      /\ Routes("serial_master") = {ToMaster(master_serial)}
      /\ Routes("serial_any") = ToAny(serial_pool, master_serial)
  BY DEF Routes, NoSocket
<1>6. /\ slave_pool = <<>> => /\ Routes("pipeline_any") = {ToMaster(master_pipeline)}
                             /\ Routes("serial_any") = {ToMaster(master_serial)}
      /\ slave_pool # <<>> => /\ Routes("pipeline_any") \subseteq {"slave"}
                             /\ Routes("serial_any") \subseteq {"slave"}
  BY <1>1, <1>2, <1>4, <1>5
<1>7. Routes("string") = IF master_conn THEN {"master"} ELSE {"null"}
  BY <1>1, <1>2, <1>5 DEF MasterOK, NoSocket
<1> QED
  BY <1>3, <1>5, <1>6, <1>7

(* Until a timer runs out, a query object of a connected client finds a      *)
(* processor or causes the exception that client.hpp:58-59 speaks of, a      *)
(* write the master's; with a master, a query given as a string too.         *)
THEOREM EachQueryItsProcessor == Spec => []QueryFindsProcessor
<1>1. IInv => QueryFindsProcessor
  <2> SUFFICES ASSUME IInv, connected, ~late
               PROVE  QueryFindsProcessor
    BY DEF QueryFindsProcessor
  <2>1. \A kind \in {"pipeline_master", "serial_master"} :
          /\ "outside" \notin Routes(kind) /\ "slave" \notin Routes(kind)
          /\ "throws" \in Routes(kind) <=> ~master_conn
    BY RoutesFacts
  <2>2. \A kind \in {"pipeline_any", "serial_any"} :
          /\ "outside" \notin Routes(kind)
          /\ "throws" \in Routes(kind) <=> ~master_conn /\ slave_pool = <<>>
    BY RoutesFacts
  <2>3. master_conn => Routes("string") = {"master"}
    BY RoutesFacts
  <2> QED
    BY <2>1, <2>2, <2>3, KindsFacts DEF QueryFindsProcessor
<1> QED
  BY Invariance, <1>1, PTL

(* What the comments say otherwise: a custom query is sent to no slave       *)
(* (cmd_traits.hpp:510 says it is, by default), and a query given as a string *)
(* meets a null pointer where client.hpp:58-59 says there is an exception.   *)
NotAsDocumented ==
  connected /\ ~late =>
    /\ \A kind \in KindsOf({"custom"}) : Routes(kind) = IF master_conn THEN {"master"} ELSE {"throws"}
    /\ ~master_conn => Routes("string") = {"null"}

(* Both hold in every state that is connected, whatever slaves there are:    *)
(* custom inherits only_master_t, async_send of a string tests no pointer.   *)
THEOREM DocumentsContradicted == Spec => []NotAsDocumented
<1>1. KindsOf({"custom"}) \subseteq {"pipeline_master", "serial_master"}
  <2>1. "custom" \in Command /\ only_master("custom")
    BY DEF Command, RestCommands, only_master, HashReads, KeyReads
  <2> QED
    BY <2>1, KindsFacts DEF KindsOf
<1>2. IInv => NotAsDocumented
  BY <1>1, RoutesFacts DEF NotAsDocumented
<1> QED
  BY Invariance, <1>2, PTL

(* The event loop does not end before the client.                            *)
THEOREM LoopLives == Spec => []LoopOutlivesClient
<1>1. IInv => LoopOutlivesClient
  BY DEF IInv, LoopOK, LoopOutlivesClient
<1> QED
  BY Invariance, <1>1, PTL
=============================================================================
