-------------------------- MODULE CallbackService --------------------------
(***************************************************************************)
(* What a request processor promises to the callers of push(): a query it  *)
(* accepts waits in line, the oldest one is answered first and with its    *)
(* own reply, a query refused after stop is refused at once, and a lost    *)
(* connection closes the service and answers everything in line with an    *)
(* error.  No callback is ever called twice.                               *)
(*                                                                         *)
(* The integer codes are those the callbacks get: 0 for a reply, 100 for   *)
(* "Query ignored", 110 for "Client disconnected".                         *)
(***************************************************************************)
EXTENDS Integers, Sequences

CONSTANTS
  Query,      (* the queries                        *)
  NoQuery     (* absence of a query or of a reply   *)

VARIABLES
  line,       (* accepted queries, oldest first     *)
  outcome,    (* what each callback was called with *)
  open        (* pushes are accepted                *)

vars == <<line, outcome, open>>

Outcome == [code : {-1, 0, 100, 110}, reply : Query \cup {NoQuery}]

Uncalled       == [code |-> -1, reply |-> NoQuery]
Answered(r)    == [code |-> 0, reply |-> r]
Ignored        == [code |-> 100, reply |-> NoQuery]
Disconnected   == [code |-> 110, reply |-> NoQuery]

Waiting(q) == \E i \in DOMAIN line : line[i] = q

Init ==
  /\ line = <<>>
  /\ outcome = [q \in Query |-> Uncalled]
  /\ open = TRUE

Accept(q) ==
  /\ open
  /\ ~Waiting(q)
  /\ outcome[q] = Uncalled
  /\ line' = Append(line, q)
  /\ UNCHANGED <<outcome, open>>

Refuse(q) ==
  /\ ~open
  /\ ~Waiting(q)
  /\ outcome[q] = Uncalled
  /\ outcome' = [outcome EXCEPT ![q] = Ignored]
  /\ UNCHANGED <<line, open>>

Answer ==
  /\ line # <<>>
  /\ outcome[Head(line)] = Uncalled
  /\ outcome' = [outcome EXCEPT ![Head(line)] = Answered(Head(line))]
  /\ line' = Tail(line)
  /\ UNCHANGED open

Close ==
  /\ open' = FALSE
  /\ UNCHANGED <<line, outcome>>

FailAll ==
  /\ ~open
  /\ \A q \in Query : Waiting(q) => outcome[q] = Uncalled
  /\ outcome' = [q \in Query |-> IF Waiting(q) THEN Disconnected ELSE outcome[q]]
  /\ line' = <<>>
  /\ UNCHANGED open

Next ==
  \/ \E q \in Query : Accept(q) \/ Refuse(q)
  \/ Answer
  \/ Close
  \/ FailAll

Spec == Init /\ [][Next]_vars

=============================================================================
