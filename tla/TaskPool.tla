------------------------------ MODULE TaskPool ------------------------------
(***************************************************************************)
(* What runAsync promises its callers, without rounds, budgets or polls:   *)
(* one FIFO queue of runnable tasks, a list of waiting ones in the order   *)
(* they began to wait, turns taken at the head, a task given back to the   *)
(* queue only once one of its waits holds and never overtaking one that    *)
(* woke with it and waited longer (ASYNC-RUNTIME-DESIGN G2, G4).           *)
(***************************************************************************)
EXTENDS Naturals, Sequences, FiniteSets

CONSTANTS Task, Root, Wait

VARIABLES
  queue, waiting, life, outcome,
  holds         \* the waits that hold: the environment of the pool

poolVars == <<queue, waiting, life, outcome>>

Waiting == [task : Task, waits : SUBSET Wait]

Ascending(I) == {f \in [1..Cardinality(I) -> I] :
                   /\ \A i, j \in DOMAIN f : i < j => f[i] < f[j]
                   /\ \A k \in I : \E i \in DOMAIN f : f[i] = k}

PoolInit ==
  /\ queue = <<Root>> /\ waiting = << >>
  /\ life = [t \in Task |-> IF t = Root THEN "live" ELSE "unborn"]
  /\ outcome = "running"

\* The head of the queue runs: it ends, yields, waits or starts a child that
\* runs before it.
Serve ==
  /\ outcome = "running" /\ queue # << >>
  /\ LET t == Head(queue) IN
     \/ /\ queue' = Tail(queue)
        /\ life' = [life EXCEPT ![t] = "finished"]
        /\ UNCHANGED waiting
     \/ /\ queue' = Tail(queue) \o <<t>>
        /\ UNCHANGED <<waiting, life>>
     \/ /\ queue' = Tail(queue)
        /\ \E ws \in SUBSET Wait : waiting' = waiting \o <<[task |-> t, waits |-> ws]>>
        /\ UNCHANGED life
     \/ \E c \in Task :
        /\ life[c] = "unborn"
        /\ queue' = Tail(queue) \o <<c, t>>
        /\ life' = [life EXCEPT ![c] = "live"]
        /\ UNCHANGED waiting
  /\ UNCHANGED outcome

\* Some tasks one of whose waits holds rejoin the queue, oldest first.
Wake ==
  /\ outcome = "running"
  /\ \E W \in SUBSET (DOMAIN waiting) :
       /\ W # {}
       /\ \A i \in W : \E w \in waiting[i].waits : w \in holds
       /\ \E f \in Ascending(W), g \in Ascending((DOMAIN waiting) \ W) :
            /\ queue' = queue \o [i \in DOMAIN f |-> waiting[f[i]].task]
            /\ waiting' = [i \in DOMAIN g |-> waiting[g[i]]]
  /\ UNCHANGED <<life, outcome>>

\* The program is over once nothing runs and nothing waits.
Finish ==
  /\ outcome = "running" /\ queue = << >> /\ waiting = << >>
  /\ life[Root] = "finished"
  /\ outcome' = "returned"
  /\ UNCHANGED <<queue, waiting, life>>

\* The program stops by a panic while something waits.
Panic ==
  /\ outcome = "running" /\ waiting # << >>
  /\ outcome' = "panicked"
  /\ UNCHANGED <<queue, waiting, life>>

PoolNext == Serve \/ Wake \/ Finish \/ Panic

PoolSpec == PoolInit /\ [][PoolNext]_poolVars
=============================================================================
