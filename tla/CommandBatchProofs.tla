------------------------- MODULE CommandBatchProofs -------------------------
(***************************************************************************)
(* Safety of runCommand and runCommandBatch for any number of rows, jobs   *)
(* and process numbers.                                                    *)
(***************************************************************************)
EXTENDS CommandBatch, FiniteSetTheorems, TLAPS

-----------------------------------------------------------------------------
(* The inductive invariant *)

\* The rows whose child the call counts as running.
Live == {r \in Row : kids[r] \in Pid}

\* Where the call is, and what it has come to there.
Progress ==
  /\ next <= n + 1
  /\ call = "command" => n = 1
  /\ pc = "enter" => next = 1
  /\ pc \in {"leave", "returned"} => next = n + 1 /\ Live = {}
  /\ pc = "wait" => n = 1 /\ next = 2 /\ 1 \in Live
  /\ pc = "sweep" => k <= next /\ call = "batch"
  /\ pc = "fill" /\ call = "command" => next = 1
  /\ IF pc \in {"enter", "returned"} THEN sigchld = Inherited ELSE sigchld = "default"

\* The count and the files follow the rows that have a child.
Counted ==
  /\ running = Cardinality(Live)
  /\ running <= Limit
  /\ temp = Live
  /\ \A r \in Row : kids[r] = Junk <=> r >= next

\* A child in the table is the one its row has the pid of; as long as nobody
\* steals a status, every pid a row has is its child.
Owned ==
  /\ \A p \in Pid : proc[p].who # Foreign => kids[proc[p].who] = p /\ proc[p].state # "free"
  /\ \A r \in Live : proc[kids[r]].who = Foreign => stolen /\ proc[kids[r]].state = "free"
  /\ ~ stolen => \A r \in Live : proc[kids[r]].who = r

\* What the table and the results say of how a row ended.
Outcomes ==
  /\ \A p \in Pid : proc[p].who # Foreign /\ proc[p].state = "zombie" =>
                      proc[p].as \in Ending /\ ended[proc[p].who] = proc[p].as
  /\ \A r \in Row : kids[r] # NoPid => res[r] = Unset
  /\ ~ stolen => \A r \in Row : kids[r] = NoPid =>
       res[r] = StartError \/ (ended[r] \in Ending /\ res[r] = Exited(ended[r]))

IInv == TypeOK /\ Progress /\ Counted /\ Owned /\ Outcomes

-----------------------------------------------------------------------------
(* Rows, pids and counts *)

LEMMA Rows ==
  ASSUME TypeOK
  PROVE  /\ MaxRows \in Nat /\ n \in Nat /\ n <= MaxRows
         /\ next \in Nat /\ next >= 1 /\ k \in Nat /\ k >= 1
         /\ running \in Nat /\ Limit \in Nat /\ Limit >= 1
BY BatchAssumption DEF TypeOK, Limit

LEMMA LiveFinite == IsFiniteSet(Live)
<1>1. IsFiniteSet(Row)
  BY BatchAssumption, FS_Interval, SMT DEF Row
<1>2. Live \subseteq Row
  BY DEF Live
<1> QED BY <1>1, <1>2, FS_Subset

\* A child in the table belongs to a row that counts it.
LEMMA OwnerIsLive ==
  ASSUME TypeOK, Owned, NEW p \in Pid, proc[p].who # Foreign
  PROVE  proc[p].who \in Live /\ kids[proc[p].who] = p
<1>1. proc[p] \in Processes
  BY DEF TypeOK
<1>2. proc[p].who \in Row
  BY <1>1 DEF Processes
<1> QED BY <1>2 DEF Owned, Live

\* The row a sweep looks at has a pid or none, never Junk.
LEMMA SweptRow ==
  ASSUME IInv, k < next, next <= n + 1, kids[k] # NoPid
  PROVE  k \in Live
<1>1. k \in Row
  BY Rows DEF IInv, Row
<1>2. kids[k] # Junk
  BY <1>1, Rows DEF IInv, Counted
<1>3. kids[k] \in Pid
  BY <1>1, <1>2 DEF IInv, TypeOK
<1> QED BY <1>1, <1>3 DEF Live

\* What a step that only moves the call on leaves as it was.
LEMMA Unmoved ==
  ASSUME Counted, Owned, Outcomes,
         UNCHANGED <<kids, proc, res, temp, running, ended, stolen, next>>
  PROVE  Counted' /\ Owned' /\ Outcomes' /\ Live' = Live
<1>1. Live' = Live
  BY DEF Live
<1>2. Counted'
  BY <1>1 DEF Counted
<1>3. Owned'
  BY <1>1 DEF Owned
<1>4. Outcomes'
  BY DEF Outcomes
<1> QED BY <1>1, <1>2, <1>3, <1>4

\* A row that is settled leaves the live ones, and there was one to leave.
LEMMA OneLess ==
  ASSUME IInv, NEW r \in Live, kids' = [kids EXCEPT ![r] = NoPid], running' = running - 1
  PROVE  /\ running >= 1 /\ running' \in Nat
         /\ Live' = Live \ {r}
         /\ running' = Cardinality(Live')
<1>1. r \in Row /\ kids \in [Row -> Pid \cup {NoPid, Junk}]
  BY DEF Live, IInv, TypeOK
<1>2. Live' = Live \ {r}
  BY <1>1, BatchAssumption DEF Live
<1>3. Cardinality(Live') = Cardinality(Live) - 1 /\ Cardinality(Live') \in Nat
  BY <1>2, LiveFinite, FS_RemoveElement, FS_CardinalityType
<1>4. running = Cardinality(Live) /\ running \in Nat
  BY DEF IInv, Counted, TypeOK
<1> QED BY <1>2, <1>3, <1>4

\* What a started row adds.
LEMMA OneMore ==
  ASSUME IInv, NEW p \in Pid, next <= n, kids' = [kids EXCEPT ![next] = p],
         running' = running + 1
  PROVE  /\ next \in Row /\ next \notin Live
         /\ Live' = Live \cup {next}
         /\ running' = Cardinality(Live')
<1>1. next \in Row /\ kids \in [Row -> Pid \cup {NoPid, Junk}]
  BY Rows DEF IInv, Row, TypeOK
<1>2. kids[next] = Junk
  BY <1>1, Rows DEF IInv, Counted
<1>3. next \notin Live
  BY <1>2, BatchAssumption DEF Live
<1>4. Live' = Live \cup {next}
  BY <1>1 DEF Live
<1>5. Cardinality(Live') = Cardinality(Live) + 1
  BY <1>3, <1>4, LiveFinite, FS_AddElement
<1> QED BY <1>1, <1>3, <1>4, <1>5 DEF IInv, Counted

\* Before the first row there is no child.
LEMMA NoChildYet ==
  ASSUME TypeOK, Counted, next = 1
  PROVE  Live = {}
<1>1. \A r \in Row : kids[r] = Junk
  BY DEF Counted, Row
<1> QED BY <1>1, BatchAssumption DEF Live

-----------------------------------------------------------------------------
(* The steps *)

LEMMA StepMoves ==
  ASSUME IInv, Enter \/ StartLater \/ Filled \/ SweepPasses \/ SweepEnds \/ Leave
  PROVE  IInv'
<1>0. /\ MaxRows \in Nat /\ n \in Nat /\ n <= MaxRows
      /\ next \in Nat /\ next >= 1 /\ k \in Nat /\ k >= 1
      /\ running \in Nat /\ Limit \in Nat /\ Limit >= 1
  BY Rows DEF IInv
<1>1. UNCHANGED <<kids, proc, res, temp, running, ended, stolen, next, n, call>>
  BY DEF Enter, StartLater, Filled, SweepPasses, SweepEnds, Leave, kernel
<1>2. Counted' /\ Owned' /\ Outcomes' /\ Live' = Live
  BY <1>1, Unmoved DEF IInv
<1>3. /\ pc' \in {"enter", "fill", "wait", "sweep", "leave", "returned"}
      /\ k' \in 1..(MaxRows + 1) /\ settled' \in Nat
      /\ sigchld' \in {"default", "ignored"}
  BY <1>0, BatchAssumption DEF IInv, TypeOK, Progress, Enter, StartLater, Filled, SweepPasses,
     SweepEnds, Leave, BeginSweep
<1>4. TypeOK'
  BY <1>1, <1>3 DEF IInv, TypeOK
<1>5. Progress'
  <2>1. CASE Enter
    <3>1. next = 1
      BY <2>1 DEF IInv, Progress, Enter
    <3>2. Live = {}
      BY <3>1, NoChildYet DEF IInv
    <3> QED BY <1>0, <1>1, <1>2, <2>1, <3>1, <3>2 DEF IInv, Progress, Enter
  <2>2. CASE StartLater
    BY <1>0, <1>1, <1>2, <2>2 DEF IInv, Progress, StartLater, BeginSweep, MayStart
  <2>3. CASE Filled
    <3>1. running = 0 => Live = {}
      BY LiveFinite, FS_EmptySet DEF IInv, Counted
    <3>2. running = 0 => next = n + 1
      BY <1>0, <2>3 DEF IInv, Progress, Filled
    <3>3. call = "batch" \/ (running = 0 /\ next = n + 1)
      <4>1. CASE call = "command"
        <5>1. next = 1 /\ n = 1
          BY <2>3, <4>1 DEF IInv, Progress, Filled
        <5>2. Live = {}
          BY <5>1, NoChildYet DEF IInv
        <5>3. running = 0
          BY <5>2, FS_EmptySet, Zenon DEF IInv, Counted
        <5>4. ~ (running < Limit /\ next <= n)
          BY <2>3 DEF Filled
        <5> QED BY <1>0, <5>1, <5>3, <5>4
      <4>2. call \in {"command", "batch"}
        BY DEF IInv, TypeOK
      <4> QED BY <4>1, <4>2
    <3> QED BY <1>0, <1>1, <1>2, <2>3, <3>1, <3>2, <3>3 DEF IInv, Progress, Filled, BeginSweep
  <2>4. CASE SweepPasses
    BY <1>0, <1>1, <1>2, <2>4 DEF IInv, Progress, SweepPasses
  <2>5. CASE SweepEnds
    BY <1>0, <1>1, <1>2, <2>5 DEF IInv, Progress, SweepEnds, BeginSweep
  <2>6. CASE Leave
    BY <1>0, <1>1, <1>2, <2>6 DEF IInv, Progress, Leave
  <2> QED BY <2>1, <2>2, <2>3, <2>4, <2>5, <2>6
<1> QED BY <1>2, <1>4, <1>5 DEF IInv

\* A row starts: a pid that was free is its child's.
LEMMA StepStarts ==
  ASSUME IInv, StartRow
  PROVE  IInv'
<1>0. /\ MaxRows \in Nat /\ n \in Nat /\ n <= MaxRows
      /\ next \in Nat /\ next >= 1 /\ k \in Nat /\ k >= 1
      /\ running \in Nat /\ Limit \in Nat /\ Limit >= 1
  BY Rows DEF IInv
<1>1. PICK p \in Pid :
        /\ proc[p].state = "free"
        /\ proc' = [proc EXCEPT ![p] = [who |-> next, state |-> "running", as |-> NotEnded]]
        /\ kids' = [kids EXCEPT ![next] = p]
        /\ temp' = temp \cup {next}
        /\ UNCHANGED <<ended, stolen>>
  BY DEF StartRow, Forks
<1>2. /\ pc = "fill" /\ running < Limit /\ next <= n
      /\ running' = running + 1 /\ next' = next + 1
      /\ pc' = (IF call = "command" THEN "wait" ELSE pc)
      /\ UNCHANGED <<call, n, k, settled, res, sigchld>>
  BY DEF StartRow, MayStart
<1>3. /\ next \in Row /\ next \notin Live /\ Live' = Live \cup {next}
      /\ running' = Cardinality(Live')
  BY <1>1, <1>2, OneMore
<1>4. /\ kids \in [Row -> Pid \cup {NoPid, Junk}] /\ proc \in [Pid -> Processes]
  BY DEF IInv, TypeOK
<1>5. [who |-> next, state |-> "running", as |-> NotEnded] \in Processes
  BY <1>3 DEF Processes
<1>6. kids' \in [Row -> Pid \cup {NoPid, Junk}] /\ proc' \in [Pid -> Processes]
  BY <1>1, <1>4, <1>5
<1>7. TypeOK'
  <2>1. /\ pc' \in {"enter", "fill", "wait", "sweep", "leave", "returned"}
        /\ next' \in 1..(MaxRows + 1) /\ running' \in Nat
    BY <1>0, <1>2
  <2>2. temp' \subseteq Row
    BY <1>1, <1>3 DEF IInv, TypeOK
  <2> QED BY <1>1, <1>2, <1>6, <2>1, <2>2 DEF IInv, TypeOK
<1>8. Progress'
  <2>1. next' <= n' + 1
    BY <1>0, <1>2
  <2>2. CASE call = "command"
    BY <1>0, <1>2, <1>3, <2>1, <2>2 DEF IInv, Progress
  <2>3. CASE call # "command"
    BY <1>0, <1>2, <1>3, <2>1, <2>3 DEF IInv, Progress
  <2> QED BY <2>2, <2>3
<1>9. Counted'
  <2>1. temp' = Live'
    BY <1>1, <1>3 DEF IInv, Counted
  <2>2. \A r \in Row : kids'[r] = Junk <=> r >= next'
    BY <1>0, <1>1, <1>2, <1>3, <1>4, BatchAssumption DEF IInv, Counted, Row
  <2>3. running' <= Limit
    BY <1>0, <1>2
  <2> QED BY <1>3, <2>1, <2>2, <2>3 DEF Counted, Limit
<1>10. Owned'
  <2>1. ASSUME NEW q \in Pid, proc'[q].who # Foreign
        PROVE  kids'[proc'[q].who] = q /\ proc'[q].state # "free"
    <3>1. CASE q = p
      BY <1>1, <1>3, <1>4, <3>1
    <3>2. CASE q # p
      <4>1. proc'[q] = proc[q]
        BY <1>1, <1>4, <3>2
      <4>2. proc[q].who \in Live /\ kids[proc[q].who] = q /\ proc[q].state # "free"
        BY <2>1, <4>1, OwnerIsLive DEF IInv, Owned
      <4>3. proc[q].who # next
        BY <1>3, <4>2
      <4> QED BY <1>1, <1>4, <4>1, <4>2, <4>3
    <3> QED BY <3>1, <3>2
  <2>2. ASSUME NEW r \in Live'
        PROVE  /\ proc'[kids'[r]].who = Foreign => stolen' /\ proc'[kids'[r]].state = "free"
               /\ ~ stolen' => proc'[kids'[r]].who = r
    <3>1. CASE r = next
      <4>1. kids'[r] = p /\ proc'[p].who = next
        BY <1>1, <1>3, <1>4, <3>1
      <4> QED BY <1>0, <3>1, <4>1 DEF Foreign
    <3>2. CASE r # next
      <4>1. r \in Live /\ r \in Row /\ kids'[r] = kids[r] /\ kids[r] \in Pid
        BY <1>1, <1>3, <1>4, <3>2 DEF Live
      <4>2. CASE kids[r] = p
        <5>1. proc[p].who = Foreign
          BY <1>1 DEF IInv, Owned
        <5>2. stolen
          BY <4>1, <4>2, <5>1 DEF IInv, Owned
        <5> QED BY <1>0, <1>1, <1>4, <4>1, <4>2, <5>2 DEF Foreign
      <4>3. CASE kids[r] # p
        BY <1>1, <1>4, <4>1, <4>3 DEF IInv, Owned
      <4> QED BY <4>2, <4>3
    <3> QED BY <3>1, <3>2
  <2> QED BY <2>1, <2>2 DEF Owned
<1>11. Outcomes'
  <2>1. ASSUME NEW q \in Pid, proc'[q].who # Foreign, proc'[q].state = "zombie"
        PROVE  proc'[q].as \in Ending /\ ended'[proc'[q].who] = proc'[q].as
    <3>1. q # p
      BY <1>1, <1>4, <2>1
    <3>2. proc'[q] = proc[q]
      BY <1>1, <1>4, <3>1
    <3> QED BY <1>1, <2>1, <3>2 DEF IInv, Outcomes
  <2>2. ASSUME NEW r \in Row
        PROVE  /\ kids'[r] # NoPid => res'[r] = Unset
               /\ ~ stolen' => (kids'[r] = NoPid =>
                    res'[r] = StartError \/ (ended'[r] \in Ending /\ res'[r] = Exited(ended'[r])))
    <3>1. CASE r = next
      <4>1. kids[r] = Junk /\ Junk # NoPid /\ kids'[r] # NoPid
        BY <1>0, <1>1, <1>3, <1>4, <3>1, BatchAssumption DEF IInv, Counted, Junk, NoPid
      <4> QED BY <1>2, <4>1 DEF IInv, Outcomes
    <3>2. CASE r # next
      BY <1>1, <1>2, <1>4, <3>2 DEF IInv, Outcomes
    <3> QED BY <3>1, <3>2
  <2> QED BY <2>1, <2>2 DEF Outcomes
<1> QED BY <1>7, <1>8, <1>9, <1>10, <1>11 DEF IInv

\* A row that cannot be started has its result and no child.
LEMMA StepNotStarted ==
  ASSUME IInv, NotStarted
  PROVE  IInv'
<1>0. /\ MaxRows \in Nat /\ n \in Nat /\ n <= MaxRows
      /\ next \in Nat /\ next >= 1
      /\ running \in Nat /\ Limit \in Nat /\ Limit >= 1
  BY Rows DEF IInv
<1>1. /\ pc = "fill" /\ next <= n
      /\ kids' = [kids EXCEPT ![next] = NoPid]
      /\ res' = [res EXCEPT ![next] = StartError]
      /\ next' = next + 1
      /\ pc' = (IF call = "command" THEN "leave" ELSE pc)
      /\ UNCHANGED <<call, n, running, k, settled, temp, sigchld, proc, ended, stolen>>
  BY DEF NotStarted, MayStart, kernel
<1>2. next \in Row /\ kids[next] = Junk /\ Junk \notin Pid /\ NoPid \notin Pid /\ NoPid # Junk
  BY <1>0, <1>1, BatchAssumption DEF IInv, Counted, Row, Junk, NoPid
<1>3. /\ kids \in [Row -> Pid \cup {NoPid, Junk}] /\ res \in [Row -> Results]
      /\ StartError \in Results
  BY DEF IInv, TypeOK, Results
<1>4. Live' = Live /\ next \notin Live
  BY <1>1, <1>2, <1>3 DEF Live
<1>5. TypeOK'
  <2>1. kids' \in [Row -> Pid \cup {NoPid, Junk}] /\ res' \in [Row -> Results]
    BY <1>1, <1>3
  <2>2. pc' \in {"enter", "fill", "wait", "sweep", "leave", "returned"} /\ next' \in 1..(MaxRows + 1)
    BY <1>0, <1>1
  <2> QED BY <1>1, <2>1, <2>2 DEF IInv, TypeOK
<1>6. Progress'
  <2>1. CASE call = "command"
    <3>1. next = 1 /\ n = 1
      BY <1>1, <2>1 DEF IInv, Progress
    <3>2. Live = {}
      BY <3>1, NoChildYet DEF IInv
    <3> QED BY <1>0, <1>1, <1>4, <2>1, <3>1, <3>2 DEF IInv, Progress
  <2>2. CASE call # "command"
    BY <1>0, <1>1, <1>4, <2>2 DEF IInv, Progress
  <2> QED BY <2>1, <2>2
<1>7. Counted'
  <2>1. \A r \in Row : kids'[r] = Junk <=> r >= next'
    BY <1>0, <1>1, <1>2, <1>3 DEF IInv, Counted, Row
  <2> QED BY <1>1, <1>4, <2>1 DEF IInv, Counted
<1>8. Owned'
  <2>1. ASSUME NEW q \in Pid, proc[q].who # Foreign
        PROVE  kids'[proc[q].who] = q /\ proc[q].state # "free"
    <3>1. proc[q].who \in Live /\ kids[proc[q].who] = q /\ proc[q].state # "free"
      BY <2>1, OwnerIsLive DEF IInv, Owned
    <3> QED BY <1>1, <1>3, <1>4, <3>1
  <2>2. \A r \in Live : kids'[r] = kids[r]
    BY <1>1, <1>3, <1>4
  <2> QED BY <1>1, <1>4, <2>1, <2>2 DEF IInv, Owned
<1>9. Outcomes'
  BY <1>1, <1>2, <1>3 DEF IInv, Outcomes
<1> QED BY <1>5, <1>6, <1>7, <1>8, <1>9 DEF IInv

-----------------------------------------------------------------------------
(* Settling *)

\* What reaping the child of a live row does to the table, and the result it gives.
LEMMA Reaped ==
  ASSUME IInv, NEW r \in Live, ~ StillRuns(kids[r]), Reap(kids[r]),
         res' = [res EXCEPT ![r] = Result(kids[r])],
         kids' = [kids EXCEPT ![r] = NoPid], running' = running - 1,
         UNCHANGED <<ended, stolen>>, Live' = Live \ {r}
  PROVE  /\ proc' \in [Pid -> Processes] /\ res' \in [Row -> Results]
         /\ Owned' /\ Outcomes'
<1> DEFINE p == kids[r]
<1>0. /\ kids \in [Row -> Pid \cup {NoPid, Junk}] /\ proc \in [Pid -> Processes]
      /\ res \in [Row -> Results] /\ r \in Row /\ p \in Pid /\ NoPid \notin Pid
  BY BatchAssumption DEF IInv, TypeOK, Live
<1>1. proc' = [proc EXCEPT ![p] = Free] /\ Free \in Processes /\ Free.who = Foreign
  BY <1>0 DEF Reap, Free, Processes
<1>2. proc[p].state # "running"
  BY <1>0 DEF StillRuns
<1>3. ~ stolen => proc[p].who = r /\ proc[p].state = "zombie"
  <2>1. ~ stolen => proc[p].who = r
    BY DEF IInv, Owned
  <2>2. r # Foreign
    BY <1>0 DEF Row, Foreign
  <2>3. ~ stolen => proc[p].state # "free"
    BY <1>0, <2>1, <2>2 DEF IInv, Owned
  <2> QED BY <1>0, <1>2, <2>1, <2>3 DEF Processes
<1>4. \A e \in Ending : Exited(e) \in Results
  BY DEF Results
<1>5. ~ stolen => proc[p].as \in Ending /\ ended[r] = proc[p].as /\ Result(p) = Exited(ended[r])
  BY <1>0, <1>3 DEF IInv, Outcomes, Row, Foreign, Result
<1>6. Result(p) \in Results
  <2>1. CASE proc[p].state = "zombie" /\ proc[p].who # Foreign
    BY <1>0, <1>4, <2>1 DEF IInv, Outcomes, Result
  <2>2. CASE proc[p].who = Foreign
    <3>1. proc[p].state = "free"
      BY <2>2 DEF IInv, Owned
    <3> QED BY <3>1 DEF Result, Results
  <2>3. CASE proc[p].state # "zombie"
    BY <2>3 DEF Result, Results
  <2> QED BY <2>1, <2>2, <2>3
<1>7. Owned'
  <2>1. ASSUME NEW q \in Pid, proc'[q].who # Foreign
        PROVE  kids'[proc'[q].who] = q /\ proc'[q].state # "free"
    <3>1. q # p /\ proc'[q] = proc[q]
      BY <1>0, <1>1, <2>1
    <3>2. proc[q].who \in Live /\ kids[proc[q].who] = q /\ proc[q].state # "free"
      BY <2>1, <3>1, OwnerIsLive DEF IInv, Owned
    <3>3. proc[q].who # r
      BY <3>1, <3>2
    <3> QED BY <1>0, <3>1, <3>2, <3>3
  <2>2. ASSUME NEW s \in Live'
        PROVE  /\ proc'[kids'[s]].who = Foreign => stolen' /\ proc'[kids'[s]].state = "free"
               /\ ~ stolen' => proc'[kids'[s]].who = s
    <3>1. s \in Live /\ s # r /\ kids'[s] = kids[s] /\ kids[s] \in Pid
      BY <1>0 DEF Live
    <3>2. CASE kids[s] = p
      <4>1. stolen
        BY <3>1, <3>2 DEF IInv, Owned
      <4> QED BY <1>0, <1>1, <3>1, <3>2, <4>1 DEF Free
    <3>3. CASE kids[s] # p
      BY <1>0, <1>1, <3>1, <3>3 DEF IInv, Owned
    <3> QED BY <3>2, <3>3
  <2> QED BY <2>1, <2>2 DEF Owned
<1>8. Outcomes'
  <2>1. ASSUME NEW q \in Pid, proc'[q].who # Foreign, proc'[q].state = "zombie"
        PROVE  proc'[q].as \in Ending /\ ended'[proc'[q].who] = proc'[q].as
    <3>1. q # p /\ proc'[q] = proc[q]
      BY <1>0, <1>1, <2>1
    <3> QED BY <2>1, <3>1 DEF IInv, Outcomes
  <2>2. ASSUME NEW s \in Row
        PROVE  /\ kids'[s] # NoPid => res'[s] = Unset
               /\ ~ stolen' => (kids'[s] = NoPid =>
                    res'[s] = StartError \/ (ended'[s] \in Ending /\ res'[s] = Exited(ended'[s])))
    <3>1. CASE s = r
      BY <1>0, <1>5, <3>1
    <3>2. CASE s # r
      BY <1>0, <3>2 DEF IInv, Outcomes
    <3> QED BY <3>1, <3>2
  <2> QED BY <2>1, <2>2 DEF Outcomes
<1>9. proc' \in [Pid -> Processes] /\ res' \in [Row -> Results]
  BY <1>0, <1>1, <1>6
<1> QED BY <1>7, <1>8, <1>9

\* A child that has ended is reaped, by the sweep or by runCommand's wait.
LEMMA StepSettles ==
  ASSUME IInv, SweepSettles \/ Wait
  PROVE  IInv'
<1>0. /\ MaxRows \in Nat /\ n \in Nat /\ n <= MaxRows
      /\ next \in Nat /\ next >= 1 /\ k \in Nat /\ k >= 1
      /\ running \in Nat /\ Limit \in Nat /\ Limit >= 1
  BY Rows DEF IInv
<1>1. PICK r \in Live :
        /\ ~ StillRuns(kids[r]) /\ Reap(kids[r])
        /\ res' = [res EXCEPT ![r] = Result(kids[r])] /\ temp' = temp \ {r}
        /\ kids' = [kids EXCEPT ![r] = NoPid]
        /\ (pc = "sweep" /\ k = r) \/ (pc = "wait" /\ r = 1)
  <2>1. CASE SweepSettles
    <3>1. k < next /\ kids[k] # NoPid /\ next <= n + 1
      BY <2>1 DEF IInv, Progress, SweepSettles
    <3>2. k \in Live
      BY <3>1, SweptRow
    <3> QED BY <2>1, <3>2 DEF SweepSettles, Settle
  <2>2. CASE Wait
    <3>1. 1 \in Live
      BY <2>2 DEF IInv, Progress, Wait
    <3> QED BY <2>2, <3>1 DEF Wait, Settle
  <2> QED BY <2>1, <2>2
<1>2. /\ UNCHANGED <<call, n, next, sigchld, ended, stolen>>
      /\ running' = running - 1
      /\ pc = "sweep" => k < next /\ pc' = pc /\ k' = k + 1 /\ settled' = settled + 1
      /\ pc = "wait" => pc' = "leave" /\ UNCHANGED <<k, settled>>
  BY DEF SweepSettles, Wait
<1>3. /\ running >= 1 /\ running' \in Nat /\ Live' = Live \ {r} /\ running' = Cardinality(Live')
  BY <1>1, <1>2, OneLess
<1>4. /\ proc' \in [Pid -> Processes] /\ res' \in [Row -> Results] /\ Owned' /\ Outcomes'
  BY <1>1, <1>2, <1>3, Reaped
<1>5. /\ kids \in [Row -> Pid \cup {NoPid, Junk}] /\ r \in Row /\ kids[r] \in Pid
      /\ Junk \notin Pid /\ NoPid # Junk
  BY BatchAssumption DEF IInv, TypeOK, Live, NoPid, Junk
<1>6. TypeOK'
  <2>1. /\ pc' \in {"enter", "fill", "wait", "sweep", "leave", "returned"}
        /\ k' \in 1..(MaxRows + 1) /\ settled' \in Nat
    BY <1>0, <1>1, <1>2 DEF IInv, TypeOK, Progress
  <2>2. temp' \subseteq Row /\ kids' \in [Row -> Pid \cup {NoPid, Junk}]
    BY <1>1, <1>5 DEF IInv, TypeOK
  <2> QED BY <1>2, <1>3, <1>4, <2>1, <2>2 DEF IInv, TypeOK
<1>7. Progress'
  <2>1. CASE pc = "sweep"
    BY <1>0, <1>2, <2>1 DEF IInv, Progress
  <2>2. CASE pc = "wait"
    <3>1. Live' = {}
      <4>1. \A s \in Row : s # 1 => s >= next
        BY <2>2 DEF IInv, Progress, Row
      <4>2. Live \subseteq {1}
        BY <1>5, <4>1 DEF IInv, Counted, Live
      <4> QED BY <1>1, <1>3, <2>2, <4>2
    <3> QED BY <1>0, <1>2, <2>2, <3>1 DEF IInv, Progress
  <2> QED BY <1>1, <2>1, <2>2
<1>8. Counted'
  <2>1. \A s \in Row : kids'[s] = Junk <=> s >= next'
    BY <1>1, <1>2, <1>5 DEF IInv, Counted
  <2>2. running' <= Limit
    BY <1>0, <1>2 DEF IInv, Counted
  <2>3. temp' = Live'
    BY <1>1, <1>3 DEF IInv, Counted
  <2> QED BY <1>3, <2>1, <2>2, <2>3 DEF Counted, Limit
<1> QED BY <1>4, <1>6, <1>7, <1>8 DEF IInv

-----------------------------------------------------------------------------
(* The kernel's steps *)

\* A child ends: while the call has children SIGCHLD is at its default, so it
\* stays in the table as a zombie.
LEMMA StepEnds ==
  ASSUME IInv, NEW p \in Pid, Ends(p)
  PROVE  IInv'
<1>1. PICK e \in Ending :
        /\ proc[p].state = "running"
        /\ proc' = [proc EXCEPT ![p] = IF sigchld = "ignored" THEN Free
                                       ELSE [@ EXCEPT !.state = "zombie", !.as = e]]
        /\ ended' = [r \in Row |-> IF r = proc[p].who THEN e ELSE ended[r]]
        /\ UNCHANGED <<call, n, pc, next, running, kids, k, settled, res, temp, sigchld, stolen>>
  BY DEF Ends
<1>2. /\ proc \in [Pid -> Processes] /\ ended \in [Row -> Ending \cup {NotEnded}]
      /\ proc[p] \in Processes
  BY DEF IInv, TypeOK
<1>3. Live' = Live
  BY <1>1 DEF Live
<1>4. ended' \in [Row -> Ending \cup {NotEnded}]
  BY <1>1, <1>2
<1>5. ASSUME proc[p].who # Foreign
      PROVE  sigchld = "default"
  <2>1. proc[p].who \in Live
    BY <1>5, OwnerIsLive DEF IInv
  <2>2. pc # "enter" /\ pc # "returned"
    <3>1. pc = "returned" => Live = {}
      BY DEF IInv, Progress
    <3>2. pc = "enter" => Live = {}
      BY NoChildYet DEF IInv, Progress
    <3> QED BY <2>1, <3>1, <3>2
  <2> QED BY <2>2 DEF IInv, Progress
<1>6. CASE proc[p].who = Foreign
  <2>1. proc'[p] \in Processes /\ proc'[p].who = Foreign
    BY <1>1, <1>2, <1>6 DEF Free, Processes
  <2>2. proc' \in [Pid -> Processes] /\ \A q \in Pid : q # p => proc'[q] = proc[q]
    BY <1>1, <1>2, <2>1
  <2>3. \A r \in Row : ended'[r] = ended[r]
    BY <1>1, <1>2, <1>6 DEF Row, Foreign
  <2>4. ended' = ended
    BY <1>1, <1>2, <2>3
  <2>5. TypeOK' /\ Progress' /\ Counted'
    BY <1>1, <1>3, <1>4, <2>2 DEF IInv, TypeOK, Progress, Counted
  <2>6. \A r \in Live : kids[r] # p
    BY <1>1, <1>6 DEF IInv, Owned
  <2>7. Owned'
    <3>1. \A q \in Pid : proc'[q].who # Foreign => proc'[q] = proc[q]
      BY <2>1, <2>2
    <3>2. \A r \in Live : proc'[kids[r]] = proc[kids[r]]
      BY <2>2, <2>6 DEF Live
    <3> QED BY <1>1, <1>3, <3>1, <3>2 DEF IInv, Owned
  <2>8. Outcomes'
    BY <1>1, <2>1, <2>2, <2>4 DEF IInv, Outcomes
  <2> QED BY <2>5, <2>7, <2>8 DEF IInv
<1>7. CASE proc[p].who # Foreign
  <2>1. proc' = [proc EXCEPT ![p] = [@ EXCEPT !.state = "zombie", !.as = e]]
    BY <1>1, <1>5, <1>7
  <2>2. /\ proc'[p].who = proc[p].who /\ proc'[p].state = "zombie" /\ proc'[p].as = e
        /\ proc'[p] \in Processes
    BY <1>2, <2>1 DEF Processes
  <2>3. proc' \in [Pid -> Processes] /\ \A q \in Pid : q # p => proc'[q] = proc[q]
    BY <1>2, <2>1, <2>2
  <2>4. TypeOK' /\ Progress' /\ Counted'
    BY <1>1, <1>3, <1>4, <2>3 DEF IInv, TypeOK, Progress, Counted
  <2>5. \A q \in Pid : proc'[q].who = proc[q].who
    BY <2>2, <2>3
  <2>6. proc[p].who \in Live /\ kids[proc[p].who] = p /\ proc[p].who \in Row
    BY <1>7, OwnerIsLive DEF IInv, Live
  <2>7. Owned'
    <3>1. \A q \in Pid : proc'[q].who # Foreign => kids'[proc'[q].who] = q /\ proc'[q].state # "free"
      BY <1>1, <2>2, <2>3, <2>5 DEF IInv, Owned
    <3>2. \A r \in Live : proc'[kids[r]].who = Foreign => stolen /\ proc'[kids[r]].state = "free"
      BY <1>7, <2>2, <2>3 DEF IInv, Owned, Live
    <3>3. ~ stolen => \A r \in Live : proc'[kids[r]].who = r
      BY <2>5 DEF IInv, Owned, Live
    <3> QED BY <1>1, <1>3, <3>1, <3>2, <3>3 DEF Owned
  <2>8. Outcomes'
    <3>1. ASSUME NEW q \in Pid, proc'[q].who # Foreign, proc'[q].state = "zombie"
          PROVE  proc'[q].as \in Ending /\ ended'[proc'[q].who] = proc'[q].as
      <4>1. CASE q = p
        BY <1>1, <2>2, <2>6, <4>1
      <4>2. CASE q # p
        <5>1. proc'[q] = proc[q] /\ proc[q].who \in Row /\ kids[proc[q].who] = q
          BY <2>3, <3>1, <4>2, OwnerIsLive DEF IInv, Live
        <5>2. proc[q].who # proc[p].who
          BY <2>6, <4>2, <5>1
        <5>3. ended'[proc[q].who] = ended[proc[q].who]
          BY <1>1, <5>1, <5>2
        <5> QED BY <3>1, <5>1, <5>3 DEF IInv, Outcomes
      <4> QED BY <4>1, <4>2
    <3>2. ASSUME NEW r \in Row, kids[r] = NoPid
          PROVE  ended'[r] = ended[r]
      <4>1. r # proc[p].who
        BY <2>6, <3>2, BatchAssumption
      <4> QED BY <1>1, <4>1
    <3> QED BY <1>1, <3>1, <3>2 DEF IInv, Outcomes
  <2> QED BY <2>4, <2>7, <2>8 DEF IInv
<1> QED BY <1>6, <1>7

\* A zombie leaves the table by somebody else's hand.
LEMMA StepTaken ==
  ASSUME IInv, NEW p \in Pid, OwnerReaps(p) \/ Stolen(p)
  PROVE  IInv'
<1>1. /\ proc[p].state = "zombie" /\ proc' = [proc EXCEPT ![p] = Free]
      /\ UNCHANGED <<call, n, pc, next, running, kids, k, settled, res, temp, sigchld, ended>>
      /\ stolen' \in BOOLEAN /\ (stolen => stolen') /\ (proc[p].who # Foreign => stolen')
  BY DEF OwnerReaps, Stolen, IInv, TypeOK
<1>2. proc \in [Pid -> Processes] /\ Free \in Processes
  BY DEF IInv, TypeOK, Free, Processes
<1>3. /\ proc' \in [Pid -> Processes] /\ proc'[p] = Free
      /\ \A q \in Pid : q # p => proc'[q] = proc[q]
  BY <1>1, <1>2
<1>4. Live' = Live
  BY <1>1 DEF Live
<1>5. TypeOK' /\ Progress' /\ Counted'
  BY <1>1, <1>3, <1>4 DEF IInv, TypeOK, Progress, Counted
<1>6. Owned'
  <2>1. \A q \in Pid : proc'[q].who # Foreign => proc'[q] = proc[q]
    BY <1>3 DEF Free
  <2>2. ASSUME NEW r \in Live
        PROVE  /\ proc'[kids[r]].who = Foreign => stolen' /\ proc'[kids[r]].state = "free"
               /\ ~ stolen' => proc'[kids[r]].who = r
    <3>1. CASE kids[r] = p
      <4>1. proc[p].who # Foreign
        BY <1>1, <3>1 DEF IInv, Owned
      <4> QED BY <1>1, <1>3, <3>1, <4>1 DEF Free
    <3>2. CASE kids[r] # p
      BY <1>1, <1>3, <3>2 DEF IInv, Owned, Live
    <3> QED BY <3>1, <3>2
  <2> QED BY <1>1, <1>4, <2>1, <2>2 DEF IInv, Owned
<1>7. Outcomes'
  BY <1>1, <1>3 DEF IInv, Outcomes, Free
<1> QED BY <1>5, <1>6, <1>7 DEF IInv

-----------------------------------------------------------------------------
(* The invariant and what follows from it *)

LEMMA InitIInv == Init => IInv
<1> SUFFICES ASSUME Init PROVE IInv
  OBVIOUS
<1>1. \A p \in Pid : proc[p].who = Foreign /\ proc[p] \in Processes
  BY DEF Init, Free, Processes
<1>2. proc \in [Pid -> Processes]
  BY <1>1 DEF Init
<1>3. n \in 0..MaxRows
  BY BatchAssumption DEF Init
<1>4. kids \in [Row -> Pid \cup {NoPid, Junk}] /\ res \in [Row -> Results]
  BY DEF Init, Results
<1>5. Live = {} /\ \A r \in Row : kids[r] = Junk
  BY BatchAssumption DEF Init, Live
<1>6. TypeOK
  <2>1. next \in 1..(MaxRows + 1) /\ k \in 1..(MaxRows + 1) /\ running \in Nat /\ settled \in Nat
    BY BatchAssumption DEF Init
  <2>2. ended \in [Row -> Ending \cup {NotEnded}] /\ temp \subseteq Row
    BY DEF Init
  <2> QED BY <1>2, <1>3, <1>4, <2>1, <2>2, BatchAssumption DEF Init, TypeOK
<1>7. Progress
  BY <1>3, BatchAssumption DEF Init, Progress
<1>8. Counted
  BY <1>5, FS_EmptySet, BatchAssumption DEF Init, Counted, Limit, Row
<1>9. Owned
  BY <1>1, <1>5 DEF Owned
<1>10. Outcomes
  <2>1. \A r \in Row : res[r] = Unset /\ kids[r] # NoPid
    BY <1>5 DEF Init, NoPid, Junk
  <2> QED BY <1>1, <2>1 DEF Outcomes
<1> QED BY <1>6, <1>7, <1>8, <1>9, <1>10 DEF IInv

LEMMA NextIInv == IInv /\ [Next]_vars => IInv'
<1> SUFFICES ASSUME IInv, [Next]_vars PROVE IInv'
  OBVIOUS
<1>1. CASE UNCHANGED vars
  <2>1. Counted' /\ Owned' /\ Outcomes' /\ Live' = Live
    BY <1>1, Unmoved DEF IInv, vars
  <2> QED BY <1>1, <2>1 DEF IInv, vars, TypeOK, Progress
<1>2. CASE Enter \/ StartLater \/ Filled \/ SweepPasses \/ SweepEnds \/ Leave
  BY <1>2, StepMoves
<1>3. CASE StartRow
  BY <1>3, StepStarts
<1>4. CASE NotStarted
  BY <1>4, StepNotStarted
<1>5. CASE SweepSettles \/ Wait
  BY <1>5, StepSettles
<1>6. ASSUME NEW p \in Pid, Ends(p)
      PROVE  IInv'
  BY <1>6, StepEnds
<1>7. ASSUME NEW p \in Pid, OwnerReaps(p) \/ Stolen(p)
      PROVE  IInv'
  BY <1>7, StepTaken
<1> QED BY <1>1, <1>2, <1>3, <1>4, <1>5, <1>6, <1>7 DEF Next, Caller, Terminated

LEMMA Invariance == Spec => []IInv
BY InitIInv, NextIInv, PTL DEF Spec

(* The variables keep their types, the running count and the row pointer     *)
(* included, for every number of rows, jobs and pids.                        *)
THEOREM TypeCorrect == Spec => []TypeOK
<1>1. IInv => TypeOK
  BY DEF IInv
<1> QED BY <1>1, Invariance, PTL

\* The children in the table and the live rows count the same.
LEMMA ChildrenCounted == IInv => JobsAreLimited
<1> SUFFICES ASSUME IInv PROVE JobsAreLimited
  OBVIOUS
<1> DEFINE Mine == {p \in Pid : OfThisCall(p)}
           f == [p \in Mine |-> proc[p].who]
<1>1. IsFiniteSet(Live) /\ running = Cardinality(Live) /\ running <= Limit
  BY LiveFinite DEF IInv, Counted
<1>2. \A p \in Mine : proc[p].who \in Live /\ kids[proc[p].who] = p
  BY OwnerIsLive DEF IInv, OfThisCall
<1>3. f \in Injection(Mine, Live)
  <2>1. f \in [Mine -> Live]
    BY <1>2
  <2>2. \A p, q \in Mine : f[p] = f[q] => p = q
    BY <1>2
  <2> HIDE DEF Mine, f
  <2> QED BY <2>1, <2>2 DEF Injection, IsInjective
<1>4. /\ IsFiniteSet(Mine) /\ Cardinality(Mine) <= Cardinality(Live)
      /\ Cardinality(Mine) = Cardinality(Live) <=> f \in Surjection(Mine, Live)
  BY <1>1, <1>3, FS_Injection
<1>5. ASSUME ~ stolen
      PROVE  f \in Surjection(Mine, Live)
  <2>1. ASSUME NEW r \in Live
        PROVE  kids[r] \in Mine /\ f[kids[r]] = r
    <3>1. proc[kids[r]].who = r /\ kids[r] \in Pid /\ r \in Row
      BY <1>5, <2>1 DEF IInv, Owned, Live
    <3> QED BY <3>1 DEF OfThisCall, Row, Foreign
  <2> QED BY <1>2, <2>1 DEF Surjection
<1>6. Cardinality(Mine) \in Nat /\ running \in Nat /\ Limit \in Nat
  BY <1>4, FS_CardinalityType, Rows DEF IInv
<1>7. Cardinality(Mine) <= Limit /\ (~ stolen => running = Cardinality(Mine))
  BY <1>1, <1>4, <1>5, <1>6
<1> QED BY <1>7 DEF JobsAreLimited

(* At most jobs children at a time, and the count the loop runs on is the    *)
(* number of children in the kernel's table, for any number of rows, jobs    *)
(* and pids, however pids are given out again.                               *)
THEOREM JobsAreLimitedAlways == Spec => []JobsAreLimited
BY ChildrenCounted, Invariance, PTL

LEMMA OwnResults == IInv => ResultsAreOwn
<1> SUFFICES ASSUME IInv, ~ stolen, NEW r \in Row
             PROVE  /\ res[r].kind = "exited" => ended[r] \in Ending /\ res[r] = Exited(ended[r])
                    /\ res[r].kind # "waitFailed"
                    /\ pc = "returned" /\ r <= n => res[r] # Unset
  BY DEF ResultsAreOwn
<1>1. CASE kids[r] # NoPid
  <2>1. res[r] = Unset
    BY <1>1 DEF IInv, Outcomes
  <2>2. ~ (pc = "returned" /\ r <= n)
    <3>1. kids[r] \in Pid \cup {Junk}
      BY <1>1 DEF IInv, TypeOK
    <3>2. r \in Live \/ r >= next
      BY <3>1 DEF IInv, Counted, Live
    <3> QED BY <3>2, Rows DEF IInv, Progress, Row
  <2> QED BY <2>1, <2>2 DEF Unset
<1>2. CASE kids[r] = NoPid
  <2>1. res[r] = StartError \/ (ended[r] \in Ending /\ res[r] = Exited(ended[r]))
    BY <1>2 DEF IInv, Outcomes
  <2>2. CASE res[r] = StartError
    <3>1. res[r].kind = "unstarted" /\ Unset.kind = "unset"
      BY <2>2 DEF StartError, Unset
    <3> QED BY <3>1
  <2>3. CASE ended[r] \in Ending /\ res[r] = Exited(ended[r])
    <3>1. res[r].kind = "exited" /\ Unset.kind = "unset"
      BY <2>3 DEF Exited, Unset
    <3> QED BY <2>3, <3>1
  <2> QED BY <2>1, <2>2, <2>3
<1> QED BY <1>1, <1>2

(* Every result belongs to its row: the status that row's own child ended    *)
(* with, or the error that kept it from starting, and none is missing when   *)
(* the call returns; as long as no other part of the program takes one of    *)
(* the statuses.                                                             *)
THEOREM ResultsAreOwnAlways == Spec => []ResultsAreOwn
BY OwnResults, Invariance, PTL

LEMMA LeavesNothing == IInv => NothingLeftBehind
<1> SUFFICES ASSUME IInv, pc = "returned"
             PROVE  (\A p \in Pid : ~ OfThisCall(p)) /\ temp = {} /\ sigchld = Inherited
  BY DEF NothingLeftBehind
<1>1. Live = {}
  BY DEF IInv, Progress
<1>2. \A p \in Pid : ~ OfThisCall(p)
  BY <1>1, OwnerIsLive DEF IInv, OfThisCall
<1> QED BY <1>1, <1>2 DEF IInv, Progress, Counted

(* When the call returns no child of its own is left in the table, none of   *)
(* its files, and SIGCHLD is as it was, also when statuses were stolen.      *)
THEOREM NothingLeftBehindAlways == Spec => []NothingLeftBehind
BY LeavesNothing, Invariance, PTL

LEMMA KeepsForeign ==
  ASSUME IInv, Caller, NEW p \in Pid, proc[p].who = Foreign, proc[p].state = "zombie"
  PROVE  proc'[p] = proc[p]
<1>1. proc \in [Pid -> Processes]
  BY DEF IInv, TypeOK
<1>2. CASE StartRow
  BY <1>1, <1>2 DEF StartRow, Forks
<1>3. ASSUME NEW r \in Live, Reap(kids[r])
      PROVE  proc'[p] = proc[p]
  <2>1. kids[r] # p
    BY <1>3 DEF IInv, Owned
  <2> QED BY <1>1, <1>3, <2>1 DEF Reap
<1>4. CASE SweepSettles
  <2>1. k < next /\ kids[k] # NoPid /\ next <= n + 1 /\ Reap(kids[k])
    BY <1>4 DEF IInv, Progress, SweepSettles
  <2>2. k \in Live
    BY <2>1, SweptRow
  <2> QED BY <1>3, <2>1, <2>2
<1>5. CASE Wait
  <2>1. 1 \in Live /\ Reap(kids[1])
    BY <1>5 DEF IInv, Progress, Wait
  <2> QED BY <1>3, <2>1
<1>6. CASE Enter \/ NotStarted \/ StartLater \/ Filled \/ SweepPasses \/ SweepEnds \/ Leave
  BY <1>6 DEF Enter, NotStarted, StartLater, Filled, SweepPasses, SweepEnds, Leave, kernel
<1> QED BY <1>2, <1>4, <1>5, <1>6 DEF Caller

(* No step of the call takes the status of a child it did not start, also    *)
(* after one of its own statuses was stolen and the pid is free again.       *)
THEOREM ForeignStatusKeptAlways == Spec => ForeignStatusKept
<1>1. ASSUME IInv, [Next]_vars
      PROVE  [ \A p \in Pid : proc[p].who = Foreign /\ proc[p].state = "zombie" /\ Caller
                 => proc'[p] = proc[p] ]_vars
  BY <1>1, KeepsForeign
<1> QED BY <1>1, Invariance, PTL DEF Spec, ForeignStatusKept
=============================================================================
