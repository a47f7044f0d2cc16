-------------------------- MODULE CompilationProofs --------------------------
(***************************************************************************)
(* Proofs about Compilation for every set of turns, every planner and      *)
(* classifier, and every bound on attempts and crashes, and about the      *)
(* graphs that CompiledGraphs saves, for proposals of any size.            *)
(***************************************************************************)
EXTENDS CompiledGraphs, Induction, FiniteSetTheorems, TLAPS

Open == {"active", "closed"}
Undecided == {"idle", "opening", "planning", "accepted", "rejecting", "failed"}

(* What the place of a turn says about its goal ...                        *)
Bound ==
  \A t \in Turn :
    /\ phase[t] # "idle" => action[t] \in Action /\ target[t] \in Turn
    /\ action[t] = "new" => target[t] = t
    /\ phase[t] \in {"idle", "opening"} => goal[t].status = "absent"
    /\ phase[t] # "idle" /\ action[t] # "new" => goal[target[t]].status \in Open
    /\ phase[t] = "updating" /\ action[t] # "new" => copy[t].graph = target[t]
    /\ phase[t] = "done" => goal[target[t]].status \in Open

(* ... and about what it has written.                                      *)
Written ==
  \A t \in Turn :
    /\ phase[t] \in {"opening", "planning", "accepted", "rejecting", "graphed"} => action[t] # "close"
    /\ phase[t] \in {"idle", "opening"} => tries[t] = 0
    /\ phase[t] = "planning" => tries[t] < MaxAttempts
    /\ phase[t] = "accepted" => accepted[t] # None
    /\ phase[t] \in Undecided => taskGraph[t] = None /\ \A g \in Turn : <<t, g>> \notin supports
    /\ phase[t] \in {"graphed", "loading", "updating", "done"} /\ action[t] # "close" =>
         taskGraph[t] # None
    /\ phase[t] \in {"loading", "updating", "done"} /\ action[t] # "close" =>
         <<t, target[t]>> \in supports
    /\ t \in failures => phase[t] = "failed"

IInv == TypeOK /\ Bound /\ Written /\ ActiveGoalIsBacked

USE DEF GoTo, store, locals

LEMMA InitInv == Init => IInv
<1> SUFFICES ASSUME Init PROVE IInv
  OBVIOUS
<1>1. TypeOK
  BY AttemptsAssumption
  DEF Init, TypeOK, NoGoal, GoalRow, Status, Phase
<1>2. Bound /\ Written /\ ActiveGoalIsBacked
  BY TurnAssumption, AttemptsAssumption
  DEF Init, Bound, Written, ActiveGoalIsBacked, NoGoal, Undecided
<1>3. QED
  BY <1>1, <1>2 DEF IInv

(* What a turn writes back to its goal.                                    *)
LEMMA RevisedFacts ==
  ASSUME TypeOK, Bound, NEW t \in Turn, phase[t] = "updating"
  PROVE  /\ Revised(t) \in GoalRow
         /\ Revised(t).status \in Open
         /\ Revised(t).graph = target[t]
<1> DEFINE c == copy[t]
<1>1. c \in GoalRow /\ seen[t] \in Seq(Turn) /\ <<t>> \in Seq(Turn) /\ Append(c.text, t) \in Seq(Turn)
  BY DEF TypeOK, GoalRow
<1>2. action[t] \in Action /\ target[t] \in Turn
  BY DEF Bound
<1>3. CASE action[t] = "new"
  <2>1. Revised(t) = [c EXCEPT !.status = "active", !.text = <<t>>, !.graph = t]
    BY <1>3 DEF Revised
  <2>2. target[t] = t
    BY <1>3 DEF Bound
  <2>3. QED
    BY <1>1, <2>1, <2>2 DEF GoalRow, Status, Open
<1>4. CASE action[t] # "new"
  <2>1. c.graph = target[t]
    BY <1>4 DEF Bound
  <2>2. \/ Revised(t) = [c EXCEPT !.status = "active", !.text = seen[t]]
        \/ Revised(t) = [c EXCEPT !.status = "active", !.text = <<t>>]
        \/ Revised(t) = [c EXCEPT !.status = "active", !.text = Append(c.text, t)]
        \/ Revised(t) = [c EXCEPT !.status = "closed"]
    BY <1>2, <1>4 DEF Revised, Action
  <2>3. QED
    BY <1>1, <2>1, <2>2 DEF GoalRow, Status, Open
<1>5. QED
  BY <1>3, <1>4

(* Every step keeps the invariant.                                         *)
LEMMA StepInv ==
  ASSUME IInv, [Next]_vars
  PROVE  IInv'
<1> USE DEF IInv
<1>1. ASSUME NEW t \in Turn, NEW a \in Action, NEW g \in Turn \cup {None}, Classify(t, a, g)
      PROVE  IInv'
  <2>1. a # "new" => g \in Turn /\ goal[g].status = "active"
    BY <1>1 DEF Classify, Latest, ActiveGoals
  <2>2. Len(log) \in Nat
    BY DEF TypeOK
  <2>3. TypeOK'
    BY <1>1, <2>1, <2>2 DEF Classify, TypeOK, Phase, GoalRow
  <2>4. Bound'
    BY <1>1, <2>1 DEF Classify, TypeOK, Bound, Open, Action
  <2>5. Written'
    <3>1. /\ phase' = [phase EXCEPT ![t] = phase'[t]]
          /\ phase'[t] \in {"opening", "planning", "loading"}
          /\ a # "close" <=> phase'[t] # "loading"
      BY <1>1 DEF Classify, TypeOK, Action
    <3>2. taskGraph[t] = None /\ tries[t] = 0 /\ t \notin failures /\ \A h \in Turn : <<t, h>> \notin supports
      BY <1>1 DEF Classify, Written, Undecided
    <3>3. action'[t] = a /\ \A u \in Turn \ {t} : action'[u] = action[u] /\ target'[u] = target[u]
      BY <1>1 DEF Classify, TypeOK
    <3>4. UNCHANGED <<tries, accepted, taskGraph, supports, failures>>
      BY <1>1 DEF Classify
    <3>5. QED
      <4>1. phase'[t] = "planning" => tries'[t] < MaxAttempts
        BY <3>2, <3>4, AttemptsAssumption
      <4>2. phase'[t] = "opening" => tries'[t] = 0
        BY <3>2, <3>4
      <4>3. \A u \in Turn \ {t} : phase'[u] = phase[u]
        BY <3>1 DEF TypeOK
      <4>4. QED
        BY <3>1, <3>2, <3>3, <3>4, <4>1, <4>2, <4>3 DEF Written, Undecided
  <2>6. ActiveGoalIsBacked'
    BY <1>1 DEF Classify, ActiveGoalIsBacked
  <2>7. QED
    BY <2>3, <2>4, <2>5, <2>6
<1>2. ASSUME NEW t \in Turn, OpenGoal(t) PROVE IInv'
  <2>1. TypeOK'
    BY <1>2 DEF OpenGoal, TypeOK, Phase, GoalRow, Status
  <2>2. Bound'
    BY <1>2 DEF OpenGoal, TypeOK, Bound, Open, Written
  <2>3. Written' /\ ActiveGoalIsBacked'
    BY <1>2, AttemptsAssumption DEF OpenGoal, TypeOK, Bound, Written, ActiveGoalIsBacked, Undecided, Open
  <2>4. QED
    BY <2>1, <2>2, <2>3
<1>3. ASSUME NEW t \in Turn, NEW reply \in Reply[t], AskPlanner(t, reply) PROVE IInv'
  <2>1. TypeOK'
    <3>1. tries' \in [Turn -> 0..MaxAttempts]
      <4>1. tries' = [tries EXCEPT ![t] = tries[t] + 1] /\ phase[t] = "planning"
        BY <1>3 DEF AskPlanner
      <4>2. tries[t] + 1 \in 0..MaxAttempts
        <5>1. tries[t] \in 0..MaxAttempts /\ tries[t] < MaxAttempts
          BY <4>1 DEF TypeOK, Written
        <5>2. QED
          BY <5>1, AttemptsAssumption
      <4>3. QED
        BY <4>1, <4>2 DEF TypeOK
    <3>2. accepted' \in [Turn -> {r \in Replies : Valid(r)} \cup {None}]
      <4>1. CASE Valid(reply)
        <5>1. accepted' = [accepted EXCEPT ![t] = reply]
          BY <1>3, <4>1 DEF AskPlanner
        <5>2. reply \in {r \in Replies : Valid(r)}
          BY <4>1, <1>3 DEF Replies
        <5>3. QED
          BY <5>1, <5>2 DEF TypeOK
      <4>2. CASE ~Valid(reply)
        BY <1>3, <4>2 DEF AskPlanner, TypeOK
      <4>3. QED
        BY <4>1, <4>2
    <3>3. phase' \in [Turn -> Phase]
      <4>1. \E p \in Phase : phase' = [phase EXCEPT ![t] = p]
        BY <1>3 DEF AskPlanner, Phase
      <4>2. QED
        BY <4>1 DEF TypeOK
    <3>4. UNCHANGED <<goal, action, target, seen, copy, taskGraph, supports, failures, crashes, since, log>>
      BY <1>3 DEF AskPlanner
    <3>5. QED
      BY <3>1, <3>2, <3>3, <3>4 DEF TypeOK
  <2>2. Bound' /\ ActiveGoalIsBacked'
    BY <1>3 DEF AskPlanner, TypeOK, Bound, ActiveGoalIsBacked
  <2>3. Written'
    BY <1>3, ReplyAssumption, AttemptsAssumption DEF AskPlanner, TypeOK, Written, Undecided
  <2>4. QED
    BY <2>1, <2>2, <2>3
<1>4. ASSUME NEW t \in Turn, PlannerRaises(t) \/ RecordFailure(t) \/ Crash(t) PROVE IInv'
  <2> USE DEF PlannerRaises, RecordFailure, Crash, InFlight
  <2>1. TypeOK'
    <3>1. phase' \in [Turn -> Phase] /\ failures' \subseteq Turn
      BY <1>4 DEF TypeOK, Phase
    <3>2. crashes' \in 0..MaxCrashes
      BY <1>4, AttemptsAssumption DEF TypeOK
    <3>3. QED
      BY <1>4, <3>1, <3>2 DEF TypeOK
  <2>2. UNCHANGED <<goal, action, target, copy, taskGraph, supports, tries, accepted>>
    BY <1>4
  <2>3. /\ phase[t] \notin {"idle", "done"}
        /\ phase'[t] \in {"failed", "dead"}
        /\ \A u \in Turn \ {t} : phase'[u] = phase[u]
    BY <1>4 DEF TypeOK
  <2>4. Bound'
    <3>1. action[t] \in Action /\ target[t] \in Turn /\ (action[t] # "new" => goal[target[t]].status \in Open)
      BY <2>3 DEF Bound
    <3>2. \A u \in Turn : phase'[u] # phase[u] => u = t
      BY <2>3
    <3>3. QED
      BY <2>2, <2>3, <3>1, <3>2 DEF Bound
  <2>5. ActiveGoalIsBacked'
    BY <2>2 DEF ActiveGoalIsBacked
  <2>6. Written'
    <3>1. t \in failures' => phase'[t] = "failed"
      BY <1>4, <2>3 DEF TypeOK, Written
    <3>2. \A u \in Turn \ {t} : u \in failures' <=> u \in failures
      BY <1>4
    <3>3. phase'[t] \in Undecided => phase[t] \in Undecided
      BY <1>4, <2>3 DEF TypeOK, Undecided
    <3>4. QED
      BY <2>2, <2>3, <3>1, <3>2, <3>3 DEF Written
  <2>7. QED
    BY <2>1, <2>4, <2>5, <2>6
<1>5. ASSUME NEW t \in Turn, PersistGraph(t) PROVE IInv'
  <2>1. TypeOK'
    BY <1>5 DEF PersistGraph, TypeOK, Phase
  <2>2. Bound'
    BY <1>5 DEF PersistGraph, TypeOK, Bound
  <2>3. ActiveGoalIsBacked'
    <3>1. taskGraph'[t] # None /\ \A u \in Turn \ {t} : taskGraph'[u] = taskGraph[u]
      BY <1>5 DEF PersistGraph, TypeOK, Written
    <3>2. QED
      BY <1>5, <3>1 DEF PersistGraph, ActiveGoalIsBacked
  <2>4. Written'
    BY <1>5 DEF PersistGraph, TypeOK, Written, Undecided
  <2>5. QED
    BY <2>1, <2>2, <2>3, <2>4
<1>6. ASSUME NEW t \in Turn, LinkGoal(t) PROVE IInv'
  <2>1. target[t] \in Turn
    BY <1>6 DEF LinkGoal, Bound
  <2>2. TypeOK'
    BY <1>6, <2>1 DEF LinkGoal, TypeOK, Phase
  <2>3. Bound' /\ ActiveGoalIsBacked'
    BY <1>6 DEF LinkGoal, TypeOK, Bound, ActiveGoalIsBacked
  <2>4. Written'
    BY <1>6 DEF LinkGoal, TypeOK, Written, Undecided
  <2>5. QED
    BY <2>2, <2>3, <2>4
<1>7. ASSUME NEW t \in Turn, LoadGoal(t) PROVE IInv'
  <2>1. target[t] \in Turn /\ Len(log) \in Nat
    BY <1>7 DEF LoadGoal, Bound, TypeOK
  <2>2. TypeOK'
    BY <1>7, <2>1 DEF LoadGoal, TypeOK, Phase
  <2>3. Bound' /\ ActiveGoalIsBacked'
    BY <1>7, <2>1 DEF LoadGoal, TypeOK, Bound, ActiveGoalIsBacked, Open
  <2>4. Written'
    BY <1>7 DEF LoadGoal, TypeOK, Written, Undecided
  <2>5. QED
    BY <2>2, <2>3, <2>4
<1>8. ASSUME NEW t \in Turn, UpdateGoal(t) PROVE IInv'
  <2> DEFINE row == [Revised(t) EXCEPT !.updated = Len(log) + 1]
  <2>1. phase[t] = "updating" /\ target[t] \in Turn /\ action[t] \in Action
    BY <1>8 DEF UpdateGoal, Bound
  <2>2. row \in GoalRow /\ row.status \in Open /\ row.graph = target[t]
    <3>1. Revised(t) \in GoalRow /\ Revised(t).status \in Open /\ Revised(t).graph = target[t]
      BY <2>1, RevisedFacts
    <3>2. Len(log) + 1 \in Nat
      BY DEF TypeOK
    <3>3. QED
      BY <3>1, <3>2 DEF GoalRow
  <2>3. goal' = [goal EXCEPT ![target[t]] = row]
    BY <1>8 DEF UpdateGoal
  <2> HIDE DEF row
  <2>4. log' \in Seq(Update)
    BY <1>8, <2>1 DEF UpdateGoal, TypeOK, Update
  <2>5. TypeOK'
    <3>1. goal' \in [Turn -> GoalRow]
      BY <2>1, <2>2, <2>3 DEF TypeOK
    <3>2. phase' \in [Turn -> Phase]
      BY <1>8 DEF UpdateGoal, TypeOK, Phase
    <3>3. UNCHANGED <<locals, taskGraph, supports, failures, crashes>>
      BY <1>8 DEF UpdateGoal
    <3>4. QED
      BY <2>4, <3>1, <3>2, <3>3 DEF TypeOK
  <2>6. Bound'
    <3>1. goal'[target[t]] = row /\ \A g \in Turn \ {target[t]} : goal'[g] = goal[g]
      BY <2>1, <2>3 DEF TypeOK
    <3>2. phase' = [phase EXCEPT ![t] = "done"] /\ UNCHANGED <<action, target, copy>>
      BY <1>8 DEF UpdateGoal
    <3>3. phase[target[t]] \notin {"idle", "opening"}
      <4>1. CASE action[t] = "new"
        BY <2>1, <4>1 DEF Bound
      <4>2. CASE action[t] # "new"
        BY <2>1, <4>2 DEF Bound, Open
      <4>3. QED
        BY <4>1, <4>2
    <3>4. QED
      BY <2>1, <2>2, <3>1, <3>2, <3>3 DEF TypeOK, Bound
  <2>7. taskGraph[target[t]] # None
    <3>1. CASE action[t] = "new"
      BY <2>1, <3>1 DEF Bound, Written
    <3>2. CASE action[t] # "new"
      BY <2>1, <3>2 DEF Bound, ActiveGoalIsBacked, Open
    <3>3. QED
      BY <3>1, <3>2
  <2>8. ActiveGoalIsBacked'
    <3>1. goal'[target[t]] = row /\ \A g \in Turn \ {target[t]} : goal'[g] = goal[g]
      BY <2>1, <2>3 DEF TypeOK
    <3>2. UNCHANGED taskGraph
      BY <1>8 DEF UpdateGoal
    <3>3. QED
      BY <2>2, <2>7, <3>1, <3>2 DEF ActiveGoalIsBacked
  <2>9. Written'
    BY <1>8 DEF UpdateGoal, TypeOK, Written, Undecided
  <2>10. QED
    BY <2>5, <2>6, <2>8, <2>9
<1>9. CASE UNCHANGED vars
  BY <1>9 DEF vars, TypeOK, Bound, Written, ActiveGoalIsBacked
<1>10. QED
  BY <1>1, <1>2, <1>3, <1>4, <1>5, <1>6, <1>7, <1>8, <1>9 DEF Next, Step

LEMMA Inductive == Spec => []IInv
BY InitInv, StepInv, PTL DEF Spec

(* Turns stay well typed: the planner is never asked more often than       *)
(* compiler_max_attempts allows, and only accepted replies are saved.      *)
THEOREM TypeCorrect == Spec => []TypeOK
BY Inductive, PTL DEF IInv

(* Whatever turns overlap, raise, give up or die, a goal that turns are    *)
(* classified against has its persisted task graph (finalize_goal runs     *)
(* after persist_task_graph, and no later turn undoes it).                 *)
THEOREM GoalsAreBacked == Spec => []ActiveGoalIsBacked
BY Inductive, PTL DEF IInv

(* Storage tells how each compilation ended.                               *)
THEOREM OutcomesAreTold == Spec => []OutcomeIsTold
<1>1. IInv => OutcomeIsTold
  <2> SUFFICES ASSUME IInv PROVE OutcomeIsTold
    OBVIOUS
  <2>1. ASSUME NEW t \in Turn, action[t] # "close", phase[t] = "done"
        PROVE  taskGraph[t] # None /\ <<t, target[t]>> \in supports /\ goal[target[t]].status # "provisional"
    BY <2>1 DEF IInv, Bound, Written, Open
  <2>2. ASSUME NEW t \in Turn, t \in failures
        PROVE  /\ taskGraph[t] = None
               /\ \A g \in Turn : <<t, g>> \notin supports
               /\ goal[t].status \in {"absent", "provisional"}
    <3>1. taskGraph[t] = None /\ \A g \in Turn : <<t, g>> \notin supports
      BY <2>2 DEF IInv, Written, Undecided
    <3>2. goal[t].status \in Status
      BY <2>2 DEF IInv, TypeOK, GoalRow
    <3>3. QED
      BY <2>2, <3>1, <3>2 DEF IInv, Status, ActiveGoalIsBacked
  <2>3. QED
    BY <2>1, <2>2 DEF OutcomeIsTold
<1>2. QED
  BY <1>1, Inductive, PTL

-----------------------------------------------------------------------------
(* TurnsAddUp: the text of a goal is what the log of its updates tells.    *)

(* f is the function Told defines by recursion, of a log l: there is one   *)
(* such function, and no other. (A log grows by one update at a time, so   *)
(* this is an invariant.)                                                  *)
Tells(f, l, g) == f = [n \in 0..Len(l) |-> IF n = 0 THEN <<>> ELSE Retold(f[n-1], l[n], g)]

OneTale(l, g) == \E f : Tells(f, l, g) /\ \A h : Tells(h, l, g) => h = f

LEMMA ToldIsTheTale ==
  \A g, f : Tells(f, log, g) /\ (\A h : Tells(h, log, g) => h = f) => Told(g) = f[Len(log)]
<1> SUFFICES ASSUME NEW g, NEW f, Tells(f, log, g), \A h : Tells(h, log, g) => h = f
             PROVE  Told(g) = f[Len(log)]
  OBVIOUS
<1> DEFINE text == CHOOSE h : Tells(h, log, g)
<1>1. Told(g) = text[Len(log)]
  BY DEF Told, Tells
<1>2. text = f
  OBVIOUS
<1> QED  BY <1>1, <1>2

LEMMA TaleOfNothing ==
  ASSUME NEW g
  PROVE  OneTale(<<>>, g)
<1> DEFINE f == [n \in 0..0 |-> <<>>]
<1>1. \A h : Tells(h, <<>>, g) <=> h = f
  <2> SUFFICES ASSUME NEW h PROVE Tells(h, <<>>, g) <=> h = f
    OBVIOUS
  <2>1. Tells(h, <<>>, g) <=> h = [n \in 0..0 |-> IF n = 0 THEN <<>> ELSE Retold(h[n-1], <<>>[n], g)]
    BY DEF Tells
  <2>2. [n \in 0..0 |-> IF n = 0 THEN <<>> ELSE Retold(h[n-1], <<>>[n], g)] = f
    OBVIOUS
  <2> QED  BY <2>1, <2>2
<1> HIDE DEF f
<1>2. Tells(f, <<>>, g)
  BY <1>1
<1> QED  BY <1>1, <1>2 DEF OneTale

LEMMA TaleGrows ==
  ASSUME NEW S, NEW l \in Seq(S), NEW u \in S, NEW g,
         NEW f, Tells(f, l, g), \A h : Tells(h, l, g) => h = f
  PROVE  \E e : /\ Tells(e, Append(l, u), g)
                /\ \A h : Tells(h, Append(l, u), g) => h = e
                /\ e[Len(l) + 1] = Retold(f[Len(l)], u, g)
<1> DEFINE N == Len(l)
           m == Append(l, u)
           e == [n \in 0..N+1 |-> IF n = N+1 THEN Retold(f[N], u, g) ELSE f[n]]
<1>1. N \in Nat /\ Len(m) = N + 1 /\ m[N+1] = u /\ \A n \in 1..N : m[n] = l[n]
  OBVIOUS
<1>2. f[0] = <<>> /\ \A n \in 1..N : f[n] = Retold(f[n-1], l[n], g)
  BY <1>1 DEF Tells
<1> HIDE DEF N, m
<1>3. Tells(e, m, g)
  <2> DEFINE body(n) == IF n = 0 THEN <<>> ELSE Retold(e[n-1], m[n], g)
  <2>1. ASSUME NEW n \in 0..N+1 PROVE e[n] = body(n)
    <3>1. CASE n = 0
      BY <1>1, <1>2, <3>1
    <3>2. CASE n \in 1..N
      <4>1. e[n] = f[n] /\ e[n-1] = f[n-1]
        BY <1>1, <3>2
      <4> QED  BY <1>1, <1>2, <3>2, <4>1
    <3>3. CASE n = N + 1
      <4>1. e[n] = Retold(f[N], u, g) /\ e[n-1] = f[N]
        BY <1>1, <3>3
      <4> QED  BY <1>1, <3>3, <4>1
    <3> QED  BY <1>1, <3>1, <3>2, <3>3
  <2>2. e = [n \in 0..N+1 |-> e[n]]
    OBVIOUS
  <2> HIDE DEF e
  <2>3. e = [n \in 0..N+1 |-> body(n)]
    BY <2>1, <2>2
  <2> QED  BY <1>1, <2>3 DEF Tells
<1>4. ASSUME NEW h, Tells(h, m, g) PROVE h = e
  <2>1. h = [n \in 0..N+1 |-> IF n = 0 THEN <<>> ELSE Retold(h[n-1], m[n], g)]
    BY <1>1, <1>4 DEF Tells
  <2> DEFINE k == [n \in 0..N |-> h[n]]
  <2>2. Tells(k, l, g)
    <3>1. ASSUME NEW n \in 0..N PROVE k[n] = IF n = 0 THEN <<>> ELSE Retold(k[n-1], l[n], g)
      <4>1. CASE n = 0
        BY <1>1, <2>1, <4>1
      <4>2. CASE n # 0
        <5>1. n \in 1..N /\ n - 1 \in 0..N /\ n \in 0..N+1
          BY <1>1, <4>2
        <5>2. h[n] = Retold(h[n-1], m[n], g)
          BY <2>1, <5>1, <4>2
        <5> QED  BY <1>1, <4>2, <5>1, <5>2
      <4> QED  BY <4>1, <4>2
    <3>2. k = [n \in 0..N |-> k[n]]
      OBVIOUS
    <3> HIDE DEF k
    <3> QED  BY <3>1, <3>2 DEF Tells, N
  <2>3. k = f
    BY <2>2
  <2>4. ASSUME NEW n \in 0..N+1 PROVE h[n] = e[n]
    <3>1. CASE n \in 0..N
      BY <1>1, <2>3, <3>1
    <3>2. CASE n = N + 1
      <4>1. h[n] = Retold(h[N], u, g)
        BY <1>1, <2>1, <3>2
      <4>2. h[N] = f[N]
        BY <1>1, <2>3
      <4> QED  BY <1>1, <3>2, <4>1, <4>2
    <3> QED  BY <1>1, <3>1, <3>2
  <2>5. h = [n \in 0..N+1 |-> h[n]]
    BY <2>1
  <2> HIDE DEF e
  <2>6. e = [n \in 0..N+1 |-> e[n]]
    BY DEF e
  <2> QED  BY <2>4, <2>5, <2>6
<1>5. e[N+1] = Retold(f[N], u, g)
  BY <1>1
<1> HIDE DEF e
<1> QED  BY <1>3, <1>4, <1>5 DEF N, m

(* Somebody updated the goal after the turn read the text it will use.     *)
Overtaken(t) == \E i \in since[t] + 1 .. Len(log) : log[i].goal = target[t]

(* Otherwise what the turn has read of its goal's text is what is there.   *)
Informed ==
  \A t \in Turn :
    /\ since[t] \in 0..Len(log)
    /\ phase[t] = "opening" => action[t] = "new"
    /\ phase[t] \in {"planning", "accepted", "rejecting", "graphed", "loading"} /\ action[t] # "new" =>
         Overtaken(t) \/ seen[t] = goal[target[t]].text
    /\ phase[t] = "updating" =>
         \/ Overtaken(t)
         \/ goal[target[t]].text = IF Restores(t) THEN seen[t] ELSE copy[t].text

Tales == \A g \in Turn : OneTale(log, g)

TInv == IInv /\ Tales /\ Informed /\ TurnsAddUp

LEMMA ToldStays ==
  ASSUME Tales, log' = log
  PROVE  Tales' /\ \A g \in Turn : Told(g)' = Told(g)
<1>1. (\A g, f : Tells(f, log, g) /\ (\A h : Tells(h, log, g) => h = f) => Told(g) = f[Len(log)])'
  BY ToldIsTheTale, PTL
<1>2. ASSUME NEW g \in Turn PROVE Told(g)' = Told(g)
  <2>1. PICK f : Tells(f, log, g) /\ \A h : Tells(h, log, g) => h = f
    BY DEF Tales, OneTale
  <2> QED  BY <1>1, <2>1, ToldIsTheTale
<1> QED  BY <1>2 DEF Tales

LEMMA ToldGrows ==
  ASSUME Tales, log \in Seq(Update), NEW u \in Update, log' = Append(log, u)
  PROVE  Tales' /\ \A g \in Turn : Told(g)' = Retold(Told(g), u, g)
<1>1. (\A g, f : Tells(f, log, g) /\ (\A h : Tells(h, log, g) => h = f) => Told(g) = f[Len(log)])'
  BY ToldIsTheTale, PTL
<1>2. ASSUME NEW g \in Turn PROVE OneTale(log', g) /\ Told(g)' = Retold(Told(g), u, g)
  <2>1. PICK f : Tells(f, log, g) /\ \A h : Tells(h, log, g) => h = f
    BY DEF Tales, OneTale
  <2>2. PICK e : /\ Tells(e, log', g) /\ \A h : Tells(h, log', g) => h = e
                 /\ e[Len(log) + 1] = Retold(f[Len(log)], u, g)
    BY <2>1, TaleGrows
  <2>3. Told(g) = f[Len(log)]
    BY <2>1, ToldIsTheTale
  <2>4. Told(g)' = e[Len(log')]
    BY <1>1, <2>2
  <2>5. Len(log') = Len(log) + 1
    OBVIOUS
  <2> QED  BY <2>2, <2>3, <2>4, <2>5 DEF OneTale
<1> QED  BY <1>2 DEF Tales

(* Only the turn that opens a goal, and turns that log an update of it,    *)
(* change its text.                                                        *)
LEMMA InformedStep ==
  ASSUME IInv, Informed, [Next]_vars
  PROVE  Informed'
<1> USE DEF IInv
<1>1. Len(log) \in Nat /\ \A t \in Turn : since[t] \in 0..Len(log) /\ since[t] \in Nat
  BY DEF TypeOK, Informed
<1>2. ASSUME NEW t \in Turn, NEW a \in Action, NEW g \in Turn \cup {None}, Classify(t, a, g)
      PROVE  Informed'
  <2>1. /\ log' = log /\ goal' = goal /\ copy' = copy /\ accepted' = accepted
        /\ since'[t] = Len(log) /\ phase'[t] \in {"opening", "planning", "loading"}
        /\ phase'[t] = "opening" <=> a = "new"
        /\ action'[t] = a /\ target'[t] = IF a = "new" THEN t ELSE g
        /\ seen'[t] = IF a = "new" THEN <<>> ELSE goal[g].text
        /\ \A u \in Turn \ {t} : /\ phase'[u] = phase[u] /\ action'[u] = action[u]
                                 /\ target'[u] = target[u] /\ seen'[u] = seen[u]
                                 /\ since'[u] = since[u]
    BY <1>2 DEF Classify, TypeOK, store, Action
  <2>2. \A u \in Turn \ {t} : Overtaken(u)' = Overtaken(u) /\ Restores(u)' = Restores(u)
    BY <2>1 DEF Overtaken, Restores
  <2> QED  BY <1>1, <2>1, <2>2 DEF Informed
<1>3. ASSUME NEW t \in Turn, OpenGoal(t) PROVE Informed'
  <2>1. /\ log' = log /\ UNCHANGED locals /\ phase'[t] = "planning" /\ phase[t] = "opening"
        /\ \A u \in Turn \ {t} : phase'[u] = phase[u] /\ goal'[u] = goal[u]
    BY <1>3 DEF OpenGoal, TypeOK
  <2>2. \A u \in Turn : Overtaken(u)' = Overtaken(u) /\ Restores(u)' = Restores(u)
    BY <2>1 DEF Overtaken, Restores
  <2>3. goal[t].status = "absent"
    BY <2>1 DEF Bound
  <2>4. ASSUME NEW u \in Turn, target[u] = t, u # t PROVE phase[u] = "idle"
    BY <2>3, <2>4 DEF Bound, Open
  <2>5. action[t] = "new"
    BY <2>1 DEF Informed
  <2> QED  BY <1>1, <2>1, <2>2, <2>3, <2>4, <2>5 DEF Informed, Bound, Open
<1>4. ASSUME NEW t \in Turn, NEW reply \in Reply[t], AskPlanner(t, reply) PROVE Informed'
  <2>1. /\ UNCHANGED <<log, goal, copy, since, target, seen, action>>
        /\ phase[t] = "planning" /\ phase'[t] \in {"planning", "accepted", "rejecting"}
        /\ \A u \in Turn \ {t} : phase'[u] = phase[u] /\ accepted'[u] = accepted[u]
    BY <1>4 DEF AskPlanner, TypeOK, store
  <2>2. \A u \in Turn : Overtaken(u)' = Overtaken(u) /\ (u # t => Restores(u)' = Restores(u))
    BY <2>1 DEF Overtaken, Restores
  <2> QED  BY <2>1, <2>2 DEF Informed
<1>5. ASSUME NEW t \in Turn, \/ PlannerRaises(t) \/ RecordFailure(t) \/ Crash(t)
                             \/ PersistGraph(t) \/ LinkGoal(t)
      PROVE  Informed'
  <2>1. /\ UNCHANGED <<log, goal, locals>>
        /\ \A u \in Turn : \/ phase'[u] = phase[u]
                           \/ phase'[u] \in {"failed", "dead"}
                           \/ phase[u] = "accepted" /\ phase'[u] = "graphed"
                           \/ phase[u] = "graphed" /\ phase'[u] = "loading"
    BY <1>5 DEF PlannerRaises, RecordFailure, Crash, PersistGraph, LinkGoal, TypeOK, store
  <2>2. \A u \in Turn : Overtaken(u)' = Overtaken(u) /\ Restores(u)' = Restores(u)
    BY <2>1 DEF Overtaken, Restores
  <2> QED  BY <2>1, <2>2 DEF Informed
<1>6. ASSUME NEW t \in Turn, LoadGoal(t) PROVE Informed'
  <2>1. /\ UNCHANGED <<log, goal, target, seen, action, accepted>>
        /\ phase[t] = "loading" /\ phase'[t] = "updating" /\ copy'[t] = goal[target[t]]
        /\ since'[t] = IF Restores(t) THEN since[t] ELSE Len(log)
        /\ \A u \in Turn \ {t} : phase'[u] = phase[u] /\ copy'[u] = copy[u] /\ since'[u] = since[u]
    BY <1>6 DEF LoadGoal, TypeOK, store
  <2>2. /\ \A u \in Turn : Restores(u)' = Restores(u)
        /\ \A u \in Turn \ {t} : Overtaken(u)' = Overtaken(u)
    BY <2>1 DEF Overtaken, Restores
  <2>3. Restores(t) => Overtaken(t)' = Overtaken(t) /\ action[t] # "new"
    BY <2>1 DEF Overtaken, Restores
  <2> QED  BY <1>1, <2>1, <2>2, <2>3 DEF Informed
<1>7. ASSUME NEW t \in Turn, UpdateGoal(t) PROVE Informed'
  <2> DEFINE u == [turn |-> t, goal |-> target[t], since |-> since[t],
                   action |-> IF Restores(t) THEN "restore" ELSE action[t]]
  <2>1. /\ log' = Append(log, u) /\ UNCHANGED locals /\ phase'[t] = "done"
        /\ \A v \in Turn \ {t} : phase'[v] = phase[v]
        /\ \A g \in Turn \ {target[t]} : goal'[g] = goal[g]
    BY <1>7 DEF UpdateGoal, TypeOK
  <2>2. /\ Len(log') = Len(log) + 1 /\ log'[Len(log) + 1].goal = target[t]
        /\ \A i \in 1..Len(log) : log'[i] = log[i]
    <3>1. log'[Len(log) + 1] = u
      BY <2>1 DEF TypeOK
    <3> QED  BY <2>1, <3>1 DEF TypeOK
  <2>3. ASSUME NEW v \in Turn, Overtaken(v) \/ target[v] = target[t] PROVE Overtaken(v)'
    <3>1. CASE Overtaken(v)
      <4>1. PICK i \in since[v] + 1 .. Len(log) : log[i].goal = target[v]
        BY <3>1 DEF Overtaken
      <4>2. i \in since[v] + 1 .. Len(log) + 1 /\ log'[i] = log[i]
        BY <1>1, <2>2
      <4> QED  BY <2>1, <2>2, <4>1, <4>2 DEF Overtaken
    <3>2. CASE target[v] = target[t]
      <4>1. Len(log) + 1 \in since[v] + 1 .. Len(log) + 1
        BY <1>1
      <4> QED  BY <2>1, <2>2, <3>2, <4>1 DEF Overtaken
    <3> QED  BY <2>3, <3>1, <3>2
  <2>4. \A v \in Turn : Restores(v)' = Restores(v)
    BY <2>1 DEF Restores
  <2>5. \A v \in Turn : phase[v] # "idle" => target[v] \in Turn
    BY DEF Bound
  <2>6. \A v \in Turn : since'[v] \in 0..Len(log')
    BY <1>1, <2>1, <2>2
  <2> QED  BY <2>1, <2>3, <2>4, <2>5, <2>6 DEF Informed
<1>8. CASE UNCHANGED vars
  BY <1>8 DEF vars, Informed, Overtaken, Restores
<1> QED  BY <1>2, <1>3, <1>4, <1>5, <1>6, <1>7, <1>8 DEF Next, Step

(* A log that grows says the same of the updates it had.                   *)
LEMMA TextStep ==
  ASSUME TInv, [Next]_vars
  PROVE  Tales' /\ TurnsAddUp'
<1> USE DEF TInv, IInv
<1>1. ASSUME log' = log,
             \A g \in Turn : \/ goal'[g].text = goal[g].text /\ goal'[g].status = goal[g].status
                             \/ goal'[g].status = "provisional"
      PROVE  Tales' /\ TurnsAddUp'
  <2>1. Tales' /\ \A g \in Turn : Told(g)' = Told(g)
    BY <1>1, ToldStays
  <2>2. \A n \in DOMAIN log : Undisturbed(n)' = Undisturbed(n)
    BY <1>1 DEF Undisturbed
  <2> QED  BY <1>1, <2>1, <2>2 DEF TurnsAddUp
<1>2. ASSUME NEW t \in Turn, UpdateGoal(t) PROVE Tales' /\ TurnsAddUp'
  <2>g. PICK g \in Turn : g = target[t]
    BY <1>2 DEF UpdateGoal, Bound
  <2> USE <2>g
  <2> DEFINE act == IF Restores(t) THEN "restore" ELSE action[t]
             u == [turn |-> t, goal |-> g, since |-> since[t], action |-> act]
             N == Len(log)
  <2>1. /\ log' = Append(log, u) /\ phase[t] = "updating" /\ g \in Turn /\ action[t] \in Action
        /\ goal'[g].text = Revised(t).text /\ \A h \in Turn \ {g} : goal'[h] = goal[h]
    <3>1. phase[t] = "updating" /\ g \in Turn /\ action[t] \in Action
      BY <1>2 DEF UpdateGoal, Bound
    <3>2. goal' = [goal EXCEPT ![g] = [Revised(t) EXCEPT !.updated = Len(log) + 1]]
      BY <1>2 DEF UpdateGoal
    <3>3. Revised(t) \in GoalRow
      BY <3>1, RevisedFacts
    <3>4. [Revised(t) EXCEPT !.updated = Len(log) + 1].text = Revised(t).text
      BY <3>3 DEF GoalRow
    <3> QED  BY <1>2, <3>1, <3>2, <3>4 DEF UpdateGoal, TypeOK
  <2>2. u \in Update /\ log \in Seq(Update)
    BY <2>1 DEF Update, TypeOK
  <2>3. Tales' /\ \A h \in Turn : Told(h)' = Retold(Told(h), u, h)
    BY <2>1, <2>2, ToldGrows
  <2>4. /\ N \in Nat /\ Len(log') = N + 1 /\ DOMAIN log = 1..N /\ DOMAIN log' = 1..N+1
        /\ log'[N+1] = u /\ \A n \in 1..N : log'[n] = log[n] /\ log[n].since \in Nat
    <3>1. \A n \in 1..N : log[n] \in Update
      BY <2>2
    <3> QED  BY <2>1, <2>2, <3>1 DEF Update
  <2> HIDE DEF u, N
  <2>5. ASSUME NEW h \in Turn, \A n \in DOMAIN log' : log'[n].goal = h => Undisturbed(n)'
        PROVE  \A n \in DOMAIN log : log[n].goal = h => Undisturbed(n)
    <3> SUFFICES ASSUME NEW n \in 1..N, log[n].goal = h PROVE Undisturbed(n)
      BY <2>4
    <3>1. Undisturbed(n)' /\ n \in 1..N+1 /\ log'[n] = log[n]
      BY <2>4, <2>5
    <3>2. \A i \in log[n].since + 1 .. n - 1 : log'[i] = log[i]
      BY <2>4
    <3> QED  BY <3>1, <3>2 DEF Undisturbed
  <2>6. ASSUME NEW h \in Turn, h # g, \A n \in DOMAIN log' : log'[n].goal = h => Undisturbed(n)'
        PROVE  goal'[h].text = Told(h)' \/ goal'[h].status = "provisional"
    <3>1. Told(h)' = Told(h)
      BY <2>3, <2>6 DEF Retold, u
    <3> QED  BY <2>1, <2>5, <2>6, <3>1 DEF TurnsAddUp
  <2>7. ASSUME \A n \in DOMAIN log' : log'[n].goal = g => Undisturbed(n)'
        PROVE  goal'[g].text = Told(g)'
    <3>1. ~ Overtaken(t)
      <4>1. log'[N+1].goal = g /\ log'[N+1].since = since[t] /\ N + 1 \in DOMAIN log'
        BY <2>4 DEF u
      <4>2. \A i \in since[t] + 1 .. N : log'[i].goal # g
        <5>1. PICK n \in DOMAIN log' : n = N + 1
          BY <4>1
        <5>2. \A i \in log'[n].since + 1 .. n - 1 : log'[i].goal # log'[n].goal
          BY <2>7, <4>1, <5>1 DEF Undisturbed
        <5> QED  BY <2>4, <4>1, <5>1, <5>2
      <4>3. \A i \in since[t] + 1 .. N : i \in 1..N
        BY <2>4 DEF Informed, N
      <4> QED  BY <2>4, <4>2, <4>3 DEF Overtaken, N
    <3>2. goal[g].text = IF Restores(t) THEN seen[t] ELSE copy[t].text
      BY <2>1, <3>1 DEF Informed
    <3>3. action[t] # "new" => goal[g].text = Told(g)
      BY <2>1, <2>5, <2>7 DEF TurnsAddUp, Bound, Open
    <3>4. Told(g)' = CASE act \in {"new", "steer"} -> <<t>>
                       [] act = "continue"         -> Append(Told(g), t)
                       [] OTHER                    -> Told(g)
      <4>1. u.goal = g /\ u.turn = t /\ u.action = act
        BY DEF u
      <4>2. Told(g)' = Retold(Told(g), u, g)
        BY <2>1, <2>3
      <4> HIDE DEF act
      <4> QED  BY <4>1, <4>2 DEF Retold
    <3>5. copy[t] \in GoalRow
      BY DEF TypeOK
    <3>6. CASE action[t] = "new"
      <4>1. Revised(t).text = <<t>>
        BY <3>5, <3>6 DEF Revised, GoalRow
      <4> QED  BY <2>1, <3>4, <3>6, <4>1 DEF Restores
    <3>7. CASE action[t] = "steer"
      <4>1. Revised(t).text = IF Restores(t) THEN seen[t] ELSE <<t>>
        BY <3>5, <3>7 DEF Revised, GoalRow
      <4> QED  BY <2>1, <3>2, <3>3, <3>4, <3>7, <4>1
    <3>8. CASE action[t] = "continue"
      <4>1. Revised(t).text = Append(copy[t].text, t) /\ ~ Restores(t)
        BY <3>5, <3>8 DEF Revised, GoalRow, Restores
      <4> QED  BY <2>1, <3>2, <3>3, <3>4, <3>8, <4>1
    <3>9. CASE action[t] = "close"
      <4>1. Revised(t).text = copy[t].text /\ ~ Restores(t)
        BY <3>5, <3>9 DEF Revised, GoalRow, Restores
      <4> QED  BY <2>1, <3>2, <3>3, <3>4, <3>9, <4>1
    <3> QED  BY <2>1, <3>6, <3>7, <3>8, <3>9 DEF Action
  <2> QED  BY <2>3, <2>6, <2>7 DEF TurnsAddUp
<1>3. ASSUME NEW t \in Turn, OpenGoal(t) PROVE Tales' /\ TurnsAddUp'
  BY <1>1, <1>3 DEF OpenGoal, TypeOK
<1>4. CASE UNCHANGED <<goal, log>>
  BY <1>1, <1>4
<1>5. UNCHANGED <<goal, log>> \/ \E t \in Turn : OpenGoal(t) \/ UpdateGoal(t)
  BY DEF Next, Step, vars, Classify, AskPlanner, PlannerRaises, RecordFailure, PersistGraph, LinkGoal,
         LoadGoal, Crash
<1> QED  BY <1>2, <1>3, <1>4, <1>5

(* A goal's text is what its turns made of it, in the order they wrote,    *)
(* as long as none of them read it before another one's write, whatever    *)
(* the turns do to each other otherwise.                                   *)
THEOREM TextsAddUp == Spec => []TurnsAddUp
<1>1. Init => Tales /\ Informed /\ TurnsAddUp
  <2> SUFFICES ASSUME Init PROVE Tales /\ Informed /\ TurnsAddUp
    OBVIOUS
  <2>1. log = <<>> /\ \A t \in Turn : phase[t] = "idle" /\ since[t] = 0 /\ goal[t].text = <<>>
    BY DEF Init, NoGoal
  <2>2. ASSUME NEW g \in Turn PROVE OneTale(log, g) /\ Told(g) = <<>>
    <3>1. PICK f : Tells(f, log, g) /\ \A h : Tells(h, log, g) => h = f
      BY <2>1, TaleOfNothing DEF OneTale
    <3>2. Told(g) = f[0]
      BY <2>1, <3>1, ToldIsTheTale
    <3> QED  BY <2>1, <3>1, <3>2 DEF OneTale, Tells
  <2> QED  BY <2>1, <2>2 DEF Tales, Informed, TurnsAddUp
<1>2. TInv /\ [Next]_vars => TInv'
  BY StepInv, InformedStep, TextStep DEF TInv
<1>3. TInv => TurnsAddUp
  BY DEF TInv
<1> QED  BY <1>1, <1>2, <1>3, InitInv, PTL DEF Spec, TInv

-----------------------------------------------------------------------------
(* What is lost when turns overlap.                                        *)

Says(text, t) == \E i \in DOMAIN text : text[i] = t
Speaking == {"new", "steer", "continue"}

(* The word of update n may be missing from the text.                      *)
Excused(n) ==
  \E m \in n + 1 .. Len(log) :
    /\ log[m].goal = log[n].goal
    /\ log[m].action = "steer" \/ log[m].since < n

(* The text has the words of the first k updates, as far as they concern   *)
(* g.                                                                      *)
KeepsWords(text, g, k) ==
  \A n \in 1..Len(log) :
    n <= k /\ log[n].goal = g /\ log[n].action \in Speaking =>
      Says(text, log[n].turn) \/ Excused(n)

Reading == {"planning", "accepted", "rejecting", "graphed", "loading"}

(* A goal that is not open has no update behind it, an open one has all    *)
(* words in its text, and a turn has in hand those of the updates before   *)
(* it read.                                                                *)
Kept ==
  /\ \A n \in 1..Len(log) : goal[log[n].goal].status \in Open
  /\ \A t \in Turn :
       action[t] = "new" /\ phase[t] \in Reading \cup {"opening", "updating"} =>
         goal[t].status \notin Open
  /\ \A g \in Turn : KeepsWords(goal[g].text, g, Len(log))
  /\ \A t \in Turn : action[t] # "new" =>
       /\ phase[t] \in Reading => KeepsWords(seen[t], target[t], since[t])
       /\ phase[t] = "updating" =>
            KeepsWords(IF Restores(t) THEN seen[t] ELSE copy[t].text, target[t], since[t])

OInv == IInv /\ Informed /\ Kept

(* Steps that leave the log alone.                                         *)
LEMMA KeptWhileNothingIsSaid ==
  ASSUME OInv, [Next]_vars, log' = log
  PROVE  Kept'
<1> USE DEF OInv, IInv
<1>1. \A text, g, k : KeepsWords(text, g, k) => KeepsWords(text, g, k)'
  BY DEF KeepsWords, Excused, Says
<1>2. log \in Seq(Update) /\ Len(log) \in Nat /\ \A n \in 1..Len(log) : log[n].goal \in Turn
  <2>1. log \in Seq(Update) /\ Len(log) \in Nat
    BY DEF TypeOK
  <2>2. \A n \in 1..Len(log) : log[n] \in Update
    BY <2>1
  <2> QED  BY <2>1, <2>2 DEF Update
<1>3. ASSUME NEW t \in Turn, NEW a \in Action, NEW g \in Turn \cup {None}, Classify(t, a, g)
      PROVE  Kept'
  <2>1. /\ goal' = goal /\ copy' = copy /\ accepted' = accepted
        /\ since'[t] = Len(log) /\ phase'[t] \in {"opening", "planning", "loading"}
        /\ phase[t] = "idle" /\ action'[t] = a
        /\ a # "new" => g \in Turn /\ target'[t] = g /\ seen'[t] = goal[g].text
        /\ \A u \in Turn \ {t} : /\ phase'[u] = phase[u] /\ action'[u] = action[u]
                                 /\ target'[u] = target[u] /\ seen'[u] = seen[u]
                                 /\ since'[u] = since[u]
    BY <1>3 DEF Classify, TypeOK, store, Action
  <2>2. goal[t].status \notin Open
    BY <2>1 DEF Bound, Open
  <2>3. a # "new" => KeepsWords(seen[t], target[t], since[t])'
    BY <1>1, <2>1 DEF Kept
  <2>4. \A u \in Turn \ {t} : Restores(u)' = Restores(u)
    BY <2>1 DEF Restores
  <2>5. \A n \in 1..Len(log') : goal'[log'[n].goal].status \in Open
    BY <2>1 DEF Kept
  <2>6. \A u \in Turn : KeepsWords(goal[u].text, u, Len(log))'
    BY <1>1, <2>1 DEF Kept
  <2>7. ASSUME NEW u \in Turn, action'[u] = "new", phase'[u] \in Reading \cup {"opening", "updating"}
        PROVE  goal'[u].status \notin Open
    BY <2>1, <2>2, <2>7 DEF Kept
  <2>8. ASSUME NEW u \in Turn \ {t}, action'[u] # "new"
        PROVE  /\ phase'[u] \in Reading => KeepsWords(seen[u], target[u], since[u])'
               /\ phase'[u] = "updating" =>
                    KeepsWords(IF Restores(u) THEN seen[u] ELSE copy[u].text, target[u], since[u])'
    BY <1>1, <2>1, <2>4, <2>8 DEF Kept
  <2>9. phase'[t] # "updating"
    BY <2>1
  <2> QED  BY <2>1, <2>3, <2>5, <2>6, <2>7, <2>8, <2>9 DEF Kept
<1>4. ASSUME NEW t \in Turn, OpenGoal(t) PROVE Kept'
  <2>1. /\ UNCHANGED locals /\ phase'[t] = "planning" /\ phase[t] = "opening"
        /\ goal'[t].status = "provisional"
        /\ \A u \in Turn \ {t} : phase'[u] = phase[u] /\ goal'[u] = goal[u]
    BY <1>4 DEF OpenGoal, TypeOK
  <2>2. goal[t].status \notin Open /\ action[t] = "new"
    BY <2>1 DEF Bound, Open, Informed
  <2>3. \A n \in 1..Len(log) : log[n].goal # t
    BY <2>2 DEF Kept
  <2>4. KeepsWords(goal[t].text, t, Len(log))'
    BY <2>3 DEF KeepsWords
  <2>5. \A u \in Turn : Restores(u)' = Restores(u)
    BY <2>1 DEF Restores
  <2>6. \A n \in 1..Len(log') : goal'[log'[n].goal].status \in Open
    BY <1>2, <2>1, <2>3 DEF Kept
  <2>7. \A u \in Turn : KeepsWords(goal[u].text, u, Len(log))'
    BY <1>1, <2>1, <2>4 DEF Kept
  <2>8. \A u \in Turn : action'[u] = "new" /\ phase'[u] \in Reading \cup {"opening", "updating"} =>
          goal'[u].status \notin Open
    BY <2>1, <2>2 DEF Kept, Open
  <2>9. ASSUME NEW u \in Turn, action'[u] # "new"
        PROVE  /\ phase'[u] \in Reading => KeepsWords(seen[u], target[u], since[u])'
               /\ phase'[u] = "updating" =>
                    KeepsWords(IF Restores(u) THEN seen[u] ELSE copy[u].text, target[u], since[u])'
    BY <1>1, <2>1, <2>2, <2>5, <2>9 DEF Kept
  <2> QED  BY <2>6, <2>7, <2>8, <2>9 DEF Kept
<1>5. ASSUME NEW t \in Turn,
             \/ \E reply \in Reply[t] : AskPlanner(t, reply)
             \/ PlannerRaises(t) \/ RecordFailure(t) \/ Crash(t) \/ PersistGraph(t) \/ LinkGoal(t)
      PROVE  Kept'
  <2>1. /\ UNCHANGED <<goal, copy, since, target, seen, action>>
        /\ phase[t] # "idle"
        /\ phase'[t] \in Reading => phase[t] \in Reading
        /\ phase'[t] \notin {"opening", "updating"}
        /\ \A u \in Turn \ {t} : phase'[u] = phase[u] /\ accepted'[u] = accepted[u]
    BY <1>5 DEF AskPlanner, PlannerRaises, RecordFailure, Crash, PersistGraph, LinkGoal, TypeOK,
                store, InFlight, Reading
  <2>2. \A u \in Turn \ {t} : Restores(u)' = Restores(u)
    BY <2>1 DEF Restores
  <2>3. /\ \A n \in 1..Len(log') : goal'[log'[n].goal].status \in Open
        /\ \A u \in Turn : KeepsWords(goal[u].text, u, Len(log))'
    BY <1>1, <2>1 DEF Kept
  <2>4. \A u \in Turn : action'[u] = "new" /\ phase'[u] \in Reading \cup {"opening", "updating"} =>
          goal'[u].status \notin Open
    BY <2>1 DEF Kept
  <2>5. ASSUME NEW u \in Turn, action'[u] # "new"
        PROVE  /\ phase'[u] \in Reading => KeepsWords(seen[u], target[u], since[u])'
               /\ phase'[u] = "updating" =>
                    KeepsWords(IF Restores(u) THEN seen[u] ELSE copy[u].text, target[u], since[u])'
    BY <1>1, <2>1, <2>2, <2>5 DEF Kept
  <2> QED  BY <2>3, <2>4, <2>5 DEF Kept
<1>6. ASSUME NEW t \in Turn, LoadGoal(t) PROVE Kept'
  <2>1. /\ UNCHANGED <<goal, target, seen, action, accepted>>
        /\ phase[t] = "loading" /\ phase'[t] = "updating" /\ copy'[t] = goal[target[t]]
        /\ since'[t] = IF Restores(t) THEN since[t] ELSE Len(log)
        /\ \A u \in Turn \ {t} : phase'[u] = phase[u] /\ copy'[u] = copy[u] /\ since'[u] = since[u]
    BY <1>6 DEF LoadGoal, TypeOK, store
  <2>2. \A u \in Turn : Restores(u)' = Restores(u)
    BY <2>1 DEF Restores
  <2>3. target[t] \in Turn
    BY <2>1 DEF Bound
  <2>4. action[t] # "new" =>
          KeepsWords(IF Restores(t) THEN seen[t] ELSE copy[t].text, target[t], since[t])'
    <3>1. action[t] # "new" => KeepsWords(seen[t], target[t], since[t])
      BY <2>1 DEF Kept, Reading
    <3>2. KeepsWords(goal[target[t]].text, target[t], Len(log))
      BY <2>3 DEF Kept
    <3> QED  BY <1>1, <2>1, <2>2, <3>1, <3>2
  <2>5. /\ \A n \in 1..Len(log') : goal'[log'[n].goal].status \in Open
        /\ \A u \in Turn : KeepsWords(goal[u].text, u, Len(log))'
    BY <1>1, <2>1 DEF Kept
  <2>6. \A u \in Turn : action'[u] = "new" /\ phase'[u] \in Reading \cup {"opening", "updating"} =>
          goal'[u].status \notin Open
    BY <2>1 DEF Kept, Reading
  <2>7. ASSUME NEW u \in Turn \ {t}, action'[u] # "new"
        PROVE  /\ phase'[u] \in Reading => KeepsWords(seen[u], target[u], since[u])'
               /\ phase'[u] = "updating" =>
                    KeepsWords(IF Restores(u) THEN seen[u] ELSE copy[u].text, target[u], since[u])'
    BY <1>1, <2>1, <2>2, <2>7 DEF Kept
  <2> QED  BY <2>1, <2>4, <2>5, <2>6, <2>7 DEF Kept, Reading
<1>7. CASE UNCHANGED vars
  <2>1. \A u \in Turn : Restores(u)' = Restores(u)
    BY <1>7 DEF Restores, vars
  <2> QED  BY <1>1, <1>7, <2>1 DEF Kept, vars
<1>8. ASSUME NEW t \in Turn, UpdateGoal(t) PROVE FALSE
  BY <1>2, <1>8 DEF UpdateGoal
<1> QED  BY <1>3, <1>4, <1>5, <1>6, <1>7, <1>8 DEF Next, Step

(* An update: what was in hand goes into the text, and what was said since *)
(* it was read is excused.                                                 *)
LEMMA KeptByUpdate ==
  ASSUME OInv, NEW t \in Turn, UpdateGoal(t)
  PROVE  Kept'
<1> USE DEF OInv, IInv
<1>g. PICK g \in Turn : g = target[t]
  BY DEF UpdateGoal, Bound
<1> DEFINE act == IF Restores(t) THEN "restore" ELSE action[t]
           u == [turn |-> t, goal |-> g, since |-> since[t], action |-> act]
           N == Len(log)
           hand == IF Restores(t) THEN seen[t] ELSE copy[t].text
<1>1. /\ log' = Append(log, u) /\ phase[t] = "updating" /\ action[t] \in Action
      /\ phase'[t] = "done" /\ \A v \in Turn \ {t} : phase'[v] = phase[v]
      /\ UNCHANGED locals
      /\ goal'[g].text = Revised(t).text /\ goal'[g].status \in Open
      /\ \A h \in Turn \ {g} : goal'[h] = goal[h]
  <2>1. phase[t] = "updating" /\ action[t] \in Action
    BY DEF UpdateGoal, Bound
  <2>2. goal' = [goal EXCEPT ![g] = [Revised(t) EXCEPT !.updated = Len(log) + 1]]
    BY <1>g DEF UpdateGoal
  <2>3. Revised(t) \in GoalRow /\ Revised(t).status \in Open
    BY <2>1, RevisedFacts
  <2>4. /\ [Revised(t) EXCEPT !.updated = Len(log) + 1].text = Revised(t).text
        /\ [Revised(t) EXCEPT !.updated = Len(log) + 1].status = Revised(t).status
    BY <2>3 DEF GoalRow
  <2> QED  BY <1>g, <2>1, <2>2, <2>3, <2>4 DEF UpdateGoal, TypeOK
<1>2. /\ N \in Nat /\ Len(log') = N + 1
      /\ log'[N+1] = u /\ \A n \in 1..N : log'[n] = log[n] /\ log[n].goal \in Turn
  <2>1. log \in Seq(Update)
    BY DEF TypeOK
  <2>2. \A n \in 1..N : log[n] \in Update
    BY <2>1
  <2> QED  BY <1>1, <2>1, <2>2 DEF Update
<1>3. since[t] \in 0..N /\ \A v \in Turn : since[v] \in 0..N
  BY DEF Informed
<1>4. u.turn = t /\ u.goal = g /\ u.since = since[t] /\ u.action = act
  OBVIOUS
<1> HIDE DEF u, N, act
<1>5. ASSUME NEW n \in 1..N, Excused(n) PROVE Excused(n)'
  <2>1. PICK m \in n + 1 .. N : log[m].goal = log[n].goal /\ (log[m].action = "steer" \/ log[m].since < n)
    BY <1>5 DEF Excused, N
  <2>2. m \in 1..N /\ m \in n + 1 .. N + 1
    BY <1>2
  <2> QED  BY <1>2, <2>1, <2>2 DEF Excused
<1>6. ASSUME NEW n \in 1..N, log[n].goal = g, act = "steer" \/ since[t] < n PROVE Excused(n)'
  <2>1. N + 1 \in n + 1 .. N + 1
    BY <1>2
  <2>2. log'[N+1].goal = log'[n].goal /\ (log'[N+1].action = "steer" \/ log'[N+1].since < n)
    BY <1>2, <1>4, <1>6
  <2> QED  BY <1>2, <2>1, <2>2 DEF Excused
<1>7. ASSUME NEW text, NEW h \in Turn, NEW k \in 0..N, KeepsWords(text, h, k)
      PROVE  \A n \in 1..Len(log') :
               n <= k /\ log'[n].goal = h /\ log'[n].action \in Speaking =>
                 Says(text, log'[n].turn) \/ Excused(n)'
  <2> SUFFICES ASSUME NEW n \in 1..Len(log'), n <= k, log'[n].goal = h, log'[n].action \in Speaking
               PROVE  Says(text, log'[n].turn) \/ Excused(n)'
    OBVIOUS
  <2>1. n \in 1..N /\ log'[n] = log[n]
    BY <1>2
  <2> QED  BY <1>5, <1>7, <2>1 DEF KeepsWords, N
<1>8. \A v \in Turn : Restores(v)' = Restores(v)
  BY <1>1 DEF Restores
<1>9. \A n \in 1..Len(log') : goal'[log'[n].goal].status \in Open
  <2> SUFFICES ASSUME NEW n \in 1..N+1 PROVE goal'[log'[n].goal].status \in Open
    BY <1>2
  <2>1. CASE n = N + 1
    BY <1>1, <1>2, <1>4, <2>1
  <2>2. CASE n # N + 1
    <3>1. n \in 1..N
      BY <1>2, <2>2
    <3>2. goal[log[n].goal].status \in Open
      BY <3>1 DEF Kept, N
    <3> QED  BY <1>1, <1>2, <3>1, <3>2
  <2> QED  BY <2>1, <2>2
<1>10. ASSUME NEW v \in Turn, action'[v] = "new", phase'[v] \in Reading \cup {"opening", "updating"}
       PROVE  goal'[v].status \notin Open
  <2>1. v # t /\ action[v] = "new" /\ goal[v].status \notin Open
    BY <1>1, <1>10 DEF Kept, Reading
  <2>2. v # g
    <3>1. action[t] # "new" => goal[g].status \in Open
      BY <1>1, <1>g DEF Bound
    <3>2. action[t] = "new" => g = t
      BY <1>g DEF Bound
    <3> QED  BY <2>1, <3>1, <3>2
  <2> QED  BY <1>1, <2>1, <2>2
<1>11. ASSUME NEW h \in Turn, h # g PROVE KeepsWords(goal[h].text, h, Len(log))'
  <2>1. \A n \in 1..Len(log') : log'[n].goal = h => n <= N
    BY <1>2, <1>4, <1>11
  <2>2. KeepsWords(goal[h].text, h, N)
    BY DEF Kept, N
  <2>3. N \in 0..N /\ goal'[h] = goal[h]
    BY <1>1, <1>2, <1>11
  <2>4. \A n \in 1..Len(log') :
           n <= N /\ log'[n].goal = h /\ log'[n].action \in Speaking =>
             Says(goal[h].text, log'[n].turn) \/ Excused(n)'
    BY <1>7, <2>2, <2>3
  <2> QED  BY <2>1, <2>3, <2>4 DEF KeepsWords, Says
<1>12. KeepsWords(goal[g].text, g, Len(log))'
  <2>1. copy[t] \in GoalRow /\ copy[t].text \in Seq(Turn) /\ seen[t] \in Seq(Turn)
    BY DEF TypeOK, GoalRow
  <2>2. act \in Speaking => Says(goal'[g].text, t)
    <3>1. CASE act \in {"new", "steer"}
      <4>1. Revised(t).text = <<t>>
        BY <2>1, <3>1 DEF Revised, GoalRow, act, Restores
      <4>2. 1 \in DOMAIN <<t>> /\ <<t>>[1] = t
        OBVIOUS
      <4> QED  BY <1>1, <4>1, <4>2 DEF Says
    <3>2. CASE act = "continue"
      <4>1. Revised(t).text = Append(copy[t].text, t)
        BY <2>1, <3>2 DEF Revised, GoalRow, act, Restores
      <4>2. PICK k \in Nat : k = Len(copy[t].text)
        BY <2>1
      <4>3. k + 1 \in DOMAIN Append(copy[t].text, t) /\ Append(copy[t].text, t)[k + 1] = t
        BY <2>1, <4>2
      <4> QED  BY <1>1, <4>1, <4>3 DEF Says
    <3> QED  BY <3>1, <3>2 DEF Speaking
  <2>3. ASSUME NEW w \in Turn, act \notin {"new", "steer"}, Says(hand, w) PROVE Says(goal'[g].text, w)
    <3>1. CASE act = "restore" \/ act = "close"
      <4>1. Revised(t).text = hand
        BY <1>1, <2>1, <3>1 DEF Revised, GoalRow, act, Restores, Action
      <4> QED  BY <1>1, <2>3, <4>1
    <3>2. CASE act = "continue"
      <4>1. Revised(t).text = Append(copy[t].text, t) /\ hand = copy[t].text
        BY <2>1, <3>2 DEF Revised, GoalRow, act, Restores
      <4>2. PICK i \in DOMAIN copy[t].text : copy[t].text[i] = w
        BY <2>3, <4>1 DEF Says
      <4>3. i \in DOMAIN Append(copy[t].text, t) /\ Append(copy[t].text, t)[i] = w
        BY <2>1, <4>2
      <4> QED  BY <1>1, <4>1, <4>3 DEF Says
    <3> QED  BY <1>1, <2>3, <3>1, <3>2 DEF act, Action
  <2>4. ASSUME NEW n \in 1..N, log[n].goal = g, log[n].action \in Speaking, log[n].turn \in Turn
        PROVE  Says(goal'[g].text, log[n].turn) \/ Excused(n)'
    <3>1. CASE act = "steer" \/ since[t] < n
      BY <1>6, <2>4, <3>1
    <3>2. CASE act = "new"
      <4>1. action[t] = "new" /\ g = t
        BY <1>g, <3>2 DEF act, Bound
      <4>2. goal[t].status \notin Open /\ goal[t].status \in Open
        BY <1>1, <2>4, <4>1 DEF Kept, N
      <4> QED  BY <4>2
    <3>3. CASE act \notin {"new", "steer"} /\ ~ (since[t] < n)
      <4>1. action[t] # "new"
        BY <3>3 DEF act, Restores
      <4>2. KeepsWords(hand, g, since[t])
        BY <1>1, <1>g, <4>1 DEF Kept
      <4>3. n <= since[t]
        BY <1>3, <1>2, <3>3
      <4>4. Says(hand, log[n].turn) \/ Excused(n)
        BY <2>4, <4>2, <4>3 DEF KeepsWords, N
      <4> QED  BY <1>5, <2>3, <2>4, <3>3, <4>4
    <3> QED  BY <3>1, <3>2, <3>3
  <2>5. \A n \in 1..N : log[n].turn \in Turn
    <3>1. log \in Seq(Update)
      BY DEF TypeOK
    <3>2. \A n \in 1..N : log[n] \in Update
      BY <3>1 DEF N
    <3> QED  BY <3>2 DEF Update
  <2>6. ASSUME NEW n \in 1..N+1, log'[n].goal = g, log'[n].action \in Speaking
        PROVE  Says(goal'[g].text, log'[n].turn) \/ Excused(n)'
    <3>1. CASE n = N + 1
      BY <1>2, <1>4, <2>2, <2>6, <3>1
    <3>2. CASE n # N + 1
      <4>1. n \in 1..N
        BY <1>2, <3>2
      <4> QED  BY <1>2, <2>4, <2>5, <2>6, <4>1
    <3> QED  BY <3>1, <3>2
  <2> QED  BY <1>2, <2>6 DEF KeepsWords, Says
<1>13. ASSUME NEW v \in Turn, action'[v] # "new"
       PROVE  /\ phase'[v] \in Reading => KeepsWords(seen[v], target[v], since[v])'
              /\ phase'[v] = "updating" =>
                   KeepsWords(IF Restores(v) THEN seen[v] ELSE copy[v].text, target[v], since[v])'
  <2>1. CASE v = t
    BY <1>1, <2>1 DEF Reading
  <2>2. CASE v # t
    <3>1. phase'[v] = phase[v] /\ action[v] # "new" /\ phase[v] # "idle" => target[v] \in Turn
      BY <1>1, <2>2 DEF Bound
    <3>2. ASSUME phase[v] \in Reading PROVE KeepsWords(seen[v], target[v], since[v])'
      <4>1. target[v] \in Turn /\ KeepsWords(seen[v], target[v], since[v])
        BY <1>1, <1>13, <3>2 DEF Kept, Bound, Reading
      <4>2. \A n \in 1..Len(log') :
               n <= since[v] /\ log'[n].goal = target[v] /\ log'[n].action \in Speaking =>
                 Says(seen[v], log'[n].turn) \/ Excused(n)'
        BY <1>3, <1>7, <4>1
      <4> QED  BY <1>1, <4>2 DEF KeepsWords, Says
    <3>3. ASSUME phase[v] = "updating"
          PROVE  KeepsWords(IF Restores(v) THEN seen[v] ELSE copy[v].text, target[v], since[v])'
      <4>1. target[v] \in Turn
            /\ KeepsWords(IF Restores(v) THEN seen[v] ELSE copy[v].text, target[v], since[v])
        BY <1>1, <1>13, <3>3 DEF Kept, Bound
      <4>2. PICK text : text = IF Restores(v) THEN seen[v] ELSE copy[v].text
        OBVIOUS
      <4>3. /\ target'[v] = target[v] /\ since'[v] = since[v]
            /\ (IF Restores(v) THEN seen[v] ELSE copy[v].text)' = text
        BY <1>1, <1>8, <4>2
      <4>4. \A n \in 1..Len(log') :
               n <= since[v] /\ log'[n].goal = target[v] /\ log'[n].action \in Speaking =>
                 Says(text, log'[n].turn) \/ Excused(n)'
        BY <1>3, <1>7, <4>1, <4>2
      <4> QED  BY <4>3, <4>4 DEF KeepsWords, Says
    <3> QED  BY <1>1, <2>2, <3>2, <3>3
  <2> QED  BY <2>1, <2>2
<1> QED  BY <1>9, <1>10, <1>11, <1>12, <1>13 DEF Kept

(* Whatever the turns do to each other, the word of one that has updated a *)
(* goal is lost only to a later steer, or to a turn of the same goal that  *)
(* had read it before.                                                     *)
THEOREM WordsAreLostOnlyToOverlap == Spec => []LostOnlyToOverlap
<1>1. Init => Informed /\ Kept
  <2> SUFFICES ASSUME Init PROVE Informed /\ Kept
    OBVIOUS
  <2>1. log = <<>> /\ Len(log) = 0 /\ \A t \in Turn : phase[t] = "idle" /\ since[t] = 0
    BY DEF Init
  <2> QED  BY <2>1 DEF Informed, Kept, KeepsWords, Reading
<1>2. OInv /\ [Next]_vars => OInv'
  <2> SUFFICES ASSUME OInv, [Next]_vars PROVE OInv'
    OBVIOUS
  <2>1. IInv' /\ Informed'
    BY StepInv, InformedStep DEF OInv
  <2>2. log' = log \/ \E t \in Turn : UpdateGoal(t)
    BY DEF Next, Step, vars, Classify, OpenGoal, AskPlanner, PlannerRaises, RecordFailure,
           PersistGraph, LinkGoal, LoadGoal, Crash
  <2> QED  BY <2>1, <2>2, KeptWhileNothingIsSaid, KeptByUpdate DEF OInv
<1>3. OInv => LostOnlyToOverlap
  <2> SUFFICES ASSUME OInv, NEW n \in DOMAIN log, log[n].action \in Speaking
               PROVE  \/ Says(goal[log[n].goal].text, log[n].turn)
                      \/ Excused(n)
    BY DEF LostOnlyToOverlap, Says, Speaking, Excused
  <2>1. log \in Seq(Update)
    BY DEF OInv, IInv, TypeOK
  <2>2. n \in 1..Len(log) /\ log[n] \in Update
    BY <2>1
  <2>3. log[n].goal \in Turn /\ n <= Len(log)
    BY <2>2 DEF Update
  <2> QED  BY <2>2, <2>3 DEF OInv, Kept, KeepsWords
<1> QED  BY InitInv, <1>1, <1>2, <1>3, PTL DEF Spec, OInv

-----------------------------------------------------------------------------
(* sound is the function Sound is computed with.                           *)
Sounds(sound, I, E) ==
  sound = [open \in SUBSET I |->
            {id \in I \ open : \A e \in E : e.from = id => e.to \in sound[open \cup {id}]}]

LEMMA LeftOver ==
  ASSUME NEW I, IsFiniteSet(I), NEW open \in SUBSET I
  PROVE  /\ Cardinality(I \ open) \in Nat
         /\ Cardinality(I \ open) <= Cardinality(I)
         /\ \A id \in I \ open : Cardinality(I \ (open \cup {id})) = Cardinality(I \ open) - 1
<1>1. PICK rest : rest = I \ open
  OBVIOUS
<1>2. IsFiniteSet(rest) /\ Cardinality(rest) \in Nat /\ Cardinality(rest) <= Cardinality(I)
  BY <1>1, FS_Subset, FS_CardinalityType
<1>3. ASSUME NEW id \in rest
      PROVE  Cardinality(I \ (open \cup {id})) = Cardinality(rest) - 1
  <2>1. I \ (open \cup {id}) = rest \ {id}
    BY <1>1
  <2>2. Cardinality(rest \ {id}) = Cardinality(rest) - 1
    BY <1>2, FS_RemoveElement
  <2>3. QED
    BY <2>1, <2>2
<1>4. QED
  BY <1>1, <1>2, <1>3

LEMMA SoundExists ==
  ASSUME NEW I, IsFiniteSet(I), NEW E
  PROVE  \E sound : Sounds(sound, I, E)
<1> DEFINE Deep(k) == {open \in SUBSET I : Cardinality(I \ open) < k}
           Way(sound, open) ==
             {id \in I \ open : \A e \in E : e.from = id => e.to \in sound[open \cup {id}]}
           T == {k \in Nat : \E sound \in [Deep(k) -> SUBSET I] :
                               \A open \in Deep(k) : sound[open] = Way(sound, open)}
<1>1. \A open \in SUBSET I : /\ Cardinality(I \ open) \in Nat
                             /\ Cardinality(I \ open) <= Cardinality(I)
                             /\ \A id \in I \ open : Cardinality(I \ (open \cup {id})) = Cardinality(I \ open) - 1
  BY LeftOver
<1>2. 0 \in T
  <2> DEFINE sound == [open \in Deep(0) |-> {}]
  <2>1. Deep(0) = {}
    BY <1>1
  <2>2. sound \in [Deep(0) -> SUBSET I] /\ \A open \in Deep(0) : sound[open] = Way(sound, open)
    BY <2>1
  <2>3. QED
    BY <2>2
<1>3. ASSUME NEW k \in Nat, k \in T
      PROVE  k + 1 \in T
  <2> HIDE DEF Way
  <2>1. PICK f \in [Deep(k) -> SUBSET I] : \A open \in Deep(k) : f[open] = Way(f, open)
    BY <1>3
  <2> DEFINE g == [open \in Deep(k + 1) |-> Way(f, open)]
  <2>2. Deep(k) \subseteq Deep(k + 1)
    <3>1. \A c, m \in Nat : c < m => c < m + 1
      OBVIOUS
    <3>2. QED
      BY <1>1, <3>1
  <2>3. ASSUME NEW open \in Deep(k + 1)
        PROVE  Way(f, open) = Way(g, open)
    <3>1. \A id \in I \ open : open \cup {id} \in Deep(k)
      <4> SUFFICES ASSUME NEW id \in I \ open PROVE open \cup {id} \in Deep(k)
        OBVIOUS
      <4>1. Cardinality(I \ (open \cup {id})) = Cardinality(I \ open) - 1
        BY <1>1
      <4>2. Cardinality(I \ open) - 1 < k /\ open \cup {id} \in SUBSET I
        BY <1>1
      <4>3. QED
        BY <4>1, <4>2
    <3>2. \A id \in I \ open : g[open \cup {id}] = f[open \cup {id}]
      BY <2>1, <2>2, <3>1
    <3> HIDE DEF g, Deep
    <3>3. QED
      BY <3>2 DEF Way
  <2>4. g \in [Deep(k + 1) -> SUBSET I] /\ \A open \in Deep(k + 1) : g[open] = Way(g, open)
    <3>1. \A open \in Deep(k + 1) : Way(f, open) \in SUBSET I
      BY DEF Way
    <3> HIDE DEF Deep
    <3>2. QED
      BY <2>3, <3>1
  <2> HIDE DEF g, Deep
  <2>5. QED
    BY <2>4
<1>4. Nat \subseteq T
  <2> HIDE DEF T
  <2>1. QED
    BY <1>2, <1>3, NumberInduction
<1>5. Cardinality(I) + 1 \in T
  <2> HIDE DEF T
  <2>1. QED
    BY <1>4, FS_CardinalityType
<1> HIDE DEF Way
<1>6. PICK sound \in [Deep(Cardinality(I) + 1) -> SUBSET I] :
        \A open \in Deep(Cardinality(I) + 1) : sound[open] = Way(sound, open)
  BY <1>5
<1>7. Deep(Cardinality(I) + 1) = SUBSET I
  <2>1. \A c, m \in Nat : c <= m => c < m + 1
    OBVIOUS
  <2>2. Cardinality(I) \in Nat
    BY FS_CardinalityType
  <2>3. QED
    BY <1>1, <2>1, <2>2
<1>8. Sounds(sound, I, E)
  <2> HIDE DEF Deep
  <2>1. sound = [open \in SUBSET I |-> Way(sound, open)]
    BY <1>6, <1>7
  <2>2. QED
    BY <2>1 DEF Sounds, Way
<1>9. QED
  BY <1>8

(* When no way leads back, some node of every set leads to none of it.     *)
LEMMA SetHasSink ==
  ASSUME NEW g, IsFiniteSet(P!Ids(g)), P!NoCycle(g), NEW T, T \subseteq P!Ids(g), T # {}
  PROVE  \E id \in T : \A e \in g.edges : e.from = id => e.to \notin T
<1> DEFINE I == P!Ids(g)
<1>1. PICK sound : /\ Sounds(sound, I, g.edges)
                   /\ P!Sound(g) = sound[{}]
  <2>1. P!Sound(g) = (CHOOSE sound : Sounds(sound, I, g.edges))[{}]
    BY DEF P!Sound, Sounds
  <2>2. \E sound : Sounds(sound, I, g.edges)
    BY SoundExists
  <2>3. QED
    BY <2>1, <2>2
<1> HIDE DEF I
<1>2. SUFFICES ASSUME \A id \in T : \E e \in g.edges : e.from = id /\ e.to \in T
               PROVE  FALSE
  OBVIOUS
<1> DEFINE Met == {open \in SUBSET I : \E id \in T : id \in sound[open]}
           sizes == {Cardinality(I \ open) : open \in Met}
<1>3. \A open \in SUBSET I : sound[open] =
        {id \in I \ open : \A e \in g.edges : e.from = id => e.to \in sound[open \cup {id}]}
  BY <1>1 DEF Sounds
<1>4. {} \in Met
  BY <1>1 DEF P!NoCycle, I
<1>5. \A open \in SUBSET I :
        /\ Cardinality(I \ open) \in Nat
        /\ \A id \in I \ open : Cardinality(I \ (open \cup {id})) = Cardinality(I \ open) - 1
  BY LeftOver DEF I
<1>6. PICK open \in Met : \A other \in Met : Cardinality(I \ open) <= Cardinality(I \ other)
  <2>1. sizes \subseteq Nat /\ sizes # {}
    <3>1. Met \subseteq SUBSET I
      OBVIOUS
    <3> HIDE DEF Met
    <3>2. QED
      BY <1>4, <1>5, <3>1
  <2>2. PICK n \in sizes : \A m \in sizes : n <= m
    BY <2>1, LeastNumber
  <2>3. QED
    BY <2>2
<1>7. PICK id \in T : id \in sound[open]
  OBVIOUS
<1>8. PICK e \in g.edges : e.from = id /\ e.to \in T
  BY <1>2
<1>9. id \in I \ open /\ e.to \in sound[open \cup {id}]
  BY <1>3, <1>7, <1>8
<1>10. open \cup {id} \in Met
  BY <1>8, <1>9
<1>11. Cardinality(I \ (open \cup {id})) = Cardinality(I \ open) - 1
  BY <1>5, <1>9
<1>12. Cardinality(I \ open) <= Cardinality(I \ (open \cup {id})) /\ Cardinality(I \ open) \in Nat
  BY <1>5, <1>6, <1>10
<1>13. QED
  BY <1>11, <1>12

(* Then some node of every set is reached from none of it.                 *)
LEMMA SetHasSource ==
  ASSUME NEW I, IsFiniteSet(I), NEW E,
         \A U \in SUBSET I : U # {} => \E id \in U : \A e \in E : e.from = id => e.to \notin U,
         NEW T \in SUBSET I, T # {}
  PROVE  \E id \in T : \A e \in E : e.to = id => e.from \notin T
<1> DEFINE Source(id, U) == \A e \in E : e.to = id => e.from \notin U
           Bad == {U \in SUBSET I : U # {} /\ \A id \in U : ~Source(id, U)}
           sizes == {Cardinality(U) : U \in Bad}
<1> SUFFICES ASSUME Bad # {} PROVE FALSE
  OBVIOUS
<1>1. \A U \in SUBSET I : IsFiniteSet(U) /\ Cardinality(U) \in Nat
  BY FS_Subset, FS_CardinalityType
<1>2. PICK U \in Bad : \A V \in Bad : Cardinality(U) <= Cardinality(V)
  <2>1. Bad \subseteq SUBSET I
    OBVIOUS
  <2> HIDE DEF Bad
  <2>2. sizes \subseteq Nat /\ sizes # {}
    BY <1>1, <2>1
  <2>3. PICK n \in sizes : \A m \in sizes : n <= m
    BY <2>2, LeastNumber
  <2>4. QED
    BY <2>3
<1>3. U \in SUBSET I /\ U # {} /\ \A id \in U : ~Source(id, U)
  BY <1>2
<1>4. PICK s \in U : \A e \in E : e.from = s => e.to \notin U
  BY <1>3
<1>5. PICK V : V = U \ {s}
  OBVIOUS
<1>6. \A id \in V : ~Source(id, V)
  BY <1>3, <1>4, <1>5
<1>7. V # {}
  BY <1>3, <1>4, <1>5
<1>8. V \in Bad
  BY <1>3, <1>5, <1>6, <1>7
<1>9. Cardinality(V) = Cardinality(U) - 1
  BY <1>1, <1>3, <1>4, <1>5, FS_RemoveElement
<1>10. Cardinality(U) \in Nat /\ Cardinality(U) <= Cardinality(V)
  BY <1>1, <1>2, <1>3, <1>8
<1>11. QED
  BY <1>9, <1>10

(* A graph is fed when nothing but the order can keep its nodes waiting.   *)
Fed(g) ==
  \A n \in g.nodes :
    /\ \A e \in P!Into(g, n) :
         LET src == P!Node(g, e.from) IN
         src.kind = "router" \/ P!CanTransform(src.out, n.in, e.via)
    /\ n.kind \in P!Processing \cup {"final"} => P!Into(g, n) # {}

Ordered(g) ==
  \A T \in SUBSET P!Ids(g) :
    T # {} => \E id \in T : \A e \in g.edges : e.to = id => e.from \notin T

LEMMA FedGraphCompletes ==
  ASSUME NEW g, IsFiniteSet(P!Ids(g)), Cardinality(g.nodes) = Cardinality(P!Ids(g)),
         \A e \in g.edges : e.from \in P!Ids(g), Fed(g), Ordered(g)
  PROVE  Completable(g) = P!Ids(g)
<1> DEFINE I == P!Ids(g)
           n == Cardinality(g.nodes)
           Round(done) == {m.id : m \in {k \in g.nodes : Runs(g, k, done)}}
           step == [done \in SUBSET I |-> Round(done)]
           Done(f) == f = [k \in 0..n |-> IF k = 0 THEN {} ELSE Round(f[k-1])]
<1>1. n \in Nat
  BY FS_CardinalityType
<1>2. \A done \in SUBSET I : Round(done) \in SUBSET I
  BY DEF P!Ids
<1>3. step \in [SUBSET I -> SUBSET I]
  <2> HIDE DEF Round, I
  <2>1. QED
    BY <1>2
<1>4. PICK f \in [0..n -> SUBSET I] : Iterates(f, {}, step, n)
  <2> HIDE DEF n, step, I
  <2>1. {} \in SUBSET I
    OBVIOUS
  <2>2. QED
    BY <1>1, <1>3, <2>1, IterationExists
<1> HIDE DEF Round, I, n
<1>5. Done(f)
  <2>1. \A k \in 0..n : k # 0 => k - 1 \in 0..n
    BY <1>1
  <2>2. QED
    BY <1>4, <2>1 DEF Iterates
<1>6. Completable(g) = (CHOOSE d : Done(d))[n]
  BY DEF Completable, Round, n
<1>7. PICK d : Done(d) /\ Completable(g) = d[n]
  <2> HIDE DEF Done
  <2>1. QED
    BY <1>5, <1>6
<1>8. d[0] = {} /\ \A k \in 1..n : d[k] = Round(d[k-1])
  <2>1. d = [k \in 0..n |-> IF k = 0 THEN {} ELSE Round(d[k-1])]
    BY <1>7
  <2>2. 0 \in 0..n
    BY <1>1
  <2>3. ASSUME NEW k \in 1..n
        PROVE  d[k] = Round(d[k-1])
    <3>1. k \in 0..n /\ k # 0
      BY <1>1
    <3> HIDE DEF Done
    <3>2. QED
      BY <2>1, <3>1
  <2>4. QED
    BY <2>1, <2>2, <2>3
<1>9. ASSUME NEW T \in SUBSET I, NEW U \in SUBSET I, T \subseteq U
      PROVE  Round(T) \subseteq Round(U)
  BY <1>9 DEF Round, Runs
<1>10. ASSUME NEW T \in SUBSET I, T # I
       PROVE  \E id \in I \ T : id \in Round(T)
  <2>1. PICK id \in I \ T : \A e \in g.edges : e.to = id => e.from \notin I \ T
    BY <1>10 DEF Ordered, I
  <2>2. PICK m \in g.nodes : m.id = id
    BY DEF I, P!Ids
  <2>3. \A e \in P!Into(g, m) : e.from \in T
    BY <2>1, <2>2 DEF P!Into, I
  <2>4. Runs(g, m, T)
    BY <2>3 DEF Fed, Runs
  <2>5. QED
    BY <2>2, <2>4 DEF Round
<1>11. ASSUME NEW T \in SUBSET I
       PROVE  IsFiniteSet(T) /\ Cardinality(T) \in Nat
  BY FS_Subset, FS_CardinalityType DEF I
<1> DEFINE Good == {k \in 0..n : /\ d[k] \in SUBSET I
                                 /\ d[k] = I \/ k <= Cardinality(d[k])
                                 /\ k # n => d[k] \subseteq d[k+1]}
<1>12. 0..n \subseteq Good
  <2>1. 0 \in Good
    <3>1. d[0] = {} /\ 0 \in 0..n
      BY <1>1, <1>8
    <3>2. 0 <= Cardinality(d[0])
      BY <3>1, FS_EmptySet
    <3>3. QED
      BY <3>1, <3>2
  <2>2. ASSUME NEW k \in 1..n, k - 1 \in Good
        PROVE  k \in Good
    <3>1. d[k-1] \in SUBSET I /\ d[k-1] \subseteq d[k] /\ d[k] = Round(d[k-1])
          /\ (d[k-1] = I \/ k - 1 <= Cardinality(d[k-1]))
      BY <1>1, <1>8, <2>2
    <3>2. d[k] \in SUBSET I
      BY <3>1, <1>2 DEF Round
    <3>3. k # n => d[k] \subseteq d[k+1]
      <4>1. k # n => k + 1 \in 1..n /\ (k + 1) - 1 = k
        BY <1>1
      <4>2. k # n => d[k+1] = Round(d[k])
        BY <4>1, <1>8
      <4>3. QED
        BY <1>9, <3>1, <3>2, <4>2
    <3>4. CASE d[k-1] = I
      BY <3>1, <3>2, <3>3, <3>4
    <3>5. CASE d[k-1] # I /\ k - 1 <= Cardinality(d[k-1])
      <4>1. PICK id \in I \ d[k-1] : id \in d[k]
        BY <1>10, <3>1, <3>5
      <4>2. PICK T : T = d[k-1] \cup {id}
        OBVIOUS
      <4>3. IsFiniteSet(d[k-1]) /\ Cardinality(d[k-1]) \in Nat
        BY <1>11, <3>1
      <4>4. Cardinality(T) = Cardinality(d[k-1]) + 1
        BY <4>1, <4>2, <4>3, FS_AddElement
      <4>5. IsFiniteSet(d[k]) /\ Cardinality(d[k]) \in Nat /\ T \subseteq d[k]
        BY <1>11, <3>1, <3>2, <4>1, <4>2
      <4>6. Cardinality(T) <= Cardinality(d[k])
        BY <4>5, FS_Subset
      <4>7. k <= Cardinality(d[k])
        BY <3>5, <4>3, <4>4, <4>5, <4>6
      <4>8. QED
        BY <3>2, <3>3, <4>7
    <3>6. QED
      BY <3>1, <3>4, <3>5
  <2>3. QED
    <3> HIDE DEF Good
    <3>1. QED
      BY <1>1, <2>1, <2>2, IntervalInduction
<1>13. d[n] \in SUBSET I /\ (d[n] = I \/ n <= Cardinality(d[n]))
  BY <1>1, <1>12
<1>14. d[n] = I
  <2>1. n = Cardinality(I)
    BY DEF n, I
  <2>2. IsFiniteSet(I)
    BY DEF I
  <2>3. Cardinality(d[n]) <= Cardinality(I) /\ Cardinality(d[n]) \in Nat
    BY <1>11, <1>13, <2>2, FS_Subset
  <2>4. QED
    BY <1>1, <1>13, <2>1, <2>2, <2>3, FS_Subset
<1>15. QED
  BY <1>7, <1>14 DEF I

(* The nodes and edges of a proposal, made complete.                       *)
Full(p) == P!WithFinal(P!WithIntent([i \in DOMAIN p.nodes |-> P!Recovered(p.nodes[i])]), p.edges)
List(p) == Full(p).nodes
Links(p) == {d \in P!Wired(List(p), Full(p).edges) : {d.from, d.to} \subseteq P!Named(List(p))}

LEMMA ListIsSequence ==
  ASSUME NEW p, IsProposal(p)
  PROVE  Len(List(p)) \in Nat /\ DOMAIN List(p) = 1..Len(List(p))
<1> DEFINE N0 == [i \in DOMAIN p.nodes |-> P!Recovered(p.nodes[i])]
           first == P!Bare(RootPrompt, "intent", None)
           last == P!Bare(Answer, "final", None)
           S == {N0[i] : i \in DOMAIN p.nodes} \cup {first, last}
<1>1. N0 \in Seq(S)
  <2>1. \A i \in 1..Len(p.nodes) : N0[i] \in S
    BY DEF IsProposal
  <2>2. DOMAIN N0 = 1..Len(p.nodes)
    BY DEF IsProposal
  <2>3. N0 = [i \in 1..Len(p.nodes) |-> N0[i]]
    BY <2>2
  <2> HIDE DEF N0, S
  <2>4. QED
    BY <2>1, <2>2, <2>3 DEF IsProposal
<1>2. first \in S /\ last \in S
  OBVIOUS
<1> HIDE DEF N0, S, first, last
<1>3. P!WithIntent(N0) \in Seq(S)
  <2>1. P!WithIntent(N0) = N0 \/ P!WithIntent(N0) = <<first>> \o N0
    BY DEF P!WithIntent, first
  <2>2. <<first>> \in Seq(S)
    BY <1>2
  <2>3. <<first>> \o N0 \in Seq(S)
    BY <1>1, <2>2
  <2>4. QED
    BY <1>1, <2>1, <2>3
<1>4. List(p) = P!WithIntent(N0) \/ List(p) = Append(P!WithIntent(N0), last)
  BY DEF List, Full, P!WithFinal, last, N0
<1>5. List(p) \in Seq(S)
  BY <1>2, <1>3, <1>4
<1>6. QED
  BY <1>5

(* The node record of place i, and the place of a name.                    *)
Entry(p, i, id) ==
  [id |-> id, name |-> List(p)[i].name, kind |-> List(p)[i].kind, tool |-> List(p)[i].tool, place |-> i,
   in |-> P!InSchema(List(p)[i]), out |-> P!OutSchema(List(p)[i])]

Place(p, name) ==
  CHOOSE i \in DOMAIN List(p) : /\ List(p)[i].name = name
                                /\ \A j \in DOMAIN List(p) : List(p)[j].name = name => j <= i

Distinct(p) == \A i, j \in DOMAIN List(p) : List(p)[i].name = List(p)[j].name => i = j

LEMMA PlaceOfName ==
  ASSUME NEW p, IsProposal(p), Distinct(p)
  PROVE  /\ \A i \in DOMAIN List(p) : Place(p, List(p)[i].name) = i
         /\ \A name \in P!Named(List(p)) : /\ Place(p, name) \in DOMAIN List(p)
                                           /\ List(p)[Place(p, name)].name = name
<1>1. \A i, j \in DOMAIN List(p) : i = j => j <= i
  BY ListIsSequence
<1>2. ASSUME NEW i \in DOMAIN List(p)
      PROVE  Place(p, List(p)[i].name) = i
  BY <1>1 DEF Place, Distinct
<1>3. QED
  BY <1>2 DEF P!Named

LEMMA GraphShape ==
  ASSUME NEW p, IsProposal(p), Distinct(p)
  PROVE  /\ P!DryRun(p).nodes = {Entry(p, i, List(p)[i].name) : i \in DOMAIN List(p)}
         /\ P!Persisted(p).nodes = {Entry(p, i, i) : i \in DOMAIN List(p)}
         /\ P!DryRun(p).edges =
              {[from |-> d.from, to |-> d.to, via |-> d.via, branch |-> d.branch] : d \in Links(p)}
         /\ P!Persisted(p).edges =
              {[from |-> Place(p, d.from), to |-> Place(p, d.to), via |-> d.via, branch |-> d.branch] : d \in Links(p)}
<1>1. /\ P!DryRun(p).nodes = {Entry(p, i, List(p)[i].name) : i \in DOMAIN List(p)}
      /\ P!Persisted(p).nodes = {Entry(p, i, i) : i \in DOMAIN List(p)}
  BY DEF P!DryRun, P!Persisted, P!Graph, Entry, List, Full
<1>2. P!Persisted(p).edges =
        {[from |-> Place(p, d.from), to |-> Place(p, d.to), via |-> d.via, branch |-> d.branch] : d \in Links(p)}
  BY DEF P!Persisted, P!Graph, Place, List, Full, Links
<1>3. P!DryRun(p).edges =
        {[from |-> List(p)[Place(p, d.from)].name, to |-> List(p)[Place(p, d.to)].name, via |-> d.via, branch |-> d.branch] : d \in Links(p)}
  BY SMTT(60) DEF P!DryRun, P!Graph, Place, List, Full, Links
<1>4. \A d \in Links(p) : /\ List(p)[Place(p, d.from)].name = d.from
                          /\ List(p)[Place(p, d.to)].name = d.to
  <2>1. \A d \in Links(p) : d.from \in P!Named(List(p)) /\ d.to \in P!Named(List(p))
    BY DEF Links
  <2>2. QED
    BY <2>1, PlaceOfName
<1>5. QED
  BY <1>1, <1>2, <1>3, <1>4

LEMMA GraphIds ==
  ASSUME NEW p, IsProposal(p), Distinct(p)
  PROVE  /\ P!Ids(P!Persisted(p)) = DOMAIN List(p)
         /\ P!Ids(P!DryRun(p)) = P!Named(List(p))
         /\ IsFiniteSet(DOMAIN List(p)) /\ IsFiniteSet(P!Named(List(p)))
         /\ Cardinality(P!Persisted(p).nodes) = Cardinality(DOMAIN List(p))
<1> DEFINE D == DOMAIN List(p)
           h == P!Persisted(p)
           g == P!DryRun(p)
<1>1. \A i \in D : Entry(p, i, i).id = i /\ Entry(p, i, List(p)[i].name).id = List(p)[i].name
  BY DEF Entry
<1>2. h.nodes = {Entry(p, i, i) : i \in D} /\ g.nodes = {Entry(p, i, List(p)[i].name) : i \in D}
  BY GraphShape
<1>3. P!Ids(h) = D
  <2> HIDE DEF D, h
  <2>1. QED
    BY <1>1, <1>2 DEF P!Ids
<1>4. P!Ids(g) = P!Named(List(p))
  <2> HIDE DEF g
  <2>1. QED
    BY <1>1, <1>2 DEF P!Ids, P!Named
<1>5. IsFiniteSet(D)
  BY ListIsSequence, FS_Interval
<1>6. IsFiniteSet(P!Named(List(p)))
  <2> DEFINE f == [i \in D |-> List(p)[i].name]
  <2>1. f \in Surjection(D, P!Named(List(p)))
    BY DEF Surjection, P!Named
  <2>2. QED
    BY <1>5, <2>1, FS_Surjection
<1>7. Cardinality(h.nodes) = Cardinality(D)
  <2> DEFINE f == [i \in D |-> Entry(p, i, i)]
  <2> HIDE DEF h, D
  <2>1. \A i, j \in D : f[i] = f[j] => i = j
    BY <1>1
  <2>2. f \in Surjection(D, h.nodes)
    BY <1>2 DEF Surjection
  <2>3. f \in Injection(D, h.nodes)
    BY <1>2, <2>1 DEF Injection, IsInjective
  <2> HIDE DEF f
  <2>4. QED
    BY <1>5, <2>2, <2>3, FS_Surjection
<1>8. QED
  BY <1>3, <1>4, <1>5, <1>6, <1>7

LEMMA EdgesOf ==
  ASSUME NEW p, IsProposal(p), Distinct(p)
  PROVE  /\ \A d \in Links(p) :
              /\ \E f \in P!DryRun(p).edges : f.from = d.from /\ f.to = d.to /\ f.via = d.via
              /\ \E e \in P!Persisted(p).edges : e.to = Place(p, d.to)
         /\ \A f \in P!DryRun(p).edges : \E d \in Links(p) : f.to = d.to
         /\ \A e \in P!Persisted(p).edges : \E d \in Links(p) :
              /\ e.from = Place(p, d.from) /\ e.to = Place(p, d.to) /\ e.via = d.via
              /\ {e.from, e.to} \subseteq DOMAIN List(p)
              /\ List(p)[e.from].name = d.from /\ List(p)[e.to].name = d.to
<1> DEFINE dry(d) == [from |-> d.from, to |-> d.to, via |-> d.via, branch |-> d.branch]
           wet(d) == [from |-> Place(p, d.from), to |-> Place(p, d.to), via |-> d.via, branch |-> d.branch]
<1>1. P!DryRun(p).edges = {dry(d) : d \in Links(p)} /\ P!Persisted(p).edges = {wet(d) : d \in Links(p)}
  BY GraphShape
<1>2. \A d : /\ dry(d).from = d.from /\ dry(d).to = d.to /\ dry(d).via = d.via
             /\ wet(d).from = Place(p, d.from) /\ wet(d).to = Place(p, d.to) /\ wet(d).via = d.via
  OBVIOUS
<1>3. \A d \in Links(p) : /\ {Place(p, d.from), Place(p, d.to)} \subseteq DOMAIN List(p)
                          /\ List(p)[Place(p, d.from)].name = d.from
                          /\ List(p)[Place(p, d.to)].name = d.to
  <2>1. \A d \in Links(p) : d.from \in P!Named(List(p)) /\ d.to \in P!Named(List(p))
    BY DEF Links
  <2>2. QED
    BY <2>1, PlaceOfName
<1> HIDE DEF dry, wet
<1>4. QED
  BY <1>1, <1>2, <1>3

LEMMA EntryOf ==
  ASSUME NEW p, IsProposal(p), Distinct(p), NEW i \in DOMAIN List(p)
  PROVE  /\ P!Node(P!DryRun(p), List(p)[i].name) = Entry(p, i, List(p)[i].name)
         /\ P!Node(P!Persisted(p), i) = Entry(p, i, i)
<1>0. i <= i
  BY ListIsSequence
<1>1. /\ \A j \in DOMAIN List(p) : Entry(p, j, j).id = j
      /\ \A j \in DOMAIN List(p) : Entry(p, j, List(p)[j].name).id = List(p)[j].name
      /\ \A j \in DOMAIN List(p) : Entry(p, j, List(p)[j].name).place = j /\ Entry(p, j, j).place = j
  BY DEF Entry
<1>2. P!Node(P!DryRun(p), List(p)[i].name) = Entry(p, i, List(p)[i].name)
  <2>1. \A n \in P!DryRun(p).nodes : n.id = List(p)[i].name => n = Entry(p, i, List(p)[i].name)
    BY GraphShape, <1>1 DEF Distinct
  <2>2. Entry(p, i, List(p)[i].name) \in P!DryRun(p).nodes
    BY GraphShape
  <2>3. QED
    BY <2>1, <2>2, <1>0, <1>1 DEF P!Node
<1>3. P!Node(P!Persisted(p), i) = Entry(p, i, i)
  <2>1. \A n \in P!Persisted(p).nodes : n.id = i => n = Entry(p, i, i)
    BY GraphShape, <1>1
  <2>2. Entry(p, i, i) \in P!Persisted(p).nodes
    BY GraphShape
  <2>3. QED
    BY <2>1, <2>2, <1>0, <1>1 DEF P!Node
<1>4. QED
  BY <1>2, <1>3

(* What is saved is ordered and fed because the dry run was accepted.      *)
LEMMA SavedIsOrdered ==
  ASSUME NEW p, IsProposal(p), Distinct(p), P!NoCycle(P!DryRun(p))
  PROVE  Ordered(P!Persisted(p))
<1> DEFINE g == P!DryRun(p)
           h == P!Persisted(p)
           N == List(p)
           D == DOMAIN N
<1>1. P!Ids(h) = D /\ P!Ids(g) = {N[i].name : i \in D} /\ IsFiniteSet(P!Ids(g))
  BY GraphIds DEF P!Named
<1>2. \A U \in SUBSET P!Ids(g) :
        U # {} => \E id \in U : \A e \in g.edges : e.from = id => e.to \notin U
  BY <1>1, SetHasSink
<1>3. \A U \in SUBSET P!Ids(g) :
        U # {} => \E id \in U : \A e \in g.edges : e.to = id => e.from \notin U
  <2> HIDE DEF g
  <2>1. QED
    BY <1>1, <1>2, SetHasSource
<1> SUFFICES ASSUME NEW T \in SUBSET D, T # {}
             PROVE  \E i \in T : \A e \in h.edges : e.to = i => e.from \notin T
  BY <1>1 DEF Ordered
<1> DEFINE U == {N[i].name : i \in T}
<1>4. PICK id \in U : \A e \in g.edges : e.to = id => e.from \notin U
  <2>1. U \in SUBSET P!Ids(g) /\ U # {}
    BY <1>1
  <2> HIDE DEF U, g
  <2>2. QED
    BY <1>3, <2>1
<1>5. PICK i \in T : id = N[i].name
  OBVIOUS
<1>6. ASSUME NEW e \in h.edges, e.to = i
      PROVE  e.from \notin T
  <2>1. PICK d \in Links(p) : e.from \in D /\ N[e.from].name = d.from /\ N[i].name = d.to
    BY <1>6, EdgesOf
  <2>2. PICK f \in g.edges : f.from = d.from /\ f.to = id
    BY <1>5, <2>1, EdgesOf
  <2>3. d.from \notin U
    BY <1>4, <2>2
  <2>4. QED
    BY <2>1, <2>3
<1>7. QED
  BY <1>6

LEMMA SavedIsFed ==
  ASSUME NEW p, IsProposal(p), Distinct(p), P!EdgesFit(P!DryRun(p)), P!PortsSatisfied(P!DryRun(p))
  PROVE  Fed(P!Persisted(p))
<1> DEFINE g == P!DryRun(p)
           h == P!Persisted(p)
           N == List(p)
           D == DOMAIN N
<1> SUFFICES ASSUME NEW i \in D
             PROVE  LET n == Entry(p, i, i) IN
                    /\ \A e \in P!Into(h, n) :
                         LET src == P!Node(h, e.from) IN
                         src.kind = "router" \/ P!CanTransform(src.out, n.in, e.via)
                    /\ n.kind \in P!Processing \cup {"final"} => P!Into(h, n) # {}
  BY GraphShape DEF Fed
<1> DEFINE n == Entry(p, i, i)
           m == Entry(p, i, N[i].name)
<1>1. n.id = i /\ m.id = N[i].name /\ n.kind = m.kind /\ n.in = m.in /\ m \in g.nodes
  BY GraphShape DEF Entry
<1>2. ASSUME NEW e \in P!Into(h, n)
      PROVE  P!Node(h, e.from).kind = "router" \/ P!CanTransform(P!Node(h, e.from).out, n.in, e.via)
  <2>1. e \in h.edges /\ e.to = i
    BY <1>1 DEF P!Into
  <2>2. PICK d \in Links(p) : /\ e.from \in D /\ N[e.from].name = d.from
                              /\ N[i].name = d.to /\ e.via = d.via
    BY <2>1, EdgesOf
  <2>3. PICK j \in D : j = e.from /\ N[j].name = d.from
    BY <2>2
  <2>4. d.to = N[i].name
    BY <2>2
  <2>5. PICK f \in g.edges : f.from = d.from /\ f.to = d.to /\ f.via = d.via
    BY EdgesOf
  <2>6. P!Node(h, e.from) = Entry(p, j, j) /\ P!Node(g, f.from) = Entry(p, j, N[j].name) /\ P!Node(g, f.to) = m
    BY <2>3, <2>4, <2>5, EntryOf
  <2>7. /\ Entry(p, j, j).kind = Entry(p, j, N[j].name).kind
        /\ Entry(p, j, j).out = Entry(p, j, N[j].name).out
    BY DEF Entry
  <2>8. P!Node(g, f.from).out # None /\ P!Node(g, f.to).in # None
    BY <2>5 DEF P!PortsSatisfied
  <2>9. P!Node(g, f.from).kind = "router" \/ P!CanTransform(P!Node(g, f.from).out, P!Node(g, f.to).in, f.via)
    BY <2>5, <2>8 DEF P!EdgesFit
  <2>10. e.via = f.via
    BY <2>2, <2>5
  <2> HIDE DEF n, m, g, h
  <2>11. QED
    BY <1>1, <2>6, <2>7, <2>9, <2>10
<1>3. ASSUME n.kind \in P!Processing \cup {"final"}
      PROVE  P!Into(h, n) # {}
  <2>1. P!Into(g, m) # {}
    BY <1>1, <1>3 DEF P!PortsSatisfied
  <2>2. PICK f \in g.edges : f.to = N[i].name
    BY <1>1, <2>1 DEF P!Into
  <2>3. PICK d \in Links(p) : d.to = N[i].name
    BY <2>2, EdgesOf
  <2>4. PICK e \in h.edges : e.to = i
    BY <2>3, EdgesOf, PlaceOfName
  <2>5. QED
    BY <1>1, <2>4 DEF P!Into
<1>4. QED
  BY <1>2, <1>3

LEMMA SavedIsExecutable ==
  ASSUME NEW p, IsProposal(p), P!Accepted(p), UniqueNames(P!Persisted(p))
  PROVE  Executable(P!Persisted(p))
<1> DEFINE h == P!Persisted(p)
           D == DOMAIN List(p)
<1>1. Distinct(p)
  <2>1. ASSUME NEW i \in D, NEW j \in D, List(p)[i].name = List(p)[j].name
        PROVE  i = j
    <3>1. Entry(p, i, i) \in h.nodes /\ Entry(p, j, j) \in h.nodes
      BY DEF P!Persisted, P!Graph, Entry, List, Full
    <3>2. Entry(p, i, i).name = Entry(p, j, j).name
      BY <2>1 DEF Entry
    <3>3. Entry(p, i, i) = Entry(p, j, j)
      BY <3>1, <3>2 DEF UniqueNames
    <3>4. Entry(p, i, i).id = i /\ Entry(p, j, j).id = j
      BY DEF Entry
    <3>5. QED
      BY <3>3, <3>4
  <2>2. QED
    BY <2>1 DEF Distinct
<1>2. /\ P!EdgesFit(P!DryRun(p)) /\ P!PortsSatisfied(P!DryRun(p)) /\ P!HasFinal(P!DryRun(p))
      /\ P!NoCycle(P!DryRun(p))
  BY DEF P!Accepted
<1>3. P!Ids(h) = D /\ h.nodes = {Entry(p, i, i) : i \in D}
  BY <1>1, GraphIds, GraphShape
<1>4. IsFiniteSet(D) /\ Cardinality(h.nodes) = Cardinality(D)
  BY <1>1, GraphIds
<1>5. \A e \in h.edges : e.from \in P!Ids(h)
  BY <1>1, <1>3, EdgesOf
<1>6. Completable(h) = P!Ids(h)
  <2>1. Fed(h) /\ Ordered(h)
    BY <1>1, <1>2, SavedIsFed, SavedIsOrdered
  <2> HIDE DEF h
  <2>2. QED
    BY <1>3, <1>4, <1>5, <2>1, FedGraphCompletes
<1>7. \E n \in h.nodes : n.kind = "final"
  <2>1. PICK i \in D : Entry(p, i, List(p)[i].name).kind = "final"
    BY <1>1, <1>2, GraphShape DEF P!HasFinal
  <2>2. Entry(p, i, i).kind = "final" /\ Entry(p, i, i) \in h.nodes
    BY <1>3, <2>1 DEF Entry
  <2>3. QED
    BY <2>2
<1>8. QED
  BY <1>6, <1>7 DEF Executable

(* A persisted task graph whose nodes have names of their own can be       *)
(* executed to its end: every node gets its turn, with the input it wants  *)
(* and in its schema, although only the dry run was validated and          *)
(* _normalize is called a second time with other ids.                      *)
THEOREM SavedGraphsRun == Spec => []PersistedIsExecutable
<1>1. TypeOK => PersistedIsExecutable
  <2> SUFFICES ASSUME TypeOK, NEW t \in Turn, taskGraph[t] # None, UniqueNames(SavedGraph(t))
               PROVE  Executable(SavedGraph(t))
    BY DEF PersistedIsExecutable
  <2>1. taskGraph[t] \in Replies /\ Valid(taskGraph[t])
    BY DEF TypeOK
  <2>2. Acceptable(taskGraph[t])
    BY <2>1, ValidAssumption
  <2>3. IsProposal(taskGraph[t]) /\ P!Accepted(taskGraph[t])
    BY <2>1, <2>2, ProposalAssumption DEF Acceptable
  <2>4. QED
    BY <2>3, SavedIsExecutable DEF SavedGraph
<1>2. QED
  BY <1>1, TypeCorrect, PTL
=============================================================================
