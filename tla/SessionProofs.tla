--------------------------- MODULE SessionProofs ----------------------------
(***************************************************************************)
(* No storage call of planner-mode chat is refused, its follows_up edges   *)
(* are those of consecutive answered turns, and /export gives every        *)
(* question its own answer: for every script of prompts and commands,      *)
(* every shape of a graph, and a crash or an error anywhere. And what is   *)
(* remembered as an answer is the last output of its run's final nodes.    *)
(*                                                                         *)
(* Database and Memory say what every state of the two backends is like,   *)
(* and Fine(c, K, n) that the call c can be made at time n where the rows  *)
(* K are. A call that is Fine keeps both (CallKeeps, MemoryCallKeeps), and *)
(* so does a sequence of them, which is a fold (DatabaseSteps,             *)
(* MemorySteps, EdgeSteps). It is left to show of each action that its     *)
(* calls are Fine: the rows they need are those its phase relies on        *)
(* (Known), which stay where they are because no call deletes one.         *)
(*                                                                         *)
(* Of the calls, only LinkFollowsUp's adds to the links. Logged joins      *)
(* these with the history: what is linked is what the history has in a     *)
(* row, but for the edge that is about to be made, or that a crash has     *)
(* kept from being made. An edge is new because its id has the time in it: *)
(* INSERT never finds one of that id (LinkIsNew).                          *)
(*                                                                         *)
(* Only StoreQuestion and StoreAnswer add to what has been said. Spoken    *)
(* says that it is in the order of the turns, a question before its        *)
(* answer, so that the oldest answer after a question is its own.          *)
(*                                                                         *)
(* What is remembered as an answer is what its run has produced last.      *)
(* Truthful says so, and that what the final nodes of the current turn     *)
(* have made is what their rows have (Covered). It rests on Tidy: rows and *)
(* artifacts are told apart by their ids, and belong to the turn that is   *)
(* in these. The calls of a turn keep Tidy (OfTurn, CallsOfTurn); those    *)
(* that are Mild leave what is Covered as it is (CoveredStill), and only   *)
(* the last ones of a node settle a row (EndSettles). What is asked of     *)
(* other turns is as it was (EarlierStays).                                *)
(***************************************************************************)
EXTENDS Session, Induction, FiniteSetTheorems

Parent == {"workspace_graphs", "task_graphs", "runs"}

(* Rows (table and id) that are in a database, and in memory.              *)
Holds(d, K) == \A k \in K : k[1] \in Parent /\ P!Has(d, k[1], k[2])
Keeps(m, K) == \A k \in K : k[1] \in Parent /\ k[2] \in DOMAIN m[k[1]]

RunFields == {"id", "workspace", "graph", "status", "pc"}
ArtifactFields == {"id", "run", "node", "port", "content", "key", "inputs", "at"}

(* A database in which nothing is newer than n.                            *)
Database(d, n) ==
  /\ DOMAIN d = P!Table \cup {"raised"} /\ d = [t \in DOMAIN d |-> d[t]]
  /\ d.raised = FALSE
  /\ IsFiniteSet(d.nodes) /\ IsFiniteSet(d.task_edges)
  /\ \A g \in d.task_graphs : g.workspace = W
  /\ \A r \in d.runs : DOMAIN r = RunFields
  /\ \A a \in d.artifacts : DOMAIN a = ArtifactFields /\ a.at \in 0..n
  /\ \A e \in d.workspace_edges : \E m \in 0..n : e.id = <<"link", e.type, m>>
  /\ IsFiniteSet(d.memory_items)
  /\ \A m \in d.memory_items : m.id = <<"item", m.at>> /\ m.at \in 0..n

Memory(m) ==
  /\ DOMAIN m = M!Dictionary \cup {"compilation_failures", "artifact_cache", "few_shots", "raised"}
  /\ m = [t \in DOMAIN m |-> m[t]]
  /\ m.raised = FALSE

(* The calls that write.                                                   *)
Ops == {"create_workspace_graph", "persist_task_graph", "create_run", "update_run",
        "create_run_node_state", "update_run_node_state", "persist_task_edge",
        "persist_workspace_edge", "persist_artifact", "persist_goal", "update_goal",
        "persist_checkpoint", "persist_tool_call", "persist_model_call", "persist_memory_item",
        "persist_compilation_failure", "persist_embedding", "attach_item"}

(* The rows a call wants to find, and those it leaves.                     *)
Needs(c) ==
  CASE c.op = "persist_task_graph" -> {<<"workspace_graphs", c.row.workspace>>}
    [] c.op \in {"create_run", "persist_task_edge"} -> {<<"task_graphs", c.row.graph>>}
    [] c.op = "update_run" -> {<<"runs", c.row.id>>}
    [] c.op \in {"create_run_node_state", "persist_artifact", "persist_checkpoint",
                 "persist_tool_call", "persist_model_call"} -> {<<"runs", c.row.run>>}
    [] OTHER -> {}

Gives(c) ==
  CASE c.op = "create_workspace_graph" -> {<<"workspace_graphs", c.row.id>>}
    [] c.op = "persist_task_graph" -> {<<"task_graphs", c.row.id>>}
    [] c.op = "create_run" -> {<<"runs", c.row.id>>}
    [] OTHER -> {}

(* A call that can be made at time n where the rows K are.                 *)
Fine(c, K, n) ==
  /\ c.op \in Ops /\ Needs(c) \subseteq K
  /\ c.op = "persist_task_graph" =>
       c.row.workspace = W /\ IsFiniteSet(c.row.nodes) /\ IsFiniteSet(c.row.edges)
  /\ c.op \in {"create_run", "update_run"} => DOMAIN c.row = RunFields
  /\ c.op = "persist_artifact" => DOMAIN c.row = ArtifactFields /\ c.row.at \in 0..n
  /\ c.op = "persist_workspace_edge" => c.row.id = <<"link", c.row.type, n>>
  /\ c.op = "persist_memory_item" => c.row.id = <<"item", c.row.at>> /\ c.row.at \in 0..n

(* The follows_up edges there are, and what has been said; and the calls   *)
(* that add to these.                                                      *)
Voice == {"user_question", "assistant_answer"}
Told(d) == <<{<<e.from, e.to>> : e \in {f \in d.workspace_edges : f.type = "follows_up"}},
             {m \in d.memory_items : m.kind \in Voice}>>

Tells(c) == \/ c.op = "persist_workspace_edge" /\ c.row.type = "follows_up"
            \/ c.op = "persist_memory_item" /\ c.row.kind \in Voice

-----------------------------------------------------------------------------

(* What a database becomes, call by call.                                  *)
LEMMA DatabaseSteps ==
  ASSUME NEW Calls, NEW calls \in Seq(Calls), NEW d
  PROVE  \E v : /\ v[0] = d
                /\ \A k \in 1..Len(calls) : v[k] = P!Call(v[k-1], calls[k])
                /\ P!After(d, calls) = v[Len(calls)]
<1> DEFINE n == Len(calls)
           Fold(it, m) == it = [s \in SUBSET (1..m) |->
                                  IF s = {} THEN d ELSE P!Call(it[s \ {Max(s)}], calls[Max(s)])]
           T == {m \in Nat : m <= n => \E it : Fold(it, m)}
<1> HIDE DEF Fold
<1>1. n \in Nat /\ DOMAIN calls = 1..n
  OBVIOUS
<1>2. 0 \in T
  <2> DEFINE it == [s \in SUBSET (1..0) |-> d]
  <2>1. SUBSET (1..0) = {{}}
    OBVIOUS
  <2>2. it = [s \in SUBSET (1..0) |->
                IF s = {} THEN d ELSE P!Call(it[s \ {Max(s)}], calls[Max(s)])]
    BY <2>1
  <2>3. Fold(it, 0)
    BY <2>2 DEF Fold
  <2>4. QED
    BY <2>3
<1>3. ASSUME NEW m \in Nat, m \in T
      PROVE  m + 1 \in T
  <2> SUFFICES ASSUME m + 1 <= n PROVE \E it : Fold(it, m + 1)
    OBVIOUS
  <2>1. PICK g : Fold(g, m)
    BY <1>1, <1>3
  <2> DEFINE it == [s \in SUBSET (1..m+1) |->
                      IF m + 1 \in s THEN P!Call(g[s \ {m + 1}], calls[m + 1]) ELSE g[s]]
  <2>2. ASSUME NEW s \in SUBSET (1..m+1)
        PROVE  it[s] = IF s = {} THEN d ELSE P!Call(it[s \ {Max(s)}], calls[Max(s)])
    <3>1. CASE m + 1 \in s
      <4>1. Max(s) = m + 1
        <5>1. m + 1 \in Nat /\ s # {}
          BY <3>1
        <5>2. Max(s) \in s /\ m + 1 <= Max(s)
          BY <3>1, <5>1, MaxOfNumbers
        <5>3. Max(s) \in 1..m+1
          BY <5>2
        <5>4. QED
          BY <5>2, <5>3
      <4>2. s \ {m + 1} \in SUBSET (1..m+1) /\ m + 1 \notin s \ {m + 1}
        OBVIOUS
      <4>3. it[s \ {m + 1}] = g[s \ {m + 1}]
        BY <4>2
      <4>4. it[s] = P!Call(g[s \ {m + 1}], calls[m + 1])
        BY <3>1
      <4>5. QED
        BY <3>1, <4>1, <4>3, <4>4
    <3>2. CASE m + 1 \notin s
      <4>1. s \in SUBSET (1..m) /\ s \ {Max(s)} \in SUBSET (1..m+1) /\ m + 1 \notin s \ {Max(s)}
        <5>1. \A x \in s : x \in 1..m+1 /\ x # m + 1
          BY <3>2
        <5>2. \A x \in s : x \in 1..m
          BY <5>1
        <5>3. QED
          BY <3>2, <5>2
      <4>2. it[s] = g[s] /\ it[s \ {Max(s)}] = g[s \ {Max(s)}]
        BY <3>2, <4>1
      <4>3. g[s] = IF s = {} THEN d ELSE P!Call(g[s \ {Max(s)}], calls[Max(s)])
        BY <2>1, <4>1 DEF Fold
      <4>4. QED
        BY <4>2, <4>3
    <3>3. QED
      BY <3>1, <3>2
  <2>3. Fold(it, m + 1)
    BY <2>2 DEF Fold
  <2>4. QED
    BY <2>3
<1>4. n \in T
  <2> HIDE DEF T
  <2>1. QED
    BY <1>1, <1>2, <1>3, NumberInduction
<1>5. P!After(d, calls) = (CHOOSE it : Fold(it, n))[1..n]
  BY <1>1 DEF Fold, P!After, P!FoldLeft, P!MapThenFoldSet, P!Max, Max
<1>6. PICK it : Fold(it, n) /\ P!After(d, calls) = it[1..n]
  <2>1. \E it : Fold(it, n)
    BY <1>1, <1>4
  <2>2. QED
    BY <1>5, <2>1
<1> DEFINE v == [k \in 0..n |-> it[1..k]]
<1>7. v[0] = d
  <2>1. 1..0 = {} /\ {} \in SUBSET (1..n) /\ 0 \in 0..n
    BY <1>1
  <2>2. it[{}] = d
    BY <1>6, <2>1 DEF Fold
  <2>3. QED
    BY <2>1, <2>2
<1>8. ASSUME NEW k \in 1..n
      PROVE  v[k] = P!Call(v[k-1], calls[k])
  <2>1. Max(1..k) = k /\ (1..k) \ {k} = 1..(k-1) /\ 1..k \in SUBSET (1..n) /\ 1..k # {}
    BY <1>1, LastOfInterval
  <2>2. it[1..k] = P!Call(it[1..(k-1)], calls[k])
    BY <1>6, <2>1 DEF Fold
  <2>3. QED
    BY <1>1, <2>2
<1>9. n \in 0..n /\ v[n] = P!After(d, calls)
  BY <1>1, <1>6
<1>10. QED
  <2> HIDE DEF v
  <2>1. QED
    BY <1>7, <1>8, <1>9

(* What the memory becomes, call by call.                                  *)
LEMMA MemorySteps ==
  ASSUME NEW Calls, NEW calls \in Seq(Calls), NEW mm
  PROVE  \E v : /\ v[0] = mm
                /\ \A k \in 1..Len(calls) : v[k] = M!Call(v[k-1], calls[k])
                /\ M!After(mm, calls) = v[Len(calls)]
<1> DEFINE n == Len(calls)
           Fold(it, m) == it = [s \in SUBSET (1..m) |->
                                  IF s = {} THEN mm ELSE M!Call(it[s \ {Max(s)}], calls[Max(s)])]
           T == {m \in Nat : m <= n => \E it : Fold(it, m)}
<1> HIDE DEF Fold
<1>1. n \in Nat /\ DOMAIN calls = 1..n
  OBVIOUS
<1>2. 0 \in T
  <2> DEFINE it == [s \in SUBSET (1..0) |-> mm]
  <2>1. SUBSET (1..0) = {{}}
    OBVIOUS
  <2>2. it = [s \in SUBSET (1..0) |->
                IF s = {} THEN mm ELSE M!Call(it[s \ {Max(s)}], calls[Max(s)])]
    BY <2>1
  <2>3. Fold(it, 0)
    BY <2>2 DEF Fold
  <2>4. QED
    BY <2>3
<1>3. ASSUME NEW m \in Nat, m \in T
      PROVE  m + 1 \in T
  <2> SUFFICES ASSUME m + 1 <= n PROVE \E it : Fold(it, m + 1)
    OBVIOUS
  <2>1. PICK g : Fold(g, m)
    BY <1>1, <1>3
  <2> DEFINE it == [s \in SUBSET (1..m+1) |->
                      IF m + 1 \in s THEN M!Call(g[s \ {m + 1}], calls[m + 1]) ELSE g[s]]
  <2>2. ASSUME NEW s \in SUBSET (1..m+1)
        PROVE  it[s] = IF s = {} THEN mm ELSE M!Call(it[s \ {Max(s)}], calls[Max(s)])
    <3>1. CASE m + 1 \in s
      <4>1. Max(s) = m + 1
        <5>1. m + 1 \in Nat /\ s # {}
          BY <3>1
        <5>2. Max(s) \in s /\ m + 1 <= Max(s)
          BY <3>1, <5>1, MaxOfNumbers
        <5>3. Max(s) \in 1..m+1
          BY <5>2
        <5>4. QED
          BY <5>2, <5>3
      <4>2. s \ {m + 1} \in SUBSET (1..m+1) /\ m + 1 \notin s \ {m + 1}
        OBVIOUS
      <4>3. it[s \ {m + 1}] = g[s \ {m + 1}]
        BY <4>2
      <4>4. it[s] = M!Call(g[s \ {m + 1}], calls[m + 1])
        BY <3>1
      <4>5. QED
        BY <3>1, <4>1, <4>3, <4>4
    <3>2. CASE m + 1 \notin s
      <4>1. s \in SUBSET (1..m) /\ s \ {Max(s)} \in SUBSET (1..m+1) /\ m + 1 \notin s \ {Max(s)}
        <5>1. \A x \in s : x \in 1..m+1 /\ x # m + 1
          BY <3>2
        <5>2. \A x \in s : x \in 1..m
          BY <5>1
        <5>3. QED
          BY <3>2, <5>2
      <4>2. it[s] = g[s] /\ it[s \ {Max(s)}] = g[s \ {Max(s)}]
        BY <3>2, <4>1
      <4>3. g[s] = IF s = {} THEN mm ELSE M!Call(g[s \ {Max(s)}], calls[Max(s)])
        BY <2>1, <4>1 DEF Fold
      <4>4. QED
        BY <4>2, <4>3
    <3>3. QED
      BY <3>1, <3>2
  <2>3. Fold(it, m + 1)
    BY <2>2 DEF Fold
  <2>4. QED
    BY <2>3
<1>4. n \in T
  <2> HIDE DEF T
  <2>1. QED
    BY <1>1, <1>2, <1>3, NumberInduction
<1>5. M!After(mm, calls) = (CHOOSE it : Fold(it, n))[1..n]
  BY <1>1 DEF Fold, M!After, M!FoldLeft, M!MapThenFoldSet, M!Max, Max
<1>6. PICK it : Fold(it, n) /\ M!After(mm, calls) = it[1..n]
  <2>1. \E it : Fold(it, n)
    BY <1>1, <1>4
  <2>2. QED
    BY <1>5, <2>1
<1> DEFINE v == [k \in 0..n |-> it[1..k]]
<1>7. v[0] = mm
  <2>1. 1..0 = {} /\ {} \in SUBSET (1..n) /\ 0 \in 0..n
    BY <1>1
  <2>2. it[{}] = mm
    BY <1>6, <2>1 DEF Fold
  <2>3. QED
    BY <2>1, <2>2
<1>8. ASSUME NEW k \in 1..n
      PROVE  v[k] = M!Call(v[k-1], calls[k])
  <2>1. Max(1..k) = k /\ (1..k) \ {k} = 1..(k-1) /\ 1..k \in SUBSET (1..n) /\ 1..k # {}
    BY <1>1, LastOfInterval
  <2>2. it[1..k] = M!Call(it[1..(k-1)], calls[k])
    BY <1>6, <2>1 DEF Fold
  <2>3. QED
    BY <1>1, <2>2
<1>9. n \in 0..n /\ v[n] = M!After(mm, calls)
  BY <1>1, <1>6
<1>10. QED
  <2> HIDE DEF v
  <2>1. QED
    BY <1>7, <1>8, <1>9

(* What it becomes while the edges of a graph are put into it.             *)
LEMMA EdgeSteps ==
  ASSUME NEW Calls, NEW calls \in Seq(Calls), NEW mm
  PROVE  \E v : /\ v[0] = mm
                /\ \A k \in 1..Len(calls) : v[k] = M!PersistTaskEdge(v[k-1], calls[k])
                /\ M!FoldLeft(M!PersistTaskEdge, mm, calls) = v[Len(calls)]
<1> DEFINE n == Len(calls)
           Fold(it, m) == it = [s \in SUBSET (1..m) |->
                                  IF s = {} THEN mm ELSE M!PersistTaskEdge(it[s \ {Max(s)}], calls[Max(s)])]
           T == {m \in Nat : m <= n => \E it : Fold(it, m)}
<1> HIDE DEF Fold
<1>1. n \in Nat /\ DOMAIN calls = 1..n
  OBVIOUS
<1>2. 0 \in T
  <2> DEFINE it == [s \in SUBSET (1..0) |-> mm]
  <2>1. SUBSET (1..0) = {{}}
    OBVIOUS
  <2>2. it = [s \in SUBSET (1..0) |->
                IF s = {} THEN mm ELSE M!PersistTaskEdge(it[s \ {Max(s)}], calls[Max(s)])]
    BY <2>1
  <2>3. Fold(it, 0)
    BY <2>2 DEF Fold
  <2>4. QED
    BY <2>3
<1>3. ASSUME NEW m \in Nat, m \in T
      PROVE  m + 1 \in T
  <2> SUFFICES ASSUME m + 1 <= n PROVE \E it : Fold(it, m + 1)
    OBVIOUS
  <2>1. PICK g : Fold(g, m)
    BY <1>1, <1>3
  <2> DEFINE it == [s \in SUBSET (1..m+1) |->
                      IF m + 1 \in s THEN M!PersistTaskEdge(g[s \ {m + 1}], calls[m + 1]) ELSE g[s]]
  <2>2. ASSUME NEW s \in SUBSET (1..m+1)
        PROVE  it[s] = IF s = {} THEN mm ELSE M!PersistTaskEdge(it[s \ {Max(s)}], calls[Max(s)])
    <3>1. CASE m + 1 \in s
      <4>1. Max(s) = m + 1
        <5>1. m + 1 \in Nat /\ s # {}
          BY <3>1
        <5>2. Max(s) \in s /\ m + 1 <= Max(s)
          BY <3>1, <5>1, MaxOfNumbers
        <5>3. Max(s) \in 1..m+1
          BY <5>2
        <5>4. QED
          BY <5>2, <5>3
      <4>2. s \ {m + 1} \in SUBSET (1..m+1) /\ m + 1 \notin s \ {m + 1}
        OBVIOUS
      <4>3. it[s \ {m + 1}] = g[s \ {m + 1}]
        BY <4>2
      <4>4. it[s] = M!PersistTaskEdge(g[s \ {m + 1}], calls[m + 1])
        BY <3>1
      <4>5. QED
        BY <3>1, <4>1, <4>3, <4>4
    <3>2. CASE m + 1 \notin s
      <4>1. s \in SUBSET (1..m) /\ s \ {Max(s)} \in SUBSET (1..m+1) /\ m + 1 \notin s \ {Max(s)}
        <5>1. \A x \in s : x \in 1..m+1 /\ x # m + 1
          BY <3>2
        <5>2. \A x \in s : x \in 1..m
          BY <5>1
        <5>3. QED
          BY <3>2, <5>2
      <4>2. it[s] = g[s] /\ it[s \ {Max(s)}] = g[s \ {Max(s)}]
        BY <3>2, <4>1
      <4>3. g[s] = IF s = {} THEN mm ELSE M!PersistTaskEdge(g[s \ {Max(s)}], calls[Max(s)])
        BY <2>1, <4>1 DEF Fold
      <4>4. QED
        BY <4>2, <4>3
    <3>3. QED
      BY <3>1, <3>2
  <2>3. Fold(it, m + 1)
    BY <2>2 DEF Fold
  <2>4. QED
    BY <2>3
<1>4. n \in T
  <2> HIDE DEF T
  <2>1. QED
    BY <1>1, <1>2, <1>3, NumberInduction
<1>5. M!FoldLeft(M!PersistTaskEdge, mm, calls) = (CHOOSE it : Fold(it, n))[1..n]
  BY <1>1 DEF Fold, M!FoldLeft, M!MapThenFoldSet, M!Max, Max
<1>6. PICK it : Fold(it, n) /\ M!FoldLeft(M!PersistTaskEdge, mm, calls) = it[1..n]
  <2>1. \E it : Fold(it, n)
    BY <1>1, <1>4
  <2>2. QED
    BY <1>5, <2>1
<1> DEFINE v == [k \in 0..n |-> it[1..k]]
<1>7. v[0] = mm
  <2>1. 1..0 = {} /\ {} \in SUBSET (1..n) /\ 0 \in 0..n
    BY <1>1
  <2>2. it[{}] = mm
    BY <1>6, <2>1 DEF Fold
  <2>3. QED
    BY <2>1, <2>2
<1>8. ASSUME NEW k \in 1..n
      PROVE  v[k] = M!PersistTaskEdge(v[k-1], calls[k])
  <2>1. Max(1..k) = k /\ (1..k) \ {k} = 1..(k-1) /\ 1..k \in SUBSET (1..n) /\ 1..k # {}
    BY <1>1, LastOfInterval
  <2>2. it[1..k] = M!PersistTaskEdge(it[1..(k-1)], calls[k])
    BY <1>6, <2>1 DEF Fold
  <2>3. QED
    BY <1>1, <2>2
<1>9. n \in 0..n /\ v[n] = M!FoldLeft(M!PersistTaskEdge, mm, calls)
  BY <1>1, <1>6
<1>10. QED
  <2> HIDE DEF v
  <2>1. QED
    BY <1>7, <1>8, <1>9

-----------------------------------------------------------------------------
(* The calls of PostgresStorage.                                           *)
LEMMA HasGrows ==
  ASSUME NEW d, NEW e, NEW K, Holds(d, K), \A t \in Parent : d[t] \subseteq e[t]
  PROVE  Holds(e, K)
BY DEF Holds, P!Has

(* INSERT into a table.                                                    *)
LEMMA InsertKeeps ==
  ASSUME NEW n \in Nat, NEW d, Database(d, n), NEW K, Holds(d, K),
         NEW t \in P!Table, NEW row,
         t # "nodes",
         t = "task_graphs" => row.workspace = W,
         t = "runs" => DOMAIN row = RunFields,
         t = "artifacts" => DOMAIN row = ArtifactFields /\ row.at \in 0..n,
         t = "workspace_edges" => row.id = <<"link", row.type, n>>,
         t = "memory_items" => row.id = <<"item", row.at>> /\ row.at \in 0..n
  PROVE  /\ Database(P!Insert(d, t, row), n)
         /\ Holds(P!Insert(d, t, row), K)
         /\ P!Has(P!Insert(d, t, row), t, row.id)
         /\ (t = "workspace_edges" => row.type # "follows_up")
            /\ (t = "memory_items" => row.kind \notin Voice) =>
              Told(P!Insert(d, t, row)) = Told(d)
<1>1. CASE P!Has(d, t, row.id)
  BY <1>1 DEF P!Insert
<1>2. CASE ~P!Has(d, t, row.id)
  <2> DEFINE e == [d EXCEPT ![t] = @ \cup {row}]
  <2>1. P!Insert(d, t, row) = e
    BY <1>2 DEF P!Insert
  <2>2. t # "raised"
    BY DEF P!Table
  <2>3. /\ DOMAIN e = DOMAIN d /\ e = [x \in DOMAIN e |-> e[x]]
        /\ \A x \in DOMAIN d : x # t => e[x] = d[x]
        /\ e[t] = d[t] \cup {row}
    BY DEF Database
  <2> HIDE DEF e
  <2>4. e.raised = FALSE /\ e.nodes = d.nodes
    BY <2>2, <2>3 DEF Database, P!Table
  <2>5. IsFiniteSet(e.task_edges)
    <3>1. CASE t = "task_edges"
      BY SMTT(60), <2>3, <3>1, FS_AddElement DEF Database
    <3>2. CASE t # "task_edges"
      BY <2>3, <3>2 DEF Database, P!Table
    <3>3. QED
      BY <3>1, <3>2
  <2>6. \A g \in e.task_graphs : g.workspace = W
    BY <2>3 DEF Database, P!Table
  <2>7. \A r \in e.runs : DOMAIN r = RunFields
    BY <2>3 DEF Database, P!Table
  <2>8. \A a \in e.artifacts : DOMAIN a = ArtifactFields /\ a.at \in 0..n
    BY <2>3 DEF Database, P!Table
  <2>9. \A w \in e.workspace_edges : \E m \in 0..n : w.id = <<"link", w.type, m>>
    <3>1. n \in 0..n
      OBVIOUS
    <3>2. QED
      BY <2>3, <3>1 DEF Database, P!Table
  <2>15. IsFiniteSet(e.memory_items)
    <3>1. CASE t = "memory_items"
      <4>1. IsFiniteSet(d.memory_items) /\ e.memory_items = d.memory_items \cup {row}
        BY <2>3, <3>1 DEF Database
      <4>2. QED
        BY <4>1, FS_AddElement
    <3>2. CASE t # "memory_items"
      BY <2>3, <3>2 DEF Database, P!Table
    <3>3. QED
      BY <3>1, <3>2
  <2>16. \A m \in e.memory_items : m.id = <<"item", m.at>> /\ m.at \in 0..n
    BY <2>3 DEF Database, P!Table
  <2>10. Database(e, n)
    BY <2>3, <2>4, <2>5, <2>6, <2>7, <2>8, <2>9, <2>15, <2>16 DEF Database
  <2>11. Holds(e, K)
    <3>1. \A x \in Parent : d[x] \subseteq e[x]
      BY <2>3 DEF Database, P!Table, Parent
    <3>2. QED
      BY <3>1, HasGrows
  <2>12. P!Has(e, t, row.id)
    BY <2>3 DEF P!Has
  <2>13. ASSUME t = "workspace_edges" => row.type # "follows_up",
                t = "memory_items" => row.kind \notin Voice
         PROVE  Told(e) = Told(d)
    <3>1. {f \in e.workspace_edges : f.type = "follows_up"}
            = {f \in d.workspace_edges : f.type = "follows_up"}
      BY <2>3, <2>13 DEF Database, P!Table
    <3>2. {m \in e.memory_items : m.kind \in Voice} = {m \in d.memory_items : m.kind \in Voice}
      <4> HIDE DEF Voice
      <4>1. QED
        BY <2>3, <2>13 DEF Database, P!Table
    <3>3. QED
      BY <3>1, <3>2 DEF Told
  <2>14. QED
    BY <2>1, <2>10, <2>11, <2>12, <2>13
<1>3. QED
  BY <1>1, <1>2

(* UPDATE of a table.                                                      *)
LEMMA UpdateKeeps ==
  ASSUME NEW n \in Nat, NEW d, Database(d, n), NEW K, Holds(d, K),
         NEW t \in {"runs", "run_node_states", "goals"}, NEW row,
         t = "runs" => DOMAIN row = RunFields
  PROVE  /\ Database(P!Update(d, t, row), n)
         /\ Holds(P!Update(d, t, row), K)
         /\ Told(P!Update(d, t, row)) = Told(d)
<1> DEFINE e == P!Update(d, t, row)
<1>1. /\ DOMAIN e = DOMAIN d /\ e = [x \in DOMAIN e |-> e[x]]
      /\ \A x \in DOMAIN d : x # t => e[x] = d[x]
      /\ e[t] = {IF r.id = row.id THEN row ELSE r : r \in d[t]}
  BY DEF Database, P!Update, P!Table
<1> HIDE DEF e
<1>2. t \notin {"raised", "nodes", "task_edges", "task_graphs", "artifacts", "workspace_edges",
                "workspace_graphs", "memory_items"}
  OBVIOUS
<1>3. \A r \in e.runs : DOMAIN r = RunFields
  BY <1>1 DEF Database, P!Table
<1>4. Database(e, n)
  BY <1>1, <1>2, <1>3 DEF Database, P!Table
<1>5. \A id : P!Has(d, t, id) => P!Has(e, t, id)
  <2> SUFFICES ASSUME NEW id, P!Has(d, t, id) PROVE P!Has(e, t, id)
    OBVIOUS
  <2>1. PICK r \in d[t] : r.id = id
    BY DEF P!Has
  <2>2. (IF r.id = row.id THEN row ELSE r) \in e[t]
    BY <1>1
  <2>3. (IF r.id = row.id THEN row ELSE r).id = id
    BY <2>1
  <2>4. QED
    BY <2>2, <2>3 DEF P!Has
<1>6. \A x \in Parent : x # t => e[x] = d[x]
  BY <1>1 DEF Database, P!Table, Parent
<1>7. Holds(e, K)
  <2> SUFFICES ASSUME NEW k \in K PROVE P!Has(e, k[1], k[2])
    BY DEF Holds
  <2>1. k[1] \in Parent /\ P!Has(d, k[1], k[2])
    BY DEF Holds
  <2>2. CASE k[1] = t
    BY <1>5, <2>1, <2>2
  <2>3. CASE k[1] # t
    BY <1>6, <2>1, <2>3 DEF P!Has
  <2>4. QED
    BY <2>2, <2>3
<1>8. Told(e) = Told(d)
  BY <1>1, <1>2 DEF Database, P!Table, Told
<1>9. QED
  BY <1>4, <1>7, <1>8 DEF e

(* A graph, with its nodes and edges.                                      *)
LEMMA GraphKeeps ==
  ASSUME NEW n \in Nat, NEW d, Database(d, n), NEW K, Holds(d, K), NEW g,
         <<"workspace_graphs", g.workspace>> \in K, g.workspace = W,
         IsFiniteSet(g.nodes), IsFiniteSet(g.edges)
  PROVE  /\ Database(P!PersistTaskGraph(d, g), n)
         /\ Holds(P!PersistTaskGraph(d, g), K \cup {<<"task_graphs", g.id>>})
         /\ Told(P!PersistTaskGraph(d, g)) = Told(d)
<1> DEFINE row == [id |-> g.id, workspace |-> g.workspace, goal |-> g.goal, intent |-> g.intent]
           nodes == {r \in g.nodes : ~P!Has(d, "nodes", r.id)}
           edges == {r \in g.edges : ~P!Has(d, "task_edges", r.id)}
           e == P!Insert(d, "task_graphs", row)
           f == [e EXCEPT !["nodes"] = @ \cup nodes, !["task_edges"] = @ \cup edges]
<1>1. P!Has(d, "workspace_graphs", g.workspace)
  BY DEF Holds
<1>2. P!PersistTaskGraph(d, g) = f
  BY <1>1 DEF P!PersistTaskGraph
<1>3. row.workspace = W /\ row.id = g.id
  OBVIOUS
<1>4. /\ Database(e, n) /\ Holds(e, K) /\ P!Has(e, "task_graphs", g.id)
      /\ Told(e) = Told(d)
  <2>1. "task_graphs" \in P!Table
    BY DEF P!Table
  <2> HIDE DEF row
  <2>2. QED
    BY <1>3, <2>1, InsertKeeps
<1>5. IsFiniteSet(nodes) /\ IsFiniteSet(edges)
  BY FS_Subset
<1> HIDE DEF e, nodes, edges
<1>6. /\ DOMAIN f = DOMAIN e /\ f = [x \in DOMAIN f |-> f[x]]
      /\ \A x \in DOMAIN e : x \notin {"nodes", "task_edges"} => f[x] = e[x]
      /\ f.nodes = e.nodes \cup nodes /\ f.task_edges = e.task_edges \cup edges
  BY <1>4 DEF Database, P!Table
<1> HIDE DEF f
<1>7. IsFiniteSet(f.nodes) /\ IsFiniteSet(f.task_edges)
  <2>1. IsFiniteSet(e.nodes) /\ IsFiniteSet(e.task_edges)
    BY <1>4 DEF Database
  <2>2. IsFiniteSet(e.nodes \cup nodes) /\ IsFiniteSet(e.task_edges \cup edges)
    BY <1>5, <2>1, FS_Union
  <2>3. QED
    BY <1>6, <2>2
<1>8. Database(f, n)
  BY <1>4, <1>6, <1>7 DEF Database, P!Table
<1>9. \A x \in Parent : f[x] = e[x]
  BY <1>4, <1>6 DEF Database, P!Table, Parent
<1>10. Holds(f, K) /\ P!Has(f, "task_graphs", g.id)
  <2>1. Holds(f, K)
    BY <1>4, <1>9, HasGrows
  <2>2. f.task_graphs = e.task_graphs
    BY <1>9 DEF Parent
  <2>3. QED
    BY <1>4, <2>1, <2>2 DEF P!Has
<1>11. Holds(f, K \cup {<<"task_graphs", g.id>>})
  BY <1>10 DEF Holds, Parent
<1>12. Told(f) = Told(e)
  BY <1>4, <1>6 DEF Database, P!Table, Told
<1>13. QED
  BY <1>2, <1>4, <1>8, <1>11, <1>12

(* INSERT into a table whose rows reference one that is there.             *)
LEMMA ChildKeeps ==
  ASSUME NEW n \in Nat, NEW d, Database(d, n), NEW K, Holds(d, K),
         NEW t \in P!Table, NEW row, NEW p, NEW id, <<p, id>> \in K,
         t \notin {"nodes", "task_graphs", "workspace_edges", "memory_items"},
         t = "runs" => DOMAIN row = RunFields,
         t = "artifacts" => DOMAIN row = ArtifactFields /\ row.at \in 0..n
  PROVE  /\ Database(P!InsertChild(d, t, row, p, id), n)
         /\ Holds(P!InsertChild(d, t, row, p, id), K)
         /\ P!Has(P!InsertChild(d, t, row, p, id), t, row.id)
         /\ Told(P!InsertChild(d, t, row, p, id)) = Told(d)
<1>1. P!InsertChild(d, t, row, p, id) = P!Insert(d, t, row)
  BY DEF Holds, P!InsertChild
<1>2. /\ Database(P!Insert(d, t, row), n) /\ Holds(P!Insert(d, t, row), K)
      /\ P!Has(P!Insert(d, t, row), t, row.id)
      /\ Told(P!Insert(d, t, row)) = Told(d)
  BY InsertKeeps
<1>3. QED
  BY <1>1, <1>2

LEMMA HoldsMore ==
  ASSUME NEW d, NEW K, Holds(d, K), NEW t \in Parent, NEW id, P!Has(d, t, id)
  PROVE  Holds(d, K \cup {<<t, id>>})
BY DEF Holds

(* A call that finds what it needs is done: nothing is lost, and only a    *)
(* follows_up edge and what somebody says is told.                         *)
LEMMA CallKeeps ==
  ASSUME NEW n \in Nat, NEW d, Database(d, n), NEW K, Holds(d, K), NEW c, Fine(c, K, n)
  PROVE  /\ Database(P!Call(d, c), n)
         /\ Holds(P!Call(d, c), K \cup Gives(c))
         /\ ~Tells(c) => Told(P!Call(d, c)) = Told(d)
<1> DEFINE Done(e) == /\ Database(e, n) /\ Holds(e, K \cup Gives(c))
                      /\ ~Tells(c) => Told(e) = Told(d)
<1> SUFFICES Done(P!Call(d, c))
  OBVIOUS
<1>1. CASE c.op = "create_workspace_graph"
  <2>1. P!Call(d, c) = P!Insert(d, "workspace_graphs", c.row)
    BY <1>1 DEF P!Call, P!CreateWorkspaceGraph
  <2>2. Gives(c) = {<<"workspace_graphs", c.row.id>>}
    BY <1>1 DEF Gives
  <2>3. "workspace_graphs" \in P!Table /\ "workspace_graphs" \in Parent
    BY DEF P!Table, Parent
  <2>4. QED
    BY <2>1, <2>2, <2>3, InsertKeeps, HoldsMore
<1>2. CASE c.op = "persist_task_graph"
  <2>1. P!Call(d, c) = P!PersistTaskGraph(d, c.row)
    BY <1>2 DEF P!Call
  <2>2. Gives(c) = {<<"task_graphs", c.row.id>>} /\ <<"workspace_graphs", c.row.workspace>> \in K
    BY <1>2 DEF Gives, Fine, Needs
  <2>3. c.row.workspace = W /\ IsFiniteSet(c.row.nodes) /\ IsFiniteSet(c.row.edges)
    BY <1>2 DEF Fine
  <2>4. QED
    BY <2>1, <2>2, <2>3, GraphKeeps
<1>3. CASE c.op = "create_run"
  <2>1. P!Call(d, c) = P!InsertChild(d, "runs", c.row, "task_graphs", c.row.graph)
    BY <1>3 DEF P!Call, P!CreateRun
  <2>2. Gives(c) = {<<"runs", c.row.id>>} /\ <<"task_graphs", c.row.graph>> \in K
    BY <1>3 DEF Gives, Fine, Needs
  <2>3. "runs" \in P!Table /\ "runs" \in Parent /\ DOMAIN c.row = RunFields
    BY <1>3 DEF P!Table, Parent, Fine
  <2>4. QED
    BY <2>1, <2>2, <2>3, ChildKeeps, HoldsMore
<1>4. CASE c.op \in {"update_run", "update_run_node_state", "update_goal"}
  <2>1. PICK t \in {"runs", "run_node_states", "goals"} :
          /\ P!Call(d, c) = P!Update(d, t, c.row)
          /\ t = "runs" => c.op = "update_run"
    BY <1>4 DEF P!Call, P!UpdateRun, P!UpdateRunNodeState, P!UpdateGoal
  <2>2. Gives(c) = {} /\ (t = "runs" => DOMAIN c.row = RunFields)
    BY <1>4, <2>1 DEF Gives, Fine
  <2>3. K \cup {} = K
    OBVIOUS
  <2>4. QED
    BY <2>1, <2>2, <2>3, UpdateKeeps
<1>5. CASE c.op \in {"create_run_node_state", "persist_artifact", "persist_checkpoint",
                     "persist_tool_call", "persist_model_call"}
  <2>1. PICK t \in {"run_node_states", "artifacts", "checkpoints", "tool_calls", "model_calls"} :
          /\ P!Call(d, c) = P!InsertChild(d, t, c.row, "runs", c.row.run)
          /\ t = "artifacts" => c.op = "persist_artifact"
    BY <1>5 DEF P!Call, P!CreateRunNodeState, P!PersistArtifact, P!PersistCheckpoint,
                P!PersistToolCall, P!PersistModelCall
  <2>2. /\ Gives(c) = {} /\ <<"runs", c.row.run>> \in K
        /\ t = "artifacts" => DOMAIN c.row = ArtifactFields /\ c.row.at \in 0..n
    BY <1>5, <2>1 DEF Gives, Fine, Needs
  <2>3. t \in P!Table /\ t \notin {"nodes", "task_graphs", "workspace_edges", "runs", "memory_items"}
    BY DEF P!Table
  <2>4. K \cup {} = K
    OBVIOUS
  <2>5. QED
    BY <2>1, <2>2, <2>3, <2>4, ChildKeeps
<1>6. CASE c.op = "persist_task_edge"
  <2>1. P!Call(d, c) = P!InsertChild(d, "task_edges", c.row, "task_graphs", c.row.graph)
    BY <1>6 DEF P!Call, P!PersistTaskEdge
  <2>2. Gives(c) = {} /\ <<"task_graphs", c.row.graph>> \in K
    BY <1>6 DEF Gives, Fine, Needs
  <2>3. "task_edges" \in P!Table /\ K \cup {} = K
    BY DEF P!Table
  <2>4. QED
    BY <2>1, <2>2, <2>3, ChildKeeps
<1>7. CASE c.op = "persist_workspace_edge"
  <2>1. P!Call(d, c) = P!Insert(d, "workspace_edges", c.row)
    BY <1>7 DEF P!Call, P!PersistWorkspaceEdge
  <2>2. Gives(c) = {} /\ c.row.id = <<"link", c.row.type, n>>
    BY <1>7 DEF Gives, Fine
  <2>3. "workspace_edges" \in P!Table /\ K \cup {} = K
    BY DEF P!Table
  <2>4. ~Tells(c) => c.row.type # "follows_up"
    BY <1>7 DEF Tells
  <2>5. QED
    BY <2>1, <2>2, <2>3, <2>4, InsertKeeps
<1>8. CASE c.op \in {"persist_goal", "persist_compilation_failure", "persist_embedding"}
  <2>1. \E t \in {"goals", "compilation_failures", "embeddings"} :
          \E row : P!Call(d, c) = P!Insert(d, t, row)
    BY <1>8 DEF P!Call, P!PersistGoal, P!PersistCompilationFailure, P!PersistEmbedding
  <2>2. PICK t \in {"goals", "compilation_failures", "embeddings"} :
          \E row : P!Call(d, c) = P!Insert(d, t, row)
    BY <2>1
  <2>3. Gives(c) = {} /\ K \cup {} = K
    BY <1>8 DEF Gives
  <2>4. /\ t \in P!Table
        /\ t \notin {"nodes", "task_graphs", "workspace_edges", "runs", "artifacts", "memory_items"}
    BY DEF P!Table
  <2>5. QED
    BY <2>2, <2>3, <2>4, InsertKeeps
<1>9. CASE c.op = "persist_memory_item"
  <2>1. P!Call(d, c) = P!Insert(d, "memory_items", c.row)
    BY <1>9 DEF P!Call, P!PersistMemoryItem
  <2>2. Gives(c) = {} /\ c.row.id = <<"item", c.row.at>> /\ c.row.at \in 0..n
    BY <1>9 DEF Gives, Fine
  <2>3. "memory_items" \in P!Table /\ K \cup {} = K
    BY DEF P!Table
  <2>4. ~Tells(c) => c.row.kind \notin Voice
    BY <1>9 DEF Tells
  <2>5. QED
    BY <2>1, <2>2, <2>3, <2>4, InsertKeeps
<1>10. CASE c.op = "attach_item"
  <2>1. P!Call(d, c) = d /\ Gives(c) = {} /\ K \cup {} = K
    BY <1>10 DEF P!Call, Gives
  <2>2. QED
    BY <2>1
<1>11. c.op \in Ops
  BY DEF Fine
<1>12. QED
  BY <1>1, <1>2, <1>3, <1>4, <1>5, <1>6, <1>7, <1>8, <1>9, <1>10, <1>11 DEF Ops

(* The calls of a sequence, of which all may rely on what the first gives. *)
FineAll(calls, K, n) ==
  \A i \in 1..Len(calls) : Fine(calls[i], IF i = 1 THEN K ELSE K \cup Gives(calls[1]), n)

LEMMA DatabaseAfter ==
  ASSUME NEW n \in Nat, NEW d, Database(d, n), NEW K, Holds(d, K), NEW Calls, NEW calls \in Seq(Calls),
         FineAll(calls, K, n)
  PROVE  /\ Database(P!After(d, calls), n)
         /\ Holds(P!After(d, calls), K)
         /\ \A i \in 1..Len(calls) : Holds(P!After(d, calls), Gives(calls[i]))
         /\ (\A i \in 1..Len(calls) : ~Tells(calls[i])) => Told(P!After(d, calls)) = Told(d)
<1> DEFINE m == Len(calls)
           Mute == \A i \in 1..m : ~Tells(calls[i])
<1>1. PICK v : /\ v[0] = d
               /\ \A k \in 1..m : v[k] = P!Call(v[k-1], calls[k])
               /\ P!After(d, calls) = v[m]
  BY DatabaseSteps
<1>2. m \in Nat
  OBVIOUS
<1> DEFINE Kept(k) == /\ Database(v[k], n) /\ Holds(v[k], K)
                      /\ \A i \in 1..k : Holds(v[k], Gives(calls[i]))
                      /\ Mute => Told(v[k]) = Told(d)
           T == {k \in 0..m : Kept(k)}
<1>3. 0 \in T
  BY <1>1, <1>2
<1>4. ASSUME NEW k \in 1..m, k - 1 \in T
      PROVE  k \in T
  <2>1. Kept(k-1)
    BY <1>4
  <2> DEFINE e == v[k-1]
             c == calls[k]
             L == IF k = 1 THEN K ELSE K \cup Gives(calls[1])
  <2>2. Database(e, n) /\ Holds(e, L)
    <3>1. CASE k = 1
      BY <2>1, <3>1
    <3>2. CASE k # 1
      <4>1. 1 \in 1..k-1
        BY <3>2
      <4>2. Holds(e, Gives(calls[1])) /\ Holds(e, K)
        BY <2>1, <4>1
      <4>3. QED
        BY <2>1, <3>2, <4>2 DEF Holds
    <3>3. QED
      BY <3>1, <3>2
  <2>3. Fine(c, L, n)
    BY DEF FineAll
  <2>4. ASSUME NEW x, Holds(e, x)
        PROVE  Holds(P!Call(e, c), x)
    <3>1. Holds(e, L \cup x)
      BY <2>2, <2>4 DEF Holds
    <3>2. Fine(c, L \cup x, n)
      BY <2>3 DEF Fine
    <3>3. Holds(P!Call(e, c), (L \cup x) \cup Gives(c))
      BY <2>2, <3>1, <3>2, CallKeeps
    <3>4. QED
      BY <3>3 DEF Holds
  <2>5. /\ Database(P!Call(e, c), n)
        /\ Holds(P!Call(e, c), L \cup Gives(c))
        /\ ~Tells(c) => Told(P!Call(e, c)) = Told(e)
    <3> HIDE DEF e, c, L
    <3>1. QED
      BY <2>2, <2>3, CallKeeps
  <2>6. v[k] = P!Call(e, c)
    BY <1>1
  <2>7. \A i \in 1..k : Holds(v[k], Gives(calls[i]))
    <3> SUFFICES ASSUME NEW i \in 1..k PROVE Holds(v[k], Gives(calls[i]))
      OBVIOUS
    <3>1. CASE i = k
      BY <2>5, <2>6, <3>1 DEF Holds
    <3>2. CASE i # k
      <4>1. i \in 1..k-1
        BY <3>2
      <4>2. QED
        BY <2>1, <2>4, <2>6, <4>1
    <3>3. QED
      BY <3>1, <3>2
  <2>8. Holds(v[k], K)
    BY <2>1, <2>4, <2>6
  <2>9. Mute => Told(v[k]) = Told(d)
    BY <2>1, <2>5, <2>6
  <2>10. Kept(k)
    BY <2>5, <2>6, <2>7, <2>8, <2>9
  <2>11. QED
    BY <1>2, <2>10
<1>5. 0..m \subseteq T
  <2> HIDE DEF T, m
  <2>1. QED
    BY <1>2, <1>3, <1>4, IntervalInduction
<1>6. m \in 0..m
  BY <1>2
<1>7. Kept(m)
  BY <1>5, <1>6
<1>8. QED
  BY <1>1, <1>7

-----------------------------------------------------------------------------
(* The calls of InMemoryStorage.                                           *)

(* A finite set as a sequence.                                             *)
LEMMA InSomeOrder ==
  ASSUME NEW S, IsFiniteSet(S)
  PROVE  SetToSeq(S) \in Seq(S) /\ M!SetToSeq(S) \in Seq(S)
<1>1. Cardinality(S) \in Nat /\ ExistsBijection(1..Cardinality(S), S)
  BY FS_CardinalityType
<1>2. PICK f \in Bijection(1..Cardinality(S), S) : TRUE
  BY <1>1 DEF ExistsBijection
<1>3. f \in [1..Cardinality(S) -> S] /\ \A a, b \in DOMAIN f : f[a] = f[b] => a = b
  BY <1>2 DEF Bijection, Injection, IsInjective
<1>4. SetToSeq(S) \in [1..Cardinality(S) -> S]
  BY <1>3 DEF SetToSeq, IsInjective
<1>5. M!SetToSeq(S) \in [1..Cardinality(S) -> S]
  <2>1. M!Cardinality(S) = Cardinality(S)
    BY DEF M!Cardinality, Cardinality
  <2>2. QED
    BY <1>3, <2>1 DEF M!SetToSeq, M!IsInjective
<1>6. QED
  BY <1>1, <1>4, <1>5

(* d[row.id] = deepcopy(row)                                               *)
LEMMA PutKeeps ==
  ASSUME NEW m, Memory(m), NEW K, Keeps(m, K), NEW t \in M!Dictionary, NEW row
  PROVE  /\ Memory(M!Put(m, t, row))
         /\ Keeps(M!Put(m, t, row), K)
         /\ t \in Parent => Keeps(M!Put(m, t, row), K \cup {<<t, row.id>>})
<1> DEFINE e == M!Put(m, t, row)
<1>1. /\ DOMAIN e = DOMAIN m /\ e = [x \in DOMAIN e |-> e[x]]
      /\ \A x \in DOMAIN m : x # t => e[x] = m[x]
      /\ DOMAIN e[t] = DOMAIN m[t] \cup {row.id}
  BY DEF Memory, M!Put, M!Dictionary
<1> HIDE DEF e
<1>2. t # "raised"
  BY DEF M!Dictionary
<1>3. Memory(e)
  BY <1>1, <1>2 DEF Memory
<1>4. Parent \subseteq DOMAIN m
  BY DEF Memory, M!Dictionary, Parent
<1>5. Keeps(e, K)
  <2> SUFFICES ASSUME NEW k \in K PROVE k[2] \in DOMAIN e[k[1]]
    BY DEF Keeps
  <2>1. k[1] \in Parent /\ k[2] \in DOMAIN m[k[1]]
    BY DEF Keeps
  <2>2. QED
    BY <1>1, <1>4, <2>1
<1>6. t \in Parent => Keeps(e, K \cup {<<t, row.id>>})
  BY <1>1, <1>5 DEF Keeps
<1>7. QED
  BY <1>3, <1>5, <1>6 DEF e

(* An edge goes into its dictionary, and perhaps into its graph.           *)
LEMMA EdgeKeeps ==
  ASSUME NEW m, Memory(m), NEW K, Keeps(m, K), NEW e
  PROVE  Memory(M!PersistTaskEdge(m, e)) /\ Keeps(M!PersistTaskEdge(m, e), K)
<1> DEFINE put == M!Put(m, "task_edges", e)
           f == [put EXCEPT !.task_graphs[e.graph].edges = @ \cup {e}]
<1>1. Memory(put) /\ Keeps(put, K)
  <2>1. "task_edges" \in M!Dictionary
    BY DEF M!Dictionary
  <2>2. QED
    BY <2>1, PutKeeps
<1>2. M!PersistTaskEdge(m, e) = put \/ M!PersistTaskEdge(m, e) = f
  BY DEF M!PersistTaskEdge
<1> HIDE DEF put
<1>3. /\ DOMAIN f = DOMAIN put /\ f = [x \in DOMAIN f |-> f[x]]
      /\ \A x \in DOMAIN put : DOMAIN f[x] = DOMAIN put[x] \/ x \notin Parent
      /\ \A x \in DOMAIN put : x # "task_graphs" => f[x] = put[x]
  BY <1>1 DEF Memory
<1>4. \A x \in Parent : DOMAIN f[x] = DOMAIN put[x]
  BY <1>1, <1>3 DEF Memory, M!Dictionary, Parent
<1> HIDE DEF f
<1>5. Memory(f)
  BY <1>1, <1>3 DEF Memory
<1>6. Keeps(f, K)
  BY <1>1, <1>4 DEF Keeps
<1>7. QED
  BY <1>1, <1>2, <1>5, <1>6

(* A graph, and its edges one by one.                                      *)
LEMMA GraphPutKeeps ==
  ASSUME NEW m, Memory(m), NEW K, Keeps(m, K), NEW g, IsFiniteSet(g.edges)
  PROVE  /\ Memory(M!PersistTaskGraph(m, g))
         /\ Keeps(M!PersistTaskGraph(m, g), K \cup {<<"task_graphs", g.id>>})
<1> DEFINE put == M!Put(m, "task_graphs", g)
           L == K \cup {<<"task_graphs", g.id>>}
           edges == M!SetToSeq(g.edges)
           n == Len(edges)
           e == M!FoldLeft(M!PersistTaskEdge, put, edges)
           f == M!PersistTaskGraph(m, g)
<1>1. Memory(put) /\ Keeps(put, L)
  <2>1. "task_graphs" \in M!Dictionary /\ "task_graphs" \in Parent
    BY DEF M!Dictionary, Parent
  <2>2. QED
    BY <2>1, PutKeeps
<1>2. edges \in Seq(g.edges) /\ n \in Nat
  <2>1. edges \in Seq(g.edges)
    BY InSomeOrder
  <2>2. QED
    BY <2>1
<1>3. PICK v : /\ v[0] = put
               /\ \A k \in 1..n : v[k] = M!PersistTaskEdge(v[k-1], edges[k])
               /\ e = v[n]
  BY <1>2, EdgeSteps
<1> DEFINE T == {k \in 0..n : Memory(v[k]) /\ Keeps(v[k], L)}
<1> HIDE DEF put, L, edges, e
<1>4. 0 \in T
  BY <1>1, <1>2, <1>3
<1>5. ASSUME NEW k \in 1..n, k - 1 \in T
      PROVE  k \in T
  <2>1. Memory(v[k-1]) /\ Keeps(v[k-1], L)
    BY <1>5
  <2>2. Memory(M!PersistTaskEdge(v[k-1], edges[k])) /\ Keeps(M!PersistTaskEdge(v[k-1], edges[k]), L)
    BY <2>1, EdgeKeeps
  <2>3. QED
    BY <1>2, <1>3, <2>2
<1>6. 0..n \subseteq T
  <2> HIDE DEF T, n
  <2>1. QED
    BY <1>2, <1>4, <1>5, IntervalInduction
<1>7. Memory(e) /\ Keeps(e, L)
  <2>1. n \in 0..n
    BY <1>2
  <2>2. QED
    BY <1>3, <1>6, <2>1
<1>8. f = [e EXCEPT !.few_shots =
             Append(@, [workspace |-> g.workspace, id |-> g.id, intent |-> g.intent])]
  BY DEF M!PersistTaskGraph, e, edges, put
<1> HIDE DEF f
<1>9. /\ DOMAIN f = DOMAIN e /\ f = [x \in DOMAIN f |-> f[x]]
      /\ \A x \in DOMAIN e : x # "few_shots" => f[x] = e[x]
  BY <1>7, <1>8 DEF Memory
<1>10. Memory(f)
  BY <1>7, <1>9 DEF Memory
<1>11. \A x \in Parent : f[x] = e[x]
  BY <1>7, <1>9 DEF Memory, M!Dictionary, Parent
<1>12. Keeps(f, L)
  BY <1>7, <1>11 DEF Keeps
<1>13. QED
  BY <1>10, <1>12 DEF f, L

LEMMA MemoryCallKeeps ==
  ASSUME NEW n, NEW m, Memory(m), NEW K, Keeps(m, K), NEW c, Fine(c, K, n)
  PROVE  Memory(M!Call(m, c)) /\ Keeps(M!Call(m, c), K \cup Gives(c))
<1>1. CASE c.op = "create_workspace_graph"
  <2>1. M!Call(m, c) = M!Put(m, "workspace_graphs", c.row)
    BY <1>1 DEF M!Call, M!CreateWorkspaceGraph
  <2>2. Gives(c) = {<<"workspace_graphs", c.row.id>>}
    BY <1>1 DEF Gives
  <2>3. "workspace_graphs" \in M!Dictionary /\ "workspace_graphs" \in Parent
    BY DEF M!Dictionary, Parent
  <2>4. QED
    BY <2>1, <2>2, <2>3, PutKeeps
<1>2. CASE c.op = "persist_task_graph"
  <2>1. M!Call(m, c) = M!PersistTaskGraph(m, c.row)
    BY <1>2 DEF M!Call
  <2>2. Gives(c) = {<<"task_graphs", c.row.id>>} /\ IsFiniteSet(c.row.edges)
    BY <1>2 DEF Gives, Fine
  <2>3. QED
    BY <2>1, <2>2, GraphPutKeeps, SMTT(60)
<1>3. CASE c.op = "create_run"
  <2>1. M!Call(m, c) = M!Put(m, "runs", c.row)
    BY <1>3 DEF M!Call, M!CreateRun
  <2>2. Gives(c) = {<<"runs", c.row.id>>}
    BY <1>3 DEF Gives
  <2>3. "runs" \in M!Dictionary /\ "runs" \in Parent
    BY DEF M!Dictionary, Parent
  <2>4. QED
    BY <2>1, <2>2, <2>3, PutKeeps
<1>4. CASE c.op = "update_run"
  <2>1. <<"runs", c.row.id>> \in K
    BY <1>4 DEF Fine, Needs
  <2>2. c.row.id \in DOMAIN m.runs
    BY <2>1 DEF Keeps
  <2>3. M!Call(m, c) = M!Put(m, "runs", c.row)
    BY <1>4, <2>2 DEF M!Call, M!UpdateRun
  <2>4. K \cup Gives(c) = K /\ "runs" \in M!Dictionary
    BY <1>4 DEF Gives, M!Dictionary
  <2>5. Memory(M!Put(m, "runs", c.row)) /\ Keeps(M!Put(m, "runs", c.row), K)
    BY <2>4, PutKeeps
  <2>6. QED
    BY <2>3, <2>4, <2>5
<1>5. CASE c.op = "persist_task_edge"
  <2>1. M!Call(m, c) = M!PersistTaskEdge(m, c.row)
    BY <1>5 DEF M!Call
  <2>2. Gives(c) = {} /\ K \cup {} = K
    BY <1>5 DEF Gives
  <2>3. QED
    BY <2>1, <2>2, EdgeKeeps
<1>6. CASE c.op = "persist_artifact"
  <2> DEFINE put == M!Put(m, "artifacts", c.row)
  <2>1. Gives(c) = {} /\ K \cup {} = K /\ "artifacts" \in M!Dictionary
    BY <1>6 DEF Gives, M!Dictionary
  <2>2. Memory(put) /\ Keeps(put, K)
    BY <2>1, PutKeeps
  <2>3. CASE M!Call(m, c) = put
    BY <2>1, <2>2, <2>3
  <2>4. CASE \E x : M!Call(m, c) = [put EXCEPT !.artifact_cache = x]
    <3>1. PICK x : M!Call(m, c) = [put EXCEPT !.artifact_cache = x]
      BY <2>4
    <3> DEFINE f == M!Call(m, c)
    <3>2. /\ DOMAIN f = DOMAIN put /\ f = [y \in DOMAIN f |-> f[y]]
          /\ \A y \in DOMAIN put : y # "artifact_cache" => f[y] = put[y]
      BY <2>2, <3>1 DEF Memory
    <3> HIDE DEF f, put
    <3>3. Memory(f)
      BY <2>2, <3>2 DEF Memory
    <3>4. \A y \in Parent : f[y] = put[y]
      BY <2>2, <3>2 DEF Memory, M!Dictionary, Parent
    <3>5. Keeps(f, K)
      BY <2>2, <3>4 DEF Keeps
    <3>6. QED
      BY <2>1, <3>3, <3>5 DEF f
  <2>5. M!Call(m, c) = M!PersistArtifact(m, c.row)
    BY <1>6 DEF M!Call
  <2>6. QED
    BY <2>3, <2>4, <2>5 DEF M!PersistArtifact
<1>7. CASE c.op = "persist_compilation_failure"
  <2>1. Gives(c) = {} /\ K \cup {} = K
    BY <1>7 DEF Gives
  <2> DEFINE f == M!Call(m, c)
  <2>2. /\ DOMAIN f = DOMAIN m /\ f = [y \in DOMAIN f |-> f[y]]
        /\ \A y \in DOMAIN m : y # "compilation_failures" => f[y] = m[y]
    BY <1>7 DEF Memory, M!Call, M!PersistCompilationFailure
  <2> HIDE DEF f
  <2>3. Memory(f)
    BY <2>2 DEF Memory
  <2>4. \A y \in Parent : f[y] = m[y]
    BY <2>2 DEF Memory, M!Dictionary, Parent
  <2>5. Keeps(f, K)
    BY <2>4 DEF Keeps
  <2>6. QED
    BY <2>1, <2>3, <2>5 DEF f
<1>8. CASE c.op \in {"create_run_node_state", "update_run_node_state", "persist_workspace_edge",
                     "persist_goal", "update_goal", "persist_checkpoint", "persist_tool_call",
                     "persist_model_call", "persist_memory_item", "persist_embedding",
                     "attach_item"}
  <2>1. PICK t \in {"run_node_states", "workspace_edges", "goals", "checkpoints", "tool_calls",
                    "model_calls", "memory_items", "embeddings", "items"} :
          M!Call(m, c) = M!Put(m, t, c.row)
    BY <1>8 DEF M!Call, M!CreateRunNodeState, M!UpdateRunNodeState, M!PersistWorkspaceEdge,
                M!PersistGoal, M!UpdateGoal, M!PersistCheckpoint, M!PersistToolCall,
                M!PersistModelCall, M!PersistMemoryItem, M!PersistEmbedding, M!AttachItem
  <2>2. K \cup Gives(c) = K /\ t \in M!Dictionary
    BY <1>8 DEF Gives, M!Dictionary
  <2>3. Memory(M!Put(m, t, c.row)) /\ Keeps(M!Put(m, t, c.row), K)
    BY <2>2, PutKeeps
  <2>4. QED
    BY <2>1, <2>2, <2>3
<1>9. c.op \in Ops
  BY DEF Fine
<1>10. QED
  BY <1>1, <1>2, <1>3, <1>4, <1>5, <1>6, <1>7, <1>8, <1>9 DEF Ops

LEMMA MemoryAfter ==
  ASSUME NEW n \in Nat, NEW m, Memory(m), NEW K, Keeps(m, K), NEW Calls, NEW calls \in Seq(Calls),
         FineAll(calls, K, n)
  PROVE  /\ Memory(M!After(m, calls))
         /\ Keeps(M!After(m, calls), K)
         /\ \A i \in 1..Len(calls) : Keeps(M!After(m, calls), Gives(calls[i]))
<1> DEFINE l == Len(calls)
<1>1. PICK v : /\ v[0] = m
               /\ \A k \in 1..l : v[k] = M!Call(v[k-1], calls[k])
               /\ M!After(m, calls) = v[l]
  BY MemorySteps
<1>2. l \in Nat
  OBVIOUS
<1> DEFINE Kept(k) == /\ Memory(v[k]) /\ Keeps(v[k], K)
                      /\ \A i \in 1..k : Keeps(v[k], Gives(calls[i]))
           T == {k \in 0..l : Kept(k)}
<1>3. 0 \in T
  BY <1>1, <1>2
<1>4. ASSUME NEW k \in 1..l, k - 1 \in T
      PROVE  k \in T
  <2>1. Kept(k-1)
    BY <1>4
  <2> DEFINE e == v[k-1]
             c == calls[k]
             L == IF k = 1 THEN K ELSE K \cup Gives(calls[1])
  <2>2. Memory(e) /\ Keeps(e, L)
    <3>1. CASE k = 1
      BY <2>1, <3>1
    <3>2. CASE k # 1
      <4>1. 1 \in 1..k-1
        BY <3>2
      <4>2. Keeps(e, Gives(calls[1])) /\ Keeps(e, K)
        BY <2>1, <4>1
      <4>3. QED
        BY <2>1, <3>2, <4>2 DEF Keeps
    <3>3. QED
      BY <3>1, <3>2
  <2>3. Fine(c, L, n)
    BY DEF FineAll
  <2>4. ASSUME NEW x, Keeps(e, x)
        PROVE  Memory(M!Call(e, c)) /\ Keeps(M!Call(e, c), x \cup Gives(c))
    <3>1. Keeps(e, L \cup x)
      BY <2>2, <2>4 DEF Keeps
    <3>2. Fine(c, L \cup x, n)
      BY <2>3 DEF Fine
    <3>3. Memory(M!Call(e, c)) /\ Keeps(M!Call(e, c), (L \cup x) \cup Gives(c))
      BY <2>2, <3>1, <3>2, MemoryCallKeeps
    <3>4. QED
      BY <3>3 DEF Keeps
  <2>5. Memory(M!Call(e, c)) /\ Keeps(M!Call(e, c), K \cup Gives(c))
    BY <2>1, <2>4
  <2>6. v[k] = M!Call(e, c)
    BY <1>1
  <2>7. \A i \in 1..k : Keeps(v[k], Gives(calls[i]))
    <3> SUFFICES ASSUME NEW i \in 1..k PROVE Keeps(v[k], Gives(calls[i]))
      OBVIOUS
    <3>1. CASE i = k
      BY <2>5, <2>6, <3>1 DEF Keeps
    <3>2. CASE i # k
      <4>1. i \in 1..k-1
        BY <3>2
      <4>2. Keeps(M!Call(e, c), Gives(calls[i]) \cup Gives(c))
        BY <2>1, <2>4, <4>1
      <4>3. QED
        BY <2>6, <4>2 DEF Keeps
    <3>3. QED
      BY <3>1, <3>2
  <2>8. Keeps(v[k], K)
    BY <2>5, <2>6 DEF Keeps
  <2>9. Kept(k)
    BY <2>5, <2>6, <2>7, <2>8
  <2>10. QED
    BY <1>2, <2>9
<1>5. 0..l \subseteq T
  <2> HIDE DEF T, l
  <2>1. QED
    BY <1>2, <1>3, <1>4, IntervalInduction
<1>6. l \in 0..l
  BY <1>2
<1>7. Kept(l)
  BY <1>5, <1>6
<1>8. QED
  BY <1>1, <1>7

-----------------------------------------------------------------------------
(* The history.                                                            *)
Entry == {None} \cup {GraphId(n) : n \in Nat}

(* The edge that is about to be made, or has just been.                    *)
Edge == IF previous = None THEN {} ELSE {<<turn.graph, previous>>}

Logged ==
  /\ log \in Seq(Entry) /\ previous \in Entry /\ crashes \in Nat
  /\ phase \notin {"closed", "linking", "producing"} => log # <<>> /\ log[Len(log)] = previous
  /\ phase \in {"linking", "producing"} => log # <<>> /\ log[Len(log)] = turn.graph
  /\ Follows \subseteq Consecutive
  /\ phase # "linking" /\ crashes = 0 => Follows = Consecutive
  /\ phase = "linking" => Edge \subseteq Consecutive
  /\ phase = "linking" /\ crashes = 0 => Consecutive = Follows \cup Edge

LEMMA GraphsAreNot == ASSUME NEW n \in Nat PROVE GraphId(n) # None /\ GraphId(n) \in Entry
<1>1. <<"graph", n>> \in {"graph"} \X Nat
  OBVIOUS
<1>2. QED
  BY <1>1, SessionAssumption DEF GraphId, Entry

(* A new entry is consecutive to the last one, unless there is a break.    *)
LEMMA Continued ==
  ASSUME log \in Seq(Entry), NEW x \in Entry, log' = Append(log, x)
  PROVE  /\ log' \in Seq(Entry) /\ log' # <<>> /\ log'[Len(log')] = x
         /\ Consecutive' = Consecutive \cup
              IF log # <<>> /\ log[Len(log)] # None /\ x # None THEN {<<x, log[Len(log)]>>} ELSE {}
<1> DEFINE n == Len(log)
           last == IF log # <<>> /\ log[n] # None /\ x # None THEN {<<x, log[n]>>} ELSE {}
           old == {j \in 1..n - 1 : log[j] # None /\ log[j + 1] # None}
           new == {j \in 1..n : log'[j] # None /\ log'[j + 1] # None}
<1>1. /\ n \in Nat /\ log' \in Seq(Entry) /\ Len(log') = n + 1 /\ log'[n + 1] = x
      /\ \A j \in 1..n : log'[j] = log[j]
      /\ log # <<>> <=> n # 0
  OBVIOUS
<1>2. Consecutive = {<<log[i + 1], log[i]>> : i \in old}
  BY DEF Consecutive
<1>3. Consecutive' = {<<log'[i + 1], log'[i]>> : i \in new}
  <2>1. Len(log') - 1 = n
    BY <1>1
  <2>2. QED
    BY <2>1 DEF Consecutive
<1>4. \A j \in old : j \in new /\ log'[j + 1] = log[j + 1] /\ log'[j] = log[j]
  <2> SUFFICES ASSUME NEW j \in old
               PROVE  j \in new /\ log'[j + 1] = log[j + 1] /\ log'[j] = log[j]
    OBVIOUS
  <2>1. j \in 1..n /\ j + 1 \in 1..n
    BY <1>1
  <2>2. QED
    BY <1>1, <2>1
<1>5. \A j \in new : j \in old \/ (j = n /\ n # 0)
  <2> SUFFICES ASSUME NEW j \in new, j # n PROVE j \in old
    BY <1>1
  <2>1. j \in 1..n - 1 /\ j \in 1..n /\ j + 1 \in 1..n
    BY <1>1
  <2>2. QED
    BY <1>1, <2>1
<1>6. n # 0 => n \in 1..n /\ (n \in new <=> log[n] # None /\ x # None) /\ log'[n] = log[n]
  BY <1>1
<1> HIDE DEF old, new, n
<1>7. Consecutive' \subseteq Consecutive \cup last
  <2> SUFFICES ASSUME NEW i \in new PROVE <<log'[i + 1], log'[i]>> \in Consecutive \cup last
    BY <1>3
  <2>1. CASE i \in old
    BY <1>2, <1>4, <2>1
  <2>2. CASE i = n /\ n # 0
    BY <1>1, <1>6, <2>2
  <2>3. QED
    BY <1>5, <2>1, <2>2
<1>8. Consecutive \subseteq Consecutive'
  BY <1>2, <1>3, <1>4
<1>9. last \subseteq Consecutive'
  BY <1>1, <1>3, <1>6
<1>10. n + 1 = Len(log') /\ log' # <<>>
  BY <1>1
<1>11. QED
  BY <1>1, <1>7, <1>8, <1>9, <1>10 DEF n

(* A turn that fails, /clear and a start.                                  *)
LEMMA BreakIsLogged ==
  ASSUME Logged, Break, previous' = None, phase' = "prompt", phase # "linking",
         Follows' = Follows, crashes' = crashes
  PROVE  Logged'
<1>1. None \in Entry
  BY DEF Entry
<1>2. /\ log' \in Seq(Entry) /\ log' # <<>> /\ log'[Len(log')] = None
      /\ Consecutive' = Consecutive
  BY <1>1, Continued DEF Logged, Break
<1> HIDE DEF Follows, Consecutive
<1>3. QED
  BY <1>1, <1>2 DEF Logged

(* Whatever does not touch the history.                                    *)
LEMMA UnbrokenIsLogged ==
  ASSUME Logged, UNCHANGED <<log, previous, crashes>>, Follows' = Follows,
         phase \notin {"linking", "closed"} /\ phase' # "linking",
         phase' # phase => phase # "producing",
         phase' = "producing" => phase = "producing" /\ turn'.graph = turn.graph
  PROVE  Logged'
<1>1. Consecutive' = Consecutive
  BY DEF Consecutive
<1> HIDE DEF Follows, Consecutive
<1>2. QED
  BY <1>1 DEF Logged

-----------------------------------------------------------------------------
(* What has been said: in the order of the turns, once by each voice, and  *)
(* the question first.                                                     *)
Talk == {m \in db.memory_items : m.kind \in Voice}

(* Phases of a turn in which nothing has been said.                        *)
Unsaid == {"ingesting", "compiling", "starting", "running", "collecting", "summarising", "asking"}

Spoken ==
  /\ \A x \in Talk : x.run = <<"run", x.run[2]>> /\ x.run[2] \in 1..turn.n
  /\ \A x, y \in Talk : x.at = y.at => x = y
  /\ \A x, y \in Talk : x.at < y.at => x.run[2] <= y.run[2]
  /\ \A x, y \in Talk : x.run[2] = y.run[2] /\ x.kind = y.kind => x = y
  /\ \A q \in Questions, a \in Answers : q.run[2] = a.run[2] => q.at < a.at
  /\ phase \in Unsaid => \A x \in Talk : x.run[2] # turn.n
  /\ phase = "answering" => \A a \in Answers : a.run[2] # turn.n

(* Nothing is linked or said.                                              *)
Quiet == Follows' = Follows /\ Talk' = Talk /\ now' \in Nat \ {0}

LEMMA SpokenStill ==
  ASSUME Spoken, turn.n \in Nat, Talk' = Talk,
         \/ /\ turn'.n = turn.n
            /\ phase' \in Unsaid \cup {"answering"} => phase' = phase \/ phase \in Unsaid
         \/ turn'.n = turn.n + 1
  PROVE  Spoken'
<1>1. /\ Questions = {m \in Talk : m.kind = "user_question"} /\ Questions \subseteq Talk
      /\ Answers = {m \in Talk : m.kind = "assistant_answer"} /\ Answers \subseteq Talk
      /\ Questions' = {m \in Talk' : m.kind = "user_question"}
      /\ Answers' = {m \in Talk' : m.kind = "assistant_answer"}
  BY DEF Questions, Answers, Talk, Voice
<1>2. Questions' = Questions /\ Answers' = Answers
  BY <1>1
<1>3. \A x \in Talk : x.run[2] \in 1..turn'.n
  BY DEF Spoken
<1>4. phase' \in Unsaid => \A x \in Talk : x.run[2] # turn'.n
  <2>1. CASE turn'.n = turn.n + 1
    BY <2>1 DEF Spoken
  <2>2. CASE turn'.n = turn.n /\ (phase' \in Unsaid => phase \in Unsaid)
    BY <2>2 DEF Spoken
  <2>3. QED
    BY <2>1, <2>2
<1>5. phase' = "answering" => \A a \in Answers : a.run[2] # turn'.n
  <2>1. CASE turn'.n = turn.n + 1
    BY <1>1, <2>1 DEF Spoken
  <2>2. CASE turn'.n = turn.n /\ (phase' = "answering" => phase = "answering" \/ phase \in Unsaid)
    BY <1>1, <2>2 DEF Spoken
  <2>3. QED
    BY <2>1, <2>2
<1> HIDE DEF Talk, Questions, Answers, Unsaid
<1>6. QED
  BY <1>2, <1>3, <1>4, <1>5 DEF Spoken

-----------------------------------------------------------------------------
(* Where the chat stands, and what it relies on there.                     *)
Early == {"closed", "prompt", "ingesting", "compiling"}
Late == {"starting", "running", "collecting", "summarising", "asking", "answering", "linking",
         "producing"}

Where ==
  /\ phase \in Early \cup Late
  /\ now \in Nat \ {0}
  /\ DOMAIN turn = DOMAIN NoTurn /\ turn = [f \in DOMAIN turn |-> turn[f]]
  /\ turn.n \in Nat
  /\ phase \notin {"closed", "prompt"} => turn.n # 0
  /\ phase \in Late => turn.graph = GraphId(turn.n)

TheWorkspace == <<"workspace_graphs", W>>

KnownIn(p, graph, run) ==
  (IF p # "closed" THEN {TheWorkspace} ELSE {}) \cup
  (IF p \in {"starting", "running"} THEN {<<"task_graphs", graph>>} ELSE {}) \cup
  (IF p = "running" THEN {<<"runs", run>>} ELSE {})
Known == KnownIn(phase, turn.graph, RunId)

Stored ==
  /\ Database(db, now - 1) /\ Holds(db, Known)
  /\ Memory(mem) /\ Keeps(mem, Known)

(* The inductive invariant.                                                *)
SInv == Where /\ Stored /\ Logged /\ Spoken

(* Calls that need no more than the rows K, and add no follows_up edge.    *)
Simple(c, K, n) == Fine(c, K, n) /\ ~Tells(c)
Plain(calls, K, n) == \E S : calls \in Seq(S) /\ \A c \in S : Simple(c, K, n)

LEMMA PlainBy ==
  ASSUME NEW K, NEW n, NEW S, NEW calls \in Seq(S), \A c \in S : Simple(c, K, n)
  PROVE  Plain(calls, K, n)
<1> SUFFICES \E T : calls \in Seq(T) /\ \A c \in T : Simple(c, K, n)
  BY DEF Plain
<1> WITNESS S
<1> QED
  OBVIOUS

LEMMA SimpleIsPlain ==
  ASSUME NEW K, NEW n, NEW c, Simple(c, K, n)
  PROVE  Plain(<<c>>, K, n)
<1> DEFINE calls == <<c>>
           S == {c}
<1>1. calls \in Seq(S) /\ \A x \in S : Simple(x, K, n)
  OBVIOUS
<1> HIDE DEF calls, S
<1>2. Plain(calls, K, n)
  BY <1>1, PlainBy
<1>3. QED
  BY <1>2 DEF calls

LEMMA TwoArePlain ==
  ASSUME NEW K, NEW n, NEW c1, Simple(c1, K, n), NEW c2, Simple(c2, K, n)
  PROVE  Plain(<<c1, c2>>, K, n)
<1> DEFINE calls == <<c1, c2>>
           S == {c1, c2}
<1>1. calls \in Seq(S) /\ \A x \in S : Simple(x, K, n)
  OBVIOUS
<1> HIDE DEF calls, S
<1>2. Plain(calls, K, n)
  BY <1>1, PlainBy
<1>3. QED
  BY <1>2 DEF calls

LEMMA ThreeArePlain ==
  ASSUME NEW K, NEW n, NEW c1, Simple(c1, K, n), NEW c2, Simple(c2, K, n), NEW c3, Simple(c3, K, n)
  PROVE  Plain(<<c1, c2, c3>>, K, n)
<1> DEFINE calls == <<c1, c2, c3>>
           S == {c1, c2, c3}
<1>1. calls \in Seq(S) /\ \A x \in S : Simple(x, K, n)
  OBVIOUS
<1> HIDE DEF calls, S
<1>2. Plain(calls, K, n)
  BY <1>1, PlainBy
<1>3. QED
  BY <1>2 DEF calls

LEMMA FiveArePlain ==
  ASSUME NEW K, NEW n, NEW c1, Simple(c1, K, n), NEW c2, Simple(c2, K, n), NEW c3, Simple(c3, K, n),
         NEW c4, Simple(c4, K, n), NEW c5, Simple(c5, K, n)
  PROVE  Plain(<<c1, c2, c3, c4, c5>>, K, n)
<1> DEFINE calls == <<c1, c2, c3, c4, c5>>
           S == {c1, c2, c3, c4, c5}
<1>1. calls \in Seq(S) /\ \A x \in S : Simple(x, K, n)
  OBVIOUS
<1> HIDE DEF calls, S
<1>2. Plain(calls, K, n)
  BY <1>1, PlainBy
<1>3. QED
  BY <1>2 DEF calls

LEMMA NoneArePlain == ASSUME NEW K, NEW n PROVE Plain(<<>>, K, n)
<1> DEFINE calls == <<>>
           S == {}
<1>1. calls \in Seq(S) /\ \A x \in S : Simple(x, K, n)
  OBVIOUS
<1> HIDE DEF calls, S
<1>2. Plain(calls, K, n)
  BY <1>1, PlainBy
<1>3. QED
  BY <1>2 DEF calls

LEMMA ConcatIsPlain ==
  ASSUME NEW K, NEW n, NEW s, Plain(s, K, n), NEW t, Plain(t, K, n)
  PROVE  Plain(s \o t, K, n)
<1>1. PICK S : s \in Seq(S) /\ \A c \in S : Simple(c, K, n)
  BY DEF Plain
<1>2. PICK T : t \in Seq(T) /\ \A c \in T : Simple(c, K, n)
  BY DEF Plain
<1>3. s \in Seq(S \cup T) /\ t \in Seq(S \cup T)
  BY <1>1, <1>2
<1>4. s \o t \in Seq(S \cup T)
  BY <1>3
<1>5. QED
  BY <1>1, <1>2, <1>4 DEF Plain

(* u is s, and then t.                                                     *)
Joined(u, s, t) == /\ Len(u) = Len(s) + Len(t)
                   /\ \A i \in 1..Len(s) : u[i] = s[i]
                   /\ \A i \in 1..Len(t) : u[Len(s) + i] = t[i]

LEMMA Joins ==
  ASSUME NEW S, NEW s \in Seq(S), NEW t \in Seq(S)
  PROVE  Joined(s \o t, s, t)
BY DEF Joined

(* Such calls lose nothing and add no link.                                *)
LEMMA PlainKeeps ==
  ASSUME NEW n \in Nat \ {0}, NEW d, Database(d, n - 1), NEW m, Memory(m),
         NEW K, Holds(d, K), Keeps(m, K), NEW calls, Plain(calls, K, n)
  PROVE  /\ Database(P!After(d, calls), n) /\ Holds(P!After(d, calls), K)
         /\ Memory(M!After(m, calls)) /\ Keeps(M!After(m, calls), K)
         /\ Told(P!After(d, calls)) = Told(d)
         /\ \A i \in 1..Len(calls) : /\ Holds(P!After(d, calls), Gives(calls[i]))
                                     /\ Keeps(M!After(m, calls), Gives(calls[i]))
<1>1. Database(d, n)
  <2>1. 0..n-1 \subseteq 0..n
    OBVIOUS
  <2>2. QED
    BY <2>1 DEF Database
<1>2. PICK S : calls \in Seq(S) /\ \A c \in S : Simple(c, K, n)
  BY DEF Plain
<1>3. \A i \in 1..Len(calls) : calls[i] \in S
  BY <1>2
<1>4. FineAll(calls, K, n)
  <2> SUFFICES ASSUME NEW i \in 1..Len(calls)
               PROVE  Fine(calls[i], IF i = 1 THEN K ELSE K \cup Gives(calls[1]), n)
    BY DEF FineAll
  <2>1. Fine(calls[i], K, n)
    BY <1>2, <1>3 DEF Simple
  <2>2. Fine(calls[i], K \cup Gives(calls[1]), n)
    BY <2>1 DEF Fine
  <2>3. QED
    BY <2>1, <2>2
<1>5. \A i \in 1..Len(calls) : ~Tells(calls[i])
  BY <1>2, <1>3 DEF Simple
<1>6. QED
  BY <1>1, <1>2, <1>4, <1>5, DatabaseAfter, MemoryAfter

LEMMA SameTold ==
  ASSUME Told(db') = Told(db)
  PROVE  Follows' = Follows /\ Talk' = Talk
<1>1. /\ Follows = Told(db)[1] /\ Follows' = Told(db')[1]
      /\ Talk = Told(db)[2] /\ Talk' = Told(db')[2]
  BY DEF Follows, Told, Talk
<1>2. QED
  BY <1>1

(* Do, with such calls.                                                    *)
LEMMA DoesPlain ==
  ASSUME Where, Stored, NEW calls, Plain(calls, Known, now), Do(calls)
  PROVE  /\ Quiet
         /\ Database(db', now' - 1) /\ Holds(db', Known)
         /\ Memory(mem') /\ Keeps(mem', Known)
         /\ \A i \in 1..Len(calls) : Holds(db', Gives(calls[i])) /\ Keeps(mem', Gives(calls[i]))
<1>1. /\ db' = P!After(db, calls) /\ mem' = M!After(mem, calls)
      /\ now' \in Nat \ {0} /\ now' - 1 = now /\ now \in Nat \ {0}
  BY DEF Do, Where
<1>2. /\ Database(db', now) /\ Holds(db', Known) /\ Memory(mem') /\ Keeps(mem', Known)
      /\ Told(db') = Told(db)
      /\ \A i \in 1..Len(calls) : Holds(db', Gives(calls[i])) /\ Keeps(mem', Gives(calls[i]))
  <2> HIDE DEF Known
  <2>1. Database(db, now - 1) /\ Holds(db, Known) /\ Memory(mem) /\ Keeps(mem, Known)
    BY DEF Stored
  <2>2. QED
    BY <1>1, <2>1, PlainKeeps
<1>3. Quiet
  BY <1>1, <1>2, SameTold DEF Quiet
<1>4. QED
  BY <1>1, <1>2, <1>3

(* What the calls of the program need.                                     *)
LEMMA FreeCall ==
  ASSUME NEW K, NEW n, NEW row,
         NEW op \in {"update_run_node_state", "persist_goal", "update_goal",
                     "persist_compilation_failure", "persist_embedding", "attach_item",
                     "create_workspace_graph"}
  PROVE  Simple(C(op, row), K, n)
BY DEF Simple, Fine, Tells, Needs, Ops, C

LEMMA RunCall ==
  ASSUME NEW K, NEW n, NEW row, <<"runs", row.run>> \in K,
         NEW op \in {"create_run_node_state", "persist_checkpoint", "persist_tool_call",
                     "persist_model_call"}
  PROVE  Simple(C(op, row), K, n)
BY DEF Simple, Fine, Tells, Needs, Ops, C

LEMMA UpdateRunCall ==
  ASSUME NEW K, NEW n, NEW row, <<"runs", row.id>> \in K, DOMAIN row = RunFields
  PROVE  Simple(C("update_run", row), K, n)
BY DEF Simple, Fine, Tells, Needs, Ops, C

LEMMA ArtifactCall ==
  ASSUME NEW K, NEW n, NEW row, <<"runs", row.run>> \in K, DOMAIN row = ArtifactFields,
         row.at \in 0..n
  PROVE  Simple(C("persist_artifact", row), K, n)
BY DEF Simple, Fine, Tells, Needs, Ops, C

LEMMA LinkCall ==
  ASSUME NEW K, NEW type, type # "follows_up", NEW from, NEW to
  PROVE  Simple(WorkspaceEdge(type, from, to), K, now)
BY DEF Simple, Fine, Tells, Needs, Ops, C, WorkspaceEdge

LEMMA GraphCall ==
  ASSUME NEW K, NEW n, NEW g, TheWorkspace \in K, g.workspace = W,
         IsFiniteSet(g.nodes), IsFiniteSet(g.edges)
  PROVE  Simple(C("persist_task_graph", g), K, n)
BY DEF Simple, Fine, Tells, Needs, Ops, C, TheWorkspace

LEMMA TaskEdgeCall ==
  ASSUME NEW K, NEW n, NEW e, <<"task_graphs", e.graph>> \in K
  PROVE  Simple(C("persist_task_edge", e), K, n)
BY DEF Simple, Fine, Tells, Needs, Ops, C

LEMMA RememberIsPlain ==
  ASSUME now \in Nat, NEW K, NEW kind, kind \notin Voice, NEW text, NEW run, NEW embedded
  PROVE  Plain(Remember(Item(kind, text, run), embedded), K, now)
<1> DEFINE item == Item(kind, text, run)
           c1 == C("persist_memory_item", item)
           c2 == C("persist_embedding", [id |-> <<"embedding", now>>, owner |-> item.id])
           c3 == C("attach_item", item)
<1>1. Simple(c1, K, now)
  <2>1. item.id = <<"item", item.at>> /\ item.at \in 0..now /\ item.kind = kind
    BY DEF Item
  <2> HIDE DEF item
  <2>2. QED
    BY <2>1 DEF Simple, Fine, Tells, Needs, Ops, C
<1>2. Simple(c2, K, now) /\ Simple(c3, K, now)
  BY FreeCall
<1>3. Remember(item, embedded) = <<c1>> \o (IF embedded THEN <<c2, c3>> ELSE <<>>)
  BY DEF Remember
<1> HIDE DEF item, c1, c2, c3
<1>4. Plain(<<c1>>, K, now) /\ Plain(<<c2, c3>>, K, now) /\ Plain(<<>>, K, now)
  BY <1>1, <1>2, SimpleIsPlain, TwoArePlain, NoneArePlain
<1>5. Plain(<<c1>> \o <<c2, c3>>, K, now) /\ Plain(<<c1>> \o <<>>, K, now)
  BY <1>4, ConcatIsPlain
<1>6. QED
  BY <1>3, <1>5 DEF item

(* After such calls, and after none.                                       *)
LEMMA StoredAgain ==
  ASSUME Where, Stored, NEW calls, Plain(calls, Known, now), Do(calls), Known' \subseteq Known
  PROVE  Stored' /\ Quiet
<1>1. /\ Database(db', now' - 1) /\ Holds(db', Known)
      /\ Memory(mem') /\ Keeps(mem', Known)
      /\ Quiet
  BY DoesPlain
<1>2. Holds(db', Known') /\ Keeps(mem', Known')
  BY <1>1 DEF Holds, Keeps
<1>3. QED
  BY <1>1, <1>2 DEF Stored

LEMMA StoredStill ==
  ASSUME Where, Stored, UNCHANGED <<db, mem, now>>, Known' \subseteq Known
  PROVE  Stored' /\ Quiet
<1>1. Holds(db, Known') /\ Keeps(mem, Known')
  BY DEF Stored, Holds, Keeps
<1>2. QED
  BY <1>1 DEF Stored, Follows, Talk, Where, Quiet

LEMMA KnownLess ==
  /\ phase' \in {"prompt", "ingesting", "compiling", "collecting", "summarising", "asking",
                 "answering", "linking", "producing"} /\ phase # "closed" => Known' \subseteq Known
  /\ phase' = "closed" => Known' \subseteq Known
  /\ phase' = phase /\ turn.graph' = turn.graph /\ RunId' = RunId => Known' = Known
BY DEF Known, KnownIn

-----------------------------------------------------------------------------
(* The actions.                                                            *)
LEMMA SessionInit == Init => SInv
<1> SUFFICES ASSUME Init PROVE SInv
  OBVIOUS
<1>1. Where
  BY SMTT(60) DEF Init, Where, Early, Late, NoTurn
<1>2. Database(db, 0)
  <2>1. \A t \in P!Table : db[t] = {}
    BY DEF Init, P!Created, P!Table
  <2>2. IsFiniteSet({})
    BY FS_EmptySet
  <2>3. DOMAIN db = P!Table \cup {"raised"} /\ db = [t \in DOMAIN db |-> db[t]] /\ db.raised = FALSE
    BY DEF Init, P!Created
  <2>4. QED
    BY <2>1, <2>2, <2>3 DEF Database, P!Table
<1>3. Memory(mem)
  BY DEF Init, M!Created, Memory
<1>4. Stored
  <2>1. Known = {} /\ now - 1 = 0
    BY DEF Init, Known, KnownIn
  <2>2. QED
    BY <1>2, <1>3, <2>1 DEF Stored, Holds, Keeps
<1>5. Logged
  <2>1. log \in Seq(Entry) /\ previous \in Entry /\ crashes \in Nat /\ phase = "closed"
    BY DEF Init, Entry
  <2>2. db.workspace_edges = {}
    BY DEF Init, P!Created, P!Table
  <2>3. Follows = {}
    BY <2>2 DEF Follows
  <2>4. Consecutive = {}
    <3>1. Len(log) = 0
      BY DEF Init
    <3>2. QED
      BY <3>1 DEF Consecutive
  <2>5. QED
    BY <2>1, <2>3, <2>4 DEF Logged
<1>6. Spoken
  <2>1. db.memory_items = {}
    BY DEF Init, P!Created, P!Table
  <2>2. QED
    BY <2>1 DEF Spoken, Talk, Questions, Answers
<1>7. QED
  BY <1>1, <1>4, <1>5, <1>6 DEF SInv

LEMMA OpenKeeps == SInv /\ Open => SInv'
<1> SUFFICES ASSUME SInv, Open PROVE SInv'
  OBVIOUS
<1> DEFINE calls == <<Workspace>>
           n == now - 1
<1>1. Where /\ Stored /\ Logged /\ n \in Nat
  BY DEF SInv, Where
<1>2. /\ db' = P!After(db, calls) /\ mem' = M!After(M!Created, calls)
      /\ phase' = "prompt" /\ phase = "closed" /\ turn' = [NoTurn EXCEPT !.n = turn.n]
      /\ previous' = None /\ Break /\ UNCHANGED <<now, crashes>>
  BY DEF Open, GoTo
<1>3. Simple(Workspace, {}, n) /\ Gives(Workspace) = {TheWorkspace}
  <2>1. Gives(Workspace) = {TheWorkspace}
    BY DEF Gives, Workspace, C, TheWorkspace
  <2>2. QED
    BY <2>1, FreeCall DEF Workspace
<1>4. calls \in Seq({Workspace}) /\ Len(calls) = 1 /\ calls[1] = Workspace
  OBVIOUS
<1>5. FineAll(calls, {}, n)
  BY <1>3, <1>4 DEF FineAll, Simple
<1>6. Holds(db, {}) /\ Memory(M!Created) /\ Keeps(M!Created, {})
  BY DEF Holds, Keeps, Memory, M!Created
<1>7. Database(db, n)
  BY <1>1 DEF Stored
<1>8. ~Tells(Workspace)
  BY <1>3 DEF Simple
<1>9. /\ Database(db', n) /\ Holds(db', {TheWorkspace}) /\ Told(db') = Told(db)
      /\ Memory(mem') /\ Keeps(mem', {TheWorkspace})
  <2> HIDE DEF calls, n
  <2>1. /\ Database(P!After(db, calls), n)
        /\ \A i \in 1..Len(calls) : Holds(P!After(db, calls), Gives(calls[i]))
        /\ (\A i \in 1..Len(calls) : ~Tells(calls[i])) => Told(P!After(db, calls)) = Told(db)
    BY <1>1, <1>4, <1>5, <1>6, <1>7, DatabaseAfter
  <2>2. /\ Memory(M!After(M!Created, calls))
        /\ \A i \in 1..Len(calls) : Keeps(M!After(M!Created, calls), Gives(calls[i]))
    BY <1>1, <1>4, <1>5, <1>6, MemoryAfter
  <2>3. 1 \in 1..Len(calls) /\ \A i \in 1..Len(calls) : calls[i] = Workspace
    BY <1>4
  <2>4. QED
    BY <1>2, <1>3, <1>8, <2>1, <2>2, <2>3
<1>10. Known' = {TheWorkspace}
  BY <1>2 DEF Known, KnownIn
<1>11. Stored'
  BY <1>2, <1>9, <1>10 DEF Stored
<1>12. Where'
  BY <1>1, <1>2 DEF Where, Early, Late, NoTurn
<1>13. Follows' = Follows /\ Talk' = Talk
  BY <1>9, SameTold
<1>14. Logged'
  BY <1>1, <1>2, <1>13, BreakIsLogged
<1>15. Spoken'
  <2>1. turn'.n = turn.n /\ turn.n \in Nat
    BY <1>1, <1>2 DEF Where, NoTurn
  <2>2. QED
    BY <1>2, <1>13, <2>1, SpokenStill DEF SInv, Unsaid
<1>16. QED
  BY <1>11, <1>12, <1>14, <1>15 DEF SInv

LEMMA CloseKeeps ==
  ASSUME SInv, phase' = "closed", UNCHANGED <<turn, previous, log>>,
         Stored', Follows' = Follows, now' \in Nat \ {0}, Spoken',
         \/ crashes' = crashes /\ phase # "linking"
         \/ crashes' = crashes + 1
  PROVE  SInv'
<1>1. Where'
  BY DEF SInv, Where, Early, Late
<1>2. Consecutive' = Consecutive
  BY DEF Consecutive
<1>3. Logged'
  <2>1. Logged
    BY DEF SInv
  <2> HIDE DEF Follows, Consecutive
  <2>2. QED
    BY <1>2, <2>1 DEF Logged
<1>4. QED
  BY <1>1, <1>3 DEF SInv

LEMMA QuitKeeps == SInv /\ Quit => SInv'
<1> SUFFICES ASSUME SInv, Quit PROVE SInv'
  OBVIOUS
<1>1. /\ phase = "prompt" /\ phase' = "closed"
      /\ UNCHANGED <<db, mem, turn, previous, now, log, crashes>>
  BY DEF Quit, GoTo, counters
<1>2. Stored' /\ Quiet
  BY <1>1, KnownLess, StoredStill DEF SInv
<1>3. Spoken'
  BY <1>1, <1>2, SpokenStill DEF SInv, Where, Quiet, Unsaid
<1>4. QED
  BY <1>1, <1>2, <1>3, CloseKeeps DEF Quiet

LEMMA CrashKeeps == SInv /\ Crash => SInv'
<1> SUFFICES ASSUME SInv, Crash PROVE SInv'
  OBVIOUS
<1>1. phase' = "closed" /\ UNCHANGED <<db, mem, turn, previous, now, log>> /\ crashes' = crashes + 1
  BY DEF Crash, GoTo
<1>2. Stored' /\ Quiet
  BY <1>1, KnownLess, StoredStill DEF SInv
<1>3. Spoken'
  BY <1>1, <1>2, SpokenStill DEF SInv, Where, Quiet, Unsaid
<1>4. QED
  BY <1>1, <1>2, <1>3, CloseKeeps DEF Quiet

(* To another phase, with the history as it is.                            *)
LEMMA Advances ==
  ASSUME SInv, Follows' = Follows, now' \in Nat \ {0}, UNCHANGED <<log, previous, crashes>>,
         phase \notin {"linking", "closed", "producing"},
         phase' \notin {"linking", "producing", "closed"}, phase' \in Early \cup Late,
         DOMAIN turn' = DOMAIN NoTurn, turn' = [f \in DOMAIN turn' |-> turn'[f]],
         turn'.n \in Nat, phase' # "prompt" => turn'.n # 0,
         phase' \in Late => turn'.graph = GraphId(turn'.n)
  PROVE  Where' /\ Logged'
<1>1. Where'
  BY DEF Where
<1>2. Logged'
  BY UnbrokenIsLogged DEF SInv
<1>3. QED
  BY <1>1, <1>2

LEMMA MovesOn ==
  ASSUME SInv, Stored', Quiet, UNCHANGED <<log, previous, crashes>>,
         phase \in Unsaid \cup {"prompt"},
         phase' = phase \/ (phase' \in Unsaid \cup {"answering"} /\ phase \in Unsaid),
         DOMAIN turn' = DOMAIN NoTurn, turn' = [f \in DOMAIN turn' |-> turn'[f]],
         turn'.n = turn.n,
         phase' \in Late => turn'.graph = GraphId(turn'.n)
  PROVE  SInv'
<1>1. turn.n \in Nat /\ (phase # "prompt" => turn.n # 0)
  BY DEF SInv, Where, Unsaid
<1>2. Where' /\ Logged'
  BY <1>1, Advances DEF Quiet, Unsaid, Early, Late
<1>3. Spoken'
  BY <1>1, SpokenStill DEF SInv, Quiet
<1>4. QED
  BY <1>2, <1>3 DEF SInv

(* Back to the prompt, after a failure or a command.                       *)
LEMMA BreaksOff ==
  ASSUME SInv, Stored', Quiet, Break, previous' = None,
         phase' = "prompt", phase # "linking", UNCHANGED <<turn, crashes>>
  PROVE  SInv'
<1>1. Where'
  BY DEF SInv, Where, Early, Late, Quiet
<1>2. Logged'
  BY BreakIsLogged DEF SInv, Quiet
<1>3. Spoken'
  BY SpokenStill DEF SInv, Where, Quiet, Unsaid
<1>4. QED
  BY <1>1, <1>2, <1>3 DEF SInv

LEMMA ClearKeeps == SInv /\ Clear => SInv'
<1> SUFFICES ASSUME SInv, Clear PROVE SInv'
  OBVIOUS
<1> DEFINE g == P!LoadActiveGoal(db, W)
           c == C("update_goal", [g EXCEPT !.status = "closed", !.updated = now])
<1>1. /\ phase = "prompt" /\ phase' = "prompt" /\ previous' = None /\ Break
      /\ UNCHANGED <<turn, crashes>>
      /\ UNCHANGED <<db, mem, now>> \/ Do(<<c>>)
  BY DEF Clear
<1>2. Where /\ Stored
  BY DEF SInv
<1>3. Known' = Known
  BY <1>1, KnownLess DEF RunId
<1>4. Plain(<<c>>, Known, now)
  <2>1. Simple(c, Known, now)
    BY FreeCall
  <2>2. QED
    BY <2>1, SimpleIsPlain
<1>5. Stored' /\ Quiet
  <2> HIDE DEF c
  <2>1. CASE UNCHANGED <<db, mem, now>>
    BY <1>2, <1>3, <2>1, StoredStill
  <2>2. CASE Do(<<c>>)
    BY <1>2, <1>3, <1>4, <2>2, StoredAgain
  <2>3. QED
    BY <1>1, <2>1, <2>2
<1>6. QED
  BY <1>1, <1>5, BreaksOff

LEMMA InjectKeeps == SInv /\ Inject => SInv'
<1> SUFFICES ASSUME SInv, Inject PROVE SInv'
  OBVIOUS
<1> DEFINE calls == Remember(Item("human_note", Empty, None), FALSE)
<1>1. phase = "prompt" /\ Do(calls) /\ UNCHANGED <<phase, turn, previous, log, crashes>>
  BY DEF Inject
<1>2. Where /\ Stored
  BY DEF SInv
<1>3. Known' = Known
  BY <1>1, KnownLess DEF RunId
<1>4. Plain(calls, Known, now)
  BY <1>2, RememberIsPlain DEF Where, Voice
<1>5. Stored' /\ Quiet
  <2> HIDE DEF calls
  <2>1. QED
    BY <1>1, <1>2, <1>3, <1>4, StoredAgain
<1>6. /\ DOMAIN turn' = DOMAIN NoTurn /\ turn' = [f \in DOMAIN turn' |-> turn'[f]]
      /\ turn'.n = turn.n
  BY <1>1, <1>2 DEF Where
<1>7. QED
  BY <1>1, <1>5, <1>6, MovesOn DEF Late

LEMMA AskKeeps == ASSUME NEW p \in Prompt PROVE SInv /\ Ask(p) => SInv'
<1> SUFFICES ASSUME SInv, Ask(p) PROVE SInv'
  OBVIOUS
<1>1. /\ phase = "prompt" /\ phase' \in {"ingesting", "compiling"}
      /\ UNCHANGED <<db, mem, previous, now, log, crashes>>
      /\ DOMAIN turn' = DOMAIN NoTurn /\ turn' = [f \in DOMAIN turn' |-> turn'[f]]
      /\ turn'.n = turn.n + 1
  BY DEF Ask, GoTo, counters, NoTurn
<1>2. Where /\ Stored
  BY DEF SInv
<1>3. Stored' /\ Quiet
  BY <1>1, <1>2, KnownLess, StoredStill
<1>4. turn'.n \in Nat /\ turn'.n # 0
  BY <1>1, <1>2 DEF Where
<1>5. Where' /\ Logged'
  BY <1>1, <1>3, <1>4, Advances DEF Early, Late, Quiet
<1>6. Spoken'
  BY <1>1, <1>2, <1>3, SpokenStill DEF SInv, Where, Quiet
<1>7. QED
  BY <1>3, <1>5, <1>6 DEF SInv

LEMMA IngestKeeps == SInv /\ Ingest => SInv'
<1> SUFFICES ASSUME SInv, Ingest PROVE SInv'
  OBVIOUS
<1> DEFINE item == Item("source_passage", turn.prompt, None)
<1>1. Where /\ Stored /\ phase = "ingesting"
  BY DEF SInv, Ingest
<1>2. \A b \in BOOLEAN : Plain(Remember(item, b), Known, now)
  BY <1>1, RememberIsPlain DEF Where, Voice
<1>3. CASE /\ Do(Remember(item, TRUE)) /\ turn' = [turn EXCEPT !.chunk = @ + 1]
           /\ phase' \in {"compiling", "ingesting"} /\ UNCHANGED <<previous, log, crashes>>
  <2>1. /\ DOMAIN turn' = DOMAIN NoTurn /\ turn' = [f \in DOMAIN turn' |-> turn'[f]]
        /\ turn'.n \in Nat
    BY <1>1, <1>3 DEF Where, NoTurn
  <2>2. Stored' /\ Quiet
    BY <1>1, <1>2, <1>3, KnownLess, StoredAgain
  <2>3. QED
    BY <1>1, <1>3, <2>1, <2>2, MovesOn DEF Late, Unsaid
<1>4. CASE Do(Remember(item, FALSE)) /\ FailTurn
  <2>1. /\ previous' = None /\ Break /\ phase' = "prompt" /\ UNCHANGED <<turn, crashes>>
    BY <1>4 DEF FailTurn, GoTo
  <2>2. Stored' /\ Quiet
    BY <1>1, <1>2, <1>4, <2>1, KnownLess, StoredAgain
  <2>3. QED
    BY <1>1, <2>1, <2>2, BreaksOff
<1>5. QED
  BY <1>3, <1>4 DEF Ingest, GoTo, counters

(* The rows that a run goes by.                                            *)
LEMMA RunIsThere ==
  ASSUME Stored, phase = "running"
  PROVE  /\ P!LoadRun(db, RunId) \in db.runs /\ P!LoadRun(db, RunId).id = RunId
         /\ <<"runs", RunId>> \in Known /\ <<"task_graphs", turn.graph>> \in Known
         /\ TheWorkspace \in Known
<1>1. /\ <<"runs", RunId>> \in Known /\ <<"task_graphs", turn.graph>> \in Known
      /\ TheWorkspace \in Known
  BY DEF Known, KnownIn
<1>2. P!Has(db, "runs", RunId)
  BY <1>1 DEF Stored, Holds
<1>3. QED
  BY <1>1, <1>2 DEF P!LoadRun, P!Get, P!Has

LEMMA CompileFailsKeeps ==
  ASSUME NEW a \in {"new", "continue"}
  PROVE  SInv /\ CompileFails(a) => SInv'
<1> SUFFICES ASSUME SInv, CompileFails(a) PROVE SInv'
  OBVIOUS
<1> DEFINE c == C("persist_compilation_failure", [workspace |-> W, prompt |-> EffectivePrompt])
           open == OpenGoal(a)
<1>1. /\ phase = "compiling" /\ Do(open \o <<c>>)
      /\ previous' = None /\ Break /\ phase' = "prompt" /\ UNCHANGED <<turn, crashes>>
  BY DEF CompileFails, FailTurn, GoTo
<1>2. Where /\ Stored
  BY DEF SInv
<1>3. Plain(open, Known, now)
  <2>1. open = <<C("persist_goal", Goal(a))>> \/ open = <<>>
    BY DEF OpenGoal
  <2>2. Simple(C("persist_goal", Goal(a)), Known, now)
    BY FreeCall
  <2> HIDE DEF open
  <2>3. Plain(<<C("persist_goal", Goal(a))>>, Known, now) /\ Plain(<<>>, Known, now)
    BY <2>2, SimpleIsPlain, NoneArePlain
  <2>4. QED
    BY <2>1, <2>3
<1>4. Plain(<<c>>, Known, now)
  <2>1. Simple(c, Known, now)
    BY FreeCall
  <2>2. QED
    BY <2>1, SimpleIsPlain
<1> HIDE DEF c, open
<1>5. Plain(open \o <<c>>, Known, now)
  BY <1>3, <1>4, ConcatIsPlain
<1>6. Stored' /\ Quiet
  BY <1>1, <1>2, <1>5, KnownLess, StoredAgain
<1>7. QED
  BY <1>1, <1>6, BreaksOff

LEMMA FinishRunKeeps == SInv /\ FinishRun => SInv'
<1> SUFFICES ASSUME SInv, FinishRun PROVE SInv'
  OBVIOUS
<1> DEFINE r == P!LoadRun(db, RunId)
           row == [r EXCEPT !.status = "succeeded"]
           c == C("update_run", row)
<1>1. /\ phase = "running" /\ phase' = "collecting" /\ Do(<<c>>)
      /\ UNCHANGED <<turn, previous, log, crashes>>
  BY DEF FinishRun, GoTo, counters
<1>2. Where /\ Stored
  BY DEF SInv
<1>3. r \in db.runs /\ r.id = RunId /\ <<"runs", RunId>> \in Known
  BY <1>1, <1>2, RunIsThere
<1>4. DOMAIN row = RunFields /\ row.id = RunId
  BY <1>2, <1>3 DEF Stored, Database, RunFields
<1>5. Plain(<<c>>, Known, now)
  <2> HIDE DEF row
  <2>1. Simple(c, Known, now)
    BY <1>3, <1>4, UpdateRunCall
  <2>2. QED
    BY <2>1, SimpleIsPlain
<1> HIDE DEF c
<1>6. Stored' /\ Quiet
  BY <1>1, <1>2, <1>5, KnownLess, StoredAgain
<1>7. QED
  BY <1>1, <1>2, <1>6, MovesOn DEF Where, Late, Unsaid

LEMMA CollectKeeps == SInv /\ Collect => SInv'
<1> SUFFICES ASSUME SInv, Collect PROVE SInv'
  OBVIOUS
<1>1. Where /\ Stored
  BY DEF SInv
<1>2. /\ phase = "collecting" /\ phase' \in {"asking", "summarising"}
      /\ UNCHANGED <<db, mem, previous, now, log, crashes>>
      /\ turn' = [turn EXCEPT !.answer = AnswerOf(Made(db, RunId, {"final"}))]
  BY DEF Collect, GoTo, counters
<1>3. /\ DOMAIN turn' = DOMAIN NoTurn /\ turn' = [f \in DOMAIN turn' |-> turn'[f]]
      /\ turn'.n = turn.n /\ turn'.graph = turn.graph
  BY <1>1, <1>2 DEF Where, NoTurn
<1>4. Stored' /\ Quiet
  BY <1>1, <1>2, KnownLess, StoredStill
<1>5. QED
  BY <1>1, <1>2, <1>3, <1>4, MovesOn DEF Where, Late, Unsaid

LEMMA SummariseKeeps == SInv /\ Summarise => SInv'
<1> SUFFICES ASSUME SInv, Summarise PROVE SInv'
  OBVIOUS
<1> DEFINE a == CHOOSE x \in Summaries : \A y \in Summaries : x.at <= y.at
           item == Item("source_passage", a.content, RunId)
<1>1. Where /\ Stored /\ phase = "summarising"
  BY DEF SInv, Summarise
<1>2. \A b \in BOOLEAN : Plain(Remember(item, b), Known, now)
  BY <1>1, RememberIsPlain DEF Where, Voice
<1>3. \/ phase' = "answering" /\ UNCHANGED <<db, mem, turn, previous, now, log, crashes>>
      \/ /\ Do(Remember(item, TRUE)) /\ turn' = [turn EXCEPT !.stored = @ \cup {a.id}]
         /\ UNCHANGED <<phase, previous, log, crashes>>
      \/ Do(Remember(item, FALSE)) /\ FailTurn
  BY DEF Summarise, GoTo, counters
<1> HIDE DEF item
<1>4. CASE phase' = "answering" /\ UNCHANGED <<db, mem, turn, previous, now, log, crashes>>
  <2>1. Stored' /\ Quiet
    BY <1>1, <1>4, KnownLess, StoredStill
  <2>2. QED
    BY <1>1, <1>4, <2>1, MovesOn DEF Where, Late, Unsaid
<1>5. CASE /\ Do(Remember(item, TRUE)) /\ turn' = [turn EXCEPT !.stored = @ \cup {a.id}]
           /\ UNCHANGED <<phase, previous, log, crashes>>
  <2>1. /\ DOMAIN turn' = DOMAIN NoTurn /\ turn' = [f \in DOMAIN turn' |-> turn'[f]]
        /\ turn'.n = turn.n /\ turn'.graph = turn.graph
    BY <1>1, <1>5 DEF Where, NoTurn
  <2>2. Stored' /\ Quiet
    BY <1>1, <1>2, <1>5, KnownLess, StoredAgain
  <2>3. QED
    BY <1>1, <1>5, <2>1, <2>2, MovesOn DEF Where, Late, Unsaid
<1>6. CASE Do(Remember(item, FALSE)) /\ FailTurn
  <2>1. /\ previous' = None /\ Break /\ phase' = "prompt" /\ UNCHANGED <<turn, crashes>>
    BY <1>6 DEF FailTurn, GoTo
  <2>2. Stored' /\ Quiet
    BY <1>1, <1>2, <1>6, <2>1, KnownLess, StoredAgain
  <2>3. QED
    BY <1>1, <2>1, <2>2, BreaksOff
<1>7. QED
  BY <1>3, <1>4, <1>5, <1>6

(* The one call that adds to what has been said, and those that embed it.  *)
LEMMA SaidIsStored ==
  ASSUME Where, Stored, NEW kind \in Voice, NEW text, NEW embedded \in BOOLEAN,
         Do(Remember(Item(kind, text, RunId), embedded))
  PROVE  /\ now' \in Nat \ {0}
         /\ Database(db', now' - 1) /\ Holds(db', Known)
         /\ Memory(mem') /\ Keeps(mem', Known)
         /\ Follows' = Follows /\ Talk' = Talk \cup {Item(kind, text, RunId)}
<1> DEFINE item == Item(kind, text, RunId)
           c1 == C("persist_memory_item", item)
           c2 == C("persist_embedding", [id |-> <<"embedding", now>>, owner |-> item.id])
           c3 == C("attach_item", item)
           calls == Remember(item, embedded)
           S == {c1, c2, c3}
           e == P!Call(db, c1)
<1>1. /\ db' = P!After(db, calls) /\ mem' = M!After(mem, calls)
      /\ now' \in Nat \ {0} /\ now' - 1 = now /\ now \in Nat \ {0}
  BY DEF Do, Where
<1>2. Database(db, now - 1) /\ Holds(db, Known) /\ Memory(mem) /\ Keeps(mem, Known)
  BY DEF Stored
<1>3. Database(db, now)
  <2>1. 0..now-1 \subseteq 0..now
    BY <1>1
  <2>2. QED
    BY <1>2, <2>1 DEF Database
<1>4. /\ item.id = <<"item", now>> /\ item.at = now /\ item.kind = kind
  BY DEF Item
<1>5. /\ calls \in Seq(S) /\ Len(calls) \in Nat \ {0} /\ calls[1] = c1
      /\ IF embedded THEN Len(calls) = 3 /\ calls[2] = c2 /\ calls[3] = c3 ELSE Len(calls) = 1
  <2> DEFINE one == <<c1>>
             rest == IF embedded THEN <<c2, c3>> ELSE <<>>
  <2>1. calls = one \o rest
    BY DEF Remember
  <2>2. /\ one \in Seq(S) /\ Len(one) = 1 /\ one[1] = c1 /\ rest \in Seq(S)
        /\ IF embedded THEN Len(rest) = 2 /\ rest[1] = c2 /\ rest[2] = c3 ELSE Len(rest) = 0
    <3> HIDE DEF c1, c2, c3
    <3>1. one \in Seq(S) /\ Len(one) = 1 /\ one[1] = c1
      OBVIOUS
    <3>2. CASE embedded
      <4>1. rest = <<c2, c3>>
        BY <3>2
      <4>2. <<c2, c3>> \in Seq(S) /\ Len(<<c2, c3>>) = 2
        OBVIOUS
      <4>3. <<c2, c3>>[1] = c2 /\ <<c2, c3>>[2] = c3
        OBVIOUS
      <4> HIDE DEF one, rest, S
      <4>4. QED
        BY <3>1, <3>2, <4>1, <4>2, <4>3
    <3>3. CASE ~embedded
      <4>1. rest = <<>>
        BY <3>3
      <4>2. <<>> \in Seq(S) /\ Len(<<>>) = 0
        OBVIOUS
      <4> HIDE DEF one, rest, S
      <4>3. QED
        BY <3>1, <3>3, <4>1, <4>2
    <3> HIDE DEF one, rest, S
    <3>4. QED
      BY <3>2, <3>3
  <2> HIDE DEF calls, one, rest, c1, c2, c3, S
  <2>3. calls \in Seq(S) /\ Joined(calls, one, rest)
    BY <2>1, <2>2, Joins
  <2>4. QED
    BY <2>2, <2>3 DEF Joined
<1>6. c1.op = "persist_memory_item" /\ c1.row = item
  BY DEF C
<1>7. P!Call(db, c1) = P!Insert(db, "memory_items", item)
  <2> HIDE DEF c1
  <2>1. QED
    BY <1>6 DEF P!Call, P!PersistMemoryItem
<1> HIDE DEF item
<1>8. Fine(c1, Known, now) /\ Gives(c1) = {}
  BY <1>1, <1>4 DEF Fine, Needs, Gives, Ops, C
<1>9. Simple(c2, Known, now) /\ Simple(c3, Known, now)
  BY FreeCall
<1>10. ~P!Has(db, "memory_items", item.id)
  <2> SUFFICES ASSUME NEW m \in db.memory_items, m.id = item.id PROVE FALSE
    BY DEF P!Has
  <2>1. m.id = <<"item", m.at>> /\ m.at \in 0..now-1
    BY <1>2 DEF Database
  <2>2. m.at = now
    BY <1>4, <2>1
  <2>3. QED
    BY <1>1, <2>1, <2>2
<1>11. e = [db EXCEPT !.memory_items = @ \cup {item}]
  BY <1>7, <1>10 DEF P!Insert
<1>12. e.memory_items = db.memory_items \cup {item} /\ e.workspace_edges = db.workspace_edges
  BY <1>2, <1>11 DEF Database, P!Table
<1>13. Told(e)[1] = Follows /\ Told(e)[2] = Talk \cup {item}
  <2>1. item.kind \in Voice
    BY <1>4
  <2>2. {m \in e.memory_items : m.kind \in Voice} = Talk \cup {item}
    <3> HIDE DEF e, Voice
    <3>1. QED
      BY <1>12, <2>1 DEF Talk
  <2> HIDE DEF e
  <2>3. QED
    BY <1>12, <2>2 DEF Told, Follows
<1>14. Database(e, now) /\ Holds(e, Known)
  <2> HIDE DEF c1
  <2>1. QED
    BY <1>1, <1>2, <1>3, <1>8, CallKeeps DEF Holds
<1> HIDE DEF c1, c2, c3
<1>15. calls \in Seq(S) /\ Len(calls) \in Nat
  BY <1>5
<1>16. FineAll(calls, Known, now)
  <2> SUFFICES ASSUME NEW i \in 1..Len(calls)
               PROVE  Fine(calls[i], IF i = 1 THEN Known ELSE Known \cup Gives(calls[1]), now)
    BY DEF FineAll
  <2>1. calls[i] \in S /\ calls[1] = c1
    BY <1>5, <1>15
  <2>2. Known \cup Gives(calls[1]) = Known
    BY <1>8, <2>1
  <2> HIDE DEF calls, Known
  <2>3. QED
    BY <1>8, <1>9, <2>1, <2>2 DEF Simple
<1>17. Database(db', now) /\ Holds(db', Known) /\ Memory(mem') /\ Keeps(mem', Known)
  <2> HIDE DEF calls, Known
  <2>1. QED
    BY <1>1, <1>2, <1>3, <1>15, <1>16, DatabaseAfter, MemoryAfter
<1>18. Told(db') = Told(e)
  <2>1. PICK v : /\ v[0] = db
                 /\ \A k \in 1..Len(calls) : v[k] = P!Call(v[k-1], calls[k])
                 /\ P!After(db, calls) = v[Len(calls)]
    <3> HIDE DEF calls, S
    <3>1. QED
      BY <1>15, DatabaseSteps
  <2>2. 1 \in 1..Len(calls) /\ calls[1] = c1 /\ 1 - 1 = 0
    BY <1>5
  <2>3. v[1] = e
    <3> HIDE DEF calls
    <3>1. v[1] = P!Call(v[0], calls[1])
      BY <2>1, <2>2
    <3>2. QED
      BY <2>1, <2>2, <3>1
  <2>4. CASE embedded
    <3>1. Len(calls) = 3 /\ calls[2] = c2 /\ calls[3] = c3
      BY <1>5, <2>4
    <3> HIDE DEF calls, e
    <3>2. 2 \in 1..Len(calls) /\ 3 \in 1..Len(calls) /\ 2 - 1 = 1 /\ 3 - 1 = 2
      BY <3>1
    <3>3. v[2] = P!Call(e, c2) /\ v[3] = P!Call(v[2], c3)
      <4>1. v[2] = P!Call(v[1], calls[2]) /\ v[3] = P!Call(v[2], calls[3])
        BY <2>1, <3>2
      <4>2. QED
        BY <2>3, <3>1, <4>1
    <3>4. Told(P!Call(e, c2)) = Told(e)
      BY <1>1, <1>9, <1>14, CallKeeps DEF Simple
    <3>5. P!Call(v[2], c3) = v[2]
      BY DEF c3, C, P!Call
    <3>6. QED
      BY <1>1, <2>1, <3>1, <3>3, <3>4, <3>5
  <2>5. CASE ~embedded
    <3>1. Len(calls) = 1
      BY <1>5, <2>5
    <3>2. QED
      BY <1>1, <2>1, <2>3, <3>1
  <2>6. QED
    BY <2>4, <2>5
<1>19. /\ Follows = Told(db)[1] /\ Follows' = Told(db')[1]
       /\ Talk = Told(db)[2] /\ Talk' = Told(db')[2]
  BY DEF Follows, Told, Talk
<1>20. QED
  <2>1. Follows' = Follows /\ Talk' = Talk \cup {item}
    BY <1>13, <1>18, <1>19
  <2>2. QED
    BY <1>1, <1>17, <2>1 DEF item

(* The question of a turn is said before its answer, and after all that    *)
(* has been said before.                                                   *)
LEMMA SpokenOn ==
  ASSUME Where, Stored, Spoken, turn'.n = turn.n, NEW kind, NEW text,
         Talk' = Talk \cup {Item(kind, text, RunId)},
         \/ phase = "asking" /\ kind = "user_question" /\ phase' \in {"answering", "closed"}
         \/ phase = "answering" /\ kind = "assistant_answer" /\ phase' \in {"linking", "closed"}
  PROVE  Spoken'
<1> DEFINE item == Item(kind, text, RunId)
<1>1. item.at = now /\ item.kind = kind /\ item.run = <<"run", turn.n>> /\ item.run[2] = turn.n
  BY DEF Item, RunId
<1>2. Talk' = Talk \cup {item}
  OBVIOUS
<1> HIDE DEF item
<1>3. now \in Nat \ {0} /\ \A x \in Talk : x.at \in 0..now-1
  BY DEF Where, Stored, Database, Talk
<1>4. turn.n \in Nat /\ turn'.n = turn.n
  BY DEF Where
<1>5. \A x \in Talk : x.at \in Nat /\ x.at < now
  BY <1>3
<1>6. \A x \in Talk : x.run = <<"run", x.run[2]>> /\ x.run[2] \in 1..turn.n
  BY DEF Spoken
<1>7. turn.n \in 1..turn.n
  BY <1>4 DEF Where
<1>8. \A x \in Talk : x.kind = kind => x.run[2] # turn.n
  <2>1. CASE phase = "asking"
    BY <2>1 DEF Spoken, Unsaid
  <2>2. CASE phase = "answering"
    BY <2>2 DEF Spoken, Answers, Talk
  <2>3. QED
    BY <2>1, <2>2
<1>9. Questions' = {m \in Talk' : m.kind = "user_question"}
      /\ Answers' = {m \in Talk' : m.kind = "assistant_answer"}
      /\ Questions = {m \in Talk : m.kind = "user_question"}
      /\ Answers = {m \in Talk : m.kind = "assistant_answer"}
  BY DEF Questions, Answers, Talk, Voice
<1> HIDE DEF Talk, Questions, Answers
<1>10. \A x \in Talk' : x.run = <<"run", x.run[2]>> /\ x.run[2] \in 1..turn'.n
  BY <1>1, <1>2, <1>4, <1>6, <1>7
<1>11. \A x, y \in Talk' : x.at = y.at => x = y
  BY <1>1, <1>2, <1>3, <1>5 DEF Spoken
<1>12. \A x, y \in Talk' : x.at < y.at => x.run[2] <= y.run[2]
  BY <1>1, <1>2, <1>3, <1>4, <1>5, <1>6 DEF Spoken
<1>13. \A x, y \in Talk' : x.run[2] = y.run[2] /\ x.kind = y.kind => x = y
  BY <1>1, <1>2, <1>8 DEF Spoken
<1>14. \A q \in Questions', a \in Answers' : q.run[2] = a.run[2] => q.at < a.at
  <2> SUFFICES ASSUME NEW q \in Questions', NEW a \in Answers', q.run[2] = a.run[2]
               PROVE  q.at < a.at
    OBVIOUS
  <2>1. q \in Questions \/ q = item
    BY <1>2, <1>9
  <2>2. a \in Answers \/ a = item
    BY <1>2, <1>9
  <2>3. CASE a = item /\ q # item
    BY <1>1, <1>5, <1>9, <2>1, <2>3
  <2>4. CASE q = item
    <3>1. kind = "user_question" /\ a # item
      BY <1>1, <1>9, <2>4
    <3>2. \A x \in Talk : x.run[2] # turn.n
      BY <3>1 DEF Spoken, Unsaid
    <3>3. QED
      BY <1>1, <1>9, <2>2, <2>4, <3>1, <3>2
  <2>5. CASE q \in Questions /\ a \in Answers
    BY <2>5 DEF Spoken
  <2>6. QED
    BY <2>1, <2>2, <2>3, <2>4, <2>5
<1>15. phase' = "answering" => \A a \in Answers' : a.run[2] # turn'.n
  <2> SUFFICES ASSUME phase' = "answering", NEW a \in Answers' PROVE a.run[2] # turn.n
    BY <1>4
  <2>1. kind = "user_question" /\ phase = "asking" /\ a \in Talk
    BY <1>1, <1>2, <1>9
  <2>2. QED
    BY <2>1 DEF Spoken, Unsaid
<1>16. phase' \notin Unsaid
  BY DEF Unsaid
<1>17. QED
  BY <1>10, <1>11, <1>12, <1>13, <1>14, <1>15, <1>16 DEF Spoken

(* The process ends in the middle of storing an item.                      *)
LEMMA DiesKeeps ==
  ASSUME SInv, Dies, NEW kind, NEW text, Do(Remember(Item(kind, text, RunId), FALSE)),
         \/ phase = "asking" /\ kind = "user_question"
         \/ phase = "answering" /\ kind = "assistant_answer"
  PROVE  SInv'
<1>1. phase' = "closed" /\ UNCHANGED <<turn, previous, log, crashes>>
  BY DEF Dies, GoTo
<1>2. Where /\ Stored /\ kind \in Voice
  BY DEF SInv, Voice
<1>3. /\ now' \in Nat \ {0}
      /\ Database(db', now' - 1) /\ Holds(db', Known)
      /\ Memory(mem') /\ Keeps(mem', Known)
      /\ Follows' = Follows /\ Talk' = Talk \cup {Item(kind, text, RunId)}
  BY <1>2, SaidIsStored
<1>4. Stored'
  BY <1>1, <1>3, KnownLess DEF Stored, Holds, Keeps
<1>5. Spoken'
  BY <1>1, <1>2, <1>3, SpokenOn DEF SInv
<1>6. QED
  BY <1>1, <1>3, <1>4, <1>5, CloseKeeps

LEMMA StoreQuestionKeeps == SInv /\ StoreQuestion => SInv'
<1> SUFFICES ASSUME SInv, StoreQuestion PROVE SInv'
  OBVIOUS
<1> DEFINE kind == "user_question"
           item == Item(kind, turn.prompt, RunId)
<1>1. Where /\ Stored /\ phase = "asking" /\ kind \in Voice
  BY DEF SInv, StoreQuestion, Voice
<1>2. \/ /\ Do(Remember(item, TRUE)) /\ phase' = "answering"
         /\ UNCHANGED <<turn, previous, log, crashes>>
      \/ Do(Remember(item, FALSE)) /\ Dies
  BY DEF StoreQuestion, GoTo, counters
<1>3. CASE /\ Do(Remember(item, TRUE)) /\ phase' = "answering"
           /\ UNCHANGED <<turn, previous, log, crashes>>
  <2>1. /\ now' \in Nat \ {0}
        /\ Database(db', now' - 1) /\ Holds(db', Known)
        /\ Memory(mem') /\ Keeps(mem', Known)
        /\ Follows' = Follows /\ Talk' = Talk \cup {item}
    <3> HIDE DEF kind
    <3>1. QED
      BY <1>1, <1>3, SaidIsStored
  <2>2. Stored'
    BY <1>1, <1>3, <2>1, KnownLess DEF Stored, Holds, Keeps
  <2>3. Where' /\ Logged'
    BY <1>1, <1>3, <2>1, Advances DEF Where, Early, Late
  <2>4. Spoken'
    BY <1>1, <1>3, <2>1, SpokenOn DEF SInv
  <2>5. QED
    BY <2>2, <2>3, <2>4 DEF SInv
<1>4. CASE Do(Remember(item, FALSE)) /\ Dies
  BY <1>1, <1>4, DiesKeeps
<1>5. QED
  BY <1>2, <1>3, <1>4

(* The graph of an answered turn goes into the history before its edge.    *)
LEMMA StoreAnswerKeeps == SInv /\ StoreAnswer => SInv'
<1> SUFFICES ASSUME SInv, StoreAnswer PROVE SInv'
  OBVIOUS
<1> DEFINE kind == "assistant_answer"
           item == Item(kind, turn.answer, RunId)
<1>1. Where /\ Stored /\ Logged /\ phase = "answering" /\ kind \in Voice
  BY DEF SInv, StoreAnswer, Voice
<1>2. \/ /\ Do(Remember(item, TRUE)) /\ turn' = [turn EXCEPT !.memory = item.id]
         /\ phase' = "linking" /\ log' = Append(log, turn.graph)
         /\ UNCHANGED <<previous, crashes>>
      \/ Do(Remember(item, FALSE)) /\ Dies
  BY DEF StoreAnswer, GoTo, counters
<1>3. CASE /\ Do(Remember(item, TRUE)) /\ turn' = [turn EXCEPT !.memory = item.id]
           /\ phase' = "linking" /\ log' = Append(log, turn.graph)
           /\ UNCHANGED <<previous, crashes>>
  <2>1. /\ now' \in Nat \ {0}
        /\ Database(db', now' - 1) /\ Holds(db', Known)
        /\ Memory(mem') /\ Keeps(mem', Known)
        /\ Follows' = Follows /\ Talk' = Talk \cup {item}
    <3> HIDE DEF kind
    <3>1. QED
      BY <1>1, <1>3, SaidIsStored
  <2>2. /\ DOMAIN turn' = DOMAIN NoTurn /\ turn' = [f \in DOMAIN turn' |-> turn'[f]]
        /\ turn'.n = turn.n /\ turn'.graph = turn.graph
    BY <1>1, <1>3 DEF Where, NoTurn
  <2>3. Where'
    BY <1>1, <1>3, <2>1, <2>2 DEF Where, Early, Late
  <2>4. turn.graph \in Entry /\ turn.graph # None
    BY <1>1, GraphsAreNot DEF Where, Late
  <2>5. log # <<>> /\ log[Len(log)] = previous /\ log \in Seq(Entry)
    BY <1>1 DEF Logged
  <2>6. /\ log' \in Seq(Entry) /\ log' # <<>> /\ log'[Len(log')] = turn.graph
        /\ Consecutive' = Consecutive \cup
             IF log # <<>> /\ log[Len(log)] # None /\ turn.graph # None
               THEN {<<turn.graph, log[Len(log)]>>} ELSE {}
    <3> HIDE DEF Consecutive
    <3>1. QED
      BY <1>3, <2>4, <2>5, Continued
  <2>7. Consecutive' = Consecutive \cup Edge /\ Edge' = Edge
    BY <1>3, <2>2, <2>4, <2>5, <2>6 DEF Edge
  <2>8. Logged'
    <3> HIDE DEF Follows, Consecutive, Edge
    <3>1. QED
      BY <1>1, <1>3, <2>1, <2>2, <2>6, <2>7 DEF Logged
  <2>9. Stored'
    BY <1>1, <1>3, <2>1, KnownLess DEF Stored, Holds, Keeps
  <2>10. Spoken'
    BY <1>1, <1>3, <2>1, <2>2, SpokenOn DEF SInv
  <2>11. QED
    BY <2>3, <2>8, <2>9, <2>10 DEF SInv
<1>4. CASE Do(Remember(item, FALSE)) /\ Dies
  BY <1>1, <1>4, DiesKeeps
<1>5. QED
  BY <1>2, <1>3, <1>4

(* The one call that adds a link.                                          *)
LEMMA LinkIsNew ==
  ASSUME Where, Stored, NEW from, NEW to, phase # "closed",
         Do(<<WorkspaceEdge("follows_up", from, to)>>)
  PROVE  /\ now' \in Nat \ {0}
         /\ Database(db', now' - 1) /\ Holds(db', Known)
         /\ Memory(mem') /\ Keeps(mem', Known)
         /\ Follows' = Follows \cup {<<from, to>>} /\ Talk' = Talk
<1> DEFINE row == [id |-> <<"link", "follows_up", now>>, workspace |-> W, type |-> "follows_up",
                   from |-> from, to |-> to]
           c == WorkspaceEdge("follows_up", from, to)
           calls == <<c>>
<1>1. /\ db' = P!After(db, calls) /\ mem' = M!After(mem, calls)
      /\ now' \in Nat \ {0} /\ now' - 1 = now /\ now \in Nat \ {0}
  BY DEF Do, Where
<1>2. Database(db, now - 1) /\ Holds(db, Known) /\ Memory(mem) /\ Keeps(mem, Known)
  BY DEF Stored
<1>3. Database(db, now)
  <2>1. 0..now-1 \subseteq 0..now
    BY <1>1
  <2>2. QED
    BY <1>2, <2>1 DEF Database
<1>4. Fine(c, Known, now)
  BY DEF Fine, Needs, Ops, C, WorkspaceEdge
<1>5. calls \in Seq({c}) /\ Len(calls) = 1 /\ calls[1] = c
  OBVIOUS
<1>6. FineAll(calls, Known, now)
  BY <1>4, <1>5 DEF FineAll
<1>7. Database(db', now) /\ Holds(db', Known) /\ Memory(mem') /\ Keeps(mem', Known)
  <2> HIDE DEF calls, Known
  <2>1. QED
    BY <1>1, <1>2, <1>3, <1>5, <1>6, DatabaseAfter, MemoryAfter
<1>8. db' = P!Insert(db, "workspace_edges", row)
  <2>1. PICK v : /\ v[0] = db
                 /\ \A k \in 1..Len(calls) : v[k] = P!Call(v[k-1], calls[k])
                 /\ P!After(db, calls) = v[Len(calls)]
    <3> HIDE DEF calls
    <3>1. QED
      BY <1>5, DatabaseSteps
  <2>2. 1 \in 1..Len(calls) /\ 1 - 1 = 0
    BY <1>5
  <2>3. db' = P!Call(db, c)
    <3> HIDE DEF calls, c
    <3>1. v[1] = P!Call(v[0], calls[1])
      BY <2>1, <2>2
    <3>2. QED
      BY <1>1, <1>5, <2>1, <3>1
  <2>4. c.op = "persist_workspace_edge" /\ c.row = row
    BY DEF WorkspaceEdge, C
  <2> HIDE DEF c
  <2>5. QED
    BY <2>3, <2>4 DEF P!Call, P!PersistWorkspaceEdge
<1>9. ~P!Has(db, "workspace_edges", row.id)
  <2> SUFFICES ASSUME NEW e \in db.workspace_edges, e.id = row.id PROVE FALSE
    BY DEF P!Has
  <2>1. PICK m \in 0..now-1 : e.id = <<"link", e.type, m>>
    BY <1>2 DEF Database
  <2>2. m = now
    BY <2>1
  <2>3. QED
    BY <1>1, <2>2
<1>10. db'.workspace_edges = db.workspace_edges \cup {row}
  BY <1>2, <1>8, <1>9 DEF P!Insert, Database, P!Table
<1>11. Follows' = Follows \cup {<<from, to>>}
  <2>1. row.type = "follows_up" /\ row.from = from /\ row.to = to
    OBVIOUS
  <2> HIDE DEF row
  <2>2. {f \in db'.workspace_edges : f.type = "follows_up"}
          = {f \in db.workspace_edges : f.type = "follows_up"} \cup {row}
    BY <1>10, <2>1
  <2>3. Follows' = {<<e.from, e.to>> : e \in {f \in db'.workspace_edges : f.type = "follows_up"}}
    BY DEF Follows
  <2>4. QED
    BY <2>1, <2>2, <2>3 DEF Follows
<1>12. Talk' = Talk
  <2>1. db'.memory_items = db.memory_items
    BY <1>2, <1>8 DEF P!Insert, Database, P!Table
  <2>2. QED
    BY <2>1 DEF Talk
<1>13. QED
  BY <1>1, <1>7, <1>11, <1>12

LEMMA LinkFollowsUpKeeps == SInv /\ LinkFollowsUp => SInv'
<1> SUFFICES ASSUME SInv, LinkFollowsUp PROVE SInv'
  OBVIOUS
<1>1. Where /\ Stored /\ Logged
  BY DEF SInv
<1>2. /\ phase = "linking" /\ phase' = "producing" /\ UNCHANGED <<turn, previous, log, crashes>>
      /\ IF previous = None THEN UNCHANGED <<db, mem, now>>
         ELSE Do(<<WorkspaceEdge("follows_up", turn.graph, previous)>>)
  BY DEF LinkFollowsUp, GoTo, counters
<1>3. Known' \subseteq Known
  BY <1>2, KnownLess
<1>4. Stored' /\ now' \in Nat \ {0} /\ Follows' = Follows \cup Edge /\ Talk' = Talk
  <2>1. CASE previous = None
    BY <1>1, <1>2, <1>3, <2>1, StoredStill DEF Edge, Quiet
  <2>2. CASE previous # None
    <3>1. Do(<<WorkspaceEdge("follows_up", turn.graph, previous)>>)
      BY <1>2, <2>2
    <3>2. /\ now' \in Nat \ {0}
          /\ Database(db', now' - 1) /\ Holds(db', Known)
          /\ Memory(mem') /\ Keeps(mem', Known)
          /\ Follows' = Follows \cup {<<turn.graph, previous>>} /\ Talk' = Talk
      BY <1>1, <1>2, <3>1, LinkIsNew
    <3>3. Stored'
      BY <1>3, <3>2 DEF Stored, Holds, Keeps
    <3>4. QED
      BY <2>2, <3>2, <3>3 DEF Edge
  <2>3. QED
    BY <2>1, <2>2
<1>5. Where'
  BY <1>1, <1>2, <1>4 DEF Where, Early, Late
<1>6. Consecutive' = Consecutive
  BY <1>2 DEF Consecutive
<1>7. Logged'
  <2> HIDE DEF Follows, Consecutive, Edge
  <2>1. QED
    BY <1>1, <1>2, <1>4, <1>6 DEF Logged
<1>8. Spoken'
  BY <1>1, <1>2, <1>4, SpokenStill DEF SInv, Where, Unsaid
<1>9. QED
  BY <1>4, <1>5, <1>7, <1>8 DEF SInv

LEMMA LinkProducedKeeps == SInv /\ LinkProduced => SInv'
<1> SUFFICES ASSUME SInv, LinkProduced PROVE SInv'
  OBVIOUS
<1>1. Where /\ Stored /\ Logged
  BY DEF SInv
<1>2. /\ phase = "producing" /\ phase' = "prompt" /\ previous' = turn.graph
      /\ UNCHANGED <<turn, log, crashes>>
      /\ \/ UNCHANGED <<db, mem, now>>
         \/ \E from : Do(<<WorkspaceEdge("produced", from, turn.memory)>>)
  BY DEF LinkProduced, GoTo, counters
<1>3. Known' \subseteq Known
  BY <1>2, KnownLess
<1>4. Stored' /\ Quiet
  <2>1. CASE UNCHANGED <<db, mem, now>>
    BY <1>1, <1>3, <2>1, StoredStill
  <2>2. CASE \E from : Do(<<WorkspaceEdge("produced", from, turn.memory)>>)
    <3>1. PICK from : Do(<<WorkspaceEdge("produced", from, turn.memory)>>)
      BY <2>2
    <3> DEFINE c == WorkspaceEdge("produced", from, turn.memory)
    <3>2. Simple(c, Known, now)
      BY LinkCall
    <3> HIDE DEF c
    <3>3. Plain(<<c>>, Known, now)
      BY <3>2, SimpleIsPlain
    <3>4. Do(<<c>>)
      BY <3>1 DEF c
    <3>5. QED
      BY <1>1, <1>3, <3>3, <3>4, StoredAgain
  <2>3. QED
    BY <1>2, <2>1, <2>2
<1>5. Where'
  BY <1>1, <1>2, <1>4 DEF Where, Early, Late, Unsaid, Quiet
<1>6. Consecutive' = Consecutive /\ turn.graph \in Entry
  BY <1>1, <1>2, GraphsAreNot DEF Consecutive, Where, Late
<1>7. Logged'
  <2> HIDE DEF Follows, Consecutive
  <2>1. QED
    BY <1>1, <1>2, <1>4, <1>6 DEF Logged, Quiet
<1>8. Spoken'
  BY <1>1, <1>2, <1>4, SpokenStill DEF SInv, Where, Unsaid, Quiet
<1>9. QED
  BY <1>4, <1>5, <1>7, <1>8 DEF SInv

-----------------------------------------------------------------------------
(* A graph of a proposal is finite.                                        *)
LEMMA ProposedIsFinite ==
  ASSUME NEW shape \in Shape, NEW goal
  PROVE  IsFiniteSet(Graph(shape, goal).nodes) /\ IsFiniteSet(Graph(shape, goal).edges)
<1> DEFINE g == GraphId(turn.n)
           node(i) == <<"node", turn.n, i>>
           row(i) == [id |-> node(i), graph |-> g, kind |-> shape[i].kind, key |-> shape[i].key,
                      cache |-> shape[i].cache, summary |-> shape[i].summary,
                      rank |-> shape[i].rank]
           edge(i) == [id |-> <<"edge", turn.n, i>>, graph |-> g, from |-> node(shape[i].up),
                       to |-> node(i)]
           D == DOMAIN shape
           E == {j \in DOMAIN shape : shape[j].up # 0}
<1>1. IsFiniteSet(D) /\ IsFiniteSet(E)
  <2>1. shape \in Seq(Part)
    BY SessionAssumption
  <2>2. D = 1..Len(shape) /\ Len(shape) \in Nat
    BY <2>1
  <2>3. IsFiniteSet(D)
    BY <2>2, FS_Interval
  <2>4. QED
    BY <2>3, FS_Subset
<1>2. Graph(shape, goal).nodes = {row(i) : i \in D} /\ Graph(shape, goal).edges = {edge(i) : i \in E}
  BY DEF Graph
<1>3. IsFiniteSet({row(i) : i \in D})
  <2> DEFINE f == [i \in D |-> row(i)]
             R == {row(i) : i \in D}
  <2>1. f \in Surjection(D, R)
    BY DEF Surjection
  <2> HIDE DEF f, R, D
  <2>2. IsFiniteSet(R)
    BY <1>1, <2>1, FS_Surjection DEF ExistsSurjection
  <2>3. QED
    BY <2>2 DEF R
<1>4. IsFiniteSet({edge(i) : i \in E})
  <2> DEFINE f == [i \in E |-> edge(i)]
             R == {edge(i) : i \in E}
  <2>1. f \in Surjection(E, R)
    BY DEF Surjection
  <2> HIDE DEF f, R, E
  <2>2. IsFiniteSet(R)
    BY <1>1, <2>1, FS_Surjection DEF ExistsSurjection
  <2>3. QED
    BY <2>2 DEF R
<1>5. QED
  BY <1>2, <1>3, <1>4

LEMMA CompileKeeps ==
  ASSUME NEW a \in {"new", "continue"}, NEW shape \in Shape
  PROVE  SInv /\ Compile(a, shape) => SInv'
<1> SUFFICES ASSUME SInv, Compile(a, shape) PROVE SInv'
  OBVIOUS
<1> DEFINE open == OpenGoal(a)
           g == Graph(shape, Goal(a).id)
           c1 == C("persist_task_graph", g)
           c2 == WorkspaceEdge("supports_goal", GraphId(turn.n), Goal(a).id)
           c3 == C("update_goal", UpdatedGoal(a))
           calls == open \o <<c1, c2, c3>>
<1>1. Where /\ Stored
  BY DEF SInv
<1>2. /\ phase = "compiling" /\ Do(calls)
      /\ turn' = [turn EXCEPT !.graph = GraphId(turn.n)] /\ phase' = "starting"
      /\ UNCHANGED <<previous, log, crashes>>
  BY DEF Compile, GoTo, counters
<1>3. TheWorkspace \in Known
  BY <1>2 DEF Known, KnownIn
<1>4. Simple(c1, Known, now) /\ Simple(c2, Known, now) /\ Simple(c3, Known, now)
  <2>1. g.workspace = W
    BY DEF Graph
  <2>2. Simple(c1, Known, now)
    BY <1>3, <2>1, ProposedIsFinite, GraphCall
  <2>3. Simple(c2, Known, now)
    BY LinkCall
  <2>4. Simple(c3, Known, now)
    BY FreeCall
  <2>5. QED
    BY <2>2, <2>3, <2>4
<1>5. Gives(c1) = {<<"task_graphs", GraphId(turn.n)>>}
  <2>1. g.id = GraphId(turn.n)
    BY DEF Graph
  <2> HIDE DEF g
  <2>2. QED
    BY <2>1 DEF Gives, C
<1>6. open \in Seq({C("persist_goal", Goal(a))})
  <2> DEFINE c == C("persist_goal", Goal(a))
  <2>1. open = <<c>> \/ open = <<>>
    BY DEF OpenGoal
  <2> HIDE DEF open, c
  <2>2. <<c>> \in Seq({c}) /\ <<>> \in Seq({c})
    OBVIOUS
  <2>3. open \in Seq({c})
    BY <2>1, <2>2
  <2>4. QED
    BY <2>3 DEF c
<1>7. Plain(open, Known, now)
  <2>1. Simple(C("persist_goal", Goal(a)), Known, now)
    BY FreeCall
  <2> HIDE DEF open
  <2>2. QED
    BY <1>6, <2>1, PlainBy
<1> DEFINE rest == <<c1, c2, c3>>
<1>8. rest \in Seq({c1, c2, c3}) /\ Len(rest) = 3 /\ rest[1] = c1
  OBVIOUS
<1>9. Plain(rest, Known, now)
  BY <1>4, ThreeArePlain
<1>10. calls = open \o rest
  OBVIOUS
<1> HIDE DEF open, c1, c2, c3, rest, calls
<1>11. Plain(calls, Known, now)
  BY <1>7, <1>9, <1>10, ConcatIsPlain
<1>12. \E i \in 1..Len(calls) : calls[i] = c1
  <2> DEFINE S == {C("persist_goal", Goal(a)), c1, c2, c3}
  <2>1. open \in Seq(S) /\ rest \in Seq(S)
    BY <1>6, <1>8
  <2> HIDE DEF S
  <2>2. Len(open) \in Nat /\ Len(calls) = Len(open) + 3 /\ calls[Len(open) + 1] = rest[1]
    <3>1. Joined(calls, open, rest)
      BY <1>10, <2>1, Joins
    <3>2. QED
      BY <1>8, <2>1, <3>1 DEF Joined
  <2>3. Len(open) + 1 \in 1..Len(calls)
    BY <2>2
  <2>4. QED
    BY <1>8, <2>2, <2>3
<1>13. /\ Quiet
       /\ Database(db', now' - 1) /\ Holds(db', Known)
       /\ Memory(mem') /\ Keeps(mem', Known)
       /\ Holds(db', Gives(c1)) /\ Keeps(mem', Gives(c1))
  BY <1>1, <1>2, <1>11, <1>12, DoesPlain
<1>14. /\ DOMAIN turn' = DOMAIN NoTurn /\ turn' = [f \in DOMAIN turn' |-> turn'[f]]
       /\ turn'.n = turn.n /\ turn'.graph = GraphId(turn.n) /\ turn.n \in Nat
  BY <1>1, <1>2 DEF Where, NoTurn
<1>15. Known' \subseteq Known \cup Gives(c1)
  BY <1>2, <1>3, <1>5, <1>14 DEF Known, KnownIn
<1>16. Stored'
  BY <1>13, <1>15 DEF Stored, Holds, Keeps
<1>17. QED
  BY <1>2, <1>13, <1>14, <1>16, MovesOn DEF Late, Unsaid

(* The rows of the nodes, as far as the graph has them.                    *)
LEMMA StatesAreCreated ==
  ASSUME Where, Stored, P!Has(db, "task_graphs", turn.graph)
  PROVE  \E S : /\ StatesCreated \in Seq(S)
                /\ \A c \in S : \E x \in Nodes : c = C("create_run_node_state", State(x.id))
<1> DEFINE R == {State(n.id) : n \in Nodes}
           S == {C("create_run_node_state", row) : row \in R}
           s == SetToSeq(R)
<1>1. IsFiniteSet(Nodes)
  <2>1. Nodes = P!OfGraph(db, "nodes", turn.graph)
    BY DEF Nodes, P!LoadTaskGraph
  <2>2. Nodes \subseteq db.nodes /\ IsFiniteSet(db.nodes)
    BY <2>1 DEF P!OfGraph, Stored, Database
  <2>3. QED
    BY <2>2, FS_Subset
<1>2. IsFiniteSet(R)
  <2> DEFINE f == [n \in Nodes |-> State(n.id)]
  <2>1. f \in Surjection(Nodes, R)
    BY DEF Surjection
  <2> HIDE DEF f, R
  <2>2. QED
    BY <1>1, <2>1, FS_Surjection DEF ExistsSurjection
<1>3. \A row \in R : \E x \in Nodes : row = State(x.id)
  OBVIOUS
<1>4. StatesCreated = [i \in DOMAIN s |-> C("create_run_node_state", s[i])]
  BY DEF StatesCreated
<1> HIDE DEF R
<1>5. s \in Seq(R)
  BY <1>2, InSomeOrder
<1> HIDE DEF s
<1>6. StatesCreated \in Seq(S)
  <2>1. DOMAIN s = 1..Len(s) /\ Len(s) \in Nat /\ \A i \in DOMAIN s : s[i] \in R
    BY <1>5
  <2>2. StatesCreated \in [1..Len(s) -> S]
    BY <1>4, <2>1
  <2>3. QED
    BY <2>1, <2>2
<1>7. \A c \in S : \E x \in Nodes : c = C("create_run_node_state", State(x.id))
  BY <1>3
<1>8. QED
  BY <1>6, <1>7

LEMMA StartRunKeeps == SInv /\ StartRun => SInv'
<1> SUFFICES ASSUME SInv, StartRun PROVE SInv'
  OBVIOUS
<1> DEFINE run == [id |-> RunId, workspace |-> W, graph |-> turn.graph, status |-> "pending",
                   pc |-> None]
           row == [run EXCEPT !.status = "running"]
           c1 == C("create_run", run)
           c2 == C("update_run", row)
           one == <<c1>>
           last == <<c2>>
           head == one \o StatesCreated
           calls == head \o last
           G == {<<"runs", RunId>>}
<1>1. Where /\ Stored
  BY DEF SInv
<1>2. /\ phase = "starting" /\ phase' = "running" /\ Do(calls)
      /\ turn' = [turn EXCEPT !.run = RunId] /\ UNCHANGED <<previous, log, crashes>>
  BY DEF StartRun, GoTo, counters
<1>3. TheWorkspace \in Known /\ <<"task_graphs", turn.graph>> \in Known
  BY <1>2 DEF Known, KnownIn
<1>4. P!Has(db, "task_graphs", turn.graph)
  BY <1>1, <1>3 DEF Stored, Holds
<1>5. Fine(c1, Known, now) /\ Gives(c1) = G /\ ~Tells(c1)
  BY <1>3 DEF Fine, Needs, Gives, Tells, C, Ops, RunFields
<1>6. Simple(c2, Known \cup G, now)
  <2>1. DOMAIN row = RunFields /\ row.id = RunId
    BY DEF RunFields
  <2> HIDE DEF row
  <2>2. QED
    BY <2>1, UpdateRunCall
<1>7. PICK S : /\ StatesCreated \in Seq(S)
               /\ \A c \in S : \E x \in Nodes : c = C("create_run_node_state", State(x.id))
  BY <1>1, <1>4, StatesAreCreated
<1>8. \A c \in S : Simple(c, Known \cup G, now)
  <2> SUFFICES ASSUME NEW c \in S PROVE Simple(c, Known \cup G, now)
    OBVIOUS
  <2>1. PICK x \in Nodes : c = C("create_run_node_state", State(x.id))
    BY <1>7
  <2>2. <<"runs", State(x.id).run>> \in Known \cup G
    BY DEF State
  <2>3. Simple(C("create_run_node_state", State(x.id)), Known \cup G, now)
    BY <2>2, RunCall
  <2>4. QED
    BY <2>1, <2>3
<1> DEFINE A == S \cup {c1, c2}
<1>9. one \in Seq(A) /\ StatesCreated \in Seq(A) /\ last \in Seq(A)
  BY <1>7
<1>10. /\ Len(one) = 1 /\ one[1] = c1 /\ Len(last) = 1 /\ last[1] = c2
       /\ head = one \o StatesCreated /\ calls = head \o last
  OBVIOUS
<1> HIDE DEF run, row, c1, c2, A, G, one, last, head, calls
<1>11. head \in Seq(A) /\ Joined(head, one, StatesCreated)
  BY <1>9, <1>10, Joins
<1>12. calls \in Seq(A) /\ Joined(calls, head, last)
  <2>1. head \in Seq(A) /\ last \in Seq(A)
    BY <1>9, <1>11
  <2>2. Joined(head \o last, head, last)
    BY <2>1, Joins
  <2>3. head \o last \in Seq(A)
    BY <2>1
  <2>4. calls = head \o last
    BY <1>10
  <2>5. QED
    BY <2>2, <2>3, <2>4
<1>13. /\ Len(one) = 1 /\ one[1] = c1 /\ Len(last) = 1 /\ last[1] = c2
       /\ Len(head) \in Nat /\ Len(calls) \in Nat /\ Len(StatesCreated) \in Nat
  BY <1>9, <1>10, <1>11, <1>12
<1>14. calls[1] = c1 /\ 1 \in 1..Len(calls)
  BY <1>11, <1>12, <1>13 DEF Joined
<1>15. \A i \in 1..Len(calls) : i # 1 => Simple(calls[i], Known \cup G, now)
  <2> SUFFICES ASSUME NEW i \in 1..Len(calls), i # 1
               PROVE  Simple(calls[i], Known \cup G, now)
    OBVIOUS
  <2>1. CASE i \in 1..Len(head)
    <3>1. i - 1 \in 1..Len(StatesCreated) /\ i = 1 + (i - 1)
      BY <1>11, <1>13, <2>1 DEF Joined
    <3>2. calls[i] = head[i] /\ head[i] = StatesCreated[i - 1]
      BY <1>11, <1>12, <1>13, <2>1, <3>1 DEF Joined
    <3>3. StatesCreated[i - 1] \in S
      BY <1>7, <3>1
    <3>4. QED
      BY <1>8, <3>2, <3>3
  <2>2. CASE i = Len(head) + 1
    <3>1. calls[i] = c2
      BY <1>12, <1>13, <2>2 DEF Joined
    <3>2. QED
      BY <1>6, <3>1
  <2>3. QED
    BY <1>12, <1>13, <2>1, <2>2 DEF Joined
<1>16. FineAll(calls, Known, now)
  BY <1>5, <1>14, <1>15 DEF FineAll, Simple
<1>17. \A i \in 1..Len(calls) : ~Tells(calls[i])
  BY <1>5, <1>14, <1>15 DEF Simple
<1>18. /\ db' = P!After(db, calls) /\ mem' = M!After(mem, calls)
       /\ now' \in Nat \ {0} /\ now' - 1 = now /\ now \in Nat
  BY <1>1, <1>2 DEF Do, Where
<1>19. Database(db, now) /\ Holds(db, Known) /\ Memory(mem) /\ Keeps(mem, Known)
  <2>1. 0..now-1 \subseteq 0..now
    BY <1>18
  <2>2. QED
    BY <1>1, <2>1 DEF Stored, Database
<1>20. /\ Database(db', now) /\ Holds(db', Known) /\ Told(db') = Told(db)
       /\ Memory(mem') /\ Keeps(mem', Known)
       /\ Holds(db', Gives(calls[1])) /\ Keeps(mem', Gives(calls[1]))
  <2> HIDE DEF Known
  <2>1. QED
    BY <1>12, <1>14, <1>16, <1>17, <1>18, <1>19, DatabaseAfter, MemoryAfter
<1>21. Quiet
  BY <1>18, <1>20, SameTold DEF Quiet
<1>22. /\ DOMAIN turn' = DOMAIN NoTurn /\ turn' = [f \in DOMAIN turn' |-> turn'[f]]
       /\ turn'.n = turn.n /\ turn'.graph = turn.graph /\ RunId' = RunId
  BY <1>1, <1>2 DEF Where, NoTurn, RunId
<1>23. Known' \subseteq Known \cup G
  BY <1>2, <1>22 DEF Known, KnownIn, G
<1>24. Stored'
  <2>1. Holds(db', Known \cup G) /\ Keeps(mem', Known \cup G)
    BY <1>5, <1>14, <1>20 DEF Holds, Keeps
  <2>2. Holds(db', Known') /\ Keeps(mem', Known')
    BY <1>23, <2>1 DEF Holds, Keeps
  <2>3. QED
    BY <1>18, <1>20, <2>2 DEF Stored
<1>25. QED
  BY <1>1, <1>2, <1>18, <1>21, <1>22, <1>24, MovesOn DEF Where, Late, Unsaid

-----------------------------------------------------------------------------
(* A node.                                                                 *)
LEMMA NewestExists ==
  ASSUME NEW n \in Nat, NEW S, S # {}, \A a \in S : a.at \in 0..n
  PROVE  \E a \in S : \A b \in S : b.at <= a.at
<1> DEFINE ages == {n - a.at : a \in S}
<1>1. \A a \in S : n - a.at \in Nat /\ a.at \in Nat
  OBVIOUS
<1>2. ages \subseteq Nat /\ ages # {}
  BY <1>1
<1>3. PICK age \in ages : \A x \in ages : age <= x
  BY <1>2, LeastNumber
<1>4. PICK a \in S : age = n - a.at
  BY <1>3
<1>5. \A b \in S : b.at <= a.at
  <2> SUFFICES ASSUME NEW b \in S PROVE b.at <= a.at
    OBVIOUS
  <2>1. n - a.at <= n - b.at
    BY <1>3, <1>4
  <2>2. QED
    BY <1>1, <2>1
<1>6. QED
  BY <1>5

LEMMA CachedIsThere ==
  ASSUME Where, Stored, NEW key, NEW inputs, P!FindCachedArtifact(db, key, inputs) # None
  PROVE  P!FindCachedArtifact(db, key, inputs) \in db.artifacts
<1> DEFINE hits == {a \in db.artifacts : a.key = key /\ a.inputs = inputs}
<1>1. /\ hits # {}
      /\ P!FindCachedArtifact(db, key, inputs) = CHOOSE a \in hits : \A b \in hits : b.at <= a.at
  BY DEF P!FindCachedArtifact
<1>2. now - 1 \in Nat /\ \A a \in hits : a.at \in 0..now-1
  BY DEF Where, Stored, Database
<1>3. \E a \in hits : \A b \in hits : b.at <= a.at
  <2> HIDE DEF hits
  <2>1. QED
    BY <1>1, <1>2, NewestExists
<1>4. (CHOOSE a \in hits : \A b \in hits : b.at <= a.at) \in hits
  <2> HIDE DEF hits
  <2>1. QED
    BY <1>3
<1>5. QED
  BY <1>1, <1>4

LEMMA BeginIsPlain ==
  ASSUME Where, Stored, phase = "running", NEW s
  PROVE  Plain(Begin(s), Known, now)
<1> DEFINE row == [P!LoadRun(db, RunId) EXCEPT !.pc = s.node]
           c1 == C("update_run", row)
           c2 == Checkpoint(1, s, InStatus({"succeeded"}), {})
           c3 == Saved(s, "running", None)
<1>1. DOMAIN row = RunFields /\ row.id = RunId
  BY RunIsThere DEF Stored, Database, RunFields
<1>2. Simple(c1, Known, now)
  <2>1. <<"runs", row.id>> \in Known
    BY <1>1, RunIsThere
  <2> HIDE DEF row
  <2>2. QED
    BY <1>1, <2>1, UpdateRunCall
<1>3. Simple(c2, Known, now)
  BY RunIsThere, RunCall DEF Checkpoint
<1>4. Simple(c3, Known, now)
  BY FreeCall DEF Saved
<1>5. Begin(s) = <<c1, c2, c3>>
  BY DEF Begin
<1> HIDE DEF c1, c2, c3
<1>6. Plain(<<c1, c2, c3>>, Known, now)
  BY <1>2, <1>3, <1>4, ThreeArePlain
<1>7. QED
  BY <1>5, <1>6

LEMMA ArtifactIsSimple ==
  ASSUME Where, Stored, phase = "running", NEW s, NEW port, NEW content
  PROVE  Simple(C("persist_artifact", Artifact(s, port, content)), Known, now)
<1> DEFINE a == Artifact(s, port, content)
<1>1. DOMAIN a = ArtifactFields /\ a.at = now /\ a.run = RunId
  BY DEF Artifact, ArtifactFields
<1>2. a.at \in 0..now /\ <<"runs", a.run>> \in Known
  BY <1>1, RunIsThere DEF Where
<1> HIDE DEF a
<1>3. Simple(C("persist_artifact", a), Known, now)
  BY <1>1, <1>2, ArtifactCall
<1>4. QED
  BY <1>3 DEF a

LEMMA EndIsPlain ==
  ASSUME Where, Stored, phase = "running", NEW s, NEW a, NEW status, NEW embedded,
         Simple(C("persist_artifact", a), Known, now)
  PROVE  Plain(End(s, a, status, embedded), Known, now)
<1> DEFINE c1 == C("persist_artifact", a)
           c2 == C("persist_embedding", [id |-> <<"embedding", now>>, owner |-> a.id])
           c3 == Saved(s, status, a.id)
           done == InStatus({"succeeded"}) \cup (IF status = "succeeded" THEN {s.node} ELSE {})
           c4 == Checkpoint(2, s, done, {})
           middle == IF embedded THEN <<c2>> ELSE <<>>
<1>1. Simple(c2, Known, now) /\ Simple(c3, Known, now)
  BY FreeCall DEF Saved
<1>2. Simple(c4, Known, now)
  BY RunIsThere, RunCall DEF Checkpoint
<1>3. End(s, a, status, embedded) = <<c1>> \o middle \o <<c3, c4>>
  BY DEF End
<1> HIDE DEF c1, c2, c3, c4
<1>4. Plain(<<c1>>, Known, now) /\ Plain(<<c3, c4>>, Known, now)
  BY <1>1, <1>2, SimpleIsPlain, TwoArePlain DEF c1
<1>5. Plain(middle, Known, now)
  BY <1>1, SimpleIsPlain, NoneArePlain
<1> HIDE DEF middle
<1>6. Plain(<<c1>> \o middle, Known, now)
  BY <1>4, <1>5, ConcatIsPlain
<1>7. Plain(<<c1>> \o middle \o <<c3, c4>>, Known, now)
  BY <1>4, <1>6, ConcatIsPlain
<1>8. QED
  BY <1>3, <1>7

LEMMA ReuseDoesPlain ==
  ASSUME Where, Stored, phase = "running", NEW s, Reuse(s)
  PROVE  \E calls : Plain(calls, Known, now) /\ Do(calls)
<1> DEFINE r == Reusable(s)
           a == [r EXCEPT !.id = <<"artifact", "output", now>>, !.run = RunId]
           end == End(s, a, "succeeded", FALSE)
           calls == Begin(s) \o end
<1>1. Do(calls) /\ r # None
  BY DEF Reuse
<1>2. r \in db.artifacts
  BY <1>1, CachedIsThere DEF Reusable
<1>3. DOMAIN r = ArtifactFields /\ r.at \in 0..now-1
  BY <1>2 DEF Stored, Database
<1>4. DOMAIN a = ArtifactFields /\ a.at = r.at /\ a.run = RunId
  BY <1>3 DEF ArtifactFields
<1>5. a.at \in 0..now /\ <<"runs", a.run>> \in Known
  BY <1>3, <1>4, RunIsThere DEF Where
<1> HIDE DEF a
<1>6. Simple(C("persist_artifact", a), Known, now)
  BY <1>4, <1>5, ArtifactCall
<1>7. Plain(end, Known, now)
  BY <1>6, EndIsPlain
<1>8. Plain(Begin(s), Known, now)
  BY BeginIsPlain
<1> HIDE DEF end
<1>9. Plain(calls, Known, now)
  BY <1>7, <1>8, ConcatIsPlain
<1>10. QED
  BY <1>1, <1>9

(* Begin, something in between, and End.                                   *)
LEMMA NodeIsPlain ==
  ASSUME Where, Stored, phase = "running", NEW s, NEW between, Plain(between, Known, now),
         NEW a, Simple(C("persist_artifact", a), Known, now), NEW status, NEW embedded
  PROVE  /\ Plain(Begin(s) \o End(s, a, status, embedded), Known, now)
         /\ Plain(Begin(s) \o between \o End(s, a, status, embedded), Known, now)
<1> DEFINE begin == Begin(s)
           end == End(s, a, status, embedded)
<1>1. Plain(begin, Known, now) /\ Plain(end, Known, now)
  BY BeginIsPlain, EndIsPlain
<1> HIDE DEF begin, end
<1>2. Plain(begin \o end, Known, now) /\ Plain(begin \o between, Known, now)
  BY <1>1, ConcatIsPlain
<1>3. Plain(begin \o between \o end, Known, now)
  BY <1>1, <1>2, ConcatIsPlain
<1>4. QED
  BY <1>2, <1>3 DEF begin, end

LEMMA ModelCallIsSimple ==
  ASSUME Where, Stored, phase = "running", NEW s, NEW prompt
  PROVE  Simple(ModelCall(s, prompt), Known, now)
BY RunIsThere, RunCall DEF ModelCall

LEMMA InvokeDoesPlain ==
  ASSUME Where, Stored, phase = "running", NEW s, NEW answer, Invoke(s, answer)
  PROVE  \E calls : Plain(calls, Known, now) /\ Do(calls)
<1> DEFINE prompt == Artifact(s, "prompt", Input(s))
           a == Artifact(s, "output", answer)
           end(embedded) == End(s, a, "succeeded", embedded)
           tool == C("persist_tool_call", [id |-> <<"toolcall", now>>, run |-> RunId,
                                           node |-> s.node])
           asked == C("persist_artifact", prompt)
           told == ModelCall(s, prompt.id)
<1>1. \/ Do(Begin(s) \o end(FALSE))
      \/ Do(Begin(s) \o <<tool>> \o end(FALSE))
      \/ Do(Begin(s) \o <<asked, told>> \o end(TRUE))
  BY DEF Invoke
<1>2. Simple(C("persist_artifact", a), Known, now) /\ Simple(asked, Known, now)
  BY ArtifactIsSimple
<1>3. Simple(tool, Known, now)
  BY RunIsThere, RunCall
<1>4. Simple(told, Known, now)
  BY ModelCallIsSimple
<1> HIDE DEF prompt, a, tool, asked, told
<1>5. Plain(<<tool>>, Known, now) /\ Plain(<<asked, told>>, Known, now) /\ Plain(<<>>, Known, now)
  BY <1>2, <1>3, <1>4, SimpleIsPlain, TwoArePlain, NoneArePlain
<1>6. /\ Plain(Begin(s) \o end(FALSE), Known, now)
      /\ Plain(Begin(s) \o <<tool>> \o end(FALSE), Known, now)
      /\ Plain(Begin(s) \o <<asked, told>> \o end(TRUE), Known, now)
  BY <1>2, <1>5, NodeIsPlain
<1>7. QED
  BY <1>1, <1>6

LEMMA ExpandDoesPlain ==
  ASSUME Where, Stored, phase = "running", NEW s, NEW answer, Expand(s, answer)
  PROVE  \E calls : Plain(calls, Known, now) /\ Do(calls)
<1> DEFINE g == P!LoadTaskGraph(db, turn.graph)
           h == Grown(s).graph
           a == Artifact(s, "output", answer)
           c1 == C("create_run_node_state", State(Grown(s).node.id))
           c2 == C("persist_task_edge", Grown(s).edge)
           c3 == C("persist_task_graph", h)
           c4 == WorkspaceEdge("expands_to", s.node, turn.graph)
           c5 == Saved(s, "expanded", None)
           between == <<c1, c2, c3, c4, c5>>
           end == End(s, a, "expanded", FALSE)
<1>1. Do(Begin(s) \o between \o end)
  BY DEF Expand
<1>2. /\ g.id = turn.graph /\ g.workspace = W
      /\ g.nodes \subseteq db.nodes /\ g.edges \subseteq db.task_edges
  <2>1. P!Has(db, "task_graphs", turn.graph)
    BY RunIsThere DEF Stored, Holds
  <2> DEFINE r == P!Get(db, "task_graphs", turn.graph)
  <2>2. r \in db.task_graphs /\ r.id = turn.graph
    BY <2>1 DEF P!Get, P!Has
  <2>3. r.workspace = W
    BY <2>2 DEF Stored, Database
  <2> HIDE DEF r
  <2>4. g = [id |-> r.id, workspace |-> r.workspace, goal |-> r.goal, intent |-> r.intent,
             nodes |-> P!OfGraph(db, "nodes", turn.graph),
             edges |-> P!OfGraph(db, "task_edges", turn.graph)]
    BY <2>1 DEF P!LoadTaskGraph, r
  <2>5. QED
    BY <2>2, <2>3, <2>4 DEF P!OfGraph
<1>3. /\ h.workspace = W /\ Grown(s).edge.graph = turn.graph
      /\ \E n : h.nodes = g.nodes \cup {n}
      /\ \E e : h.edges = g.edges \cup {e}
  <2>1. \E id, ws, goal, intent, nodes, edges :
          g = [id |-> id, workspace |-> ws, goal |-> goal, intent |-> intent, nodes |-> nodes,
               edges |-> edges]
    <3>1. P!Has(db, "task_graphs", turn.graph)
      BY RunIsThere DEF Stored, Holds
    <3>2. QED
      BY <3>1 DEF P!LoadTaskGraph
  <2> HIDE DEF g
  <2>2. /\ Grown(s).edge.graph = g.id
        /\ \E n, e : Grown(s).graph = [g EXCEPT !.nodes = @ \cup {n}, !.edges = @ \cup {e}]
    BY DEF Grown, g
  <2>3. PICK n, e : Grown(s).graph = [g EXCEPT !.nodes = @ \cup {n}, !.edges = @ \cup {e}]
    BY <2>2
  <2>4. /\ Grown(s).graph.workspace = g.workspace
        /\ Grown(s).graph.nodes = g.nodes \cup {n} /\ Grown(s).graph.edges = g.edges \cup {e}
    BY <2>1, <2>3
  <2>5. QED
    BY <1>2, <2>2, <2>4
<1>4. IsFiniteSet(h.nodes) /\ IsFiniteSet(h.edges)
  <2>1. IsFiniteSet(g.nodes) /\ IsFiniteSet(g.edges)
    BY <1>2, FS_Subset DEF Stored, Database
  <2> HIDE DEF g, h
  <2>2. QED
    BY <1>3, <2>1, FS_AddElement
<1>5. Simple(c3, Known, now)
  <2> HIDE DEF h
  <2>1. QED
    BY <1>3, <1>4, RunIsThere, GraphCall
<1>6. Simple(c1, Known, now)
  <2>1. State(Grown(s).node.id).run = RunId
    BY DEF State
  <2>2. QED
    BY <2>1, RunIsThere, RunCall
<1>7. Simple(c2, Known, now)
  <2>1. <<"task_graphs", Grown(s).edge.graph>> \in Known
    BY <1>3, RunIsThere
  <2>2. QED
    BY <2>1, TaskEdgeCall
<1>8. Simple(c4, Known, now) /\ Simple(c5, Known, now)
  BY LinkCall, FreeCall DEF Saved
<1>9. Simple(C("persist_artifact", a), Known, now)
  BY ArtifactIsSimple
<1> HIDE DEF c1, c2, c3, c4, c5, a
<1>10. Plain(between, Known, now)
  BY <1>5, <1>6, <1>7, <1>8, FiveArePlain
<1> HIDE DEF between
<1>11. Plain(Begin(s) \o between \o end, Known, now)
  BY <1>9, <1>10, NodeIsPlain
<1>12. QED
  BY <1>1, <1>11

LEMMA RunNodeKeeps == ASSUME NEW s, NEW answer PROVE SInv /\ RunNode(s, answer) => SInv'
<1> SUFFICES ASSUME SInv, RunNode(s, answer) PROVE SInv'
  OBVIOUS
<1>1. phase = "running" /\ UNCHANGED <<phase, turn, previous, log, crashes>>
  BY DEF RunNode, counters
<1>2. Where /\ Stored
  BY DEF SInv
<1>3. PICK calls : Plain(calls, Known, now) /\ Do(calls)
  BY <1>1, <1>2, ReuseDoesPlain, InvokeDoesPlain, ExpandDoesPlain DEF RunNode
<1>4. Known' = Known
  BY <1>1, KnownLess DEF RunId
<1>5. Stored' /\ Quiet
  BY <1>2, <1>3, <1>4, StoredAgain
<1>6. QED
  BY <1>1, <1>2, <1>5, MovesOn DEF Where, Late, Unsaid

LEMMA NodeRaisesKeeps == ASSUME NEW s PROVE SInv /\ NodeRaises(s) => SInv'
<1> SUFFICES ASSUME SInv, NodeRaises(s) PROVE SInv'
  OBVIOUS
<1> DEFINE row == [P!LoadRun(db, RunId) EXCEPT !.pc = s.node, !.status = "failed"]
           c1 == Saved(s, "failed", None)
           c2 == C("update_run", row)
           begin == Begin(s)
<1>1. phase = "running" /\ Where /\ Stored
  BY DEF SInv, NodeRaises
<1>2. PICK done \in Attempts(s) : Do(begin \o done \o <<c1, c2>>)
  BY DEF NodeRaises
<1>3. previous' = None /\ Break /\ phase' = "prompt" /\ UNCHANGED <<turn, crashes>>
  BY DEF NodeRaises, FailTurn, GoTo
<1>4. Plain(done, Known, now)
  <2> DEFINE prompt == Artifact(s, "prompt", Input(s))
             asked == C("persist_artifact", prompt)
             told == ModelCall(s, prompt.id)
             output(answer) == C("persist_artifact", Artifact(s, "output", answer))
  <2>1. \/ done = <<>> \/ done = <<asked>>
        \/ \E answer : done = <<asked>> \o <<told, output(answer)>>
    BY DEF Attempts
  <2>2. Simple(asked, Known, now) /\ Simple(told, Known, now)
        /\ \A answer : Simple(output(answer), Known, now)
    BY <1>1, ArtifactIsSimple, ModelCallIsSimple
  <2> HIDE DEF asked, told, output
  <2>3. /\ Plain(<<>>, Known, now) /\ Plain(<<asked>>, Known, now)
        /\ \A answer : Plain(<<told, output(answer)>>, Known, now)
    BY <2>2, NoneArePlain, SimpleIsPlain, TwoArePlain
  <2>4. \A answer : Plain(<<asked>> \o <<told, output(answer)>>, Known, now)
    BY <2>3, ConcatIsPlain
  <2>5. QED
    BY <2>1, <2>3, <2>4
<1>5. Simple(c1, Known, now)
  BY FreeCall DEF Saved
<1>6. Simple(c2, Known, now)
  <2>1. DOMAIN row = RunFields /\ row.id = RunId
    BY <1>1, RunIsThere DEF Stored, Database, RunFields
  <2>2. <<"runs", row.id>> \in Known
    BY <1>1, <2>1, RunIsThere
  <2> HIDE DEF row
  <2>3. QED
    BY <2>1, <2>2, UpdateRunCall
<1>7. Plain(begin, Known, now)
  BY <1>1, BeginIsPlain
<1> HIDE DEF begin, c1, c2
<1>8. Plain(<<c1, c2>>, Known, now)
  BY <1>5, <1>6, TwoArePlain
<1>9. Plain(begin \o done \o <<c1, c2>>, Known, now)
  BY <1>4, <1>7, <1>8, ConcatIsPlain
<1>10. Stored' /\ Quiet
  BY <1>1, <1>2, <1>3, <1>9, KnownLess, StoredAgain
<1>11. QED
  BY <1>1, <1>3, <1>10, BreaksOff

-----------------------------------------------------------------------------
LEMMA SessionStep == SInv /\ [Next]_vars => SInv'
<1> SUFFICES ASSUME SInv, [Next]_vars PROVE SInv'
  OBVIOUS
<1>1. CASE Open
  BY <1>1, OpenKeeps
<1>2. CASE Quit \/ Clear \/ Inject \/ Crash
  BY <1>2, QuitKeeps, ClearKeeps, InjectKeeps, CrashKeeps
<1>3. CASE \E p \in Prompt : Ask(p)
  BY <1>3, AskKeeps
<1>4. CASE Ingest
  BY <1>4, IngestKeeps
<1>5. CASE \E a \in {"new", "continue"} : CompileFails(a) \/ \E s \in Shape : Compile(a, s)
  BY <1>5, CompileFailsKeeps, CompileKeeps
<1>6. CASE StartRun
  BY <1>6, StartRunKeeps
<1>7. CASE \E s \in States : NodeRaises(s)
                             \/ \E answer \in Sayable : RunNode(s, answer)
  BY <1>7, NodeRaisesKeeps, RunNodeKeeps
<1>8. CASE FinishRun \/ Collect \/ Summarise
  BY <1>8, FinishRunKeeps, CollectKeeps, SummariseKeeps
<1>9. CASE StoreQuestion \/ StoreAnswer \/ LinkFollowsUp \/ LinkProduced
  BY <1>9, StoreQuestionKeeps, StoreAnswerKeeps, LinkFollowsUpKeeps, LinkProducedKeeps
<1>10. CASE UNCHANGED vars
  <2>1. UNCHANGED <<db, mem, phase, turn, previous, now, log, crashes>>
    BY <1>10 DEF vars, counters
  <2>2. Known' = Known /\ Follows' = Follows /\ Consecutive' = Consecutive /\ Edge' = Edge
    BY <2>1, KnownLess DEF RunId, Follows, Consecutive, Edge
  <2>3. Spoken'
    BY <2>1, SpokenStill DEF SInv, Where, Talk
  <2> HIDE DEF Known, Follows, Consecutive, Edge, Spoken
  <2>4. QED
    BY <2>1, <2>2, <2>3 DEF SInv, Where, Stored, Logged
<1>11. QED
  BY <1>1, <1>2, <1>3, <1>4, <1>5, <1>6, <1>7, <1>8, <1>9, <1>10 DEF Next

LEMMA SessionInductive == Spec => []SInv
BY SessionInit, SessionStep, PTL DEF Spec

(* No call is refused, whatever a process does and wherever it dies: the   *)
(* parent of every row is there before it, in either backend.              *)
THEOREM EveryCallIsServed == Spec => []NothingIsRefused
<1>1. SInv => NothingIsRefused
  BY DEF SInv, Stored, Database, Memory, NothingIsRefused
<1>2. QED
  BY <1>1, SessionInductive, PTL

(* A graph follows another exactly when their turns were answered one      *)
(* after the other, whatever fails, is cleared or dies between them.       *)
THEOREM EdgesFollowTheTurns == Spec => []FollowsPrevious
<1>1. SInv => FollowsPrevious
  <2> HIDE DEF Follows, Consecutive
  <2>1. QED
    BY DEF SInv, Logged, FollowsPrevious
<1>2. QED
  BY <1>1, SessionInductive, PTL

-----------------------------------------------------------------------------
(* The records of /export.                                                 *)
LEMMA SortedExists ==
  ASSUME NEW S, IsFiniteSet(S), NEW n \in Nat, \A a \in S : a.at \in 0..n,
         \A a, b \in S : a.at = b.at => a = b
  PROVE  /\ Sorted(S) \in Seq(S)
         /\ \A i, j \in 1..Len(Sorted(S)) : i < j => Sorted(S)[i].at < Sorted(S)[j].at
<1> DEFINE InOrder(f, m) == \A i, j \in 1..m : i < j => f[i].at < f[j].at
           T == {m \in Nat : \A U \in SUBSET S :
                   Cardinality(U) = m => \E f \in [1..m -> U] : InOrder(f, m)}
<1>1. 0 \in T
  <2> SUFFICES ASSUME NEW U \in SUBSET S, Cardinality(U) = 0
               PROVE  \E f \in [1..0 -> U] : InOrder(f, 0)
    OBVIOUS
  <2>1. [i \in 1..0 |-> i] \in [1..0 -> U] /\ InOrder([i \in 1..0 |-> i], 0)
    OBVIOUS
  <2>2. QED
    BY <2>1
<1>2. ASSUME NEW m \in Nat, m \in T
      PROVE  m + 1 \in T
  <2> SUFFICES ASSUME NEW U \in SUBSET S, Cardinality(U) = m + 1
               PROVE  \E f \in [1..m+1 -> U] : InOrder(f, m + 1)
    OBVIOUS
  <2>1. IsFiniteSet(U) /\ U # {} /\ \A a \in U : a.at \in 0..n
    BY FS_Subset, FS_EmptySet
  <2>2. PICK x \in U : \A b \in U : b.at <= x.at
    BY <2>1, NewestExists
  <2> DEFINE V == U \ {x}
  <2>3. V \in SUBSET S /\ Cardinality(V) = m
    <3>1. Cardinality(V) = Cardinality(U) - 1
      BY <2>1, FS_RemoveElement
    <3>2. QED
      BY <3>1
  <2>4. PICK f \in [1..m -> V] : InOrder(f, m)
    BY <1>2, <2>3
  <2> DEFINE g == [i \in 1..m+1 |-> IF i = m + 1 THEN x ELSE f[i]]
  <2>5. g \in [1..m+1 -> U] /\ g[m + 1] = x /\ \A i \in 1..m : g[i] = f[i] /\ f[i] \in V
    OBVIOUS
  <2> HIDE DEF g
  <2>6. ASSUME NEW i \in 1..m+1, NEW j \in 1..m+1, i < j
        PROVE  g[i].at < g[j].at
    <3>1. i \in 1..m
      BY <2>6
    <3>2. CASE j \in 1..m
      BY <2>4, <2>5, <2>6, <3>1, <3>2
    <3>3. CASE j = m + 1
      <4>1. f[i] \in U /\ f[i] # x /\ f[i].at \in Nat /\ x.at \in Nat
        BY <2>1, <2>5, <3>1
      <4>2. f[i].at <= x.at /\ f[i].at # x.at
        BY <2>2, <4>1
      <4>3. QED
        BY <2>5, <3>1, <3>3, <4>1, <4>2
    <3>4. QED
      BY <3>2, <3>3
  <2>7. InOrder(g, m + 1)
    BY <2>6
  <2>8. QED
    BY <2>5, <2>7
<1>3. Cardinality(S) \in Nat /\ Cardinality(S) \in T
  <2>1. Cardinality(S) \in Nat
    BY FS_CardinalityType
  <2> HIDE DEF T
  <2>2. QED
    BY <1>1, <1>2, <2>1, NumberInduction
<1> DEFINE c == Cardinality(S)
<1>4. PICK f \in [1..c -> S] : InOrder(f, c)
  BY <1>3
<1>5. \A i, j \in 1..c : i # j => f[i] # f[j]
  <2> SUFFICES ASSUME NEW i \in 1..c, NEW j \in 1..c, i # j, f[i] = f[j] PROVE FALSE
    OBVIOUS
  <2>1. f[i].at \in Nat
    OBVIOUS
  <2>2. i < j \/ j < i
    BY <1>3
  <2>3. QED
    BY <1>4, <2>1, <2>2
<1>6. f \in SetToSeqs(S) /\ DOMAIN f = 1..c
  BY <1>5 DEF SetToSeqs
<1>7. \E s \in SetToSeqs(S) : \A i, j \in DOMAIN s : i < j => s[i].at < s[j].at
  BY <1>4, <1>6
<1>8. /\ Sorted(S) \in SetToSeqs(S)
      /\ \A i, j \in DOMAIN Sorted(S) : i < j => Sorted(S)[i].at < Sorted(S)[j].at
  BY <1>7 DEF Sorted
<1>9. Sorted(S) \in [1..c -> S]
  BY <1>8 DEF SetToSeqs
<1> HIDE DEF c
<1>10. Sorted(S) \in Seq(S) /\ DOMAIN Sorted(S) = 1..Len(Sorted(S))
  BY <1>3, <1>9 DEF c
<1>11. QED
  BY <1>8, <1>10

(* What the records become with one more question.                         *)
Paired(answers, done, q) ==
  LET free == {a \in answers : a.at >= q.at /\ \A r \in done : a \notin r.answer}
  IN done \cup {[question |-> q, answer |-> Oldest(free)]}

Records(answers, none, questions) ==
  LET pair(done, q) == Paired(answers, done, q)
  IN FoldLeft(pair, none, questions)

LEMMA ExportSteps ==
  ASSUME NEW Q, NEW qs \in Seq(Q), NEW A, NEW none
  PROVE  \E v : /\ v[0] = none
                /\ \A k \in 1..Len(qs) : v[k] = Paired(A, v[k-1], qs[k])
                /\ Records(A, none, qs) = v[Len(qs)]
<1> DEFINE n == Len(qs)
           Fold(it, m) == it = [s \in SUBSET (1..m) |->
                                  IF s = {} THEN none ELSE Paired(A, it[s \ {Max(s)}], qs[Max(s)])]
           T == {m \in Nat : m <= n => \E it : Fold(it, m)}
<1> HIDE DEF Fold
<1>1. n \in Nat /\ DOMAIN qs = 1..n
  OBVIOUS
<1>2. 0 \in T
  <2> DEFINE it == [s \in SUBSET (1..0) |-> none]
  <2>1. SUBSET (1..0) = {{}}
    OBVIOUS
  <2>2. it = [s \in SUBSET (1..0) |->
                IF s = {} THEN none ELSE Paired(A, it[s \ {Max(s)}], qs[Max(s)])]
    BY <2>1
  <2>3. Fold(it, 0)
    BY <2>2 DEF Fold
  <2>4. QED
    BY <2>3
<1>3. ASSUME NEW m \in Nat, m \in T
      PROVE  m + 1 \in T
  <2> SUFFICES ASSUME m + 1 <= n PROVE \E it : Fold(it, m + 1)
    OBVIOUS
  <2>1. PICK g : Fold(g, m)
    BY <1>1, <1>3
  <2> DEFINE it == [s \in SUBSET (1..m+1) |->
                      IF m + 1 \in s THEN Paired(A, g[s \ {m + 1}], qs[m + 1]) ELSE g[s]]
  <2>2. ASSUME NEW s \in SUBSET (1..m+1)
        PROVE  it[s] = IF s = {} THEN none ELSE Paired(A, it[s \ {Max(s)}], qs[Max(s)])
    <3>1. CASE m + 1 \in s
      <4>1. Max(s) = m + 1
        <5>1. m + 1 \in Nat /\ s # {}
          BY <3>1
        <5>2. Max(s) \in s /\ m + 1 <= Max(s)
          BY <3>1, <5>1, MaxOfNumbers
        <5>3. Max(s) \in 1..m+1
          BY <5>2
        <5>4. QED
          BY <5>2, <5>3
      <4>2. s \ {m + 1} \in SUBSET (1..m+1) /\ m + 1 \notin s \ {m + 1}
        OBVIOUS
      <4>3. it[s \ {m + 1}] = g[s \ {m + 1}]
        BY <4>2
      <4>4. it[s] = Paired(A, g[s \ {m + 1}], qs[m + 1])
        BY <3>1
      <4>5. QED
        BY <3>1, <4>1, <4>3, <4>4
    <3>2. CASE m + 1 \notin s
      <4>1. s \in SUBSET (1..m) /\ s \ {Max(s)} \in SUBSET (1..m+1) /\ m + 1 \notin s \ {Max(s)}
        <5>1. \A x \in s : x \in 1..m+1 /\ x # m + 1
          BY <3>2
        <5>2. \A x \in s : x \in 1..m
          BY <5>1
        <5>3. QED
          BY <3>2, <5>2
      <4>2. it[s] = g[s] /\ it[s \ {Max(s)}] = g[s \ {Max(s)}]
        BY <3>2, <4>1
      <4>3. g[s] = IF s = {} THEN none ELSE Paired(A, g[s \ {Max(s)}], qs[Max(s)])
        BY <2>1, <4>1 DEF Fold
      <4>4. QED
        BY <4>2, <4>3
    <3>3. QED
      BY <3>1, <3>2
  <2>3. Fold(it, m + 1)
    BY <2>2 DEF Fold
  <2>4. QED
    BY <2>3
<1>4. n \in T
  <2> HIDE DEF T
  <2>1. QED
    BY <1>1, <1>2, <1>3, NumberInduction
<1>5. Records(A, none, qs) = (CHOOSE it : Fold(it, n))[1..n]
  BY <1>1 DEF Fold, Records, FoldLeft, MapThenFoldSet, Max
<1>6. PICK it : Fold(it, n) /\ Records(A, none, qs) = it[1..n]
  <2>1. \E it : Fold(it, n)
    BY <1>1, <1>4
  <2>2. QED
    BY <1>5, <2>1
<1> DEFINE v == [k \in 0..n |-> it[1..k]]
<1>7. v[0] = none
  <2>1. 1..0 = {} /\ {} \in SUBSET (1..n) /\ 0 \in 0..n
    BY <1>1
  <2>2. it[{}] = none
    BY <1>6, <2>1 DEF Fold
  <2>3. QED
    BY <2>1, <2>2
<1>8. ASSUME NEW k \in 1..n
      PROVE  v[k] = Paired(A, v[k-1], qs[k])
  <2>1. Max(1..k) = k /\ (1..k) \ {k} = 1..(k-1) /\ 1..k \in SUBSET (1..n) /\ 1..k # {}
    BY <1>1, LastOfInterval
  <2>2. it[1..k] = Paired(A, it[1..(k-1)], qs[k])
    BY <1>6, <2>1 DEF Fold
  <2>3. QED
    BY <1>1, <2>2
<1>9. n \in 0..n /\ v[n] = Records(A, none, qs)
  BY <1>1, <1>6
<1>10. QED
  <2> HIDE DEF v
  <2>1. QED
    BY <1>7, <1>8, <1>9


(* Of the answers after a question, its own is the oldest.                 *)
LEMMA OwnIsOldest ==
  ASSUME SInv, NEW q \in Questions, NEW a \in Answers, a.run = q.run,
         NEW free \in SUBSET Answers, a \in free, \A b \in free : b.at >= q.at
  PROVE  Oldest(free) = {a}
<1>1. /\ Questions \subseteq Talk /\ Answers \subseteq Talk
      /\ \A x \in Questions : x.kind = "user_question"
      /\ \A x \in Answers : x.kind = "assistant_answer"
  BY DEF Questions, Answers, Talk, Voice
<1>2. \A x \in Talk : x.at \in Nat /\ x.run[2] \in Nat
  BY DEF SInv, Where, Stored, Database, Spoken, Talk
<1>3. \A x, y \in Talk : x.at = y.at => x = y
  BY DEF SInv, Spoken
<1>4. ASSUME NEW b \in free, b.at < a.at
      PROVE  FALSE
  <2>1. b \in Talk /\ b \in Answers /\ q \in Talk /\ a \in Talk /\ b # q
    BY <1>1
  <2>2. q.at < b.at
    BY <1>2, <1>3, <2>1
  <2>3. q.run[2] <= b.run[2] /\ b.run[2] <= a.run[2]
    BY <1>4, <2>1, <2>2 DEF SInv, Spoken
  <2>4. b.run[2] = a.run[2] /\ b.kind = a.kind
    BY <1>1, <1>2, <2>1, <2>3
  <2>5. b = a
    BY <2>1, <2>4 DEF SInv, Spoken
  <2>6. QED
    BY <1>2, <1>4, <2>1, <2>5
<1>5. \A b \in free : a.at <= b.at
  BY <1>1, <1>2, <1>4
<1>6. \A c \in free : c.at <= a.at => c = a
  BY <1>1, <1>2, <1>3, <1>5
<1>7. QED
  BY <1>5, <1>6 DEF Oldest

(* /export gives every question its own answer, however the turns of the   *)
(* questions and those of documents take turns.                            *)
THEOREM ExportsAreTrue == Spec => []ExportPairsTrue
<1>1. SInv => ExportPairsTrue
  <2> SUFFICES ASSUME SInv, \A q \in Questions : \E a \in Answers : a.run = q.run,
                      NEW r \in Exported(Questions, Answers)
               PROVE  \E a \in Answers : r.answer = {a} /\ a.run = r.question.run
    BY DEF ExportPairsTrue
  <2> DEFINE qs == Sorted(Questions)
             n == Len(qs)
  <2>1. /\ Questions \subseteq Talk /\ Answers \subseteq Talk
        /\ \A x \in Questions : x.kind = "user_question"
    BY DEF Questions, Answers, Talk, Voice
  <2>2. IsFiniteSet(Questions)
    <3>1. IsFiniteSet(db.memory_items) /\ Questions \subseteq db.memory_items
      BY DEF SInv, Stored, Database, Questions
    <3>2. QED
      BY <3>1, FS_Subset
  <2>3. now - 1 \in Nat /\ \A x \in Talk : x.at \in 0..now-1
    BY DEF SInv, Where, Stored, Database, Talk
  <2>4. /\ qs \in Seq(Questions)
        /\ \A i, j \in 1..n : i < j => qs[i].at < qs[j].at
    <3>1. \A a, b \in Questions : a.at = b.at => a = b
      BY <2>1 DEF SInv, Spoken
    <3>2. \A a \in Questions : a.at \in 0..now-1
      BY <2>1, <2>3
    <3>3. QED
      BY <2>2, <2>3, <3>1, <3>2, SortedExists
  <2>5. n \in Nat /\ \A k \in 1..n : qs[k] \in Questions
    BY <2>4
  <2>6. PICK v : /\ v[0] = {}
                 /\ \A k \in 1..n : v[k] = Paired(Answers, v[k-1], qs[k])
                 /\ Exported(Questions, Answers) = v[n]
    <3>1. qs \in Seq(Questions) /\ qs = Sorted(Questions)
      BY <2>4
    <3>2. \E v : /\ v[0] = {}
                 /\ \A k \in 1..Len(qs) : v[k] = Paired(Answers, v[k-1], qs[k])
                 /\ Exported(Questions, Answers) = v[Len(qs)]
      <4>1. Exported(Questions, Answers) = Records(Answers, {}, qs)
        BY DEF Exported, Records, Paired
      <4> HIDE DEF qs, n
      <4>2. QED
        BY <3>1, <4>1, ExportSteps
    <3>3. QED
      BY <3>2
  <2> DEFINE Right(x) == \E a \in Answers : x.answer = {a} /\ a.run = x.question.run
             T == {k \in 0..n : \A x \in v[k] : Right(x) /\ \E i \in 1..k : x.question = qs[i]}
  <2>7. 0 \in T
    BY <2>5, <2>6
  <2> HIDE DEF qs, n
  <2>8. ASSUME NEW k \in 1..n, k - 1 \in T
        PROVE  k \in T
    <3> DEFINE q == qs[k]
               done == v[k-1]
               free == {a \in Answers : a.at >= q.at /\ \A x \in done : a \notin x.answer}
               new == [question |-> q, answer |-> Oldest(free)]
    <3>1. q \in Questions
      BY <2>5
    <3>2. PICK a \in Answers : a.run = q.run
      BY <3>1
    <3>3. v[k] = done \cup {new}
      BY <2>6 DEF Paired
    <3>4. \A x \in done : Right(x) /\ \E i \in 1..k-1 : x.question = qs[i]
      BY <2>8
    <3>5. a.at >= q.at
      BY <2>1, <2>3, <3>1, <3>2 DEF SInv, Spoken
    <3>6. \A x \in done : a \notin x.answer
      <4> SUFFICES ASSUME NEW x \in done, a \in x.answer PROVE FALSE
        OBVIOUS
      <4>1. x.question.run = q.run
        BY <3>2, <3>4
      <4>2. PICK i \in 1..k-1 : x.question = qs[i]
        BY <3>4
      <4>3. i \in 1..n /\ i < k
        BY <2>5
      <4>4. qs[i] \in Questions /\ qs[i].at < q.at
        BY <2>4, <2>5, <4>3
      <4>5. qs[i].run[2] = q.run[2] /\ qs[i].kind = q.kind
        BY <2>1, <3>1, <4>1, <4>2, <4>4
      <4>6. qs[i] = q
        BY <2>1, <3>1, <4>4, <4>5 DEF SInv, Spoken
      <4>7. QED
        BY <2>1, <2>3, <3>1, <4>4, <4>6
    <3>7. Oldest(free) = {a}
      <4>1. a \in free
        BY <3>5, <3>6
      <4>2. free \in SUBSET Answers /\ \A b \in free : b.at >= q.at
        OBVIOUS
      <4> HIDE DEF free, q
      <4>3. QED
        BY <3>1, <3>2, <4>1, <4>2, OwnIsOldest
    <3>8. new.question = qs[k] /\ Right(new)
      BY <3>2, <3>7
    <3> HIDE DEF new, done
    <3>9. \A x \in v[k] : Right(x) /\ \E i \in 1..k : x.question = qs[i]
      <4> SUFFICES ASSUME NEW x \in v[k] PROVE Right(x) /\ \E i \in 1..k : x.question = qs[i]
        OBVIOUS
      <4>1. CASE x = new
        BY <2>5, <3>8, <4>1
      <4>2. CASE x \in done
        <5>1. PICK i \in 1..k-1 : x.question = qs[i]
          BY <3>4, <4>2
        <5>2. i \in 1..k
          BY <2>5
        <5>3. QED
          BY <3>4, <4>2, <5>1, <5>2
      <4>3. QED
        BY <3>3, <4>1, <4>2
    <3>10. QED
      BY <2>5, <3>9
  <2>9. n \in T
    <3>1. n \in 0..n
      BY <2>5
    <3> HIDE DEF T
    <3>2. QED
      BY <2>5, <2>7, <2>8, <3>1, IntervalInduction
  <2>10. QED
    BY <2>6, <2>9
<1>2. QED
  BY <1>1, SessionInductive, PTL

(* Calls in a row.                                                         *)
LEMMA AfterOne ==
  ASSUME NEW d, NEW c
  PROVE  P!After(d, <<c>>) = P!Call(d, c)
<1> DEFINE calls == <<c>>
           S == {c}
<1>1. calls \in Seq(S) /\ Len(calls) = 1 /\ calls[1] = c
  OBVIOUS
<1> HIDE DEF calls, S
<1>2. PICK v : /\ v[0] = d /\ \A k \in 1..Len(calls) : v[k] = P!Call(v[k-1], calls[k])
               /\ P!After(d, calls) = v[Len(calls)]
  BY <1>1, DatabaseSteps
<1>3. v[1] = P!Call(v[0], calls[1])
  <2>1. 1 \in 1..Len(calls) /\ 1 - 1 = 0
    BY <1>1
  <2>2. v[1] = P!Call(v[1 - 1], calls[1])
    BY <1>2, <2>1
  <2>3. QED
    BY <2>1, <2>2
<1>4. P!After(d, calls) = P!Call(d, c)
  BY <1>1, <1>2, <1>3
<1>5. QED
  BY <1>4 DEF calls

LEMMA AfterBoth ==
  ASSUME NEW d, NEW S, NEW s \in Seq(S), NEW t \in Seq(S)
  PROVE  P!After(d, s \o t) = P!After(P!After(d, s), t)
<1> DEFINE u == s \o t
           e == P!After(d, s)
<1>1. u \in Seq(S) /\ Joined(u, s, t)
  BY Joins
<1> HIDE DEF u
<1>2. Len(s) \in Nat /\ Len(t) \in Nat /\ Len(u) = Len(s) + Len(t)
  BY <1>1 DEF Joined
<1>3. PICK v : /\ v[0] = d /\ \A k \in 1..Len(u) : v[k] = P!Call(v[k-1], u[k])
               /\ P!After(d, u) = v[Len(u)]
  BY <1>1, DatabaseSteps
<1>4. PICK w : /\ w[0] = d /\ \A k \in 1..Len(s) : w[k] = P!Call(w[k-1], s[k])
               /\ e = w[Len(s)]
  BY DatabaseSteps
<1> HIDE DEF e
<1>5. PICK x : /\ x[0] = e /\ \A k \in 1..Len(t) : x[k] = P!Call(x[k-1], t[k])
               /\ P!After(e, t) = x[Len(t)]
  BY DatabaseSteps
<1>6. v[Len(s)] = e
  <2> DEFINE T == {k \in 0..Len(s) : v[k] = w[k]}
  <2>1. 0 \in T
    BY <1>2, <1>3, <1>4
  <2>2. ASSUME NEW k \in 1..Len(s), k - 1 \in T
        PROVE  k \in T
    <3>1. k \in 0..Len(s) /\ k \in 1..Len(u)
      BY <1>2
    <3>2. v[k] = P!Call(v[k - 1], u[k]) /\ w[k] = P!Call(w[k - 1], s[k]) /\ u[k] = s[k]
      BY <1>1, <1>3, <1>4, <3>1 DEF Joined
    <3>3. QED
      BY <2>2, <3>1, <3>2
  <2> HIDE DEF T
  <2>3. 0..Len(s) \subseteq T
    BY <1>2, <2>1, <2>2, IntervalInduction
  <2>4. QED
    BY <1>2, <1>4, <2>3 DEF T
<1>7. v[Len(u)] = x[Len(t)]
  <2> DEFINE T == {k \in 0..Len(t) : v[Len(s) + k] = x[k]}
  <2>1. 0 \in T
    BY <1>2, <1>5, <1>6
  <2>2. ASSUME NEW k \in 1..Len(t), k - 1 \in T
        PROVE  k \in T
    <3>1. k \in 0..Len(t) /\ Len(s) + k \in 1..Len(u) /\ Len(s) + k - 1 = Len(s) + (k - 1)
      BY <1>2
    <3>2. /\ v[Len(s) + k] = P!Call(v[Len(s) + k - 1], u[Len(s) + k])
          /\ x[k] = P!Call(x[k - 1], t[k]) /\ u[Len(s) + k] = t[k]
      BY <1>1, <1>3, <1>5, <3>1 DEF Joined
    <3>3. QED
      BY <2>2, <3>1, <3>2
  <2> HIDE DEF T
  <2>3. 0..Len(t) \subseteq T
    BY <1>2, <2>1, <2>2, IntervalInduction
  <2>4. QED
    BY <1>2, <2>3 DEF T
<1>8. P!After(d, u) = P!After(e, t)
  BY <1>3, <1>5, <1>7
<1>9. QED
  BY <1>8 DEF u, e

-----------------------------------------------------------------------------
(* The tables of runs.                                                     *)
Shaped(d) == DOMAIN d = P!Table \cup {"raised"} /\ d = [t \in DOMAIN d |-> d[t]]

(* Rows that are told apart by their ids.                                  *)
Unique(rows) == \A x, y \in rows : x.id = y.id => x = y

RowFields == {"id", "run", "node", "status", "output"}

(* A row of turn n, whose node is in the graph of the turn or one of X.    *)
Row(d, s, n, X) ==
  /\ DOMAIN s = RowFields /\ s.run = <<"run", n>> /\ s.id = <<s.run, s.node>>
  /\ s.status = "pending" => s.output = None
  /\ s.output # None => P!Has(d, "artifacts", s.output)
  /\ s.node \notin X => \E x \in d.nodes : x.id = s.node /\ x.graph = GraphId(n)

(* No run is of a later turn than n, and no artifact newer than t.         *)
Tidy(d, n, t, X) ==
  /\ Unique(d.nodes) /\ Unique(d.runs) /\ Unique(d.run_node_states) /\ Unique(d.artifacts)
  /\ \A x \in d.nodes : x.graph = GraphId(x.id[2]) /\ x.id[2] \in Nat
  /\ \A r \in d.runs : r.graph = GraphId(r.id[2]) /\ P!Has(d, "task_graphs", r.graph)
  /\ \A s \in d.run_node_states : s.run[2] \in 1..n /\ Row(d, s, s.run[2], X)
  /\ \A a \in d.artifacts :
       /\ a.run = <<"run", a.run[2]>> /\ a.run[2] \in 1..n /\ a.node[2] \in 0..a.run[2]
       /\ a.id = <<"artifact", a.id[2], a.id[3]>> /\ a.id[3] \in 0..t
       /\ P!Has(d, "nodes", a.node)

(* Calls that do not touch these tables.                                   *)
AsideOps == {"create_workspace_graph", "persist_task_edge", "persist_workspace_edge",
             "persist_goal", "update_goal", "persist_checkpoint", "persist_tool_call",
             "persist_model_call", "persist_memory_item", "persist_compilation_failure",
             "persist_embedding", "attach_item"}
Core(d) == <<d.task_graphs, d.nodes, d.runs, d.run_node_states, d.artifacts>>

AnswersIn(d) == {m \in d.memory_items : m.kind = "assistant_answer"}

Aside(c) == c.op \in AsideOps /\ (c.op = "persist_memory_item" => c.row.kind # "assistant_answer")

(* Calls of turn n, made at time t to a database that began as d.          *)
OfTurn(c, d, n, t, X) ==
  \/ Aside(c)
  \/ /\ c.op = "persist_task_graph"
     /\ \A x \in c.row.nodes : x.graph = GraphId(n) /\ x.id[2] = n
     /\ Unique(c.row.nodes \ d.nodes)
  \/ c.op \in {"create_run", "update_run"} /\ c.row.id = <<"run", n>> /\ c.row.graph = GraphId(n)
  \/ c.op \in {"create_run_node_state", "update_run_node_state"} /\ Row(d, c.row, n, X)
  \/ /\ c.op = "persist_artifact" /\ c.row.run = <<"run", n>> /\ c.row.node[2] \in 0..n
     /\ c.row.id = <<"artifact", c.row.id[2], t>> /\ P!Has(d, "nodes", c.row.node)

(* What e has more than d is of turn n, and no answers.                    *)
Later(d, e, n) ==
  /\ d.task_graphs \subseteq e.task_graphs /\ d.nodes \subseteq e.nodes
  /\ d.artifacts \subseteq e.artifacts
  /\ \A x \in e.nodes \ d.nodes : x.graph = GraphId(n)
  /\ \A r : r # <<"run", n>> => P!OfRun(e, "artifacts", r) = P!OfRun(d, "artifacts", r)
  /\ \A r : r # <<"run", n>> => P!OfRun(e, "run_node_states", r) = P!OfRun(d, "run_node_states", r)
  /\ {r \in e.runs : r.id # <<"run", n>>} = {r \in d.runs : r.id # <<"run", n>>}
  /\ \A r \in d.runs : P!Has(e, "runs", r.id)
  /\ AnswersIn(e) = AnswersIn(d)

LEMMA LaterIsReflexive == ASSUME NEW d, NEW n PROVE Later(d, d, n)
BY DEF Later, P!Has

(* What a call does to its table.                                          *)
SameBut(d, e, t) == Shaped(e) /\ \A u \in P!Table : u # t => e[u] = d[u]
ChildInto(d, e, t, row, parent, id) ==
  e[t] = IF P!Has(d, parent, id) /\ ~P!Has(d, t, row.id) THEN d[t] \cup {row} ELSE d[t]

LEMMA InsertDoes ==
  ASSUME NEW d, Shaped(d), NEW t \in P!Table, NEW row, NEW e, e = P!Insert(d, t, row)
  PROVE  /\ SameBut(d, e, t)
         /\ e[t] = IF P!Has(d, t, row.id) THEN d[t] ELSE d[t] \cup {row}
BY DEF Shaped, SameBut, P!Insert

LEMMA InsertChildDoes ==
  ASSUME NEW d, Shaped(d), NEW t \in P!Table, NEW row, NEW parent, NEW id,
         NEW e, e = P!InsertChild(d, t, row, parent, id)
  PROVE  /\ SameBut(d, e, t)
         /\ ChildInto(d, e, t, row, parent, id)
<1>1. CASE P!Has(d, parent, id)
  BY <1>1, InsertDoes DEF P!InsertChild, ChildInto
<1>2. CASE ~P!Has(d, parent, id)
  <2>1. e = [d EXCEPT !.raised = TRUE]
    BY <1>2 DEF P!InsertChild, P!Raise
  <2>2. "raised" \notin P!Table
    BY DEF P!Table
  <2>3. QED
    BY <1>2, <2>1, <2>2 DEF Shaped, SameBut, ChildInto
<1>3. QED
  BY <1>1, <1>2

LEMMA UpdateDoes ==
  ASSUME NEW d, Shaped(d), NEW t \in P!Table, NEW row, NEW e, e = P!Update(d, t, row)
  PROVE  /\ SameBut(d, e, t)
         /\ e[t] = {IF r.id = row.id THEN row ELSE r : r \in d[t]}
BY DEF Shaped, SameBut, P!Update

LEMMA AsideDoes ==
  ASSUME NEW d, Shaped(d), NEW c, c.op \in AsideOps
  PROVE  /\ Shaped(P!Call(d, c)) /\ Core(P!Call(d, c)) = Core(d)
         /\ Aside(c) => AnswersIn(P!Call(d, c)) = AnswersIn(d)
<1> DEFINE e == P!Call(d, c)
           Mine == P!Table \ {"task_graphs", "nodes", "runs", "run_node_states", "artifacts",
                              "memory_items"}
<1>1. CASE c.op = "attach_item"
  BY <1>1 DEF P!Call
<1>2. CASE c.op \in {"create_workspace_graph", "persist_workspace_edge", "persist_goal",
                     "persist_embedding"}
  <2>1. \E t \in Mine : e = P!Insert(d, t, c.row)
    BY <1>2 DEF P!Call, P!CreateWorkspaceGraph, P!PersistWorkspaceEdge, P!PersistGoal,
                P!PersistEmbedding, P!Table
  <2>2. PICK t \in Mine : e = P!Insert(d, t, c.row)
    BY <2>1
  <2> HIDE DEF e
  <2>3. SameBut(d, e, t)
    BY <2>2, InsertDoes
  <2>4. Core(e) = Core(d) /\ e.memory_items = d.memory_items /\ Shaped(e)
    BY <2>3 DEF SameBut, Core, P!Table
  <2>5. QED
    BY <2>4 DEF AnswersIn, e
<1>3. CASE c.op = "persist_compilation_failure"
  <2>1. \E row : e = P!Insert(d, "compilation_failures", row)
    BY <1>3 DEF P!Call, P!PersistCompilationFailure
  <2>2. "compilation_failures" \in P!Table
    BY DEF P!Table
  <2> HIDE DEF e
  <2>3. SameBut(d, e, "compilation_failures")
    BY <2>1, <2>2, InsertDoes
  <2>4. Core(e) = Core(d) /\ e.memory_items = d.memory_items /\ Shaped(e)
    BY <2>3 DEF SameBut, Core, P!Table
  <2>5. QED
    BY <2>4 DEF AnswersIn, e
<1>4. CASE c.op \in {"persist_task_edge", "persist_checkpoint", "persist_tool_call",
                     "persist_model_call"}
  <2>1. \E t \in Mine : \E parent, id : e = P!InsertChild(d, t, c.row, parent, id)
    BY <1>4 DEF P!Call, P!PersistTaskEdge, P!PersistCheckpoint, P!PersistToolCall,
                P!PersistModelCall, P!Table
  <2>2. PICK t \in Mine : \E parent, id : e = P!InsertChild(d, t, c.row, parent, id)
    BY <2>1
  <2> HIDE DEF e
  <2>3. SameBut(d, e, t)
    BY <2>2, InsertChildDoes
  <2>4. Core(e) = Core(d) /\ e.memory_items = d.memory_items /\ Shaped(e)
    BY <2>3 DEF SameBut, Core, P!Table
  <2>5. QED
    BY <2>4 DEF AnswersIn, e
<1>5. CASE c.op = "update_goal"
  <2>1. e = P!Update(d, "goals", c.row)
    BY <1>5 DEF P!Call, P!UpdateGoal
  <2>2. "goals" \in P!Table
    BY DEF P!Table
  <2> HIDE DEF e
  <2>3. SameBut(d, e, "goals")
    BY <2>1, <2>2, UpdateDoes
  <2>4. Core(e) = Core(d) /\ e.memory_items = d.memory_items /\ Shaped(e)
    BY <2>3 DEF SameBut, Core, P!Table
  <2>5. QED
    BY <2>4 DEF AnswersIn, e
<1>6. CASE c.op = "persist_memory_item"
  <2>1. e = P!Insert(d, "memory_items", c.row)
    BY <1>6 DEF P!Call, P!PersistMemoryItem
  <2>2. "memory_items" \in P!Table
    BY DEF P!Table
  <2> HIDE DEF e
  <2>3. /\ SameBut(d, e, "memory_items")
        /\ e.memory_items = d.memory_items \/ e.memory_items = d.memory_items \cup {c.row}
    <3> DEFINE row == c.row
    <3> HIDE DEF row
    <3>1. /\ SameBut(d, e, "memory_items")
          /\ e["memory_items"] = IF P!Has(d, "memory_items", row.id) THEN d["memory_items"]
                                 ELSE d["memory_items"] \cup {row}
      BY <2>1, <2>2, InsertDoes DEF row
    <3>2. QED
      BY <3>1 DEF row
  <2>4. Core(e) = Core(d) /\ Shaped(e)
    BY <2>3 DEF SameBut, Core, P!Table
  <2>5. Aside(c) => AnswersIn(e) = AnswersIn(d)
    BY <1>6, <2>3 DEF AnswersIn, Aside
  <2>6. QED
    BY <2>4, <2>5 DEF e
<1>7. QED
  BY <1>1, <1>2, <1>3, <1>4, <1>5, <1>6 DEF AsideOps

(* With these tables as they are, everything is as it was.                 *)
LEMMA CoreSame ==
  ASSUME NEW d, NEW e, Core(e) = Core(d)
  PROVE  /\ \A n, t, X : Tidy(e, n, t, X) <=> Tidy(d, n, t, X)
         /\ AnswersIn(e) = AnswersIn(d) => \A n : Later(d, e, n)
         /\ \A o, n : Later(o, d, n) /\ AnswersIn(e) = AnswersIn(d) => Later(o, e, n)
<1>1. /\ e.task_graphs = d.task_graphs /\ e.nodes = d.nodes /\ e.runs = d.runs
      /\ e.run_node_states = d.run_node_states /\ e.artifacts = d.artifacts
  BY DEF Core
<1>2. \A n, t, X : Tidy(e, n, t, X) <=> Tidy(d, n, t, X)
  BY <1>1 DEF Tidy, Row, P!Has
<1>3. AnswersIn(e) = AnswersIn(d) => \A n : Later(d, e, n)
  BY <1>1 DEF Later, P!Has, P!OfRun
<1>4. \A o, n : Later(o, d, n) /\ AnswersIn(e) = AnswersIn(d) => Later(o, e, n)
  BY <1>1 DEF Later, P!Has, P!OfRun
<1>5. QED
  BY <1>2, <1>3, <1>4

(* The calls that touch the tables of runs.                                *)
LEMMA GraphOfTurn ==
  ASSUME NEW o, NEW n \in Nat \ {0}, NEW t \in Nat, NEW X,
         NEW d, Shaped(d), Tidy(d, n, t, X), Later(o, d, n),
         NEW c, c.op = "persist_task_graph", OfTurn(c, o, n, t, X)
  PROVE  /\ Shaped(P!Call(d, c)) /\ Tidy(P!Call(d, c), n, t, X) /\ Later(o, P!Call(d, c), n)
<1> DEFINE e == P!Call(d, c)
           g == c.row
           row == [id |-> g.id, workspace |-> g.workspace, goal |-> g.goal, intent |-> g.intent]
           new(table, rows) == {r \in rows : ~P!Has(d, table, r.id)}
           i == P!Insert(d, "task_graphs", row)
<1>1. e = P!PersistTaskGraph(d, g)
  BY DEF P!Call
<1>2. /\ \A x \in g.nodes : x.graph = GraphId(n) /\ x.id[2] = n
      /\ Unique(g.nodes \ o.nodes)
  BY DEF OfTurn, Aside, AsideOps
<1>3. {"task_graphs", "nodes", "runs", "run_node_states", "artifacts", "memory_items",
       "task_edges"} \subseteq P!Table
  BY DEF P!Table
<1>4. CASE ~P!Has(d, "workspace_graphs", g.workspace)
  <2>1. e = [d EXCEPT !.raised = TRUE]
    BY <1>1, <1>4 DEF P!PersistTaskGraph, P!Raise
  <2>2. Shaped(e) /\ \A u \in P!Table : e[u] = d[u]
    <3>1. "raised" \notin P!Table
      BY DEF P!Table
    <3>2. QED
      BY <2>1, <3>1 DEF Shaped
  <2>3. Core(e) = Core(d) /\ AnswersIn(e) = AnswersIn(d)
    BY <1>3, <2>2 DEF Core, AnswersIn
  <2> HIDE DEF e
  <2>4. QED
    BY <2>2, <2>3, CoreSame DEF e
<1>5. CASE P!Has(d, "workspace_graphs", g.workspace)
  <2> HIDE DEF row, g
  <2>1. SameBut(d, i, "task_graphs") /\ (i.task_graphs = d.task_graphs
                                         \/ i.task_graphs = d.task_graphs \cup {row})
    <3> HIDE DEF i
    <3>1. /\ SameBut(d, i, "task_graphs")
          /\ i["task_graphs"] = IF P!Has(d, "task_graphs", row.id) THEN d["task_graphs"]
                                ELSE d["task_graphs"] \cup {row}
      <4>1. "task_graphs" \in P!Table
        BY <1>3
      <4>2. QED
        BY <4>1, InsertDoes DEF i
    <3>2. QED
      BY <3>1
  <2>2. e = [i EXCEPT !["nodes"] = @ \cup new("nodes", g.nodes),
                      !["task_edges"] = @ \cup new("task_edges", g.edges)]
    BY <1>1, <1>5 DEF P!PersistTaskGraph, row
  <2> HIDE DEF i, e
  <2>3. /\ Shaped(e) /\ e.task_graphs = i.task_graphs /\ e.nodes = d.nodes \cup new("nodes", g.nodes)
        /\ e.runs = d.runs /\ e.run_node_states = d.run_node_states /\ e.artifacts = d.artifacts
        /\ e.memory_items = d.memory_items
    <3>1. DOMAIN i = P!Table \cup {"raised"} /\ i.nodes = d.nodes
          /\ i.runs = d.runs /\ i.run_node_states = d.run_node_states /\ i.artifacts = d.artifacts
          /\ i.memory_items = d.memory_items
      BY <1>3, <2>1 DEF SameBut, Shaped
    <3>2. Shaped(e)
      BY <2>1, <2>2 DEF SameBut, Shaped
    <3>3. /\ e.task_graphs = i.task_graphs /\ e.nodes = i.nodes \cup new("nodes", g.nodes)
          /\ e.runs = i.runs /\ e.run_node_states = i.run_node_states /\ e.artifacts = i.artifacts
          /\ e.memory_items = i.memory_items
      BY <1>3, <2>2, <3>1
    <3>4. QED
      BY <3>1, <3>2, <3>3
  <2> DEFINE N == new("nodes", g.nodes)
  <2>4. N \subseteq g.nodes /\ N \cap d.nodes = {} /\ \A x \in N, y \in d.nodes : x.id # y.id
    BY DEF P!Has
  <2>5. N \subseteq g.nodes \ o.nodes
    BY <2>4 DEF Later
  <2> HIDE DEF N
  <2>6. Unique(e.nodes)
    BY <1>2, <2>3, <2>4, <2>5 DEF Unique, Tidy, N
  <2>7. \A x \in N : x.graph = GraphId(n) /\ x.id[2] = n
    BY <1>2, <2>4
  <2>8. \A x \in e.nodes : x.graph = GraphId(x.id[2]) /\ x.id[2] \in Nat
    BY <2>3, <2>7 DEF Tidy, N
  <2>9. d.task_graphs \subseteq e.task_graphs /\ d.nodes \subseteq e.nodes /\ e.nodes \ d.nodes \subseteq N
    BY <2>1, <2>3 DEF N
  <2>10. Tidy(e, n, t, X)
    <3>1. \A r \in e.runs : r.graph = GraphId(r.id[2]) /\ P!Has(e, "task_graphs", r.graph)
      BY <2>3, <2>9 DEF Tidy, P!Has
    <3>2. \A s \in e.run_node_states : s.run[2] \in 1..n /\ Row(e, s, s.run[2], X)
      BY <2>3, <2>9 DEF Tidy, Row, P!Has
    <3>3. \A a \in e.artifacts : P!Has(d, "nodes", a.node) => P!Has(e, "nodes", a.node)
      BY <2>9 DEF P!Has
    <3>4. QED
      BY <2>3, <2>6, <2>8, <3>1, <3>2, <3>3 DEF Tidy
  <2>11. Later(o, e, n)
    <3>1. \A x \in e.nodes \ o.nodes : x.graph = GraphId(n)
      BY <2>7, <2>9 DEF Later
    <3>2. AnswersIn(e) = AnswersIn(d)
      BY <2>3 DEF AnswersIn
    <3>3. QED
      BY <2>3, <2>9, <3>1, <3>2 DEF Later, P!Has, P!OfRun
  <2>12. QED
    BY <2>3, <2>10, <2>11 DEF e
<1>6. QED
  BY <1>4, <1>5

LEMMA RunOfTurn ==
  ASSUME NEW o, NEW n \in Nat \ {0}, NEW t \in Nat, NEW X,
         NEW d, Shaped(d), Tidy(d, n, t, X), Later(o, d, n),
         NEW c, c.op \in {"create_run", "update_run"}, OfTurn(c, o, n, t, X)
  PROVE  /\ Shaped(P!Call(d, c)) /\ Tidy(P!Call(d, c), n, t, X) /\ Later(o, P!Call(d, c), n)
<1> DEFINE e == P!Call(d, c)
           r == c.row
<1>1. r.id = <<"run", n>> /\ r.graph = GraphId(n) /\ r.id[2] = n
  BY DEF OfTurn, Aside, AsideOps
<1>2. \/ e = P!InsertChild(d, "runs", r, "task_graphs", r.graph)
      \/ e = P!Update(d, "runs", r)
  BY DEF P!Call, P!CreateRun, P!UpdateRun
<1>3. {"task_graphs", "nodes", "runs", "run_node_states", "artifacts", "memory_items"} \subseteq P!Table
  BY DEF P!Table
<1> HIDE DEF e, r
<1>4. /\ SameBut(d, e, "runs")
      /\ \/ e.runs = d.runs
         \/ /\ e.runs = d.runs \cup {r} /\ P!Has(d, "task_graphs", r.graph)
            /\ ~P!Has(d, "runs", r.id)
         \/ e.runs = {IF x.id = r.id THEN r ELSE x : x \in d.runs}
  <2>1. CASE e = P!InsertChild(d, "runs", r, "task_graphs", r.graph)
    <3> DEFINE g == r.graph
    <3> HIDE DEF g
    <3>1. /\ SameBut(d, e, "runs")
          /\ ChildInto(d, e, "runs", r, "task_graphs", g)
      <4>1. "runs" \in P!Table /\ e = P!InsertChild(d, "runs", r, "task_graphs", g)
        BY <1>3, <2>1 DEF g
      <4>2. QED
        BY <4>1, InsertChildDoes
    <3>2. QED
      BY <3>1 DEF g, ChildInto
  <2>2. CASE e = P!Update(d, "runs", r)
    <3>1. /\ SameBut(d, e, "runs")
          /\ e["runs"] = {IF x.id = r.id THEN r ELSE x : x \in d["runs"]}
      BY <1>3, <2>2, UpdateDoes
    <3>2. QED
      BY <3>1
  <2>3. QED
    BY <1>2, <2>1, <2>2
<1>5. /\ e.task_graphs = d.task_graphs /\ e.nodes = d.nodes /\ e.memory_items = d.memory_items
      /\ e.run_node_states = d.run_node_states /\ e.artifacts = d.artifacts /\ Shaped(e)
  BY <1>3, <1>4 DEF SameBut
<1>6. /\ Unique(e.runs)
      /\ \A x \in e.runs : x.graph = GraphId(x.id[2]) /\ P!Has(d, "task_graphs", x.graph)
      /\ {x \in e.runs : x.id # r.id} = {x \in d.runs : x.id # r.id}
      /\ \A x \in d.runs : P!Has(e, "runs", x.id)
  <2>1. /\ Unique(d.runs)
        /\ \A x \in d.runs : x.graph = GraphId(x.id[2]) /\ P!Has(d, "task_graphs", x.graph)
    BY DEF Tidy
  <2>2. CASE e.runs = d.runs
    BY <2>1, <2>2 DEF P!Has
  <2>3. CASE e.runs = d.runs \cup {r} /\ P!Has(d, "task_graphs", r.graph) /\ ~P!Has(d, "runs", r.id)
    <3>1. \A x \in d.runs : x.id # r.id
      BY <2>3 DEF P!Has
    <3>2. Unique(e.runs)
      BY <2>1, <2>3, <3>1 DEF Unique
    <3>3. QED
      BY <1>1, <2>1, <2>3, <3>1, <3>2 DEF P!Has
  <2>4. CASE e.runs = {IF x.id = r.id THEN r ELSE x : x \in d.runs}
    <3>1. \A x \in e.runs : \/ x \in d.runs /\ x.id # r.id
                            \/ x = r /\ \E y \in d.runs : y.id = r.id
      BY <2>4
    <3>2. \A x \in d.runs : \E y \in e.runs : y.id = x.id
      BY <2>4
    <3>3. \A x \in d.runs : x.id # r.id => x \in e.runs
      BY <2>4
    <3>4. Unique(e.runs)
      BY <2>1, <3>1 DEF Unique
    <3>5. \A x \in e.runs : x.graph = GraphId(x.id[2]) /\ P!Has(d, "task_graphs", x.graph)
      <4>1. (\E y \in d.runs : y.id = r.id) => P!Has(d, "task_graphs", r.graph)
        BY <1>1, <2>1
      <4>2. QED
        BY <1>1, <2>1, <3>1, <4>1
    <3>6. QED
      BY <3>1, <3>2, <3>3, <3>4, <3>5 DEF P!Has
  <2>5. QED
    BY <1>4, <2>2, <2>3, <2>4
<1>7. Tidy(e, n, t, X)
  <2>1. \A u \in {"task_graphs", "nodes", "artifacts"} :
          \A id : P!Has(e, u, id) <=> P!Has(d, u, id)
    BY <1>5 DEF P!Has
  <2>2. \A s \in e.run_node_states : s.run[2] \in 1..n /\ Row(e, s, s.run[2], X)
    BY <1>5, <2>1 DEF Tidy, Row
  <2>3. QED
    BY <1>5, <1>6, <2>1, <2>2 DEF Tidy
<1>8. Later(o, e, n)
  <2>1. AnswersIn(e) = AnswersIn(d)
    BY <1>5 DEF AnswersIn
  <2>2. \A x \in o.runs : P!Has(e, "runs", x.id)
    <3> SUFFICES ASSUME NEW x \in o.runs PROVE P!Has(e, "runs", x.id)
      OBVIOUS
    <3>1. PICK y \in d.runs : y.id = x.id
      BY DEF Later, P!Has
    <3>2. QED
      BY <1>6, <3>1
  <2>3. {x \in e.runs : x.id # <<"run", n>>} = {x \in o.runs : x.id # <<"run", n>>}
    BY <1>1, <1>6 DEF Later
  <2>4. QED
    BY <1>5, <2>1, <2>2, <2>3 DEF Later, P!OfRun
<1>9. QED
  BY <1>5, <1>7, <1>8 DEF e

LEMMA RowOfTurn ==
  ASSUME NEW o, NEW n \in Nat \ {0}, NEW t \in Nat, NEW X,
         NEW d, Shaped(d), Tidy(d, n, t, X), Later(o, d, n),
         NEW c, c.op \in {"create_run_node_state", "update_run_node_state"}, OfTurn(c, o, n, t, X)
  PROVE  /\ Shaped(P!Call(d, c)) /\ Tidy(P!Call(d, c), n, t, X) /\ Later(o, P!Call(d, c), n)
<1> DEFINE e == P!Call(d, c)
           s == c.row
           r == <<"run", n>>
<1>1. Row(o, s, n, X)
  BY DEF OfTurn, Aside, AsideOps
<1>2. \/ e = P!InsertChild(d, "run_node_states", s, "runs", s.run)
      \/ e = P!Update(d, "run_node_states", s)
  BY DEF P!Call, P!CreateRunNodeState, P!UpdateRunNodeState
<1>3. {"task_graphs", "nodes", "runs", "run_node_states", "artifacts", "memory_items"} \subseteq P!Table
  BY DEF P!Table
<1> HIDE DEF e, s
<1>4. /\ SameBut(d, e, "run_node_states")
      /\ \/ e.run_node_states = d.run_node_states
         \/ /\ e.run_node_states = d.run_node_states \cup {s}
            /\ ~P!Has(d, "run_node_states", s.id)
         \/ e.run_node_states = {IF x.id = s.id THEN s ELSE x : x \in d.run_node_states}
  <2> DEFINE q == s.run
  <2>1. "run_node_states" \in P!Table
    BY <1>3
  <2>2. CASE e = P!InsertChild(d, "run_node_states", s, "runs", s.run)
    <3>1. e = P!InsertChild(d, "run_node_states", s, "runs", q)
      BY <2>2
    <3> HIDE DEF q
    <3>2. /\ SameBut(d, e, "run_node_states")
          /\ ChildInto(d, e, "run_node_states", s, "runs", q)
      BY <2>1, <3>1, InsertChildDoes
    <3>3. QED
      BY <3>2 DEF ChildInto
  <2>3. CASE e = P!Update(d, "run_node_states", s)
    <3>1. /\ SameBut(d, e, "run_node_states")
          /\ e["run_node_states"] = {IF x.id = s.id THEN s ELSE x : x \in d["run_node_states"]}
      BY <2>1, <2>3, UpdateDoes
    <3>2. QED
      BY <3>1
  <2>4. QED
    BY <1>2, <2>2, <2>3
<1>5. /\ e.task_graphs = d.task_graphs /\ e.nodes = d.nodes /\ e.memory_items = d.memory_items
      /\ e.runs = d.runs /\ e.artifacts = d.artifacts /\ Shaped(e)
  BY <1>3, <1>4 DEF SameBut
<1>6. Row(e, s, n, X) /\ n \in 1..n /\ s.run = r /\ r[2] = n
  <2>1. o.nodes \subseteq e.nodes /\ o.artifacts \subseteq e.artifacts
    BY <1>5 DEF Later
  <2>2. QED
    BY <1>1, <2>1 DEF Row, P!Has
<1>7. \A x \in d.run_node_states : x.run[2] \in 1..n /\ Row(e, x, x.run[2], X)
  BY <1>5 DEF Tidy, Row, P!Has
<1>8. \A x \in d.run_node_states : x.id = <<x.run, x.node>>
  BY DEF Tidy, Row
<1>9. s.id = <<r, s.node>>
  BY <1>6 DEF Row
<1> HIDE DEF r
<1>10. /\ Unique(e.run_node_states)
       /\ \A x \in e.run_node_states : x \in d.run_node_states \/ x = s
       /\ \A x \in d.run_node_states : x.run # r => x \in e.run_node_states
  <2>1. Unique(d.run_node_states)
    BY DEF Tidy
  <2>2. CASE e.run_node_states = d.run_node_states
    BY <2>1, <2>2
  <2>3. CASE /\ e.run_node_states = d.run_node_states \cup {s}
             /\ ~P!Has(d, "run_node_states", s.id)
    <3>1. \A x \in d.run_node_states : x.id # s.id
      BY <2>3 DEF P!Has
    <3>2. Unique(e.run_node_states)
      BY <2>1, <2>3, <3>1 DEF Unique
    <3>3. QED
      BY <2>3, <3>2
  <2>4. CASE e.run_node_states = {IF x.id = s.id THEN s ELSE x : x \in d.run_node_states}
    <3>1. \A x \in e.run_node_states : x = s \/ (x \in d.run_node_states /\ x.id # s.id)
      BY <2>4
    <3>2. \A x \in d.run_node_states : x.id # s.id => x \in e.run_node_states
      BY <2>4
    <3>3. \A x \in d.run_node_states : x.run # r => x.id # s.id
      BY <1>8, <1>9
    <3>4. Unique(e.run_node_states)
      BY <2>1, <3>1 DEF Unique
    <3>5. QED
      BY <3>1, <3>2, <3>3, <3>4
  <2>5. QED
    BY <1>4, <2>2, <2>3, <2>4
<1>11. \A x \in e.run_node_states : x.run[2] \in 1..n /\ Row(e, x, x.run[2], X)
  <2>1. s.run[2] = n
    BY <1>6
  <2>2. QED
    BY <1>6, <1>7, <1>10, <2>1
<1>12. Tidy(e, n, t, X)
  BY <1>5, <1>10, <1>11 DEF Tidy, P!Has
<1>13. Later(o, e, n)
  <2>1. AnswersIn(e) = AnswersIn(d)
    BY <1>5 DEF AnswersIn
  <2>2. ASSUME NEW q, q # <<"run", n>>
        PROVE  P!OfRun(e, "run_node_states", q) = P!OfRun(o, "run_node_states", q)
    <3>1. P!OfRun(e, "run_node_states", q) = P!OfRun(d, "run_node_states", q)
      BY <1>6, <1>10, <2>2 DEF P!OfRun, r
    <3>2. QED
      BY <2>2, <3>1 DEF Later
  <2>3. QED
    BY <1>5, <2>1, <2>2 DEF Later, P!Has, P!OfRun
<1>14. QED
  BY <1>5, <1>12, <1>13 DEF e

LEMMA ArtifactOfTurn ==
  ASSUME NEW o, NEW n \in Nat \ {0}, NEW t \in Nat, NEW X,
         NEW d, Shaped(d), Tidy(d, n, t, X), Later(o, d, n),
         NEW c, c.op = "persist_artifact", OfTurn(c, o, n, t, X)
  PROVE  /\ Shaped(P!Call(d, c)) /\ Tidy(P!Call(d, c), n, t, X) /\ Later(o, P!Call(d, c), n)
<1> DEFINE e == P!Call(d, c)
           a == c.row
           r == <<"run", n>>
<1>1. /\ a.run = r /\ a.node[2] \in 0..n
      /\ a.id = <<"artifact", a.id[2], t>> /\ P!Has(o, "nodes", a.node)
  BY DEF OfTurn, Aside, AsideOps
<1>2. e = P!InsertChild(d, "artifacts", a, "runs", r)
  BY <1>1 DEF P!Call, P!PersistArtifact
<1>3. {"task_graphs", "nodes", "runs", "run_node_states", "artifacts", "memory_items"} \subseteq P!Table
  BY DEF P!Table
<1> HIDE DEF e, a, r
<1>4. /\ SameBut(d, e, "artifacts")
      /\ \/ e.artifacts = d.artifacts
         \/ e.artifacts = d.artifacts \cup {a} /\ ~P!Has(d, "artifacts", a.id)
  <2>1. "artifacts" \in P!Table
    BY <1>3
  <2>2. /\ SameBut(d, e, "artifacts")
        /\ ChildInto(d, e, "artifacts", a, "runs", r)
    BY <1>2, <2>1, InsertChildDoes
  <2>3. QED
    BY <2>2 DEF ChildInto
<1>5. /\ e.task_graphs = d.task_graphs /\ e.nodes = d.nodes /\ e.memory_items = d.memory_items
      /\ e.runs = d.runs /\ e.run_node_states = d.run_node_states /\ Shaped(e)
  BY <1>3, <1>4 DEF SameBut
<1>6. Unique(e.artifacts) /\ d.artifacts \subseteq e.artifacts /\ e.artifacts \subseteq d.artifacts \cup {a}
  <2>1. Unique(d.artifacts)
    BY DEF Tidy
  <2>2. CASE e.artifacts = d.artifacts
    BY <2>1, <2>2
  <2>3. CASE e.artifacts = d.artifacts \cup {a} /\ ~P!Has(d, "artifacts", a.id)
    <3>1. \A x \in d.artifacts : x.id # a.id
      BY <2>3 DEF P!Has
    <3>2. QED
      BY <2>1, <2>3, <3>1 DEF Unique
  <2>4. QED
    BY <1>4, <2>2, <2>3
<1>7. /\ a.run[2] = n /\ a.run = <<"run", a.run[2]>> /\ a.run[2] \in 1..n /\ a.node[2] \in 0..a.run[2]
      /\ a.id = <<"artifact", a.id[2], a.id[3]>> /\ a.id[3] \in 0..t
      /\ P!Has(e, "nodes", a.node)
  <2>1. P!Has(e, "nodes", a.node)
    BY <1>1, <1>5 DEF Later, P!Has
  <2>2. QED
    BY <1>1, <2>1 DEF r
<1>8. Tidy(e, n, t, X)
  <2>1. \A s \in e.run_node_states : s.run[2] \in 1..n /\ Row(e, s, s.run[2], X)
    BY <1>5, <1>6 DEF Tidy, Row, P!Has
  <2>2. \A id : P!Has(e, "nodes", id) <=> P!Has(d, "nodes", id)
    BY <1>5 DEF P!Has
  <2>3. \A r1 \in e.runs : r1.graph = GraphId(r1.id[2]) /\ P!Has(e, "task_graphs", r1.graph)
    BY <1>5 DEF Tidy, P!Has
  <2>4. QED
    BY <1>5, <1>6, <1>7, <2>1, <2>2, <2>3 DEF Tidy
<1>9. Later(o, e, n)
  <2>1. AnswersIn(e) = AnswersIn(d)
    BY <1>5 DEF AnswersIn
  <2>2. ASSUME NEW q, q # <<"run", n>>
        PROVE  P!OfRun(e, "artifacts", q) = P!OfRun(o, "artifacts", q)
    <3>1. P!OfRun(e, "artifacts", q) = P!OfRun(d, "artifacts", q)
      BY <1>1, <1>6, <2>2 DEF P!OfRun, r
    <3>2. QED
      BY <2>2, <3>1 DEF Later
  <2>3. QED
    BY <1>5, <1>6, <2>1, <2>2 DEF Later, P!Has, P!OfRun
<1>10. QED
  BY <1>5, <1>8, <1>9 DEF e

LEMMA CallOfTurn ==
  ASSUME NEW o, NEW n \in Nat \ {0}, NEW t \in Nat, NEW X,
         NEW d, Shaped(d), Tidy(d, n, t, X), Later(o, d, n), NEW c, OfTurn(c, o, n, t, X)
  PROVE  /\ Shaped(P!Call(d, c)) /\ Tidy(P!Call(d, c), n, t, X) /\ Later(o, P!Call(d, c), n)
<1>1. CASE Aside(c)
  <2> DEFINE e == P!Call(d, c)
  <2>1. Shaped(e) /\ Core(e) = Core(d) /\ AnswersIn(e) = AnswersIn(d)
    BY <1>1, AsideDoes DEF Aside
  <2> HIDE DEF e
  <2>2. Tidy(e, n, t, X) /\ Later(o, e, n)
    BY <2>1, CoreSame
  <2>3. QED
    BY <2>1, <2>2 DEF e
<1>2. CASE c.op = "persist_task_graph"
  BY <1>2, GraphOfTurn
<1>3. CASE c.op \in {"create_run", "update_run"}
  BY <1>3, RunOfTurn
<1>4. CASE c.op \in {"create_run_node_state", "update_run_node_state"}
  BY <1>4, RowOfTurn
<1>5. CASE c.op = "persist_artifact"
  BY <1>5, ArtifactOfTurn
<1>6. QED
  BY <1>1, <1>2, <1>3, <1>4, <1>5 DEF OfTurn

(* All the calls of a sequence.                                            *)
LEMMA CallsOfTurn ==
  ASSUME NEW n \in Nat \ {0}, NEW t \in Nat, NEW X,
         NEW d, Shaped(d), Tidy(d, n, t, X),
         NEW S, NEW calls \in Seq(S), \A c \in S : OfTurn(c, d, n, t, X)
  PROVE  /\ Shaped(P!After(d, calls)) /\ Tidy(P!After(d, calls), n, t, X)
         /\ Later(d, P!After(d, calls), n)
<1>1. PICK v : /\ v[0] = d /\ \A k \in 1..Len(calls) : v[k] = P!Call(v[k-1], calls[k])
               /\ P!After(d, calls) = v[Len(calls)]
  BY DatabaseSteps
<1>2. Len(calls) \in Nat /\ \A k \in 1..Len(calls) : calls[k] \in S
  OBVIOUS
<1> DEFINE T == {k \in 0..Len(calls) : Shaped(v[k]) /\ Tidy(v[k], n, t, X) /\ Later(d, v[k], n)}
<1>3. 0 \in T
  BY <1>1, <1>2, LaterIsReflexive
<1>4. ASSUME NEW k \in 1..Len(calls), k - 1 \in T
      PROVE  k \in T
  <2>1. v[k] = P!Call(v[k-1], calls[k]) /\ OfTurn(calls[k], d, n, t, X)
    BY <1>1, <1>2
  <2>2. Shaped(v[k-1]) /\ Tidy(v[k-1], n, t, X) /\ Later(d, v[k-1], n)
    BY <1>4
  <2>3. Shaped(v[k]) /\ Tidy(v[k], n, t, X) /\ Later(d, v[k], n)
    BY <2>1, <2>2, CallOfTurn
  <2>4. QED
    BY <1>2, <2>3
<1> HIDE DEF T
<1>5. 0..Len(calls) \subseteq T
  BY <1>2, <1>3, <1>4, IntervalInduction
<1>6. Len(calls) \in T
  BY <1>2, <1>5
<1>7. QED
  BY <1>1, <1>6 DEF T

-----------------------------------------------------------------------------
(* Sequences of calls of a turn, and of calls that are aside.              *)
AllOfTurn(calls, d, n, t, X) == \E S : calls \in Seq(S) /\ \A c \in S : OfTurn(c, d, n, t, X)

LEMMA OneIsOfTurn ==
  ASSUME NEW d, NEW n, NEW t, NEW X, NEW c, OfTurn(c, d, n, t, X)
  PROVE  AllOfTurn(<<c>>, d, n, t, X)
<1> DEFINE calls == <<c>>
           S == {c}
<1>1. calls \in Seq(S) /\ \A x \in S : OfTurn(x, d, n, t, X)
  OBVIOUS
<1> HIDE DEF calls, S
<1>2. AllOfTurn(calls, d, n, t, X)
  BY <1>1 DEF AllOfTurn
<1>3. QED
  BY <1>2 DEF calls

LEMMA NoneAreOfTurn == ASSUME NEW d, NEW n, NEW t, NEW X PROVE AllOfTurn(<<>>, d, n, t, X)
<1> DEFINE calls == <<>>
           S == {}
<1>1. calls \in Seq(S) /\ \A x \in S : OfTurn(x, d, n, t, X)
  OBVIOUS
<1> HIDE DEF calls, S
<1>2. AllOfTurn(calls, d, n, t, X)
  BY <1>1 DEF AllOfTurn
<1>3. QED
  BY <1>2 DEF calls

LEMMA ConcatIsOfTurn ==
  ASSUME NEW d, NEW n, NEW t, NEW X, NEW r, AllOfTurn(r, d, n, t, X), NEW s, AllOfTurn(s, d, n, t, X)
  PROVE  AllOfTurn(r \o s, d, n, t, X)
<1>1. PICK R : r \in Seq(R) /\ \A c \in R : OfTurn(c, d, n, t, X)
  BY DEF AllOfTurn
<1>2. PICK S : s \in Seq(S) /\ \A c \in S : OfTurn(c, d, n, t, X)
  BY DEF AllOfTurn
<1>3. r \in Seq(R \cup S) /\ s \in Seq(R \cup S)
  BY <1>1, <1>2
<1>4. r \o s \in Seq(R \cup S)
  BY <1>3
<1>5. QED
  BY <1>1, <1>2, <1>4 DEF AllOfTurn

LEMMA AsideAll ==
  ASSUME NEW d, Shaped(d), NEW S, NEW calls \in Seq(S), \A c \in S : c.op \in AsideOps
  PROVE  /\ Shaped(P!After(d, calls)) /\ Core(P!After(d, calls)) = Core(d)
         /\ (\A c \in S : Aside(c)) => AnswersIn(P!After(d, calls)) = AnswersIn(d)
<1>1. PICK v : /\ v[0] = d /\ \A k \in 1..Len(calls) : v[k] = P!Call(v[k-1], calls[k])
               /\ P!After(d, calls) = v[Len(calls)]
  BY DatabaseSteps
<1>2. Len(calls) \in Nat /\ \A k \in 1..Len(calls) : calls[k] \in S
  OBVIOUS
<1> DEFINE T == {k \in 0..Len(calls) : /\ Shaped(v[k]) /\ Core(v[k]) = Core(d)
                                       /\ (\A c \in S : Aside(c)) => AnswersIn(v[k]) = AnswersIn(d)}
<1>3. 0 \in T
  BY <1>1, <1>2
<1>4. ASSUME NEW k \in 1..Len(calls), k - 1 \in T
      PROVE  k \in T
  <2>1. v[k] = P!Call(v[k-1], calls[k]) /\ calls[k] \in S /\ calls[k].op \in AsideOps
    BY <1>1, <1>2
  <2>2. /\ Shaped(v[k-1]) /\ Core(v[k-1]) = Core(d)
        /\ (\A c \in S : Aside(c)) => AnswersIn(v[k-1]) = AnswersIn(d)
    BY <1>4
  <2>3. /\ Shaped(v[k]) /\ Core(v[k]) = Core(v[k-1])
        /\ Aside(calls[k]) => AnswersIn(v[k]) = AnswersIn(v[k-1])
    BY <2>1, <2>2, AsideDoes
  <2>4. /\ Shaped(v[k]) /\ Core(v[k]) = Core(d)
        /\ (\A c \in S : Aside(c)) => AnswersIn(v[k]) = AnswersIn(d)
    BY <2>1, <2>2, <2>3
  <2>5. QED
    BY <1>2, <2>4
<1> HIDE DEF T
<1>5. 0..Len(calls) \subseteq T
  BY <1>2, <1>3, <1>4, IntervalInduction
<1>6. Len(calls) \in T
  BY <1>2, <1>5
<1>7. QED
  BY <1>1, <1>6 DEF T

LEMMA LaterOnwards ==
  ASSUME NEW d, NEW e, NEW f, NEW n, Later(d, e, n), Later(e, f, n)
  PROVE  Later(d, f, n)
<1>1. \A x \in f.nodes \ d.nodes : x.graph = GraphId(n)
  BY DEF Later
<1>2. \A r \in d.runs : P!Has(f, "runs", r.id)
  <2> SUFFICES ASSUME NEW r \in d.runs PROVE P!Has(f, "runs", r.id)
    OBVIOUS
  <2>1. PICK y \in e.runs : y.id = r.id
    BY DEF Later, P!Has
  <2>2. QED
    BY <2>1 DEF Later
<1>3. QED
  BY <1>1, <1>2 DEF Later

LEMMA TidyMore ==
  ASSUME NEW n \in Nat, NEW m \in Nat, n <= m, NEW t \in Nat, NEW u \in Nat, t <= u, NEW X,
         NEW d, Tidy(d, n, t, X)
  PROVE  Tidy(d, m, u, X)
<1>1. 1..n \subseteq 1..m /\ 0..t \subseteq 0..u
  OBVIOUS
<1>2. QED
  BY <1>1 DEF Tidy

(* A node of X may be missing no longer.                                   *)
LEMMA TidyLess ==
  ASSUME NEW d, NEW n \in Nat \ {0}, NEW t, NEW x, Tidy(d, n, t, {x}),
         P!Has(d, "nodes", x), x[2] = n,
         \A s \in d.run_node_states : s.node = x => s.run[2] = n
  PROVE  Tidy(d, n, t, {})
<1>1. PICK y \in d.nodes : y.id = x
  BY DEF P!Has
<1>2. y.graph = GraphId(n)
  BY <1>1 DEF Tidy
<1>3. \A s \in d.run_node_states : Row(d, s, s.run[2], {x}) => Row(d, s, s.run[2], {})
  BY <1>1, <1>2 DEF Row
<1>4. \A s \in d.run_node_states : s.run[2] \in 1..n /\ Row(d, s, s.run[2], {})
  BY <1>3 DEF Tidy
<1>5. QED
  BY <1>4 DEF Tidy

-----------------------------------------------------------------------------
(* What the final nodes of a turn have made, and what their rows say.      *)
IsFinal(d, n, node) ==
  \E x \in d.nodes : x.id = node /\ x.graph = GraphId(n) /\ x.kind = "final"

Output(d, s) == P!LoadArtifact(d, s.output)

(* The row s has what the artifact a says, from its own node.              *)
Covers(d, s, a) ==
  /\ s.run = a.run /\ s.node = a.node /\ s.output # None
  /\ Output(d, s).node = a.node /\ Output(d, s).at = a.at /\ Output(d, s).content = a.content

(* What there is of the final nodes of turn n is what their rows have.     *)
Covered(d, n) ==
  /\ \A a \in d.artifacts :
       a.run = <<"run", n>> /\ IsFinal(d, n, a.node) => \E s \in d.run_node_states : Covers(d, s, a)
  /\ \A s \in d.run_node_states :
       /\ s.run = <<"run", n>> /\ IsFinal(d, n, s.node) /\ s.output # None
       /\ Output(d, s).node = s.node
       => Output(d, s).run = s.run /\ Output(d, s).id = <<"artifact", "output", Output(d, s).at>>

Succeeded(d, n) == \E r \in d.runs : r.id = <<"run", n>> /\ r.status = "succeeded"

Own(d, n) == {s \in d.run_node_states : /\ s.run = <<"run", n>> /\ IsFinal(d, n, s.node)
                                        /\ s.output # None /\ Output(d, s).node = s.node}
Owned(d, n) == {Output(d, s) : s \in Own(d, n)}

LEMMA OutputStays ==
  ASSUME NEW d, NEW e, Unique(e.artifacts), d.artifacts \subseteq e.artifacts,
         NEW s, P!Has(d, "artifacts", s.output)
  PROVE  /\ Output(e, s) = Output(d, s) /\ Output(d, s) \in d.artifacts
         /\ Output(d, s).id = s.output
<1> DEFINE id == s.output
<1>1. PICK a \in d.artifacts : a.id = id
  BY DEF P!Has
<1>2. P!Has(d, "artifacts", id) /\ P!Has(e, "artifacts", id)
  BY <1>1 DEF P!Has
<1>3. \A b \in e.artifacts : b.id = id <=> b = a
  BY <1>1 DEF Unique
<1>4. P!Get(e, "artifacts", id) = a /\ P!Get(d, "artifacts", id) = a
  BY <1>1, <1>2, <1>3 DEF P!Get
<1>5. QED
  BY <1>1, <1>4 DEF Output, P!LoadArtifact

LEMMA FinalStays ==
  ASSUME NEW d, NEW e, Unique(e.nodes), d.nodes \subseteq e.nodes,
         NEW n, NEW node, P!Has(d, "nodes", node)
  PROVE  IsFinal(e, n, node) <=> IsFinal(d, n, node)
<1>1. PICK y \in d.nodes : y.id = node
  BY DEF P!Has
<1>2. \A x \in e.nodes : x.id = node <=> x = y
  BY <1>1 DEF Unique
<1>3. QED
  BY <1>1, <1>2 DEF IsFinal

(* The turns before are as they were.                                      *)
LEMMA EarlierStays ==
  ASSUME NEW n, NEW t, NEW X, NEW d, Tidy(d, n, t, {}), NEW e, Tidy(e, n, t, X), Later(d, e, n),
         NEW m, m # n
  PROVE  Owned(e, m) = Owned(d, m) /\ (Succeeded(d, m) => Succeeded(e, m))
<1>1. /\ Unique(e.nodes) /\ Unique(e.artifacts)
      /\ d.nodes \subseteq e.nodes /\ d.artifacts \subseteq e.artifacts
  BY DEF Tidy, Later
<1>2. <<"run", m>> # <<"run", n>>
  OBVIOUS
<1>3. P!OfRun(e, "run_node_states", <<"run", m>>) = P!OfRun(d, "run_node_states", <<"run", m>>)
  BY <1>2 DEF Later
<1>4. \A s : s \in e.run_node_states /\ s.run = <<"run", m>>
               <=> s \in d.run_node_states /\ s.run = <<"run", m>>
  <2> HIDE DEF P!OfRun
  <2>1. \A s : s \in P!OfRun(e, "run_node_states", <<"run", m>>)
                 <=> s \in P!OfRun(d, "run_node_states", <<"run", m>>)
    BY <1>3
  <2>2. QED
    BY <2>1 DEF P!OfRun
<1>5. ASSUME NEW s \in d.run_node_states, s.output # None
      PROVE  Output(e, s) = Output(d, s)
  BY <1>1, <1>5, OutputStays DEF Tidy, Row
<1>6. ASSUME NEW s \in d.run_node_states
      PROVE  IsFinal(e, m, s.node) <=> IsFinal(d, m, s.node)
  <2>1. P!Has(d, "nodes", s.node)
    BY DEF Tidy, Row, P!Has
  <2>2. QED
    BY <1>1, <2>1, FinalStays
<1>7. Own(e, m) = Own(d, m)
  BY <1>4, <1>5, <1>6 DEF Own
<1>8. \A s \in Own(d, m) : Output(e, s) = Output(d, s)
  BY <1>5 DEF Own
<1>9. Succeeded(d, m) => Succeeded(e, m)
  BY <1>2 DEF Succeeded, Later
<1>10. QED
  BY <1>7, <1>8, <1>9 DEF Owned

(* It all depends on these tables only.                                    *)
LEMMA CoreSays ==
  ASSUME NEW d, NEW e, Core(e) = Core(d)
  PROVE  \A n : /\ Owned(e, n) = Owned(d, n) /\ (Succeeded(e, n) <=> Succeeded(d, n))
                /\ Covered(e, n) <=> Covered(d, n)
<1>1. /\ e.nodes = d.nodes /\ e.runs = d.runs
      /\ e.run_node_states = d.run_node_states /\ e.artifacts = d.artifacts
  BY DEF Core
<1>2. \A n, node : IsFinal(e, n, node) <=> IsFinal(d, n, node)
  BY <1>1 DEF IsFinal
<1>3. \A s : Output(e, s) = Output(d, s)
  BY <1>1 DEF Output, P!LoadArtifact, P!Get, P!Has
<1>4. \A n : Own(e, n) = Own(d, n)
  BY <1>1, <1>2, <1>3 DEF Own
<1>5. \A n : Owned(e, n) = Owned(d, n)
  BY <1>3, <1>4 DEF Owned
<1>6. \A s, a : Covers(e, s, a) <=> Covers(d, s, a)
  BY <1>3 DEF Covers
<1>7. \A n : Covered(e, n) <=> Covered(d, n)
  BY <1>1, <1>2, <1>3, <1>6 DEF Covered
<1>8. \A n : Succeeded(e, n) <=> Succeeded(d, n)
  BY <1>1 DEF Succeeded
<1>9. QED
  BY <1>5, <1>7, <1>8

(* The reads of the program and of the property say this.                  *)
LEMMA ReadsSay ==
  ASSUME NEW d, NEW n, NEW t, Tidy(d, n, t, {}), NEW m, Succeeded(d, m)
  PROVE  /\ P!LoadRun(d, <<"run", m>>).status = "succeeded"
         /\ OwnFinals(d, <<"run", m>>) = Owned(d, m)
         /\ Made(d, <<"run", m>>, {"final"})
              = {a \in d.artifacts : a.run = <<"run", m>> /\ IsFinal(d, m, a.node)}
<1> DEFINE run == <<"run", m>>
           r == P!LoadRun(d, run)
           g == P!LoadTaskGraph(d, r.graph)
<1>1. PICK y \in d.runs : y.id = run /\ y.status = "succeeded"
  BY DEF Succeeded
<1>2. r = y
  <2>1. \A x \in d.runs : x.id = run <=> x = y
    BY <1>1 DEF Tidy, Unique
  <2>2. P!Has(d, "runs", run)
    BY <1>1 DEF P!Has
  <2> HIDE DEF run
  <2>3. QED
    BY <2>1, <2>2 DEF P!LoadRun, P!Get
<1>3. y.graph = GraphId(m) /\ P!Has(d, "task_graphs", y.graph)
  BY <1>1 DEF Tidy
<1>4. g.nodes = {x \in d.nodes : x.graph = GraphId(m)}
  <2>1. g.nodes = P!OfGraph(d, "nodes", r.graph)
    <3>1. P!Has(d, "task_graphs", r.graph)
      BY <1>2, <1>3
    <3> HIDE DEF r
    <3>2. QED
      BY <3>1 DEF P!LoadTaskGraph
  <2> HIDE DEF r, g
  <2>2. QED
    BY <1>2, <1>3, <2>1 DEF P!OfGraph
<1> HIDE DEF r, g
<1>5. \A node : IsFinal(d, m, node) <=> \E x \in g.nodes : x.id = node /\ x.kind = "final"
  BY <1>4 DEF IsFinal
<1>6. OwnFinals(d, run) = Owned(d, m)
  <2> DEFINE finals == {x.id : x \in {z \in g.nodes : z.kind = "final"}}
             rows == {s \in P!ListRunNodeStates(d, run) : s.node \in finals /\ s.output # None}
             pair(s) == [node |-> s.node, artifact |-> P!LoadArtifact(d, s.output)]
  <2>1. FinalOutputs(d, run) = {pair(s) : s \in rows}
    BY DEF FinalOutputs, r, g
  <2>2. OwnFinals(d, run) = {o.artifact : o \in {x \in FinalOutputs(d, run) : x.artifact.node = x.node}}
    BY DEF OwnFinals
  <2>3. \A s : s \in rows <=> s \in d.run_node_states /\ s.run = run /\ IsFinal(d, m, s.node)
                             /\ s.output # None
    BY <1>5 DEF P!ListRunNodeStates, P!OfRun
  <2> HIDE DEF rows
  <2>4. \A a : a \in OwnFinals(d, run)
                 <=> \E s \in rows : a = Output(d, s) /\ Output(d, s).node = s.node
    <3> DEFINE F == FinalOutputs(d, run)
    <3>1. \A s : pair(s).node = s.node /\ pair(s).artifact = Output(d, s)
      BY DEF Output
    <3> HIDE DEF F, pair
    <3>2. \A a : a \in OwnFinals(d, run) <=> \E o \in F : o.artifact.node = o.node /\ a = o.artifact
      BY <2>2 DEF F
    <3>3. \A o : o \in F <=> \E s \in rows : o = pair(s)
      BY <2>1 DEF F
    <3>4. QED
      BY <3>1, <3>2, <3>3
  <2>5. QED
    BY <2>3, <2>4 DEF Owned, Own
<1>7. Made(d, run, {"final"}) = {a \in d.artifacts : a.run = run /\ IsFinal(d, m, a.node)}
  BY <1>5 DEF Made, P!ListArtifacts, P!OfRun, r, g
<1>8. QED
  BY <1>1, <1>2, <1>6, <1>7 DEF r

(* The newest of all is the newest of those the rows have.                 *)
LEMMA CollectsOwned ==
  ASSUME NEW d, NEW n, NEW t, Tidy(d, n, t, {}), NEW u \in Nat, \A a \in d.artifacts : a.at \in 0..u,
         NEW m, Succeeded(d, m), Covered(d, m)
  PROVE  AnswerOf(Made(d, <<"run", m>>, {"final"})) = AnswerOf(Owned(d, m))
<1> DEFINE A == Made(d, <<"run", m>>, {"final"})
           B == Owned(d, m)
<1>1. A = {a \in d.artifacts : a.run = <<"run", m>> /\ IsFinal(d, m, a.node)}
  BY ReadsSay
<1>2. \A s \in Own(d, m) : /\ s \in d.run_node_states /\ s.run = <<"run", m>> /\ s.output # None
                           /\ IsFinal(d, m, s.node) /\ Output(d, s).node = s.node
                           /\ Output(d, s) \in d.artifacts
  <2> SUFFICES ASSUME NEW s \in Own(d, m) PROVE Output(d, s) \in d.artifacts
    BY DEF Own
  <2>1. P!Has(d, "artifacts", s.output) /\ Unique(d.artifacts)
    BY DEF Own, Tidy, Row
  <2>2. QED
    BY <2>1, OutputStays
<1>3. \A b \in B : b \in A /\ b.id = <<"artifact", "output", b.at>>
  BY <1>1, <1>2 DEF Owned, Covered
<1>4. \A a \in A : \E b \in B : b.at = a.at /\ b.content = a.content
  <2> SUFFICES ASSUME NEW a \in A PROVE \E b \in B : b.at = a.at /\ b.content = a.content
    OBVIOUS
  <2>1. PICK s \in d.run_node_states : Covers(d, s, a)
    BY <1>1 DEF Covered
  <2>2. s \in Own(d, m)
    BY <1>1, <2>1 DEF Own, Covers
  <2>3. QED
    BY <2>1, <2>2 DEF Owned, Covers
<1>5. \A a \in A : a.at \in 0..u
  BY <1>1
<1>6. \A b, c \in B : b.at = c.at => b = c
  BY <1>1, <1>3 DEF Tidy, Unique
<1> HIDE DEF A, B
<1>7. CASE A = {}
  BY <1>3, <1>7 DEF A, B
<1>8. CASE A # {}
  <2>1. B # {} /\ \A b \in B : b.at \in 0..u
    BY <1>3, <1>4, <1>5, <1>8
  <2>2. \E x \in A : \A y \in A : y.at <= x.at
    BY <1>5, <1>8, NewestExists
  <2>3. \E x \in B : \A y \in B : y.at <= x.at
    BY <2>1, NewestExists
  <2>4. Latest(A) \in A /\ \A y \in A : y.at <= Latest(A).at
    BY <2>2 DEF Latest
  <2>5. Latest(B) \in B /\ \A y \in B : y.at <= Latest(B).at
    BY <2>3 DEF Latest
  <2> DEFINE a == Latest(A)
             b == Latest(B)
  <2> HIDE DEF a, b
  <2>6. PICK c \in B : c.at = a.at /\ c.content = a.content
    BY <1>4, <2>4 DEF a
  <2>7. c.at <= b.at /\ b.at <= a.at /\ a.at \in 0..u /\ b.at \in 0..u
    BY <1>3, <1>5, <2>4, <2>5, <2>6 DEF a, b
  <2>8. c.at = b.at
    BY <2>6, <2>7
  <2>9. c = b
    BY <1>6, <2>5, <2>8 DEF b
  <2>10. QED
    BY <1>8, <2>1, <2>6, <2>9 DEF AnswerOf, a, b, A, B
<1>9. QED
  BY <1>7, <1>8 DEF A, B

-----------------------------------------------------------------------------
(* Calls that give no row an output, and save none of a final node.        *)
Mild(c, d, n, t) ==
  /\ c.op \in {"create_run_node_state", "update_run_node_state"} => c.row.output = None
  /\ c.op = "update_run_node_state" =>
       \A s \in d.run_node_states : s.id = c.row.id => s.output = None
  /\ c.op = "persist_artifact" =>
       /\ P!Has(d, "nodes", c.row.node) /\ ~IsFinal(d, n, c.row.node)
       /\ c.row.id # <<"artifact", "output", t>>

(* From d to e, there have only been such calls.                           *)
Steady(d, e, n, t) ==
  /\ \A a \in e.artifacts \ d.artifacts :
       /\ P!Has(d, "nodes", a.node) /\ ~IsFinal(d, n, a.node) /\ a.id # <<"artifact", "output", t>>
  /\ \A s \in d.run_node_states : s.output # None => s \in e.run_node_states
  /\ \A s \in e.run_node_states : s.output # None => s \in d.run_node_states
  /\ \A s \in d.run_node_states : P!Has(e, "run_node_states", s.id)

LEMMA OthersAreLeft ==
  ASSUME NEW d, Shaped(d), NEW c, c.op \in {"persist_task_graph", "create_run", "update_run"}
  PROVE  /\ P!Call(d, c).run_node_states = d.run_node_states
         /\ P!Call(d, c).artifacts = d.artifacts
<1> DEFINE e == P!Call(d, c)
<1>1. {"task_graphs", "runs", "nodes", "task_edges", "run_node_states", "artifacts"} \subseteq P!Table
  BY DEF P!Table
<1>2. CASE c.op = "persist_task_graph"
  <2> DEFINE g == c.row
             row == [id |-> g.id, workspace |-> g.workspace, goal |-> g.goal, intent |-> g.intent]
             i == P!Insert(d, "task_graphs", row)
  <2>1. e = P!PersistTaskGraph(d, g)
    BY <1>2 DEF P!Call
  <2>2. CASE ~P!Has(d, "workspace_graphs", g.workspace)
    <3>1. e = [d EXCEPT !.raised = TRUE]
      BY <2>1, <2>2 DEF P!PersistTaskGraph, P!Raise
    <3>2. QED
      BY <1>1, <3>1 DEF Shaped
  <2>3. CASE P!Has(d, "workspace_graphs", g.workspace)
    <3>1. \E nodes, edges : e = [i EXCEPT !["nodes"] = nodes, !["task_edges"] = edges]
      BY <2>1, <2>3 DEF P!PersistTaskGraph
    <3> HIDE DEF row, g
    <3>2. SameBut(d, i, "task_graphs")
      <4>1. "task_graphs" \in P!Table
        BY <1>1
      <4>2. QED
        BY <4>1, InsertDoes
    <3> HIDE DEF i, e
    <3>3. e.run_node_states = i.run_node_states /\ e.artifacts = i.artifacts
      BY <1>1, <3>1, <3>2 DEF SameBut, Shaped
    <3>4. i.run_node_states = d.run_node_states /\ i.artifacts = d.artifacts
      BY <1>1, <3>2 DEF SameBut
    <3>5. QED
      BY <3>3, <3>4 DEF e
  <2>4. QED
    BY <2>2, <2>3
<1>3. CASE c.op = "create_run"
  <2> DEFINE r == c.row
             g == r.graph
  <2>1. e = P!InsertChild(d, "runs", r, "task_graphs", g)
    BY <1>3 DEF P!Call, P!CreateRun
  <2> HIDE DEF e, r, g
  <2>2. SameBut(d, e, "runs")
    <3>1. "runs" \in P!Table
      BY <1>1
    <3>2. QED
      BY <2>1, <3>1, InsertChildDoes
  <2>3. QED
    BY <1>1, <2>2 DEF SameBut, e
<1>4. CASE c.op = "update_run"
  <2> DEFINE r == c.row
  <2>1. e = P!Update(d, "runs", r)
    BY <1>4 DEF P!Call, P!UpdateRun
  <2> HIDE DEF e, r
  <2>2. SameBut(d, e, "runs")
    BY <1>1, <2>1, UpdateDoes
  <2>3. QED
    BY <1>1, <2>2 DEF SameBut, e
<1>5. QED
  BY <1>2, <1>3, <1>4

LEMMA MildKeepsSteady ==
  ASSUME NEW o, NEW n, NEW t, NEW X, NEW d, Shaped(d), Steady(o, d, n, t),
         NEW c, OfTurn(c, o, n, t, X), Mild(c, o, n, t)
  PROVE  Steady(o, P!Call(d, c), n, t)
<1> DEFINE e == P!Call(d, c)
<1>1. CASE Aside(c) \/ c.op \in {"persist_task_graph", "create_run", "update_run"}
  <2>1. e.run_node_states = d.run_node_states /\ e.artifacts = d.artifacts
    <3>1. CASE Aside(c)
      <4>1. Core(e) = Core(d)
        BY <3>1, AsideDoes DEF Aside
      <4> HIDE DEF e
      <4>2. QED
        BY <4>1 DEF Core
    <3>2. CASE c.op \in {"persist_task_graph", "create_run", "update_run"}
      BY <3>2, OthersAreLeft
    <3>3. QED
      BY <1>1, <3>1, <3>2
  <2> HIDE DEF e
  <2>2. Steady(o, e, n, t)
    BY <2>1 DEF Steady, P!Has
  <2>3. QED
    BY <2>2 DEF e
<1>2. CASE c.op \in {"create_run_node_state", "update_run_node_state"}
  <2> DEFINE s == c.row
             q == s.run
  <2>1. s.output = None
    BY <1>2 DEF Mild
  <2>2. \/ e = P!InsertChild(d, "run_node_states", s, "runs", q)
        \/ /\ e = P!Update(d, "run_node_states", s)
           /\ \A x \in o.run_node_states : x.id = s.id => x.output = None
    BY <1>2 DEF P!Call, P!CreateRunNodeState, P!UpdateRunNodeState, Mild
  <2> HIDE DEF e, s, q
  <2>3. "run_node_states" \in P!Table /\ "artifacts" \in P!Table
    BY DEF P!Table
  <2>4. /\ SameBut(d, e, "run_node_states")
        /\ \/ e.run_node_states = d.run_node_states
           \/ e.run_node_states = d.run_node_states \cup {s}
           \/ /\ e.run_node_states = {IF x.id = s.id THEN s ELSE x : x \in d.run_node_states}
              /\ \A x \in o.run_node_states : x.id = s.id => x.output = None
    <3>1. CASE e = P!InsertChild(d, "run_node_states", s, "runs", q)
      <4>1. /\ SameBut(d, e, "run_node_states")
            /\ ChildInto(d, e, "run_node_states", s, "runs", q)
        BY <2>3, <3>1, InsertChildDoes
      <4>2. QED
        BY <4>1 DEF ChildInto
    <3>2. CASE /\ e = P!Update(d, "run_node_states", s)
               /\ \A x \in o.run_node_states : x.id = s.id => x.output = None
      <4>1. /\ SameBut(d, e, "run_node_states")
            /\ e["run_node_states"] = {IF x.id = s.id THEN s ELSE x : x \in d["run_node_states"]}
        BY <2>3, <3>2, UpdateDoes
      <4>2. QED
        BY <3>2, <4>1
    <3>3. QED
      BY <2>2, <3>1, <3>2
  <2>5. e.artifacts = d.artifacts
    BY <2>3, <2>4 DEF SameBut
  <2>6. /\ \A x \in e.run_node_states : x \in d.run_node_states \/ x = s
        /\ \A x \in d.run_node_states :
             x \in o.run_node_states /\ x.output # None => x \in e.run_node_states
        /\ \A x \in d.run_node_states : \E y \in e.run_node_states : y.id = x.id
    <3>1. CASE \/ e.run_node_states = d.run_node_states
               \/ e.run_node_states = d.run_node_states \cup {s}
      BY <3>1
    <3>2. CASE /\ e.run_node_states = {IF x.id = s.id THEN s ELSE x : x \in d.run_node_states}
               /\ \A x \in o.run_node_states : x.id = s.id => x.output = None
      <4>1. \A x \in e.run_node_states : x \in d.run_node_states \/ x = s
        BY <3>2
      <4>2. \A x \in d.run_node_states : x.id # s.id => x \in e.run_node_states
        BY <3>2
      <4>3. \A x \in d.run_node_states : \E y \in e.run_node_states : y.id = x.id
        BY <3>2
      <4>4. QED
        BY <3>2, <4>1, <4>2, <4>3
    <3>3. QED
      BY <2>4, <3>1, <3>2
  <2>7. \A x \in o.run_node_states : P!Has(e, "run_node_states", x.id)
    <3> SUFFICES ASSUME NEW x \in o.run_node_states PROVE P!Has(e, "run_node_states", x.id)
      OBVIOUS
    <3>1. PICK y \in d.run_node_states : y.id = x.id
      BY DEF Steady, P!Has
    <3>2. QED
      BY <2>6, <3>1 DEF P!Has
  <2>8. Steady(o, e, n, t)
    BY <2>1, <2>5, <2>6, <2>7 DEF Steady
  <2>9. QED
    BY <2>8 DEF e
<1>3. CASE c.op = "persist_artifact"
  <2> DEFINE a == c.row
             r == a.run
  <2>1. /\ P!Has(o, "nodes", a.node) /\ ~IsFinal(o, n, a.node) /\ a.id # <<"artifact", "output", t>>
    BY <1>3 DEF Mild
  <2>2. e = P!InsertChild(d, "artifacts", a, "runs", r)
    BY <1>3 DEF P!Call, P!PersistArtifact
  <2> HIDE DEF e, a, r
  <2>3. "run_node_states" \in P!Table /\ "artifacts" \in P!Table
    BY DEF P!Table
  <2>4. SameBut(d, e, "artifacts") /\ ChildInto(d, e, "artifacts", a, "runs", r)
    BY <2>2, <2>3, InsertChildDoes
  <2>5. e.artifacts = d.artifacts \/ e.artifacts = d.artifacts \cup {a}
    BY <2>4 DEF ChildInto
  <2>6. e.run_node_states = d.run_node_states
    BY <2>3, <2>4 DEF SameBut
  <2>7. \A b \in e.artifacts : b \in d.artifacts \/ b = a
    BY <2>5
  <2>8. Steady(o, e, n, t)
    BY <2>1, <2>6, <2>7 DEF Steady, P!Has
  <2>9. QED
    BY <2>8 DEF e
<1>4. QED
  BY <1>1, <1>2, <1>3 DEF OfTurn

(* All the calls of a sequence.                                            *)
AllMild(calls, d, n, t, X) ==
  \E S : calls \in Seq(S) /\ \A c \in S : OfTurn(c, d, n, t, X) /\ Mild(c, d, n, t)

LEMMA MildDo ==
  ASSUME NEW n \in Nat \ {0}, NEW t \in Nat, NEW X,
         NEW d, Shaped(d), Tidy(d, n, t, X), NEW calls, AllMild(calls, d, n, t, X)
  PROVE  /\ Shaped(P!After(d, calls)) /\ Tidy(P!After(d, calls), n, t, X)
         /\ Later(d, P!After(d, calls), n) /\ Steady(d, P!After(d, calls), n, t)
<1>1. PICK S : calls \in Seq(S) /\ \A c \in S : OfTurn(c, d, n, t, X) /\ Mild(c, d, n, t)
  BY DEF AllMild
<1>2. PICK v : /\ v[0] = d /\ \A k \in 1..Len(calls) : v[k] = P!Call(v[k-1], calls[k])
               /\ P!After(d, calls) = v[Len(calls)]
  BY <1>1, DatabaseSteps
<1>3. Len(calls) \in Nat /\ \A k \in 1..Len(calls) : calls[k] \in S
  BY <1>1
<1> DEFINE T == {k \in 0..Len(calls) : /\ Shaped(v[k]) /\ Tidy(v[k], n, t, X) /\ Later(d, v[k], n)
                                       /\ Steady(d, v[k], n, t)}
<1>4. 0 \in T
  <2>1. Steady(d, d, n, t)
    BY DEF Steady, P!Has
  <2>2. QED
    BY <1>2, <1>3, <2>1, LaterIsReflexive
<1>5. ASSUME NEW k \in 1..Len(calls), k - 1 \in T
      PROVE  k \in T
  <2>1. v[k] = P!Call(v[k-1], calls[k]) /\ OfTurn(calls[k], d, n, t, X) /\ Mild(calls[k], d, n, t)
    BY <1>1, <1>2, <1>3
  <2>2. /\ Shaped(v[k-1]) /\ Tidy(v[k-1], n, t, X) /\ Later(d, v[k-1], n)
        /\ Steady(d, v[k-1], n, t)
    BY <1>5
  <2>3. Shaped(v[k]) /\ Tidy(v[k], n, t, X) /\ Later(d, v[k], n)
    BY <2>1, <2>2, CallOfTurn
  <2>4. Steady(d, v[k], n, t)
    BY <2>1, <2>2, MildKeepsSteady
  <2>5. QED
    BY <1>3, <2>3, <2>4
<1> HIDE DEF T
<1>6. 0..Len(calls) \subseteq T
  BY <1>3, <1>4, <1>5, IntervalInduction
<1>7. Len(calls) \in T
  BY <1>3, <1>6
<1>8. QED
  BY <1>2, <1>7 DEF T

(* What is covered stays so.                                               *)
LEMMA CoveredStill ==
  ASSUME NEW n, NEW t, NEW u, NEW X, NEW d, Tidy(d, n, t, {}), Covered(d, n),
         NEW e, Tidy(e, n, t, X), Later(d, e, n), Steady(d, e, n, u)
  PROVE  Covered(e, n)
<1>1. /\ Unique(e.nodes) /\ Unique(e.artifacts)
      /\ d.nodes \subseteq e.nodes /\ d.artifacts \subseteq e.artifacts
  BY DEF Tidy, Later
<1>2. ASSUME NEW s \in d.run_node_states, s.output # None
      PROVE  Output(e, s) = Output(d, s)
  BY <1>1, <1>2, OutputStays DEF Tidy, Row
<1>3. \A s \in d.run_node_states : IsFinal(e, n, s.node) <=> IsFinal(d, n, s.node)
  <2> SUFFICES ASSUME NEW s \in d.run_node_states
               PROVE  IsFinal(e, n, s.node) <=> IsFinal(d, n, s.node)
    OBVIOUS
  <2>1. P!Has(d, "nodes", s.node)
    BY DEF Tidy, Row, P!Has
  <2>2. QED
    BY <1>1, <2>1, FinalStays
<1>4. ASSUME NEW a \in e.artifacts, a.run = <<"run", n>>, IsFinal(e, n, a.node)
      PROVE  \E s \in e.run_node_states : Covers(e, s, a)
  <2>1. P!Has(d, "nodes", a.node)
    BY DEF Steady, Tidy
  <2>2. IsFinal(d, n, a.node)
    BY <1>1, <1>4, <2>1, FinalStays
  <2>3. a \in d.artifacts
    BY <2>2 DEF Steady
  <2>4. PICK s \in d.run_node_states : Covers(d, s, a)
    BY <1>4, <2>2, <2>3 DEF Covered
  <2>5. s \in e.run_node_states /\ Output(e, s) = Output(d, s)
    BY <1>2, <2>4 DEF Covers, Steady
  <2>6. QED
    BY <2>4, <2>5 DEF Covers
<1>5. ASSUME NEW s \in e.run_node_states, s.run = <<"run", n>>, IsFinal(e, n, s.node),
             s.output # None, Output(e, s).node = s.node
      PROVE  Output(e, s).run = s.run /\ Output(e, s).id = <<"artifact", "output", Output(e, s).at>>
  <2>1. s \in d.run_node_states
    BY <1>5 DEF Steady
  <2>2. Output(e, s) = Output(d, s) /\ IsFinal(d, n, s.node)
    BY <1>2, <1>3, <1>5, <2>1
  <2>3. QED
    BY <1>5, <2>1, <2>2 DEF Covered
<1>6. QED
  BY <1>4, <1>5 DEF Covered

LEMMA AfterTwo ==
  ASSUME NEW d, NEW b, NEW c, NEW e, e = P!Call(d, b), NEW f, f = P!Call(e, c)
  PROVE  P!After(d, <<b, c>>) = f
<1> DEFINE calls == <<b, c>>
           S == {b, c}
<1>1. calls \in Seq(S) /\ Len(calls) = 2 /\ calls[1] = b /\ calls[2] = c
  OBVIOUS
<1> HIDE DEF calls, S
<1>2. PICK v : /\ v[0] = d /\ \A k \in 1..Len(calls) : v[k] = P!Call(v[k-1], calls[k])
               /\ P!After(d, calls) = v[Len(calls)]
  BY <1>1, DatabaseSteps
<1>3. v[1] = P!Call(d, b) /\ v[2] = P!Call(v[1], c)
  <2>1. 1 \in 1..Len(calls) /\ 1 - 1 = 0 /\ 2 \in 1..Len(calls) /\ 2 - 1 = 1
    BY <1>1
  <2>2. v[1] = P!Call(v[1 - 1], calls[1]) /\ v[2] = P!Call(v[2 - 1], calls[2])
    BY <1>2, <2>1
  <2>3. QED
    BY <1>1, <1>2, <2>1, <2>2
<1>4. P!After(d, calls) = f
  BY <1>1, <1>2, <1>3
<1>5. QED
  BY <1>4 DEF calls

(* An output at time t of the node that the row r is for, or a copy.       *)
OutputOf(d, a, r, n, t) ==
  /\ a.id = <<"artifact", "output", t>> /\ a.run = <<"run", n>> /\ ~P!Has(d, "artifacts", a.id)
  /\ P!Has(d, "nodes", a.node) /\ a.node[2] \in 0..n
  /\ \/ a.node = r.node /\ a.at = t
     \/ \E b \in d.artifacts : a.node = b.node /\ a.at = b.at /\ a.content = b.content

(* A row that has no output yet.                                           *)
Unsettled(d, r, n) ==
  /\ DOMAIN r = RowFields /\ r.run = <<"run", n>> /\ r.id = <<r.run, r.node>>
  /\ \E x \in d.nodes : x.id = r.node /\ x.graph = GraphId(n)
  /\ P!Has(d, "run_node_states", r.id)
  /\ \A x \in d.run_node_states : x.id = r.id => x.output = None

Updated(rows, r) == {IF x.id = r.id THEN r ELSE x : x \in rows}

LEMMA SettlesCovered ==
  ASSUME NEW n \in Nat, NEW t, NEW d, Tidy(d, n, t, {}), Covered(d, n),
         NEW r, Unsettled(d, r, n), r.output # None, NEW a, OutputOf(d, a, r, n, t), r.output = a.id,
         NEW e, e.nodes = d.nodes, e.artifacts = d.artifacts \cup {a}, Unique(e.artifacts),
         e.run_node_states = Updated(d.run_node_states, r)
  PROVE  Covered(e, n)
<1>1. /\ a.id = <<"artifact", "output", t>> /\ a.run = <<"run", n>> /\ r.output = a.id
      /\ r.run = <<"run", n>> /\ r.id = <<r.run, r.node>>
  BY DEF OutputOf, Unsettled
<1>2. \A x \in d.run_node_states : x.output # None => x \in e.run_node_states
  BY DEF Unsettled, Updated
<1>3. r \in e.run_node_states /\ \A x \in e.run_node_states : x = r \/ x \in d.run_node_states
  BY DEF Unsettled, Updated, P!Has
<1>4. ASSUME NEW x \in d.run_node_states, x.output # None
      PROVE  Output(e, x) = Output(d, x)
  <2>1. P!Has(d, "artifacts", x.output)
    BY <1>4 DEF Tidy, Row
  <2>2. Unique(e.artifacts) /\ d.artifacts \subseteq e.artifacts
    OBVIOUS
  <2>3. QED
    BY ONLY <2>1, <2>2, OutputStays
<1>5. Output(e, r) = a
  <2>1. P!Has(e, "artifacts", r.output)
    BY <1>1 DEF P!Has
  <2>2. Output(e, r) \in e.artifacts /\ Output(e, r).id = a.id
    BY <1>1, <2>1, OutputStays
  <2>3. QED
    BY <2>2 DEF Unique
<1>6. \A node : IsFinal(e, n, node) <=> IsFinal(d, n, node)
  BY DEF IsFinal
<1>7. ASSUME NEW b \in d.artifacts, b.run = <<"run", n>>, IsFinal(d, n, b.node)
      PROVE  \E x \in e.run_node_states : Covers(e, x, b)
  <2>1. PICK x \in d.run_node_states : Covers(d, x, b)
    BY <1>7 DEF Covered
  <2>2. x \in e.run_node_states /\ Output(e, x) = Output(d, x)
    BY <1>2, <1>4, <2>1 DEF Covers
  <2>3. QED
    BY <2>1, <2>2 DEF Covers
(* A reused artifact of a final node is one of this very run.              *)
<1>8. ASSUME NEW b \in d.artifacts, IsFinal(d, n, b.node)
      PROVE  b.run = <<"run", n>>
  <2>1. b.node[2] = n
    <3>1. PICK x \in d.nodes : x.id = b.node /\ x.graph = GraphId(n)
      BY <1>8 DEF IsFinal
    <3>2. x.graph = GraphId(x.id[2])
      BY DEF Tidy
    <3>3. QED
      BY <3>1, <3>2 DEF GraphId
  <2>2. b.run = <<"run", b.run[2]>> /\ b.run[2] \in 1..n /\ b.node[2] \in 0..b.run[2]
    BY DEF Tidy
  <2>3. b.run[2] = n
    BY <2>1, <2>2
  <2>4. QED
    BY <2>2, <2>3
<1>9. ASSUME IsFinal(d, n, a.node), ~(a.node = r.node /\ a.at = t)
      PROVE  \E b \in d.artifacts : /\ a.node = b.node /\ a.at = b.at /\ a.content = b.content
                                    /\ b.run = <<"run", n>>
  BY <1>8, <1>9 DEF OutputOf
<1>10. IsFinal(d, n, a.node) => \E x \in e.run_node_states : Covers(e, x, a)
  <2> SUFFICES ASSUME IsFinal(d, n, a.node) PROVE \E x \in e.run_node_states : Covers(e, x, a)
    OBVIOUS
  <2>1. CASE a.node = r.node /\ a.at = t
    BY <1>1, <1>3, <1>5, <2>1 DEF Covers
  <2>2. CASE ~(a.node = r.node /\ a.at = t)
    <3>1. PICK b \in d.artifacts : /\ a.node = b.node /\ a.at = b.at /\ a.content = b.content
                                   /\ b.run = <<"run", n>>
      BY <1>9, <2>2
    <3>2. PICK x \in e.run_node_states : Covers(e, x, b)
      BY <1>7, <3>1
    <3>3. QED
      BY <1>1, <3>1, <3>2 DEF Covers
  <2>3. QED
    BY <2>1, <2>2
<1>11. IsFinal(d, n, r.node) /\ a.node = r.node => a.at = t
  <2> SUFFICES ASSUME IsFinal(d, n, r.node), a.node = r.node, a.at # t PROVE FALSE
    OBVIOUS
  <2>1. PICK b \in d.artifacts : a.node = b.node /\ b.run = <<"run", n>>
    BY <1>9
  <2>2. PICK x \in d.run_node_states : Covers(d, x, b)
    BY <2>1 DEF Covered
  <2>3. x.run = r.run /\ x.node = r.node /\ x.output # None
    BY <1>1, <2>1, <2>2 DEF Covers
  <2>4. x.id = <<x.run, x.node>>
    BY DEF Tidy, Row
  <2>5. x.id = r.id
    BY <1>1, <2>3, <2>4
  <2>6. QED
    BY <2>3, <2>5 DEF Unsettled
<1>12. ASSUME NEW x \in e.run_node_states, x.run = <<"run", n>>, IsFinal(e, n, x.node),
              x.output # None, Output(e, x).node = x.node
       PROVE  Output(e, x).run = x.run /\ Output(e, x).id = <<"artifact", "output", Output(e, x).at>>
  <2>1. CASE x = r
    BY <1>1, <1>5, <1>6, <1>11, <1>12, <2>1
  <2>2. CASE x \in d.run_node_states
    <3>1. Output(e, x) = Output(d, x) /\ IsFinal(d, n, x.node)
      BY <1>4, <1>6, <1>12, <2>2
    <3>2. QED
      BY <1>12, <2>2, <3>1 DEF Covered
  <2>3. QED
    BY <1>3, <2>1, <2>2
<1>13. \A b \in e.artifacts : b.run = <<"run", n>> /\ IsFinal(e, n, b.node)
                                => \E x \in e.run_node_states : Covers(e, x, b)
  BY <1>6, <1>7, <1>10
<1>14. QED
  BY <1>12, <1>13 DEF Covered

(* The last calls of a node.                                               *)
LEMMA EndSettles ==
  ASSUME NEW n \in Nat \ {0}, NEW d, now \in Nat, Shaped(d), Tidy(d, n, now, {}), Covered(d, n),
         P!Has(d, "runs", <<"run", n>>),
         NEW s, Unsettled(d, s, n), NEW a, OutputOf(d, a, s, n, now),
         NEW status, status # "pending", NEW embedded \in BOOLEAN, a.id # None
  PROVE  LET e == P!After(d, End(s, a, status, embedded))
         IN Tidy(e, n, now, {}) /\ Later(d, e, n) /\ Covered(e, n)
<1> DEFINE r == [s EXCEPT !.status = status, !.output = a.id]
           c1 == C("persist_artifact", a)
           c2 == C("persist_embedding", [id |-> <<"embedding", now>>, owner |-> a.id])
           c3 == C("update_run_node_state", r)
           done == InStatus({"succeeded"}) \cup (IF status = "succeeded" THEN {s.node} ELSE {})
           c4 == Checkpoint(2, s, done, {})
           one == <<c1>>
           middle == IF embedded THEN <<c2>> ELSE <<>>
           last == <<c3, c4>>
           d1 == P!Call(d, c1)
           d2 == P!After(d1, middle)
           d3 == P!Call(d2, c3)
           e == P!Call(d3, c4)
<1>1. End(s, a, status, embedded) = one \o middle \o last
  BY DEF End, Saved
<1>2. /\ c1.op = "persist_artifact" /\ c1.row = a /\ c3.op = "update_run_node_state" /\ c3.row = r
      /\ Aside(c2) /\ Aside(c4)
  BY DEF C, Checkpoint, Aside, AsideOps
<1>3. /\ DOMAIN r = RowFields /\ r.id = s.id /\ r.run = s.run /\ r.node = s.node
      /\ r.status = status /\ r.output = a.id
  BY DEF Unsettled, RowFields
<1> DEFINE S == {c1, c2, c3, c4}
<1>4. one \in Seq(S) /\ middle \in Seq(S) /\ last \in Seq(S) /\ middle \in Seq({c2})
  <2> HIDE DEF c1, c2, c3, c4
  <2>1. one \in Seq(S) /\ last \in Seq(S)
    OBVIOUS
  <2>2. <<c2>> \in Seq(S) /\ <<c2>> \in Seq({c2}) /\ <<>> \in Seq(S) /\ <<>> \in Seq({c2})
    OBVIOUS
  <2>3. QED
    BY <2>1, <2>2
<1> HIDE DEF r, c1, c2, c3, c4, S
<1>5. P!After(d, End(s, a, status, embedded)) = e
  <2>1. one \o middle \in Seq(S)
    BY <1>4
  <2>2. P!After(d, (one \o middle) \o last) = P!After(P!After(d, one \o middle), last)
    <3> DEFINE both == one \o middle
    <3>1. both \in Seq(S) /\ last \in Seq(S)
      BY <1>4, <2>1
    <3> HIDE DEF both, last
    <3>2. P!After(d, both \o last) = P!After(P!After(d, both), last)
      BY <3>1, AfterBoth
    <3>3. QED
      BY <3>2 DEF both
  <2>3. P!After(d, one \o middle) = P!After(P!After(d, one), middle)
    <3> HIDE DEF one, middle
    <3>1. QED
      BY <1>4, AfterBoth
  <2>4. P!After(d, one) = d1
    BY AfterOne
  <2>5. P!After(d2, last) = e
    BY AfterTwo
  <2> HIDE DEF one, middle, last, d1, e
  <2>6. QED
    BY <1>1, <2>2, <2>3, <2>4, <2>5
<1>6. {"nodes", "artifacts", "runs", "run_node_states"} \subseteq P!Table
  BY DEF P!Table
<1>7. /\ a.id = <<"artifact", "output", now>> /\ a.id[2] = "output" /\ a.run = <<"run", n>>
      /\ ~P!Has(d, "artifacts", a.id) /\ P!Has(d, "nodes", a.node) /\ a.node[2] \in 0..n
  BY DEF OutputOf
<1>8. Shaped(d1) /\ Tidy(d1, n, now, {}) /\ Later(d, d1, n)
  <2>1. OfTurn(c1, d, n, now, {})
    BY <1>2, <1>7 DEF OfTurn
  <2>2. QED
    BY <2>1, LaterIsReflexive, CallOfTurn
<1>9. /\ d1.artifacts = d.artifacts \cup {a} /\ d1.nodes = d.nodes
      /\ d1.run_node_states = d.run_node_states
  <2> DEFINE run == <<"run", n>>
  <2>1. d1 = P!InsertChild(d, "artifacts", a, "runs", run)
    BY <1>2, <1>7 DEF P!Call, P!PersistArtifact
  <2>2. P!Has(d, "runs", run)
    OBVIOUS
  <2> HIDE DEF run, d1
  <2>3. SameBut(d, d1, "artifacts") /\ ChildInto(d, d1, "artifacts", a, "runs", run)
    BY <1>6, <2>1, InsertChildDoes
  <2>4. d1.artifacts = d.artifacts \cup {a}
    BY <1>7, <2>2, <2>3 DEF ChildInto
  <2>5. QED
    BY <1>6, <2>3, <2>4 DEF SameBut
<1> HIDE DEF d1
<1>10. Shaped(d2) /\ Core(d2) = Core(d1) /\ AnswersIn(d2) = AnswersIn(d1)
  <2>1. \A c \in {c2} : Aside(c) /\ c.op \in AsideOps
    BY <1>2 DEF Aside
  <2> HIDE DEF middle
  <2>2. QED
    BY <1>4, <1>8, <2>1, AsideAll
<1> HIDE DEF d2
<1>11. Tidy(d2, n, now, {}) /\ Later(d, d2, n)
  BY <1>8, <1>10, CoreSame
<1>12. /\ d2.artifacts = d.artifacts \cup {a} /\ d2.nodes = d.nodes
       /\ d2.run_node_states = d.run_node_states
  BY <1>9, <1>10 DEF Core
<1>13. Row(d2, r, n, {})
  <2>1. P!Has(d2, "artifacts", a.id)
    BY <1>12 DEF P!Has
  <2>2. QED
    BY <1>3, <1>12, <2>1 DEF Row, Unsettled
<1>14. Shaped(d3) /\ Tidy(d3, n, now, {}) /\ Later(d2, d3, n)
  <2>1. OfTurn(c3, d2, n, now, {})
    BY <1>2, <1>13 DEF OfTurn
  <2>2. QED
    BY <1>10, <1>11, <2>1, LaterIsReflexive, CallOfTurn
<1>15. /\ d3.artifacts = d.artifacts \cup {a} /\ d3.nodes = d.nodes
       /\ d3.run_node_states = Updated(d.run_node_states, r)
  <2>1. d3 = P!Update(d2, "run_node_states", r)
    BY <1>2 DEF P!Call, P!UpdateRunNodeState
  <2> HIDE DEF d3
  <2>2. /\ SameBut(d2, d3, "run_node_states")
        /\ d3["run_node_states"] = {IF x.id = r.id THEN r ELSE x : x \in d2["run_node_states"]}
    BY <1>6, <1>10, <2>1, UpdateDoes
  <2>3. QED
    BY <1>6, <1>12, <2>2 DEF SameBut, Updated
<1> HIDE DEF d3
<1>16. Covered(d3, n)
  <2>1. Unsettled(d, r, n)
    BY <1>3 DEF Unsettled
  <2>2. OutputOf(d, a, r, n, now)
    BY <1>3 DEF OutputOf
  <2>3. Unique(d3.artifacts) /\ n \in Nat
    BY <1>14 DEF Tidy
  <2>4. r.output # None /\ r.output = a.id /\ Tidy(d, n, now, {}) /\ Covered(d, n)
    BY <1>3
  <2>5. QED
    BY ONLY <1>15, <2>1, <2>2, <2>3, <2>4, SettlesCovered
<1>17. Core(e) = Core(d3) /\ AnswersIn(e) = AnswersIn(d3)
  BY <1>2, <1>14, AsideDoes DEF Aside
<1> HIDE DEF e
<1>18. Tidy(e, n, now, {}) /\ Later(d, e, n)
  BY <1>11, <1>14, <1>17, CoreSame, LaterOnwards
<1>19. Covered(e, n)
  BY <1>16, <1>17, CoreSays
<1>20. QED
  BY <1>5, <1>18, <1>19

-----------------------------------------------------------------------------
(* Where mild calls have led from d.                                       *)
Reached(d, e, n, t, X) ==
  Shaped(e) /\ Tidy(e, n, t, X) /\ Later(d, e, n) /\ Steady(d, e, n, t)

LEMMA NextReached ==
  ASSUME NEW n \in Nat \ {0}, NEW t \in Nat, NEW X, NEW d, NEW e, Reached(d, e, n, t, X),
         NEW c, OfTurn(c, d, n, t, X), Mild(c, d, n, t)
  PROVE  Reached(d, P!Call(e, c), n, t, X)
<1>1. /\ Shaped(P!Call(e, c)) /\ Tidy(P!Call(e, c), n, t, X) /\ Later(d, P!Call(e, c), n)
  BY CallOfTurn DEF Reached
<1>2. Steady(d, P!Call(e, c), n, t)
  BY MildKeepsSteady DEF Reached
<1>3. QED
  BY <1>1, <1>2 DEF Reached

LEMMA AllReached ==
  ASSUME NEW n \in Nat \ {0}, NEW t \in Nat, NEW X, NEW d, Shaped(d), Tidy(d, n, t, X),
         NEW calls, AllMild(calls, d, n, t, X)
  PROVE  Reached(d, P!After(d, calls), n, t, X)
BY MildDo DEF Reached

LEMMA OneIsMild ==
  ASSUME NEW d, NEW n, NEW t, NEW X, NEW c, OfTurn(c, d, n, t, X), Mild(c, d, n, t)
  PROVE  AllMild(<<c>>, d, n, t, X)
<1> DEFINE calls == <<c>>
           S == {c}
<1>1. calls \in Seq(S) /\ \A x \in S : OfTurn(x, d, n, t, X) /\ Mild(x, d, n, t)
  OBVIOUS
<1> HIDE DEF calls, S
<1>2. AllMild(calls, d, n, t, X)
  BY <1>1 DEF AllMild
<1>3. QED
  BY <1>2 DEF calls

LEMMA TwoAreMild ==
  ASSUME NEW d, NEW n, NEW t, NEW X, NEW b, OfTurn(b, d, n, t, X), Mild(b, d, n, t),
         NEW c, OfTurn(c, d, n, t, X), Mild(c, d, n, t)
  PROVE  AllMild(<<b, c>>, d, n, t, X)
<1> DEFINE calls == <<b, c>>
           S == {b, c}
<1>1. calls \in Seq(S) /\ \A x \in S : OfTurn(x, d, n, t, X) /\ Mild(x, d, n, t)
  OBVIOUS
<1> HIDE DEF calls, S
<1>2. AllMild(calls, d, n, t, X)
  BY <1>1 DEF AllMild
<1>3. QED
  BY <1>2 DEF calls

LEMMA ThreeAreMild ==
  ASSUME NEW d, NEW n, NEW t, NEW X, NEW a, OfTurn(a, d, n, t, X), Mild(a, d, n, t),
         NEW b, OfTurn(b, d, n, t, X), Mild(b, d, n, t),
         NEW c, OfTurn(c, d, n, t, X), Mild(c, d, n, t)
  PROVE  AllMild(<<a, b, c>>, d, n, t, X)
<1> DEFINE calls == <<a, b, c>>
           S == {a, b, c}
<1>1. calls \in Seq(S) /\ \A x \in S : OfTurn(x, d, n, t, X) /\ Mild(x, d, n, t)
  OBVIOUS
<1> HIDE DEF calls, S
<1>2. AllMild(calls, d, n, t, X)
  BY <1>1 DEF AllMild
<1>3. QED
  BY <1>2 DEF calls

LEMMA NoneAreMild == ASSUME NEW d, NEW n, NEW t, NEW X PROVE AllMild(<<>>, d, n, t, X)
<1> DEFINE calls == <<>>
           S == {}
<1>1. calls \in Seq(S) /\ \A x \in S : OfTurn(x, d, n, t, X) /\ Mild(x, d, n, t)
  OBVIOUS
<1> HIDE DEF calls, S
<1>2. AllMild(calls, d, n, t, X)
  BY <1>1 DEF AllMild
<1>3. QED
  BY <1>2 DEF calls

LEMMA ConcatIsMild ==
  ASSUME NEW d, NEW n, NEW t, NEW X, NEW r, AllMild(r, d, n, t, X), NEW s, AllMild(s, d, n, t, X)
  PROVE  AllMild(r \o s, d, n, t, X)
<1>1. PICK R : r \in Seq(R) /\ \A c \in R : OfTurn(c, d, n, t, X) /\ Mild(c, d, n, t)
  BY DEF AllMild
<1>2. PICK S : s \in Seq(S) /\ \A c \in S : OfTurn(c, d, n, t, X) /\ Mild(c, d, n, t)
  BY DEF AllMild
<1>3. r \in Seq(R \cup S) /\ s \in Seq(R \cup S)
  BY <1>1, <1>2
<1>4. r \o s \in Seq(R \cup S)
  BY <1>3
<1>5. QED
  BY <1>1, <1>2, <1>4 DEF AllMild

LEMMA MildIsOfTurn ==
  ASSUME NEW d, NEW n, NEW t, NEW X, NEW calls, AllMild(calls, d, n, t, X)
  PROVE  AllOfTurn(calls, d, n, t, X)
BY DEF AllMild, AllOfTurn

LEMMA AsideIsMild ==
  ASSUME NEW d, NEW n, NEW t, NEW X, NEW c, Aside(c)
  PROVE  OfTurn(c, d, n, t, X) /\ Mild(c, d, n, t)
BY DEF OfTurn, Mild, Aside, AsideOps

(* Two sequences with nothing in common.                                   *)
LEMMA AfterThem ==
  ASSUME NEW d, NEW R, NEW r \in Seq(R), NEW S, NEW s \in Seq(S)
  PROVE  P!After(d, r \o s) = P!After(P!After(d, r), s)
<1> DEFINE T == R \cup S
<1>1. r \in Seq(T) /\ s \in Seq(T)
  OBVIOUS
<1> HIDE DEF T
<1>2. QED
  BY <1>1, AfterBoth

-----------------------------------------------------------------------------
(* Every answer is what its run has produced; and before it is one, the    *)
(* run has it.                                                             *)
Producing == {"ingesting", "compiling", "starting", "running", "collecting"}
Settling == {"summarising", "asking", "answering"}

Truthful ==
  /\ Tidy(db, turn.n, now - 1, {})
  /\ phase \in Producing => Covered(db, turn.n)
  /\ phase \in {"collecting"} \cup Settling => Succeeded(db, turn.n)
  /\ phase \in Settling => turn.answer = AnswerOf(Owned(db, turn.n))
  /\ \A m \in Answers : Succeeded(db, m.run[2]) /\ m.text = AnswerOf(Owned(db, m.run[2]))

LEMMA AnswersAre == Answers = AnswersIn(db) /\ Answers' = AnswersIn(db')
BY DEF Answers, AnswersIn

(* After calls that are aside, and after none.                             *)
LEMMA TruthfulAside ==
  ASSUME Where, Truthful, Core(db') = Core(db), AnswersIn(db') = AnswersIn(db),
         now' = now \/ now' = now + 1, turn'.n = turn.n,
         phase' \in Settling => turn'.answer = turn.answer,
         phase' \in Producing => phase \in Producing,
         phase' \in Settling => phase \in Settling,
         phase' = "collecting" => phase = "collecting"
  PROVE  Truthful'
<1>1. \A n : /\ Owned(db', n) = Owned(db, n) /\ (Succeeded(db', n) <=> Succeeded(db, n))
             /\ Covered(db', n) <=> Covered(db, n)
  BY CoreSays
<1>2. Tidy(db', turn.n, now - 1, {})
  BY CoreSame DEF Truthful
<1>3. Tidy(db', turn.n, now' - 1, {})
  <2>1. turn.n \in Nat /\ turn.n <= turn.n /\ now - 1 \in Nat /\ now' - 1 \in Nat /\ now - 1 <= now' - 1
    BY DEF Where
  <2>2. QED
    BY <1>2, <2>1, TidyMore
<1>4. Answers' = Answers
  BY AnswersAre
<1>5. QED
  BY <1>1, <1>3, <1>4 DEF Truthful

(* In the middle of a turn.                                                *)
LEMMA TruthfulOn ==
  ASSUME SInv, Truthful, phase \in {"compiling", "starting", "running"},
         Tidy(db', turn.n, now, {}), Later(db, db', turn.n), now' = now + 1, turn'.n = turn.n,
         phase' \notin Settling, phase' \in Producing => Covered(db', turn.n),
         phase' = "collecting" => Succeeded(db', turn.n)
  PROVE  Truthful'
<1>1. Tidy(db, turn.n, now, {})
  <2>1. turn.n \in Nat /\ turn.n <= turn.n /\ now - 1 \in Nat /\ now \in Nat /\ now - 1 <= now
    BY DEF SInv, Where
  <2>2. QED
    BY <2>1, TidyMore DEF Truthful
<1>2. Answers' = Answers
  BY AnswersAre DEF Later
<1>3. \A m \in Answers : m.run[2] # turn.n
  BY DEF SInv, Spoken, Unsaid, Answers, Talk, Voice
<1>4. ASSUME NEW m \in Answers
      PROVE  Succeeded(db', m.run[2]) /\ m.text = AnswerOf(Owned(db', m.run[2]))
  <2>1. Succeeded(db, m.run[2]) /\ m.text = AnswerOf(Owned(db, m.run[2])) /\ m.run[2] # turn.n
    BY <1>3 DEF Truthful
  <2>2. Owned(db', m.run[2]) = Owned(db, m.run[2])
        /\ (Succeeded(db, m.run[2]) => Succeeded(db', m.run[2]))
    BY <1>1, <2>1, EarlierStays
  <2>3. QED
    BY <2>1, <2>2
<1>5. now' - 1 = now
  BY DEF SInv, Where
<1>6. QED
  BY <1>2, <1>4, <1>5 DEF Truthful

LEMMA DatabaseIsShaped == ASSUME SInv PROVE Shaped(db)
BY DEF SInv, Stored, Database, Shaped

LEMMA OneAside ==
  ASSUME SInv, NEW c, Aside(c), Do(<<c>>)
  PROVE  Core(db') = Core(db) /\ AnswersIn(db') = AnswersIn(db) /\ now' = now + 1
<1>1. db' = P!Call(db, c) /\ now' = now + 1
  BY AfterOne DEF Do
<1>2. Shaped(db) /\ c.op \in AsideOps
  BY DatabaseIsShaped DEF Aside
<1>3. Core(P!Call(db, c)) = Core(db) /\ AnswersIn(P!Call(db, c)) = AnswersIn(db)
  BY <1>2, AsideDoes
<1>4. QED
  BY <1>1, <1>3

LEMMA RememberAside ==
  ASSUME SInv, NEW kind, NEW text, NEW run, NEW embedded \in BOOLEAN,
         Do(Remember(Item(kind, text, run), embedded))
  PROVE  /\ Core(db') = Core(db) /\ now' = now + 1
         /\ kind # "assistant_answer" => AnswersIn(db') = AnswersIn(db)
<1> DEFINE item == Item(kind, text, run)
           c1 == C("persist_memory_item", item)
           c2 == C("persist_embedding", [id |-> <<"embedding", now>>, owner |-> item.id])
           c3 == C("attach_item", item)
           one == <<c1>>
           rest == IF embedded THEN <<c2, c3>> ELSE <<>>
           calls == Remember(item, embedded)
           S == {c1, c2, c3}
<1>1. calls = one \o rest
  BY DEF Remember
<1>2. \A c \in S : c.op \in AsideOps /\ (kind # "assistant_answer" => Aside(c))
  <2>1. item.kind = kind
    BY DEF Item
  <2> HIDE DEF item
  <2>2. QED
    BY <2>1 DEF C, Aside, AsideOps
<1> HIDE DEF c1, c2, c3
<1>3. one \in Seq(S) /\ rest \in Seq(S)
  <2>1. one \in Seq(S) /\ <<c2, c3>> \in Seq(S) /\ <<>> \in Seq(S)
    OBVIOUS
  <2>2. QED
    BY <2>1
<1> HIDE DEF one, rest, S
<1>4. one \o rest \in Seq(S)
  BY <1>3
<1> HIDE DEF calls
<1>5. calls \in Seq(S)
  BY <1>1, <1>4
<1>6. /\ Core(P!After(db, calls)) = Core(db)
      /\ (\A c \in S : Aside(c)) => AnswersIn(P!After(db, calls)) = AnswersIn(db)
  <2>1. \A c \in S : c.op \in AsideOps
    BY <1>2
  <2>2. QED
    BY <1>5, <2>1, DatabaseIsShaped, AsideAll
<1>7. db' = P!After(db, calls) /\ now' = now + 1
  BY DEF Do, calls
<1>8. QED
  BY <1>2, <1>6, <1>7

LEMMA TruthfulInit == Init => Truthful
<1> SUFFICES ASSUME Init PROVE Truthful
  OBVIOUS
<1>1. \A t \in P!Table : db[t] = {}
  BY DEF Init, P!Created, P!Table
<1>2. /\ db.nodes = {} /\ db.runs = {} /\ db.run_node_states = {} /\ db.artifacts = {}
      /\ db.memory_items = {}
  BY <1>1 DEF P!Table
<1>3. phase = "closed"
  BY DEF Init
<1>4. QED
  BY <1>2, <1>3 DEF Truthful, Tidy, Unique, Answers, Producing, Settling

LEMMA OpenTruthful == SInv /\ Truthful /\ Open => Truthful'
<1> SUFFICES ASSUME SInv, Truthful, Open PROVE Truthful'
  OBVIOUS
<1>1. /\ db' = P!After(db, <<Workspace>>) /\ phase' = "prompt" /\ now' = now
      /\ turn' = [NoTurn EXCEPT !.n = turn.n]
  BY DEF Open, GoTo
<1>2. turn'.n = turn.n
  BY <1>1 DEF NoTurn
<1>3. Workspace.op \in AsideOps /\ Aside(Workspace)
  BY DEF Workspace, C, Aside, AsideOps
<1>4. Core(db') = Core(db) /\ AnswersIn(db') = AnswersIn(db)
  <2>1. db' = P!Call(db, Workspace)
    BY <1>1, AfterOne
  <2>2. Core(P!Call(db, Workspace)) = Core(db) /\ AnswersIn(P!Call(db, Workspace)) = AnswersIn(db)
    BY <1>3, DatabaseIsShaped, AsideDoes
  <2>3. QED
    BY <2>1, <2>2
<1>5. QED
  BY <1>1, <1>2, <1>4, TruthfulAside DEF SInv, Producing, Settling

(* Where nothing is written.                                               *)
LEMMA TruthfulStill ==
  ASSUME SInv, Truthful, UNCHANGED <<db, now>>, turn'.n = turn.n,
         phase' \in Settling => turn'.answer = turn.answer,
         phase' \in Producing => phase \in Producing,
         phase' \in Settling => phase \in Settling,
         phase' = "collecting" => phase = "collecting"
  PROVE  Truthful'
<1>1. Core(db') = Core(db) /\ AnswersIn(db') = AnswersIn(db)
  BY DEF Core, AnswersIn
<1>2. QED
  BY <1>1, TruthfulAside DEF SInv

LEMMA QuitTruthful == SInv /\ Truthful /\ (Quit \/ Crash) => Truthful'
<1> SUFFICES ASSUME SInv, Truthful, Quit \/ Crash PROVE Truthful'
  OBVIOUS
<1>1. phase' = "closed" /\ UNCHANGED <<db, now, turn>>
  BY DEF Quit, Crash, GoTo
<1>2. QED
  BY <1>1, TruthfulStill DEF Producing, Settling

LEMMA ClearTruthful == SInv /\ Truthful /\ Clear => Truthful'
<1> SUFFICES ASSUME SInv, Truthful, Clear PROVE Truthful'
  OBVIOUS
<1> DEFINE g == P!LoadActiveGoal(db, W)
           c == C("update_goal", [g EXCEPT !.status = "closed", !.updated = now])
<1>1. /\ phase = "prompt" /\ UNCHANGED <<phase, turn>>
      /\ UNCHANGED <<db, now>> \/ Do(<<c>>)
  BY DEF Clear
<1>2. Aside(c)
  BY DEF C, Aside, AsideOps
<1> HIDE DEF c
<1>3. CASE UNCHANGED <<db, now>>
  BY <1>1, <1>3, TruthfulStill
<1>4. CASE Do(<<c>>)
  <2>1. Core(db') = Core(db) /\ AnswersIn(db') = AnswersIn(db) /\ now' = now + 1
    BY <1>2, <1>4, OneAside
  <2>2. QED
    BY <1>1, <2>1, TruthfulAside DEF SInv
<1>5. QED
  BY <1>1, <1>3, <1>4

LEMMA InjectTruthful == SInv /\ Truthful /\ Inject => Truthful'
<1> SUFFICES ASSUME SInv, Truthful, Inject PROVE Truthful'
  OBVIOUS
<1>1. /\ \E b \in BOOLEAN : Do(Remember(Item("human_note", Empty, None), b))
      /\ UNCHANGED <<phase, turn>>
  BY DEF Inject
<1>2. Core(db') = Core(db) /\ AnswersIn(db') = AnswersIn(db) /\ now' = now + 1
  BY <1>1, RememberAside
<1>3. QED
  BY <1>1, <1>2, TruthfulAside DEF SInv

(* A new turn has made nothing yet.                                        *)
LEMMA AskTruthful == ASSUME NEW p PROVE SInv /\ Truthful /\ Ask(p) => Truthful'
<1> SUFFICES ASSUME SInv, Truthful, Ask(p) PROVE Truthful'
  OBVIOUS
<1>1. phase' \in {"ingesting", "compiling"} /\ turn'.n = turn.n + 1 /\ UNCHANGED <<db, now>>
  BY DEF Ask, GoTo, NoTurn
<1>2. turn.n \in Nat /\ now - 1 \in Nat
  BY DEF SInv, Where
<1>3. Tidy(db, turn.n + 1, now - 1, {})
  <2>1. turn.n + 1 \in Nat /\ turn.n <= turn.n + 1 /\ now - 1 <= now - 1
    BY <1>2
  <2>2. QED
    BY <1>2, <2>1, TidyMore DEF Truthful
<1>4. Covered(db, turn.n + 1)
  <2>1. /\ \A a \in db.artifacts : a.run = <<"run", a.run[2]>> /\ a.run[2] \in 1..turn.n
        /\ \A s \in db.run_node_states : s.run[2] \in 1..turn.n /\ s.run = <<"run", s.run[2]>>
    BY DEF Truthful, Tidy, Row
  <2>2. turn.n + 1 \notin 1..turn.n
    BY <1>2
  <2>3. /\ \A a \in db.artifacts : a.run # <<"run", turn.n + 1>>
        /\ \A s \in db.run_node_states : s.run # <<"run", turn.n + 1>>
    BY <2>1, <2>2
  <2>4. QED
    BY <2>3 DEF Covered
<1>5. Answers' = Answers
  BY <1>1 DEF Answers
<1>6. QED
  BY <1>1, <1>3, <1>4, <1>5 DEF Truthful, Settling

LEMMA IngestTruthful == SInv /\ Truthful /\ Ingest => Truthful'
<1> SUFFICES ASSUME SInv, Truthful, Ingest PROVE Truthful'
  OBVIOUS
<1> DEFINE item == Item("source_passage", turn.prompt, None)
<1>1. /\ phase = "ingesting" /\ \E b \in BOOLEAN : Do(Remember(item, b))
      /\ \/ phase' \in {"compiling", "ingesting"} /\ turn' = [turn EXCEPT !.chunk = @ + 1]
         \/ phase' = "prompt" /\ turn' = turn
  BY DEF Ingest, GoTo, FailTurn
<1>2. turn'.n = turn.n
  BY <1>1 DEF SInv, Where, NoTurn
<1>3. Core(db') = Core(db) /\ AnswersIn(db') = AnswersIn(db) /\ now' = now + 1
  BY <1>1, RememberAside
<1>4. QED
  BY <1>1, <1>2, <1>3, TruthfulAside DEF SInv, Producing, Settling

LEMMA CompileFailsTruthful == ASSUME NEW a PROVE SInv /\ Truthful /\ CompileFails(a) => Truthful'
<1> SUFFICES ASSUME SInv, Truthful, CompileFails(a) PROVE Truthful'
  OBVIOUS
<1> DEFINE b == C("persist_goal", Goal(a))
           c == C("persist_compilation_failure", [workspace |-> W, prompt |-> EffectivePrompt])
           open == OpenGoal(a)
           last == <<c>>
           calls == open \o last
           S == {b, c}
<1>1. phase' = "prompt" /\ Do(calls) /\ turn' = turn
  BY DEF CompileFails, FailTurn, GoTo
<1>2. \A x \in S : x.op \in AsideOps /\ Aside(x)
  BY DEF C, Aside, AsideOps
<1>3. open = <<b>> \/ open = <<>>
  BY DEF OpenGoal
<1> HIDE DEF b, c, open
<1>4. open \in Seq(S) /\ last \in Seq(S)
  <2>1. <<b>> \in Seq(S) /\ <<>> \in Seq(S) /\ <<c>> \in Seq(S)
    OBVIOUS
  <2>2. QED
    BY <1>3, <2>1
<1> HIDE DEF last, S
<1>5. calls \in Seq(S)
  BY <1>4
<1> HIDE DEF calls
<1>6. /\ Core(P!After(db, calls)) = Core(db) /\ AnswersIn(P!After(db, calls)) = AnswersIn(db)
  BY <1>2, <1>5, DatabaseIsShaped, AsideAll
<1>7. db' = P!After(db, calls) /\ now' = now + 1
  BY <1>1 DEF Do
<1>8. QED
  BY <1>1, <1>6, <1>7, TruthfulAside DEF SInv, Producing, Settling

LEMMA SummariseTruthful == SInv /\ Truthful /\ Summarise => Truthful'
<1> SUFFICES ASSUME SInv, Truthful, Summarise PROVE Truthful'
  OBVIOUS
<1> DEFINE a == CHOOSE x \in Summaries : \A y \in Summaries : x.at <= y.at
           item == Item("source_passage", a.content, RunId)
<1>1. /\ phase = "summarising"
      /\ \/ phase' = "answering" /\ UNCHANGED <<db, turn, now>>
         \/ Do(Remember(item, TRUE)) /\ turn' = [turn EXCEPT !.stored = @ \cup {a.id}] /\ phase' = phase
         \/ Do(Remember(item, FALSE)) /\ phase' = "prompt" /\ turn' = turn
  BY DEF Summarise, GoTo, FailTurn
<1>2. turn'.n = turn.n /\ turn'.answer = turn.answer
  BY <1>1 DEF SInv, Where, NoTurn
<1>3. CASE UNCHANGED <<db, now>> /\ phase' = "answering"
  BY <1>1, <1>2, <1>3, TruthfulStill DEF Producing, Settling
<1>4. CASE /\ \E b \in BOOLEAN : Do(Remember(item, b))
           /\ phase' = phase \/ phase' = "prompt"
  <2>1. Core(db') = Core(db) /\ AnswersIn(db') = AnswersIn(db) /\ now' = now + 1
    BY <1>4, RememberAside
  <2>2. QED
    BY <1>1, <1>2, <1>4, <2>1, TruthfulAside DEF SInv, Producing, Settling
<1>5. QED
  BY <1>1, <1>3, <1>4

LEMMA StoreQuestionTruthful == SInv /\ Truthful /\ StoreQuestion => Truthful'
<1> SUFFICES ASSUME SInv, Truthful, StoreQuestion PROVE Truthful'
  OBVIOUS
<1>1. /\ phase = "asking" /\ phase' \in {"answering", "closed"} /\ turn' = turn
      /\ \E b \in BOOLEAN : Do(Remember(Item("user_question", turn.prompt, RunId), b))
  BY DEF StoreQuestion, GoTo, Dies
<1>2. Core(db') = Core(db) /\ AnswersIn(db') = AnswersIn(db) /\ now' = now + 1
  BY <1>1, RememberAside
<1>3. QED
  BY <1>1, <1>2, TruthfulAside DEF SInv, Producing, Settling

LEMMA LinkTruthful == SInv /\ Truthful /\ (LinkFollowsUp \/ LinkProduced) => Truthful'
<1> SUFFICES ASSUME SInv, Truthful, LinkFollowsUp \/ LinkProduced PROVE Truthful'
  OBVIOUS
<1>1. /\ phase' \in {"producing", "prompt"} /\ turn' = turn
      /\ \/ UNCHANGED <<db, now>>
         \/ \E type, from, to : Do(<<WorkspaceEdge(type, from, to)>>)
  BY DEF LinkFollowsUp, LinkProduced, GoTo
<1>2. CASE UNCHANGED <<db, now>>
  BY <1>1, <1>2, TruthfulStill DEF Producing, Settling
<1>3. CASE \E type, from, to : Do(<<WorkspaceEdge(type, from, to)>>)
  <2>1. PICK type, from, to : Do(<<WorkspaceEdge(type, from, to)>>)
    BY <1>3
  <2>2. Aside(WorkspaceEdge(type, from, to))
    BY DEF WorkspaceEdge, C, Aside, AsideOps
  <2>3. Core(db') = Core(db) /\ AnswersIn(db') = AnswersIn(db) /\ now' = now + 1
    BY <2>1, <2>2, OneAside
  <2>4. QED
    BY <1>1, <2>3, TruthfulAside DEF SInv, Producing, Settling
<1>4. QED
  BY <1>1, <1>2, <1>3

-----------------------------------------------------------------------------
(* The rest of a turn.                                                     *)
LEMMA HereAndNow ==
  ASSUME SInv, Truthful
  PROVE  /\ Shaped(db) /\ turn.n \in Nat /\ now \in Nat /\ Tidy(db, turn.n, now, {})
         /\ phase \notin {"closed", "prompt"} => turn.n \in Nat \ {0}
         /\ RunId = <<"run", turn.n>>
<1>1. turn.n \in Nat /\ turn.n <= turn.n /\ now - 1 \in Nat /\ now \in Nat /\ now - 1 <= now
  BY DEF SInv, Where
<1>2. Tidy(db, turn.n, now, {})
  BY <1>1, TidyMore DEF Truthful
<1>3. QED
  BY <1>1, <1>2, DatabaseIsShaped DEF SInv, Where, RunId

LEMMA CollectTruthful == SInv /\ Truthful /\ Collect => Truthful'
<1> SUFFICES ASSUME SInv, Truthful, Collect PROVE Truthful'
  OBVIOUS
<1> DEFINE answer == AnswerOf(Made(db, RunId, {"final"}))
<1>1. /\ phase = "collecting" /\ phase' \in {"asking", "summarising"} /\ UNCHANGED <<db, now>>
      /\ turn' = [turn EXCEPT !.answer = answer]
  BY DEF Collect, GoTo
<1>2. answer = AnswerOf(Owned(db, turn.n))
  <2>1. /\ Succeeded(db, turn.n) /\ Covered(db, turn.n) /\ Tidy(db, turn.n, now - 1, {})
    BY <1>1 DEF Truthful, Producing
  <2>2. now - 1 \in Nat /\ \A a \in db.artifacts : a.at \in 0..now-1
    BY DEF SInv, Where, Stored, Database
  <2>3. AnswerOf(Made(db, <<"run", turn.n>>, {"final"})) = AnswerOf(Owned(db, turn.n))
    BY <2>1, <2>2, CollectsOwned
  <2>4. QED
    BY <2>3 DEF RunId
<1> HIDE DEF answer
<1>3. turn'.n = turn.n /\ turn'.answer = answer
  BY <1>1 DEF SInv, Where, NoTurn
<1>4. /\ \A n : /\ Owned(db', n) = Owned(db, n) /\ (Succeeded(db', n) <=> Succeeded(db, n))
      /\ Tidy(db', turn.n, now' - 1, {}) /\ Answers' = Answers
  <2>1. Core(db') = Core(db) /\ Answers' = Answers
    BY <1>1 DEF Core, Answers
  <2>2. QED
    BY <1>1, <2>1, CoreSays, CoreSame DEF Truthful
<1>5. QED
  BY <1>1, <1>2, <1>3, <1>4 DEF Truthful, Producing, Settling

LEMMA StoreAnswerTruthful == SInv /\ Truthful /\ StoreAnswer => Truthful'
<1> SUFFICES ASSUME SInv, Truthful, StoreAnswer PROVE Truthful'
  OBVIOUS
<1> DEFINE kind == "assistant_answer"
           item == Item(kind, turn.answer, RunId)
<1>1. /\ phase = "answering" /\ phase' \in {"linking", "closed"}
      /\ turn' = [turn EXCEPT !.memory = item.id] \/ turn' = turn
      /\ \E b \in BOOLEAN : Do(Remember(item, b))
  BY DEF StoreAnswer, GoTo, Dies
<1>2. turn'.n = turn.n
  BY <1>1 DEF SInv, Where, NoTurn
<1>3. kind \in Voice /\ item.kind = kind /\ item.run = RunId /\ item.text = turn.answer
  BY DEF Voice, Item
<1>4. Core(db') = Core(db) /\ now' = now + 1 /\ Talk' = Talk \cup {item}
  <2> HIDE DEF kind
  <2>1. PICK b \in BOOLEAN : Do(Remember(item, b))
    BY <1>1
  <2>2. Core(db') = Core(db) /\ now' = now + 1
    BY <2>1, RememberAside
  <2>3. Talk' = Talk \cup {item}
    BY <1>3, <2>1, SaidIsStored DEF SInv
  <2>4. QED
    BY <2>2, <2>3
<1>5. Answers' = Answers \cup {item}
  <2>1. Answers = {m \in Talk : m.kind = kind} /\ Answers' = {m \in Talk' : m.kind = kind}
    BY DEF Answers, Talk, Voice
  <2> HIDE DEF kind, item
  <2>2. QED
    BY <1>3, <1>4, <2>1
<1>6. /\ \A n : /\ Owned(db', n) = Owned(db, n) /\ (Succeeded(db', n) <=> Succeeded(db, n))
      /\ Tidy(db', turn.n, now, {})
  BY <1>4, CoreSays, CoreSame, HereAndNow
<1>7. now' - 1 = now
  BY <1>4 DEF SInv, Where
<1>8. item.run[2] = turn.n /\ Succeeded(db, turn.n) /\ item.text = AnswerOf(Owned(db, turn.n))
  <2> HIDE DEF item
  <2>1. QED
    BY <1>1, <1>3 DEF Truthful, Settling, RunId
<1> HIDE DEF item, kind
<1>9. \A m \in Answers' : Succeeded(db', m.run[2]) /\ m.text = AnswerOf(Owned(db', m.run[2]))
  BY <1>5, <1>6, <1>8 DEF Truthful
<1>10. QED
  BY <1>1, <1>2, <1>6, <1>7, <1>9 DEF Truthful, Producing, Settling

(* Mild calls between compiling and collecting.                            *)
LEMMA TruthfulMild ==
  ASSUME SInv, Truthful, phase \in {"compiling", "starting", "running"},
         NEW calls, Do(calls), AllMild(calls, db, turn.n, now, {}), turn'.n = turn.n,
         phase' \in {"starting", "running"}
  PROVE  Truthful'
<1>1. /\ turn.n \in Nat \ {0} /\ now \in Nat /\ Shaped(db) /\ Tidy(db, turn.n, now, {})
      /\ db' = P!After(db, calls) /\ now' = now + 1
  BY HereAndNow DEF Do
<1>2. Reached(db, db', turn.n, now, {})
  BY <1>1, AllReached
<1>3. Covered(db, turn.n)
  BY DEF Truthful, Producing
<1>4. Covered(db', turn.n)
  BY <1>1, <1>2, <1>3, CoveredStill DEF Reached
<1>5. QED
  BY <1>1, <1>2, <1>4, TruthfulOn DEF Reached, Settling

LEMMA CompileTruthful ==
  ASSUME NEW a \in {"new", "continue"}, NEW shape \in Shape
  PROVE  SInv /\ Truthful /\ Compile(a, shape) => Truthful'
<1> SUFFICES ASSUME SInv, Truthful, Compile(a, shape) PROVE Truthful'
  OBVIOUS
<1> DEFINE open == OpenGoal(a)
           g == Graph(shape, Goal(a).id)
           c0 == C("persist_goal", Goal(a))
           c1 == C("persist_task_graph", g)
           c2 == WorkspaceEdge("supports_goal", GraphId(turn.n), Goal(a).id)
           c3 == C("update_goal", UpdatedGoal(a))
           rest == <<c1, c2, c3>>
           calls == open \o rest
           n == turn.n
           t == now
<1>1. /\ phase = "compiling" /\ Do(calls) /\ turn' = [turn EXCEPT !.graph = GraphId(turn.n)]
      /\ phase' = "starting"
  BY DEF Compile, GoTo
<1>2. turn'.n = turn.n
  BY <1>1 DEF SInv, Where, NoTurn
<1>3. Aside(c0) /\ Aside(c2) /\ Aside(c3)
  BY DEF WorkspaceEdge, C, Aside, AsideOps
<1>4. /\ \A x \in g.nodes : x.graph = GraphId(n) /\ x.id[2] = n
      /\ Unique(g.nodes \ db.nodes)
  <2> DEFINE node(i) == [id |-> <<"node", turn.n, i>>, graph |-> GraphId(turn.n),
                         kind |-> shape[i].kind, key |-> shape[i].key,
                         cache |-> shape[i].cache, summary |-> shape[i].summary,
                         rank |-> shape[i].rank]
  <2>1. g.nodes = {node(i) : i \in DOMAIN shape}
    BY DEF Graph
  <2>2. \A i : node(i).id = <<"node", turn.n, i>> /\ node(i).graph = GraphId(turn.n)
    OBVIOUS
  <2> HIDE DEF node, g
  <2>3. \A x \in g.nodes : \E i : x = node(i)
    BY <2>1
  <2>4. Unique(g.nodes)
    <3> SUFFICES ASSUME NEW x \in g.nodes, NEW y \in g.nodes, x.id = y.id PROVE x = y
      BY DEF Unique
    <3>1. PICK i : x = node(i)
      BY <2>3
    <3>2. PICK j : y = node(j)
      BY <2>3
    <3>3. i = j
      BY <2>2, <3>1, <3>2
    <3>4. QED
      BY <3>1, <3>2, <3>3
  <2>5. QED
    BY <2>2, <2>3, <2>4 DEF Unique
<1>5. OfTurn(c1, db, n, t, {}) /\ Mild(c1, db, n, t)
  <2>1. c1.op = "persist_task_graph" /\ c1.row = g
    BY DEF C
  <2> HIDE DEF c1, g, n, t
  <2>2. QED
    BY <1>4, <2>1 DEF OfTurn, Mild
<1>6. open = <<c0>> \/ open = <<>>
  BY DEF OpenGoal
<1> HIDE DEF c0, c1, c2, c3, open
<1>7. AllMild(open, db, n, t, {})
  BY <1>3, <1>6, AsideIsMild, OneIsMild, NoneAreMild
<1>8. AllMild(rest, db, n, t, {})
  BY <1>3, <1>5, AsideIsMild, ThreeAreMild
<1> HIDE DEF rest
<1>9. AllMild(calls, db, n, t, {})
  BY <1>7, <1>8, ConcatIsMild
<1> HIDE DEF calls
<1>10. QED
  BY <1>1, <1>2, <1>9, TruthfulMild

LEMMA StartRunTruthful == SInv /\ Truthful /\ StartRun => Truthful'
<1> SUFFICES ASSUME SInv, Truthful, StartRun PROVE Truthful'
  OBVIOUS
<1> DEFINE run == [id |-> RunId, workspace |-> W, graph |-> turn.graph, status |-> "pending",
                   pc |-> None]
           row == [run EXCEPT !.status = "running"]
           c1 == C("create_run", run)
           c2 == C("update_run", row)
           one == <<c1>>
           last == <<c2>>
           head == one \o StatesCreated
           calls == head \o last
           n == turn.n
           t == now
<1>1. /\ phase = "starting" /\ phase' = "running" /\ turn' = [turn EXCEPT !.run = RunId]
      /\ Do(calls)
  BY DEF StartRun, GoTo
<1>2. turn'.n = turn.n /\ turn.graph = GraphId(turn.n) /\ RunId = <<"run", turn.n>>
  BY <1>1 DEF SInv, Where, NoTurn, Late, RunId
<1>3. P!Has(db, "task_graphs", turn.graph)
  <2>1. <<"task_graphs", turn.graph>> \in Known
    BY <1>1 DEF Known, KnownIn
  <2>2. QED
    BY <2>1 DEF SInv, Stored, Holds
<1>4. /\ OfTurn(c1, db, n, t, {}) /\ Mild(c1, db, n, t)
      /\ OfTurn(c2, db, n, t, {}) /\ Mild(c2, db, n, t)
  <2>1. /\ c1.op = "create_run" /\ c1.row.id = RunId /\ c1.row.graph = turn.graph
        /\ c2.op = "update_run" /\ c2.row.id = RunId /\ c2.row.graph = turn.graph
    BY DEF C
  <2> HIDE DEF c1, c2, n, t
  <2>2. QED
    BY <1>2, <2>1 DEF OfTurn, Mild, n
<1>5. PICK S : /\ StatesCreated \in Seq(S)
               /\ \A c \in S : \E x \in Nodes : c = C("create_run_node_state", State(x.id))
  BY <1>3, StatesAreCreated DEF SInv
<1>6. \A c \in S : OfTurn(c, db, n, t, {}) /\ Mild(c, db, n, t)
  <2> SUFFICES ASSUME NEW c \in S PROVE OfTurn(c, db, n, t, {}) /\ Mild(c, db, n, t)
    OBVIOUS
  <2>1. PICK x \in Nodes : c = C("create_run_node_state", State(x.id))
    BY <1>5
  <2>2. x \in db.nodes /\ x.graph = GraphId(n)
    BY <1>2, <1>3 DEF Nodes, P!LoadTaskGraph, P!OfGraph
  <2>3. c.op = "create_run_node_state" /\ c.row = State(x.id)
    BY <2>1 DEF C
  <2>4. Row(db, State(x.id), n, {}) /\ State(x.id).output = None
    BY <1>2, <2>2 DEF Row, State, RowFields
  <2> HIDE DEF n, t
  <2>5. QED
    BY <2>3, <2>4 DEF OfTurn, Mild
<1> HIDE DEF c1, c2
<1>7. AllMild(one, db, n, t, {}) /\ AllMild(last, db, n, t, {})
  BY <1>4, OneIsMild
<1>8. AllMild(StatesCreated, db, n, t, {})
  BY <1>5, <1>6 DEF AllMild
<1> HIDE DEF one, last
<1>9. AllMild(head, db, n, t, {})
  BY <1>7, <1>8, ConcatIsMild
<1> HIDE DEF head
<1>10. AllMild(calls, db, n, t, {})
  BY <1>7, <1>9, ConcatIsMild
<1> HIDE DEF calls
<1>11. QED
  BY <1>1, <1>2, <1>10, TruthfulMild

(* The run's row is the one of this turn.                                  *)
LEMMA RunOfThis ==
  ASSUME SInv, Truthful, phase = "running"
  PROVE  /\ P!LoadRun(db, RunId) \in db.runs /\ P!LoadRun(db, RunId).id = <<"run", turn.n>>
         /\ P!LoadRun(db, RunId).graph = GraphId(turn.n)
         /\ DOMAIN P!LoadRun(db, RunId) = RunFields
         /\ turn.graph = GraphId(turn.n) /\ P!Has(db, "task_graphs", GraphId(turn.n))
         /\ P!Has(db, "runs", <<"run", turn.n>>)
<1> DEFINE r == P!LoadRun(db, RunId)
<1>1. r \in db.runs /\ r.id = <<"run", turn.n>>
  BY RunIsThere DEF SInv, RunId
<1> HIDE DEF r
<1>2. r.graph = GraphId(turn.n) /\ DOMAIN r = RunFields /\ P!Has(db, "task_graphs", r.graph)
  BY <1>1 DEF Truthful, Tidy, SInv, Stored, Database
<1>3. turn.graph = GraphId(turn.n)
  BY DEF SInv, Where, Late
<1>4. QED
  BY <1>1, <1>2, <1>3 DEF r, P!Has

(* Updates of that row are mild.                                           *)
LEMMA RunUpdateIsMild ==
  ASSUME SInv, Truthful, phase = "running", NEW row, row.id = P!LoadRun(db, RunId).id,
         row.graph = P!LoadRun(db, RunId).graph
  PROVE  /\ OfTurn(C("update_run", row), db, turn.n, now, {})
         /\ Mild(C("update_run", row), db, turn.n, now)
<1> DEFINE c == C("update_run", row)
<1>1. c.op = "update_run" /\ c.row.id = <<"run", turn.n>> /\ c.row.graph = GraphId(turn.n)
  BY RunOfThis DEF C
<1> HIDE DEF c
<1>2. OfTurn(c, db, turn.n, now, {}) /\ Mild(c, db, turn.n, now)
  BY <1>1 DEF OfTurn, Mild
<1>3. QED
  BY <1>2 DEF c

LEMMA FinishRunTruthful == SInv /\ Truthful /\ FinishRun => Truthful'
<1> SUFFICES ASSUME SInv, Truthful, FinishRun PROVE Truthful'
  OBVIOUS
<1> DEFINE r == P!LoadRun(db, RunId)
           row == [r EXCEPT !.status = "succeeded"]
           c == C("update_run", row)
           calls == <<c>>
<1>1. /\ phase = "running" /\ phase' = "collecting" /\ Do(calls) /\ turn' = turn
  BY DEF FinishRun, GoTo
<1>2. /\ DOMAIN r = RunFields /\ r.id = <<"run", turn.n>> /\ r \in db.runs
  BY <1>1, RunOfThis
<1> HIDE DEF r
<1>3. row.id = r.id /\ row.graph = r.graph /\ row.status = "succeeded"
  BY <1>2 DEF RunFields
<1> HIDE DEF row
<1>4. OfTurn(c, db, turn.n, now, {}) /\ Mild(c, db, turn.n, now)
  BY <1>1, <1>3, RunUpdateIsMild DEF r
<1>5. /\ turn.n \in Nat \ {0} /\ now \in Nat /\ Shaped(db) /\ Tidy(db, turn.n, now, {})
      /\ db' = P!After(db, calls) /\ now' = now + 1
  BY <1>1, HereAndNow DEF Do
<1>6. Succeeded(db', turn.n)
  <2>1. db' = P!Call(db, c)
    BY <1>5, AfterOne
  <2>2. db' = P!Update(db, "runs", row)
    BY <2>1 DEF P!Call, P!UpdateRun, C
  <2>3. "runs" \in P!Table
    BY DEF P!Table
  <2>4. db'["runs"] = {IF x.id = row.id THEN row ELSE x : x \in db["runs"]}
    BY <1>5, <2>2, <2>3, UpdateDoes
  <2>5. row \in db'.runs
    BY <1>2, <1>3, <2>4
  <2>6. QED
    BY <1>2, <1>3, <2>5 DEF Succeeded
<1> HIDE DEF c
<1>7. AllMild(calls, db, turn.n, now, {})
  BY <1>4, OneIsMild
<1> HIDE DEF calls
<1>8. Reached(db, db', turn.n, now, {})
  BY <1>5, <1>7, AllReached
<1>9. Covered(db, turn.n)
  BY <1>1 DEF Truthful, Producing
<1>10. Covered(db', turn.n)
  BY <1>5, <1>8, <1>9, CoveredStill DEF Reached
<1>11. QED
  BY <1>1, <1>5, <1>6, <1>8, <1>10, TruthfulOn DEF Reached, Settling

-----------------------------------------------------------------------------
(* A node of a turn.                                                       *)
LEMMA NodeOfThis ==
  ASSUME SInv, Truthful, phase = "running", NEW s \in States, Ready(s)
  PROVE  /\ s \in db.run_node_states /\ DOMAIN s = RowFields /\ s.run = <<"run", turn.n>>
         /\ s.id = <<s.run, s.node>> /\ s.node[2] = turn.n
         /\ NodeOf(s) \in db.nodes /\ NodeOf(s).id = s.node /\ NodeOf(s).graph = GraphId(turn.n)
         /\ P!Has(db, "nodes", s.node)
         /\ IsFinal(db, turn.n, s.node) <=> NodeOf(s).kind = "final"
         /\ \A x \in db.run_node_states : x.id = s.id => x.output = None
<1>1. s \in db.run_node_states /\ s.run = <<"run", turn.n>> /\ s.status = "pending"
  BY DEF States, P!ListRunNodeStates, P!OfRun, RunId, Ready
<1>2. Row(db, s, turn.n, {})
  <2>1. s.run[2] = turn.n
    BY <1>1
  <2>2. Row(db, s, s.run[2], {})
    BY <1>1 DEF Truthful, Tidy
  <2>3. QED
    BY <2>1, <2>2
<1>3. DOMAIN s = RowFields /\ s.id = <<s.run, s.node>> /\ s.output = None
  BY <1>1, <1>2 DEF Row
<1>4. \A x \in db.run_node_states : x.id = s.id => x.output = None
  BY <1>1, <1>3 DEF Truthful, Tidy, Unique
<1>5. PICK y \in db.nodes : y.id = s.node /\ y.graph = GraphId(turn.n)
  BY <1>2 DEF Row
<1>6. \A x \in db.nodes : x.id = s.node <=> x = y
  BY <1>5 DEF Truthful, Tidy, Unique
<1>7. Nodes = {x \in db.nodes : x.graph = GraphId(turn.n)}
  BY RunOfThis DEF Nodes, P!LoadTaskGraph, P!OfGraph
<1>8. NodeOf(s) = y
  <2>1. y \in Nodes /\ \A x \in Nodes : x.id = s.node <=> x = y
    BY <1>5, <1>6, <1>7
  <2> HIDE DEF Nodes
  <2>2. QED
    BY <2>1 DEF NodeOf
<1>9. s.node[2] = turn.n
  <2>1. y.graph = GraphId(y.id[2])
    BY DEF Truthful, Tidy
  <2>2. QED
    BY <1>5, <2>1 DEF GraphId
<1>10. IsFinal(db, turn.n, s.node) <=> y.kind = "final"
  BY <1>5, <1>6 DEF IsFinal
<1>11. QED
  BY <1>1, <1>3, <1>4, <1>5, <1>8, <1>9, <1>10 DEF P!Has

LEMMA SavedIsMild ==
  ASSUME SInv, Truthful, phase = "running", NEW s \in States, Ready(s), NEW status
  PROVE  /\ OfTurn(Saved(s, status, None), db, turn.n, now, {})
         /\ Mild(Saved(s, status, None), db, turn.n, now)
<1> DEFINE row == [s EXCEPT !.status = status, !.output = None]
           c == Saved(s, status, None)
<1>1. c.op = "update_run_node_state" /\ c.row = row
  BY DEF Saved, C
<1>2. /\ DOMAIN s = RowFields /\ s.run = <<"run", turn.n>> /\ s.id = <<s.run, s.node>>
      /\ NodeOf(s) \in db.nodes /\ NodeOf(s).id = s.node /\ NodeOf(s).graph = GraphId(turn.n)
      /\ \A x \in db.run_node_states : x.id = s.id => x.output = None
  BY NodeOfThis
<1>3. /\ DOMAIN row = RowFields /\ row.run = s.run /\ row.id = s.id /\ row.node = s.node
      /\ row.output = None
  BY <1>2 DEF RowFields
<1> HIDE DEF row
<1>4. Row(db, row, turn.n, {})
  BY <1>2, <1>3 DEF Row
<1> HIDE DEF c
<1>5. OfTurn(c, db, turn.n, now, {}) /\ Mild(c, db, turn.n, now)
  BY <1>1, <1>2, <1>3, <1>4 DEF OfTurn, Mild
<1>6. QED
  BY <1>5 DEF c

LEMMA BeginIsMild ==
  ASSUME SInv, Truthful, phase = "running", NEW s \in States, Ready(s)
  PROVE  AllMild(Begin(s), db, turn.n, now, {})
<1> DEFINE r == P!LoadRun(db, RunId)
           row == [r EXCEPT !.pc = s.node]
           c1 == C("update_run", row)
           c2 == Checkpoint(1, s, InStatus({"succeeded"}), {})
           c3 == Saved(s, "running", None)
           n == turn.n
           t == now
<1>1. Begin(s) = <<c1, c2, c3>>
  BY DEF Begin
<1>2. row.id = r.id /\ row.graph = r.graph
  <2>1. DOMAIN r = RunFields
    BY RunOfThis
  <2> HIDE DEF r
  <2>2. QED
    BY <2>1 DEF RunFields
<1> HIDE DEF row
<1>3. OfTurn(c1, db, n, t, {}) /\ Mild(c1, db, n, t)
  BY <1>2, RunUpdateIsMild
<1>4. OfTurn(c2, db, n, t, {}) /\ Mild(c2, db, n, t)
  <2>1. Aside(c2)
    BY DEF Checkpoint, C, Aside, AsideOps
  <2>2. QED
    BY <2>1, AsideIsMild
<1>5. OfTurn(c3, db, n, t, {}) /\ Mild(c3, db, n, t)
  BY SavedIsMild
<1> HIDE DEF c1, c2, c3, n, t
<1>6. AllMild(<<c1, c2, c3>>, db, n, t, {})
  BY <1>3, <1>4, <1>5, ThreeAreMild
<1>7. QED
  BY <1>1, <1>6 DEF n, t

LEMMA ArtifactIsOfTurn ==
  ASSUME SInv, Truthful, phase = "running", NEW s \in States, Ready(s), NEW port, NEW content
  PROVE  LET c == C("persist_artifact", Artifact(s, port, content)) IN
         /\ OfTurn(c, db, turn.n, now, {})
         /\ NodeOf(s).kind # "final" /\ port # "output" => Mild(c, db, turn.n, now)
<1> DEFINE a == Artifact(s, port, content)
           c == C("persist_artifact", a)
<1>1. c.op = "persist_artifact" /\ c.row = a
  BY DEF C
<1>2. a.id = <<"artifact", port, now>> /\ a.run = RunId /\ a.node = s.node
  BY DEF Artifact
<1>3. /\ s.node[2] = turn.n /\ P!Has(db, "nodes", s.node) /\ turn.n \in 0..turn.n
      /\ RunId = <<"run", turn.n>>
      /\ IsFinal(db, turn.n, s.node) <=> NodeOf(s).kind = "final"
  BY NodeOfThis, HereAndNow
<1> HIDE DEF a
<1>4. a.id = <<"artifact", a.id[2], now>> /\ a.id[2] = port
  BY <1>2
<1> HIDE DEF c
<1>5. OfTurn(c, db, turn.n, now, {})
  <2>1. /\ c.op = "persist_artifact" /\ c.row.run = <<"run", turn.n>>
        /\ c.row.node[2] \in 0..turn.n
        /\ c.row.id = <<"artifact", c.row.id[2], now>> /\ P!Has(db, "nodes", c.row.node)
    BY <1>1, <1>2, <1>3, <1>4
  <2>2. QED
    BY <2>1 DEF OfTurn
<1>6. NodeOf(s).kind # "final" /\ port # "output" => Mild(c, db, turn.n, now)
  <2> SUFFICES ASSUME NodeOf(s).kind # "final", port # "output"
               PROVE  Mild(c, db, turn.n, now)
    OBVIOUS
  <2>1. /\ P!Has(db, "nodes", c.row.node) /\ ~IsFinal(db, turn.n, c.row.node)
    BY <1>1, <1>2, <1>3
  <2>2. c.row.id # <<"artifact", "output", now>>
    BY <1>1, <1>4
  <2>3. QED
    BY <1>1, <2>1, <2>2 DEF Mild
<1>7. QED
  BY <1>5, <1>6 DEF c, a

LEMMA NodeRaisesTruthful ==
  ASSUME NEW s \in States
  PROVE  SInv /\ Truthful /\ NodeRaises(s) => Truthful'
<1> SUFFICES ASSUME SInv, Truthful, NodeRaises(s) PROVE Truthful'
  OBVIOUS
<1> DEFINE r == P!LoadRun(db, RunId)
           row == [r EXCEPT !.pc = s.node, !.status = "failed"]
           c1 == Saved(s, "failed", None)
           c2 == C("update_run", row)
           begin == Begin(s)
           n == turn.n
           t == now
<1>1. phase = "running" /\ Ready(s) /\ phase' = "prompt" /\ turn' = turn
  BY DEF NodeRaises, FailTurn, GoTo
<1>2. PICK done \in Attempts(s) : Do(begin \o done \o <<c1, c2>>)
  BY DEF NodeRaises
<1>3. AllOfTurn(done, db, n, t, {})
  <2> DEFINE prompt == Artifact(s, "prompt", Input(s))
             asked == C("persist_artifact", prompt)
             told == ModelCall(s, prompt.id)
             output(answer) == C("persist_artifact", Artifact(s, "output", answer))
             one == <<asked>>
             two == <<told>>
             three(answer) == <<output(answer)>>
  <2>1. \/ done = <<>> \/ done = one
        \/ \E answer : done = one \o <<told, output(answer)>>
    BY DEF Attempts
  <2>2. /\ OfTurn(asked, db, n, t, {}) /\ \A answer : OfTurn(output(answer), db, n, t, {})
    BY <1>1, ArtifactIsOfTurn
  <2>3. OfTurn(told, db, n, t, {})
    <3>1. Aside(told)
      BY DEF ModelCall, C, Aside, AsideOps
    <3>2. QED
      BY <3>1, AsideIsMild
  <2> HIDE DEF asked, told, output, n, t
  <2>4. AllOfTurn(one, db, n, t, {})
    BY <2>2, OneIsOfTurn
  <2>5. ASSUME NEW answer PROVE AllOfTurn(<<told, output(answer)>>, db, n, t, {})
    <3> DEFINE S == {told, output(answer)}
               calls == <<told, output(answer)>>
    <3>1. calls \in Seq(S) /\ \A c \in S : OfTurn(c, db, n, t, {})
      BY <2>2, <2>3
    <3> HIDE DEF S, calls
    <3>2. AllOfTurn(calls, db, n, t, {})
      BY <3>1 DEF AllOfTurn
    <3>3. QED
      BY <3>2 DEF calls
  <2> HIDE DEF one
  <2>6. \A answer : AllOfTurn(one \o <<told, output(answer)>>, db, n, t, {})
    BY <2>4, <2>5, ConcatIsOfTurn
  <2>7. QED
    BY <2>1, <2>4, <2>6, NoneAreOfTurn
<1>4. row.id = r.id /\ row.graph = r.graph
  <2>1. DOMAIN r = RunFields
    BY <1>1, RunOfThis
  <2> HIDE DEF r
  <2>2. QED
    BY <2>1 DEF RunFields
<1> HIDE DEF row
<1>5. OfTurn(c2, db, n, t, {}) /\ Mild(c2, db, n, t)
  BY <1>1, <1>4, RunUpdateIsMild
<1>6. OfTurn(c1, db, n, t, {}) /\ Mild(c1, db, n, t)
  BY <1>1, SavedIsMild
<1>7. AllMild(begin, db, n, t, {})
  BY <1>1, BeginIsMild
<1> DEFINE last == <<c1, c2>>
           head == begin \o done
           calls == head \o last
<1> HIDE DEF c1, c2, begin
<1>8. AllMild(last, db, n, t, {})
  BY <1>5, <1>6, TwoAreMild
<1> HIDE DEF last
<1>9. AllOfTurn(head, db, n, t, {})
  BY <1>3, <1>7, MildIsOfTurn, ConcatIsOfTurn
<1> HIDE DEF head
<1>10. AllOfTurn(calls, db, n, t, {})
  BY <1>8, <1>9, MildIsOfTurn, ConcatIsOfTurn
<1>11. Do(calls)
  BY <1>2 DEF head, last
<1> HIDE DEF calls
<1>12. /\ turn.n \in Nat \ {0} /\ now \in Nat /\ Shaped(db) /\ Tidy(db, turn.n, now, {})
       /\ db' = P!After(db, calls) /\ now' = now + 1
  BY <1>1, <1>11, HereAndNow DEF Do
<1>13. PICK S : calls \in Seq(S) /\ \A c \in S : OfTurn(c, db, n, t, {})
  BY <1>10 DEF AllOfTurn
<1>14. Tidy(db', turn.n, now, {}) /\ Later(db, db', turn.n)
  BY <1>12, <1>13, CallsOfTurn
<1>15. QED
  BY <1>1, <1>12, <1>14, TruthfulOn DEF Settling, Producing

(* The last calls of a node, after others that are mild.                   *)
LEMMA EndIsSequence ==
  ASSUME NEW s, NEW a, NEW status, NEW embedded \in BOOLEAN
  PROVE  \E S : End(s, a, status, embedded) \in Seq(S)
<1> DEFINE c1 == C("persist_artifact", a)
           c2 == C("persist_embedding", [id |-> <<"embedding", now>>, owner |-> a.id])
           c3 == Saved(s, status, a.id)
           done == InStatus({"succeeded"}) \cup (IF status = "succeeded" THEN {s.node} ELSE {})
           c4 == Checkpoint(2, s, done, {})
           one == <<c1>>
           middle == IF embedded THEN <<c2>> ELSE <<>>
           last == <<c3, c4>>
           S == {c1, c2, c3, c4}
<1>1. End(s, a, status, embedded) = one \o middle \o last
  BY DEF End
<1> HIDE DEF c1, c2, c3, c4
<1>2. one \in Seq(S) /\ last \in Seq(S) /\ <<c2>> \in Seq(S) /\ <<>> \in Seq(S)
  OBVIOUS
<1>3. middle \in Seq(S)
  BY <1>2
<1> HIDE DEF one, middle, last, S
<1>4. one \o middle \in Seq(S)
  BY <1>2, <1>3
<1>5. one \o middle \o last \in Seq(S)
  BY <1>2, <1>4
<1>6. QED
  BY <1>1, <1>5

LEMMA StillUnsettled ==
  ASSUME SInv, Truthful, phase = "running", NEW s \in States, Ready(s),
         NEW e, Reached(db, e, turn.n, now, {})
  PROVE  Unsettled(e, s, turn.n) /\ P!Has(e, "runs", <<"run", turn.n>>)
<1> DEFINE n == turn.n
<1>1. /\ Later(db, e, n) /\ Steady(db, e, n, now)
  BY DEF Reached
<1>2. /\ s \in db.run_node_states /\ DOMAIN s = RowFields /\ s.run = <<"run", n>>
      /\ s.id = <<s.run, s.node>>
      /\ NodeOf(s) \in db.nodes /\ NodeOf(s).id = s.node /\ NodeOf(s).graph = GraphId(n)
      /\ \A x \in db.run_node_states : x.id = s.id => x.output = None
  BY NodeOfThis
<1>3. P!LoadRun(db, RunId) \in db.runs /\ P!LoadRun(db, RunId).id = <<"run", n>>
  BY RunOfThis
<1> HIDE DEF n
<1>4. P!Has(e, "run_node_states", s.id)
  BY <1>1, <1>2 DEF Steady
<1>5. \A x \in e.run_node_states : x.id = s.id => x.output = None
  BY <1>1, <1>2 DEF Steady
<1>6. NodeOf(s) \in e.nodes
  BY <1>1, <1>2 DEF Later
<1>7. P!Has(e, "runs", <<"run", n>>)
  BY <1>1, <1>3 DEF Later
<1>8. Unsettled(e, s, n)
  BY <1>2, <1>4, <1>5, <1>6 DEF Unsettled
<1>9. QED
  BY <1>7, <1>8 DEF n

(* An output of the node s, or a copy of an artifact there is.             *)
OutputOrCopy(a, s) ==
  /\ a.id = <<"artifact", "output", now>> /\ a.run = RunId
  /\ \/ a.node = s.node /\ a.at = now
     \/ \E b \in db.artifacts : a.node = b.node /\ a.at = b.at /\ a.content = b.content

LEMMA StillOutput ==
  ASSUME SInv, Truthful, phase = "running", NEW s \in States, Ready(s),
         NEW e, Reached(db, e, turn.n, now, {}), NEW a, OutputOrCopy(a, s)
  PROVE  OutputOf(e, a, s, turn.n, now)
<1> DEFINE n == turn.n
<1>1. /\ Later(db, e, n) /\ Steady(db, e, n, now)
  BY DEF Reached
<1>2. n \in Nat /\ now \in Nat \ {0} /\ RunId = <<"run", n>>
  BY HereAndNow DEF SInv, Where
<1>3. \A b \in db.artifacts :
        /\ b.run[2] \in 1..n /\ b.node[2] \in 0..b.run[2]
        /\ b.id = <<"artifact", b.id[2], b.id[3]>> /\ b.id[3] \in 0..now-1
        /\ P!Has(db, "nodes", b.node)
  BY DEF Truthful, Tidy
<1>4. s.node[2] = n /\ P!Has(db, "nodes", s.node)
  BY NodeOfThis
<1>5. a.id = <<"artifact", "output", now>> /\ a.run = <<"run", n>>
  BY <1>2 DEF OutputOrCopy
<1> HIDE DEF n
<1>6. ~P!Has(e, "artifacts", a.id)
  <2> SUFFICES ASSUME NEW b \in e.artifacts, b.id = <<"artifact", "output", now>> PROVE FALSE
    BY <1>5 DEF P!Has
  <2>1. b \in db.artifacts
    BY <1>1 DEF Steady
  <2>2. now \in 0..now-1
    BY <1>3, <2>1
  <2>3. QED
    BY <1>2, <2>2
<1>7. P!Has(db, "nodes", a.node) /\ a.node[2] \in 0..n
  <2>1. CASE a.node = s.node
    BY <1>2, <1>4, <2>1
  <2>2. CASE \E b \in db.artifacts : a.node = b.node
    BY <1>2, <1>3, <2>2
  <2>3. QED
    BY <2>1, <2>2 DEF OutputOrCopy
<1>8. P!Has(e, "nodes", a.node)
  BY <1>1, <1>7 DEF Later, P!Has
<1>9. \/ a.node = s.node /\ a.at = now
      \/ \E b \in e.artifacts : a.node = b.node /\ a.at = b.at /\ a.content = b.content
  BY <1>1 DEF OutputOrCopy, Later
<1>10. OutputOf(e, a, s, n, now)
  BY <1>5, <1>6, <1>7, <1>8, <1>9 DEF OutputOf
<1>11. QED
  BY <1>10 DEF n

LEMMA SettleTruthful ==
  ASSUME SInv, Truthful, phase = "running", NEW s \in States, Ready(s),
         NEW e, Reached(db, e, turn.n, now, {}), NEW a, OutputOrCopy(a, s),
         NEW status, status # "pending", NEW embedded \in BOOLEAN,
         db' = P!After(e, End(s, a, status, embedded)), now' = now + 1,
         UNCHANGED <<phase, turn>>
  PROVE  Truthful'
<1> DEFINE n == turn.n
<1>1. n \in Nat \ {0} /\ now \in Nat /\ Tidy(db, n, now, {})
  BY HereAndNow
<1>2. Shaped(e) /\ Tidy(e, n, now, {}) /\ Later(db, e, n) /\ Steady(db, e, n, now)
  BY DEF Reached
<1>3. Covered(db, n)
  BY DEF Truthful, Producing
<1>4. Unsettled(e, s, n) /\ P!Has(e, "runs", <<"run", n>>)
  BY StillUnsettled
<1>5. OutputOf(e, a, s, n, now)
  BY StillOutput
<1>6. a.id # None
  <2>1. <<"artifact", "output", now>> \in {"artifact"} \X {"output"} \X Nat
    BY <1>1
  <2>2. QED
    BY <2>1, SessionAssumption DEF OutputOrCopy
<1> HIDE DEF n
<1>7. Covered(e, n)
  BY <1>1, <1>2, <1>3, CoveredStill
<1>8. Tidy(db', n, now, {}) /\ Later(e, db', n) /\ Covered(db', n)
  BY <1>1, <1>2, <1>4, <1>5, <1>6, <1>7, EndSettles
<1>9. Later(db, db', n)
  BY <1>2, <1>8, LaterOnwards
<1>10. phase' = "running" /\ turn'.n = turn.n
  OBVIOUS
<1>11. QED
  BY <1>8, <1>9, <1>10, TruthfulOn DEF n, Settling

(* The same, of the calls.                                                 *)
LEMMA NodeTruthful ==
  ASSUME SInv, Truthful, phase = "running", NEW s \in States, Ready(s),
         NEW calls, AllMild(calls, db, turn.n, now, {}), NEW a, OutputOrCopy(a, s),
         NEW status, status # "pending", NEW embedded \in BOOLEAN,
         Do(calls \o End(s, a, status, embedded)), UNCHANGED <<phase, turn>>
  PROVE  Truthful'
<1> DEFINE e == P!After(db, calls)
           end == End(s, a, status, embedded)
<1>1. turn.n \in Nat \ {0} /\ now \in Nat /\ Tidy(db, turn.n, now, {}) /\ Shaped(db)
  BY HereAndNow
<1>2. Reached(db, e, turn.n, now, {})
  BY <1>1, AllReached
<1>3. PICK R : calls \in Seq(R)
  BY DEF AllMild
<1>4. PICK S : end \in Seq(S)
  BY EndIsSequence
<1> HIDE DEF end
<1>5. P!After(db, calls \o end) = P!After(e, end)
  BY <1>3, <1>4, AfterThem
<1>6. db' = P!After(e, end) /\ now' = now + 1
  BY <1>5 DEF Do, end
<1> HIDE DEF e
<1>7. QED
  BY <1>2, <1>6, SettleTruthful DEF end

LEMMA ArtifactIsOutput == ASSUME NEW s, NEW content PROVE OutputOrCopy(Artifact(s, "output", content), s)
BY DEF OutputOrCopy, Artifact

LEMMA ReuseTruthful ==
  ASSUME SInv, Truthful, phase = "running", NEW s \in States, Ready(s), Reuse(s),
         UNCHANGED <<phase, turn>>
  PROVE  Truthful'
<1> DEFINE r == Reusable(s)
           a == [r EXCEPT !.id = <<"artifact", "output", now>>, !.run = RunId]
           begin == Begin(s)
<1>1. r # None /\ Do(begin \o End(s, a, "succeeded", FALSE))
  BY DEF Reuse
<1>2. r \in db.artifacts
  BY <1>1, CachedIsThere DEF Reusable, SInv
<1>3. DOMAIN r = ArtifactFields
  BY <1>2 DEF SInv, Stored, Database
<1> HIDE DEF r
<1>4. /\ a.id = <<"artifact", "output", now>> /\ a.run = RunId /\ a.node = r.node /\ a.at = r.at
      /\ a.content = r.content
  BY <1>3 DEF ArtifactFields
<1> HIDE DEF a
<1>5. OutputOrCopy(a, s)
  BY <1>2, <1>4 DEF OutputOrCopy
<1>6. AllMild(begin, db, turn.n, now, {})
  BY BeginIsMild
<1> HIDE DEF begin
<1>7. QED
  BY <1>1, <1>5, <1>6, NodeTruthful

LEMMA InvokeTruthful ==
  ASSUME SInv, Truthful, phase = "running", NEW s \in States, Ready(s), NEW answer, Invoke(s, answer),
         UNCHANGED <<phase, turn>>
  PROVE  Truthful'
<1> DEFINE prompt == Artifact(s, "prompt", Input(s))
           a == Artifact(s, "output", answer)
           end(embedded) == End(s, a, "succeeded", embedded)
           tool == C("persist_tool_call", [id |-> <<"toolcall", now>>, run |-> RunId,
                                           node |-> s.node])
           asked == C("persist_artifact", prompt)
           told == ModelCall(s, prompt.id)
           begin == Begin(s)
           one == <<tool>>
           two == <<asked, told>>
           n == turn.n
           t == now
<1>1. \/ Do(begin \o end(FALSE))
      \/ Do(begin \o one \o end(FALSE))
      \/ NodeOf(s).kind = "model" /\ Do(begin \o two \o end(TRUE))
  BY DEF Invoke
<1>2. OutputOrCopy(a, s)
  BY ArtifactIsOutput
<1>3. AllMild(begin, db, n, t, {})
  BY BeginIsMild
<1>4. Aside(tool) /\ Aside(told)
  BY DEF ModelCall, C, Aside, AsideOps
<1>5. NodeOf(s).kind = "model" => OfTurn(asked, db, n, t, {}) /\ Mild(asked, db, n, t)
  BY ArtifactIsOfTurn
<1> HIDE DEF a, tool, asked, told, begin
<1>6. AllMild(one, db, n, t, {})
  BY <1>4, AsideIsMild, OneIsMild
<1>7. NodeOf(s).kind = "model" => AllMild(two, db, n, t, {})
  BY <1>4, <1>5, AsideIsMild, TwoAreMild
<1> HIDE DEF one, two
<1>8. AllMild(begin \o one, db, n, t, {})
  BY <1>3, <1>6, ConcatIsMild
<1>9. NodeOf(s).kind = "model" => AllMild(begin \o two, db, n, t, {})
  BY <1>3, <1>7, ConcatIsMild
<1> DEFINE first == begin \o one
           second == begin \o two
<1>10. CASE Do(begin \o end(FALSE))
  BY <1>2, <1>3, <1>10, NodeTruthful
<1>11. CASE Do(first \o end(FALSE))
  <2>1. AllMild(first, db, n, t, {})
    BY <1>8
  <2> HIDE DEF first
  <2>2. QED
    BY <1>2, <1>11, <2>1, NodeTruthful
<1>12. CASE NodeOf(s).kind = "model" /\ Do(second \o end(TRUE))
  <2>1. AllMild(second, db, n, t, {})
    BY <1>9, <1>12
  <2> HIDE DEF second
  <2>2. QED
    BY <1>2, <1>12, <2>1, NodeTruthful
<1>13. QED
  BY <1>1, <1>10, <1>11, <1>12

-----------------------------------------------------------------------------
(* A node that is added.                                                   *)
LEMMA AfterFive ==
  ASSUME NEW d, NEW c1, NEW c2, NEW c3, NEW c4, NEW c5,
         NEW e1, e1 = P!Call(d, c1), NEW e2, e2 = P!Call(e1, c2), NEW e3, e3 = P!Call(e2, c3),
         NEW e4, e4 = P!Call(e3, c4), NEW e5, e5 = P!Call(e4, c5)
  PROVE  P!After(d, <<c1, c2, c3, c4, c5>>) = e5
<1> DEFINE calls == <<c1, c2, c3, c4, c5>>
           S == {c1, c2, c3, c4, c5}
<1>1. /\ Len(calls) = 5 /\ calls[1] = c1 /\ calls[2] = c2 /\ calls[3] = c3
      /\ calls[4] = c4 /\ calls[5] = c5
  OBVIOUS
<1>0. calls \in Seq(S)
  OBVIOUS
<1> HIDE DEF calls, S
<1>2. PICK v : /\ v[0] = d /\ \A k \in 1..Len(calls) : v[k] = P!Call(v[k-1], calls[k])
               /\ P!After(d, calls) = v[Len(calls)]
  BY <1>0, DatabaseSteps
<1>3. /\ v[1] = P!Call(v[0], c1) /\ v[2] = P!Call(v[1], c2) /\ v[3] = P!Call(v[2], c3)
      /\ v[4] = P!Call(v[3], c4) /\ v[5] = P!Call(v[4], c5)
  <2>1. /\ v[1] = P!Call(v[1 - 1], calls[1]) /\ v[2] = P!Call(v[2 - 1], calls[2])
        /\ v[3] = P!Call(v[3 - 1], calls[3]) /\ v[4] = P!Call(v[4 - 1], calls[4])
        /\ v[5] = P!Call(v[5 - 1], calls[5])
    BY <1>1, <1>2
  <2>2. 1 - 1 = 0 /\ 2 - 1 = 1 /\ 3 - 1 = 2 /\ 4 - 1 = 3 /\ 5 - 1 = 4
    OBVIOUS
  <2>3. QED
    BY <1>1, <2>1, <2>2
<1>4. P!After(d, calls) = e5
  BY <1>1, <1>2, <1>3
<1>5. QED
  BY <1>4 DEF calls

LEMMA GraphIsSaved ==
  ASSUME NEW d, NEW c, c.op = "persist_task_graph"
  PROVE  P!Call(d, c) = P!PersistTaskGraph(d, c.row)
BY DEF P!Call

LEMMA RowIsUpdated ==
  ASSUME NEW d, NEW c, c.op = "update_run_node_state"
  PROVE  P!Call(d, c) = P!Update(d, "run_node_states", c.row)
BY DEF P!Call, P!UpdateRunNodeState

(* A graph that is saved has its nodes.                                    *)
LEMMA GraphHasNodes ==
  ASSUME NEW d, Shaped(d), NEW g, P!Has(d, "workspace_graphs", g.workspace), NEW x \in g.nodes
  PROVE  P!Has(P!PersistTaskGraph(d, g), "nodes", x.id)
<1> DEFINE row == [id |-> g.id, workspace |-> g.workspace, goal |-> g.goal, intent |-> g.intent]
           new(table, rows) == {r \in rows : ~P!Has(d, table, r.id)}
           i == P!Insert(d, "task_graphs", row)
           e == P!PersistTaskGraph(d, g)
<1>1. e = [i EXCEPT !["nodes"] = @ \cup new("nodes", g.nodes),
                    !["task_edges"] = @ \cup new("task_edges", g.edges)]
  BY DEF P!PersistTaskGraph
<1>2. {"task_graphs", "nodes", "task_edges"} \subseteq P!Table
  BY DEF P!Table
<1> HIDE DEF row
<1>3. SameBut(d, i, "task_graphs")
  <2>1. "task_graphs" \in P!Table
    BY <1>2
  <2>2. QED
    BY <2>1, InsertDoes
<1> HIDE DEF i, e
<1>4. e.nodes = d.nodes \cup new("nodes", g.nodes)
  <2>1. "nodes" \in DOMAIN i /\ i.nodes = d.nodes
    BY <1>2, <1>3 DEF SameBut, Shaped
  <2>2. e.nodes = i.nodes \cup new("nodes", g.nodes)
    BY <1>1, <2>1
  <2>3. QED
    BY <2>1, <2>2
<1>5. P!Has(e, "nodes", x.id)
  <2>1. CASE P!Has(d, "nodes", x.id)
    BY <1>4, <2>1 DEF P!Has
  <2>2. CASE ~P!Has(d, "nodes", x.id)
    BY <1>4, <2>2 DEF P!Has
  <2>3. QED
    BY <2>1, <2>2
<1>6. QED
  BY <1>5 DEF e

LEMMA GrownIs ==
  ASSUME SInv, Truthful, phase = "running", NEW s
  PROVE  LET new == <<"node", turn.n, now, "added">>
             h == Grown(s).graph
         IN /\ h.workspace = W /\ h.nodes \subseteq db.nodes \cup {Grown(s).node}
            /\ Grown(s).node \in h.nodes /\ Grown(s).node.id = new
            /\ \A x \in h.nodes : x.graph = GraphId(turn.n) /\ x.id[2] = turn.n
            /\ Grown(s).edge.graph = turn.graph
<1> DEFINE g == P!LoadTaskGraph(db, turn.graph)
           r == P!Get(db, "task_graphs", turn.graph)
           new == <<"node", turn.n, now, "added">>
           x == Grown(s).node
           h == Grown(s).graph
<1>1. turn.graph = GraphId(turn.n) /\ P!Has(db, "task_graphs", turn.graph)
  BY RunOfThis
<1>2. r \in db.task_graphs /\ r.id = turn.graph /\ r.workspace = W
  <2>1. r \in db.task_graphs /\ r.id = turn.graph
    BY <1>1 DEF P!Get, P!Has
  <2>2. QED
    BY <2>1 DEF SInv, Stored, Database
<1> HIDE DEF r
<1>3. g = [id |-> r.id, workspace |-> r.workspace, goal |-> r.goal, intent |-> r.intent,
           nodes |-> P!OfGraph(db, "nodes", turn.graph),
           edges |-> P!OfGraph(db, "task_edges", turn.graph)]
  BY <1>1 DEF P!LoadTaskGraph, r
<1>4. x = [id |-> new, graph |-> g.id, kind |-> "final", key |-> "added", cache |-> FALSE,
           summary |-> FALSE, rank |-> AddedRank]
      /\ Grown(s).edge.graph = g.id
      /\ \E e : h = [g EXCEPT !.nodes = @ \cup {x}, !.edges = @ \cup {e}]
  BY DEF Grown
<1> HIDE DEF x, h, g, new
<1>5. h.workspace = g.workspace /\ h.nodes = g.nodes \cup {x}
  BY <1>3, <1>4
<1>6. g.id = turn.graph /\ g.workspace = W
      /\ \A y : y \in g.nodes <=> y \in db.nodes /\ y.graph = turn.graph
  BY <1>2, <1>3 DEF P!OfGraph
<1>7. x.id = new /\ x.graph = turn.graph /\ new[2] = turn.n
  BY <1>4, <1>6 DEF new
<1>8. \A y \in g.nodes : y.graph = GraphId(turn.n) /\ y.id[2] = turn.n
  <2> SUFFICES ASSUME NEW y \in g.nodes PROVE y.graph = GraphId(turn.n) /\ y.id[2] = turn.n
    OBVIOUS
  <2>1. y \in db.nodes /\ y.graph = GraphId(turn.n)
    BY <1>1, <1>6
  <2>2. y.graph = GraphId(y.id[2])
    BY <2>1 DEF Truthful, Tidy
  <2>3. QED
    BY <2>1, <2>2 DEF GraphId
<1>9. QED
  BY <1>1, <1>4, <1>5, <1>6, <1>7, <1>8 DEF x, h, new

(* What is of the turn and mild stays so, and a node may be missing.       *)
LEMMA AddedMay ==
  ASSUME NEW d, NEW n, NEW t, NEW X
  PROVE  /\ \A c : OfTurn(c, d, n, t, {}) => OfTurn(c, d, n, t, X)
         /\ \A e : Reached(d, e, n, t, {}) => Reached(d, e, n, t, X)
<1>1. \A e, s, m : Row(e, s, m, {}) => Row(e, s, m, X)
  BY DEF Row
<1>2. \A c : OfTurn(c, d, n, t, {}) => OfTurn(c, d, n, t, X)
  BY <1>1 DEF OfTurn
<1>3. \A e : Tidy(e, n, t, {}) => Tidy(e, n, t, X)
  BY <1>1 DEF Tidy
<1>4. \A e : Reached(d, e, n, t, {}) => Reached(d, e, n, t, X)
  BY <1>3 DEF Reached
<1>5. QED
  BY <1>2, <1>4

(* And when it is there in the end, none is missing.                       *)
LEMMA AddedIs ==
  ASSUME NEW d, NEW e, NEW n \in Nat \ {0}, NEW t, NEW new, new[2] = n, Tidy(d, n, t, {}),
         Reached(d, e, n, t, {new}), P!Has(e, "nodes", new)
  PROVE  Reached(d, e, n, t, {})
<1>1. \A s \in e.run_node_states : s.node = new => s.run[2] = n
  <2> SUFFICES ASSUME NEW s \in e.run_node_states, s.node = new, s.run # <<"run", n>>
               PROVE  s.run[2] = n
    OBVIOUS
  <2>1. s \in P!OfRun(e, "run_node_states", s.run)
    BY DEF P!OfRun
  <2> DEFINE q == s.run
  <2> HIDE DEF q
  <2>2. P!OfRun(e, "run_node_states", q) = P!OfRun(d, "run_node_states", q)
    BY DEF Reached, Later, q
  <2>3. s \in d.run_node_states
    BY <2>1, <2>2 DEF q, P!OfRun
  <2>4. PICK y \in d.nodes : y.id = new /\ y.graph = GraphId(s.run[2])
    BY <2>3 DEF Tidy, Row
  <2>5. y.graph = GraphId(n)
    BY <2>4 DEF Tidy
  <2>6. QED
    BY <2>4, <2>5 DEF GraphId
<1>2. Tidy(e, n, t, {})
  BY <1>1, TidyLess DEF Reached
<1>3. QED
  BY <1>2 DEF Reached

LEMMA ExpandTruthful ==
  ASSUME SInv, Truthful, phase = "running", NEW s \in States, Ready(s), NEW answer, Expand(s, answer),
         UNCHANGED <<phase, turn>>
  PROVE  Truthful'
<1> DEFINE n == turn.n
           t == now
           new == <<"node", turn.n, now, "added">>
           X == {new}
           h == Grown(s).graph
           a == Artifact(s, "output", answer)
           c1 == C("create_run_node_state", State(Grown(s).node.id))
           c2 == C("persist_task_edge", Grown(s).edge)
           c3 == C("persist_task_graph", h)
           c4 == WorkspaceEdge("expands_to", s.node, turn.graph)
           c5 == Saved(s, "expanded", None)
           begin == Begin(s)
           between == <<c1, c2, c3, c4, c5>>
           end == End(s, a, "expanded", FALSE)
           first == begin \o between
<1>1. Do(first \o end)
  BY DEF Expand
<1>2. /\ n \in Nat \ {0} /\ t \in Nat /\ Shaped(db) /\ Tidy(db, n, t, {}) /\ RunId = <<"run", n>>
  BY HereAndNow
<1>3. OutputOrCopy(a, s)
  BY ArtifactIsOutput
<1>4. /\ h.workspace = W /\ h.nodes \subseteq db.nodes \cup {Grown(s).node}
      /\ Grown(s).node \in h.nodes /\ Grown(s).node.id = new
      /\ \A x \in h.nodes : x.graph = GraphId(n) /\ x.id[2] = n
      /\ Grown(s).edge.graph = turn.graph
  BY GrownIs
<1>5. OfTurn(c1, db, n, t, X) /\ Mild(c1, db, n, t)
  <2>1. c1.op = "create_run_node_state" /\ c1.row = State(new)
    BY <1>4 DEF C
  <2>2. State(new).output = None /\ Row(db, State(new), n, X)
    BY <1>2 DEF State, Row, RowFields
  <2> HIDE DEF c1, n, t, new, X
  <2>3. QED
    BY <2>1, <2>2 DEF OfTurn, Mild
<1>6. OfTurn(c3, db, n, t, X) /\ Mild(c3, db, n, t)
  <2>1. c3.op = "persist_task_graph" /\ c3.row = h
    BY DEF C
  <2>2. Unique(h.nodes \ db.nodes)
    BY <1>4 DEF Unique
  <2> HIDE DEF c3, h, n, t, new, X
  <2>3. QED
    BY <1>4, <2>1, <2>2 DEF OfTurn, Mild
<1>7. Aside(c2) /\ Aside(c4)
  BY DEF WorkspaceEdge, C, Aside, AsideOps
<1>8. OfTurn(c5, db, n, t, X) /\ Mild(c5, db, n, t)
  BY SavedIsMild, AddedMay
<1>9. Simple(c1, Known, now) /\ Simple(c2, Known, now)
  <2>1. <<"runs", RunId>> \in Known /\ <<"task_graphs", turn.graph>> \in Known
    BY RunIsThere DEF SInv
  <2>2. State(Grown(s).node.id).run = RunId
    BY DEF State
  <2>3. Simple(c1, Known, now)
    BY <2>1, <2>2, RunCall
  <2>4. Simple(c2, Known, now)
    BY <1>4, <2>1, TaskEdgeCall
  <2>5. QED
    BY <2>3, <2>4
<1>10. AllMild(begin, db, n, t, {}) /\ Plain(begin, Known, now)
  BY BeginIsMild, BeginIsPlain DEF SInv
<1>11. c3.op = "persist_task_graph" /\ c3.row = h
  BY DEF C
<1>12. new[2] = n
  OBVIOUS
<1>13. c5.op = "update_run_node_state"
  BY DEF Saved, C
<1> DEFINE e0 == P!After(db, begin)
           e1 == P!Call(e0, c1)
           e2 == P!Call(e1, c2)
           e3 == P!Call(e2, c3)
           e4 == P!Call(e3, c4)
           e5 == P!Call(e4, c5)
           S == {c1, c2, c3, c4, c5}
<1> HIDE DEF c1, c2, c3, c4, c5, begin, h, a, new
<1>14. P!After(db, first) = e5
  <2>1. between \in Seq(S)
    OBVIOUS
  <2>2. PICK R : begin \in Seq(R)
    BY <1>10 DEF AllMild
  <2>3. P!After(e0, between) = e5
    BY AfterFive
  <2> HIDE DEF between, S, e5, e0
  <2>4. P!After(db, begin \o between) = P!After(P!After(db, begin), between)
    BY <2>1, <2>2, AfterThem
  <2>5. QED
    BY <2>3, <2>4 DEF e0
<1> HIDE DEF S
<1>15. Reached(db, e0, n, t, X)
  <2>1. Reached(db, e0, n, t, {})
    BY <1>2, <1>10, AllReached
  <2> HIDE DEF X, n, t, e0
  <2>2. QED
    BY <2>1, AddedMay
<1>16. /\ OfTurn(c2, db, n, t, X) /\ Mild(c2, db, n, t)
       /\ OfTurn(c4, db, n, t, X) /\ Mild(c4, db, n, t)
  BY <1>7, AsideIsMild
<1>17. Holds(e2, Known)
  <2>1. Database(e0, now) /\ Holds(e0, Known)
    <3>1. now \in Nat \ {0} /\ Database(db, now - 1) /\ Memory(mem) /\ Holds(db, Known) /\ Keeps(mem, Known)
      BY DEF SInv, Where, Stored
    <3>2. QED
      BY <1>10, <3>1, PlainKeeps
  <2> HIDE DEF e0, t, n
  <2>2. Fine(c1, Known, now) /\ Fine(c2, Known, now) /\ now \in Nat
    BY <1>9 DEF Simple, SInv, Where
  <2>3. Database(e1, now) /\ Holds(e1, Known)
    <3>1. Database(e1, now) /\ Holds(e1, Known \cup Gives(c1))
      BY <2>1, <2>2, CallKeeps
    <3>2. QED
      BY <3>1 DEF Holds
  <2> HIDE DEF e1
  <2>4. Holds(e2, Known \cup Gives(c2))
    BY <2>2, <2>3, CallKeeps
  <2>5. QED
    BY <2>4 DEF Holds
<1>18. P!Has(e2, "workspace_graphs", W)
  <2>1. TheWorkspace \in Known
    BY RunIsThere DEF SInv
  <2>2. QED
    BY <1>17, <2>1 DEF Holds, TheWorkspace
<1> HIDE DEF X, n, t, e0
<1>19. Reached(db, e1, n, t, X)
  BY <1>2, <1>5, <1>15, NextReached
<1> HIDE DEF e1
<1>20. Reached(db, e2, n, t, X)
  BY <1>2, <1>16, <1>19, NextReached
<1> HIDE DEF e2
<1>21. Reached(db, e3, n, t, X)
  BY <1>2, <1>6, <1>20, NextReached
<1>22. P!Has(e3, "nodes", new)
  <2>1. e3 = P!PersistTaskGraph(e2, h)
    BY <1>11, GraphIsSaved
  <2>2. P!Has(e2, "workspace_graphs", h.workspace) /\ Shaped(e2)
    BY <1>4, <1>18, <1>20 DEF Reached
  <2> HIDE DEF e3
  <2>3. QED
    BY <1>4, <2>1, <2>2, GraphHasNodes
<1> HIDE DEF e3
<1>23. Reached(db, e4, n, t, X)
  BY <1>2, <1>16, <1>21, NextReached
<1>24. e4.nodes = e3.nodes
  <2>1. Core(e4) = Core(e3)
    BY <1>7, <1>21, AsideDoes DEF Aside, Reached
  <2> HIDE DEF e4
  <2>2. QED
    BY <2>1 DEF Core
<1> HIDE DEF e4
<1>25. Reached(db, e5, n, t, X)
  BY <1>2, <1>8, <1>23, NextReached
<1>26. e5.nodes = e4.nodes
  <2> DEFINE row == c5.row
  <2>1. e5 = P!Update(e4, "run_node_states", row)
    BY <1>13, RowIsUpdated
  <2>2. "run_node_states" \in P!Table /\ "nodes" \in P!Table
    BY DEF P!Table
  <2> HIDE DEF row, e5
  <2>3. SameBut(e4, e5, "run_node_states")
    BY <1>23, <2>1, <2>2, UpdateDoes DEF Reached
  <2>4. QED
    BY <2>2, <2>3 DEF SameBut
<1>27. P!Has(e5, "nodes", new)
  BY <1>22, <1>24, <1>26 DEF P!Has
<1> HIDE DEF e5
<1>28. Reached(db, e5, n, t, {})
  <2>1. Reached(db, e5, n, t, {new})
    BY <1>25 DEF X
  <2>2. QED
    BY <1>2, <1>12, <1>27, <2>1, AddedIs
<1>29. db' = P!After(e5, end) /\ now' = now + 1
  <2>1. PICK R : begin \in Seq(R)
    BY <1>10 DEF AllMild
  <2>2. PICK T : end \in Seq(T)
    BY EndIsSequence
  <2>3. first \in Seq(R \cup {c1, c2, c3, c4, c5})
    <3> DEFINE Q == R \cup {c1, c2, c3, c4, c5}
    <3>1. begin \in Seq(Q) /\ between \in Seq(Q)
      BY <2>1
    <3> HIDE DEF Q, between
    <3>2. begin \o between \in Seq(Q)
      BY <3>1
    <3>3. QED
      BY <3>2 DEF Q
  <2> HIDE DEF first, end
  <2>4. P!After(db, first \o end) = P!After(P!After(db, first), end)
    BY <2>2, <2>3, AfterThem
  <2>5. QED
    BY <1>1, <1>14, <2>4 DEF Do
<1>30. Reached(db, e5, turn.n, now, {})
  BY <1>28 DEF n, t
<1>31. QED
  BY <1>3, <1>29, <1>30, SettleTruthful

-----------------------------------------------------------------------------
LEMMA RunNodeTruthful ==
  ASSUME NEW s \in States, NEW answer
  PROVE  SInv /\ Truthful /\ RunNode(s, answer) => Truthful'
<1> SUFFICES ASSUME SInv, Truthful, RunNode(s, answer) PROVE Truthful'
  OBVIOUS
<1>1. /\ phase = "running" /\ Ready(s) /\ UNCHANGED <<phase, turn>>
      /\ Reuse(s) \/ Invoke(s, answer) \/ Expand(s, answer)
  BY DEF RunNode
<1>2. QED
  BY <1>1, ReuseTruthful, InvokeTruthful, ExpandTruthful

LEMMA TruthfulStep == SInv /\ Truthful /\ [Next]_vars => Truthful'
<1> SUFFICES ASSUME SInv, Truthful, [Next]_vars PROVE Truthful'
  OBVIOUS
<1>1. CASE Open \/ Quit \/ Clear \/ Inject \/ Crash
  BY <1>1, OpenTruthful, QuitTruthful, ClearTruthful, InjectTruthful
<1>2. CASE \E p \in Prompt : Ask(p)
  BY <1>2, AskTruthful
<1>3. CASE Ingest
  BY <1>3, IngestTruthful
<1>4. CASE \E a \in {"new", "continue"} : CompileFails(a) \/ \E s \in Shape : Compile(a, s)
  BY <1>4, CompileFailsTruthful, CompileTruthful
<1>5. CASE StartRun
  BY <1>5, StartRunTruthful
<1>6. CASE \E s \in States : NodeRaises(s)
                             \/ \E answer \in Sayable : RunNode(s, answer)
  BY <1>6, NodeRaisesTruthful, RunNodeTruthful
<1>7. CASE FinishRun \/ Collect \/ Summarise
  BY <1>7, FinishRunTruthful, CollectTruthful, SummariseTruthful
<1>8. CASE StoreQuestion \/ StoreAnswer \/ LinkFollowsUp \/ LinkProduced
  BY <1>8, StoreQuestionTruthful, StoreAnswerTruthful, LinkTruthful
<1>9. CASE UNCHANGED vars
  <2>1. UNCHANGED <<db, phase, turn, now>>
    BY <1>9 DEF vars
  <2>2. QED
    BY <2>1, TruthfulStill
<1>10. QED
  BY <1>1, <1>2, <1>3, <1>4, <1>5, <1>6, <1>7, <1>8, <1>9 DEF Next

LEMMA TruthfulInductive == Spec => []Truthful
BY TruthfulInit, TruthfulStep, SessionInductive, PTL DEF Spec

(* What chat remembers as an answer is the last output that the final      *)
(* nodes of its own run have made, of a run that has succeeded: whether    *)
(* they were proposed or added by an expansion, reused or not, whatever    *)
(* the turns around it do, and wherever a process dies.                    *)
THEOREM AnswersAreOfTheirRuns == Spec => []AnswersAreTheRuns
<1>1. SInv /\ Truthful => AnswersAreTheRuns
  <2> SUFFICES ASSUME SInv, Truthful, NEW m \in Answers
               PROVE  /\ P!LoadRun(db, m.run).status = "succeeded"
                      /\ m.text = AnswerOf(OwnFinals(db, m.run))
    BY DEF AnswersAreTheRuns
  <2>1. m.run = <<"run", m.run[2]>>
    BY DEF SInv, Spoken, Talk, Voice, Answers
  <2>2. Succeeded(db, m.run[2]) /\ m.text = AnswerOf(Owned(db, m.run[2]))
        /\ Tidy(db, turn.n, now - 1, {})
    BY DEF Truthful
  <2> DEFINE n == m.run[2]
             run == <<"run", n>>
  <2> HIDE DEF n
  <2>3. P!LoadRun(db, run).status = "succeeded" /\ OwnFinals(db, run) = Owned(db, n)
    BY <2>2, ReadsSay DEF n
  <2>4. m.run = run
    BY <2>1 DEF n
  <2> HIDE DEF run
  <2>5. QED
    BY <2>2, <2>3, <2>4 DEF n
<1>2. QED
  BY <1>1, SessionInductive, TruthfulInductive, PTL
=============================================================================
