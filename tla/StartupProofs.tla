---------------------------- MODULE StartupProofs ----------------------------
(***************************************************************************)
(* Proofs about Startup: whatever the processes, the migrations and the    *)
(* dimensions, migrations are recorded in order and a process that has     *)
(* started finds them, although other processes migrate, reset and die     *)
(* meanwhile.                                                              *)
(***************************************************************************)
EXTENDS Startup, TLAPS

(* What a process has looked at is recorded, but for the extension.        *)
Looked ==
  \A p \in Process : step[p] = "migrating" =>
    \A u \in Version : u \in todo[p] \/ u = Pgvector \/ u \in recorded

(* An open transaction is that of the version whose turn it is.            *)
InTurn ==
  \A p \in Process : open[p] # 0 =>
    /\ step[p] = "migrating"
    /\ open[p] \in todo[p]
    /\ \A u \in todo[p] : open[p] <= u
    /\ open[p] = Pgvector => package

NoHole == \A v \in recorded : \A u \in Version : u < v /\ u # Pgvector => u \in recorded

Migrated ==
  \A p \in Process : step[p] \in {"adding", "ready", "embedding"} =>
    \A u \in Version : u = Pgvector \/ u \in recorded

(* There is a column only with the extension, and processes compare it     *)
(* with dimensions that are not 0.                                         *)
ColumnHasType == column # 0 => Pgvector \in recorded
Configured == \A p \in Process : step[p] # "off" => dim[p] \in Dimension

StoreHasType ==
  \A p \in Process : step[p] \in {"ready", "embedding"} /\ vec[p] => Pgvector \in recorded

Busy == \A p \in Process : step[p] = "embedding" => item[p] \in Item

IInv == TypeOK /\ Looked /\ InTurn /\ NoHole /\ Migrated
        /\ ColumnHasType /\ Configured /\ StoreHasType /\ Busy

-----------------------------------------------------------------------------
LEMMA InitIInv == Init => IInv
  BY StartupAssumption
  DEF Init, IInv, TypeOK, Steps, Idle, Looked, InTurn, NoHole, Migrated, ColumnHasType, Configured,
      StoreHasType, Busy

(* Every action keeps the invariant.                                       *)
LEMMA NextIInv == IInv /\ [Next]_vars => IInv'
<1> SUFFICES ASSUME IInv, [Next]_vars PROVE IInv'
  OBVIOUS
<1> USE StartupAssumption DEF IInv
<1>1. CASE Install
  <2>1. TypeOK'
    BY <1>1 DEF Install, locals, TypeOK
  <2>2. InTurn'
    BY <1>1 DEF Install, locals, InTurn
  <2>3. Looked' /\ NoHole' /\ Migrated' /\ ColumnHasType' /\ Configured' /\ StoreHasType' /\ Busy'
    BY <1>1 DEF Install, locals, Looked, NoHole, Migrated, ColumnHasType, Configured,
                StoreHasType, Busy
  <2> QED  BY <2>1, <2>2, <2>3
<1>2. ASSUME NEW p \in Process, NEW d \in Dimension, NEW reset, Start(p, d, reset) PROVE IInv'
  <2>1. TypeOK'
    BY <1>2 DEF Start, GoTo, TypeOK, Steps
  <2>2. InTurn'
    BY <1>2 DEF Start, GoTo, InTurn, Idle
  <2>3. Looked' /\ NoHole' /\ Migrated' /\ ColumnHasType' /\ Configured' /\ StoreHasType' /\ Busy'
    BY <1>2 DEF Start, GoTo, TypeOK, Looked, NoHole, Migrated, ColumnHasType, Configured,
                StoreHasType, Busy
  <2> QED  BY <2>1, <2>2, <2>3
<1>3. ASSUME NEW p \in Process, Reset(p) PROVE IInv'
  <2>1. TypeOK'
    <3>1. CASE step[p] = "resetting" /\ 1 \notin recorded
      BY <1>3, <3>1 DEF Reset, GoTo, TypeOK, Steps, Idle
    <3>2. CASE step[p] = "resetting" /\ 1 \in recorded
      <4>1. ASSUME NEW r \in rows PROVE [r EXCEPT !.vector = FALSE] \in [item : Item, vector : BOOLEAN]
        <5>1. r \in [item : Item, vector : BOOLEAN]
          BY DEF TypeOK
        <5> QED  BY <5>1
      <4>2. rows' = {[r EXCEPT !.vector = FALSE] : r \in rows}
        BY <1>3, <3>2 DEF Reset, DropColumn
      <4>3. rows' \subseteq [item : Item, vector : BOOLEAN]
        BY <4>1, <4>2
      <4> QED  BY <1>3, <3>2, <4>3 DEF Reset, GoTo, DropColumn, TypeOK, Steps
    <3>3. CASE step[p] = "clearing"
      BY <1>3, <3>3 DEF Reset, GoTo, DeleteRows, TypeOK, Steps
    <3> QED  BY <1>3, <3>1, <3>2, <3>3 DEF Reset
  <2>2. InTurn'
    BY <1>3 DEF Reset, GoTo, InTurn, TypeOK
  <2>3. Looked' /\ NoHole' /\ Migrated' /\ ColumnHasType' /\ Configured' /\ StoreHasType' /\ Busy'
    BY <1>3 DEF Reset, GoTo, DropColumn, DeleteRows, TypeOK, Looked, NoHole, Migrated,
                ColumnHasType, Configured, StoreHasType, Busy
  <2> QED  BY <2>1, <2>2, <2>3
<1>4. ASSUME NEW p \in Process, Connect(p) PROVE IInv'
  <2>1. TypeOK'
    BY <1>4 DEF Connect, GoTo, TypeOK, Steps
  <2>2. InTurn'
    BY <1>4 DEF Connect, GoTo, InTurn
  <2>3. Looked' /\ NoHole' /\ Migrated' /\ ColumnHasType' /\ Configured' /\ StoreHasType' /\ Busy'
    BY <1>4 DEF Connect, GoTo, TypeOK, Looked, NoHole, Migrated, ColumnHasType, Configured,
                StoreHasType, Busy
  <2> QED  BY <2>1, <2>2, <2>3
<1>5. ASSUME NEW p \in Process, NEW v \in Version, Skip(p, v) PROVE IInv'
  <2>1. TypeOK'
    BY <1>5 DEF Skip, TypeOK
  <2>2. InTurn'
    BY <1>5 DEF Skip, InTurn
  <2>3. Looked' /\ NoHole' /\ Migrated' /\ ColumnHasType' /\ Configured' /\ StoreHasType' /\ Busy'
    BY <1>5 DEF Skip, Looked, NoHole, Migrated, ColumnHasType, Configured, StoreHasType, Busy
  <2> QED  BY <2>1, <2>2, <2>3
<1>6. ASSUME NEW p \in Process, NEW v \in Version, Apply(p, v) PROVE IInv'
  <2>1. TypeOK'
    BY <1>6 DEF Apply, GoTo, TypeOK, Steps, Idle
  <2>2. InTurn'
    BY <1>6 DEF Apply, GoTo, Disturb, Upcoming, InTurn, TypeOK
  <2>3. Looked' /\ NoHole' /\ Migrated' /\ ColumnHasType' /\ Configured' /\ StoreHasType' /\ Busy'
    BY <1>6 DEF Apply, GoTo, Upcoming, TypeOK, Looked, NoHole, Migrated, ColumnHasType,
                Configured, StoreHasType, Busy
  <2> QED  BY <2>1, <2>2, <2>3
<1>7. ASSUME NEW p \in Process, Commit(p) PROVE IInv'
  <2>1. TypeOK'
    BY <1>7 DEF Commit, TypeOK
  <2>2. InTurn'
    BY <1>7 DEF Commit, InTurn, TypeOK
  <2>3. NoHole'
    BY <1>7 DEF Commit, NoHole, TypeOK, InTurn, Looked
  <2>4. Looked'
    BY <1>7 DEF Commit, Looked, TypeOK
  <2>5. Migrated' /\ ColumnHasType' /\ StoreHasType'
    BY <1>7 DEF Commit, Migrated, ColumnHasType, StoreHasType
  <2>6. Configured' /\ Busy'
    BY <1>7 DEF Commit, Configured, Busy
  <2> QED  BY <2>1, <2>2, <2>3, <2>4, <2>5, <2>6
<1>8. ASSUME NEW p \in Process, Create(p) PROVE IInv'
  <2>1. TypeOK'
    BY <1>8 DEF Create, GoTo, TypeOK, Steps, Idle
  <2>2. InTurn'
    BY <1>8 DEF Create, GoTo, InTurn
  <2>3. Migrated'
    BY <1>8 DEF Create, Migrated, Looked
  <2>4. StoreHasType'
    BY <1>8 DEF Create, GoTo, StoreHasType, TypeOK, ColumnHasType, Configured
  <2>5. Looked' /\ NoHole' /\ ColumnHasType' /\ Configured' /\ Busy'
    BY <1>8 DEF Create, GoTo, Looked, NoHole, ColumnHasType, Configured, Busy
  <2> QED  BY <2>1, <2>2, <2>3, <2>4, <2>5
<1>9. ASSUME NEW p \in Process, AddColumn(p) PROVE IInv'
  <2>1. TypeOK'
    BY <1>9 DEF AddColumn, GoTo, TypeOK, Steps, Idle
  <2>2. InTurn'
    BY <1>9 DEF AddColumn, GoTo, InTurn, TypeOK
  <2>3. Looked' /\ NoHole' /\ Migrated' /\ ColumnHasType' /\ Configured' /\ StoreHasType' /\ Busy'
    BY <1>9 DEF AddColumn, GoTo, TypeOK, Looked, NoHole, Migrated, ColumnHasType, Configured,
                StoreHasType, Busy
  <2> QED  BY <2>1, <2>2, <2>3
<1>10. ASSUME NEW p \in Process, NEW i \in Item, Embed(p, i) PROVE IInv'
  <2>1. TypeOK'
    BY <1>10 DEF Embed, GoTo, TypeOK, Steps
  <2>2. InTurn'
    BY <1>10 DEF Embed, GoTo, InTurn
  <2>3. Looked' /\ NoHole' /\ Migrated' /\ ColumnHasType' /\ Configured' /\ StoreHasType' /\ Busy'
    BY <1>10 DEF Embed, GoTo, TypeOK, Looked, NoHole, Migrated, ColumnHasType, Configured,
                 StoreHasType, Busy
  <2> QED  BY <2>1, <2>2, <2>3
<1>11. ASSUME NEW p \in Process, Persist(p) PROVE IInv'
  <2>1. TypeOK'
    BY <1>11 DEF Persist, GoTo, TypeOK, Busy, Steps, Idle
  <2>2. InTurn'
    BY <1>11 DEF Persist, GoTo, InTurn, TypeOK
  <2>3. Looked' /\ NoHole' /\ Migrated' /\ ColumnHasType' /\ Configured' /\ StoreHasType' /\ Busy'
    BY <1>11 DEF Persist, GoTo, TypeOK, Looked, NoHole, Migrated, ColumnHasType, Configured,
                 StoreHasType, Busy
  <2> QED  BY <2>1, <2>2, <2>3
<1>12. ASSUME NEW p \in Process, Crash(p) PROVE IInv'
  <2>1. TypeOK'
    BY <1>12 DEF Crash, GoTo, TypeOK, Steps, Idle
  <2>2. InTurn'
    BY <1>12 DEF Crash, GoTo, InTurn, TypeOK
  <2>3. Looked' /\ NoHole' /\ Migrated' /\ ColumnHasType' /\ Configured' /\ StoreHasType' /\ Busy'
    BY <1>12 DEF Crash, GoTo, TypeOK, Looked, NoHole, Migrated, ColumnHasType, Configured,
                 StoreHasType, Busy
  <2> QED  BY <2>1, <2>2, <2>3
<1>13. CASE UNCHANGED vars
  BY <1>13 DEF vars, locals, TypeOK, Looked, InTurn, NoHole, Migrated, ColumnHasType, Configured,
               StoreHasType, Busy
<1> QED  BY <1>1, <1>2, <1>3, <1>4, <1>5, <1>6, <1>7, <1>8, <1>9, <1>10, <1>11, <1>12, <1>13
         DEF Next, Step

-----------------------------------------------------------------------------
LEMMA SpecIInv == Spec => []IInv
  BY InitIInv, NextIInv, PTL DEF Spec

(* The types of the model.                                                 *)
THEOREM TypeCorrect == Spec => []TypeOK
  BY SpecIInv, PTL DEF IInv

(* schema_version has no holes, and a version is only being applied when   *)
(* all smaller ones are recorded: run_migrations goes through its sorted   *)
(* files, whoever else does and whoever dies.                              *)
THEOREM MigrationsAreOrdered == Spec => []MigratedInOrder
<1>1. IInv => MigratedInOrder
  <2> SUFFICES ASSUME IInv, NEW v \in recorded \cup {open[p] : p \in Process}, v # 0,
                      NEW u \in Version, u < v, u # Pgvector
               PROVE  u \in recorded
    BY DEF MigratedInOrder
  <2>1. CASE v \in recorded
    BY <2>1 DEF IInv, NoHole
  <2>2. CASE \E p \in Process : v = open[p]
    <3>1. PICK p \in Process : v = open[p]
      BY <2>2
    <3>2. step[p] = "migrating" /\ v \in Version /\ \A w \in todo[p] : v <= w
      BY <3>1 DEF IInv, InTurn, TypeOK
    <3>3. u \notin todo[p]
      <4>1. u \in Nat /\ v \in Nat
        BY <3>2, StartupAssumption
      <4> QED  BY <3>2, <4>1
    <3> QED  BY <3>2, <3>3 DEF IInv, Looked
  <2> QED  BY <2>1, <2>2
<1> QED  BY <1>1, SpecIInv, PTL

(* A process that has started finds every table, and a store that relies   *)
(* on the vector extension finds it, whatever the others do.               *)
THEOREM StartedIsMigrated == Spec => []ReadyIsMigrated
<1>1. IInv => ReadyIsMigrated
  BY DEF IInv, ReadyIsMigrated, Migrated, StoreHasType
<1> QED  BY <1>1, SpecIInv, PTL

-----------------------------------------------------------------------------
(* What the history of the starts says about the present.  A package that  *)
(* did not come late was there when the stores were created, and rows      *)
(* without a vector are left over by a reset alone.                        *)
HistoryHasType == history \in [late : BOOLEAN, torn : BOOLEAN, quiet : SUBSET Process]

StoresAreCurrent ==
  package /\ ~ history.late =>
    \A p \in Process : step[p] \in {"adding", "ready", "embedding"} => vec[p]

(* A process nobody has disturbed: nobody has recorded what it has still   *)
(* to look at, and it left the extension out only without the package.     *)
Undisturbed ==
  \A p \in history.quiet :
    /\ step[p] = "migrating" => /\ \A v \in todo[p] : v \notin recorded
                                /\ package => Pgvector \in recorded \cup todo[p]
    /\ step[p] = "adding" => Pgvector \in recorded

HInv == HistoryHasType /\ StoresAreCurrent /\ RowsAreSearchable /\ Undisturbed

LEMMA InitHInv == Init => HInv
  BY DEF Init, HInv, HistoryHasType, StoresAreCurrent, RowsAreSearchable, Undisturbed

LEMMA NextHInv == IInv /\ HInv /\ [Next]_vars => HInv'
<1> SUFFICES ASSUME IInv, HInv, [Next]_vars PROVE HInv'
  OBVIOUS
<1> USE StartupAssumption DEF IInv, TypeOK, HInv, HistoryHasType
<1>1. CASE Install
  BY <1>1 DEF Install, locals, StoresAreCurrent, RowsAreSearchable, Undisturbed
<1>2. ASSUME NEW p \in Process, NEW d \in Dimension, NEW reset, Start(p, d, reset) PROVE HInv'
  <2>1. HistoryHasType'
    BY <1>2 DEF Start
  <2>2. StoresAreCurrent' /\ RowsAreSearchable'
    BY <1>2 DEF Start, GoTo, Idle, StoresAreCurrent, RowsAreSearchable
  <2>3. Undisturbed'
    BY <1>2 DEF Start, GoTo, Undisturbed
  <2> QED  BY <2>1, <2>2, <2>3
<1>3. ASSUME NEW p \in Process, Reset(p) PROVE HInv'
  <2>1. HistoryHasType' /\ StoresAreCurrent'
    BY <1>3, ZenonT(60) DEF Reset, GoTo, StoresAreCurrent
  <2>2. RowsAreSearchable'
    BY <1>3 DEF Reset, GoTo, DropColumn, DeleteRows, RowsAreSearchable
  <2>3. Undisturbed'
    BY <1>3 DEF Reset, GoTo, Undisturbed
  <2> QED  BY <2>1, <2>2, <2>3
<1>4. ASSUME NEW p \in Process, Connect(p) PROVE HInv'
  <2>1. HistoryHasType' /\ StoresAreCurrent' /\ RowsAreSearchable'
    BY <1>4 DEF Connect, GoTo, Disturb, StoresAreCurrent, RowsAreSearchable
  <2>2. Undisturbed'
    BY <1>4 DEF Connect, GoTo, Disturb, Undisturbed
  <2> QED  BY <2>1, <2>2
<1>5. ASSUME NEW p \in Process, NEW v \in Version, Skip(p, v) PROVE HInv'
  BY <1>5 DEF Skip, Upcoming, Disturb, StoresAreCurrent, RowsAreSearchable, Undisturbed
<1>6. ASSUME NEW p \in Process, NEW v \in Version, Apply(p, v) PROVE HInv'
  <2>1. HistoryHasType' /\ StoresAreCurrent' /\ RowsAreSearchable'
    BY <1>6 DEF Apply, GoTo, Disturb, Upcoming, StoresAreCurrent, RowsAreSearchable
  <2>2. Undisturbed'
    BY <1>6 DEF Apply, GoTo, Disturb, Upcoming, Undisturbed
  <2> QED  BY <2>1, <2>2
<1>7. ASSUME NEW p \in Process, Commit(p) PROVE HInv'
  <2>1. HistoryHasType' /\ StoresAreCurrent' /\ RowsAreSearchable'
    BY <1>7 DEF Commit, Disturb, StoresAreCurrent, RowsAreSearchable
  <2>2. Undisturbed'
    <3>1. history'.quiet \subseteq {p} /\ history'.quiet \subseteq history.quiet
      BY <1>7 DEF Commit, Disturb
    <3>2. /\ recorded' = recorded \cup {open[p]} /\ todo'[p] = todo[p] \ {open[p]}
          /\ step' = step /\ package' = package /\ step[p] = "migrating"
      BY <1>7 DEF Commit
    <3>3. p \in history.quiet => /\ \A v \in todo[p] : v \notin recorded
                                 /\ package => Pgvector \in recorded \cup todo[p]
      BY <3>2 DEF Undisturbed
    <3>4. p \in history.quiet => /\ \A v \in todo'[p] : v \notin recorded'
                                 /\ package' => Pgvector \in recorded' \cup todo'[p]
      BY <3>2, <3>3
    <3> QED  BY <3>1, <3>2, <3>4 DEF Undisturbed
  <2> QED  BY <2>1, <2>2
<1>8. ASSUME NEW p \in Process, Create(p) PROVE HInv'
  <2>1. HistoryHasType' /\ RowsAreSearchable'
    BY <1>8 DEF Create, GoTo, Disturb, RowsAreSearchable
  <2>2. StoresAreCurrent'
    BY <1>8 DEF Create, GoTo, Disturb, StoresAreCurrent
  <2>3. Undisturbed'
    BY <1>8 DEF Create, GoTo, Disturb, Undisturbed
  <2> QED  BY <2>1, <2>2, <2>3
<1>9. ASSUME NEW p \in Process, AddColumn(p) PROVE HInv'
  <2>1. HistoryHasType' /\ StoresAreCurrent' /\ RowsAreSearchable'
    BY <1>9 DEF AddColumn, GoTo, Disturb, StoresAreCurrent, RowsAreSearchable
  <2>2. Undisturbed'
    BY <1>9 DEF AddColumn, GoTo, Disturb, Undisturbed
  <2> QED  BY <2>1, <2>2
<1>10. ASSUME NEW p \in Process, NEW i \in Item, Embed(p, i) PROVE HInv'
  BY <1>10 DEF Embed, GoTo, StoresAreCurrent, RowsAreSearchable, Undisturbed
<1>11. ASSUME NEW p \in Process, Persist(p) PROVE HInv'
  <2>1. HistoryHasType' /\ StoresAreCurrent' /\ Undisturbed'
    BY <1>11 DEF Persist, GoTo, StoresAreCurrent, Undisturbed
  <2>2. RowsAreSearchable'
    BY <1>11 DEF Persist, GoTo, StoresAreCurrent, RowsAreSearchable
  <2> QED  BY <2>1, <2>2
<1>12. ASSUME NEW p \in Process, Crash(p) PROVE HInv'
  <2>1. HistoryHasType' /\ StoresAreCurrent'
    BY <1>12 DEF Crash, GoTo, StoresAreCurrent
  <2>2. RowsAreSearchable'
    BY <1>12 DEF Crash, GoTo, RowsAreSearchable
  <2>3. Undisturbed'
    BY <1>12 DEF Crash, GoTo, Undisturbed
  <2> QED  BY <2>1, <2>2, <2>3
<1>13. CASE UNCHANGED vars
  BY <1>13 DEF vars, locals, StoresAreCurrent, RowsAreSearchable, Undisturbed
<1> QED  BY <1>1, <1>2, <1>3, <1>4, <1>5, <1>6, <1>7, <1>8, <1>9, <1>10, <1>11, <1>12, <1>13
         DEF Next, Step

LEMMA SpecHInv == Spec => []HInv
  BY InitHInv, NextHInv, SpecIInv, PTL DEF Spec

(* Search finds every row, unless the package came late or a reset is half *)
(* done: no other order of starts, resets and deaths leaves a row without  *)
(* its vector.                                                             *)
THEOREM SearchFindsRows == Spec => []RowsAreSearchable
  BY SpecHInv, PTL DEF HInv

(* A start nobody disturbs raises only for a reset of an empty database,   *)
(* whatever dead and failed processes have left behind.                    *)
THEOREM UndisturbedStartsSucceed == Spec => QuietStartSucceeds
<1> DEFINE Succeeds ==
      \A p \in history.quiet :
        step'[p] = "failed" /\ Starting(p) => step[p] = "resetting" /\ 1 \notin recorded
<1>1. IInv /\ HInv /\ [Next]_vars => [Succeeds]_vars
  <2> SUFFICES ASSUME IInv, HInv, Next, NEW p \in history.quiet, step'[p] = "failed", Starting(p)
               PROVE  step[p] = "resetting" /\ 1 \notin recorded
    OBVIOUS
  <2>1. p \in Process /\ step[p] \notin {"failed", "embedding"}
    BY DEF HInv, HistoryHasType, Starting, Idle
  <2>u. step[p] = "migrating" => \A v \in todo[p] : v \notin recorded
    BY DEF HInv, Undisturbed
  <2> USE DEF IInv, TypeOK, GoTo
  <2>2. CASE Install
    BY <2>1, <2>2 DEF Install, locals
  <2>3. ASSUME NEW q \in Process, NEW d \in Dimension, NEW reset, Start(q, d, reset) PROVE FALSE
    BY <2>1, <2>3 DEF Start
  <2>4. ASSUME NEW q \in Process, Connect(q) \/ Commit(q) \/ Create(q) PROVE FALSE
    BY <2>1, <2>4 DEF Connect, Commit, Create
  <2>5. ASSUME NEW q \in Process, Persist(q) \/ Crash(q) PROVE FALSE
    BY <2>1, <2>5 DEF Persist, Crash
  <2>6. ASSUME NEW q \in Process, NEW i, Embed(q, i) PROVE FALSE
    BY <2>1, <2>6 DEF Embed
  <2>7. ASSUME NEW q \in Process, NEW v \in Version, Skip(q, v) PROVE FALSE
    BY <2>1, <2>7 DEF Skip
  <2>8. ASSUME NEW q \in Process, NEW v \in Version, Apply(q, v) PROVE FALSE
    <3>1. step'[q] = "failed" /\ q = p
      BY <2>1, <2>8 DEF Apply
    <3>2. v \in recorded /\ step[p] = "migrating" /\ v \in todo[p]
      BY <2>1, <2>8, <3>1 DEF Apply, Upcoming
    <3> QED  BY <2>u, <3>2
  <2>9. ASSUME NEW q \in Process, AddColumn(q) PROVE FALSE
    BY <2>1, <2>9 DEF AddColumn, HInv, Undisturbed
  <2>10. ASSUME NEW q \in Process, Reset(q) PROVE step[p] = "resetting" /\ 1 \notin recorded
    BY <2>1, <2>10 DEF Reset
  <2> QED  BY <2>2, <2>3, <2>4, <2>5, <2>6, <2>7, <2>8, <2>9, <2>10 DEF Next, Step
<1> QED  BY <1>1, SpecIInv, SpecHInv, PTL DEF Spec, QuietStartSucceeds
=============================================================================
