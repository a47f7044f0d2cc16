------------------------------- MODULE Startup -------------------------------
(***************************************************************************)
(* How processes start on one PostgreSQL database: reset_embeddings        *)
(* (tools/reset_embeddings.py, with --reset-embeddings), the migrations    *)
(* (storage/migrate.py), the vector column of the embeddings table         *)
(* (PostgresEmbeddingStore), and the embeddings that started processes     *)
(* write.  The connection is in autocommit mode: each action is one        *)
(* statement, and only a migration is a transaction.  A transaction that   *)
(* meets another one's uncommitted table, extension or version row waits   *)
(* for its end.                                                            *)
(***************************************************************************)
EXTENDS Naturals

CONSTANTS
  Process,
  Version,     \* the numbers of the migration files
  Pgvector,    \* the one that needs the vector extension
  Dimension,   \* embedding_dimensions that processes are configured with
  Item,        \* owners of embeddings; each is embedded once
  MayInstall,  \* whether the extension's package may be installed meanwhile
  MayReset,    \* whether processes may start with --reset-embeddings
  MaxStarts,   \* starts, of all processes together
  MaxCrashes   \* processes that die

ASSUME StartupAssumption ==
  /\ Version \subseteq Nat \ {0} /\ Pgvector \in Version
  /\ Dimension \subseteq Nat \ {0}

VARIABLES
  package,    \* pg_available_extensions lists the vector extension
  recorded,   \* the rows of schema_version
  open,       \* the version a process is applying, in a transaction, or 0
  column,     \* dimensions of embeddings.vector, 0 when there is no column
  rows,       \* rows of embeddings: [item, vector], vector false for NULL
  step,       \* what a process does next
  todo,       \* versions its run_migrations has still to look at
  dim,        \* its configured dimensions
  vec,        \* its store's _pgvector
  item,       \* what it is embedding
  starts, crashes,
  history     \* [late, torn, quiet]: the package came late; a reset died half
              \* done; processes whose start nobody has disturbed

locals == <<step, todo, dim, vec, item>>
vars == <<package, recorded, open, column, rows, locals, starts, crashes, history>>

Idle == {"off", "failed", "refused"}
Steps == Idle \cup {"resetting", "clearing", "connecting", "migrating", "adding", "ready", "embedding"}
Starting(p) == step[p] \notin Idle \cup {"ready", "embedding"}
GoTo(p, s) == step' = [step EXCEPT ![p] = s]

(* Statement of p: whoever else is starting is disturbed.                  *)
Disturb(p) == history' = [history EXCEPT !.quiet = @ \cap {p}]

Init ==
  /\ package \in BOOLEAN
  /\ recorded = {} /\ column = 0 /\ rows = {}
  /\ open = [p \in Process |-> 0]
  /\ step = [p \in Process |-> "off"]
  /\ todo = [p \in Process |-> {}]
  /\ dim = [p \in Process |-> 0]
  /\ vec = [p \in Process |-> FALSE]
  /\ item = [p \in Process |-> 0]
  /\ starts = 0 /\ crashes = 0
  /\ history = [late |-> FALSE, torn |-> FALSE, quiet |-> {}]

(* The package is installed on the database server.                        *)
Install ==
  /\ MayInstall /\ ~package
  /\ package' = TRUE
  /\ history' = [history EXCEPT !.late = TRUE, !.quiet = {}]
  /\ UNCHANGED <<recorded, open, column, rows, locals, starts, crashes>>

(* main() of the chat, with or without --reset-embeddings.                 *)
Start(p, d, reset) ==
  /\ step[p] \in Idle /\ starts < MaxStarts
  /\ starts' = starts + 1
  /\ GoTo(p, IF reset THEN "resetting" ELSE "connecting")
  /\ dim' = [dim EXCEPT ![p] = d]
  /\ vec' = [vec EXCEPT ![p] = FALSE]
  /\ history' = [history EXCEPT !.quiet =
       IF \E q \in Process \ {p} : Starting(q) THEN {} ELSE {p}]
  /\ UNCHANGED <<package, recorded, open, column, rows, todo, item, crashes>>

DropColumn == column' = 0 /\ rows' = {[r EXCEPT !.vector = FALSE] : r \in rows}
DeleteRows == rows' = {} /\ UNCHANGED column

(* Seeded fault: the table is cleared before the column is dropped.        *)
ResetFault(p) ==
  /\ \/ step[p] = "resetting" /\ 1 \notin recorded
        /\ GoTo(p, "failed") /\ UNCHANGED <<column, rows>>
     \/ step[p] = "resetting" /\ 1 \in recorded /\ GoTo(p, "clearing") /\ DeleteRows
     \/ step[p] = "clearing" /\ GoTo(p, "connecting") /\ DropColumn
  /\ history' = [history EXCEPT !.quiet = @ \cap {p}, !.torn = @ /\ step[p] # "clearing"]
  /\ UNCHANGED <<package, recorded, open, todo, dim, vec, item, starts, crashes>>

(* reset_embeddings: the column is dropped, which raises when there is no  *)
(* table yet, and then the table is cleared.                               *)
Reset(p) ==
  /\ \/ step[p] = "resetting" /\ 1 \notin recorded
        /\ GoTo(p, "failed") /\ UNCHANGED <<column, rows>>
     \/ step[p] = "resetting" /\ 1 \in recorded /\ GoTo(p, "clearing") /\ DropColumn
     \/ step[p] = "clearing" /\ GoTo(p, "connecting") /\ DeleteRows
  /\ history' = [history EXCEPT !.quiet = @ \cap {p}, !.torn = @ /\ step[p] # "clearing"]
  /\ UNCHANGED <<package, recorded, open, todo, dim, vec, item, starts, crashes>>

(* Seeded fault: every migration is taken for unapplied.                   *)
ConnectFault(p) ==
  /\ step[p] = "connecting"
  /\ todo' = [todo EXCEPT ![p] = Version]
  /\ GoTo(p, "migrating")
  /\ Disturb(p)
  /\ UNCHANGED <<package, recorded, open, column, rows, dim, vec, item, starts, crashes>>

(* schema_version is created if it is not there, and read.                 *)
Connect(p) ==
  /\ step[p] = "connecting"
  /\ todo' = [todo EXCEPT ![p] = Version \ recorded]
  /\ GoTo(p, "migrating")
  /\ Disturb(p)
  /\ UNCHANGED <<package, recorded, open, column, rows, dim, vec, item, starts, crashes>>

(* The version whose turn it is in the loop over the sorted files.         *)
Upcoming(p, v) == step[p] = "migrating" /\ v \in todo[p] /\ \A u \in todo[p] : v <= u

Skip(p, v) ==
  /\ Upcoming(p, v)
  /\ v = Pgvector /\ ~package
  /\ todo' = [todo EXCEPT ![p] = @ \ {v}]
  /\ Disturb(p)
  /\ UNCHANGED <<package, recorded, open, column, rows, step, dim, vec, item, starts, crashes>>

(* Seeded fault: a version that another process is applying is skipped.    *)
ApplyFault(p, v) ==
  /\ Upcoming(p, v)
  /\ v = Pgvector => package
  /\ open[p] = 0
  /\ IF \E q \in Process : open[q] = v
       THEN todo' = [todo EXCEPT ![p] = @ \ {v}] /\ UNCHANGED <<open, step>>
       ELSE /\ UNCHANGED todo
            /\ IF v \in recorded THEN GoTo(p, "failed") /\ UNCHANGED open
                                 ELSE open' = [open EXCEPT ![p] = v] /\ UNCHANGED step
  /\ Disturb(p)
  /\ UNCHANGED <<package, recorded, column, rows, dim, vec, item, starts, crashes>>

(* The transaction begins: it waits for another one that applies the same  *)
(* version and raises when that version has been recorded since Connect.   *)
Apply(p, v) ==
  /\ Upcoming(p, v)
  /\ v = Pgvector => package
  /\ \A q \in Process : open[q] # v
  /\ IF v \in recorded
       THEN GoTo(p, "failed") /\ UNCHANGED open
       ELSE open' = [open EXCEPT ![p] = v] /\ UNCHANGED step
  /\ Disturb(p)
  /\ UNCHANGED <<package, recorded, column, rows, todo, dim, vec, item, starts, crashes>>

(* The SQL and the row of schema_version take effect together.             *)
Commit(p) ==
  /\ step[p] = "migrating" /\ open[p] # 0
  /\ recorded' = recorded \cup {open[p]}
  /\ todo' = [todo EXCEPT ![p] = @ \ {open[p]}]
  /\ open' = [open EXCEPT ![p] = 0]
  /\ Disturb(p)
  /\ UNCHANGED <<package, column, rows, step, dim, vec, item, starts, crashes>>

(* run_migrations has returned; PostgresEmbeddingStore.create asks for the *)
(* extension, and the constructor for the column.                          *)
Create(p) ==
  /\ step[p] = "migrating" /\ todo[p] = {}
  /\ vec' = [vec EXCEPT ![p] = package]
  /\ GoTo(p, IF ~package \/ column = dim[p] THEN "ready"
             ELSE IF column = 0 THEN "adding" ELSE "refused")
  /\ Disturb(p)
  /\ UNCHANGED <<package, recorded, open, column, rows, todo, dim, item, starts, crashes>>

(* Seeded fault: the column is added without the extension.                *)
AddColumnFault(p) ==
  /\ step[p] = "adding"
  /\ column' = IF column = 0 THEN dim[p] ELSE column
  /\ GoTo(p, "ready")
  /\ Disturb(p)
  /\ UNCHANGED <<package, recorded, open, rows, todo, dim, vec, item, starts, crashes>>

(* ADD COLUMN IF NOT EXISTS: nothing happens when another process has      *)
(* added one since, and without the extension it raises.                   *)
AddColumn(p) ==
  /\ step[p] = "adding"
  /\ IF Pgvector \in recorded
       THEN column' = (IF column = 0 THEN dim[p] ELSE column) /\ GoTo(p, "ready")
       ELSE UNCHANGED column /\ GoTo(p, "failed")
  /\ Disturb(p)
  /\ UNCHANGED <<package, recorded, open, rows, todo, dim, vec, item, starts, crashes>>

(* embed_and_persist for a new owner: the provider is asked.               *)
Embed(p, i) ==
  /\ step[p] = "ready"
  /\ \A r \in rows : r.item # i
  /\ \A q \in Process : item[q] # i
  /\ item' = [item EXCEPT ![p] = i]
  /\ GoTo(p, "embedding")
  /\ UNCHANGED <<package, recorded, open, column, rows, todo, dim, vec, starts, crashes, history>>

(* The vector is persisted. PostgreSQL refuses one that does not fit the   *)
(* column, and nothing catches that.                                       *)
Persist(p) ==
  /\ step[p] = "embedding"
  /\ IF vec[p] /\ column # dim[p]
       THEN GoTo(p, "failed") /\ UNCHANGED rows
       ELSE rows' = rows \cup {[item |-> item[p], vector |-> vec[p]]} /\ GoTo(p, "ready")
  /\ item' = [item EXCEPT ![p] = 0]
  /\ UNCHANGED <<package, recorded, open, column, todo, dim, vec, starts, crashes, history>>

(* Seeded fault: the transaction of a dead process stays open.             *)
CrashFault(p) ==
  /\ step[p] \notin Idle /\ crashes < MaxCrashes
  /\ crashes' = crashes + 1
  /\ GoTo(p, "off")
  /\ item' = [item EXCEPT ![p] = 0]
  /\ history' = [history EXCEPT !.torn = @ \/ step[p] = "clearing", !.quiet = @ \ {p}]
  /\ UNCHANGED <<package, recorded, open, column, rows, todo, dim, vec, starts>>

(* A process dies, and its transaction is rolled back.                     *)
Crash(p) ==
  /\ step[p] \notin Idle /\ crashes < MaxCrashes
  /\ crashes' = crashes + 1
  /\ GoTo(p, "off")
  /\ open' = [open EXCEPT ![p] = 0]
  /\ item' = [item EXCEPT ![p] = 0]
  /\ history' = [history EXCEPT !.torn = @ \/ step[p] = "clearing", !.quiet = @ \ {p}]
  /\ UNCHANGED <<package, recorded, column, rows, todo, dim, vec, starts>>

(* What a process does of its own accord once it is started.               *)
Step(p) ==
  \/ Reset(p) \/ Connect(p) \/ Commit(p) \/ Create(p) \/ AddColumn(p) \/ Persist(p)
  \/ \E v \in Version : Skip(p, v) \/ Apply(p, v)

Next ==
  \/ Install
  \/ \E p \in Process :
       \/ \E d \in Dimension, reset \in {FALSE, MayReset} : Start(p, d, reset)
       \/ Step(p) \/ Crash(p)
       \/ \E i \in Item : Embed(p, i)

Spec == Init /\ [][Next]_vars

(* A started process goes on: its statements return or raise, and one that *)
(* waits for a transaction gets its turn when that has ended.              *)
FairSpec == Spec /\ \A p \in Process : WF_vars(Step(p))

-----------------------------------------------------------------------------
TypeOK ==
  /\ package \in BOOLEAN /\ recorded \subseteq Version
  /\ open \in [Process -> Version \cup {0}]
  /\ step \in [Process -> Steps]
  /\ column \in Dimension \cup {0}
  /\ rows \subseteq [item : Item, vector : BOOLEAN]
  /\ todo \in [Process -> SUBSET Version]
  /\ dim \in [Process -> Dimension \cup {0}] /\ vec \in [Process -> BOOLEAN]
  /\ item \in [Process -> Item \cup {0}]

(* schema_version has no holes: a version is applied only after all        *)
(* smaller ones, whichever processes apply them and whenever they die. The *)
(* vector extension may come later.                                        *)
MigratedInOrder ==
  \A v \in recorded \cup {open[p] : p \in Process} :
    v # 0 => \A u \in Version : u < v /\ u # Pgvector => u \in recorded

(* A process that has started finds every table, and a store that relies   *)
(* on the extension finds it, although others may still be migrating.      *)
ReadyIsMigrated ==
  \A p \in Process : step[p] \in {"ready", "embedding"} =>
    /\ Version \ {Pgvector} \subseteq recorded
    /\ vec[p] => Pgvector \in recorded

(* A start that nobody disturbs never raises, whatever processes that died *)
(* or failed before have left behind, except for a column of other         *)
(* dimensions, which is refused, and a reset of an empty database.         *)
QuietStartSucceeds ==
  [][\A p \in history.quiet :
       step'[p] = "failed" /\ Starting(p) => step[p] = "resetting" /\ 1 \notin recorded]_vars

(* Search finds every row of embeddings: with the extension it skips rows  *)
(* without a vector, and has_embedding would keep them from being embedded *)
(* again. Exempt are a package that came late and a reset that is half     *)
(* done.                                                                   *)
RowsAreSearchable ==
  package /\ ~history.late /\ ~history.torn /\ (\A p \in Process : step[p] # "clearing") =>
    \A r \in rows : r.vector

(* Every start comes to an end: ready, refused, failed or dead. Nobody     *)
(* waits for ever for a transaction.                                       *)
StartsEnd == \A p \in Process : Starting(p) ~> ~Starting(p)
=============================================================================
