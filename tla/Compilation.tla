----------------------------- MODULE Compilation -----------------------------
(***************************************************************************)
(* Turns of a conversation on one workspace: the calls of                  *)
(* Compiler.compile_into_workspace (llmasm/compiler/compiler.py) with the  *)
(* repair loop (compiler/repair.py), and the goals they create, steer and  *)
(* continue through GoalTracker (goals/tracker.py).  Several turns may be  *)
(* under way at once; each storage call is a step.  What a planner's reply *)
(* says is left to Proposals.tla: here it is valid or not.                 *)
(***************************************************************************)
EXTENDS Naturals, Sequences

CONSTANTS
  Turn,         \* turns; also the id of the goal a turn creates and of its text
  Closer,       \* the turns that may close the active goal instead of compiling
  Reply,        \* for each turn, what the planner may answer in it
  Valid(_),     \* whether a reply parses and no validator finds an issue
  Wording,      \* the replies with a goal_update_text
  MaxAttempts,  \* RuntimeConfig.compiler_max_attempts
  MaxCrashes,   \* how often a process dies
  None

ASSUME TurnAssumption == None \notin Turn /\ None # "new" /\ Closer \subseteq Turn
ASSUME ReplyAssumption == ~Valid(None)
ASSUME AttemptsAssumption == MaxAttempts \in Nat \ {0} /\ MaxCrashes \in Nat

VARIABLES
  goal,       \* Goal rows: status, text (whose words it holds), task graph, updated_at
  phase,      \* where a turn stands
  action,     \* its goal action
  target,     \* the goal it works for
  seen,       \* the text of that goal when the turn began
  tries,      \* planner calls so far
  accepted,   \* the reply it accepted
  copy,       \* the Goal object between load_goal and update_goal
  taskGraph,  \* the reply its persisted task graph was made from
  supports,   \* supports_goal edges, from task graphs (turns) to goals
  failures,   \* turns with a compilation_failures row
  crashes,    \* turns whose process died
  since,      \* history: the updates made before the turn read the text it uses
  log         \* history: the goal updates that were made, oldest first

locals == <<action, target, seen, tries, accepted, copy, since>>
store  == <<goal, taskGraph, supports, failures>>
vars   == <<goal, phase, action, target, seen, tries, accepted, copy,
            taskGraph, supports, failures, crashes, since, log>>

Replies == UNION {Reply[t] : t \in Turn}

Phase == {"idle", "opening", "planning", "accepted", "rejecting", "graphed",
          "loading", "updating", "done", "failed", "dead"}
Action == {"new", "steer", "continue", "close"}
Status == {"absent", "provisional", "active", "closed"}
GoalRow == [status : Status, text : Seq(Turn), graph : Turn \cup {None}, updated : Nat]

Update == [turn : Turn, goal : Turn, since : Nat, action : Action \cup {"restore"}]

NoGoal == [status |-> "absent", text |-> <<>>, graph |-> None, updated |-> 0]

InFlight(t) == phase[t] \notin {"idle", "done", "failed", "dead"}

ActiveGoals == {g \in Turn : goal[g].status = "active"}

(* Storage.load_active_goal returns g: of the active goals, the one that   *)
(* was updated last.                                                       *)
Latest(g) ==
  IF ActiveGoals = {} THEN g = None
  ELSE g \in ActiveGoals /\ \A h \in ActiveGoals : goal[h].updated <= goal[g].updated

Init ==
  /\ goal = [g \in Turn |-> NoGoal]
  /\ phase = [t \in Turn |-> "idle"]
  /\ action = [t \in Turn |-> None]
  /\ target = [t \in Turn |-> None]
  /\ seen = [t \in Turn |-> <<>>]
  /\ tries = [t \in Turn |-> 0]
  /\ accepted = [t \in Turn |-> None]
  /\ copy = [t \in Turn |-> NoGoal]
  /\ taskGraph = [t \in Turn |-> None]
  /\ supports = {}
  /\ failures = {}
  /\ crashes = 0
  /\ since = [t \in Turn |-> 0]
  /\ log = <<>>

GoTo(t, p) == phase' = [phase EXCEPT ![t] = p]

(* The active goal is loaded and the prompt classified: new when there is  *)
(* none, otherwise whatever the classifier makes of the prompt.            *)
Classify(t, a, g) ==
  /\ phase[t] = "idle"
  /\ Latest(g)
  /\ a # "new" => g # None
  /\ a = "close" => t \in Closer
  /\ action' = [action EXCEPT ![t] = a]
  /\ target' = [target EXCEPT ![t] = IF a = "new" THEN t ELSE g]
  /\ seen' = [seen EXCEPT ![t] = IF a = "new" THEN <<>> ELSE goal[g].text]
  /\ since' = [since EXCEPT ![t] = Len(log)]
  /\ GoTo(t, CASE a = "new" -> "opening" [] a = "close" -> "loading" [] OTHER -> "planning")
  /\ UNCHANGED <<store, tries, accepted, copy, crashes, log>>

(* Seeded fault: the goal is active from the start.                        *)
OpenGoalFault(t) ==
  /\ phase[t] = "opening"
  /\ goal' = [goal EXCEPT ![t] = [status |-> "active", text |-> <<t>>, graph |-> None,
                                     updated |-> 0]]
  /\ GoTo(t, "planning")
  /\ UNCHANGED <<locals, taskGraph, supports, failures, crashes, log>>

(* GoalTracker.create_provisional_goal, before the planner is asked.       *)
OpenGoal(t) ==
  /\ phase[t] = "opening"
  /\ goal' = [goal EXCEPT ![t] = [status |-> "provisional", text |-> <<t>>, graph |-> None,
                                     updated |-> 0]]
  /\ GoTo(t, "planning")
  /\ UNCHANGED <<locals, taskGraph, supports, failures, crashes, log>>

(* One round of compile_with_repair: a valid reply is accepted, any other  *)
(* is sent back with its issues until the attempts are used up.            *)
AskPlanner(t, reply) ==
  /\ phase[t] = "planning"
  /\ tries' = [tries EXCEPT ![t] = @ + 1]
  /\ IF Valid(reply)
       THEN accepted' = [accepted EXCEPT ![t] = reply] /\ GoTo(t, "accepted")
       ELSE /\ UNCHANGED accepted
            /\ GoTo(t, IF tries[t] + 1 < MaxAttempts THEN "planning" ELSE "rejecting")
  /\ UNCHANGED <<store, action, target, seen, copy, since, crashes, log>>

(* The provider raised: no CompilationError, so nothing is recorded.       *)
PlannerRaises(t) ==
  /\ phase[t] = "planning"
  /\ GoTo(t, "failed")
  /\ UNCHANGED <<store, locals, crashes, log>>

(* Seeded fault: instead of giving up, the turn compiles the prompt again. *)
RecordFailureFault(t) ==
  /\ phase[t] = "rejecting"
  /\ tries' = [tries EXCEPT ![t] = 0]
  /\ GoTo(t, "planning")
  /\ UNCHANGED <<store, action, target, seen, accepted, copy, since, crashes, log>>

(* except CompilationError: the failure is persisted and raised again.     *)
RecordFailure(t) ==
  /\ phase[t] = "rejecting"
  /\ failures' = failures \cup {t}
  /\ GoTo(t, "failed")
  /\ UNCHANGED <<goal, taskGraph, supports, locals, crashes, log>>

(* Seeded fault: the goal is updated before the graph is saved.            *)
PersistGraphFault(t) ==
  /\ phase[t] = "accepted"
  /\ GoTo(t, "graphed")
  /\ UNCHANGED <<store, locals, crashes, log>>

(* The accepted proposal is normalised and persisted as a task graph.      *)
PersistGraph(t) ==
  /\ phase[t] = "accepted"
  /\ taskGraph' = [taskGraph EXCEPT ![t] = accepted[t]]
  /\ GoTo(t, "graphed")
  /\ UNCHANGED <<goal, supports, failures, locals, crashes, log>>

(* The supports_goal edge (and those of the proposal, left out here).      *)
LinkGoal(t) ==
  /\ phase[t] = "graphed"
  /\ supports' = supports \cup {<<t, target[t]>>}
  /\ GoTo(t, "loading")
  /\ UNCHANGED <<goal, taskGraph, failures, locals, crashes, log>>

(* A steer without a goal_update_text writes the text its turn began with. *)
Restores(t) == action[t] = "steer" /\ accepted[t] \notin Wording

(* Seeded fault: the text is taken from before the planner was asked.      *)
LoadGoalFault(t) ==
  /\ phase[t] = "loading"
  /\ copy' = [copy EXCEPT ![t] = [goal[target[t]] EXCEPT !.text = seen[t]]]
  /\ since' = [since EXCEPT ![t] = IF Restores(t) THEN @ ELSE Len(log)]
  /\ GoTo(t, "updating")
  /\ UNCHANGED <<store, action, target, seen, tries, accepted, crashes, log>>

(* GoalTracker reads the goal ...                                          *)
LoadGoal(t) ==
  /\ phase[t] = "loading"
  /\ copy' = [copy EXCEPT ![t] = goal[target[t]]]
  /\ since' = [since EXCEPT ![t] = IF Restores(t) THEN @ ELSE Len(log)]
  /\ GoTo(t, "updating")
  /\ UNCHANGED <<store, action, target, seen, tries, accepted, crashes, log>>

(* Seeded fault: the text of a continue replaces the goal's.               *)
RevisedFault(t) ==
  LET c == copy[t] IN
  CASE action[t] = "new"      -> [c EXCEPT !.status = "active", !.text = <<t>>, !.graph = t]
    [] action[t] = "steer"    -> [c EXCEPT !.status = "active",
                                           !.text = IF Restores(t) THEN seen[t] ELSE <<t>>]
    [] action[t] = "continue" -> [c EXCEPT !.status = "active", !.text = <<t>>]
    [] OTHER                  -> [c EXCEPT !.status = "closed"]

(* ... changes its copy (finalize_goal, steer_goal, continue_goal and      *)
(* close_goal) ...                                                         *)
Revised(t) ==
  LET c == copy[t] IN
  CASE action[t] = "new"      -> [c EXCEPT !.status = "active", !.text = <<t>>, !.graph = t]
    [] action[t] = "steer"    -> [c EXCEPT !.status = "active",
                                           !.text = IF Restores(t) THEN seen[t] ELSE <<t>>]
    [] action[t] = "continue" -> [c EXCEPT !.status = "active", !.text = Append(@, t)]
    [] OTHER                  -> [c EXCEPT !.status = "closed"]

(* ... and writes all of it back.                                          *)
UpdateGoal(t) ==
  /\ phase[t] = "updating"
  /\ goal' = [goal EXCEPT ![target[t]] = [Revised(t) EXCEPT !.updated = Len(log) + 1]]
  /\ log' = Append(log, [turn |-> t, goal |-> target[t], since |-> since[t],
                         action |-> IF Restores(t) THEN "restore" ELSE action[t]])
  /\ GoTo(t, "done")
  /\ UNCHANGED <<locals, taskGraph, supports, failures, crashes>>

Crash(t) ==
  /\ InFlight(t)
  /\ crashes < MaxCrashes
  /\ crashes' = crashes + 1
  /\ GoTo(t, "dead")
  /\ UNCHANGED <<store, locals, log>>

(* The steps of a turn once it has begun.                                  *)
Step(t) ==
  \/ OpenGoal(t) \/ PlannerRaises(t) \/ RecordFailure(t)
  \/ \E reply \in Reply[t] : AskPlanner(t, reply)
  \/ PersistGraph(t) \/ LinkGoal(t) \/ LoadGoal(t) \/ UpdateGoal(t)

Next == \E t \in Turn : (\E a \in Action, g \in Turn \cup {None} : Classify(t, a, g)) \/ Step(t) \/ Crash(t)

Spec == Init /\ [][Next]_vars

(* A turn that has begun goes on; nobody has to begin one.                 *)
FairSpec == Spec /\ \A t \in Turn : WF_vars(Step(t))

-----------------------------------------------------------------------------
TypeOK ==
  /\ goal \in [Turn -> GoalRow]
  /\ phase \in [Turn -> Phase]
  /\ action \in [Turn -> Action \cup {None}]
  /\ target \in [Turn -> Turn \cup {None}]
  /\ seen \in [Turn -> Seq(Turn)]
  /\ tries \in [Turn -> 0..MaxAttempts]
  /\ accepted \in [Turn -> {r \in Replies : Valid(r)} \cup {None}]
  /\ copy \in [Turn -> GoalRow]
  /\ taskGraph \in [Turn -> {r \in Replies : Valid(r)} \cup {None}]
  /\ supports \subseteq Turn \X Turn
  /\ failures \subseteq Turn
  /\ crashes \in 0..MaxCrashes
  /\ since \in [Turn -> Nat]
  /\ log \in Seq(Update)

(* A goal that is or was active has the task graph of an accepted proposal *)
(* behind it, persisted before; a turn that was rejected, raised or died   *)
(* never leaves a goal later turns are classified against.                 *)
ActiveGoalIsBacked ==
  \A g \in Turn : goal[g].status \in {"active", "closed"} =>
    goal[g].graph = g /\ taskGraph[g] # None

(* How a turn ended can be read from storage: a finished compilation has a *)
(* task graph linked to a goal that later turns can find, a rejected one a *)
(* failure row and no trace of a graph (except CompilationError, and the   *)
(* order of the writes behind it).                                         *)
OutcomeIsTold ==
  \A t \in {u \in Turn : action[u] # "close"} :
    /\ phase[t] = "done" => /\ taskGraph[t] # None
                            /\ <<t, target[t]>> \in supports
                            /\ goal[target[t]].status # "provisional"
    /\ t \in failures => /\ taskGraph[t] = None
                         /\ \A g \in Turn : <<t, g>> \notin supports
                         /\ goal[t].status \in {"absent", "provisional"}

(* What an update makes of the text of goal g.                             *)
Retold(text, u, g) ==
  IF u.goal # g THEN text
  ELSE CASE u.action \in {"new", "steer"} -> <<u.turn>>
         [] u.action = "continue" -> Append(text, u.turn)
         [] OTHER -> text

(* What all updates, one after another, make of it.                        *)
Told(g) ==
  LET text[n \in 0..Len(log)] == IF n = 0 THEN <<>> ELSE Retold(text[n-1], log[n], g)
  IN text[Len(log)]

(* Nobody updated the goal between update n's reading of it and its write. *)
Undisturbed(n) ==
  \A i \in log[n].since + 1 .. n - 1 : log[i].goal # log[n].goal

(* A goal's text is what its turns made of it, in the order they wrote,    *)
(* whatever else was going on, as long as none of them read it before      *)
(* another one's write (load_goal, change, update_goal; compiler.py keeps  *)
(* the text of a steer from before the planner was asked).                 *)
TurnsAddUp ==
  \A g \in Turn :
    (\A n \in DOMAIN log : log[n].goal = g => Undisturbed(n)) =>
      goal[g].text = Told(g) \/ goal[g].status = "provisional"

(* The word of a turn that has updated a goal is lost only to a later      *)
(* steer, or to a turn of the same goal that had read it before: reading   *)
(* and writing the whole goal loses nothing to a turn that began later,    *)
(* and nothing of another goal.                                            *)
LostOnlyToOverlap ==
  \A n \in {i \in DOMAIN log : log[i].action \in {"new", "steer", "continue"}} :
    \/ \E i \in DOMAIN goal[log[n].goal].text : goal[log[n].goal].text[i] = log[n].turn
    \/ \E m \in n + 1 .. Len(log) :
         /\ log[m].goal = log[n].goal
         /\ log[m].action = "steer" \/ log[m].since < n

(* Every turn that has begun comes to an end.                              *)
TurnsEnd == \A t \in Turn : InFlight(t) ~> ~InFlight(t)

=============================================================================
