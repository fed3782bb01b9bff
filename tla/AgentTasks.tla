----------------------------- MODULE AgentTasks -----------------------------
(***************************************************************************)
(* The owner's assistant and the task system:                              *)
(*                                                                         *)
(*   OwnerAIOrchestrator   app/agents/owner_ai/orchestrator.py             *)
(*   AgentRegistry and the specialist agents   app/agents/                 *)
(*   TaskService and its transition table      app/core/tasks/, task_state *)
(*   the routes on tasks                       app/api/v1/tasks.py         *)
(*                                                                         *)
(* An orchestration gives every agent of its plan a task, in turn, and     *)
(* commits at each step; whatever raises makes the execution FAILED.  The  *)
(* routes read a task without a lock and write it when they commit.        *)
(***************************************************************************)
EXTENDS Integers, Sequences, FiniteSets

CONSTANTS
  Sessions,
  Runs,     \* orchestrations that may be started
  Tasks,    \* task rows that may be created
  None

ALLOWED_TASK_TRANSITIONS == [
  CREATED          |-> {"ASSIGNED", "IN_PROGRESS", "CANCELLED"},
  ASSIGNED         |-> {"IN_PROGRESS", "CANCELLED"},
  IN_PROGRESS      |-> {"WAITING_DATA", "WAITING_APPROVAL", "COMPLETED", "FAILED", "BLOCKED", "CANCELLED"},
  WAITING_DATA     |-> {"IN_PROGRESS", "CANCELLED", "FAILED"},
  WAITING_APPROVAL |-> {"IN_PROGRESS", "COMPLETED", "CANCELLED", "FAILED"},
  COMPLETED |-> {}, FAILED |-> {}, BLOCKED |-> {}, CANCELLED |-> {} ]

TaskStatus == DOMAIN ALLOWED_TASK_TRANSITIONS

ValidTaskMove(from, to) == from = to \/ to \in ALLOWED_TASK_TRANSITIONS[from]

(* The agents an objective calls for, by the words in it.                    *)
target_agents == {
  <<"ai_analyst", "ai_sales", "ai_client_manager", "ai_support">>,
  <<"ai_client_manager", "ai_support">>,
  <<"ai_support", "ai_analyst">>,
  <<"ai_analyst", "ai_sales", "ai_client_manager">> }

(* What an agent returns: an answer of its own; FAILED if the model or one   *)
(* of its steps raises; BLOCKED if it is disabled.                           *)
Answer == {"COMPLETED", "FAILED", "BLOCKED", "WAITING_APPROVAL"}
AnalystAnswers       == {"COMPLETED"}
SalesAnswers         == {"COMPLETED", "WAITING_APPROVAL"}   \* a discount
ClientManagerAnswers == {"COMPLETED", "WAITING_APPROVAL"}   \* a change of configuration
SupportAnswers       == {"COMPLETED", "WAITING_APPROVAL"}   \* a remedy with a high risk
Failures == {"FAILED"}
Refusals == {"BLOCKED"}

AnswersOf(agent) ==
  Failures \cup Refusals \cup
    (CASE agent = "ai_analyst"        -> AnalystAnswers
       [] agent = "ai_sales"          -> SalesAnswers
       [] agent = "ai_client_manager" -> ClientManagerAnswers
       [] agent = "ai_support"        -> SupportAnswers)

(* The agents that are permitted a tool which creates a task.                *)
create_task_tools == {"ai_sales", "ai_client_manager", "ai_support"}

TaskFor(answer) == IF answer = "BLOCKED" THEN "FAILED" ELSE answer
-----------------------------------------------------------------------------
VARIABLES
  run,        \* status of the owner_ai_executions rows
  advice,     \* runs whose recommendation is stored
  task,       \* status of the tasks rows
  approvals,  \* approvals rows the agents have left: of which run, for which task
  tx,         \* the requests
  asked,      \* approvals the agents of a run have asked for
  lost        \* runs whose request was lost

vars == <<run, advice, task, approvals, tx, asked, lost>>
ghosts == <<asked, lost>>

RunStatus == {"CREATED", "PLANNING", "DELEGATING", "ANALYZING", "COMPLETED", "PARTIAL", "FAILED"}
Ended == {"COMPLETED", "PARTIAL", "FAILED"}
Approval == [run : Runs, task : Tasks]
SessionRow == [pc      : {"idle", "created", "planning", "delegating", "waiting", "answered", "editing"},
               run     : Runs \cup {None},
               plan    : {SubSeq(p, i, Len(p)) : p \in target_agents, i \in 1..4} \cup {<<>>},
               task    : Tasks \cup {None},
               copy    : {"NONE"} \cup TaskStatus,   \* the task as it was read
               answer  : Answer \cup {"NONE"},
               pending : SUBSET Approval,            \* flushed, not committed
               helped  : BOOLEAN,                    \* the agent has created a task
               failed  : BOOLEAN]                    \* has_partial_failure

Setting == None \notin Runs

Idle == [pc |-> "idle", run |-> None, plan |-> <<>>, task |-> None, copy |-> "NONE",
         answer |-> "NONE", pending |-> {}, helped |-> FALSE, failed |-> FALSE]

Init ==
  /\ run = [r \in Runs |-> "NONE"]
  /\ advice = {}
  /\ task = [t \in Tasks |-> "NONE"]
  /\ approvals = {}
  /\ tx = [s \in Sessions |-> Idle]
  /\ asked = {} /\ lost = {}
-----------------------------------------------------------------------------
Move(s, row) == tx' = [tx EXCEPT ![s] = row]
Leave(s) == Move(s, Idle)

(* A commit stores what the session has flushed.                             *)
CommitRun(s, status) ==
  /\ run' = [run EXCEPT ![tx[s].run] = status]
  /\ approvals' = approvals \cup tx[s].pending

(* orchestrate, at a delegation depth that is allowed.                       *)
StartRun(s, r) ==
  /\ tx[s].pc = "idle"
  /\ run[r] = "NONE"
  /\ run' = [run EXCEPT ![r] = "CREATED"]
  /\ Move(s, [Idle EXCEPT !.pc = "created", !.run = r])
  /\ UNCHANGED <<advice, task, approvals, ghosts>>

PlanRun(s) ==
  /\ tx[s].pc = "created"
  /\ CommitRun(s, "PLANNING")
  /\ Move(s, [tx[s] EXCEPT !.pc = "planning"])
  /\ UNCHANGED <<advice, task, ghosts>>

(* The health of the business and the context are read, the agents chosen.   *)
ChooseAgents(s, plan) ==
  /\ tx[s].pc = "planning"
  /\ CommitRun(s, "DELEGATING")
  /\ Move(s, [tx[s] EXCEPT !.pc = "delegating", !.plan = plan])
  /\ UNCHANGED <<advice, task, ghosts>>

(* create_task commits; a task that is assigned is never CREATED.            *)
NewTask(t, status) == task[t] = "NONE" /\ task' = [task EXCEPT ![t] = status]

CreateTask(s, t) ==
  /\ tx[s].pc = "delegating" /\ tx[s].plan # <<>>
  /\ NewTask(t, "ASSIGNED")
  /\ Move(s, [tx[s] EXCEPT !.pc = "waiting", !.task = t, !.copy = "ASSIGNED"])
  /\ UNCHANGED <<run, advice, approvals, ghosts>>

(* A task by an agent at work, before it asks for an approval.               *)
AgentCreatesTask(s, t) ==
  /\ tx[s].pc = "waiting" /\ ~ tx[s].helped
  /\ Head(tx[s].plan) \in create_task_tools
  /\ NewTask(t, "ASSIGNED")
  /\ Move(s, [tx[s] EXCEPT !.helped = TRUE])
  /\ UNCHANGED <<run, advice, approvals, ghosts>>

(* delegate_task: the agent answers; one that needs an approval flushes it.  *)
AgentAnswers(s, answer) ==
  LET new == IF answer = "WAITING_APPROVAL" THEN {[run |-> tx[s].run, task |-> tx[s].task]} ELSE {} IN
  /\ tx[s].pc = "waiting" /\ answer \in AnswersOf(Head(tx[s].plan))
  /\ answer = "BLOCKED" => ~ tx[s].helped
  /\ Move(s, [tx[s] EXCEPT !.pc = "answered", !.answer = answer, !.pending = @ \cup new])
  /\ asked' = asked \cup new
  /\ UNCHANGED <<run, advice, task, approvals, lost>>

(* The except clause around all of it.                                       *)
FailRun_Abandoned(s) == UNCHANGED <<run, approvals>> /\ Leave(s)
FailRun_RolledBack(s) == run' = [run EXCEPT ![tx[s].run] = "FAILED"] /\ UNCHANGED approvals /\ Leave(s)
FailRun(s) == CommitRun(s, "FAILED") /\ Leave(s)

(* The task is given the status of the answer; if that is refused, or the    *)
(* agent has failed, FAILED; if that is refused too, the run has failed.     *)
RecordAnswer(s) ==
  LET row    == tx[s]
      first  == TaskFor(row.answer)
      failed == row.failed \/ first = "FAILED" \/ ~ ValidTaskMove(row.copy, first)
      status == IF ValidTaskMove(row.copy, first) THEN first ELSE "FAILED"
  IN
  /\ row.pc = "answered"
  /\ IF ValidTaskMove(row.copy, status)
     THEN /\ task' = [task EXCEPT ![row.task] = status]
          /\ approvals' = approvals \cup row.pending
          /\ Move(s, [row EXCEPT !.pc = "delegating", !.plan = Tail(@), !.task = None, !.copy = "NONE",
                                 !.answer = "NONE", !.pending = {}, !.helped = FALSE, !.failed = failed])
          /\ UNCHANGED run
     ELSE FailRun(s) /\ UNCHANGED task
  /\ UNCHANGED <<advice, ghosts>>

(* Every agent has answered: ANALYZING, the recommendation, the result.      *)
(* Three commits; while no task can be completed, none is ever reached.      *)
CreateRecommendation(r) == advice' = advice \cup {r}

Conclude(s) ==
  /\ CommitRun(s, IF tx[s].failed THEN "PARTIAL" ELSE "COMPLETED")
  /\ CreateRecommendation(tx[s].run)
  /\ Leave(s)

(* The health of the business or the context cannot be had.                  *)
Trouble(s) == FailRun(s) /\ UNCHANGED advice

EndRun(s) ==
  /\ \/ tx[s].pc = "planning"
     \/ tx[s].pc = "delegating" /\ tx[s].plan = <<>>
  /\ IF tx[s].pc = "planning" THEN Trouble(s) ELSE Conclude(s)
  /\ UNCHANGED <<task, asked, lost>>

(* The request is lost, or the database refuses a statement and then the     *)
(* commit of FAILED as well: the execution stays as it was committed last.   *)
Lose(s) ==
  /\ tx[s].run # None
  /\ lost' = lost \cup {tx[s].run}
  /\ asked' = asked \ tx[s].pending
  /\ Leave(s)
  /\ UNCHANGED <<run, advice, task, approvals>>
-----------------------------------------------------------------------------
(* POST /tasks, /tasks/{id}/assign, /complete and /cancel.                   *)
PostTask(t, status) ==
  /\ NewTask(t, status)
  /\ UNCHANGED <<run, advice, approvals, tx, ghosts>>

ReadTask(s, t) ==
  /\ tx[s].pc = "idle"
  /\ task[t] # "NONE"
  /\ Move(s, [Idle EXCEPT !.pc = "editing", !.task = t, !.copy = task[t]])
  /\ UNCHANGED <<run, advice, task, approvals, ghosts>>

(* An assignment moves a task only if it is CREATED.                         *)
CommitTask(s, target) ==
  LET row == tx[s]
      moves == /\ ValidTaskMove(row.copy, target) /\ row.copy # target
               /\ target = "ASSIGNED" => row.copy = "CREATED"
  IN
  /\ row.pc = "editing"
  /\ task' = IF moves THEN [task EXCEPT ![row.task] = target] ELSE task
  /\ Leave(s)
  /\ UNCHANGED <<run, advice, approvals, ghosts>>

Quiet == (\A s \in Sessions : tx[s].pc = "idle") /\ UNCHANGED vars

Next ==
  \/ \E s \in Sessions, r \in Runs : StartRun(s, r)
  \/ \E s \in Sessions, plan \in target_agents : ChooseAgents(s, plan)
  \/ \E s \in Sessions, t \in Tasks : CreateTask(s, t) \/ AgentCreatesTask(s, t) \/ ReadTask(s, t)
  \/ \E s \in Sessions, answer \in Answer : AgentAnswers(s, answer)
  \/ \E s \in Sessions : PlanRun(s) \/ RecordAnswer(s) \/ EndRun(s) \/ Lose(s)
  \/ \E s \in Sessions, target \in {"ASSIGNED", "COMPLETED", "CANCELLED"} : CommitTask(s, target)
  \/ \E t \in Tasks, status \in {"CREATED", "ASSIGNED"} : PostTask(t, status)
  \/ Quiet

Spec == Init /\ [][Next]_vars
-----------------------------------------------------------------------------
(* Every variable keeps its type.                                            *)
TypeOK ==
  /\ run \in [Runs -> {"NONE"} \cup RunStatus]
  /\ advice \subseteq Runs
  /\ task \in [Tasks -> {"NONE"} \cup TaskStatus]
  /\ approvals \subseteq Approval /\ asked \subseteq Approval
  /\ tx \in [Sessions -> SessionRow]
  /\ lost \subseteq Runs

(* What an agent has asked the owner to approve survives the failure of the  *)
(* run it was asked in: an ended run has stored every approval of its agents.*)
ApprovalsSurvive == \A a \in asked : run[a.run] \in Ended => a \in approvals

(* A run that nobody works on has ended, or its request was lost: no error   *)
(* leaves an execution in PLANNING or DELEGATING.                            *)
NoRunForgotten ==
  \A r \in Runs : \/ run[r] \in Ended \cup {"NONE"} \/ r \in lost
                  \/ \E s \in Sessions : tx[s].run = r
=============================================================================
