-------------------------- MODULE WorkflowApproval --------------------------
(***************************************************************************)
(* Workflow executions and the approvals they wait for:                    *)
(*                                                                         *)
(*   WorkflowEngine             app/core/workflows/engine.py               *)
(*   ApprovalService            app/core/approvals/service.py              *)
(*   ActionAuthorizationService app/core/authority/service.py              *)
(*   POST /executions/{id}/cancel  app/api/v1/workflow_executions.py       *)
(*                                                                         *)
(* As in PaymentSettlement a session is one request.  None of these        *)
(* requests locks a row: it reads an approval and an execution, works on   *)
(* its copies, performs actions in the outside world as it goes, and       *)
(* writes what it changed when it commits.  exec and approval hold         *)
(* committed rows.  An action that calls a model records its usage, and    *)
(* UsageService commits the session there: in the middle of the action,    *)
(* whatever the request has changed so far becomes visible and stays.      *)
(***************************************************************************)
EXTENDS Integers, FiniteSets, Sequences

CONSTANTS
  Sessions,     \* requests that may run at once
  Execs,        \* execution ids, one per event the workflow is triggered by
  Approvals,    \* approval ids
  Acts,         \* actions, told apart by type, target and parameters
  Gated,        \* of HIGH or CRITICAL risk, or an agent that asks for approval
  Commits,      \* that commit the session: call_ai, call_agent
  Delays,       \* the built-in action "delay"
  Actions,      \* the actions of the workflow each execution runs
  MaxSteps,     \* max_steps of the workflows
  MaxRetries,   \* max_retries of the executions
  Ops,          \* the requests made: a subset of OpType
  MaxTries,     \* bound on performances of one approved action
  Crashes,      \* TRUE: processes die, connections are lost, deadlocks are broken
  None

OpType == {"approve", "modify", "reject", "cancel", "stop"}

ASSUME ActsAssumption   == /\ Gated \subseteq Acts /\ Delays \subseteq Acts \ Gated
                           /\ Commits \subseteq Acts \ Delays
ASSUME PlanAssumption   == Actions \in [Execs -> Seq(Acts)]
ASSUME LimitAssumption  == MaxSteps \in Nat \ {0} /\ MaxRetries \in Nat
ASSUME OpAssumption     == Ops \subseteq OpType
ASSUME NoneAssumption   == None \notin Sessions \cup Execs \cup Approvals
ASSUME BoundAssumption  == MaxTries \in Nat /\ Crashes \in BOOLEAN

ExecutionStatus == {"PENDING", "RUNNING", "WAITING_APPROVAL", "WAITING_RETRY", "COMPLETED",
                    "FAILED", "CANCELLED", "TIMED_OUT", "BLOCKED"}
Terminal == {"COMPLETED", "FAILED", "CANCELLED", "TIMED_OUT", "BLOCKED"}

ExecutionTransitions ==
  UNION { {"PENDING"} \X {"RUNNING", "CANCELLED"},
          {"RUNNING"} \X (Terminal \cup {"WAITING_APPROVAL", "WAITING_RETRY"}),
          {"WAITING_APPROVAL", "WAITING_RETRY"} \X {"RUNNING", "FAILED", "CANCELLED"} }

ValidExecutionMove(from, to) == from = to \/ <<from, to>> \in ExecutionTransitions

ApprovalStatus == {"PENDING", "APPROVED", "MODIFIED", "REJECTED", "CANCELLED"}
Decision == [approve |-> "APPROVED", modify |-> "MODIFIED",
             reject |-> "REJECTED", cancel |-> "CANCELLED"]
-----------------------------------------------------------------------------
VARIABLES
  exec,      \* workflow_executions rows
  approval,  \* approvals rows
  tries,     \* how often the action of an approval was performed
  done,      \* which actions were performed with an approval
  tx         \* what each session has read, and how far it is

rows == <<exec, approval>>
vars == <<exec, approval, tries, done, tx>>

ExecRow     == [status  : {"NONE"} \cup ExecutionStatus,
                step    : Nat,
                retries : Nat]
ApprovalRow == [status : {"NONE"} \cup ApprovalStatus,
                exec   : Execs \cup {None},
                act    : Acts \cup {None}]      \* what action_hash binds
SessionRow  == [pc   : {"idle", "loaded", "resume", "run", "commit"},
                op   : OpType \cup {"start", "none"},
                appr : Approvals \cup {None},
                exec : Execs \cup {None},
                old  : ExecRow,                 \* the execution as it was read
                cur  : ExecRow,                 \* and as the session changed it
                asks : BOOLEAN,                 \* a new approval is to be inserted
                kept : BOOLEAN]                 \* the decision is committed already

NoExec == [status |-> "NONE", step |-> 0, retries |-> 0]
Idle   == [pc |-> "idle", op |-> "none", appr |-> None, exec |-> None,
           old |-> NoExec, cur |-> NoExec, asks |-> FALSE, kept |-> FALSE]

Init ==
  /\ exec = [x \in Execs |-> NoExec]
  /\ approval = [a \in Approvals |-> [status |-> "NONE", exec |-> None, act |-> None]]
  /\ tries = [a \in Approvals |-> 0]
  /\ done = [a \in Approvals |-> {}]
  /\ tx = [s \in Sessions |-> Idle]
-----------------------------------------------------------------------------
Move(s, row) == tx' = [tx EXCEPT ![s] = row]

(* An exception: the session is rolled back.  What it did outside stays. *)
RollBack(s) == Move(s, Idle) /\ UNCHANGED rows

(* run_execution_pipeline up to its loop, entered with row, which is        *)
(* RUNNING here.  A run that has just started has not timed out, and no      *)
(* limit of steps is below one.                                              *)
Close(s, row, status) ==
  Move(s, [tx[s] EXCEPT !.pc = "commit", !.cur = [row EXCEPT !.status = status]])

EvaluateConditions(s, row) ==
  \/ Close(s, row, "COMPLETED")                               \* they are not met
  \/ Move(s, [tx[s] EXCEPT !.pc = "run", !.cur = row])

Enter(s, row) ==
  \/ Close(s, row, "TIMED_OUT")
  \/ row.step >= MaxSteps /\ Close(s, row, "BLOCKED")
  \/ row.step < MaxSteps /\ EvaluateConditions(s, row)

(* POST /events: a new execution of the workflow.  The event id is new, so  *)
(* no other session creates an execution for it.                            *)
StartExecution(s, x) ==
  /\ tx[s].pc = "idle"
  /\ exec[x].status = "NONE"
  /\ \A o \in Sessions : tx[o].exec # x
  /\ Move(s, [tx[s] EXCEPT !.pc = "loaded", !.op = "start", !.exec = x])
  /\ UNCHANGED <<rows, tries, done>>

EnterPipeline(s) ==
  /\ tx[s].pc = "loaded" /\ tx[s].op = "start"
  /\ EvaluateConditions(s, [NoExec EXCEPT !.status = "RUNNING"])
  /\ UNCHANGED <<rows, tries, done>>

(* One turn of the loop of run_execution_pipeline. *)
Ended(s)   == tx[s].cur.step >= Len(Actions[tx[s].exec])
NextAct(s) == Actions[tx[s].exec][tx[s].cur.step + 1]

RetriesLeft(row) == row.retries < MaxRetries

RunAction(s) ==
  LET cur == tx[s].cur IN
  /\ tx[s].pc = "run"
  /\ ~ Ended(s)
  /\ \/ /\ NextAct(s) \in Gated
        /\ Move(s, [tx[s] EXCEPT !.pc = "commit", !.asks = TRUE,
                                 !.cur.status = "WAITING_APPROVAL"])
     \/ /\ NextAct(s) \in Delays
        /\ Move(s, [tx[s] EXCEPT !.pc = "commit", !.cur.status = "WAITING_RETRY"])
     \/ /\ NextAct(s) \notin Gated \cup Delays        \* it succeeds
        /\ Move(s, [tx[s] EXCEPT !.cur.step = @ + 1])
     \/ /\ NextAct(s) \notin Gated \cup Delays        \* it fails
        /\ RetriesLeft(cur)
        /\ Move(s, [tx[s] EXCEPT !.pc = "commit",
                                 !.cur = [cur EXCEPT !.status = "WAITING_RETRY", !.retries = @ + 1]])
     \/ /\ NextAct(s) \notin Gated \cup Delays
        /\ ~ RetriesLeft(cur)
        /\ Move(s, [tx[s] EXCEPT !.pc = "commit", !.cur.status = "FAILED"])
  /\ UNCHANGED <<rows, tries, done>>

FinishRun(s) ==
  /\ tx[s].pc = "run"
  /\ Ended(s)
  /\ Move(s, [tx[s] EXCEPT !.pc = "commit", !.cur.status = "COMPLETED"])
  /\ UNCHANGED <<rows, tries, done>>
-----------------------------------------------------------------------------
(* get_approval and the checks up to the new status.  Gated actions are of  *)
(* HIGH or CRITICAL risk: approve and modify are the platform owner's.      *)
LoadApproval(s, a, op) ==
  /\ tx[s].pc = "idle"
  /\ op \in Ops \ {"stop"}
  /\ approval[a].status = "PENDING"
  /\ tries[a] < MaxTries
  /\ Move(s, [tx[s] EXCEPT !.pc = "loaded", !.op = op, !.appr = a, !.exec = approval[a].exec])
  /\ UNCHANGED <<rows, tries, done>>

(* reject and cancel: the execution is read and set to CANCELLED. *)
LoadToCancel_ApprovalOnly(s) ==
  LET row == exec[tx[s].exec] IN
  /\ tx[s].pc = "loaded" /\ tx[s].op \in {"reject", "cancel"}
  /\ Move(s, [tx[s] EXCEPT !.pc = "commit", !.old = row, !.cur = row])
  /\ UNCHANGED <<rows, tries, done>>

LoadToCancel(s) ==
  LET row == exec[tx[s].exec] IN
  /\ tx[s].pc = "loaded" /\ tx[s].op \in {"reject", "cancel"}
  /\ \/ /\ ValidExecutionMove(row.status, "CANCELLED")
        /\ Move(s, [tx[s] EXCEPT !.pc = "commit", !.old = row,
                                 !.cur = [row EXCEPT !.status = "CANCELLED"]])
        /\ UNCHANGED rows
     \/ /\ ~ ValidExecutionMove(row.status, "CANCELLED")
        /\ RollBack(s)
  /\ UNCHANGED <<tries, done>>

(* approve and modify: _resume_workflow_execution reads the execution; with *)
(* no action left it does nothing and only the approval is written.         *)
LoadToResume(s) ==
  LET row == exec[tx[s].exec] IN
  /\ tx[s].pc = "loaded" /\ tx[s].op \in {"approve", "modify"}
  /\ Move(s, [tx[s] EXCEPT !.pc = IF row.step < Len(Actions[tx[s].exec]) THEN "resume" ELSE "commit",
                           !.old = row, !.cur = row])
  /\ UNCHANGED <<rows, tries, done>>

(* evaluate_action with an approval: the action of the execution's current  *)
(* step, or the modified one, has to be the one the approval is bound to.   *)
Requested(s)  == IF tx[s].op = "modify" THEN "modified" ELSE NextAct(s)
Bound_Not(s)  == TRUE
Bound(s)      == Requested(s) \in {"modified", approval[tx[s].appr].act}

(* The action is performed before the execution's status is looked at: a    *)
(* status that cannot become RUNNING raises after the fact.                 *)
PerformAndGoOn(s) ==
  LET cur == tx[s].cur
      a   == tx[s].appr
  IN
  /\ tx[s].pc = "resume"
  /\ Bound(s)
  /\ tries' = [tries EXCEPT ![a] = @ + 1]
  /\ done' = [done EXCEPT ![a] = @ \cup {Requested(s)}]
  /\ \/ /\ ValidExecutionMove(cur.status, "RUNNING")
        /\ Enter(s, [cur EXCEPT !.status = "RUNNING", !.step = @ + 1])
        /\ UNCHANGED rows
     \/ /\ ~ ValidExecutionMove(cur.status, "RUNNING")
        /\ RollBack(s)

(* Not authorised, or the action failed without effect. *)
ResumeFails(s) ==
  LET cur == tx[s].cur IN
  /\ tx[s].pc = "resume"
  /\ \/ /\ ValidExecutionMove(cur.status, "FAILED")
        /\ Move(s, [tx[s] EXCEPT !.pc = "commit", !.cur.status = "FAILED"])
        /\ UNCHANGED rows
     \/ /\ ~ ValidExecutionMove(cur.status, "FAILED")
        /\ RollBack(s)
  /\ UNCHANGED <<tries, done>>

(* POST /executions/{id}/cancel *)
LoadToStop(s, x) ==
  /\ tx[s].pc = "idle"
  /\ "stop" \in Ops
  /\ exec[x].status \notin {"NONE", "COMPLETED", "FAILED", "CANCELLED"}
  /\ Move(s, [tx[s] EXCEPT !.pc = "commit", !.op = "stop", !.exec = x, !.old = exec[x],
                           !.cur = [exec[x] EXCEPT !.status = "CANCELLED"]])
  /\ UNCHANGED <<rows, tries, done>>
-----------------------------------------------------------------------------
(* A commit writes the columns whose value differs from the one read.  A    *)
(* status that went over RUNNING back to its old value is written only if    *)
(* an action in between flushed the session.                                 *)
Column(db, old, new) == IF new = old THEN db ELSE new

WriteExec_StepAdded(s) ==
  LET row == exec[tx[s].exec]
      new == tx[s].cur
  IN exec' = [exec EXCEPT ![tx[s].exec] =
                [status  |-> Column(row.status, tx[s].old.status, new.status),
                 step    |-> row.step + new.step - tx[s].old.step,
                 retries |-> Column(row.retries, tx[s].old.retries, new.retries)]]

WriteExec(s) ==
  LET x   == tx[s].exec
      db  == exec[x]
      old == tx[s].old
      new == tx[s].cur
  IN \E status \in {Column(db.status, old.status, new.status)}
                      \cup (IF new.step # old.step THEN {new.status} ELSE {}) :
       exec' = [exec EXCEPT ![x] = [status  |-> status,
                                    step    |-> Column(db.step, old.step, new.step),
                                    retries |-> Column(db.retries, old.retries, new.retries)]]

(* The approvals after the commit: the session's own decision, and a new    *)
(* approval when the execution has come to a gated action.                  *)
Decided(s) ==
  IF tx[s].appr = None \/ tx[s].kept THEN approval
  ELSE [approval EXCEPT ![tx[s].appr].status = Decision[tx[s].op]]

Commit(s) ==
  /\ tx[s].pc = "commit"
  /\ \/ /\ tx[s].asks
        /\ \E a \in Approvals :
             /\ approval[a].status = "NONE"
             /\ approval' = [Decided(s) EXCEPT ![a] =
                  [status |-> "PENDING", exec |-> tx[s].exec, act |-> NextAct(s)]]
     \/ /\ ~ tx[s].asks
        /\ approval' = Decided(s)
  /\ WriteExec(s)
  /\ Move(s, Idle)
  /\ UNCHANGED <<tries, done>>

(* check_and_increment_usage commits in the middle of an action: the        *)
(* decision and the execution as they are, RUNNING or still waiting.        *)
CommitWithin(s) ==
  /\ \/ tx[s].pc = "run" /\ ~ Ended(s) /\ NextAct(s) \in Commits
     \/ tx[s].pc = "resume" /\ Bound(s) /\ approval[tx[s].appr].act \in Commits
  /\ approval' = Decided(s)
  /\ WriteExec(s)
  /\ Move(s, [tx[s] EXCEPT !.old = tx[s].cur, !.kept = TRUE])
  /\ UNCHANGED <<tries, done>>

Crash(s) ==
  /\ Crashes
  /\ tx[s].pc # "idle"
  /\ Move(s, Idle)
  /\ UNCHANGED <<rows, tries, done>>

Step(s) ==
  \/ EnterPipeline(s) \/ RunAction(s) \/ FinishRun(s)
  \/ LoadToCancel(s) \/ LoadToResume(s)
  \/ PerformAndGoOn(s) \/ ResumeFails(s) \/ CommitWithin(s) \/ Commit(s)

(* Nothing asked, nothing running: the server waits. *)
Quiet == (\A s \in Sessions : tx[s].pc = "idle") /\ UNCHANGED vars

Next ==
  \/ \E s \in Sessions, x \in Execs : StartExecution(s, x) \/ LoadToStop(s, x)
  \/ \E s \in Sessions, a \in Approvals, op \in OpType : LoadApproval(s, a, op)
  \/ \E s \in Sessions : Step(s) \/ Crash(s)
  \/ Quiet

Spec == Init /\ [][Next]_vars
-----------------------------------------------------------------------------
(* Every variable keeps its type, a step stays within the workflow and a     *)
(* retry count within max_retries, whichever commits overwrite each other.   *)
TypeOK ==
  /\ exec \in [Execs -> ExecRow]
  /\ \A x \in Execs : exec[x].step <= Len(Actions[x]) /\ exec[x].retries <= MaxRetries
  /\ approval \in [Approvals -> ApprovalRow]
  /\ tries \in [Approvals -> Nat]
  /\ done \in [Approvals -> SUBSET (Acts \cup {"modified"})]
  /\ tx \in [Sessions -> SessionRow]

(* An approval that was granted and whose action commits the session.        *)
Granted(a) == approval[a].status \in {"APPROVED", "MODIFIED"} /\ approval[a].act \in Commits

(* An execution that waits for approval can be decided: one of its approvals *)
(* is PENDING, whichever decisions, cancellations and crashes race with it.  *)
(* The one exception is an approved agent, which commits the decision before *)
(* the execution goes on: a crash after that leaves it waiting for nobody.   *)
WaitingHasPending ==
  \A x \in Execs :
    exec[x].status = "WAITING_APPROVAL" =>
      \E a \in Approvals :
        approval[a].exec = x /\ (approval[a].status = "PENDING" \/ Granted(a))

(* No execution gets past a gated action that was not performed with an      *)
(* approval of this execution for this action, as long as no approver        *)
(* modifies one.                                                             *)
NoGatedStepSkipped ==
  (\A a \in Approvals : "modified" \notin done[a]) =>
  \A x \in Execs : \A k \in DOMAIN Actions[x] :
    exec[x].step >= k /\ Actions[x][k] \in Gated =>
      \E a \in Approvals : /\ approval[a].exec = x
                           /\ approval[a].act = Actions[x][k]
                           /\ Actions[x][k] \in done[a]

(* "Failed workflows resume from a safe checkpoint rather than blindly       *)
(* repeating already-committed actions" (Docs/AI_BOS_LOCKED_DECISIONS...md): *)
(* the action an approval is for is performed at most once.                  *)
PerformedAtMostOnce == \A a \in Approvals : tries[a] <= 1
=============================================================================
