----------------------- MODULE WorkflowApprovalProofs -----------------------
(***************************************************************************)
(* Proofs about WorkflowApproval, for any number of requests, executions   *)
(* and approvals, any workflows, and any number of crashes.                *)
(*                                                                         *)
(* No request locks a row, so the argument is about what a commit writes:  *)
(* a session that decides an approval has read the execution after the     *)
(* approval was PENDING, and its commit moves the execution on unless the  *)
(* execution has already left the status it was read with.  A commit in    *)
(* the middle of an action ends no request: the session goes on from what  *)
(* it has written.                                                         *)
(***************************************************************************)
EXTENDS WorkflowApproval, TLAPS

Size(x) == Len(Actions[x])

(* Committed executions: one that is not there is untouched.                *)
ExecOK ==
  \A x \in Execs :
    /\ exec[x].status # "PENDING"
    /\ exec[x].status = "NONE" => exec[x] = NoExec

(* Approvals belong to an execution that exists.                            *)
ApprovalOK ==
  \A a \in Approvals :
    /\ approval[a].status # "NONE" =>
         approval[a].exec \in Execs /\ exec[approval[a].exec].status # "NONE"
    /\ approval[a].status = "NONE" => done[a] = {}

(* An execution is started by one session, and nobody else works on it      *)
(* until a commit shows it.                                                 *)
Starting(s) ==
  /\ tx[s].op = "start" /\ ~ tx[s].kept
  /\ tx[s].appr = None
  /\ exec[tx[s].exec] = NoExec
  /\ tx[s].old = NoExec
  /\ \A o \in Sessions : o # s => tx[o].exec # tx[s].exec

Going(s) ==
  /\ tx[s].op = "start" /\ tx[s].kept
  /\ tx[s].appr = None
  /\ exec[tx[s].exec].status # "NONE"

Deciding(s) ==
  /\ tx[s].op \in {"approve", "modify", "reject", "cancel"}
  /\ tx[s].appr \in Approvals
  /\ approval[tx[s].appr].status # "NONE"
  /\ approval[tx[s].appr].exec = tx[s].exec
  /\ exec[tx[s].exec].status # "NONE"

Stopping(s) ==
  /\ tx[s].op = "stop"
  /\ tx[s].appr = None
  /\ exec[tx[s].exec].status # "NONE"

(* A run has passed a step since the row was read or written, unless the    *)
(* row is new or it was written at an action that commits.                  *)
Advanced(s) ==
  \/ tx[s].op = "start" /\ ~ tx[s].kept
  \/ tx[s].cur.step > tx[s].old.step
  \/ tx[s].cur.step < Size(tx[s].exec) /\ NextAct(s) \in Commits

(* What a session holds at each point of its request.                       *)
AtPoint(s) ==
  /\ tx[s].pc = "idle" => tx[s] = Idle
  /\ tx[s].pc # "idle" =>
       /\ tx[s].exec \in Execs
       /\ Starting(s) \/ Going(s) \/ Deciding(s) \/ Stopping(s)
  /\ tx[s].pc = "loaded" => /\ tx[s].old = NoExec /\ tx[s].cur = NoExec
                            /\ ~ tx[s].kept /\ tx[s].op # "stop"
  /\ tx[s].pc = "resume" => /\ tx[s].op \in {"approve", "modify"}
                            /\ tx[s].cur = tx[s].old
                            /\ tx[s].cur.step < Size(tx[s].exec)
                            /\ tx[s].old.status \notin {"NONE", "PENDING"}
  /\ tx[s].pc = "run" =>
       /\ tx[s].cur.status = "RUNNING"
       /\ tx[s].cur.step >= tx[s].old.step
       /\ tx[s].old.status \in {"NONE", "WAITING_APPROVAL", "WAITING_RETRY", "RUNNING"}
       /\ Advanced(s)
  /\ tx[s].pc # "commit" => ~ tx[s].asks
  /\ tx[s].pc = "commit" =>
       /\ tx[s].cur.status \notin {"NONE", "PENDING"}
       /\ tx[s].asks => /\ tx[s].cur.status = "WAITING_APPROVAL"
                        /\ tx[s].cur.step < Size(tx[s].exec)
                        /\ Advanced(s)
       /\ ~ tx[s].asks /\ tx[s].cur.status = "WAITING_APPROVAL"
            => tx[s].cur = tx[s].old /\ tx[s].op \in {"approve", "modify"}
       /\ tx[s].cur.step # tx[s].old.step /\ tx[s].cur.status = tx[s].old.status
            => tx[s].cur.step < Size(tx[s].exec)

SessionOK == \A s \in Sessions : AtPoint(s)

(* Steps and retries of a session's copy stay within the workflow.          *)
Bounded ==
  \A s \in Sessions : tx[s].pc # "idle" =>
    tx[s].cur.step <= Size(tx[s].exec) /\ tx[s].cur.retries <= MaxRetries

(* Whoever has taken up approval a has read the execution while it waited,  *)
(* or finds no action left and changes nothing in it.                       *)
Read(a, row) ==
  row.appr = a /\ row.pc \in {"resume", "run", "commit"} =>
    /\ row.old.status = "WAITING_APPROVAL"
    /\ row.pc = "commit" /\ ~ row.asks /\ row.cur.status = "WAITING_APPROVAL"
         => approval[a].act \in Commits

(* An approval that can still decide an execution, or an approved agent.    *)
Open(a, x) ==
  /\ approval[a].exec = x
  /\ approval[a].status = "PENDING" \/ Granted(a)
  /\ \A s \in Sessions : Read(a, tx[s])

(* It has an action left to perform, or the agent again.                    *)
Left(a, x) == exec[x].step < Size(x) \/ approval[a].act \in Commits

WaitingHasOpen ==
  \A x \in Execs :
    exec[x].status = "WAITING_APPROVAL" => \E a \in Approvals : Open(a, x) /\ Left(a, x)

(* A gated step that is passed, in a row or in a session's copy.            *)
Performed(x, act) ==
  \E a \in Approvals : approval[a].exec = x /\ approval[a].act = act /\ act \in done[a]

Unmodified == \A a \in Approvals : "modified" \notin done[a]

PassedIsPerformed ==
  Unmodified =>
  \A x \in Execs : \A k \in DOMAIN Actions[x] :
    /\ Actions[x][k] \in Gated
    /\ exec[x].step >= k \/ \E s \in Sessions : tx[s].exec = x /\ tx[s].cur.step >= k
    => Performed(x, Actions[x][k])

IInv ==
  /\ TypeOK /\ ExecOK /\ ApprovalOK /\ SessionOK /\ Bounded
  /\ WaitingHasOpen /\ PassedIsPerformed
-----------------------------------------------------------------------------
LEMMA PlanFacts ==
  ASSUME NEW x \in Execs
  PROVE  /\ Size(x) \in Nat /\ DOMAIN Actions[x] = 1 .. Size(x)
         /\ \A n \in Nat : n < Size(x) => Actions[x][n + 1] \in Acts
  BY PlanAssumption DEF Size

LEMMA MoveFacts ==
  ASSUME TypeOK, NEW s \in Sessions, NEW row \in SessionRow, Move(s, row)
  PROVE  /\ tx' \in [Sessions -> SessionRow]
         /\ tx'[s] = row
         /\ \A o \in Sessions : o # s => tx'[o] = tx[o]
  BY DEF TypeOK, Move

LEMMA IdleFacts ==
  /\ Idle \in SessionRow /\ Idle.pc = "idle" /\ Idle.exec = None /\ Idle.asks = FALSE /\ Idle.kept = FALSE
  /\ None \notin Sessions \cup Execs \cup Approvals
  BY NoneAssumption DEF Idle, SessionRow, NoExec, ExecRow

(* A session goes on without committing: it may have performed an approved  *)
(* action in the outside world, and no row changes.                         *)
LEMMA SessionStep ==
  ASSUME IInv, NEW s \in Sessions, NEW row \in SessionRow, Move(s, row),
         UNCHANGED rows,
         tries' \in [Approvals -> Nat],
         done' \in [Approvals -> SUBSET (Acts \cup {"modified"})],
         \A a \in Approvals : /\ done[a] \subseteq done'[a]
                              /\ approval[a].status = "NONE" => done'[a] = {},
         AtPoint(s)',
         row.pc # "idle" => row.cur.step <= Size(row.exec) /\ row.cur.retries <= MaxRetries,
         \A o \in Sessions : o # s /\ tx[o].pc # "idle" /\ Starting(o)
           => row.exec # tx[o].exec,
         \A a \in Approvals, x \in Execs :
           exec[x].status = "WAITING_APPROVAL" /\ Open(a, x) /\ Left(a, x) => Read(a, row),
         \A x \in Execs, k \in Nat :
           /\ row.exec = x /\ row.cur.step >= k
           /\ k \in DOMAIN Actions[x] /\ Actions[x][k] \in Gated /\ Unmodified'
           => \/ exec[x].step >= k
              \/ tx[s].exec = x /\ tx[s].cur.step >= k
              \/ Performed(x, Actions[x][k])'
  PROVE  IInv'
<1>1. tx' \in [Sessions -> SessionRow] /\ tx'[s] = row /\ \A o \in Sessions : o # s => tx'[o] = tx[o]
  BY MoveFacts DEF IInv
<1>2. TypeOK'
  BY <1>1 DEF IInv, TypeOK, rows
<1>3. SessionOK'
  <2> SUFFICES ASSUME NEW o \in Sessions, o # s PROVE AtPoint(o)'
    BY DEF SessionOK
  <2>1. AtPoint(o) /\ tx'[o] = tx[o] /\ exec' = exec /\ approval' = approval
    BY <1>1 DEF IInv, SessionOK, rows
  <2>2. tx[o].pc # "idle" /\ Starting(o) => Starting(o)'
    BY <1>1, <2>1 DEF Starting
  <2>3. /\ Deciding(o)' <=> Deciding(o)
        /\ Stopping(o)' <=> Stopping(o)
        /\ Going(o)' <=> Going(o)
        /\ Advanced(o)' <=> Advanced(o)
    BY <2>1 DEF Deciding, Stopping, Going, Advanced, NextAct
  <2> QED
    BY <2>1, <2>2, <2>3 DEF AtPoint
<1>4. Bounded'
  BY <1>1 DEF IInv, Bounded
<1>5. WaitingHasOpen'
  <2> SUFFICES ASSUME NEW x \in Execs, exec'[x].status = "WAITING_APPROVAL"
               PROVE  \E a \in Approvals : Open(a, x)' /\ Left(a, x)'
    BY DEF WaitingHasOpen
  <2>1. PICK a \in Approvals : Open(a, x) /\ Left(a, x)
    BY DEF IInv, WaitingHasOpen, rows
  <2>2. Read(a, row)
    BY <2>1 DEF rows
  <2>3. \A o \in Sessions : Read(a, tx[o])'
    BY <1>1, <2>1, <2>2 DEF Open, Read, rows
  <2>4. Open(a, x)' /\ Left(a, x)'
    BY <2>1, <2>3 DEF Open, Granted, Left, rows
  <2> QED
    BY <2>4
<1>6. ExecOK' /\ ApprovalOK'
  BY DEF IInv, ExecOK, ApprovalOK, rows
<1>7. PassedIsPerformed'
  <2> SUFFICES ASSUME Unmodified', NEW x \in Execs, NEW k \in DOMAIN Actions[x],
                      Actions[x][k] \in Gated,
                      exec'[x].step >= k \/ \E o \in Sessions : tx'[o].exec = x /\ tx'[o].cur.step >= k
               PROVE  Performed(x, Actions[x][k])'
    BY DEF PassedIsPerformed
  <2>1. Unmodified
    BY DEF Unmodified
  <2>2. Performed(x, Actions[x][k]) => Performed(x, Actions[x][k])'
    BY DEF Performed, rows
  <2>3. k \in Nat
    BY PlanFacts
  <2>4. CASE exec[x].step >= k \/ \E o \in Sessions : tx[o].exec = x /\ tx[o].cur.step >= k
    BY <2>1, <2>2, <2>4 DEF IInv, PassedIsPerformed
  <2>5. CASE row.exec = x /\ row.cur.step >= k
    BY <2>1, <2>2, <2>3, <2>4, <2>5
  <2> QED
    BY <1>1, <2>4, <2>5 DEF rows
<1> QED
  BY <1>2, <1>3, <1>4, <1>5, <1>6, <1>7 DEF IInv

(* The same when nothing is performed.                                      *)
LEMMA QuietStep ==
  ASSUME IInv, NEW s \in Sessions, NEW row \in SessionRow, Move(s, row),
         UNCHANGED <<rows, tries, done>>,
         AtPoint(s)',
         row.pc # "idle" => row.cur.step <= Size(row.exec) /\ row.cur.retries <= MaxRetries,
         \A o \in Sessions : o # s /\ tx[o].pc # "idle" /\ Starting(o)
           => row.exec # tx[o].exec,
         \A a \in Approvals, x \in Execs :
           exec[x].status = "WAITING_APPROVAL" /\ Open(a, x) /\ Left(a, x) => Read(a, row),
         \A x \in Execs, k \in Nat :
           /\ row.exec = x /\ row.cur.step >= k
           /\ k \in DOMAIN Actions[x] /\ Actions[x][k] \in Gated
           => exec[x].step >= k \/ (tx[s].exec = x /\ tx[s].cur.step >= k)
  PROVE  IInv'
<1>1. UNCHANGED rows /\ tries' \in [Approvals -> Nat]
      /\ done' \in [Approvals -> SUBSET (Acts \cup {"modified"})]
  BY DEF IInv, TypeOK
<1>2. \A a \in Approvals : /\ done[a] \subseteq done'[a]
                           /\ approval[a].status = "NONE" => done'[a] = {}
  BY DEF IInv, ApprovalOK
<1> QED
  BY <1>1, <1>2, SessionStep

(* A transaction is rolled back.                                            *)
LEMMA RollBackStep ==
  ASSUME IInv, NEW s \in Sessions, Move(s, Idle), UNCHANGED <<rows, tries, done>>
  PROVE  IInv'
<1>1. tx'[s] = Idle
  BY IdleFacts, MoveFacts DEF IInv
<1>2. AtPoint(s)'
  BY <1>1, IdleFacts DEF AtPoint
<1>3. \A o \in Sessions : tx[o].pc # "idle" => Idle.exec # tx[o].exec
  BY IdleFacts DEF IInv, SessionOK, AtPoint
<1>4. \A x \in Execs : Idle.exec # x
  BY IdleFacts
<1>5. \A a \in Approvals : Read(a, Idle)
  BY IdleFacts DEF Read
<1> QED
  BY <1>2, <1>3, <1>4, <1>5, IdleFacts, QuietStep

LEMMA StartStep ==
  ASSUME IInv, NEW s \in Sessions, NEW x \in Execs, StartExecution(s, x)
  PROVE  IInv'
<1> DEFINE row == [tx[s] EXCEPT !.pc = "loaded", !.op = "start", !.exec = x]
<1>1. tx[s] = Idle
  BY DEF StartExecution, IInv, SessionOK, AtPoint
<1>2. tx[s].appr = None /\ tx[s].old = NoExec /\ tx[s].cur = NoExec /\ ~ tx[s].asks /\ ~ tx[s].kept
      /\ tx[s] \in SessionRow
  BY <1>1, IdleFacts DEF Idle
<1>3. /\ row \in SessionRow /\ row.pc = "loaded" /\ row.op = "start" /\ row.exec = x
      /\ row.appr = None /\ row.old = NoExec /\ row.cur = NoExec /\ ~ row.asks /\ ~ row.kept
  BY <1>2 DEF SessionRow
<1> HIDE DEF row
<1>4. Move(s, row) /\ UNCHANGED <<rows, tries, done>>
  BY DEF StartExecution, row
<1>5. tx' \in [Sessions -> SessionRow] /\ tx'[s] = row /\ \A o \in Sessions : o # s => tx'[o] = tx[o]
  BY <1>3, <1>4, MoveFacts DEF IInv
<1>6. exec[x] = NoExec
  BY DEF StartExecution, IInv, ExecOK
<1>7. AtPoint(s)'
  <2>1. \A o \in Sessions : o # s => tx'[o].exec # x
    BY <1>5 DEF StartExecution
  <2>2. exec' = exec /\ tx'[s].op = "start" /\ tx'[s].exec = x /\ tx'[s].appr = None /\ tx'[s].old = NoExec
        /\ ~ tx'[s].kept
    BY <1>3, <1>4, <1>5 DEF rows
  <2>3. Starting(s)'
    BY <1>6, <2>1, <2>2 DEF Starting
  <2> QED
    BY <1>3, <1>5, <2>3 DEF AtPoint
<1>8. \A o \in Sessions : o # s /\ tx[o].pc # "idle" /\ Starting(o) => row.exec # tx[o].exec
  BY <1>3 DEF StartExecution
<1>9. \A k \in DOMAIN Actions[x] : ~ (row.cur.step >= k)
  BY <1>3, PlanFacts DEF NoExec
<1>10. row.cur.step <= Size(x) /\ row.cur.retries <= MaxRetries
  BY <1>3, PlanFacts, LimitAssumption DEF NoExec
<1>11. \A a \in Approvals : Read(a, row)
  BY <1>3, IdleFacts DEF Read
<1> QED
  BY <1>3, <1>4, <1>7, <1>8, <1>9, <1>10, <1>11, QuietStep
-----------------------------------------------------------------------------
(* A session that goes on with its request keeps what it works on.          *)
LEMMA KindKept ==
  ASSUME IInv, NEW s \in Sessions, tx[s].pc # "idle",
         NEW row \in SessionRow, Move(s, row), UNCHANGED rows,
         row.op = tx[s].op, row.appr = tx[s].appr, row.exec = tx[s].exec, row.kept = tx[s].kept,
         Starting(s) => row.old = NoExec
  PROVE  /\ tx'[s] = row
         /\ tx[s].exec \in Execs
         /\ Starting(s) => Starting(s)'
         /\ Deciding(s) => Deciding(s)'
         /\ Starting(s)' \/ Going(s)' \/ Deciding(s)' \/ Stopping(s)'
         /\ \A o \in Sessions : o # s /\ tx[o].pc # "idle" /\ Starting(o)
              => row.exec # tx[o].exec
<1>1. tx'[s] = row /\ \A o \in Sessions : o # s => tx'[o] = tx[o]
  BY MoveFacts DEF IInv
<1>2. tx[s].exec \in Execs /\ (Starting(s) \/ Going(s) \/ Deciding(s) \/ Stopping(s))
  BY DEF IInv, SessionOK, AtPoint
<1>3. Starting(s) => Starting(s)'
  BY <1>1 DEF Starting, rows
<1>4. /\ Deciding(s) => Deciding(s)'
      /\ Stopping(s) => Stopping(s)'
      /\ Going(s) => Going(s)'
  BY <1>1 DEF Deciding, Stopping, Going, rows
<1>5. ASSUME NEW o \in Sessions, o # s, tx[o].pc # "idle", Starting(o)
      PROVE  row.exec # tx[o].exec
  BY <1>5 DEF Starting
<1> QED
  BY <1>1, <1>2, <1>3, <1>4, <1>5

Goes(s, pc, c) == Move(s, [tx[s] EXCEPT !.pc = pc, !.cur = c])

(* Where run_execution_pipeline enters its loop, or ends before it.         *)
LEMMA EnterFacts ==
  ASSUME NEW s, NEW row \in ExecRow, EvaluateConditions(s, row) \/ Enter(s, row)
  PROVE  \E pc \in {"run", "commit"}, c \in ExecRow :
           /\ Goes(s, pc, c)
           /\ c.step = row.step /\ c.retries = row.retries
           /\ pc = "run" => c = row
           /\ pc = "commit" => c.status \in {"COMPLETED", "TIMED_OUT", "BLOCKED"}
<1>1. ASSUME NEW status \in {"COMPLETED", "TIMED_OUT", "BLOCKED"}, Close(s, row, status)
      PROVE  \E c \in ExecRow :
               /\ Goes(s, "commit", c)
               /\ c.step = row.step /\ c.retries = row.retries
               /\ c.status \in {"COMPLETED", "TIMED_OUT", "BLOCKED"}
  <2>1. [row EXCEPT !.status = status] \in ExecRow
    BY DEF ExecRow, ExecutionStatus
  <2> QED
    BY <1>1, <2>1 DEF Close, ExecRow, Goes
<1>2. CASE Move(s, [tx[s] EXCEPT !.pc = "run", !.cur = row])
  <2>1. Goes(s, "run", row)
    BY <1>2 DEF Goes
  <2> QED
    BY <2>1
<1> QED
  BY <1>1, <1>2 DEF Enter, EvaluateConditions

LEMMA EnterPipelineStep ==
  ASSUME IInv, NEW s \in Sessions, EnterPipeline(s)
  PROVE  IInv'
<1> DEFINE new == [NoExec EXCEPT !.status = "RUNNING"]
<1>1. new \in ExecRow /\ new.step = 0 /\ new.retries = 0 /\ new.status = "RUNNING"
  BY DEF NoExec, ExecRow, ExecutionStatus
<1>2. PICK pc \in {"run", "commit"}, c \in ExecRow :
           /\ Goes(s, pc, c)
           /\ c.step = 0 /\ c.retries = 0
           /\ pc = "run" => c.status = "RUNNING"
           /\ pc = "commit" => c.status \in {"COMPLETED", "TIMED_OUT", "BLOCKED"}
  <2> HIDE DEF new
  <2>1. EvaluateConditions(s, new)
    BY DEF EnterPipeline, new
  <2> QED
    <3>1. PICK pc \in {"run", "commit"}, c \in ExecRow :
           /\ Goes(s, pc, c)
           /\ c.step = new.step /\ c.retries = new.retries
           /\ pc = "run" => c = new
           /\ pc = "commit" => c.status \in {"COMPLETED", "TIMED_OUT", "BLOCKED"}
      BY <1>1, <2>1, EnterFacts
    <3> QED
      BY <1>1, <3>1
<1>3. tx[s] \in SessionRow /\ tx[s].pc = "loaded" /\ tx[s].op = "start" /\ AtPoint(s)
  BY DEF EnterPipeline, IInv, TypeOK, SessionOK
<1>4. Starting(s) /\ tx[s].exec \in Execs /\ tx[s].old = NoExec /\ tx[s].appr = None /\ ~ tx[s].asks
      /\ ~ tx[s].kept
  BY <1>3 DEF AtPoint, Starting, Going, Deciding, Stopping
<1> DEFINE row == [tx[s] EXCEPT !.pc = pc, !.cur = c]
<1>5. /\ row \in SessionRow /\ row.pc = pc /\ row.cur = c /\ row.old = tx[s].old
      /\ row.op = tx[s].op /\ row.appr = tx[s].appr /\ row.exec = tx[s].exec
      /\ row.asks = tx[s].asks /\ row.kept = tx[s].kept
  BY <1>3 DEF SessionRow
<1>6. Move(s, row)
  BY <1>2 DEF Goes
<1> HIDE DEF row
<1>7. UNCHANGED <<rows, tries, done>>
  BY DEF EnterPipeline
<1>8. /\ tx'[s] = row
      /\ Starting(s)'
      /\ \A o \in Sessions : o # s /\ tx[o].pc # "idle" /\ Starting(o) => row.exec # tx[o].exec
  BY <1>3, <1>4, <1>5, <1>6, <1>7, KindKept
<1>9. AtPoint(s)'
  BY <1>2, <1>3, <1>4, <1>5, <1>8 DEF AtPoint, Advanced, NoExec
<1>10. \A k \in DOMAIN Actions[tx[s].exec] : ~ (row.cur.step >= k)
  BY <1>2, <1>4, <1>5, PlanFacts
<1>11. row.cur.step <= Size(row.exec) /\ row.cur.retries <= MaxRetries
  BY <1>2, <1>4, <1>5, PlanFacts, LimitAssumption
<1>12. \A a \in Approvals : Read(a, row)
  BY <1>4, <1>5, IdleFacts DEF Read
<1> QED
  BY <1>5, <1>6, <1>7, <1>8, <1>9, <1>10, <1>11, <1>12, QuietStep
-----------------------------------------------------------------------------
Turns(s, pc, c) ==
  Move(s, [tx[s] EXCEPT !.pc = pc, !.cur = c, !.asks = (c.status = "WAITING_APPROVAL")])

(* One turn of the loop.                                                    *)
LEMMA TurnStep ==
  ASSUME IInv, NEW s \in Sessions, tx[s].pc = "run", UNCHANGED <<rows, tries, done>>,
         NEW pc \in {"run", "commit"}, NEW c \in ExecRow,
         Turns(s, pc, c),
         c.step >= tx[s].cur.step, c.step <= Size(tx[s].exec), c.retries <= MaxRetries,
         pc = "run" => c.status = "RUNNING",
         pc = "commit" => c.status \in {"COMPLETED", "FAILED", "WAITING_RETRY", "WAITING_APPROVAL"},
         c.status \in {"WAITING_RETRY", "WAITING_APPROVAL"} => c.step < Size(tx[s].exec),
         \A k \in DOMAIN Actions[tx[s].exec] :
           c.step >= k /\ Actions[tx[s].exec][k] \in Gated => tx[s].cur.step >= k
  PROVE  IInv'
<1> DEFINE row == [tx[s] EXCEPT !.pc = pc, !.cur = c, !.asks = (c.status = "WAITING_APPROVAL")]
<1>1. tx[s] \in SessionRow /\ AtPoint(s)
  BY DEF IInv, TypeOK, SessionOK
<1>2. /\ row \in SessionRow /\ row.pc = pc /\ row.cur = c /\ row.old = tx[s].old
      /\ row.op = tx[s].op /\ row.appr = tx[s].appr /\ row.exec = tx[s].exec
      /\ row.kept = tx[s].kept
      /\ row.asks <=> c.status = "WAITING_APPROVAL"
  BY <1>1 DEF SessionRow
<1>3. Move(s, row)
  BY DEF Turns
<1> HIDE DEF row
<1>4. /\ tx[s].exec \in Execs /\ Advanced(s)
      /\ tx[s].cur.step \in Nat /\ tx[s].old.step \in Nat /\ c.step \in Nat
      /\ tx[s].cur.step >= tx[s].old.step
      /\ tx[s].old.status \in {"NONE", "WAITING_APPROVAL", "WAITING_RETRY", "RUNNING"}
  BY <1>1 DEF AtPoint, SessionRow, ExecRow
<1>5. /\ tx'[s] = row
      /\ Starting(s)' \/ Going(s)' \/ Deciding(s)' \/ Stopping(s)'
      /\ \A o \in Sessions : o # s /\ tx[o].pc # "idle" /\ Starting(o) => row.exec # tx[o].exec
  BY <1>1, <1>2, <1>3, KindKept DEF Starting
<1>6. Advanced(s)'
  <2>1. CASE c.step = tx[s].cur.step
    BY <1>2, <1>4, <1>5, <2>1 DEF Advanced, NextAct
  <2>2. CASE c.step > tx[s].cur.step
    BY <1>2, <1>4, <1>5, <2>2 DEF Advanced
  <2> QED
    BY <1>4, <2>1, <2>2
<1>7. c.status = tx[s].old.status /\ pc = "commit" => c.step < Size(tx[s].exec)
  BY <1>4
<1>8. AtPoint(s)'
  BY <1>2, <1>4, <1>5, <1>6, <1>7 DEF AtPoint
<1>9. \A a \in Approvals, x \in Execs : Open(a, x) => Read(a, row)
  BY <1>2 DEF Open, Read
<1> QED
  BY <1>2, <1>3, <1>5, <1>8, <1>9, QuietStep

LEMMA RunStep ==
  ASSUME IInv, NEW s \in Sessions, RunAction(s) \/ FinishRun(s)
  PROVE  IInv'
<1> DEFINE x == tx[s].exec
           cur == tx[s].cur
<1>1. /\ tx[s] \in SessionRow /\ tx[s].pc = "run" /\ AtPoint(s) /\ UNCHANGED <<rows, tries, done>>
  BY DEF RunAction, FinishRun, IInv, TypeOK, SessionOK
<1>2. /\ x \in Execs /\ cur \in ExecRow /\ cur.status = "RUNNING" /\ tx[s].asks = FALSE
      /\ cur.step \in Nat /\ cur.retries \in Nat
      /\ cur.step <= Size(x) /\ cur.retries <= MaxRetries
  BY <1>1 DEF AtPoint, SessionRow, ExecRow, IInv, Bounded
<1>3. Size(x) \in Nat /\ DOMAIN Actions[x] = 1 .. Size(x) /\ MaxRetries \in Nat
  BY <1>2, PlanFacts, LimitAssumption
<1>4. tx[s] = [tx[s] EXCEPT !.asks = FALSE]
  BY <1>1, <1>2 DEF SessionRow
<1> HIDE DEF x, cur
<1>5. ASSUME NEW status \in {"COMPLETED", "FAILED"},
             Move(s, [tx[s] EXCEPT !.pc = "commit", !.cur.status = status])
      PROVE  IInv'
  <2> DEFINE c == [cur EXCEPT !.status = status]
  <2>1. c \in ExecRow /\ c.status = status /\ c.step = cur.step /\ c.retries = cur.retries
    BY <1>2 DEF ExecRow, ExecutionStatus, Terminal
  <2>2. Turns(s, "commit", c)
    BY <2>1, <1>1, <1>2, <1>5 DEF Turns, SessionRow, cur
  <2>3. \A k \in DOMAIN Actions[x] : c.step >= k => cur.step >= k
    BY <2>1
  <2> HIDE DEF c
  <2> QED
    BY <1>1, <1>2, <1>3, <2>1, <2>2, <2>3, TurnStep DEF x, cur
<1>6. CASE FinishRun(s)
  BY <1>5, <1>6 DEF FinishRun
<1>7. CASE RunAction(s)
  <2>1. cur.step < Size(x)
    BY <1>2, <1>3, <1>7 DEF RunAction, Ended, Size, x, cur
  <2>2. CASE Move(s, [tx[s] EXCEPT !.pc = "commit", !.asks = TRUE, !.cur.status = "WAITING_APPROVAL"])
    <3> DEFINE c == [cur EXCEPT !.status = "WAITING_APPROVAL"]
    <3>1. c \in ExecRow /\ c.status = "WAITING_APPROVAL" /\ c.step = cur.step /\ c.retries = cur.retries
      BY <1>2 DEF ExecRow, ExecutionStatus
    <3>0. \A k \in DOMAIN Actions[x] : c.step >= k => cur.step >= k
      BY <3>1
    <3>2. Turns(s, "commit", c)
      BY <3>1, <1>1, <1>2, <2>2 DEF Turns, SessionRow, cur
    <3> HIDE DEF c
    <3> QED
      BY <1>1, <1>2, <1>3, <2>1, <3>0, <3>1, <3>2, TurnStep DEF x, cur
  <2>3. CASE Move(s, [tx[s] EXCEPT !.pc = "commit", !.cur.status = "WAITING_RETRY"])
    <3> DEFINE c == [cur EXCEPT !.status = "WAITING_RETRY"]
    <3>1. c \in ExecRow /\ c.status = "WAITING_RETRY" /\ c.step = cur.step /\ c.retries = cur.retries
      BY <1>2 DEF ExecRow, ExecutionStatus
    <3>0. \A k \in DOMAIN Actions[x] : c.step >= k => cur.step >= k
      BY <3>1
    <3>2. Turns(s, "commit", c)
      BY <3>1, <1>1, <1>2, <2>3 DEF Turns, SessionRow, cur
    <3> HIDE DEF c
    <3> QED
      BY <1>1, <1>2, <1>3, <2>1, <3>0, <3>1, <3>2, TurnStep DEF x, cur
  <2>4. CASE NextAct(s) \notin Gated \cup Delays /\ Move(s, [tx[s] EXCEPT !.cur.step = @ + 1])
    <3> DEFINE c == [cur EXCEPT !.step = cur.step + 1]
    <3>1. c \in ExecRow /\ c.status = "RUNNING" /\ c.step = cur.step + 1 /\ c.retries = cur.retries
      BY <1>2 DEF ExecRow
    <3>2. Turns(s, "run", c)
      BY <3>1, <1>1, <1>2, <2>4 DEF Turns, SessionRow, cur
    <3> HIDE DEF c
    <3>3. Actions[x][cur.step + 1] \notin Gated
      BY <2>4 DEF NextAct, x, cur
    <3>4. \A k \in DOMAIN Actions[x] : c.step >= k /\ Actions[x][k] \in Gated => cur.step >= k
      BY <1>2, <1>3, <3>1, <3>3
    <3> QED
      BY <1>1, <1>2, <1>3, <2>1, <3>1, <3>2, <3>4, TurnStep DEF x, cur
  <2>5. CASE /\ RetriesLeft(cur)
             /\ Move(s, [tx[s] EXCEPT !.pc = "commit",
                          !.cur = [cur EXCEPT !.status = "WAITING_RETRY", !.retries = @ + 1]])
    <3> DEFINE c == [cur EXCEPT !.status = "WAITING_RETRY", !.retries = @ + 1]
    <3>1. c \in ExecRow /\ c.status = "WAITING_RETRY" /\ c.step = cur.step /\ c.retries = cur.retries + 1
      <4> DEFINE w == [cur EXCEPT !.status = "WAITING_RETRY"]
      <4>1. w \in ExecRow /\ w.status = "WAITING_RETRY" /\ w.step = cur.step /\ w.retries = cur.retries
        BY <1>2 DEF ExecRow, ExecutionStatus
      <4>2. w.retries \in Nat
        BY <1>2, <4>1
      <4> HIDE DEF w
      <4>3. /\ [w EXCEPT !.retries = @ + 1] \in ExecRow
            /\ [w EXCEPT !.retries = @ + 1].status = "WAITING_RETRY"
            /\ [w EXCEPT !.retries = @ + 1].step = cur.step
            /\ [w EXCEPT !.retries = @ + 1].retries = cur.retries + 1
        BY <4>1, <4>2 DEF ExecRow
      <4>4. c = [w EXCEPT !.retries = @ + 1]
        BY DEF w
      <4> QED
        BY <4>3, <4>4
    <3>0. \A k \in DOMAIN Actions[x] : c.step >= k => cur.step >= k
      BY <3>1
    <3>5. Move(s, [tx[s] EXCEPT !.pc = "commit", !.cur = c])
      BY <2>5
    <3>2. Turns(s, "commit", c)
      <4> HIDE DEF c
      <4> QED
        BY <3>1, <3>5, <1>1, <1>2 DEF Turns, SessionRow
    <3> HIDE DEF c
    <3>3. c.retries <= MaxRetries
      BY <1>2, <1>3, <2>5, <3>1 DEF RetriesLeft
    <3> QED
      BY <1>1, <1>2, <1>3, <2>1, <3>0, <3>1, <3>2, <3>3, TurnStep DEF x, cur
  <2> QED
    BY <1>5, <1>7, <2>2, <2>3, <2>4, <2>5 DEF RunAction, cur
<1> QED
  BY <1>6, <1>7
-----------------------------------------------------------------------------
(* Nobody works on an execution that is being started.                      *)
LEMMA StartedApart ==
  ASSUME NEW x \in Execs, exec[x].status # "NONE", NEW o \in Sessions, Starting(o)
  PROVE  x # tx[o].exec
BY DEF Starting, NoExec

LEMMA LoadApprovalStep ==
  ASSUME IInv, NEW s \in Sessions, NEW a \in Approvals, NEW op \in OpType, LoadApproval(s, a, op)
  PROVE  IInv'
<1> DEFINE row == [tx[s] EXCEPT !.pc = "loaded", !.op = op, !.appr = a, !.exec = approval[a].exec]
           x   == approval[a].exec
<1>1. tx[s] = Idle
  BY DEF LoadApproval, IInv, SessionOK, AtPoint
<1>2. tx[s].old = NoExec /\ tx[s].cur = NoExec /\ ~ tx[s].asks /\ ~ tx[s].kept /\ tx[s] \in SessionRow
  BY <1>1, IdleFacts DEF Idle
<1>3. approval[a].status = "PENDING" /\ x \in Execs /\ exec[x].status # "NONE"
  BY DEF LoadApproval, IInv, ApprovalOK
<1>4. /\ row \in SessionRow /\ row.pc = "loaded" /\ row.op = op /\ row.exec = x
      /\ row.appr = a /\ row.old = NoExec /\ row.cur = NoExec /\ ~ row.asks /\ ~ row.kept
  BY <1>2, <1>3 DEF SessionRow
<1>5. Move(s, row) /\ UNCHANGED <<rows, tries, done>>
  BY DEF LoadApproval
<1> HIDE DEF row, x
<1>6. tx'[s] = row
  BY <1>4, <1>5, MoveFacts DEF IInv
<1>7. op \in {"approve", "modify", "reject", "cancel"}
  BY DEF LoadApproval, OpType
<1>8. AtPoint(s)'
  <2>1. Deciding(s)'
    BY <1>3, <1>4, <1>5, <1>6, <1>7 DEF Deciding, rows, x
  <2> QED
    BY <1>3, <1>4, <1>6, <1>7, <2>1 DEF AtPoint
<1>9. \A o \in Sessions : o # s /\ tx[o].pc # "idle" /\ Starting(o) => row.exec # tx[o].exec
  BY <1>3, <1>4, StartedApart
<1>10. \A k \in DOMAIN Actions[x] : ~ (row.cur.step >= k)
  BY <1>3, <1>4, PlanFacts DEF NoExec
<1>11. row.cur.step <= Size(x) /\ row.cur.retries <= MaxRetries
  BY <1>3, <1>4, PlanFacts, LimitAssumption DEF NoExec
<1>12. \A b \in Approvals : Read(b, row)
  BY <1>4 DEF Read
<1> QED
  BY <1>4, <1>5, <1>8, <1>9, <1>10, <1>11, <1>12, QuietStep

LEMMA LoadToStopStep ==
  ASSUME IInv, NEW s \in Sessions, NEW x \in Execs, LoadToStop(s, x)
  PROVE  IInv'
<1> DEFINE new == [exec[x] EXCEPT !.status = "CANCELLED"]
           row == [tx[s] EXCEPT !.pc = "commit", !.op = "stop", !.exec = x, !.old = exec[x], !.cur = new]
<1>1. tx[s] = Idle /\ exec[x] \in ExecRow /\ exec[x].status # "NONE"
  BY DEF LoadToStop, IInv, SessionOK, AtPoint, TypeOK
<1>2. tx[s].appr = None /\ ~ tx[s].asks /\ tx[s] \in SessionRow
  BY <1>1, IdleFacts DEF Idle
<1>3. /\ new \in ExecRow /\ new.status = "CANCELLED" /\ new.step = exec[x].step
      /\ new.retries = exec[x].retries
  BY <1>1 DEF ExecRow, ExecutionStatus, Terminal
<1>4. Move(s, row) /\ UNCHANGED <<rows, tries, done>>
  BY DEF LoadToStop
<1> HIDE DEF new
<1>5. /\ row \in SessionRow /\ row.pc = "commit" /\ row.op = "stop" /\ row.exec = x
      /\ row.appr = None /\ row.old = exec[x] /\ row.cur = new /\ ~ row.asks
  BY <1>1, <1>2, <1>3 DEF SessionRow, OpType
<1> HIDE DEF row
<1>6. tx'[s] = row
  BY <1>4, <1>5, MoveFacts DEF IInv
<1>7. AtPoint(s)'
  <2>1. Stopping(s)'
    BY <1>1, <1>4, <1>5, <1>6 DEF Stopping, rows
  <2> QED
    BY <1>3, <1>5, <1>6, <2>1 DEF AtPoint
<1>8. \A o \in Sessions : o # s /\ tx[o].pc # "idle" /\ Starting(o) => row.exec # tx[o].exec
  BY <1>1, <1>5, StartedApart
<1>9. row.cur.step <= Size(x) /\ row.cur.retries <= MaxRetries
  BY <1>3, <1>5 DEF IInv, TypeOK, Size
<1>10. \A a \in Approvals : Read(a, row)
  BY <1>5, IdleFacts DEF Read
<1>11. \A y \in Execs, k \in Nat : row.exec = y /\ row.cur.step >= k => exec[y].step >= k
  BY <1>3, <1>5
<1> QED
  BY <1>4, <1>5, <1>7, <1>8, <1>9, <1>10, <1>11, QuietStep

(* A decision reads the execution.                                          *)
Reads(s, pc, c) == Move(s, [tx[s] EXCEPT !.pc = pc, !.old = exec[tx[s].exec], !.cur = c])

LEMMA ReadStep ==
  ASSUME IInv, NEW s \in Sessions, tx[s].pc = "loaded", tx[s].op # "start",
         NEW pc \in {"resume", "commit"}, NEW c \in ExecRow, Reads(s, pc, c),
         UNCHANGED <<rows, tries, done>>,
         c.step = exec[tx[s].exec].step, c.retries = exec[tx[s].exec].retries,
         pc = "resume" => /\ tx[s].op \in {"approve", "modify"}
                          /\ c = exec[tx[s].exec]
                          /\ c.step < Size(tx[s].exec),
         pc = "commit" =>
           \/ c.status = "CANCELLED"
           \/ /\ tx[s].op \in {"approve", "modify"}
              /\ c = exec[tx[s].exec]
              /\ ~ (c.step < Size(tx[s].exec))
  PROVE  IInv'
<1> DEFINE x   == tx[s].exec
           row == [tx[s] EXCEPT !.pc = pc, !.old = exec[x], !.cur = c]
<1>1. tx[s] \in SessionRow /\ AtPoint(s)
  BY DEF IInv, TypeOK, SessionOK
<1>2. x \in Execs /\ Deciding(s) /\ ~ Starting(s) /\ ~ tx[s].asks
  BY <1>1 DEF AtPoint, Starting, Going, Stopping
<1>3. exec[x] \in ExecRow /\ exec[x].status \notin {"NONE", "PENDING"}
  BY <1>2 DEF IInv, TypeOK, ExecOK, Deciding
<1>4. Move(s, row)
  BY DEF Reads
<1>5. /\ row \in SessionRow /\ row.pc = pc /\ row.cur = c /\ row.old = exec[x]
      /\ row.op = tx[s].op /\ row.appr = tx[s].appr /\ row.exec = x
      /\ ~ row.asks /\ row.kept = tx[s].kept
  BY <1>1, <1>2, <1>3 DEF SessionRow
<1> HIDE DEF row, x
<1>6. /\ tx'[s] = row /\ Deciding(s)'
      /\ \A o \in Sessions : o # s /\ tx[o].pc # "idle" /\ Starting(o) => row.exec # tx[o].exec
  BY <1>2, <1>4, <1>5, KindKept DEF x
<1>7. AtPoint(s)'
  BY <1>2, <1>3, <1>5, <1>6 DEF AtPoint, x
<1>8. row.cur.step <= Size(x) /\ row.cur.retries <= MaxRetries
  BY <1>2, <1>5 DEF IInv, TypeOK, Size, x
<1>9. ASSUME NEW a \in Approvals, NEW y \in Execs,
             exec[y].status = "WAITING_APPROVAL", Open(a, y), Left(a, y)
      PROVE  Read(a, row)
  <2> SUFFICES ASSUME row.appr = a
               PROVE  /\ row.old.status = "WAITING_APPROVAL"
                      /\ row.pc = "commit" /\ row.cur.status = "WAITING_APPROVAL"
                           => approval[a].act \in Commits
    BY DEF Read
  <2>1. y = x
    BY <1>2, <1>5, <1>9 DEF Open, Deciding, x
  <2> QED
    BY <1>2, <1>5, <1>9, <2>1 DEF Left, x
<1>10. \A y \in Execs, k \in Nat : row.exec = y /\ row.cur.step >= k => exec[y].step >= k
  BY <1>5 DEF x
<1> QED
  BY <1>4, <1>5, <1>6, <1>7, <1>8, <1>9, <1>10, QuietStep

LEMMA LoadStep ==
  ASSUME IInv, NEW s \in Sessions, LoadToCancel(s) \/ LoadToResume(s)
  PROVE  IInv'
<1> DEFINE x == tx[s].exec
<1>1. tx[s] \in SessionRow /\ AtPoint(s) /\ tx[s].pc = "loaded" /\ tx[s].op # "start"
  BY DEF IInv, TypeOK, SessionOK, LoadToCancel, LoadToResume
<1>2. x \in Execs /\ Deciding(s)
  BY <1>1 DEF AtPoint, Starting, Going, Stopping
<1>3. exec[x] \in ExecRow /\ exec[x].status \notin {"NONE", "PENDING"}
  BY <1>2 DEF IInv, TypeOK, ExecOK, Deciding
<1>4. CASE LoadToCancel(s)
  <2>1. CASE RollBack(s)
    BY <1>4, <2>1, RollBackStep DEF RollBack, LoadToCancel
  <2>2. CASE Move(s, [tx[s] EXCEPT !.pc = "commit", !.old = exec[x],
                                   !.cur = [exec[x] EXCEPT !.status = "CANCELLED"]])
             /\ UNCHANGED rows
    <3> DEFINE c == [exec[x] EXCEPT !.status = "CANCELLED"]
    <3>1. c \in ExecRow /\ c.status = "CANCELLED" /\ c.step = exec[x].step /\ c.retries = exec[x].retries
      BY <1>3 DEF ExecRow, ExecutionStatus, Terminal
    <3>2. Reads(s, "commit", c)
      BY <2>2 DEF Reads
    <3>3. UNCHANGED <<rows, tries, done>>
      BY <1>4, <2>2 DEF LoadToCancel
    <3> HIDE DEF c
    <3> QED
      BY <1>1, <3>1, <3>2, <3>3, ReadStep
  <2> QED
    BY <1>4, <2>1, <2>2 DEF LoadToCancel
<1>5. CASE LoadToResume(s)
  <2>1. UNCHANGED <<rows, tries, done>> /\ tx[s].op \in {"approve", "modify"}
    BY <1>5 DEF LoadToResume
  <2>2. CASE exec[x].step < Size(x)
    <3>1. Reads(s, "resume", exec[x])
      BY <1>5, <2>2 DEF LoadToResume, Reads, Size
    <3> QED
      BY <1>1, <1>3, <2>1, <2>2, <3>1, ReadStep
  <2>3. CASE ~ (exec[x].step < Size(x))
    <3>1. Reads(s, "commit", exec[x])
      BY <1>5, <2>3 DEF LoadToResume, Reads, Size
    <3> QED
      BY <1>1, <1>3, <2>1, <2>3, <3>1, ReadStep
  <2> QED
    BY <2>2, <2>3
<1> QED
  BY <1>4, <1>5
-----------------------------------------------------------------------------
LEMMA MoveToRunning ==
  ASSUME NEW from, ValidExecutionMove(from, "RUNNING")
  PROVE  from \in {"PENDING", "RUNNING", "WAITING_APPROVAL", "WAITING_RETRY"}
BY DEF ValidExecutionMove, ExecutionTransitions, Terminal

(* What is performed with an approval is the action it is bound to.         *)
LEMMA PerformFacts ==
  ASSUME IInv, NEW s \in Sessions, PerformAndGoOn(s)
  PROVE  /\ tx[s].appr \in Approvals /\ tx[s].exec \in Execs /\ Deciding(s)
         /\ tries' \in [Approvals -> Nat]
         /\ done' \in [Approvals -> SUBSET (Acts \cup {"modified"})]
         /\ \A a \in Approvals : /\ done[a] \subseteq done'[a]
                                 /\ approval[a].status = "NONE" => done'[a] = {}
         /\ Unmodified' => /\ NextAct(s) = approval[tx[s].appr].act
                           /\ NextAct(s) \in done'[tx[s].appr]
<1> DEFINE a == tx[s].appr
           x == tx[s].exec
<1>1. tx[s] \in SessionRow /\ AtPoint(s) /\ tx[s].pc = "resume" /\ Bound(s)
  BY DEF IInv, TypeOK, SessionOK, PerformAndGoOn
<1>2. /\ Deciding(s) /\ a \in Approvals /\ x \in Execs /\ approval[a].status # "NONE"
      /\ tx[s].op \in {"approve", "modify"} /\ tx[s].cur.step < Size(x)
  BY <1>1 DEF AtPoint, Starting, Going, Stopping, Deciding
<1>3. NextAct(s) \in Acts
  BY <1>1, <1>2, PlanFacts DEF NextAct, SessionRow, ExecRow
<1>4. Requested(s) \in Acts \cup {"modified"} /\ Requested(s) \in {approval[a].act, "modified"}
  BY <1>1, <1>3 DEF Requested, Bound
<1>5. tries' = [tries EXCEPT ![a] = @ + 1] /\ done' = [done EXCEPT ![a] = @ \cup {Requested(s)}]
  BY DEF PerformAndGoOn
<1>6. tries \in [Approvals -> Nat] /\ done \in [Approvals -> SUBSET (Acts \cup {"modified"})]
  BY DEF IInv, TypeOK
<1> HIDE DEF a, x
<1>7. tries' \in [Approvals -> Nat]
  BY <1>2, <1>5, <1>6
<1>8. /\ done' \in [Approvals -> SUBSET (Acts \cup {"modified"})]
      /\ done'[a] = done[a] \cup {Requested(s)}
      /\ \A b \in Approvals : b # a => done'[b] = done[b]
  BY <1>2, <1>4, <1>5, <1>6
<1>9. ASSUME NEW b \in Approvals
      PROVE  /\ done[b] \subseteq done'[b]
             /\ approval[b].status = "NONE" => done'[b] = {}
  BY <1>2, <1>4, <1>8 DEF IInv, ApprovalOK
<1>10. ASSUME Unmodified'
       PROVE  NextAct(s) = approval[a].act /\ NextAct(s) \in done'[a]
  <2>1. Requested(s) # "modified"
    BY <1>2, <1>8, <1>10 DEF Unmodified
  <2> QED
    BY <1>4, <1>8, <2>1 DEF Requested
<1> QED
  BY <1>2, <1>7, <1>8, <1>9, <1>10 DEF a, x

LEMMA PerformStep ==
  ASSUME IInv, NEW s \in Sessions, PerformAndGoOn(s)
  PROVE  IInv'
<1> DEFINE x == tx[s].exec
           cur == tx[s].cur
           new == [cur EXCEPT !.status = "RUNNING", !.step = @ + 1]
<1>1. tx[s] \in SessionRow /\ AtPoint(s) /\ tx[s].pc = "resume"
  BY DEF IInv, TypeOK, SessionOK, PerformAndGoOn
<1>2. /\ cur \in ExecRow /\ cur = tx[s].old /\ cur.step < Size(x) /\ cur.step \in Nat
      /\ x \in Execs /\ Deciding(s) /\ ~ Starting(s) /\ ~ tx[s].asks
      /\ tx[s].op \in {"approve", "modify"}
      /\ tx[s].old.status \notin {"NONE", "PENDING"}
      /\ cur.retries <= MaxRetries
  BY <1>1 DEF AtPoint, SessionRow, ExecRow, Starting, Going, Stopping, IInv, Bounded
<1>3. Size(x) \in Nat
  BY <1>2, PlanFacts
<1>4. CASE RollBack(s)
  <2>1. tx'[s] = Idle /\ UNCHANGED rows /\ Move(s, Idle)
    BY <1>4, IdleFacts, MoveFacts DEF RollBack, IInv
  <2>2. AtPoint(s)'
    BY <2>1, IdleFacts DEF AtPoint
  <2>3. \A o \in Sessions : tx[o].pc # "idle" => Idle.exec # tx[o].exec
    BY IdleFacts DEF IInv, SessionOK, AtPoint
  <2>4. \A y \in Execs : Idle.exec # y
    BY IdleFacts
  <2>5. \A a \in Approvals : Read(a, Idle)
    BY IdleFacts DEF Read
  <2> QED
    BY <2>1, <2>2, <2>3, <2>4, <2>5, IdleFacts, PerformFacts, SessionStep
<1>5. CASE /\ ValidExecutionMove(cur.status, "RUNNING")
           /\ Enter(s, new)
           /\ UNCHANGED rows
  <2>1. new \in ExecRow /\ new.status = "RUNNING" /\ new.step = cur.step + 1 /\ new.retries = cur.retries
    <3> DEFINE w == [cur EXCEPT !.status = "RUNNING"]
    <3>1. w \in ExecRow /\ w.status = "RUNNING" /\ w.step = cur.step /\ w.retries = cur.retries
      BY <1>2 DEF ExecRow, ExecutionStatus
    <3>2. w.step \in Nat
      BY <1>2, <3>1
    <3> HIDE DEF w
    <3>3. /\ [w EXCEPT !.step = @ + 1] \in ExecRow
          /\ [w EXCEPT !.step = @ + 1].status = "RUNNING"
          /\ [w EXCEPT !.step = @ + 1].step = w.step + 1
          /\ [w EXCEPT !.step = @ + 1].retries = w.retries
      BY <3>1, <3>2 DEF ExecRow
    <3>4. new = [w EXCEPT !.step = @ + 1]
      BY DEF w
    <3> QED
      BY <3>1, <3>3, <3>4
  <2> HIDE DEF new
  <2>2. PICK pc \in {"run", "commit"}, c \in ExecRow :
           /\ Goes(s, pc, c)
           /\ c.step = new.step /\ c.retries = new.retries
           /\ pc = "run" => c = new
           /\ pc = "commit" => c.status \in {"COMPLETED", "TIMED_OUT", "BLOCKED"}
    BY <1>5, <2>1, EnterFacts
  <2> DEFINE row == [tx[s] EXCEPT !.pc = pc, !.cur = c]
  <2>3. Move(s, row)
    BY <2>2 DEF Goes
  <2>4. /\ row \in SessionRow /\ row.pc = pc /\ row.cur = c /\ row.old = tx[s].old
        /\ row.op = tx[s].op /\ row.appr = tx[s].appr /\ row.exec = x
        /\ ~ row.asks /\ row.kept = tx[s].kept
    BY <1>1, <1>2 DEF SessionRow
  <2> HIDE DEF row, x, cur
  <2>5. /\ tx'[s] = row /\ Deciding(s)'
        /\ \A o \in Sessions : o # s /\ tx[o].pc # "idle" /\ Starting(o) => row.exec # tx[o].exec
    BY <1>1, <1>2, <1>5, <2>3, <2>4, KindKept DEF x
  <2>6. tx[s].old.status \in {"WAITING_APPROVAL", "WAITING_RETRY", "RUNNING"}
    BY <1>2, <1>5, MoveToRunning
  <2>7. c.step > tx[s].old.step /\ c.step <= Size(x) /\ c.step = cur.step + 1 /\ c.retries <= MaxRetries
    BY <1>2, <1>3, <2>1, <2>2
  <2>8. Advanced(s)'
    BY <2>4, <2>5, <2>7 DEF Advanced
  <2>9. AtPoint(s)'
    <3>1. c.step >= tx[s].old.step
      BY <1>1, <2>7 DEF SessionRow, ExecRow
    <3> QED
      BY <1>2, <2>1, <2>2, <2>4, <2>5, <2>6, <2>8, <3>1 DEF AtPoint
  <2>10. \A a \in Approvals, y \in Execs : Open(a, y) => Read(a, row)
    BY <1>1, <2>2, <2>4 DEF Open, Read
  <2>11. ASSUME NEW y \in Execs, NEW k \in Nat, row.exec = y, row.cur.step >= k,
                k \in DOMAIN Actions[y], Actions[y][k] \in Gated, Unmodified'
         PROVE  \/ exec[y].step >= k
                \/ tx[s].exec = y /\ tx[s].cur.step >= k
                \/ Performed(y, Actions[y][k])'
    <3>1. CASE k <= cur.step
      BY <1>2, <2>4, <2>11, <3>1 DEF x, cur
    <3>2. CASE k = cur.step + 1
      <4>1. NextAct(s) = Actions[y][k]
        BY <2>4, <2>11, <3>2 DEF NextAct, x, cur
      <4>2. /\ tx[s].appr \in Approvals
            /\ Actions[y][k] = approval[tx[s].appr].act
            /\ Actions[y][k] \in done'[tx[s].appr]
        BY <2>11, <4>1, PerformFacts
      <4>3. approval' = approval /\ approval[tx[s].appr].exec = y
        BY <1>2, <1>5, <2>4, <2>11 DEF Deciding, rows, x
      <4> QED
        BY <4>2, <4>3 DEF Performed
    <3> QED
      BY <1>2, <2>4, <2>7, <2>11, <3>1, <3>2
  <2>12. row.cur.step <= Size(row.exec) /\ row.cur.retries <= MaxRetries
    BY <2>4, <2>7
  <2> QED
    BY <1>5, <2>3, <2>4, <2>5, <2>9, <2>10, <2>11, <2>12, PerformFacts, SessionStep
<1> QED
  BY <1>4, <1>5 DEF PerformAndGoOn

LEMMA ResumeFailsStep ==
  ASSUME IInv, NEW s \in Sessions, ResumeFails(s)
  PROVE  IInv'
<1> DEFINE x == tx[s].exec
           c == [tx[s].cur EXCEPT !.status = "FAILED"]
           row == [tx[s] EXCEPT !.pc = "commit", !.cur = c]
<1>1. tx[s] \in SessionRow /\ AtPoint(s) /\ tx[s].pc = "resume"
  BY DEF IInv, TypeOK, SessionOK, ResumeFails
<1>2. CASE RollBack(s)
  BY <1>2, RollBackStep DEF RollBack, ResumeFails
<1>3. CASE UNCHANGED rows /\ Move(s, [tx[s] EXCEPT !.pc = "commit", !.cur.status = "FAILED"])
  <2>1. /\ tx[s].cur \in ExecRow /\ tx[s].cur = tx[s].old /\ tx[s].cur.step <= Size(x)
        /\ x \in Execs /\ Deciding(s) /\ ~ Starting(s) /\ ~ tx[s].asks
        /\ tx[s].cur.retries <= MaxRetries
    BY <1>1 DEF AtPoint, SessionRow, Starting, Going, Stopping, IInv, Bounded
  <2>2. c \in ExecRow /\ c.status = "FAILED" /\ c.step = tx[s].cur.step /\ c.retries = tx[s].cur.retries
    BY <2>1 DEF ExecRow, ExecutionStatus, Terminal
  <2>3. Move(s, row) /\ UNCHANGED <<rows, tries, done>>
    BY <1>1, <1>3 DEF SessionRow, ResumeFails
  <2> HIDE DEF c
  <2>4. /\ row \in SessionRow /\ row.pc = "commit" /\ row.cur = c /\ row.old = tx[s].old
        /\ row.op = tx[s].op /\ row.appr = tx[s].appr /\ row.exec = x
        /\ ~ row.asks /\ row.kept = tx[s].kept
    BY <1>1, <2>1, <2>2 DEF SessionRow
  <2> HIDE DEF row, x
  <2>5. /\ tx'[s] = row /\ Deciding(s)'
        /\ \A o \in Sessions : o # s /\ tx[o].pc # "idle" /\ Starting(o) => row.exec # tx[o].exec
    BY <1>1, <2>1, <2>3, <2>4, KindKept DEF x
  <2>6. AtPoint(s)'
    BY <2>1, <2>2, <2>4, <2>5 DEF AtPoint
  <2>7. \A a \in Approvals, y \in Execs : Open(a, y) => Read(a, row)
    BY <1>1, <2>2, <2>4 DEF Open, Read
  <2>8. \A y \in Execs, k \in Nat :
          row.exec = y /\ row.cur.step >= k => tx[s].exec = y /\ tx[s].cur.step >= k
    BY <2>2, <2>4 DEF x
  <2>9. row.cur.step <= Size(row.exec) /\ row.cur.retries <= MaxRetries
    BY <2>1, <2>2, <2>4
  <2> QED
    BY <2>3, <2>4, <2>5, <2>6, <2>7, <2>8, <2>9, QuietStep
<1> QED
  BY <1>2, <1>3 DEF ResumeFails
-----------------------------------------------------------------------------
(* What a commit may write into the approvals: the session's decision.      *)
LEMMA DecidedFacts ==
  ASSUME IInv, NEW s \in Sessions, tx[s].pc # "idle"
  PROVE  /\ Decided(s) \in [Approvals -> ApprovalRow]
         /\ \A a \in Approvals :
              /\ Decided(s)[a].exec = approval[a].exec
              /\ Decided(s)[a].act = approval[a].act
              /\ Decided(s)[a].status = "NONE" <=> approval[a].status = "NONE"
              /\ a # tx[s].appr => Decided(s)[a].status = approval[a].status
              /\ tx[s].op \in {"approve", "modify"} =>
                   Decided(s)[a].status \in {approval[a].status, "APPROVED", "MODIFIED"}
<1>1. AtPoint(s) /\ approval \in [Approvals -> ApprovalRow]
  BY DEF IInv, TypeOK, SessionOK
<1>2. CASE tx[s].appr = None \/ tx[s].kept
  BY <1>1, <1>2 DEF Decided
<1>3. CASE Deciding(s) /\ ~ tx[s].kept
  <2>1. Decided(s) = [approval EXCEPT ![tx[s].appr].status = Decision[tx[s].op]]
    BY <1>3, NoneAssumption DEF Decided, Deciding
  <2>2. /\ Decision[tx[s].op] \in ApprovalStatus /\ Decision[tx[s].op] # "NONE"
        /\ tx[s].op \in {"approve", "modify"} => Decision[tx[s].op] \in {"APPROVED", "MODIFIED"}
    BY <1>3 DEF Decision, Deciding, ApprovalStatus
  <2>3. tx[s].appr \in Approvals /\ approval[tx[s].appr].status # "NONE"
    BY <1>3 DEF Deciding
  <2> QED
    BY <1>1, <2>1, <2>2, <2>3 DEF ApprovalRow
<1> QED
  BY <1>1, <1>2, <1>3 DEF AtPoint, Starting, Going, Stopping

(* A final commit may also insert the approval it asks for.                 *)
LEMMA AskFacts ==
  ASSUME IInv, NEW s \in Sessions, Commit(s), tx[s].asks
  PROVE  \E a \in Approvals :
           /\ approval[a].status = "NONE"
           /\ approval' \in [Approvals -> ApprovalRow]
           /\ approval'[a].status = "PENDING" /\ approval'[a].exec = tx[s].exec
           /\ approval'[a].act = NextAct(s)
           /\ \A b \in Approvals : b # a => approval'[b] = Decided(s)[b]
<1>1. tx[s] \in SessionRow /\ AtPoint(s) /\ tx[s].pc = "commit"
  BY DEF IInv, TypeOK, SessionOK, Commit
<1>2. tx[s].exec \in Execs
  BY <1>1 DEF AtPoint
<1>3. PICK a \in Approvals :
        /\ approval[a].status = "NONE"
        /\ approval' = [Decided(s) EXCEPT ![a] =
             [status |-> "PENDING", exec |-> tx[s].exec, act |-> NextAct(s)]]
  BY DEF Commit
<1>4. NextAct(s) \in Acts
  <2>1. tx[s].cur.step < Size(tx[s].exec) /\ tx[s].cur.step \in Nat
    BY <1>1 DEF AtPoint, SessionRow, ExecRow
  <2> QED
    BY <1>2, <2>1, PlanFacts DEF NextAct
<1> DEFINE new == [status |-> "PENDING", exec |-> tx[s].exec, act |-> NextAct(s)]
<1>5. new \in ApprovalRow /\ new.status = "PENDING" /\ new.exec = tx[s].exec /\ new.act = NextAct(s)
  BY <1>2, <1>4 DEF ApprovalRow, ApprovalStatus
<1> HIDE DEF new
<1>6. approval' = [Decided(s) EXCEPT ![a] = new]
  BY <1>3 DEF new
<1>7. Decided(s) \in [Approvals -> ApprovalRow]
  BY <1>1, DecidedFacts
<1>8. /\ approval' \in [Approvals -> ApprovalRow] /\ approval'[a] = new
      /\ \A b \in Approvals : b # a => approval'[b] = Decided(s)[b]
  BY <1>5, <1>6, <1>7
<1> QED
  BY <1>3, <1>5, <1>8

Working(s) == tx[s].pc \in {"resume", "run", "commit"}

(* What it writes into the execution: each column is the session's or the   *)
(* one that is there.                                                       *)
LEMMA WriteFacts ==
  ASSUME IInv, NEW s \in Sessions, Working(s), WriteExec(s)
  PROVE  LET x == tx[s].exec
             c == tx[s].cur
             old == tx[s].old
         IN  /\ x \in Execs
             /\ exec' \in [Execs -> ExecRow]
             /\ \A y \in Execs : y # x => exec'[y] = exec[y]
             /\ \/ exec'[x].status = c.status /\ c # old
                \/ exec'[x].status = exec[x].status /\ c.status = old.status
             /\ exec'[x].step = IF c.step = old.step THEN exec[x].step ELSE c.step
             /\ exec'[x].retries \in {exec[x].retries, c.retries}
<1> DEFINE x == tx[s].exec
           c == tx[s].cur
           old == tx[s].old
<1>1. tx[s] \in SessionRow /\ AtPoint(s) /\ tx[s].pc # "idle" /\ exec \in [Execs -> ExecRow]
  BY DEF IInv, TypeOK, SessionOK, Working
<1>2. x \in Execs /\ c \in ExecRow /\ old \in ExecRow /\ exec[x] \in ExecRow
  BY <1>1 DEF AtPoint, SessionRow
<1>3. PICK status \in {Column(exec[x].status, old.status, c.status)}
                         \cup (IF c.step # old.step THEN {c.status} ELSE {}) :
        exec' = [exec EXCEPT ![x] = [status  |-> status,
                                     step    |-> Column(exec[x].step, old.step, c.step),
                                     retries |-> Column(exec[x].retries, old.retries, c.retries)]]
  BY DEF WriteExec
<1> DEFINE new == [status  |-> status,
                   step    |-> Column(exec[x].step, old.step, c.step),
                   retries |-> Column(exec[x].retries, old.retries, c.retries)]
<1>4. /\ (new.status = c.status /\ c # old) \/ (new.status = exec[x].status /\ c.status = old.status)
      /\ new.step = IF c.step = old.step THEN exec[x].step ELSE c.step
      /\ new.retries \in {exec[x].retries, c.retries}
      /\ new \in ExecRow
  BY <1>2, <1>3 DEF Column, ExecRow
<1>5. exec' = [exec EXCEPT ![x] = new]
  BY <1>3
<1> HIDE DEF new
<1>6. /\ exec' \in [Execs -> ExecRow] /\ exec'[x] = new
      /\ \A y \in Execs : y # x => exec'[y] = exec[y]
  BY <1>1, <1>2, <1>4, <1>5
<1> QED
  BY <1>2, <1>4, <1>6

LEMMA WriteRows ==
  ASSUME IInv, NEW s \in Sessions, Working(s), WriteExec(s)
  PROVE  LET x == tx[s].exec IN
         /\ exec'[x].status \notin {"NONE", "PENDING"}
         /\ exec'[x].step <= Size(x) /\ exec'[x].retries <= MaxRetries
<1> DEFINE x == tx[s].exec
           c == tx[s].cur
           old == tx[s].old
<1>1. tx[s] \in SessionRow /\ AtPoint(s) /\ tx[s].pc \in {"resume", "run", "commit"}
  BY DEF IInv, TypeOK, SessionOK, Working
<1>2. x \in Execs /\ c.status \notin {"NONE", "PENDING"}
  BY <1>1 DEF AtPoint
<1>3. /\ exec[x].status # "PENDING"
      /\ exec[x].step <= Size(x) /\ exec[x].retries <= MaxRetries
      /\ c.step <= Size(x) /\ c.retries <= MaxRetries
  BY <1>1, <1>2 DEF IInv, ExecOK, TypeOK, Bounded, Size
<1>4. exec[x].status = "NONE" => c.status # old.status
  <2>1. exec[x].status = "NONE" => Starting(s)
    BY <1>1 DEF AtPoint, Going, Deciding, Stopping
  <2> QED
    BY <1>2, <2>1 DEF Starting, NoExec
<1>5. /\ exec'[x].status = c.status \/ (exec'[x].status = exec[x].status /\ c.status = old.status)
      /\ exec'[x].step = IF c.step = old.step THEN exec[x].step ELSE c.step
      /\ exec'[x].retries \in {exec[x].retries, c.retries}
  BY WriteFacts
<1> HIDE DEF x, c, old
<1>6. exec'[x].status \notin {"NONE", "PENDING"}
  BY <1>2, <1>3, <1>4, <1>5
<1>7. exec'[x].step <= Size(x) /\ exec'[x].retries <= MaxRetries
  BY <1>3, <1>5
<1> QED
  BY <1>6, <1>7 DEF x

(* A commit, in the middle of an action or at the end: what it leaves to    *)
(* show is that the session is right afterwards and nobody waits in vain.   *)
LEMMA WriteStep ==
  ASSUME IInv, NEW s \in Sessions, Working(s), WriteExec(s), UNCHANGED <<tries, done>>,
         NEW row \in SessionRow, Move(s, row),
         row = Idle \/ (row.pc # "idle" /\ row.exec = tx[s].exec /\ row.cur = tx[s].cur),
         approval' \in [Approvals -> ApprovalRow],
         \A a \in Approvals : approval[a].status # "NONE" =>
           /\ approval'[a].status # "NONE"
           /\ approval'[a].exec = approval[a].exec
           /\ approval'[a].act = approval[a].act,
         \A a \in Approvals : approval[a].status = "NONE" /\ approval'[a].status # "NONE"
           => approval'[a].exec = tx[s].exec,
         AtPoint(s)',
         WaitingHasOpen'
  PROVE  IInv'
<1> DEFINE x == tx[s].exec
<1>1. tx[s] \in SessionRow /\ AtPoint(s) /\ tx[s].pc # "idle"
  BY DEF IInv, TypeOK, SessionOK, Working
<1>2. /\ x \in Execs /\ exec' \in [Execs -> ExecRow]
      /\ \A y \in Execs : y # x => exec'[y] = exec[y]
  BY WriteFacts
<1>3. /\ tx' \in [Sessions -> SessionRow] /\ tx'[s] = row
      /\ \A o \in Sessions : o # s => tx'[o] = tx[o]
  BY MoveFacts DEF IInv
<1>4. TypeOK'
  <2>1. \A y \in Execs : exec'[y].step <= Len(Actions[y]) /\ exec'[y].retries <= MaxRetries
    BY <1>2, WriteRows DEF IInv, TypeOK, Size
  <2> QED
    BY <1>2, <1>3, <2>1 DEF IInv, TypeOK
<1>5. ExecOK'
  BY <1>2, WriteRows DEF IInv, ExecOK
<1>6. \A y \in Execs : exec[y].status # "NONE" => exec'[y].status # "NONE"
  BY <1>2, WriteRows
<1>7. exec'[x].status # "NONE"
  BY WriteRows
<1> HIDE DEF x
<1>8. ApprovalOK'
  <2> SUFFICES ASSUME NEW a \in Approvals
               PROVE  /\ approval'[a].status # "NONE" =>
                           approval'[a].exec \in Execs /\ exec'[approval'[a].exec].status # "NONE"
                      /\ approval'[a].status = "NONE" => done'[a] = {}
    BY DEF ApprovalOK
  <2>1. CASE approval[a].status # "NONE"
    BY <1>6, <2>1 DEF IInv, ApprovalOK
  <2>2. CASE approval[a].status = "NONE"
    BY <1>2, <1>7, <2>2 DEF IInv, ApprovalOK, x
  <2> QED
    BY <2>1, <2>2
<1>10. SessionOK'
  <2> SUFFICES ASSUME NEW o \in Sessions, o # s PROVE AtPoint(o)'
    BY DEF SessionOK
  <2>1. AtPoint(o) /\ tx'[o] = tx[o]
    BY <1>3 DEF IInv, SessionOK
  <2>2. ASSUME tx[o].pc # "idle", Starting(o) PROVE Starting(o)'
    <3>1. tx[o].exec \in Execs /\ tx[o].exec # x
      BY <2>1, <2>2 DEF AtPoint, Starting, x
    <3>2. exec'[tx[o].exec] = exec[tx[o].exec]
      BY <1>2, <3>1
    <3>3. \A q \in Sessions : q # o => tx'[q].exec # tx[o].exec
      BY <1>3, <2>2, <3>1, IdleFacts DEF Starting, x
    <3> QED
      BY <2>1, <2>2, <3>2, <3>3 DEF Starting
  <2>3. ASSUME tx[o].pc # "idle", Deciding(o) PROVE Deciding(o)'
    <3>1. tx[o].exec \in Execs /\ tx[o].appr \in Approvals
      BY <2>1, <2>3 DEF AtPoint, Deciding
    <3> QED
      BY <1>6, <2>1, <2>3, <3>1 DEF Deciding
  <2>4. ASSUME tx[o].pc # "idle" PROVE (Stopping(o) => Stopping(o)') /\ (Going(o) => Going(o)')
    BY <1>6, <2>1, <2>4 DEF Stopping, Going, AtPoint
  <2>5. Advanced(o)' <=> Advanced(o)
    BY <2>1 DEF Advanced, NextAct
  <2> QED
    BY <2>1, <2>2, <2>3, <2>4, <2>5 DEF AtPoint
<1>11. Bounded'
  BY <1>1, <1>3, IdleFacts DEF IInv, Bounded
<1>13. PassedIsPerformed'
  <2> SUFFICES ASSUME Unmodified', NEW y \in Execs, NEW k \in DOMAIN Actions[y],
                      Actions[y][k] \in Gated,
                      exec'[y].step >= k \/ \E o \in Sessions : tx'[o].exec = y /\ tx'[o].cur.step >= k
               PROVE  Performed(y, Actions[y][k])'
    BY DEF PassedIsPerformed
  <2>1. Unmodified
    BY DEF Unmodified
  <2>2. exec[y].step >= k \/ \E o \in Sessions : tx[o].exec = y /\ tx[o].cur.step >= k
    <3>1. CASE exec'[y].step >= k
      <4>1. CASE y = x
        <5>1. exec'[y].step \in {exec[y].step, tx[s].cur.step}
          BY <4>1, WriteFacts DEF x
        <5> QED
          BY <3>1, <4>1, <5>1 DEF x
      <4>2. CASE y # x
        BY <1>2, <3>1, <4>2
      <4> QED
        BY <4>1, <4>2
    <3>2. ASSUME NEW o \in Sessions, tx'[o].exec = y, tx'[o].cur.step >= k
          PROVE  tx[o].exec = y /\ tx[o].cur.step >= k
      BY <1>3, <3>2, IdleFacts
    <3> QED
      BY <3>1, <3>2
  <2>3. PICK a \in Approvals :
          approval[a].exec = y /\ approval[a].act = Actions[y][k] /\ Actions[y][k] \in done[a]
    BY <2>1, <2>2 DEF IInv, PassedIsPerformed, Performed
  <2>4. approval[a].status # "NONE"
    BY <2>3 DEF IInv, ApprovalOK
  <2> QED
    BY <2>3, <2>4 DEF Performed
<1> QED
  BY <1>3, <1>4, <1>5, <1>8, <1>10, <1>11, <1>13 DEF IInv

(* An approval that no commit touches stays open for its execution.         *)
LEMMA OpenKept ==
  ASSUME IInv, NEW s \in Sessions, NEW row \in SessionRow, Move(s, row),
         NEW a \in Approvals, NEW x \in Execs, Open(a, x), Read(a, row),
         approval'[a].exec = approval[a].exec, approval'[a].act = approval[a].act,
         \/ approval'[a].status = approval[a].status
         \/ approval'[a].status \in {"APPROVED", "MODIFIED"} /\ approval[a].act \in Commits
  PROVE  Open(a, x)'
<1>1. tx'[s] = row /\ \A o \in Sessions : o # s => tx'[o] = tx[o]
  BY MoveFacts DEF IInv
<1>2. \A o \in Sessions : Read(a, tx[o])'
  BY <1>1 DEF Open, Read
<1> QED
  BY <1>2 DEF Open, Granted

LEMMA CommitStep ==
  ASSUME IInv, NEW s \in Sessions, Commit(s)
  PROVE  IInv'
<1> DEFINE x == tx[s].exec
           c == tx[s].cur
           old == tx[s].old
<1>1. /\ tx[s] \in SessionRow /\ AtPoint(s) /\ tx[s].pc = "commit" /\ Working(s)
      /\ Move(s, Idle) /\ UNCHANGED <<tries, done>> /\ WriteExec(s)
  BY DEF IInv, TypeOK, SessionOK, Commit, Working
<1>2. /\ x \in Execs /\ c \in ExecRow /\ old \in ExecRow
      /\ Starting(s) \/ Going(s) \/ Deciding(s) \/ Stopping(s)
  BY <1>1 DEF AtPoint, SessionRow
<1>3. /\ \A y \in Execs : y # x => exec'[y] = exec[y]
      /\ \/ exec'[x].status = c.status /\ c # old
         \/ exec'[x].status = exec[x].status /\ c.status = old.status
      /\ exec'[x].step = IF c.step = old.step THEN exec[x].step ELSE c.step
  BY <1>1, WriteFacts
<1>4. /\ Decided(s) \in [Approvals -> ApprovalRow]
      /\ \A a \in Approvals :
           /\ Decided(s)[a].exec = approval[a].exec
           /\ Decided(s)[a].act = approval[a].act
           /\ Decided(s)[a].status = "NONE" <=> approval[a].status = "NONE"
           /\ a # tx[s].appr => Decided(s)[a].status = approval[a].status
           /\ tx[s].op \in {"approve", "modify"} =>
                Decided(s)[a].status \in {approval[a].status, "APPROVED", "MODIFIED"}
  BY <1>1, DecidedFacts
<1>5. /\ tx'[s] = Idle /\ AtPoint(s)'
      /\ \A o \in Sessions : o # s => tx'[o] = tx[o]
  BY <1>1, IdleFacts, MoveFacts DEF IInv, AtPoint
<1>6. \A a \in Approvals : Read(a, Idle)
  BY IdleFacts DEF Read
<1> HIDE DEF x, c, old
<1>7. CASE tx[s].asks
  <2>1. PICK a \in Approvals :
           /\ approval[a].status = "NONE"
           /\ approval' \in [Approvals -> ApprovalRow]
           /\ approval'[a].status = "PENDING" /\ approval'[a].exec = x
           /\ approval'[a].act = NextAct(s)
           /\ \A b \in Approvals : b # a => approval'[b] = Decided(s)[b]
    BY <1>7, AskFacts DEF x
  <2>0. PICK z \in Execs : z = x
    BY <1>2
  <2>2. Open(a, z)'
    <3>1. \A o \in Sessions : tx'[o].appr # a
      <4> SUFFICES ASSUME NEW o \in Sessions PROVE tx'[o].appr # a
        OBVIOUS
      <4>1. tx'[o] = Idle \/ (tx'[o] = tx[o] /\ AtPoint(o))
        BY <1>5 DEF IInv, SessionOK
      <4> QED
        BY <2>1, <4>1, IdleFacts DEF AtPoint, Deciding, Starting, Going, Stopping, Idle
    <3> QED
      BY <2>0, <2>1, <3>1 DEF Open, Read
  <2>3. Left(a, z)'
    <3>1. c.step < Size(x) /\ Advanced(s)
      BY <1>1, <1>7 DEF AtPoint, x, c
    <3>2. CASE tx[s].op = "start" /\ ~ tx[s].kept
      <4>1. exec[x] = NoExec /\ old = NoExec
        BY <1>2, <3>2 DEF Deciding, Going, Stopping, Starting, x, old
      <4> QED
        BY <1>3, <2>0, <3>1, <4>1 DEF Left
    <3>3. CASE c.step > old.step
      <4>1. c.step # old.step
        BY <1>2, <3>3 DEF ExecRow
      <4> QED
        BY <1>3, <2>0, <3>1, <4>1 DEF Left
    <3>4. CASE NextAct(s) \in Commits
      BY <2>1, <3>4 DEF Left
    <3> QED
      BY <3>1, <3>2, <3>3, <3>4 DEF Advanced, c, old
  <2>4. ASSUME NEW y \in Execs, y # x, NEW b \in Approvals, Open(b, y), Left(b, y)
        PROVE  Open(b, y)' /\ Left(b, y)'
    <3>1. b # a /\ b # tx[s].appr
      BY <1>2, <2>1, <2>4, IdleFacts DEF Open, Granted, Deciding, Starting, Going, Stopping, x
    <3>2. approval'[b].exec = approval[b].exec /\ approval'[b].act = approval[b].act
          /\ approval'[b].status = approval[b].status
      BY <1>4, <2>1, <3>1
    <3>3. Open(b, y)'
      BY <1>1, <1>6, <2>4, <3>2, IdleFacts, OpenKept
    <3> QED
      BY <1>3, <2>4, <3>2, <3>3 DEF Left
  <2>5. WaitingHasOpen'
    <3> SUFFICES ASSUME NEW y \in Execs, exec'[y].status = "WAITING_APPROVAL"
                 PROVE  \E b \in Approvals : Open(b, y)' /\ Left(b, y)'
      BY DEF WaitingHasOpen
    <3>1. CASE y = x
      BY <2>0, <2>2, <2>3, <3>1
    <3>2. CASE y # x
      <4>1. exec[y].status = "WAITING_APPROVAL"
        BY <1>3, <3>2
      <4> QED
        BY <2>4, <3>2, <4>1 DEF IInv, WaitingHasOpen
    <3> QED
      BY <3>1, <3>2
  <2> QED
    BY <1>1, <1>4, <1>5, <2>1, <2>5, IdleFacts, WriteStep DEF x
<1>8. CASE ~ tx[s].asks
  <2>1. approval' = Decided(s)
    BY <1>8 DEF Commit
  <2>2. ASSUME NEW y \in Execs, exec'[y].status = "WAITING_APPROVAL"
        PROVE  exec[y].status = "WAITING_APPROVAL"
    BY <1>1, <1>3, <1>8, <2>2 DEF AtPoint, c, old
  <2>3. ASSUME NEW y \in Execs, exec'[y].status = "WAITING_APPROVAL",
               NEW b \in Approvals, Open(b, y), Left(b, y)
        PROVE  Open(b, y)' /\ Left(b, y)'
    <3>1. CASE y # x
      <4>1. b # tx[s].appr
        BY <1>2, <2>3, <3>1, IdleFacts DEF Open, Deciding, Starting, Going, Stopping, x
      <4>2. Open(b, y)'
        BY <1>1, <1>4, <1>6, <2>1, <2>3, <4>1, IdleFacts, OpenKept
      <4> QED
        BY <1>3, <1>4, <2>1, <2>3, <3>1, <4>2 DEF Left
    <3>2. CASE y = x /\ c.status # "WAITING_APPROVAL"
      <4>1. c.status = old.status
        BY <1>3, <2>3, <3>2
      <4>2. b # tx[s].appr
        BY <1>1, <2>3, <3>2, <4>1 DEF Open, Read, c, old
      <4>3. Open(b, y)'
        BY <1>1, <1>4, <1>6, <2>1, <2>3, <4>2, IdleFacts, OpenKept
      <4>4. c.step # old.step => c.step < Size(x)
        BY <1>1, <4>1 DEF AtPoint, x, c, old
      <4> QED
        BY <1>3, <1>4, <2>1, <2>3, <3>2, <4>3, <4>4 DEF Left
    <3>3. CASE y = x /\ c.status = "WAITING_APPROVAL"
      <4>1. c = old /\ tx[s].op \in {"approve", "modify"}
        BY <1>1, <1>8, <3>3 DEF AtPoint, c, old
      <4>2. b = tx[s].appr => approval[b].act \in Commits
        BY <1>1, <1>8, <2>3, <3>3 DEF Open, Read, c
      <4>3. \/ approval'[b].status = approval[b].status
            \/ approval'[b].status \in {"APPROVED", "MODIFIED"} /\ approval[b].act \in Commits
        BY <1>4, <2>1, <4>1, <4>2
      <4>4. Open(b, y)'
        BY <1>1, <1>4, <1>6, <2>1, <2>3, <4>3, IdleFacts, OpenKept
      <4> QED
        BY <1>3, <1>4, <2>1, <2>3, <3>3, <4>1, <4>4 DEF Left
    <3> QED
      BY <3>1, <3>2, <3>3
  <2>4. WaitingHasOpen'
    BY <2>2, <2>3 DEF IInv, WaitingHasOpen
  <2> QED
    BY <1>1, <1>4, <1>5, <2>1, <2>4, IdleFacts, WriteStep
<1> QED
  BY <1>7, <1>8

LEMMA CommitWithinStep ==
  ASSUME IInv, NEW s \in Sessions, CommitWithin(s)
  PROVE  IInv'
<1> DEFINE x   == tx[s].exec
           c   == tx[s].cur
           old == tx[s].old
           row == [tx[s] EXCEPT !.old = tx[s].cur, !.kept = TRUE]
<1>1. /\ tx[s] \in SessionRow /\ AtPoint(s) /\ tx[s].pc \in {"resume", "run"} /\ Working(s)
      /\ UNCHANGED <<tries, done>> /\ WriteExec(s) /\ approval' = Decided(s) /\ Move(s, row)
  BY DEF IInv, TypeOK, SessionOK, CommitWithin, Working
<1>2. /\ x \in Execs /\ c \in ExecRow /\ old \in ExecRow
      /\ Starting(s) \/ Going(s) \/ Deciding(s) \/ Stopping(s)
      /\ ~ tx[s].asks
  BY <1>1 DEF AtPoint, SessionRow
<1>3. /\ \A y \in Execs : y # x => exec'[y] = exec[y]
      /\ \/ exec'[x].status = c.status /\ c # old
         \/ exec'[x].status = exec[x].status /\ c.status = old.status
      /\ exec'[x].step = IF c.step = old.step THEN exec[x].step ELSE c.step
      /\ exec'[x].status # "NONE"
  BY <1>1, WriteFacts, WriteRows
<1>4. /\ Decided(s) \in [Approvals -> ApprovalRow]
      /\ \A a \in Approvals :
           /\ Decided(s)[a].exec = approval[a].exec
           /\ Decided(s)[a].act = approval[a].act
           /\ Decided(s)[a].status = "NONE" <=> approval[a].status = "NONE"
           /\ a # tx[s].appr => Decided(s)[a].status = approval[a].status
           /\ tx[s].op \in {"approve", "modify"} =>
                Decided(s)[a].status \in {approval[a].status, "APPROVED", "MODIFIED"}
  BY <1>1, DecidedFacts
<1>5. /\ row \in SessionRow /\ row.pc = tx[s].pc /\ row.op = tx[s].op /\ row.appr = tx[s].appr
      /\ row.exec = x /\ row.old = c /\ row.cur = c /\ row.asks = tx[s].asks /\ row.kept
  BY <1>1, <1>2 DEF SessionRow
<1> HIDE DEF row, c, old, x
<1>6. tx'[s] = row
  BY <1>1, <1>5, MoveFacts DEF IInv
<1>7. tx[s].pc = "run" => c.step < Size(x) /\ NextAct(s) \in Commits
  <2>1. Size(x) \in Nat /\ c.step \in Nat
    BY <1>2, PlanFacts DEF ExecRow
  <2> QED
    BY <1>1, <2>1 DEF CommitWithin, Ended, Size, x, c
<1>8. tx[s].pc = "resume" =>
        /\ tx[s].op \in {"approve", "modify"} /\ c = old
        /\ approval[tx[s].appr].act \in Commits
  BY <1>1 DEF CommitWithin, AtPoint, c, old
<1>9. AtPoint(s)'
  <2>1. Deciding(s) => Deciding(s)'
    BY <1>1, <1>3, <1>4, <1>5, <1>6 DEF Deciding, x
  <2>2. Starting(s) \/ Going(s) => Going(s)'
    BY <1>3, <1>5, <1>6 DEF Starting, Going, x
  <2>3. Stopping(s) => Stopping(s)'
    BY <1>3, <1>5, <1>6 DEF Stopping, x
  <2>4. tx[s].pc = "run" => Advanced(s)'
    BY <1>5, <1>6, <1>7 DEF Advanced, NextAct, x, c
  <2>5. Starting(s)' \/ Going(s)' \/ Deciding(s)' \/ Stopping(s)'
    BY <1>2, <2>1, <2>2, <2>3
  <2>6. CASE tx[s].pc = "run"
    <3>1. c.status = "RUNNING" /\ c.step >= c.step
      BY <1>1, <1>2, <2>6 DEF AtPoint, ExecRow, c
    <3> QED
      BY <1>2, <1>5, <1>6, <2>4, <2>5, <2>6, <3>1 DEF AtPoint
  <2>7. CASE tx[s].pc = "resume"
    <3>1. c.step < Size(x) /\ c.status \notin {"NONE", "PENDING"}
      BY <1>1, <2>7 DEF AtPoint, c, x
    <3> QED
      BY <1>2, <1>5, <1>6, <1>8, <2>5, <2>7, <3>1 DEF AtPoint
  <2> QED
    BY <1>1, <2>6, <2>7
<1>10. ASSUME NEW y \in Execs, exec'[y].status = "WAITING_APPROVAL"
       PROVE  /\ exec[y].status = "WAITING_APPROVAL"
              /\ y = x /\ tx[s].pc = "run" => old.status = "RUNNING"
  BY <1>1, <1>3, <1>8, <1>10 DEF AtPoint, c, old
<1>11. ASSUME NEW y \in Execs, exec'[y].status = "WAITING_APPROVAL",
              NEW b \in Approvals, Open(b, y), Left(b, y)
       PROVE  Open(b, y)' /\ Left(b, y)'
  <2>1. b = tx[s].appr => y = x /\ tx[s].pc = "resume"
    BY <1>1, <1>2, <1>10, <1>11, IdleFacts
    DEF Open, Read, Deciding, Starting, Going, Stopping, x, old
  <2>2. \/ approval'[b].status = approval[b].status
        \/ approval'[b].status \in {"APPROVED", "MODIFIED"} /\ approval[b].act \in Commits
    BY <1>1, <1>4, <1>8, <2>1
  <2>3. Read(b, row)
    BY <1>5, <1>8, <1>11, <2>1 DEF Open, Read, old
  <2>4. Open(b, y)'
    BY <1>1, <1>4, <1>5, <1>11, <2>2, <2>3, OpenKept
  <2>5. Left(b, y)'
    BY <1>1, <1>3, <1>4, <1>7, <1>8, <1>11 DEF Left
  <2> QED
    BY <2>4, <2>5
<1>12. WaitingHasOpen'
  BY <1>10, <1>11 DEF IInv, WaitingHasOpen
<1> QED
  BY <1>1, <1>4, <1>5, <1>9, <1>12, WriteStep DEF x, c
-----------------------------------------------------------------------------
LEMMA InitOK == Init => IInv
<1> SUFFICES ASSUME Init PROVE IInv
  OBVIOUS
<1>1. exec = [x \in Execs |-> NoExec] /\ tx = [s \in Sessions |-> Idle]
      /\ done = [a \in Approvals |-> {}] /\ tries = [a \in Approvals |-> 0]
      /\ approval = [a \in Approvals |-> [status |-> "NONE", exec |-> None, act |-> None]]
  BY DEF Init
<1>2. NoExec \in ExecRow /\ NoExec.step = 0 /\ NoExec.retries = 0 /\ NoExec.status = "NONE"
  BY DEF NoExec, ExecRow
<1>3. TypeOK
  <2>1. \A x \in Execs : exec[x].step <= Len(Actions[x]) /\ exec[x].retries <= MaxRetries
    BY <1>1, <1>2, PlanFacts, LimitAssumption DEF Size
  <2> QED
    BY <1>1, <1>2, <2>1, IdleFacts DEF TypeOK, ApprovalRow
<1>4. ExecOK /\ ApprovalOK /\ WaitingHasOpen
  BY <1>1, <1>2 DEF ExecOK, ApprovalOK, WaitingHasOpen
<1>5. SessionOK /\ Bounded
  BY <1>1, IdleFacts DEF SessionOK, AtPoint, Bounded
<1>6. PassedIsPerformed
  <2> SUFFICES ASSUME NEW x \in Execs, NEW k \in DOMAIN Actions[x]
               PROVE  /\ ~ (exec[x].step >= k)
                      /\ \A s \in Sessions : tx[s].exec # x
    BY DEF PassedIsPerformed
  <2>1. k \in Nat /\ k >= 1
    BY PlanFacts
  <2> QED
    BY <1>1, <1>2, <2>1, IdleFacts
<1> QED
  BY <1>3, <1>4, <1>5, <1>6 DEF IInv

LEMMA StutterOK == ASSUME IInv, UNCHANGED vars PROVE IInv'
BY DEF IInv, TypeOK, ExecOK, ApprovalOK, SessionOK, AtPoint, Starting, Going, Deciding,
       Stopping, Advanced, NextAct, Bounded, WaitingHasOpen, Open, Granted, Read, Left,
       PassedIsPerformed, Unmodified, Performed, vars

LEMMA StepOK == IInv /\ [Next]_vars => IInv'
<1> SUFFICES ASSUME IInv, [Next]_vars PROVE IInv'
  OBVIOUS
<1>1. ASSUME NEW s \in Sessions, NEW x \in Execs, StartExecution(s, x) \/ LoadToStop(s, x)
      PROVE  IInv'
  BY <1>1, StartStep, LoadToStopStep
<1>2. ASSUME NEW s \in Sessions, NEW a \in Approvals, NEW op \in OpType, LoadApproval(s, a, op)
      PROVE  IInv'
  BY <1>2, LoadApprovalStep
<1>3. ASSUME NEW s \in Sessions, Step(s)
      PROVE  IInv'
  BY <1>3, EnterPipelineStep, RunStep, LoadStep, PerformStep, ResumeFailsStep, CommitStep,
     CommitWithinStep DEF Step
<1>4. ASSUME NEW s \in Sessions, Crash(s)
      PROVE  IInv'
  BY <1>4, RollBackStep DEF Crash
<1>5. CASE UNCHANGED vars
  BY <1>5, StutterOK
<1> QED
  BY <1>1, <1>2, <1>3, <1>4, <1>5 DEF Next, Quiet

(* The rows that requests write without a lock agree with each other and    *)
(* with what the sessions have read, in every reachable state.              *)
THEOREM Inductive == Spec => []IInv
<1>1. Init => IInv
  BY InitOK
<1>2. IInv /\ [Next]_vars => IInv'
  BY StepOK
<1> QED
  BY <1>1, <1>2, PTL DEF Spec

(* Steps stay within the workflow and retries within max_retries, whichever *)
(* commits overwrite each other.                                            *)
THEOREM TypeCorrect == Spec => []TypeOK
<1>1. IInv => TypeOK
  BY DEF IInv
<1> QED
  BY <1>1, Inductive, PTL

(* WorkflowEngine and ApprovalService never leave an execution in           *)
(* WAITING_APPROVAL without a PENDING approval, whatever races or crashes,  *)
(* unless the approval was granted for an agent, which commits on the way.  *)
THEOREM WaitingAlwaysHasPending == Spec => []WaitingHasPending
<1>1. IInv => WaitingHasPending
  BY DEF IInv, WaitingHasOpen, Open, WaitingHasPending
<1> QED
  BY <1>1, Inductive, PTL

(* Without modifications no execution passes a gated action that was not    *)
(* performed with an approval of this execution for this action.            *)
THEOREM NoGatedStepIsSkipped == Spec => []NoGatedStepSkipped
<1>1. IInv => NoGatedStepSkipped
  BY DEF IInv, PassedIsPerformed, Unmodified, Performed, NoGatedStepSkipped
<1> QED
  BY <1>1, Inductive, PTL
=============================================================================
