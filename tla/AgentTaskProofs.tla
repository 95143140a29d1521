-------------------------- MODULE AgentTaskProofs --------------------------
(***************************************************************************)
(* Proofs about AgentTask, for every template, tariff, ceiling, limit and   *)
(* number of restarts and exits: the invariant of AgentTaskInductive is     *)
(* inductive; type correctness, the safety of the accounting, the finality  *)
(* of the receipt draft and the refinement of AgentEscrow follow from it.   *)
(* The second half is about what a task says of itself when it ends.        *)
(*                                                                          *)
(* LAYOUT.  A handler is a small update of job and task followed by one of  *)
(* the common ends (Park, Advance, Interrupt, AccountingHold, Finish).      *)
(* Each end has a lemma that it keeps job and task well-typed and in        *)
(* agreement (Kept); each action has a lemma that it keeps Inductive.       *)
(***************************************************************************)
EXTENDS AgentTaskInductive, TLAPS

-----------------------------------------------------------------------------
(* Vocabulary of the proofs *)

(* A step inside a turn of the worker: nothing but job and task moves, and  *)
(* nothing is metered.                                                      *)
Local == coord' = coord /\ chain' = chain /\ hist'.usage = hist.usage

(* What such a step has to keep. *)
Kept == job' \in JobType /\ task' \in TaskType /\ Agreement'

(* The books are not touched. *)
BooksSame ==
    /\ job'.budget = job.budget /\ job'.spent = job.spent
    /\ job'.outcome = job.outcome /\ job'.receipt = job.receipt

PendingType == [skill : Skills \cup {NoSkill}, approved : BOOLEAN, expired : BOOLEAN]

-----------------------------------------------------------------------------
(* The small updates every handler is made of *)

LEMMA StatusNames ==
    /\ "ready" \in Statuses /\ "waiting" \in Statuses /\ "awaiting_approval" \in Statuses
    /\ "paused" \in Statuses /\ "interrupted" \in Statuses /\ "planning" \in Statuses
    /\ "executing" \in Statuses /\ "verifying" \in Statuses
    /\ "accounting_pending" \in Statuses /\ "budget_preparing" \in Statuses
    /\ "budget_reserving" \in Statuses /\ "budget_authorizing" \in Statuses
    /\ "settling" \in Statuses /\ "receipting" \in Statuses /\ "reconciling" \in Statuses
    /\ "failed" \in Statuses
  BY DEF Statuses, WorkPhases, ChainPhases, Terminal

LEMMA BudgetNames ==
    /\ "reservation_pending" \in BudgetStatuses /\ "unreserved" \in BudgetStatuses
    /\ "reserved" \in BudgetStatuses /\ "settlement_pending" \in BudgetStatuses
    /\ "settled" \in BudgetStatuses /\ "receipt_pending" \in BudgetStatuses
    /\ "complete" \in BudgetStatuses
  BY DEF BudgetStatuses

LEMMA ContinuationNames ==
    /\ "none" \in Continuations /\ "boot" \in Continuations /\ "plan" \in Continuations
    /\ "ask" \in Continuations /\ "execute" \in Continuations /\ "operate" \in Continuations
    /\ "spawn" \in Continuations /\ "advance" \in Continuations /\ "park" \in Continuations
    /\ "fail" \in Continuations /\ "complete" \in Continuations
    /\ "abandon" \in Continuations /\ "receipt" \in Continuations /\ "close" \in Continuations
  BY DEF Continuations

LEMMA NoPendingType == NoPending \in PendingType
  BY DEF NoPending, PendingType

LEMMA RunOperationFields ==
    ASSUME task \in TaskType, RunOperation
    PROVE  /\ task' \in TaskType
           /\ task'.up = task.up /\ task'.active /\ ~task'.sent /\ task'.next = "none"
  <1>1. "none" \in Continuations
    BY DEF Continuations
  <1>2. task' \in TaskType
    BY <1>1, Zenon DEF TaskType, RunOperation
  <1> QED BY <1>2 DEF TaskType, RunOperation

LEMMA ContinueFields ==
    ASSUME task \in TaskType, NEW n \in Continuations, Continue(n)
    PROVE  /\ task' \in TaskType
           /\ task'.up = task.up /\ ~task'.active /\ ~task'.sent /\ task'.next = n
  <1>1. task' \in TaskType
    BY Zenon DEF TaskType, Continue
  <1> QED BY <1>1 DEF TaskType, Continue

LEMMA NoWorkerFields ==
    /\ NoWorker \in TaskType
    /\ ~NoWorker.up /\ ~NoWorker.active /\ ~NoWorker.sent /\ NoWorker.next = "none"
  BY DEF NoWorker, TaskType, Continuations

LEMMA LoseEffectFields ==
    ASSUME Inductive, LoseEffect
    PROVE  hist' \in HistType /\ hist'.usage = hist.usage
  <1>1. (hist.lost \/ (task.active /\ job.status \in {"executing", "verifying"})) \in BOOLEAN
    BY DEF Inductive, TypeOK, HistType, TaskType
  <1>2. hist' \in HistType
    BY <1>1, Zenon DEF Inductive, TypeOK, HistType, LoseEffect
  <1> QED BY <1>2 DEF Inductive, TypeOK, HistType, LoseEffect

LEMMA StatusFields ==
    ASSUME job \in JobType, NEW s \in Statuses, job' = [job EXCEPT !.status = s]
    PROVE  /\ job' \in JobType /\ job'.status = s /\ BooksSame
           /\ job'.pending = job.pending /\ job'.resume = job.resume
  <1>1. job' \in JobType
    BY Zenon DEF JobType
  <1> QED BY <1>1 DEF JobType, BooksSame

LEMMA StatusPhaseFields ==
    ASSUME job \in JobType, NEW s \in Statuses, NEW p \in Statuses \cup {"none"},
           job' = [job EXCEPT !.status = s, !.phase = p]
    PROVE  /\ job' \in JobType /\ job'.status = s /\ BooksSame
           /\ job'.pending = job.pending /\ job'.resume = job.resume
  <1>1. job' \in JobType
    BY Zenon DEF JobType
  <1> QED BY <1>1 DEF JobType, BooksSame

(* A step that touches none of what the agreement is about. *)
LEMMA FrameKeeps ==
    ASSUME Inductive, coord' = coord, chain' = chain, hist'.usage = hist.usage, task' = task,
           BooksSame, job'.status = job.status, job'.pending.skill = job.pending.skill,
           job'.resume = job.resume
    PROVE  Agreement'
  <1>1. Process' /\ Continuation' /\ Proposal' /\ Stage' /\ Intent'
    BY DEF Inductive, BooksSame, Agreement, Process, Continuation, Proposal, Stage, Intent
  <1>2. Ledger' /\ OneWriter' /\ Draft' /\ MoneyAddsUp'
    BY DEF Inductive, BooksSame, Agreement, Ledger, OneWriter, Draft, MoneyAddsUp,
           Unsent, Uncertain, Confirmed
  <1>3. Booking'
    <2>1. /\ Rate(job'.resume, job'.pending.skill) = Rate(job.resume, job.pending.skill)
          /\ Rate(job'.status, job'.pending.skill) = Rate(job.status, job.pending.skill)
      OBVIOUS
    <2> QED BY <2>1 DEF Inductive, BooksSame, Agreement, Booking
  <1> QED BY <1>1, <1>2, <1>3 DEF Agreement

LEMMA StutterKeeps ==
    ASSUME Inductive, Local, UNCHANGED <<job, task>>
    PROVE  Kept
  BY FrameKeeps DEF Local, BooksSame, Kept, Inductive, TypeOK

(* An operation ends, the books stay, and the new state is a quiet one. *)
LEMMA QuietMove ==
    ASSUME Inductive, task.up, Local, BooksSame,
           job'.status \in {"paused", "waiting", "awaiting_approval", "interrupted",
                            "accounting_pending", "ready"},
           job'.status \in Working => job.budget \in {"disabled", "reserved"},
           job'.status = "accounting_pending" => job.budget \in Unconfirmed,
           job'.status = "awaiting_approval" => job'.pending.skill \in Skills,
           task'.up, ~task'.active,
           \/ task'.next = "none"
           \/ job'.status = "ready" /\ task'.next = "plan"
           \/ job'.status = "ready" /\ task'.next = "execute" /\ job'.pending.skill \in Skills
    PROVE  Agreement'
  <1>1. Process' /\ Continuation' /\ Proposal'
    BY DEF Inductive, Local, BooksSame, Agreement, Process, Continuation, Proposal,
           WorkPhases, Terminal
  <1>2. Stage' /\ Intent'
    BY DEF Inductive, Local, BooksSame, Agreement, Stage, Intent, Working, WorkPhases,
           Terminal, Unconfirmed
  <1>3. Ledger' /\ OneWriter' /\ Draft' /\ MoneyAddsUp'
    BY DEF Inductive, Local, BooksSame, Agreement, Ledger, OneWriter, Draft, MoneyAddsUp,
           Unsent, Uncertain, Confirmed
  <1>4. Booking'
    BY DEF Booking
  <1> QED BY <1>1, <1>2, <1>3, <1>4 DEF Agreement

-----------------------------------------------------------------------------
(* The common ends of handlers *)

LEMMA ParkKeeps ==
    ASSUME Inductive, task.up, Local, Park, job.budget \in {"disabled", "reserved"}
    PROVE  Kept
  <1>1. job' \in JobType
    <2>1. "paused" \in Statuses
      BY StatusNames
    <2> QED BY <2>1, NoPendingType, Zenon DEF Inductive, TypeOK, JobType, PendingType, Park
  <1>2. job'.status = "paused" /\ BooksSame
    BY DEF Inductive, TypeOK, JobType, Park, BooksSame
  <1>3. task' \in TaskType /\ task'.up /\ ~task'.active /\ task'.next = "none"
    BY ContinueFields, ContinuationNames DEF Inductive, TypeOK, Park
  <1>4. Agreement'
    BY <1>2, <1>3, QuietMove
  <1> QED BY <1>1, <1>3, <1>4 DEF Kept

LEMMA AdvanceKeeps ==
    ASSUME Inductive, task.up, Local, Advance, job.budget \in {"disabled", "reserved"}
    PROVE  Kept
  <1>1. CASE job.pauseReq /\ Park
    BY <1>1, ParkKeeps
  <1>2. ASSUME job' = [job EXCEPT !.status = "ready", !.pending = NoPending],
               Continue("plan")
        PROVE  Kept
    <2>1. job' \in JobType
      <3>1. "ready" \in Statuses
        BY StatusNames
      <3> QED BY <1>2, <3>1, NoPendingType, Zenon DEF Inductive, TypeOK, JobType, PendingType
    <2>2. job'.status = "ready" /\ BooksSame
      BY <1>2 DEF Inductive, TypeOK, JobType, BooksSame
    <2>3. task' \in TaskType /\ task'.up /\ ~task'.active /\ task'.next = "plan"
      BY <1>2, ContinueFields, ContinuationNames DEF Inductive, TypeOK
    <2>4. Agreement'
      BY <2>2, <2>3, QuietMove
    <2> QED BY <2>1, <2>3, <2>4 DEF Kept
  <1> QED BY <1>1, <1>2 DEF Advance

LEMMA InterruptKeeps ==
    ASSUME Inductive, task.up, Local, NEW p \in Statuses, Interrupt(p)
    PROVE  Kept
  <1>1. job' \in JobType /\ job'.status = "interrupted" /\ BooksSame
    BY StatusPhaseFields, StatusNames DEF Inductive, TypeOK, Interrupt
  <1>2. task' \in TaskType /\ task'.up /\ ~task'.active /\ task'.next = "none"
    BY ContinueFields, ContinuationNames DEF Inductive, TypeOK, Interrupt
  <1>3. Agreement'
    BY <1>1, <1>2, QuietMove DEF Working, WorkPhases
  <1> QED BY <1>1, <1>2, <1>3 DEF Kept

LEMMA AccountingHoldKeeps ==
    ASSUME Inductive, task.up, Local, NEW p \in Statuses, AccountingHold(p),
           job.budget \in Unconfirmed
    PROVE  Kept
  <1>1. job' \in JobType /\ job'.status = "accounting_pending" /\ BooksSame
    BY StatusPhaseFields, StatusNames DEF Inductive, TypeOK, AccountingHold
  <1>2. task' \in TaskType /\ task'.up /\ ~task'.active /\ task'.next = "none"
    BY ContinueFields, ContinuationNames DEF Inductive, TypeOK, AccountingHold
  <1>3. Agreement'
    BY <1>1, <1>2, QuietMove DEF Working, WorkPhases
  <1> QED BY <1>1, <1>2, <1>3 DEF Kept

LEMMA TerminalFinishKeeps ==
    ASSUME Inductive, task.up, Local, NEW s \in Terminal, TerminalFinish(s),
           job.budget \in {"disabled", "unprepared", "unreserved", "complete"}
    PROVE  Kept
  <1>1. job' \in JobType /\ job'.status = s /\ BooksSame
    <2>1. s \in Statuses
      BY DEF Statuses
    <2> QED BY <2>1, StatusFields DEF Inductive, TypeOK, TerminalFinish
  <1>2. task' \in TaskType /\ ~task'.up /\ ~task'.active /\ task'.next = "none"
    BY NoWorkerFields DEF TerminalFinish
  <1>3. Process' /\ Continuation' /\ Proposal' /\ Intent' /\ Booking'
    BY <1>1, <1>2 DEF Inductive, Local, Agreement, Process, Continuation, Proposal, Intent,
                      Booking, Terminal
  <1>4. Stage'
    BY <1>1 DEF Inductive, BooksSame, Agreement, Stage, Working, WorkPhases, Terminal
  <1>5. Ledger' /\ OneWriter' /\ Draft' /\ MoneyAddsUp'
    BY <1>1, <1>2 DEF Inductive, Local, BooksSame, Agreement, Ledger, OneWriter, Draft,
                      MoneyAddsUp, Unsent, Uncertain, Confirmed
  <1> QED BY <1>1, <1>2, <1>3, <1>4, <1>5 DEF Kept, Agreement

(* An operation of the accounting backend starts: its intent is written     *)
(* down first, and the ledger says that it is the first of its kind.        *)
LEMMA StartKeeps ==
    ASSUME Inductive, task.up, Local, RunOperation,
           job' \in JobType, job'.spent = job.spent,
           \/ /\ job'.status = "budget_preparing" /\ BooksSame
              /\ job.budget = "unprepared"
           \/ /\ job'.status = "budget_reserving" /\ job'.outcome = job.outcome
              /\ job.budget = "unprepared" /\ job'.budget = "reservation_pending"
           \/ /\ job'.status = "budget_authorizing" /\ BooksSame
              /\ job.budget = "reserved" /\ job'.resume \in WorkPhases
              /\ job'.resume = "executing" => job'.pending.skill \in Skills
              /\ job'.spent + Rate(job'.resume, job'.pending.skill) <= MaxCostUnits
           \/ /\ job'.status = "settling" /\ job'.outcome \in Terminal
              /\ job'.receipt = job.spent
              /\ job.budget = "reserved" /\ job'.budget = "settlement_pending"
           \/ /\ job'.status = "receipting" /\ job'.outcome = job.outcome
              /\ job'.receipt = job.receipt
              /\ job.budget = "settled" /\ job'.budget = "receipt_pending"
           \/ /\ job'.status = "reconciling" /\ BooksSame
              /\ job.budget \in Unconfirmed
    PROVE  Kept
  <1>1. task' \in TaskType /\ task'.up /\ task'.active /\ ~task'.sent /\ task'.next = "none"
    BY RunOperationFields DEF Inductive, TypeOK
  <1>2. Process' /\ Continuation' /\ Proposal'
    BY <1>1 DEF Inductive, Local, Agreement, Process, Continuation, Proposal, WorkPhases,
         ChainPhases, Terminal
  <1>3. Stage' /\ Intent' /\ Booking'
    BY <1>1 DEF Inductive, BooksSame, Agreement, Stage, Intent, Booking, Working, WorkPhases,
         Terminal, Unconfirmed
  <1>4. Ledger' /\ OneWriter'
    BY <1>1 DEF Inductive, BooksSame, Local, Agreement, Ledger, OneWriter, Unsent, Uncertain,
         Confirmed
  <1>5. Draft' /\ MoneyAddsUp'
    BY DEF Inductive, BooksSame, Local, Agreement, Ledger, Draft, MoneyAddsUp, Unsent,
         Uncertain, Confirmed
  <1> QED BY <1>1, <1>2, <1>3, <1>4, <1>5 DEF Kept, Agreement

LEMMA StartReceiptKeeps ==
    ASSUME Inductive, task.up, Local, StartReceipt, job.budget = "settled"
    PROVE  Kept
  <1>1. job' \in JobType
    <2>1. "receipting" \in Statuses /\ "receipt_pending" \in BudgetStatuses
      BY StatusNames, BudgetNames
    <2> QED BY <2>1, Zenon DEF Inductive, TypeOK, JobType, StartReceipt
  <1>2. /\ job'.status = "receipting" /\ job'.budget = "receipt_pending"
        /\ job'.spent = job.spent /\ job'.outcome = job.outcome /\ job'.receipt = job.receipt
    BY DEF Inductive, TypeOK, JobType, StartReceipt
  <1> QED BY <1>1, <1>2, StartKeeps DEF StartReceipt

LEMMA StartSettlementKeeps ==
    ASSUME Inductive, task.up, Local, NEW s \in Terminal, job.budget = "reserved",
           job' = [job EXCEPT !.status = "settling", !.budget = "settlement_pending",
                              !.outcome = s, !.receipt = job.spent],
           RunOperation
    PROVE  Kept
  <1>1. job' \in JobType
    <2>1. job.spent \in Nat
      BY DEF Inductive, TypeOK, JobType
    <2>2. "settling" \in Statuses /\ "settlement_pending" \in BudgetStatuses
      BY StatusNames, BudgetNames
    <2> QED BY <2>1, <2>2, Zenon DEF Inductive, TypeOK, JobType
  <1>2. /\ job'.status = "settling" /\ job'.budget = "settlement_pending"
        /\ job'.spent = job.spent /\ job'.outcome = s /\ job'.receipt = job.spent
    BY DEF Inductive, TypeOK, JobType
  <1> QED BY <1>1, <1>2, StartKeeps

(* However and whenever a task is finished, the books and the chain agree. *)
LEMMA FinishKeeps ==
    ASSUME Inductive, task.up, Local, NEW s \in Terminal, Finish(s)
    PROVE  Kept
  <1>1. job.status \in Statuses
    BY DEF Inductive, TypeOK, JobType
  <1> QED
    BY <1>1, TerminalFinishKeeps, StartSettlementKeeps, StartReceiptKeeps,
       AccountingHoldKeeps DEF Finish

LEMMA LocalStep ==
    ASSUME Inductive, UNCHANGED <<coord, env, chain, hist>>, Kept
    PROVE  Inductive'
  BY DEF Inductive, TypeOK, Kept

LEMMA BootKeeps == ASSUME Inductive, Boot PROVE Inductive'
  <1>1. /\ Local /\ job.status = "queued" /\ task.up
        /\ job.budget \in {"disabled", "unprepared"} /\ (Metered <=> job.budget # "disabled")
    BY DEF Inductive, Agreement, Process, Stage, Boot, Local
  <1>2. ASSUME job.budget = "unprepared", job' = [job EXCEPT !.status = "budget_preparing"],
               RunOperation
        PROVE  Kept
    <2>1. job' \in JobType /\ job'.status = "budget_preparing" /\ BooksSame
      BY <1>2, StatusFields, StatusNames DEF Inductive, TypeOK
    <2> QED BY <1>1, <1>2, <2>1, StartKeeps DEF BooksSame
  <1>3. Kept
    BY <1>1, <1>2, AdvanceKeeps DEF Boot
  <1> QED BY <1>3, LocalStep DEF Boot

(* A turn of the worker goes on under a confirmed reservation. *)
LEMMA TurnMove ==
    ASSUME Inductive, task.up, Local, BooksSame,
           job.budget \in {"disabled", "reserved"},
           job'.status \in WorkPhases,
           task'.up, ~task'.active,
           \/ task'.next \in {"operate", "advance", "park", "fail", "complete"}
           \/ task'.next \in {"ask", "execute"} /\ job'.status = "planning",
           job'.status = "executing" \/ task'.next \in {"ask", "execute"}
             => job'.pending.skill \in Skills
    PROVE  Agreement'
  <1>1. Process' /\ Continuation' /\ Proposal'
    BY DEF Inductive, Local, BooksSame, Agreement, Process, Continuation, Proposal,
           WorkPhases, Terminal
  <1>2. Stage' /\ Intent' /\ Booking'
    BY DEF Inductive, Local, BooksSame, Agreement, Stage, Intent, Booking, Working,
           WorkPhases, Terminal, Unconfirmed
  <1>3. Ledger' /\ OneWriter' /\ Draft' /\ MoneyAddsUp'
    BY DEF Inductive, Local, BooksSame, Agreement, Ledger, OneWriter, Draft, MoneyAddsUp,
           Unsent, Uncertain, Confirmed
  <1> QED BY <1>1, <1>2, <1>3 DEF Agreement

(* An operation of the accounting backend has written its outcome down: the *)
(* budget moves, the rest of the handler is still to come.                  *)
LEMMA OutcomeMove ==
    ASSUME Inductive, task.up, Local,
           job'.status = job.status, job.status \in WritePhases,
           job'.spent = job.spent, job'.outcome = job.outcome, job'.receipt = job.receipt,
           task'.up, ~task'.active,
           \/ /\ job.budget = "reservation_pending" /\ job'.budget = "reserved"
              /\ job.status \in {"budget_reserving", "reconciling"}
              /\ chain.tx["reserve"] = "landed" /\ task'.next \in {"advance", "abandon"}
           \/ /\ job.budget = "reservation_pending" /\ job'.budget = "unreserved"
              /\ job.status = "budget_reserving"
              /\ Unsent("reserve") /\ task'.next = "fail"
           \/ /\ job.budget = "settlement_pending" /\ job'.budget = "settled"
              /\ job.status \in {"settling", "reconciling"}
              /\ chain.tx["settle"] = "landed" /\ task'.next = "receipt"
           \/ /\ job.budget = "receipt_pending" /\ job'.budget = "complete"
              /\ job.status \in {"receipting", "reconciling"}
              /\ chain.tx["receipt"] = "landed" /\ task'.next = "close"
    PROVE  Agreement'
  <1>1. Process' /\ Continuation' /\ Proposal'
    BY DEF Inductive, Local, Agreement, Process, Continuation, Proposal,
           WritePhases, Terminal
  <1>2. Stage' /\ Intent' /\ Booking'
    BY DEF Inductive, Local, Agreement, Stage, Intent, Booking, Working,
           WorkPhases, Terminal, Unconfirmed, WritePhases
  <1>3. Ledger'
    BY DEF Inductive, Local, Agreement, Ledger, Unsent, Uncertain, Confirmed
  <1>4. OneWriter' /\ Draft' /\ MoneyAddsUp'
    BY DEF Inductive, Local, Agreement, OneWriter, Draft, MoneyAddsUp
  <1> QED BY <1>1, <1>2, <1>3, <1>4 DEF Agreement

LEMMA RateType ==
    ASSUME NEW w \in WorkPhases, NEW k, w = "executing" => k \in Skills
    PROVE  Rate(w, k) \in Nat /\ (~Metered => Rate(w, k) = 0)
  <1>1. CASE ~Metered
    BY <1>1 DEF Rate
  <1>2. CASE Metered /\ w = "planning"
    BY <1>2, TariffAssumption DEF Rate
  <1>3. CASE Metered /\ w = "verifying"
    BY <1>3, TariffAssumption DEF Rate
  <1>4. CASE Metered /\ w = "executing"
    <2>1. Rate(w, k) = ActionRate[k] /\ k \in Skills
      BY <1>4 DEF Rate
    <2> QED BY <1>4, <2>1, TariffAssumption
  <1> QED BY <1>1, <1>2, <1>3, <1>4, TariffAssumption DEF WorkPhases

(* The state in which a worker, an operation or a deadline finds a task. *)
LEMMA WorkingBudget ==
    ASSUME Inductive
    PROVE  /\ job.status \in WorkPhases \cup Working => job.budget \in {"disabled", "reserved"}
           /\ job.status \in Statuses
           /\ job.budget \in Unconfirmed \/ job.budget \in BudgetStatuses \ Unconfirmed
  BY DEF Inductive, TypeOK, JobType, Agreement, Stage, Working

LEMMA FinishStep ==
    ASSUME Inductive, task.up, UNCHANGED <<coord, env, chain, hist>>,
           NEW s \in Terminal, Finish(s)
    PROVE  Inductive'
  BY FinishKeeps, LocalStep DEF Local

LEMMA TerminalNames ==
    /\ "failed" \in Terminal /\ "exhausted" \in Terminal /\ "completed" \in Terminal
    /\ "cancelled" \in Terminal /\ "cancelled_unreconciled" \in Terminal
  BY DEF Terminal

LEMMA PlanKeeps == ASSUME Inductive, Plan PROVE Inductive'
  <1>1. task.up /\ Local /\ job.status = "ready" /\ job.budget \in {"disabled", "reserved"}
        /\ ~task.active
    BY DEF Inductive, Agreement, Process, Continuation, Stage, Working, Plan, Local
  <1>2. ASSUME job.iteration < MaxIterations,
               job' = [job EXCEPT !.status = "planning", !.pending = NoPending,
                                  !.iteration = @ + 1],
               task' = [task EXCEPT !.next = "operate"]
        PROVE  Kept
    <2>1. job' \in JobType
      <3>1. "planning" \in Statuses
        BY StatusNames
      <3>2. job.iteration + 1 \in 0 .. MaxIterations
        BY <1>2, LimitAssumption DEF Inductive, TypeOK, JobType
      <3> QED BY <1>2, <3>1, <3>2, NoPendingType, Zenon DEF Inductive, TypeOK, JobType, PendingType
    <2>2. job'.status = "planning" /\ BooksSame
      BY <1>2 DEF Inductive, TypeOK, JobType, BooksSame
    <2>3. task' \in TaskType /\ task'.up /\ ~task'.active /\ task'.next = "operate"
      BY <1>1, <1>2, ContinuationNames DEF Inductive, TypeOK, TaskType
    <2>4. Agreement'
      BY <1>1, <2>2, <2>3, TurnMove DEF WorkPhases
    <2> QED BY <2>1, <2>3, <2>4 DEF Kept
  <1>3. Kept
    BY <1>1, <1>2, FinishKeeps, TerminalNames DEF Plan
  <1> QED BY <1>3, LocalStep DEF Plan

LEMMA ExecuteKeeps == ASSUME Inductive, Execute PROVE Inductive'
  <1>1. /\ task.up /\ Local /\ job.status \in {"ready", "planning"}
        /\ job.budget \in {"disabled", "reserved"}
        /\ ~task.active /\ job.pending.skill \in Skills
    BY DEF Inductive, Agreement, Process, Continuation, Proposal, Stage, Working, WorkPhases,
           Execute, Local
  <1>2. ASSUME job' = [job EXCEPT !.status = "executing"],
               task' = [task EXCEPT !.next = "operate"]
        PROVE  Kept
    <2>1. job' \in JobType /\ job'.status = "executing" /\ BooksSame /\ job'.pending = job.pending
      BY <1>2, StatusFields, StatusNames DEF Inductive, TypeOK
    <2>2. task' \in TaskType /\ task'.up /\ ~task'.active /\ task'.next = "operate"
      BY <1>1, <1>2, ContinuationNames DEF Inductive, TypeOK, TaskType
    <2>3. Agreement'
      <3>1. job'.pending.skill \in Skills
        BY <1>1, <2>1
      <3> QED BY <1>1, <2>1, <2>2, <3>1, TurnMove DEF WorkPhases
    <2> QED BY <2>1, <2>2, <2>3 DEF Kept
  <1>3. Kept
    BY <1>1, <1>2, FinishKeeps, TerminalNames DEF Execute
  <1> QED BY <1>3, LocalStep DEF Execute

LEMMA OperateKeeps == ASSUME Inductive, Operate PROVE Inductive'
  <1>1. /\ task.up /\ Local /\ job.status \in WorkPhases /\ Metered
        /\ job.budget = "reserved" /\ ~task.active
        /\ (job.status = "executing" => job.pending.skill \in Skills)
    BY DEF Inductive, Agreement, Process, Continuation, Proposal, Stage, Working, WorkPhases,
           Operate, Local
  <1>2. ASSUME job.spent + Rate(job.status, job.pending.skill) <= MaxCostUnits,
               job' = [job EXCEPT !.status = "budget_authorizing", !.resume = job.status],
               RunOperation
        PROVE  Kept
    <2>1. job' \in JobType
      <3>1. "budget_authorizing" \in Statuses /\ job.status \in WorkPhases \cup {"none"}
        BY <1>1, StatusNames
      <3> QED BY <1>2, <3>1, Zenon DEF Inductive, TypeOK, JobType
    <2>2. /\ job'.status = "budget_authorizing" /\ BooksSame
          /\ job'.resume = job.status /\ job'.pending = job.pending
      BY <1>2 DEF Inductive, TypeOK, JobType, BooksSame
    <2> QED BY <1>1, <1>2, <2>1, <2>2, StartKeeps DEF BooksSame
  <1>3. Kept
    BY <1>1, <1>2, FinishKeeps, TerminalNames DEF Operate, Affordable
  <1> QED BY <1>3, LocalStep DEF Operate

LEMMA SpawnKeeps == ASSUME Inductive, Spawn PROVE Inductive'
  <1> DEFINE rate == Rate(job.status, job.pending.skill)
  <1>1. /\ task.up /\ job.status \in WorkPhases /\ ~task.active
        /\ job' = job /\ coord' = coord /\ chain' = chain /\ env' = env
        /\ rate \in Nat
        /\ task.next = "spawn" \/ rate = 0
    BY RateType DEF Inductive, Agreement, Process, Continuation, Proposal, WorkPhases, Spawn
  <1>2. task' \in TaskType /\ task'.up /\ task'.active /\ ~task'.sent /\ task'.next = "none"
    BY <1>1, RunOperationFields DEF Inductive, TypeOK, Spawn
  <1>3. hist' \in HistType /\ hist'.usage = hist.usage + rate
    <2>1. job.iteration \in Nat
      BY LimitAssumption DEF Inductive, TypeOK, JobType
    <2>2. /\ hist.calls + 1 \in Nat /\ hist.usage + rate \in Nat
          /\ (IF job.status = "executing" THEN hist.ran \cup {job.iteration} ELSE hist.ran)
               \in SUBSET Nat
          /\ (IF job.status = "executing" THEN hist.granted \ {job.iteration} ELSE hist.granted)
               \in SUBSET Nat
      BY <1>1, <2>1 DEF Inductive, TypeOK, HistType
    <2>3. hist' \in HistType
      BY <2>2, Zenon DEF Inductive, TypeOK, HistType, Spawn
    <2> QED BY <2>3 DEF Inductive, TypeOK, HistType, Spawn
  <1>4. Process' /\ Continuation' /\ Proposal' /\ Stage' /\ Intent' /\ Ledger' /\ Draft'
    BY <1>1, <1>2 DEF Inductive, Agreement, Process, Continuation, Proposal, Stage, Intent,
         Ledger, Unsent, Uncertain, Confirmed, Draft, WorkPhases, Terminal
  <1>5. OneWriter' /\ Booking'
    BY <1>1, <1>2 DEF OneWriter, Booking, WorkPhases
  <1>6. MoneyAddsUp'
    BY <1>1, <1>3 DEF Inductive, TypeOK, JobType, HistType, Agreement, MoneyAddsUp, Booking
  <1> QED BY <1>1, <1>2, <1>3, <1>4, <1>5, <1>6 DEF Inductive, TypeOK, Agreement

LEMMA ProceedKeeps == ASSUME Inductive, Proceed PROVE Inductive'
  <1>1. task.up /\ Local
    BY DEF Proceed, Local
  <1>2. ASSUME task.next = "ask", Ask PROVE Kept
    <2>1. job.status = "planning" /\ job.budget \in {"disabled", "reserved"}
          /\ job.pending.skill \in Skills
      BY <1>2 DEF Inductive, Agreement, Continuation, Proposal, Stage, Working, WorkPhases
    <2>2. /\ job' \in JobType /\ job'.status = "awaiting_approval" /\ BooksSame
          /\ job'.pending = job.pending
      BY <1>2, StatusFields, StatusNames DEF Inductive, TypeOK, Ask
    <2>3. task' \in TaskType /\ task'.up /\ ~task'.active /\ task'.next = "none"
      BY <1>1, <1>2, ContinueFields, ContinuationNames DEF Inductive, TypeOK, Ask
    <2>4. Agreement'
      BY <1>1, <2>1, <2>2, <2>3, QuietMove
    <2> QED BY <2>2, <2>3, <2>4 DEF Kept
  <1>3. /\ task.next \in {"advance", "park"} => job.budget \in {"disabled", "reserved"}
        /\ task.next = "receipt" => job.budget = "settled"
        /\ task.next = "close" => job.budget = "complete" /\ job.outcome \in Terminal
    BY DEF Inductive, Agreement, Continuation, Draft
  <1>4. Kept
    BY <1>1, <1>2, <1>3, AdvanceKeeps, ParkKeeps, FinishKeeps, StartReceiptKeeps,
       TerminalFinishKeeps, TerminalNames DEF Proceed
  <1> QED BY <1>4, LocalStep DEF Proceed

LEMMA InternalKeeps == ASSUME Inductive, Internal PROVE Inductive'
  BY BootKeeps, PlanKeeps, ExecuteKeeps, OperateKeeps, SpawnKeeps, ProceedKeeps DEF Internal

-----------------------------------------------------------------------------
(* Results of the planner, of actions and of the verifier *)

(* What is known of a task whose invocation answers. *)
LEMMA AnsweredWork ==
    ASSUME Inductive, NEW w \in WorkPhases, Answered(w)
    PROVE  /\ task.up /\ job.status = w /\ w \in Statuses
           /\ job.budget \in {"disabled", "reserved"}
           /\ w = "executing" => job.pending.skill \in Skills
  BY StatusNames DEF Inductive, Agreement, Stage, Proposal, Working, WorkPhases, Answered

(* The tail n of the handler of an answer is all that is left to do. *)
LEMMA TailKeeps ==
    ASSUME Inductive, task.up, Local, job.budget \in {"disabled", "reserved"},
           job.status \in WorkPhases,
           job' \in JobType, job'.status = job.status, BooksSame, job'.pending = job.pending,
           NEW n \in {"advance", "park", "fail", "complete"}, Continue(n)
    PROVE  Kept
  <1>1. task' \in TaskType /\ task'.up /\ ~task'.active /\ task'.next = n
    BY ContinueFields, ContinuationNames DEF Inductive, TypeOK
  <1>2. job'.status = "executing" => job'.pending.skill \in Skills
    BY DEF Inductive, Agreement, Proposal
  <1>3. Agreement'
    BY <1>1, <1>2, TurnMove
  <1> QED BY <1>1, <1>3 DEF Kept

LEMMA ProposeWaitKeeps == ASSUME Inductive, ProposeWait PROVE Inductive'
  <1>1. task.up /\ Local /\ job.budget \in {"disabled", "reserved"}
    BY AnsweredWork DEF ProposeWait, Local, WorkPhases
  <1>2. job' \in JobType /\ job'.status = "waiting" /\ BooksSame
    BY StatusFields, StatusNames DEF Inductive, TypeOK, ProposeWait
  <1>3. task' \in TaskType /\ task'.up /\ ~task'.active /\ task'.next = "none"
    BY <1>1, ContinueFields, ContinuationNames DEF Inductive, TypeOK, ProposeWait
  <1>4. Agreement'
    BY <1>1, <1>2, <1>3, QuietMove
  <1> QED BY <1>2, <1>3, <1>4, LocalStep DEF Kept, ProposeWait

LEMMA ProposeFinishKeeps == ASSUME Inductive, ProposeFinish PROVE Inductive'
  <1>1. task.up /\ Local /\ job.budget \in {"disabled", "reserved"}
    BY AnsweredWork DEF ProposeFinish, Local, WorkPhases
  <1>2. ASSUME job' = [job EXCEPT !.status = "verifying"], Continue("operate")
        PROVE  Kept
    <2>1. job' \in JobType /\ job'.status = "verifying" /\ BooksSame
      BY <1>2, StatusFields, StatusNames DEF Inductive, TypeOK
    <2>2. task' \in TaskType /\ task'.up /\ ~task'.active /\ task'.next = "operate"
      BY <1>1, <1>2, ContinueFields, ContinuationNames DEF Inductive, TypeOK
    <2>3. Agreement'
      BY <1>1, <2>1, <2>2, TurnMove DEF WorkPhases
    <2> QED BY <2>1, <2>2, <2>3 DEF Kept
  <1>3. Kept
    BY <1>1, <1>2, FinishKeeps, TerminalNames DEF ProposeFinish
  <1> QED BY <1>3, LocalStep DEF ProposeFinish

LEMMA ProposeActKeeps ==
    ASSUME Inductive, NEW skill \in Skills, ProposeAct(skill)
    PROVE  Inductive'
  <1>1. task.up /\ Local /\ job.budget \in {"disabled", "reserved"} /\ job.status = "planning"
    BY AnsweredWork DEF ProposeAct, Local, WorkPhases
  <1>2. ASSUME NEW n \in {"ask", "execute"}, Continue(n),
               job' = [job EXCEPT !.pending =
                          [skill |-> skill, approved |-> FALSE, expired |-> FALSE]]
        PROVE  Kept
    <2>1. job' \in JobType
      <3>1. [skill |-> skill, approved |-> FALSE, expired |-> FALSE] \in PendingType
        BY DEF PendingType
      <3> QED BY <1>2, <3>1, Zenon DEF Inductive, TypeOK, JobType, PendingType
    <2>2. job'.status = "planning" /\ BooksSame /\ job'.pending.skill = skill
      BY <1>1, <1>2 DEF Inductive, TypeOK, JobType, BooksSame
    <2>3. task' \in TaskType /\ task'.up /\ ~task'.active /\ task'.next = n
      BY <1>1, <1>2, ContinueFields, ContinuationNames DEF Inductive, TypeOK
    <2>4. Agreement'
      BY <1>1, <2>2, <2>3, TurnMove DEF WorkPhases
    <2> QED BY <2>1, <2>3, <2>4 DEF Kept
  <1>3. Kept
    BY <1>1, <1>2, FinishKeeps, TerminalNames DEF ProposeAct
  <1> QED BY <1>3, LocalStep DEF ProposeAct

LEMMA ActionSucceededKeeps ==
    ASSUME Inductive, NEW same \in BOOLEAN, ActionSucceeded(same)
    PROVE  Inductive'
  <1>1. /\ task.up /\ Local /\ job.budget \in {"disabled", "reserved"}
        /\ job.status = "executing" /\ job.pending.skill \in Skills
    BY AnsweredWork DEF ActionSucceeded, Local, WorkPhases
  <1> DEFINE k == IF same THEN job.noProgress + 1 ELSE 0
             n == IF k >= MaxNoProgress THEN "park" ELSE "advance"
  <1>2. /\ job' = [job EXCEPT !.done = @ \cup {job.pending.skill}, !.noProgress = k]
        /\ Continue(n)
        /\ k \in Nat /\ n \in {"advance", "park"}
    <2>1. k \in Nat /\ n \in {"advance", "park"}
      BY DEF Inductive, TypeOK, JobType
    <2> QED BY <2>1, Zenon DEF ActionSucceeded
  <1> HIDE DEF k, n
  <1>3. job' \in JobType
    <2>1. job.done \cup {job.pending.skill} \in SUBSET Skills
      BY <1>1 DEF Inductive, TypeOK, JobType
    <2> QED BY <1>2, <2>1, Zenon DEF Inductive, TypeOK, JobType
  <1>4. job'.status = job.status /\ BooksSame /\ job'.pending = job.pending
    BY <1>2 DEF Inductive, TypeOK, JobType, BooksSame
  <1>5. Kept
    BY <1>1, <1>2, <1>3, <1>4, TailKeeps DEF WorkPhases
  <1> QED BY <1>5, LocalStep DEF ActionSucceeded

LEMMA ActionFailedKeeps == ASSUME Inductive, ActionFailed PROVE Inductive'
  <1>1. /\ task.up /\ job.budget \in {"disabled", "reserved"} /\ job.status = "executing"
        /\ UNCHANGED <<coord, env, chain>>
    BY AnsweredWork DEF ActionFailed, WorkPhases
  <1>2. ASSUME NEW n \in {"advance", "fail"}, Continue(n), hist' = hist,
               job' = [job EXCEPT !.readFails = @ + 1]
        PROVE  Kept
    <2>1. job' \in JobType
      <3>1. job.readFails + 1 \in Nat
        BY DEF Inductive, TypeOK, JobType
      <3> QED BY <1>2, <3>1, Zenon DEF Inductive, TypeOK, JobType
    <2>2. job'.status = job.status /\ BooksSame /\ job'.pending = job.pending
      BY <1>2 DEF Inductive, TypeOK, JobType, BooksSame
    <2> QED BY <1>1, <1>2, <2>1, <2>2, TailKeeps DEF WorkPhases, Local
  <1>3. ASSUME Interrupt("executing"), LoseEffect PROVE Kept /\ hist' \in HistType
    <2>1. hist' \in HistType /\ hist'.usage = hist.usage
      BY <1>3, LoseEffectFields
    <2> QED BY <1>1, <1>3, <2>1, InterruptKeeps, StatusNames DEF Local
  <1>4. Kept /\ hist' \in HistType
    <2>1. hist' = hist => hist' \in HistType
      BY DEF Inductive, TypeOK
    <2> QED BY <1>1, <1>2, <1>3, <2>1, FinishKeeps, TerminalNames DEF ActionFailed, Local
  <1> QED BY <1>1, <1>4 DEF Kept, Inductive, TypeOK

LEMMA VerificationPassedKeeps == ASSUME Inductive, VerificationPassed PROVE Inductive'
  <1>1. /\ task.up /\ job.budget \in {"disabled", "reserved"} /\ job.status = "verifying"
        /\ UNCHANGED <<coord, env, chain>> /\ job' = job
    BY AnsweredWork DEF VerificationPassed, WorkPhases
  <1>2. hist' \in HistType /\ hist'.usage = hist.usage
    <2>1. hist' \in HistType
      BY Zenon DEF Inductive, TypeOK, HistType, VerificationPassed
    <2> QED BY <2>1 DEF Inductive, TypeOK, HistType, VerificationPassed
  <1>3. job' \in JobType /\ BooksSame
    BY <1>1 DEF Inductive, TypeOK, BooksSame
  <1>4. Kept
    BY <1>1, <1>2, <1>3, TailKeeps DEF WorkPhases, Local, VerificationPassed
  <1> QED BY <1>1, <1>2, <1>4 DEF Kept, Inductive, TypeOK

LEMMA VerificationFailedKeeps == ASSUME Inductive, VerificationFailed PROVE Inductive'
  <1>1. task.up /\ Local /\ job.budget \in {"disabled", "reserved"} /\ job.status = "verifying"
    BY AnsweredWork DEF VerificationFailed, WorkPhases, Local
  <1>2. job' \in JobType
    <2>1. job.verifyFails + 1 \in Nat
      BY DEF Inductive, TypeOK, JobType
    <2> QED BY <2>1, Zenon DEF Inductive, TypeOK, JobType, VerificationFailed
  <1>3. job'.status = job.status /\ BooksSame /\ job'.pending = job.pending
    BY DEF Inductive, TypeOK, JobType, BooksSame, VerificationFailed
  <1>4. Kept
    BY <1>1, <1>2, <1>3, TailKeeps DEF WorkPhases, VerificationFailed
  <1> QED BY <1>4, LocalStep DEF VerificationFailed

LEMMA WorkInterruptedKeeps == ASSUME Inductive, WorkInterrupted PROVE Inductive'
  <1>1. hist' \in HistType /\ hist'.usage = hist.usage
    BY LoseEffectFields DEF WorkInterrupted
  <1>2. task.up /\ job.status \in Statuses /\ UNCHANGED <<coord, env, chain>>
    BY WorkingBudget DEF WorkInterrupted, Answered
  <1>3. Kept
    BY <1>1, <1>2, InterruptKeeps DEF Local, WorkInterrupted
  <1> QED BY <1>1, <1>2, <1>3 DEF Kept, Inductive, TypeOK

LEMMA WorkResultKeeps == ASSUME Inductive, WorkResult PROVE Inductive'
  <1>1. ASSUME PlanRejected PROVE Inductive'
    BY <1>1, FinishStep, TerminalNames DEF PlanRejected, Answered
  <1>2. ASSUME PlanParked PROVE Inductive'
    <2>1. task.up /\ job.budget \in {"disabled", "reserved"}
      BY <1>2, AnsweredWork DEF PlanParked, WorkPhases
    <2> QED BY <1>2, <2>1, ParkKeeps, LocalStep DEF PlanParked, Local
  <1> QED
    BY <1>1, <1>2, ProposeWaitKeeps, ProposeFinishKeeps, ProposeActKeeps,
       ActionSucceededKeeps, ActionFailedKeeps, VerificationPassedKeeps,
       VerificationFailedKeeps, WorkInterruptedKeeps DEF WorkResult

-----------------------------------------------------------------------------
(* Results of the accounting backend *)

LEMMA PreparedKeeps == ASSUME Inductive, Prepared PROVE Inductive'
  <1>1. task.up /\ Local /\ job.status = "budget_preparing" /\ job.budget = "unprepared"
    BY DEF Inductive, Agreement, Stage, Prepared, Answered, Local
  <1>2. ASSUME job' = [job EXCEPT !.status = "budget_reserving",
                                  !.budget = "reservation_pending"],
               RunOperation
        PROVE  Kept
    <2>1. job' \in JobType
      <3>1. "budget_reserving" \in Statuses /\ "reservation_pending" \in BudgetStatuses
        BY StatusNames, BudgetNames
      <3> QED BY <1>2, <3>1, Zenon DEF Inductive, TypeOK, JobType
    <2>2. /\ job'.status = "budget_reserving" /\ job'.budget = "reservation_pending"
          /\ job'.spent = job.spent /\ job'.outcome = job.outcome /\ job'.receipt = job.receipt
      BY <1>2 DEF Inductive, TypeOK, JobType
    <2> QED BY <1>1, <1>2, <2>1, <2>2, StartKeeps
  <1>3. Kept
    BY <1>1, <1>2, FinishKeeps, TerminalNames DEF Prepared
  <1> QED BY <1>3, LocalStep DEF Prepared

(* The outcome b of the mutation in flight is written down; n follows. *)
LEMMA OutcomeFields ==
    ASSUME Inductive, task.up, NEW b \in BudgetStatuses, NEW n \in Continuations,
           job' = [job EXCEPT !.budget = b], Continue(n)
    PROVE  /\ job' \in JobType /\ job'.status = job.status /\ job'.budget = b
           /\ job'.spent = job.spent /\ job'.outcome = job.outcome /\ job'.receipt = job.receipt
           /\ task' \in TaskType /\ task'.up /\ ~task'.active /\ task'.next = n
  <1>1. job' \in JobType
    BY Zenon DEF Inductive, TypeOK, JobType
  <1>2. task' \in TaskType /\ task'.up /\ ~task'.active /\ task'.next = n
    BY ContinueFields DEF Inductive, TypeOK
  <1> QED BY <1>1, <1>2 DEF Inductive, TypeOK, JobType

LEMMA ReservedKeeps == ASSUME Inductive, Reserved PROVE Inductive'
  <1>1. /\ task.up /\ Local /\ job.status = "budget_reserving"
        /\ job.budget = "reservation_pending" /\ chain.tx["reserve"] = "landed"
    BY DEF Inductive, Agreement, Intent, Reserved, Answered, Local
  <1>2. job'.budget = "reserved" /\ task'.next = "advance"
    BY <1>1, OutcomeFields, BudgetNames, ContinuationNames DEF Reserved
  <1>3. Kept
    BY <1>1, <1>2, OutcomeFields, OutcomeMove, BudgetNames, ContinuationNames
    DEF Kept, Reserved, WritePhases
  <1> QED BY <1>3, LocalStep DEF Reserved

LEMMA NotReservedKeeps == ASSUME Inductive, NotReserved PROVE Inductive'
  <1>1. /\ task.up /\ Local /\ job.status = "budget_reserving"
        /\ job.budget = "reservation_pending" /\ Unsent("reserve")
    BY DEF Inductive, Agreement, Intent, OneWriter, NotReserved, Answered, Local
  <1>2. job'.budget = "unreserved" /\ task'.next = "fail"
    BY <1>1, OutcomeFields, BudgetNames, ContinuationNames DEF NotReserved
  <1>3. Kept
    BY <1>1, <1>2, OutcomeFields, OutcomeMove, BudgetNames, ContinuationNames
    DEF Kept, NotReserved, WritePhases
  <1> QED BY <1>3, LocalStep DEF NotReserved

LEMMA SettledKeeps == ASSUME Inductive, Settled PROVE Inductive'
  <1>1. /\ task.up /\ Local /\ job.status = "settling"
        /\ job.budget = "settlement_pending" /\ chain.tx["settle"] = "landed"
    BY DEF Inductive, Agreement, Intent, Settled, Answered, Local
  <1>2. job'.budget = "settled" /\ task'.next = "receipt"
    BY <1>1, OutcomeFields, BudgetNames, ContinuationNames DEF Settled
  <1>3. Kept
    BY <1>1, <1>2, OutcomeFields, OutcomeMove, BudgetNames, ContinuationNames
    DEF Kept, Settled, WritePhases
  <1> QED BY <1>3, LocalStep DEF Settled

LEMMA ReceiptedKeeps == ASSUME Inductive, Receipted PROVE Inductive'
  <1>1. /\ task.up /\ Local /\ job.status = "receipting"
        /\ job.budget = "receipt_pending" /\ chain.tx["receipt"] = "landed"
    BY DEF Inductive, Agreement, Intent, Receipted, Answered, Local
  <1>2. job'.budget = "complete" /\ task'.next = "close"
    BY <1>1, OutcomeFields, BudgetNames, ContinuationNames DEF Receipted
  <1>3. Kept
    BY <1>1, <1>2, OutcomeFields, OutcomeMove, BudgetNames, ContinuationNames
    DEF Kept, Receipted, WritePhases
  <1> QED BY <1>3, LocalStep DEF Receipted

LEMMA ReconciledReservedKeeps == ASSUME Inductive, ReconciledReserved PROVE Inductive'
  <1>1. hist' \in HistType /\ hist'.usage = hist.usage
    <2>1. hist' \in HistType
      BY Zenon DEF Inductive, TypeOK, HistType, ReconciledReserved
    <2> QED BY <2>1 DEF Inductive, TypeOK, HistType, ReconciledReserved
  <1>2. /\ task.up /\ Local /\ job.status = "reconciling" /\ UNCHANGED <<coord, env, chain>>
        /\ job.budget = "reservation_pending" /\ chain.tx["reserve"] = "landed"
    BY <1>1 DEF ReconciledReserved, Answered, Local
  <1>3. job'.budget = "reserved" /\ task'.next = "abandon"
    BY <1>2, OutcomeFields, BudgetNames, ContinuationNames DEF ReconciledReserved
  <1>4. Kept
    BY <1>2, <1>3, OutcomeFields, OutcomeMove, BudgetNames, ContinuationNames
    DEF Kept, ReconciledReserved, WritePhases
  <1> QED BY <1>1, <1>2, <1>4 DEF Kept, Inductive, TypeOK

LEMMA ReconciledSettledKeeps == ASSUME Inductive, ReconciledSettled PROVE Inductive'
  <1>1. /\ task.up /\ Local /\ job.status = "reconciling"
        /\ job.budget = "settlement_pending" /\ chain.tx["settle"] = "landed"
    BY DEF ReconciledSettled, Answered, Local
  <1>2. job'.budget = "settled" /\ task'.next = "receipt"
    BY <1>1, OutcomeFields, BudgetNames, ContinuationNames DEF ReconciledSettled
  <1>3. Kept
    BY <1>1, <1>2, OutcomeFields, OutcomeMove, BudgetNames, ContinuationNames
    DEF Kept, ReconciledSettled, WritePhases
  <1> QED BY <1>3, LocalStep DEF ReconciledSettled

LEMMA ReconciledReceiptedKeeps == ASSUME Inductive, ReconciledReceipted PROVE Inductive'
  <1>1. /\ task.up /\ Local /\ job.status = "reconciling"
        /\ job.budget = "receipt_pending" /\ chain.tx["receipt"] = "landed"
    BY DEF ReconciledReceipted, Answered, Local
  <1>2. job'.budget = "complete" /\ task'.next = "close"
    BY <1>1, OutcomeFields, BudgetNames, ContinuationNames DEF ReconciledReceipted
  <1>3. Kept
    BY <1>1, <1>2, OutcomeFields, OutcomeMove, BudgetNames, ContinuationNames
    DEF Kept, ReconciledReceipted, WritePhases
  <1> QED BY <1>3, LocalStep DEF ReconciledReceipted

LEMMA AuthorizedKeeps == ASSUME Inductive, Authorized PROVE Inductive'
  <1> DEFINE rate == Rate(job.resume, job.pending.skill)
  <1>1. /\ task.up /\ Local /\ job.status = "budget_authorizing" /\ job.budget = "reserved"
        /\ job.resume \in WorkPhases
        /\ job.resume = "executing" => job.pending.skill \in Skills
    BY DEF Inductive, Agreement, Stage, Proposal, Booking, Authorized, Answered, Local
  <1>2. rate \in Nat /\ job.spent + rate <= MaxCostUnits /\ job.spent \in Nat
    BY <1>1, RateType DEF Inductive, TypeOK, JobType, Agreement, Booking
  <1>3. ASSUME job' = [job EXCEPT !.status = job.resume, !.resume = "none",
                                  !.spent = @ + rate],
               Continue("spawn")
        PROVE  Kept
    <2>1. job' \in JobType
      <3>1. job.resume \in Statuses /\ job.spent + rate \in Nat
        BY <1>1, <1>2 DEF Statuses
      <3> QED BY <1>3, <3>1, Zenon DEF Inductive, TypeOK, JobType
    <2>2. /\ job'.status = job.resume /\ job'.budget = "reserved"
          /\ job'.spent = job.spent + rate /\ job'.pending = job.pending
          /\ job'.outcome = job.outcome /\ job'.receipt = job.receipt
      BY <1>1, <1>3 DEF Inductive, TypeOK, JobType
    <2>3. task' \in TaskType /\ task'.up /\ ~task'.active /\ task'.next = "spawn"
      BY <1>1, <1>3, ContinueFields, ContinuationNames DEF Inductive, TypeOK
    <2>4. Process' /\ Continuation' /\ Proposal'
      BY <1>1, <2>2, <2>3 DEF Inductive, Local, Agreement, Process, Continuation, Proposal,
                              WorkPhases, Terminal
    <2>5. Stage' /\ Intent'
      BY <1>1, <2>2, <2>3 DEF Inductive, Agreement, Stage, Intent, Working, WorkPhases, Terminal
    <2>6. Ledger' /\ OneWriter' /\ Draft'
      BY <1>1, <2>2, <2>3 DEF Inductive, Local, Agreement, Ledger, OneWriter, Draft,
                        Unsent, Uncertain, Confirmed
    <2>7. Booking'
      <3>1. hist'.usage + rate <= job'.spent
        BY <1>1, <1>2, <2>2 DEF Inductive, TypeOK, HistType, Local, Agreement, MoneyAddsUp
      <3>2. Rate(job'.status, job'.pending.skill) = rate
        BY <2>2
      <3> QED BY <1>1, <2>2, <3>1, <3>2 DEF Booking, WorkPhases
    <2>8. MoneyAddsUp'
      BY <1>1, <1>2, <2>2 DEF Inductive, TypeOK, HistType, Local, Agreement, MoneyAddsUp,
                              Ledger, Unsent
    <2> QED BY <2>1, <2>3, <2>4, <2>5, <2>6, <2>7, <2>8 DEF Kept, Agreement
  <1>4. Kept
    BY <1>1, <1>3, FinishKeeps, ParkKeeps, TerminalNames DEF Authorized
  <1> QED BY <1>4, LocalStep DEF Authorized

LEMMA OutcomeUnknownKeeps == ASSUME Inductive, OutcomeUnknown PROVE Inductive'
  <1>1. task.up /\ task.active /\ job.status \in WritePhases
    BY DEF OutcomeUnknown, Answered
  <1>2. job.budget \in Unconfirmed /\ job.status \in Statuses
    BY <1>1, WorkingBudget DEF Inductive, Agreement, Intent, WritePhases, Unconfirmed
  <1> QED BY <1>1, <1>2, AccountingHoldKeeps, LocalStep DEF OutcomeUnknown, Local

LEMMA AccountingResultKeeps == ASSUME Inductive, AccountingResult PROVE Inductive'
  <1>1. ASSUME PreparationFailed PROVE Inductive'
    BY <1>1, FinishStep, TerminalNames DEF PreparationFailed, Answered
  <1>2. ASSUME AuthorizationFailed PROVE Inductive'
    BY <1>2, FinishStep, TerminalNames DEF AuthorizationFailed, Answered
  <1> QED
    BY <1>1, <1>2, PreparedKeeps, ReservedKeeps, NotReservedKeeps, AuthorizedKeeps,
       SettledKeeps, ReceiptedKeeps, OutcomeUnknownKeeps, ReconciledReservedKeeps,
       ReconciledSettledKeeps, ReconciledReceiptedKeeps DEF AccountingResult

-----------------------------------------------------------------------------
(* Timers and commands *)

LEMMA DeadlineFiresKeeps == ASSUME Inductive, DeadlineFires PROVE Inductive'
  <1>1. env' \in EnvType
    BY Zenon DEF Inductive, TypeOK, EnvType, DeadlineFires
  <1>2. task.up /\ coord' = coord /\ chain' = chain /\ job.status \in Statuses
    BY WorkingBudget DEF DeadlineFires, Listening
  <1>3. ASSUME UNCHANGED <<job, task, hist>> PROVE Kept /\ hist' \in HistType
    BY <1>2, <1>3, StutterKeeps DEF Local, Inductive, TypeOK
  <1>4. ASSUME Interrupt(job.status), LoseEffect PROVE Kept /\ hist' \in HistType
    BY <1>2, <1>4, LoseEffectFields, InterruptKeeps DEF Local
  <1>5. ASSUME Finish("exhausted"), UNCHANGED hist PROVE Kept /\ hist' \in HistType
    BY <1>2, <1>5, FinishKeeps, TerminalNames DEF Local, Inductive, TypeOK
  <1>6. Kept /\ hist' \in HistType
    BY <1>3, <1>4, <1>5 DEF DeadlineFires
  <1> QED BY <1>1, <1>2, <1>6 DEF Kept, Inductive, TypeOK

(* ApprovalExpired, and a Pause that takes effect at once. *)
LEMMA PausedKeeps ==
    ASSUME Inductive, task.up, Local, job.budget \in {"disabled", "reserved"},
           job' = [job EXCEPT !.status = "paused", !.pending = NoPending], Continue("none")
    PROVE  Kept
  <1>1. job' \in JobType
    <2>1. "paused" \in Statuses
      BY StatusNames
    <2> QED BY <2>1, NoPendingType, Zenon DEF Inductive, TypeOK, JobType, PendingType
  <1>2. job'.status = "paused" /\ BooksSame
    BY DEF Inductive, TypeOK, JobType, BooksSame
  <1>3. task' \in TaskType /\ task'.up /\ ~task'.active /\ task'.next = "none"
    BY ContinueFields, ContinuationNames DEF Inductive, TypeOK
  <1>4. Agreement'
    BY <1>2, <1>3, QuietMove
  <1> QED BY <1>1, <1>3, <1>4 DEF Kept

LEMMA TimerKeeps == ASSUME Inductive, Timer PROVE Inductive'
  <1>1. ASSUME Wake PROVE Inductive'
    <2>1. task.up /\ job.budget \in {"disabled", "reserved"}
      BY <1>1 DEF Inductive, Agreement, Stage, Working, Wake, Listening
    <2> QED BY <1>1, <2>1, AdvanceKeeps, LocalStep DEF Wake, Local
  <1>2. ASSUME ApprovalExpired PROVE Inductive'
    <2>1. task.up /\ job.budget \in {"disabled", "reserved"}
      BY <1>2 DEF Inductive, Agreement, Stage, Working, ApprovalExpired, Listening
    <2> QED BY <1>2, <2>1, PausedKeeps, LocalStep DEF ApprovalExpired, Local
  <1> QED BY <1>1, <1>2, DeadlineFiresKeeps DEF Timer

LEMMA PauseKeeps == ASSUME Inductive, Pause PROVE Inductive'
  <1>1. task.up /\ Local /\ job.status # "queued" /\ job.status \notin Terminal
        /\ job.status \in Statuses
    BY WorkingBudget DEF Inductive, Agreement, Process, Pause, Listening, Local
  <1>2. ASSUME job' = [job EXCEPT !.pauseReq = TRUE], UNCHANGED task PROVE Kept
    <2>1. job' \in JobType
      BY <1>2, Zenon DEF Inductive, TypeOK, JobType
    <2>2. /\ job'.status = job.status /\ BooksSame
          /\ job'.pending = job.pending /\ job'.resume = job.resume
      BY <1>2 DEF Inductive, TypeOK, JobType, BooksSame
    <2> QED BY <1>1, <1>2, <2>1, <2>2, FrameKeeps DEF Kept, Local, Inductive, TypeOK
  <1>3. CASE job.status \in WorkPhases \cup {"budget_preparing", "budget_authorizing"}
    BY <1>2, <1>3, LocalStep DEF Pause
  <1>4. CASE job.status \notin WorkPhases \cup {"budget_preparing", "budget_authorizing"}
    <2>1. job.status \in Working
      BY <1>1, <1>4 DEF Pause, Statuses, Working, ChainPhases, WritePhases
    <2>2. job.budget \in {"disabled", "reserved"}
      BY <2>1, WorkingBudget
    <2> QED BY <1>1, <1>4, <2>2, PausedKeeps, LocalStep DEF Pause
  <1> QED BY <1>3, <1>4

LEMMA ResumeKeeps == ASSUME Inductive, Resume PROVE Inductive'
  <1>1. task.up /\ Local
    BY DEF Resume, Listening, Local
  <1>2. job.budget \in {"disabled", "reserved"}
    <2>1. CASE job.status = "paused"
      BY <2>1, WorkingBudget DEF Working
    <2>2. CASE job.status = "interrupted" /\ ~UnsafeResume
      BY <2>2 DEF UnsafeResume, Inductive, Agreement, Stage
    <2> QED BY <2>1, <2>2 DEF Resume
  <1>3. job' \in JobType
    <2>1. "ready" \in Statuses /\ "none" \in Statuses \cup {"none"}
      BY StatusNames
    <2> QED BY <2>1, NoPendingType, Zenon DEF Inductive, TypeOK, JobType, PendingType, Resume
  <1>4. job'.status = "ready" /\ BooksSame
    BY DEF Inductive, TypeOK, JobType, BooksSame, Resume
  <1>5. task' \in TaskType /\ task'.up /\ ~task'.active /\ task'.next = "plan"
    BY <1>1, ContinueFields, ContinuationNames DEF Inductive, TypeOK, Resume
  <1>6. Agreement'
    BY <1>1, <1>2, <1>4, <1>5, QuietMove
  <1> QED BY <1>3, <1>5, <1>6, LocalStep DEF Kept, Resume

LEMMA ApproveKeeps == ASSUME Inductive, Approve PROVE Inductive'
  <1>1. /\ task.up /\ UNCHANGED <<coord, env, chain>>
        /\ job.budget \in {"disabled", "reserved"} /\ job.pending.skill \in Skills
    BY DEF Inductive, Agreement, Stage, Proposal, Working, Approve, Listening
  <1>2. hist' \in HistType /\ hist'.usage = hist.usage
    <2>1. hist.granted \cup {job.iteration} \in SUBSET Nat
      BY LimitAssumption DEF Inductive, TypeOK, HistType, JobType
    <2>2. hist' \in HistType
      BY <2>1, Zenon DEF Inductive, TypeOK, HistType, Approve
    <2> QED BY <2>2 DEF Inductive, TypeOK, HistType, Approve
  <1>3. job' \in JobType
    <2>1. "ready" \in Statuses
      BY StatusNames
    <2> QED BY <2>1, Zenon DEF Inductive, TypeOK, JobType, Approve
  <1>4. job'.status = "ready" /\ BooksSame /\ job'.pending.skill = job.pending.skill
    BY DEF Inductive, TypeOK, JobType, BooksSame, Approve
  <1>5. task' \in TaskType /\ task'.up /\ ~task'.active /\ task'.next = "execute"
    BY <1>1, ContinueFields, ContinuationNames DEF Inductive, TypeOK, Approve
  <1>6. Agreement'
    <2>1. Local /\ job'.pending.skill \in Skills
      BY <1>1, <1>2, <1>4 DEF Local
    <2> QED BY <1>1, <1>4, <1>5, <2>1, QuietMove
  <1> QED BY <1>1, <1>2, <1>3, <1>5, <1>6 DEF Inductive, TypeOK

LEMMA CancelKeeps == ASSUME Inductive, Cancel PROVE Inductive'
  <1>1. /\ task.up /\ UNCHANGED <<coord, env, chain>>
        /\ hist' \in HistType /\ hist'.usage = hist.usage
    BY LoseEffectFields DEF Cancel, Listening
  <1>2. CancelStatus \in Terminal
    BY TerminalNames DEF CancelStatus
  <1>3. Kept
    BY <1>1, <1>2, FinishKeeps DEF Cancel, Local
  <1> QED BY <1>1, <1>3 DEF Kept, Inductive, TypeOK

LEMMA ReconcileKeeps == ASSUME Inductive, Reconcile PROVE Inductive'
  <1>1. task.up /\ Local /\ job.budget \in Unconfirmed
    BY DEF Reconcile, Listening, Local
  <1>2. job' \in JobType /\ job'.status = "reconciling" /\ BooksSame
    BY StatusFields, StatusNames DEF Inductive, TypeOK, Reconcile
  <1>3. Kept
    BY <1>1, <1>2, StartKeeps DEF BooksSame, Reconcile
  <1> QED BY <1>3, LocalStep DEF Reconcile

LEMMA CommandKeeps == ASSUME Inductive, Command PROVE Inductive'
  <1>1. ASSUME Reject PROVE Inductive'
    BY <1>1, FinishStep, TerminalNames DEF Reject, Listening
  <1> QED BY <1>1, PauseKeeps, ResumeKeeps, CancelKeeps, ApproveKeeps, ReconcileKeeps DEF Command

-----------------------------------------------------------------------------
(* The coordinator and faults *)

(* Without a worker only the record, the chain and the coordinator count.   *)
LEMMA DownMove ==
    ASSUME Inductive, chain' = chain, hist'.usage = hist.usage, BooksSame,
           ~task'.active, task'.next = "none", ~task'.up,
           coord' # "launch",
           coord' # "idle" => job'.status \notin Terminal,
           \/ job'.status = job.status /\ job'.pending = job.pending /\ job'.resume = job.resume
           \/ job'.status = "interrupted"
           \/ job'.status = "failed" /\ job.budget \in {"disabled", "unprepared", "unreserved"}
    PROVE  Agreement'
  <1>1. Process' /\ Continuation' /\ Proposal'
    BY DEF Inductive, Agreement, Process, Continuation, Proposal
  <1>2. Stage' /\ Intent'
    BY DEF Inductive, BooksSame, Agreement, Stage, Intent, Working, WorkPhases, Terminal
  <1>3. Ledger' /\ OneWriter' /\ Draft' /\ MoneyAddsUp'
    BY DEF Inductive, BooksSame, Agreement, Ledger, OneWriter, Draft, MoneyAddsUp,
           Unsent, Uncertain, Confirmed
  <1>4. Booking'
    BY DEF Inductive, BooksSame, Agreement, Booking
  <1> QED BY <1>1, <1>2, <1>3, <1>4 DEF Agreement

LEMMA LaunchKeeps == ASSUME Inductive, Launch PROVE Inductive'
  <1>1. /\ ~task.up /\ coord \in {"launch", "relaunch"} /\ job.status \notin Terminal
        /\ (coord = "launch" => job.status = "queued")
        /\ coord' = "idle" /\ chain' = chain /\ hist' = hist
    BY DEF Inductive, Agreement, Process, Launch
  <1>2. env' \in EnvType
    BY Zenon DEF Inductive, TypeOK, EnvType, Launch
  <1>3. /\ job' \in JobType /\ BooksSame
        /\ \/ job' = job /\ (coord = "launch" \/ job.status \in {"paused", "interrupted"})
           \/ job'.status = "interrupted" /\ coord = "relaunch"
    <2>1. CASE coord = "launch" \/ job.status \in {"paused", "interrupted"}
      BY <2>1 DEF Inductive, TypeOK, Launch, BooksSame
    <2>2. CASE ~(coord = "launch" \/ job.status \in {"paused", "interrupted"})
      <3>1. "interrupted" \in Statuses /\ job.status \in Statuses \cup {"none"}
        BY StatusNames, WorkingBudget
      <3> QED BY <1>1, <2>2, <3>1, StatusPhaseFields DEF Inductive, TypeOK, Launch
    <2> QED BY <2>1, <2>2
  <1>4. /\ task' \in TaskType /\ task'.up /\ ~task'.active
        /\ coord = "launch" => task'.next = "boot"
        /\ coord = "relaunch" => \/ task'.next = "none"
                                 \/ task'.next = "receipt" /\ job.budget = "settled"
                                 \/ task'.next = "close" /\ job.budget = "complete"
    BY NoWorkerFields, ContinuationNames DEF Launch, FirstStep, TaskType
  <1>5. Process' /\ Continuation' /\ Proposal'
    BY <1>1, <1>3, <1>4 DEF Inductive, BooksSame, Agreement, Process, Continuation, Proposal,
                            Terminal
  <1>6. Stage' /\ Intent'
    BY <1>1, <1>3, <1>4 DEF Inductive, BooksSame, Agreement, Stage, Intent, Working, WorkPhases,
                            Terminal
  <1>7. Ledger' /\ OneWriter' /\ Draft' /\ MoneyAddsUp'
    BY <1>1, <1>3, <1>4 DEF Inductive, BooksSame, Agreement, Ledger, OneWriter, Draft,
                            MoneyAddsUp, Unsent, Uncertain, Confirmed
  <1>8. Booking'
    BY <1>1, <1>3, <1>4 DEF Booking
  <1> QED BY <1>1, <1>2, <1>3, <1>4, <1>5, <1>6, <1>7, <1>8 DEF Inductive, TypeOK, Agreement

LEMMA LaunchFailedKeeps == ASSUME Inductive, LaunchFailed PROVE Inductive'
  <1> DEFINE s == IF job.budget \in {"disabled", "unprepared", "unreserved"}
                  THEN "failed" ELSE "interrupted"
             p == IF job.phase = "none" THEN job.status ELSE job.phase
  <1>1. /\ ~task.up /\ ~task.active /\ task.next = "none" /\ coord' = "idle"
        /\ UNCHANGED <<task, env, chain, hist>>
        /\ job' = [job EXCEPT !.status = s, !.phase = p]
    BY DEF Inductive, Agreement, Process, LaunchFailed
  <1>2. s \in Statuses /\ p \in Statuses \cup {"none"}
    BY StatusNames DEF Inductive, TypeOK, JobType
  <1>3. job' \in JobType /\ job'.status = s /\ BooksSame
    <2> HIDE DEF s, p
    <2> QED BY <1>1, <1>2, StatusPhaseFields DEF Inductive, TypeOK
  <1>4. Agreement'
    BY <1>1, <1>3, DownMove
  <1> QED BY <1>1, <1>3, <1>4 DEF Inductive, TypeOK

LEMMA HandleDownKeeps == ASSUME Inductive, HandleDown PROVE Inductive'
  <1> DEFINE p == IF job.phase = "none" THEN job.status ELSE job.phase
  <1>1. /\ ~task.up /\ ~task.active /\ task.next = "none" /\ coord' = "relaunch"
        /\ UNCHANGED <<task, env, chain, hist>>
        /\ job' = [job EXCEPT !.status = "interrupted", !.phase = p]
    BY DEF Inductive, Agreement, Process, HandleDown
  <1>2. p \in Statuses \cup {"none"}
    BY StatusNames DEF Inductive, TypeOK, JobType
  <1>3. job' \in JobType /\ job'.status = "interrupted" /\ BooksSame
    <2> HIDE DEF p
    <2> QED BY <1>1, <1>2, StatusNames, StatusPhaseFields DEF Inductive, TypeOK
  <1>4. Agreement'
    BY <1>1, <1>3, DownMove DEF Terminal
  <1> QED BY <1>1, <1>3, <1>4 DEF Inductive, TypeOK

LEMMA FaultKeeps == ASSUME Inductive, Fault PROVE Inductive'
  <1>1. /\ coord' \in {"down", "relaunch"} /\ chain' = chain /\ job' = job
        /\ task' = NoWorker /\ LoseEffect /\ job.status \notin Terminal
    BY DEF Inductive, Agreement, Process, Fault, WorkerExits, ServiceRestarts
  <1>2. env' \in EnvType
    <2>1. CASE WorkerExits
      <3>1. env.exits + 1 \in 0 .. MaxWorkerExits
        BY <2>1, BoundAssumption DEF Inductive, TypeOK, EnvType, WorkerExits
      <3> QED BY <2>1, <3>1, Zenon DEF Inductive, TypeOK, EnvType, WorkerExits
    <2>2. CASE ServiceRestarts
      <3>1. env.restarts + 1 \in 0 .. MaxRestarts
        BY <2>2, BoundAssumption DEF Inductive, TypeOK, EnvType, ServiceRestarts
      <3> QED BY <2>2, <3>1, Zenon DEF Inductive, TypeOK, EnvType, ServiceRestarts
    <2> QED BY <2>1, <2>2 DEF Fault
  <1>3. hist' \in HistType /\ hist'.usage = hist.usage
    BY <1>1, LoseEffectFields
  <1>4. task' \in TaskType /\ ~task'.up /\ ~task'.active /\ task'.next = "none"
    BY <1>1, NoWorkerFields
  <1>5. Agreement'
    BY <1>1, <1>3, <1>4, DownMove DEF BooksSame
  <1> QED BY <1>1, <1>2, <1>3, <1>4, <1>5 DEF Inductive, TypeOK

-----------------------------------------------------------------------------
(* The chain and the world *)

LEMMA SubmitKeeps ==
    ASSUME Inductive, NEW m \in Mutations, Submit(m)
    PROVE  Inductive'
  <1>1. /\ task.up /\ task.active /\ ~task.sent /\ job' = job /\ coord' = coord
        /\ env' = env /\ hist' = hist /\ task.next = "none"
        /\ job.status = WriterOf[m]
    BY DEF Inductive, Agreement, Process, Submit, Answered
  <1>2. task' \in TaskType /\ task'.up /\ task'.active /\ task'.sent /\ task'.next = "none"
    <2>1. task' \in TaskType
      BY Zenon DEF Inductive, TypeOK, TaskType, Submit
    <2> QED BY <1>1, <2>1 DEF Inductive, TypeOK, TaskType, Submit
  <1>3. /\ m = "reserve" => job.status = "budget_reserving"
        /\ m = "settle"  => job.status = "settling"
        /\ m = "receipt" => job.status = "receipting"
    BY <1>1 DEF WriterOf, Mutations
  <1>4. /\ Unsent(m)
        /\ m = "reserve" => job.budget = "reservation_pending"
        /\ m = "settle"  => job.budget = "settlement_pending"
        /\ m = "receipt" => job.budget = "receipt_pending"
    BY <1>1, <1>3 DEF Inductive, Agreement, Intent, OneWriter, Mutations
  <1>5. AmountOf(m) \in Nat /\ (m = "settle" => AmountOf(m) = job.spent)
        /\ (m = "receipt" => AmountOf(m) = job.receipt)
    BY TariffAssumption DEF AmountOf, Inductive, TypeOK, JobType, Mutations
  <1>6. /\ chain' \in ChainType
        /\ chain'.tx = [chain.tx EXCEPT ![m] = "pending"]
        /\ chain'.sent = [chain.sent EXCEPT ![m] = @ + 1]
        /\ chain'.amount = [chain.amount EXCEPT ![m] = AmountOf(m)]
    <2>1. /\ chain.tx \in [Mutations -> {"none", "pending", "landed", "dropped"}]
          /\ chain.sent \in [Mutations -> Nat] /\ chain.amount \in [Mutations -> Nat]
      BY DEF Inductive, TypeOK, ChainType
    <2>2. /\ [chain.tx EXCEPT ![m] = "pending"]
               \in [Mutations -> {"none", "pending", "landed", "dropped"}]
          /\ [chain.sent EXCEPT ![m] = @ + 1] \in [Mutations -> Nat]
          /\ [chain.amount EXCEPT ![m] = AmountOf(m)] \in [Mutations -> Nat]
      BY <1>5, <2>1
    <2> QED BY <2>2 DEF ChainType, Submit
  <1>7. /\ chain'.tx[m] = "pending" /\ chain'.sent[m] = 1 /\ chain'.amount[m] = AmountOf(m)
        /\ \A o \in Mutations \ {m} : /\ chain'.tx[o] = chain.tx[o]
                                      /\ chain'.sent[o] = chain.sent[o]
                                      /\ chain'.amount[o] = chain.amount[o]
    BY <1>4, <1>6 DEF Inductive, TypeOK, ChainType, Unsent
  <1>8. Process' /\ Continuation' /\ Proposal' /\ Stage' /\ Intent' /\ Draft'
    BY <1>1, <1>2 DEF Inductive, Agreement, Process, Continuation, Proposal, Stage, Intent, Draft
  <1>9. OneWriter' /\ Booking'
    BY <1>1, <1>2 DEF Inductive, Agreement, OneWriter, Booking
  <1>10. Ledger'
    BY <1>1, <1>4, <1>7 DEF Inductive, Agreement, Ledger, Unsent, Uncertain, Confirmed, Mutations
  <1>11. MoneyAddsUp'
    BY <1>1, <1>4, <1>5, <1>7 DEF Inductive, Agreement, MoneyAddsUp, Draft, Mutations
  <1> QED BY <1>1, <1>2, <1>6, <1>8, <1>9, <1>10, <1>11 DEF Inductive, TypeOK, Agreement

LEMMA TxEndsKeeps ==
    ASSUME Inductive, NEW m \in Mutations, TxEnds(m)
    PROVE  Inductive'
  <1>1. /\ job' = job /\ task' = task /\ coord' = coord /\ env' = env /\ hist' = hist
        /\ chain.tx[m] = "pending"
    BY DEF TxEnds
  <1>2. PICK end \in {"landed", "dropped"} :
            chain' = [chain EXCEPT !.tx = [@ EXCEPT ![m] = end]]
    BY DEF TxEnds
  <1>3. /\ chain' \in ChainType /\ chain'.sent = chain.sent /\ chain'.amount = chain.amount
        /\ chain'.tx[m] = end /\ \A o \in Mutations \ {m} : chain'.tx[o] = chain.tx[o]
    <2>1. [chain.tx EXCEPT ![m] = end] \in [Mutations -> {"none", "pending", "landed", "dropped"}]
      BY DEF Inductive, TypeOK, ChainType
    <2>2. chain' \in ChainType
      BY <1>2, <2>1, Zenon DEF Inductive, TypeOK, ChainType
    <2> QED BY <1>2, <2>2 DEF Inductive, TypeOK, ChainType
  <1>4. Ledger' /\ OneWriter'
    BY <1>1, <1>3 DEF Inductive, Agreement, Ledger, OneWriter, Unsent, Uncertain, Confirmed,
                      Mutations, TypeOK, JobType, BudgetStatuses
  <1>5. Process' /\ Continuation' /\ Proposal' /\ Stage' /\ Intent' /\ Draft' /\ Booking'
        /\ MoneyAddsUp'
    BY <1>1, <1>3 DEF Inductive, Agreement, Process, Continuation, Proposal, Stage, Intent,
                      Draft, Booking, MoneyAddsUp
  <1> QED BY <1>1, <1>3, <1>4, <1>5 DEF Inductive, TypeOK, Agreement

LEMMA WorldKeeps == ASSUME Inductive, World PROVE Inductive'
  <1>1. coord' = coord /\ chain' = chain /\ task' = task /\ hist' = hist
    BY DEF World, DeadlinePasses, PolicyChanges, ApprovalLapses
  <1>2. CASE DeadlinePasses \/ PolicyChanges
    <2>1. env' \in EnvType
      <3>1. (~env.policy) \in BOOLEAN
        OBVIOUS
      <3> QED BY <1>2, <3>1, Zenon DEF Inductive, TypeOK, EnvType, DeadlinePasses, PolicyChanges
    <2>2. job' = job
      BY <1>2 DEF DeadlinePasses, PolicyChanges
    <2> QED BY <1>1, <2>1, <2>2, FrameKeeps DEF Inductive, TypeOK, BooksSame
  <1>3. CASE ApprovalLapses
    <2>1. job' \in JobType
      BY <1>3, Zenon DEF Inductive, TypeOK, JobType, ApprovalLapses
    <2>2. /\ job'.status = job.status /\ BooksSame
          /\ job'.pending.skill = job.pending.skill /\ job'.resume = job.resume
      BY <1>3 DEF Inductive, TypeOK, JobType, BooksSame, ApprovalLapses
    <2>3. env' = env
      BY <1>3 DEF ApprovalLapses
    <2> QED BY <1>1, <2>1, <2>2, <2>3, FrameKeeps DEF Inductive, TypeOK
  <1> QED BY <1>2, <1>3 DEF World

-----------------------------------------------------------------------------
(* The invariant *)

LEMMA InitInductive == Init => Inductive
  <1> SUFFICES ASSUME Init PROVE Inductive
    OBVIOUS
  <1>1. job \in JobType
    BY NoPendingType, LimitAssumption
    DEF Init, JobType, Statuses, BudgetStatuses, PendingType
  <1>2. task \in TaskType /\ coord \in {"launch", "relaunch", "down", "idle"}
    BY NoWorkerFields DEF Init
  <1>3. env \in EnvType /\ hist \in HistType
    BY BoundAssumption DEF Init, EnvType, HistType
  <1>4. chain \in ChainType
    BY DEF Init, ChainType
  <1>5. Agreement
    BY NoWorkerFields, TariffAssumption
    DEF Init, Agreement, Process, Continuation, Proposal, Stage, Intent, Ledger, OneWriter,
        Draft, Booking, MoneyAddsUp, Unsent, Uncertain, Confirmed, Mutations,
        Working, WorkPhases, Terminal, Unconfirmed
  <1> QED BY <1>1, <1>2, <1>3, <1>4, <1>5 DEF Inductive, TypeOK

LEMMA StepKeeps == Inductive /\ [Next]_vars => Inductive'
  <1> SUFFICES ASSUME Inductive, [Next]_vars PROVE Inductive'
    OBVIOUS
  <1>1. CASE UNCHANGED vars
    BY <1>1, FrameKeeps DEF vars, Inductive, TypeOK, BooksSame
  <1>2. CASE Coordinate
    BY <1>2, LaunchKeeps, LaunchFailedKeeps, HandleDownKeeps DEF Coordinate
  <1>3. CASE Chain
    BY <1>3, SubmitKeeps, TxEndsKeeps DEF Chain
  <1> QED
    BY <1>1, <1>2, <1>3, InternalKeeps, WorkResultKeeps, AccountingResultKeeps, TimerKeeps,
       CommandKeeps, FaultKeeps, WorldKeeps DEF Next

(* The durable record, the process, the chain and the meter always agree,   *)
(* for every template, tariff, ceiling, limit and number of crashes.        *)
THEOREM AlwaysInductive == Spec => []Inductive
  BY InitInductive, StepKeeps, PTL DEF Spec

(* Type correctness of a task, its coordinator and the chain it writes to.  *)
THEOREM TypeCorrect == Spec => []TypeOK
  <1>1. Inductive => TypeOK
    BY DEF Inductive
  <1> QED BY <1>1, AlwaysInductive, PTL

(* No invocation of a metered task without its confirmed hold, and none     *)
(* after anything was sent to settle it.                                    *)
THEOREM WorkIsHeld == Spec => []WorkUnderHold
  <1>1. Inductive => WorkUnderHold
    BY DEF Inductive, Agreement, Stage, Ledger, WorkUnderHold, Working, Unsent, Confirmed
  <1> QED BY <1>1, AlwaysInductive, PTL

(* No contract mutation is sent twice, whatever crashes or is answered late. *)
THEOREM SentOnce == Spec => []NoMutationTwice
  <1>1. Inductive => NoMutationTwice
    BY DEF Inductive, TypeOK, JobType, BudgetStatuses, Agreement, Ledger, NoMutationTwice,
           Mutations, Unsent, Uncertain, Confirmed
  <1> QED BY <1>1, AlwaysInductive, PTL

(* Settlement is sent after the reservation is included, the receipt after  *)
(* the settlement is.                                                       *)
THEOREM SentInOrder == Spec => []MutationsInOrder
  <1>1. Inductive => MutationsInOrder
    BY DEF Inductive, TypeOK, JobType, BudgetStatuses, Agreement, Ledger, MutationsInOrder,
           Unsent, Uncertain, Confirmed
  <1> QED BY <1>1, AlwaysInductive, PTL

(* A terminal task has nothing open on chain.                               *)
THEOREM EndsClosed == Spec => []TerminalIsClosed
  <1>1. Inductive => TerminalIsClosed
    BY DEF Inductive, Agreement, Stage, Ledger, TerminalIsClosed, Unsent, Confirmed
  <1> QED BY <1>1, AlwaysInductive, PTL

(* What is metered is booked, what is booked is within the ceiling, and     *)
(* settlement and receipt carry exactly what is booked.                     *)
THEOREM BooksBalance == Spec => []MoneyAddsUp
  <1>1. Inductive => MoneyAddsUp
    BY DEF Inductive, Agreement
  <1> QED BY <1>1, AlwaysInductive, PTL

(* Once each and in order: the mutations of a task.                         *)
THEOREM MutationsAlwaysStand == Spec => []MutationsStand
  BY SentOnce, SentInOrder, PTL DEF MutationsStand

(* Held, booked and closed: the money of a task.                            *)
THEOREM MoneyAlwaysStands == Spec => []MoneyStands
  BY WorkIsHeld, BooksBalance, EndsClosed, PTL DEF MoneyStands

-----------------------------------------------------------------------------
(* The receipt draft is final *)

Frozen == job'.spent = job.spent /\ job'.receipt = job.receipt /\ job'.outcome = job.outcome

(* Once drafted, the budget is past its reservation. *)
LEMMA Drafted ==
    ASSUME Inductive, job.outcome # "none"
    PROVE  /\ job \in JobType
           /\ job.budget \in {"settlement_pending", "settled", "receipt_pending", "complete"}
           /\ job.status \notin Working \cup {"budget_authorizing"}
  BY DEF Inductive, TypeOK, Agreement, Draft, Stage

LEMMA EndsFreeze ==
    ASSUME job \in JobType, job.budget # "reserved", NEW s,
           \/ Finish(s) \/ Park \/ Advance \/ Interrupt(s) \/ AccountingHold(s)
           \/ StartReceipt \/ TerminalFinish(s)
    PROVE  Frozen
  <1>1. Park => Frozen
    BY DEF JobType, Frozen, Park
  <1>2. Advance => Frozen
    BY <1>1 DEF JobType, Frozen, Advance
  <1>3. Interrupt(s) \/ AccountingHold(s) \/ AccountingHold(job.status) => Frozen
    BY DEF JobType, Frozen, Interrupt, AccountingHold
  <1>4. StartReceipt \/ TerminalFinish(s) => Frozen
    BY DEF JobType, Frozen, StartReceipt, TerminalFinish
  <1>5. Finish(s) => Frozen
    BY <1>3, <1>4 DEF Finish
  <1> QED BY <1>1, <1>2, <1>3, <1>4, <1>5

LEMMA InternalFreezes ==
    ASSUME Inductive, job.outcome # "none", Internal
    PROVE  Frozen
  <1>1. CASE Boot
    BY <1>1, Drafted, EndsFreeze DEF Boot, JobType, Frozen
  <1>2. CASE Plan \/ Execute \/ Operate
    BY <1>2, Drafted, EndsFreeze DEF Plan, Execute, Operate, JobType, Frozen
  <1>3. CASE Spawn
    BY <1>3 DEF Spawn, Frozen
  <1>4. CASE Proceed
    BY <1>4, Drafted, EndsFreeze DEF Proceed, Ask, JobType, Frozen
  <1> QED BY <1>1, <1>2, <1>3, <1>4 DEF Internal

LEMMA ResultsFreeze ==
    ASSUME Inductive, job.outcome # "none", WorkResult \/ AccountingResult
    PROVE  Frozen
  <1>1. ASSUME WorkResult PROVE FALSE
    <2>1. job.status \in WorkPhases
      BY <1>1 DEF WorkResult, PlanRejected, PlanParked, ProposeWait, ProposeFinish, ProposeAct,
           ActionSucceeded, ActionFailed, VerificationPassed, VerificationFailed,
           WorkInterrupted, Answered, WorkPhases
    <2> QED BY <2>1, Drafted DEF Working
  <1>2. CASE Prepared \/ PreparationFailed \/ Authorized \/ AuthorizationFailed
    <2>1. job.status \in {"budget_preparing", "budget_authorizing"}
      BY <1>2 DEF Prepared, PreparationFailed, Authorized, AuthorizationFailed, Answered
    <2>2. job.budget \in {"unprepared", "reserved"}
      BY <2>1 DEF Inductive, Agreement, Stage
    <2> QED BY <2>2, Drafted
  <1>3. CASE Reserved \/ NotReserved \/ Settled \/ Receipted
    BY <1>3, Drafted DEF Reserved, NotReserved, Settled, Receipted, JobType, Frozen
  <1>4. CASE OutcomeUnknown
    BY <1>4, Drafted, EndsFreeze DEF OutcomeUnknown
  <1>5. CASE ReconciledReserved \/ ReconciledSettled \/ ReconciledReceipted
    BY <1>5, Drafted DEF ReconciledReserved, ReconciledSettled, ReconciledReceipted, JobType,
                         Frozen
  <1> QED BY <1>1, <1>2, <1>3, <1>4, <1>5 DEF AccountingResult

LEMMA TurnsFreeze ==
    ASSUME Inductive, job.outcome # "none", Timer \/ Command
    PROVE  Frozen
  <1>1. CASE DeadlineFires
    BY <1>1, Drafted, EndsFreeze DEF DeadlineFires, Frozen
  <1>2. CASE Wake \/ Cancel \/ Reject
    BY <1>2, Drafted, EndsFreeze DEF Wake, Cancel, Reject
  <1>3. CASE ApprovalExpired \/ Approve
    BY <1>3, Drafted DEF ApprovalExpired, Approve, Working
  <1>4. CASE Pause
    <2>1. job' = [job EXCEPT !.pauseReq = TRUE] => Frozen
      BY Drafted DEF JobType, Frozen
    <2>2. job' = [job EXCEPT !.status = "paused", !.pending = NoPending] => Frozen
      BY Drafted DEF JobType, Frozen
    <2> QED BY <1>4, <2>1, <2>2 DEF Pause
  <1>5. CASE Resume
    BY <1>5, Drafted DEF Resume, JobType, Frozen
  <1>6. CASE Reconcile
    BY <1>6, Drafted DEF Reconcile, JobType, Frozen
  <1> QED BY <1>1, <1>2, <1>3, <1>4, <1>5, <1>6 DEF Timer, Command

LEMMA OthersFreeze ==
    ASSUME Inductive, Coordinate \/ Fault \/ Chain \/ World
    PROVE  Frozen
  <1>1. job \in JobType
    BY DEF Inductive, TypeOK
  <1>2. CASE Coordinate
    BY <1>1, <1>2, ZenonT(30) DEF Coordinate, Launch, LaunchFailed, HandleDown, JobType, Frozen
  <1>3. CASE Fault \/ Chain
    BY <1>3 DEF Fault, WorkerExits, ServiceRestarts, Chain, Submit, TxEnds, Frozen
  <1>4. CASE World
    BY <1>1, <1>4 DEF World, DeadlinePasses, PolicyChanges, ApprovalLapses, JobType, Frozen
  <1> QED BY <1>2, <1>3, <1>4

(* From the settlement intent on, the booked units, the receipt draft and   *)
(* the outcome survive every hold, restart and reconciliation unchanged.    *)
THEOREM DraftNeverChanges == Spec => DraftIsFinal
  <1>1. Inductive /\ [Next]_vars
          => [job.outcome # "none"
                => /\ job'.spent = job.spent
                   /\ job'.receipt = job.receipt
                   /\ job'.outcome = job.outcome]_vars
    <2> SUFFICES ASSUME Inductive, Next, job.outcome # "none" PROVE Frozen
      BY DEF Frozen
    <2> QED BY InternalFreezes, ResultsFreeze, TurnsFreeze, OthersFreeze DEF Next
  <1> QED BY <1>1, AlwaysInductive, PTL DEF Spec, DraftIsFinal

-----------------------------------------------------------------------------
(* The task implements the escrow *)

Paid == IF chain.tx["settle"] = "landed" THEN chain.amount["settle"] ELSE 0

(* Only an invocation is metered; only a submission and its end touch the   *)
(* chain.                                                                   *)
LEMMA EscrowUntouched ==
    ASSUME Inductive, Next, ~Spawn, ~Chain
    PROVE  chain' = chain /\ hist'.usage = hist.usage
  <1>1. LoseEffect => hist'.usage = hist.usage
    BY LoseEffectFields
  <1>2. hist \in HistType
    BY DEF Inductive, TypeOK
  <1>3. CASE Internal
    BY <1>3 DEF Internal, Boot, Plan, Execute, Operate, Proceed
  <1>4. CASE WorkResult
    BY <1>1, <1>2, <1>4 DEF WorkResult, PlanRejected, PlanParked, ProposeWait, ProposeFinish,
       ProposeAct, ActionSucceeded, ActionFailed, VerificationPassed, VerificationFailed,
       WorkInterrupted, HistType
  <1>5. CASE AccountingResult
    BY <1>1, <1>2, <1>5 DEF AccountingResult, Prepared, PreparationFailed, Reserved,
       NotReserved, Authorized, AuthorizationFailed, Settled, Receipted, OutcomeUnknown,
       ReconciledReserved, ReconciledSettled, ReconciledReceipted, HistType
  <1>6. CASE Timer \/ Command
    BY <1>1, <1>2, <1>6 DEF Timer, DeadlineFires, Wake, ApprovalExpired, Command, Pause,
       Resume, Cancel, Approve, Reject, Reconcile, HistType
  <1>7. CASE Coordinate \/ Fault \/ World
    BY <1>1, <1>7 DEF Coordinate, Launch, LaunchFailed, HandleDown, Fault, WorkerExits,
       ServiceRestarts, World, DeadlinePasses, PolicyChanges, ApprovalLapses
  <1> QED BY <1>3, <1>4, <1>5, <1>6, <1>7 DEF Next

(* An invocation is work under the hold, and within it. *)
LEMMA SpawnIsWork ==
    ASSUME Inductive, Inductive', Spawn
    PROVE  Escrow!Work \/ UNCHANGED <<Hold, hist.usage, Paid>>
  <1>1. chain' = chain /\ Hold' = Hold /\ Paid' = Paid
    BY DEF Spawn, Hold, Paid
  <1> DEFINE rate == Rate(job.status, job.pending.skill)
  <1>2. hist'.usage = hist.usage + rate /\ hist.usage \in Nat /\ hist'.usage <= MaxCostUnits
    <2>1. hist'.usage = hist.usage + rate /\ hist.usage \in Nat /\ hist'.usage \in Nat
      BY DEF Inductive, TypeOK, HistType, Spawn
    <2>2. hist'.usage <= job'.spent /\ job'.spent <= MaxCostUnits /\ job'.spent \in Nat
      BY DEF Inductive, TypeOK, JobType, Agreement, MoneyAddsUp
    <2> QED BY <2>1, <2>2, TariffAssumption
  <1>3. job.status \in WorkPhases /\ (job.status = "executing" => job.pending.skill \in Skills)
    BY DEF Inductive, Agreement, Continuation, Proposal, Spawn, WorkPhases
  <1>4. rate \in Nat /\ (~Metered => rate = 0)
    BY <1>3, RateType
  <1>5. CASE Metered
    <2>1. job.budget = "reserved"
      BY <1>3, <1>5 DEF Inductive, Agreement, Stage, Working
    <2>2. Hold = "held"
      BY <2>1 DEF Inductive, Agreement, Ledger, Unsent, Confirmed, Hold
    <2> QED BY <1>1, <1>2, <1>4, <2>2, TariffAssumption DEF Escrow!Work, Paid
  <1>6. CASE ~Metered
    BY <1>1, <1>2, <1>4, <1>6
  <1> QED BY <1>5, <1>6, TariffAssumption

(* The end of a transaction is a step of the escrow, if it changes anything. *)
LEMMA TxEndsEscrow ==
    ASSUME Inductive, NEW m \in Mutations, TxEnds(m)
    PROVE  \/ Escrow!Open \/ Escrow!Close \/ Escrow!File
           \/ UNCHANGED <<Hold, hist.usage, Paid>>
  <1>1. PICK end \in {"landed", "dropped"} :
            chain' = [chain EXCEPT !.tx = [@ EXCEPT ![m] = end]]
    BY DEF TxEnds
  <1>2. /\ chain'.tx[m] = end /\ chain'.amount = chain.amount /\ hist' = hist
        /\ chain.tx[m] = "pending"
        /\ \A o \in Mutations \ {m} : chain'.tx[o] = chain.tx[o]
    BY <1>1 DEF TxEnds, Inductive, TypeOK, ChainType
  <1>3. CASE end = "dropped"
    BY <1>2, <1>3 DEF Hold, Paid, Mutations
  <1>4. CASE end = "landed" /\ m = "reserve"
    <2>1. chain.tx["settle"] = "none" /\ chain.tx["receipt"] = "none"
      BY <1>2, <1>4 DEF Inductive, TypeOK, JobType, BudgetStatuses, Agreement, Ledger,
                        Unsent, Uncertain, Confirmed
    <2> QED BY <1>2, <1>4, <2>1 DEF Escrow!Open, Hold, Paid, Mutations
  <1>5. CASE end = "landed" /\ m = "settle"
    <2>1. /\ chain.tx["reserve"] = "landed" /\ chain.tx["receipt"] = "none"
          /\ chain.sent["settle"] = 1
      BY <1>2, <1>5 DEF Inductive, TypeOK, JobType, BudgetStatuses, Agreement, Ledger,
                        Unsent, Uncertain, Confirmed
    <2>2. chain.amount["settle"] \in hist.usage .. MaxCostUnits
      BY <2>1, TariffAssumption DEF Inductive, TypeOK, JobType, HistType, Agreement, MoneyAddsUp
    <2>3. Hold = "held" /\ Hold' = "settled" /\ Paid' = chain.amount["settle"]
      BY <1>2, <1>5, <2>1 DEF Hold, Paid, Mutations
    <2> QED BY <1>2, <2>2, <2>3 DEF Escrow!Close, Paid
  <1>6. CASE end = "landed" /\ m = "receipt"
    <2>1. chain.tx["settle"] = "landed"
      BY <1>2, <1>6 DEF Inductive, TypeOK, JobType, BudgetStatuses, Agreement, Ledger,
                        Unsent, Uncertain, Confirmed
    <2>2. Hold = "settled" /\ Hold' = "receipted" /\ Paid' = Paid
      BY <1>2, <1>6, <2>1 DEF Hold, Paid, Mutations
    <2> QED BY <1>2, <2>2 DEF Escrow!File, Paid
  <1> QED BY <1>3, <1>4, <1>5, <1>6 DEF Mutations

LEMMA SubmitEscrow ==
    ASSUME Inductive, NEW m \in Mutations, Submit(m)
    PROVE  UNCHANGED <<Hold, hist.usage, Paid>>
  <1>1. Unsent(m)
    BY DEF Inductive, Agreement, OneWriter, Submit, Answered, WriterOf, Mutations
  <1>2. /\ hist' = hist /\ chain.tx[m] = "none" /\ chain'.tx[m] = "pending"
        /\ \A o \in Mutations \ {m} : chain'.tx[o] = chain.tx[o]
                                      /\ chain'.amount[o] = chain.amount[o]
    BY <1>1 DEF Inductive, TypeOK, ChainType, Submit, Unsent
  <1> QED BY <1>2 DEF Hold, Paid, Mutations

(* Whoever watches the chain and the meters sees the escrow and nothing     *)
(* else: the task's store, crashes and reconciliation implement it.         *)
THEOREM TaskImplementsEscrow == Spec => ImplementsEscrow
  <1>1. Init => Escrow!Init
    BY DEF Init, Escrow!Init, Hold, Mutations
  <1>2. Inductive /\ Inductive' /\ [Next]_vars => [Escrow!Next]_<<Hold, hist.usage, Paid>>
    <2> SUFFICES ASSUME Inductive, Inductive', [Next]_vars
                 PROVE  Escrow!Next \/ UNCHANGED <<Hold, hist.usage, Paid>>
      OBVIOUS
    <2>1. CASE UNCHANGED vars
      BY <2>1 DEF vars, Hold, Paid
    <2>2. CASE Spawn
      BY <2>2, SpawnIsWork DEF Escrow!Next
    <2>3. CASE Chain
      BY <2>3, TxEndsEscrow, SubmitEscrow DEF Chain, Escrow!Next
    <2>4. CASE Next /\ ~Spawn /\ ~Chain
      BY <2>4, EscrowUntouched DEF Hold, Paid
    <2> QED BY <2>1, <2>2, <2>3, <2>4
  <1> QED BY <1>1, <1>2, AlwaysInductive, PTL DEF Spec, ImplementsEscrow, Escrow!Spec, Paid

-----------------------------------------------------------------------------
(***************************************************************************)
(* Proofs about what a task says of itself when it ends, for every          *)
(* template, tariff, limit and number of crashes: completed means verified, *)
(* an effect of unknown outcome is final and disclosed, and a proposal runs *)
(* once and with its owner's consent.  Answerable (AgentTaskInductive) is   *)
(* inductive on top of Inductive.                                           *)
(*                                                                          *)
(* LAYOUT.  As above: a lemma for each common end of a handler              *)
(* (..Answers), then one for each action or group of actions.               *)
(***************************************************************************)

Types == job \in JobType /\ task \in TaskType /\ hist \in HistType

(* The step adds nothing to the history but, perhaps, a lost effect. *)
Remembered ==
    /\ hist'.ran = hist.ran /\ hist'.granted = hist.granted
    /\ hist'.verified = hist.verified

(* What the ends of handlers leave alone. *)
Carried ==
    /\ job'.done = job.done /\ job'.iteration = job.iteration
    /\ job'.budget = job.budget /\ job'.outcome = job.outcome

LEMMA Typed == Inductive => Types
  BY DEF Inductive, TypeOK, Types

(* While a worker runs, a lost effect is either the interruption on record  *)
(* or already the drafted outcome.                                          *)
LEMMA LostWhileUp ==
    ASSUME Inductive, Disclosure, hist.lost, task.up
    PROVE  \/ /\ job.budget \in {"disabled", "reserved"}
              /\ job.status = "interrupted" /\ job.phase \in Unfinished /\ task.next = "none"
           \/ /\ job.budget \in {"settlement_pending", "settled", "receipt_pending", "complete"}
              /\ job.outcome = "cancelled_unreconciled"
  BY DEF Inductive, Agreement, Process, Disclosure, Terminal

(* Work in progress has lost nothing. *)
LEMMA NothingLost ==
    ASSUME Inductive, Disclosure, task.up,
           \/ job.status \in Working \cup {"queued", "budget_preparing", "budget_authorizing"}
           \/ job.budget \in {"unprepared", "unreserved", "reservation_pending"}
    PROVE  ~hist.lost
  BY LostWhileUp DEF Inductive, Agreement, Stage, Working, Unfinished, WorkPhases

(* A handler ended in a state that is neither work nor a proposal. *)
LEMMA Quiet ==
    ASSUME Gate, Consent, Remembered,
           job'.done = job.done, job'.iteration = job.iteration,
           job'.outcome = job.outcome \/ job'.outcome \in Terminal \ {"completed"}
             \/ (hist.verified /\ RequiredActions \subseteq job.done),
           job'.status = job.outcome \/ job'.status # "completed"
             \/ (hist.verified /\ RequiredActions \subseteq job.done),
           job'.status \notin WorkPhases \cup {"awaiting_approval", "budget_authorizing"},
           task'.next \notin {"ask", "execute", "operate", "spawn", "complete"}
    PROVE  Gate' /\ Consent'
  <1>1. Gate'
    BY DEF Gate, Remembered, WorkPhases
  <1>2. Consent'
    BY DEF Consent, Cleared, Remembered, WorkPhases
  <1> QED BY <1>1, <1>2

-----------------------------------------------------------------------------
(* The common ends of handlers *)

LEMMA ParkAnswers ==
    ASSUME Inductive, Answerable, Remembered, Park,
           ~hist'.lost, job.phase = "none", job.budget \in {"disabled", "reserved"}
    PROVE  Answerable'
  <1>1. /\ job'.status = "paused" /\ job'.phase = job.phase /\ Carried
        /\ task'.next = "none" /\ task'.up = task.up
    BY Typed DEF Types, JobType, TaskType, Park, Continue, Carried
  <1>2. Gate' /\ Consent'
    BY <1>1, Quiet DEF Answerable, Carried, WorkPhases
  <1>3. Bearings' /\ Disclosure'
    BY <1>1 DEF Bearings, Disclosure, Carried
  <1> QED BY <1>2, <1>3 DEF Answerable

LEMMA AdvanceAnswers ==
    ASSUME Inductive, Answerable, Remembered, Advance,
           ~hist'.lost, job.phase = "none", job.budget \in {"disabled", "reserved"}
    PROVE  Answerable'
  <1>1. CASE Park
    BY <1>1, ParkAnswers
  <1>2. ASSUME job' = [job EXCEPT !.status = "ready", !.pending = NoPending],
               Continue("plan")
        PROVE  Answerable'
    <2>1. /\ job'.status = "ready" /\ job'.phase = job.phase /\ Carried
          /\ task'.next = "plan" /\ task'.up = task.up
      BY <1>2, Typed DEF Types, JobType, TaskType, Continue, Carried
    <2>2. Gate' /\ Consent'
      BY <2>1, Quiet DEF Answerable, Carried, WorkPhases
    <2>3. Bearings' /\ Disclosure'
      BY <2>1 DEF Bearings, Disclosure, Carried
    <2> QED BY <2>2, <2>3 DEF Answerable
  <1> QED BY <1>1, <1>2 DEF Advance

LEMMA InterruptAnswers ==
    ASSUME Inductive, Answerable, Remembered, NEW p \in Unfinished, Interrupt(p),
           job.budget \in {"disabled", "reserved"}
    PROVE  Answerable'
  <1>1. /\ job'.status = "interrupted" /\ job'.phase = p /\ Carried
        /\ task'.next = "none" /\ task'.up = task.up
    BY Typed DEF Types, JobType, TaskType, Interrupt, Continue, Carried
  <1>2. Gate' /\ Consent'
    BY <1>1, Quiet DEF Answerable, Carried, WorkPhases
  <1>3. Bearings' /\ Disclosure'
    BY <1>1 DEF Bearings, Disclosure, Carried, Working, WorkPhases
  <1> QED BY <1>2, <1>3 DEF Answerable

LEMMA AccountingHoldAnswers ==
    ASSUME Inductive, Answerable, Remembered, NEW p, AccountingHold(p),
           hist'.lost <=> hist.lost, job.budget \in Unconfirmed
    PROVE  Answerable'
  <1>1. /\ job'.status = "accounting_pending" /\ Carried
        /\ task'.next = "none" /\ task'.up = task.up
    BY Typed DEF Types, JobType, TaskType, AccountingHold, Continue, Carried
  <1>2. Gate' /\ Consent'
    BY <1>1, Quiet DEF Answerable, Carried, WorkPhases
  <1>3. Bearings' /\ Disclosure'
    BY <1>1 DEF Answerable, Bearings, Disclosure, Carried, Unconfirmed, Working, WorkPhases,
                Terminal
  <1> QED BY <1>2, <1>3 DEF Answerable

LEMMA StartReceiptAnswers ==
    ASSUME Inductive, Answerable, Remembered, StartReceipt,
           hist'.lost <=> hist.lost, job.budget = "settled"
    PROVE  Answerable'
  <1>1. /\ job'.status = "receipting" /\ job'.budget = "receipt_pending"
        /\ job'.done = job.done /\ job'.iteration = job.iteration
        /\ job'.outcome = job.outcome
        /\ task'.next = "none" /\ task'.up = task.up
    BY Typed DEF Types, JobType, TaskType, StartReceipt, RunOperation
  <1>2. Gate' /\ Consent'
    BY <1>1, Quiet DEF Answerable, WorkPhases
  <1>3. Bearings' /\ Disclosure'
    BY <1>1 DEF Answerable, Bearings, Disclosure, Working, WorkPhases, Terminal
  <1> QED BY <1>2, <1>3 DEF Answerable

LEMMA TerminalFinishAnswers ==
    ASSUME Inductive, Answerable, Remembered, NEW s \in Terminal, TerminalFinish(s),
           s = "completed"
             => s = job.outcome \/ (hist.verified /\ RequiredActions \subseteq job.done),
           hist'.lost => /\ job.budget \in {"disabled", "reserved", "complete"}
                         /\ s = "cancelled_unreconciled"
                         /\ job.budget = "complete" => job.outcome = s
    PROVE  Answerable'
  <1>1. /\ job'.status = s /\ Carried
        /\ task'.next = "none" /\ ~task'.up
    BY Typed, NoWorkerFields DEF Types, JobType, TaskType, TerminalFinish, Carried
  <1>2. Gate' /\ Consent'
    BY <1>1, Quiet DEF Answerable, Carried, WorkPhases, Terminal
  <1>3. Bearings' /\ Disclosure'
    BY <1>1 DEF Bearings, Disclosure, Carried, Working, WorkPhases, Terminal
  <1> QED BY <1>2, <1>3 DEF Answerable

(* However a task is ended: by its owner, its deadline, its planner or the  *)
(* policy.  A task that has lost an effect can only be given up unverified. *)
LEMMA FinishAnswers ==
    ASSUME Inductive, Answerable, Remembered, task.up, task.next # "close",
           NEW s \in Terminal, Finish(s),
           s = "completed" => hist.verified /\ RequiredActions \subseteq job.done,
           hist'.lost => hist.lost \/ job.budget \in {"disabled", "reserved"},
           hist.lost => hist'.lost,
           hist'.lost /\ job.budget \in {"disabled", "reserved"} => s = "cancelled_unreconciled"
    PROVE  Answerable'
  <1>1. job.budget # "complete"
    BY DEF Answerable, Bearings
  <1>2. hist'.lost /\ job.budget \notin {"disabled", "reserved"}
          => hist.lost /\ job.budget \in {"settlement_pending", "settled", "receipt_pending"}
    BY <1>1, LostWhileUp DEF Answerable
  <1>3. CASE TerminalFinish(s) /\ job.budget \in {"disabled", "unprepared", "unreserved"}
    BY <1>2, <1>3, TerminalFinishAnswers
  <1>4. ASSUME job.budget = "reserved", RunOperation,
               job' = [job EXCEPT !.status = "settling", !.budget = "settlement_pending",
                                  !.outcome = s, !.receipt = job.spent]
        PROVE  Answerable'
    <2>1. /\ job'.status = "settling" /\ job'.budget = "settlement_pending"
          /\ job'.done = job.done /\ job'.iteration = job.iteration /\ job'.outcome = s
          /\ task'.next = "none"
      BY <1>4, Typed DEF Types, JobType, TaskType, RunOperation
    <2>2. Gate' /\ Consent'
      BY <2>1, Quiet DEF Answerable, WorkPhases, Terminal
    <2>3. Bearings' /\ Disclosure'
      BY <1>4, <2>1 DEF Bearings, Disclosure, Working, WorkPhases, Terminal
    <2> QED BY <2>2, <2>3 DEF Answerable
  <1>5. CASE StartReceipt /\ job.budget = "settled"
    <2>1. hist'.lost <=> hist.lost
      BY <1>2, <1>5
    <2> QED BY <1>5, <2>1, StartReceiptAnswers
  <1>6. CASE AccountingHold(job.status) /\ job.budget \in Unconfirmed
    <2>1. hist'.lost <=> hist.lost
      BY <1>2, <1>6 DEF Unconfirmed
    <2> QED BY <1>6, <2>1, AccountingHoldAnswers
  <1> QED BY <1>1, <1>3, <1>4, <1>5, <1>6 DEF Finish

-----------------------------------------------------------------------------
(* Internal events and the rest of handlers *)

LEMMA BootAnswers == ASSUME Inductive, Answerable, Boot PROVE Answerable'
  <1>1. job.status = "queued" /\ job.phase = "none" /\ ~hist.lost /\ ~hist'.lost /\ Remembered
    BY NothingLost DEF Boot, Inductive, Agreement, Process, Answerable, Bearings, Remembered
  <1>2. CASE ~Metered /\ Advance
    <2>1. job.budget = "disabled"
      BY <1>2 DEF Inductive, Agreement, Stage
    <2> QED BY <1>1, <1>2, <2>1, AdvanceAnswers
  <1>3. ASSUME job' = [job EXCEPT !.status = "budget_preparing"], RunOperation
        PROVE  Answerable'
    <2>1. /\ job'.status = "budget_preparing" /\ job'.phase = job.phase
          /\ job'.resume = job.resume /\ Carried /\ task'.next = "none"
      BY <1>3, Typed DEF Types, JobType, TaskType, RunOperation, Carried
    <2>2. Gate' /\ Consent'
      BY <1>1, <2>1, Quiet DEF Answerable, Carried, WorkPhases
    <2>3. Bearings' /\ Disclosure'
      <3>1. job.budget # "complete"
        BY <1>1 DEF Inductive, Agreement, Stage
      <3> QED BY <1>1, <2>1, <3>1 DEF Bearings, Disclosure, Carried
    <2> QED BY <2>2, <2>3 DEF Answerable
  <1> QED BY <1>2, <1>3 DEF Boot

LEMMA PlanAnswers == ASSUME Inductive, Answerable, Plan PROVE Answerable'
  <1>1. /\ task.up /\ task.next = "plan" /\ job.status = "ready" /\ job.phase = "none"
        /\ Remembered /\ ~hist.lost /\ ~hist'.lost
    BY NothingLost DEF Plan, Inductive, Agreement, Continuation, Answerable, Bearings,
                       Remembered, Working
  <1>2. CASE Finish("failed") \/ Finish("exhausted")
    BY <1>1, <1>2, FinishAnswers, TerminalNames
  <1>3. ASSUME job' = [job EXCEPT !.status = "planning", !.pending = NoPending,
                                  !.iteration = @ + 1],
               task' = [task EXCEPT !.next = "operate"]
        PROVE  Answerable'
    <2>1. /\ job'.status = "planning" /\ job'.phase = job.phase /\ job'.done = job.done
          /\ job'.iteration = job.iteration + 1 /\ job.iteration \in Nat
          /\ job'.budget = job.budget /\ job'.outcome = job.outcome /\ task'.next = "operate"
      BY <1>3, Typed, LimitAssumption DEF Types, JobType, TaskType
    <2>2. \A i \in hist.ran : i \in Nat /\ i <= job.iteration
      BY Typed DEF Types, HistType, Answerable, Consent
    <2>3. Consent'
      <3>1. (\A i \in hist'.ran : i <= job'.iteration) /\ job'.iteration \notin hist'.ran
        BY <1>1, <2>1, <2>2 DEF Remembered
      <3> QED BY <2>1, <3>1 DEF Consent, Cleared
    <2>4. Gate'
      BY <1>1, <2>1 DEF Answerable, Gate, Remembered
    <2>5. Bearings' /\ Disclosure'
      <3>1. job.budget # "complete"
        BY <1>1 DEF Inductive, Agreement, Stage, Working
      <3> QED BY <1>1, <2>1, <3>1 DEF Bearings, Disclosure
    <2> QED BY <2>3, <2>4, <2>5 DEF Answerable
  <1> QED BY <1>2, <1>3 DEF Plan

LEMMA ExecuteAnswers == ASSUME Inductive, Answerable, Execute PROVE Answerable'
  <1>1. /\ task.up /\ task.next = "execute" /\ job.phase = "none" /\ Remembered
        /\ job.budget \in {"disabled", "reserved"} /\ ~hist.lost /\ ~hist'.lost
    BY NothingLost DEF Execute, Inductive, Agreement, Continuation, Stage, Answerable, Bearings,
                       Remembered, Working, WorkPhases
  <1>2. CASE Finish("failed")
    BY <1>1, <1>2, FinishAnswers, TerminalNames
  <1>3. ASSUME DispatchAllowed("executing"), job' = [job EXCEPT !.status = "executing"],
               task' = [task EXCEPT !.next = "operate"]
        PROVE  Answerable'
    <2>1. /\ job'.status = "executing" /\ job'.phase = job.phase /\ Carried
          /\ job'.pending = job.pending /\ task'.next = "operate"
      BY <1>3, Typed DEF Types, JobType, TaskType, Carried
    <2>2. NeedsApproval(job.pending.skill) => job.pending.approved
      BY <1>3 DEF DispatchAllowed
    <2>3. NeedsApproval(job'.pending.skill) => NeedsApproval(job.pending.skill)
      BY <2>1
    <2>4. Consent'
      BY <1>1, <2>1, <2>2, <2>3 DEF Answerable, Consent, Cleared, Carried, Remembered
    <2>5. Gate'
      BY <1>1, <2>1 DEF Answerable, Gate, Carried, Remembered
    <2>6. Bearings' /\ Disclosure'
      BY <1>1, <2>1 DEF Bearings, Disclosure, Carried
    <2> QED BY <2>4, <2>5, <2>6 DEF Answerable
  <1> QED BY <1>2, <1>3 DEF Execute

LEMMA OperateAnswers == ASSUME Inductive, Answerable, Operate PROVE Answerable'
  <1>1. /\ task.up /\ task.next = "operate" /\ job.status \in WorkPhases /\ job.phase = "none"
        /\ job.budget \in {"disabled", "reserved"} /\ Remembered /\ ~hist.lost /\ ~hist'.lost
    BY NothingLost DEF Operate, Inductive, Agreement, Continuation, Stage, Answerable, Bearings,
                       Remembered, Working
  <1>2. CASE Finish("exhausted")
    BY <1>1, <1>2, FinishAnswers, TerminalNames
  <1>3. ASSUME RunOperation,
               job' = [job EXCEPT !.status = "budget_authorizing", !.resume = job.status]
        PROVE  Answerable'
    <2>1. /\ job'.status = "budget_authorizing" /\ job'.phase = job.phase /\ Carried
          /\ job'.resume = job.status /\ job'.pending = job.pending /\ task'.next = "none"
      BY <1>3, Typed DEF Types, JobType, TaskType, RunOperation, Carried
    <2>2. NeedsApproval(job'.pending.skill) => NeedsApproval(job.pending.skill)
      BY <2>1
    <2>3. Consent'
      BY <1>1, <2>1, <2>2 DEF Answerable, Consent, Cleared, Carried, Remembered
    <2>4. Gate'
      BY <1>1, <2>1 DEF Answerable, Gate, Carried, Remembered
    <2>5. Bearings' /\ Disclosure'
      BY <1>1, <2>1 DEF Bearings, Disclosure, Carried
    <2> QED BY <2>3, <2>4, <2>5 DEF Answerable
  <1> QED BY <1>2, <1>3 DEF Operate

LEMMA SpawnAnswers == ASSUME Inductive, Answerable, Spawn PROVE Answerable'
  <1>1. /\ task.up /\ task.next \in {"operate", "spawn"} /\ job.status \in WorkPhases
        /\ job.budget \in {"disabled", "reserved"} /\ ~hist.lost
    BY NothingLost DEF Spawn, Inductive, Agreement, Continuation, Stage, Answerable, Working
  <1>2. /\ job' = job /\ task'.next = "none"
        /\ ~hist'.lost /\ hist'.verified = hist.verified
        /\ hist'.ran = IF job.status = "executing" THEN hist.ran \cup {job.iteration} ELSE hist.ran
    BY <1>1, Typed DEF Types, HistType, TaskType, Spawn, RunOperation
  <1>3. job.status # "executing" => hist'.ran = hist.ran
    BY <1>2
  <1>4. Consent'
    BY <1>1, <1>2, <1>3, LimitAssumption, Typed
       DEF Answerable, Consent, Cleared, WorkPhases, Types, JobType
  <1>5. Gate' /\ Bearings' /\ Disclosure'
    BY <1>1, <1>2 DEF Answerable, Gate, Bearings, Disclosure
  <1> QED BY <1>4, <1>5 DEF Answerable

LEMMA ProceedAnswers == ASSUME Inductive, Answerable, Proceed PROVE Answerable'
  <1>1. task.up /\ Remembered /\ hist' = hist
    BY DEF Proceed, Remembered
  <1>2. ASSUME task.next # "none", hist.lost
        PROVE  job.budget \notin {"disabled", "reserved"}
    BY <1>1, <1>2, LostWhileUp DEF Answerable
  <1>3. CASE task.next = "ask" /\ Ask
    <2>1. job.status = "planning" /\ job.budget \in {"disabled", "reserved"} /\ ~hist'.lost
      BY <1>1, <1>2, <1>3 DEF Inductive, Agreement, Continuation, Stage, Working, WorkPhases
    <2>2. /\ job'.status = "awaiting_approval" /\ job'.phase = job.phase /\ Carried
          /\ task'.next = "none"
      BY <1>3, Typed DEF Types, JobType, TaskType, Ask, Continue, Carried
    <2>3. Consent' /\ Gate'
      BY <1>1, <2>1, <2>2 DEF Answerable, Consent, Gate, Cleared, Carried
    <2>4. Bearings' /\ Disclosure'
      BY <1>1, <2>1, <2>2 DEF Answerable, Bearings, Disclosure, Carried, Working, WorkPhases
    <2> QED BY <2>3, <2>4 DEF Answerable
  <1>4. CASE task.next \in {"advance", "park"} /\ (Advance \/ Park)
    <2>1. job.phase = "none" /\ job.budget \in {"disabled", "reserved"} /\ ~hist'.lost
      BY <1>1, <1>2, <1>4 DEF Inductive, Agreement, Continuation, Answerable, Bearings
    <2> QED BY <1>1, <1>4, <2>1, AdvanceAnswers, ParkAnswers
  <1>5. CASE task.next = "fail" /\ Finish("failed")
    BY <1>1, <1>2, <1>5, FinishAnswers, TerminalNames
  <1>6. CASE task.next = "complete" /\ Finish("completed")
    <2>1. hist.verified /\ RequiredActions \subseteq job.done
      BY <1>6 DEF Answerable, Gate
    <2> QED BY <1>1, <1>2, <1>6, <2>1, FinishAnswers, TerminalNames
  <1>7. CASE task.next = "abandon" /\ Finish("cancelled")
    BY <1>1, <1>2, <1>7, FinishAnswers, TerminalNames
  <1>8. CASE task.next = "receipt" /\ StartReceipt
    BY <1>1, <1>8, StartReceiptAnswers DEF Inductive, Agreement, Continuation
  <1>9. CASE task.next = "close" /\ TerminalFinish(job.outcome)
    <2>1. job.budget = "complete" /\ job.outcome \in Terminal
      BY <1>9 DEF Inductive, Agreement, Continuation, Draft
    <2>2. hist'.lost => job.outcome = "cancelled_unreconciled"
      BY <1>1, <2>1, LostWhileUp DEF Answerable
    <2> QED BY <1>1, <1>9, <2>1, <2>2, TerminalFinishAnswers
  <1> QED BY <1>3, <1>4, <1>5, <1>6, <1>7, <1>8, <1>9 DEF Proceed

-----------------------------------------------------------------------------
(* Results of the planner, of actions and of the verifier *)

LEMMA AtWork ==
    ASSUME Inductive, Answerable, NEW w \in WorkPhases, Answered(w)
    PROVE  /\ job.phase = "none" /\ job.budget \in {"disabled", "reserved"}
           /\ ~hist.lost /\ task.up /\ task.next = "none" /\ job.status = w
  BY NothingLost DEF Answered, Inductive, Agreement, Process, Stage, Answerable, Bearings, Working

LEMMA LosingRemembers ==
    ASSUME Inductive, LoseEffect
    PROVE  /\ Remembered
           /\ hist'.lost <=> hist.lost \/ (task.active /\ job.status \in Unfinished)
  BY Typed DEF Types, HistType, LoseEffect, Remembered, Unfinished

LEMMA PlanningAnswers ==
    ASSUME Inductive, Answerable, PlanRejected \/ PlanParked
    PROVE  Answerable'
  <1>1. Answered("planning") /\ Remembered /\ hist' = hist
    BY DEF PlanRejected, PlanParked, Remembered
  <1>2. CASE PlanRejected
    BY <1>1, <1>2, AtWork, FinishAnswers, TerminalNames DEF PlanRejected, WorkPhases
  <1>3. CASE PlanParked
    BY <1>1, <1>3, AtWork, ParkAnswers DEF PlanParked, WorkPhases
  <1> QED BY <1>2, <1>3

LEMMA ProposeWaitAnswers == ASSUME Inductive, Answerable, ProposeWait PROVE Answerable'
  <1>1. /\ job.phase = "none" /\ job.budget \in {"disabled", "reserved"}
        /\ ~hist'.lost /\ Remembered
    BY AtWork DEF ProposeWait, WorkPhases, Remembered
  <1>2. /\ job'.status = "waiting" /\ job'.phase = job.phase /\ Carried /\ task'.next = "none"
    BY Typed DEF Types, JobType, TaskType, ProposeWait, Continue, Carried
  <1>3. Gate' /\ Consent'
    BY <1>1, <1>2, Quiet DEF Answerable, Carried, WorkPhases
  <1>4. Bearings' /\ Disclosure'
    BY <1>1, <1>2 DEF Bearings, Disclosure, Carried
  <1> QED BY <1>3, <1>4 DEF Answerable

(* Going to the acceptance gate takes the required evidence. *)
LEMMA ProposeFinishAnswers == ASSUME Inductive, Answerable, ProposeFinish PROVE Answerable'
  <1>1. /\ job.phase = "none" /\ job.budget \in {"disabled", "reserved"} /\ task.up
        /\ task.next = "none" /\ ~hist.lost /\ ~hist'.lost /\ Remembered
    BY AtWork DEF ProposeFinish, WorkPhases, Remembered
  <1>2. CASE Finish("failed")
    BY <1>1, <1>2, FinishAnswers, TerminalNames
  <1>3. ASSUME RequiredActions \subseteq job.done, Continue("operate"),
               job' = [job EXCEPT !.status = "verifying"]
        PROVE  Answerable'
    <2>1. /\ job'.status = "verifying" /\ job'.phase = job.phase /\ Carried
          /\ task'.next = "operate"
      BY <1>3, Typed DEF Types, JobType, TaskType, Continue, Carried
    <2>2. Gate' /\ Consent'
      BY <1>1, <1>3, <2>1 DEF Answerable, Gate, Consent, Cleared, Carried, Remembered
    <2>3. Bearings' /\ Disclosure'
      BY <1>1, <2>1 DEF Bearings, Disclosure, Carried
    <2> QED BY <2>2, <2>3 DEF Answerable
  <1> QED BY <1>2, <1>3 DEF ProposeFinish

LEMMA ProposeActAnswers ==
    ASSUME Inductive, Answerable, NEW skill \in Skills, ProposeAct(skill)
    PROVE  Answerable'
  <1>1. /\ job.phase = "none" /\ job.budget \in {"disabled", "reserved"} /\ task.up
        /\ job.status = "planning" /\ task.next = "none"
        /\ ~hist.lost /\ ~hist'.lost /\ Remembered
    BY AtWork DEF ProposeAct, WorkPhases, Remembered
  <1>2. CASE Finish("failed")
    BY <1>1, <1>2, FinishAnswers, TerminalNames
  <1>3. ASSUME job' = [job EXCEPT !.pending =
                           [skill |-> skill, approved |-> FALSE, expired |-> FALSE]],
               Continue(IF NeedsApproval(skill) THEN "ask" ELSE "execute")
        PROVE  Answerable'
    <2>1. /\ job'.status = "planning" /\ job'.phase = job.phase /\ Carried
          /\ ~job'.pending.approved /\ task'.next \in {"ask", "execute"}
      BY <1>1, <1>3, Typed DEF Types, JobType, TaskType, Continue, Carried
    <2>2. Gate' /\ Consent'
      BY <1>1, <2>1 DEF Answerable, Gate, Consent, Cleared, Carried, Remembered
    <2>3. Bearings' /\ Disclosure'
      BY <1>1, <2>1 DEF Bearings, Disclosure, Carried
    <2> QED BY <2>2, <2>3 DEF Answerable
  <1> QED BY <1>2, <1>3 DEF ProposeAct

(* An answer is counted, and the turn goes on with n. *)
LEMMA CountedAnswers ==
    ASSUME Inductive, Answerable, NEW w \in WorkPhases, Answered(w), ~hist'.lost,
           hist'.ran = hist.ran, hist'.granted = hist.granted,
           hist'.verified \/ (~hist.verified /\ ~hist'.verified),
           job'.status = job.status, job'.phase = job.phase, job'.budget = job.budget,
           job'.outcome = job.outcome, job'.iteration = job.iteration,
           job.done \subseteq job'.done,
           NEW n \in {"park", "advance", "fail", "complete"}, Continue(n),
           n = "complete" => w = "verifying" /\ hist'.verified
    PROVE  Answerable'
  <1>1. task'.next = n /\ task'.up
    BY AtWork, Typed DEF Types, TaskType, Continue
  <1>2. /\ job.phase = "none" /\ job.budget \in {"disabled", "reserved"} /\ job.status = w
    BY AtWork
  <1>3. Gate'
    BY <1>1, <1>2 DEF Answerable, Gate, WorkPhases
  <1>4. Consent'
    BY <1>1, <1>2 DEF Answerable, Consent, Cleared, WorkPhases
  <1>5. Bearings' /\ Disclosure'
    BY <1>1, <1>2 DEF Bearings, Disclosure
  <1> QED BY <1>3, <1>4, <1>5 DEF Answerable

LEMMA ResultAnswers ==
    ASSUME Inductive, Answerable,
           (\E same \in BOOLEAN : ActionSucceeded(same)) \/ VerificationPassed \/ VerificationFailed
    PROVE  Answerable'
  <1>0. hist.verified \in BOOLEAN
    BY Typed DEF Types, HistType
  <1>1. ASSUME NEW same \in BOOLEAN, ActionSucceeded(same) PROVE Answerable'
    <2> DEFINE stalled == IF same THEN job.noProgress + 1 ELSE 0
               n == IF stalled >= MaxNoProgress THEN "park" ELSE "advance"
    <2>1. /\ job'.status = job.status /\ job'.phase = job.phase /\ job'.budget = job.budget
          /\ job'.outcome = job.outcome /\ job'.iteration = job.iteration
          /\ job.done \subseteq job'.done
      BY <1>1, Typed DEF Types, JobType, ActionSucceeded
    <2>2. Answered("executing") /\ Continue(n) /\ hist' = hist
      BY <1>1 DEF ActionSucceeded
    <2>3. ~hist.lost
      BY <2>2, AtWork DEF WorkPhases
    <2>4. n \in {"park", "advance", "fail", "complete"} /\ n # "complete"
      OBVIOUS
    <2> QED BY <1>0, <2>1, <2>2, <2>3, <2>4, CountedAnswers DEF WorkPhases
  <1>2. CASE VerificationPassed
    <2>1. Answered("verifying") /\ Continue("complete") /\ job' = job
      BY <1>2 DEF VerificationPassed
    <2>2. ~hist.lost
      BY <2>1, AtWork DEF WorkPhases
    <2>3. ~hist'.lost /\ hist'.ran = hist.ran /\ hist'.granted = hist.granted /\ hist'.verified
      BY <1>2, <2>2, Typed DEF Types, HistType, VerificationPassed
    <2> QED BY <2>1, <2>2, <2>3, CountedAnswers DEF WorkPhases
  <1>3. CASE VerificationFailed
    <2> DEFINE n == IF job.verifyFails + 1 >= MaxVerificationFailures THEN "fail" ELSE "advance"
    <2>1. /\ job'.status = job.status /\ job'.phase = job.phase /\ job'.budget = job.budget
          /\ job'.outcome = job.outcome /\ job'.iteration = job.iteration
          /\ job.done \subseteq job'.done
      BY <1>3, Typed DEF Types, JobType, VerificationFailed
    <2>2. Answered("verifying") /\ Continue(n) /\ hist' = hist
      BY <1>3 DEF VerificationFailed
    <2>3. ~hist.lost
      BY <2>2, AtWork DEF WorkPhases
    <2>4. n \in {"park", "advance", "fail", "complete"} /\ n # "complete"
      OBVIOUS
    <2> QED BY <1>0, <2>1, <2>2, <2>3, <2>4, CountedAnswers DEF WorkPhases
  <1> QED BY <1>1, <1>2, <1>3

LEMMA ActionFailedAnswers == ASSUME Inductive, Answerable, ActionFailed PROVE Answerable'
  <1>1. Answered("executing") /\ job.status = "executing" /\ task.up /\ task.next = "none"
        /\ ~hist.lost /\ job.budget \in {"disabled", "reserved"}
    BY AtWork DEF ActionFailed, WorkPhases
  <1>2. CASE Interrupt("executing") /\ LoseEffect
    BY <1>1, <1>2, LosingRemembers, InterruptAnswers DEF Unfinished
  <1>3. CASE Finish("failed") /\ UNCHANGED hist
    BY <1>1, <1>3, FinishAnswers, TerminalNames DEF Remembered
  <1>4. ASSUME job' = [job EXCEPT !.readFails = @ + 1], UNCHANGED hist,
               Continue(IF job.readFails + 1 >= MaxReadFailures THEN "fail" ELSE "advance")
        PROVE  Answerable'
    <2> DEFINE n == IF job.readFails + 1 >= MaxReadFailures THEN "fail" ELSE "advance"
    <2>1. /\ job'.status = job.status /\ job'.phase = job.phase /\ job'.budget = job.budget
          /\ job'.outcome = job.outcome /\ job'.iteration = job.iteration
          /\ job.done \subseteq job'.done
      BY <1>4, Typed DEF Types, JobType
    <2>2. n \in {"park", "advance", "fail", "complete"} /\ n # "complete"
      OBVIOUS
    <2>3. hist.verified \in BOOLEAN
      BY Typed DEF Types, HistType
    <2> QED BY <1>1, <1>4, <2>1, <2>2, <2>3, CountedAnswers DEF WorkPhases
  <1> QED BY <1>2, <1>3, <1>4 DEF ActionFailed

LEMMA WorkResultAnswers == ASSUME Inductive, Answerable, WorkResult PROVE Answerable'
  <1>1. CASE WorkInterrupted
    <2>1. job.status \in Unfinished /\ Answered(job.status) /\ Unfinished \subseteq WorkPhases
      BY <1>1 DEF WorkInterrupted, Answered, Unfinished, WorkPhases
    <2>2. job.budget \in {"disabled", "reserved"}
      BY <2>1, AtWork
    <2> QED BY <1>1, <2>1, <2>2, LosingRemembers, InterruptAnswers DEF WorkInterrupted
  <1> QED BY <1>1, PlanningAnswers, ProposeWaitAnswers, ProposeFinishAnswers, ProposeActAnswers,
             ResultAnswers, ActionFailedAnswers DEF WorkResult

-----------------------------------------------------------------------------
(* Results of the accounting backend *)

LEMMA PreparingAnswers ==
    ASSUME Inductive, Answerable, Prepared \/ PreparationFailed
    PROVE  Answerable'
  <1>1. /\ task.up /\ task.next = "none" /\ job.status = "budget_preparing"
        /\ job.budget = "unprepared" /\ job.phase = "none"
        /\ ~hist.lost /\ ~hist'.lost /\ Remembered
    BY NothingLost DEF Prepared, PreparationFailed, Answered, Inductive, Agreement, Process,
                       Stage, Answerable, Bearings, Remembered
  <1>2. CASE Finish("failed")
    BY <1>1, <1>2, FinishAnswers, TerminalNames
  <1>3. ASSUME job' = [job EXCEPT !.status = "budget_reserving",
                                  !.budget = "reservation_pending"],
               RunOperation
        PROVE  Answerable'
    <2>1. /\ job'.status = "budget_reserving" /\ job'.budget = "reservation_pending"
          /\ job'.phase = job.phase /\ job'.done = job.done /\ job'.iteration = job.iteration
          /\ job'.outcome = job.outcome /\ task'.next = "none"
      BY <1>3, Typed DEF Types, JobType, TaskType, RunOperation
    <2>2. Gate' /\ Consent'
      BY <1>1, <2>1, Quiet DEF Answerable, WorkPhases
    <2>3. Bearings' /\ Disclosure'
      BY <1>1, <2>1 DEF Bearings, Disclosure
    <2> QED BY <2>2, <2>3 DEF Answerable
  <1> QED BY <1>2, <1>3 DEF Prepared, PreparationFailed

LEMMA AuthorizingAnswers ==
    ASSUME Inductive, Answerable, Authorized \/ AuthorizationFailed
    PROVE  Answerable'
  <1>1. /\ task.up /\ task.next = "none" /\ job.status = "budget_authorizing"
        /\ job.budget = "reserved" /\ job.phase = "none" /\ job.resume \in WorkPhases
        /\ ~hist.lost /\ ~hist'.lost /\ Remembered
    BY NothingLost DEF Authorized, AuthorizationFailed, Answered, Inductive, Agreement, Process,
                       Stage, Booking, Answerable, Bearings, Remembered
  <1>2. CASE Finish("failed")
    BY <1>1, <1>2, FinishAnswers, TerminalNames
  <1>3. CASE Park
    BY <1>1, <1>3, ParkAnswers
  <1>4. ASSUME job' = [job EXCEPT !.status = job.resume, !.resume = "none",
                                  !.spent = @ + Rate(job.resume, job.pending.skill)],
               Continue("spawn")
        PROVE  Answerable'
    <2>1. /\ job'.status = job.resume /\ job'.phase = job.phase /\ Carried
          /\ job'.pending = job.pending /\ task'.next = "spawn"
      BY <1>4, Typed DEF Types, JobType, TaskType, Continue, Carried
    <2>2. NeedsApproval(job'.pending.skill) => NeedsApproval(job.pending.skill)
      BY <2>1
    <2>3. Consent'
      BY <1>1, <2>1, <2>2 DEF Answerable, Consent, Cleared, Carried, Remembered, WorkPhases
    <2>4. Gate'
      BY <1>1, <2>1 DEF Answerable, Gate, Carried, Remembered, WorkPhases
    <2>5. Bearings' /\ Disclosure'
      BY <1>1, <2>1 DEF Bearings, Disclosure, Carried
    <2> QED BY <2>3, <2>4, <2>5 DEF Answerable
  <1> QED BY <1>2, <1>3, <1>4 DEF Authorized, AuthorizationFailed

LEMMA ReservationAnswers ==
    ASSUME Inductive, Answerable, Reserved \/ NotReserved
    PROVE  Answerable'
  <1>1. /\ job.status = "budget_reserving" /\ job.budget = "reservation_pending"
        /\ job.phase = "none" /\ task.up /\ ~hist.lost /\ ~hist'.lost /\ Remembered
    BY NothingLost DEF Reserved, NotReserved, Answered, Inductive, Agreement, Intent,
                       Answerable, Bearings, Remembered
  <1>2. /\ job'.status = job.status /\ job'.budget \in {"reserved", "unreserved"}
        /\ job'.phase = job.phase /\ job'.done = job.done /\ job'.iteration = job.iteration
        /\ job'.outcome = job.outcome /\ task'.next \in {"advance", "fail"}
    BY Typed DEF Types, JobType, TaskType, Reserved, NotReserved, Continue
  <1>3. Gate' /\ Consent'
    BY <1>1, <1>2, Quiet DEF Answerable, WorkPhases
  <1>4. Bearings' /\ Disclosure'
    BY <1>1, <1>2 DEF Bearings, Disclosure
  <1> QED BY <1>3, <1>4 DEF Answerable

LEMMA ConfirmationAnswers ==
    ASSUME Inductive, Answerable,
           Settled \/ Receipted \/ ReconciledSettled \/ ReconciledReceipted
    PROVE  Answerable'
  <1>1. /\ job.status \in {"settling", "receipting", "reconciling"} /\ Remembered
        /\ job.budget \in {"settlement_pending", "receipt_pending"} /\ hist' = hist
    BY DEF Settled, Receipted, ReconciledSettled, ReconciledReceipted, Answered, Inductive,
           Agreement, Intent, Remembered
  <1>2. /\ job'.status = job.status /\ job'.budget \in {"settled", "complete"}
        /\ job'.phase = job.phase /\ job'.done = job.done /\ job'.iteration = job.iteration
        /\ job'.outcome = job.outcome /\ task'.next \in {"receipt", "close"}
        /\ job'.budget = "complete" => task'.next = "close"
    BY Typed DEF Types, JobType, TaskType, Settled, Receipted, ReconciledSettled,
                 ReconciledReceipted, Continue
  <1>3. Gate' /\ Consent'
    BY <1>1, <1>2, Quiet DEF Answerable, WorkPhases
  <1>4. Bearings' /\ Disclosure'
    BY <1>1, <1>2 DEF Answerable, Bearings, Disclosure, Working, WorkPhases, Terminal
  <1> QED BY <1>3, <1>4 DEF Answerable

LEMMA ReconciledReservedAnswers ==
    ASSUME Inductive, Answerable, ReconciledReserved
    PROVE  Answerable'
  <1>1. job.status = "reconciling" /\ ~hist.lost
    BY NothingLost DEF ReconciledReserved, Answered, Answerable
  <1>2. /\ job'.status = job.status /\ job'.budget = "reserved"
        /\ job'.phase = job.phase /\ job'.done = job.done /\ job'.iteration = job.iteration
        /\ job'.outcome = job.outcome /\ task'.next = "abandon"
    BY Typed DEF Types, JobType, TaskType, ReconciledReserved, Continue
  <1>3. ~hist'.lost /\ Remembered
    BY <1>1, Typed DEF Types, HistType, ReconciledReserved, Remembered
  <1>4. Gate' /\ Consent'
    BY <1>1, <1>2, <1>3, Quiet DEF Answerable, WorkPhases
  <1>5. Bearings' /\ Disclosure'
    BY <1>1, <1>2, <1>3 DEF Bearings, Disclosure, Working, WorkPhases
  <1> QED BY <1>4, <1>5 DEF Answerable

LEMMA AccountingResultAnswers ==
    ASSUME Inductive, Answerable, AccountingResult
    PROVE  Answerable'
  <1>1. CASE OutcomeUnknown
    <2>1. job.budget \in Unconfirmed /\ AccountingHold(job.status) /\ hist' = hist
      BY <1>1 DEF OutcomeUnknown, Answered, WritePhases, Inductive, Agreement, Intent, Unconfirmed
    <2> QED BY <2>1, AccountingHoldAnswers DEF Remembered
  <1> QED BY <1>1, PreparingAnswers, AuthorizingAnswers, ReservationAnswers,
             ConfirmationAnswers, ReconciledReservedAnswers DEF AccountingResult

-----------------------------------------------------------------------------
(* Timers and commands *)

(* Nothing the answers are about has moved. *)
LEMMA SameAnswers ==
    ASSUME Answerable, Remembered, hist'.lost = hist.lost, Carried,
           job'.status = job.status, job'.phase = job.phase, job'.resume = job.resume,
           job'.pending.skill = job.pending.skill,
           job'.pending.approved = job.pending.approved,
           task'.up = task.up, task'.next = task.next
    PROVE  Answerable'
  <1>1. NeedsApproval(job'.pending.skill) => NeedsApproval(job.pending.skill)
    OBVIOUS
  <1>2. Consent'
    BY <1>1 DEF Answerable, Consent, Cleared, Remembered, Carried
  <1>3. Gate' /\ Bearings'
    BY DEF Answerable, Gate, Bearings, Remembered, Carried
  <1>4. Disclosure'
    BY DEF Answerable, Disclosure, Carried
  <1> QED BY <1>2, <1>3, <1>4 DEF Answerable

(* The deadline spares the interruptions that hide a lost effect. *)
LEMMA DeadlineFiresAnswers == ASSUME Inductive, Answerable, DeadlineFires PROVE Answerable'
  <1>1. task.up /\ task.next = "none"
    BY DEF DeadlineFires, Listening
  <1>2. CASE UNCHANGED <<job, task, hist>>
    BY <1>2, SameAnswers DEF Remembered, Carried
  <1>3. CASE job.status \in Unfinished /\ Interrupt(job.status) /\ LoseEffect
    <2>1. job.budget \in {"disabled", "reserved"}
      BY <1>3 DEF Inductive, Agreement, Stage, Unfinished, Working, WorkPhases
    <2> QED BY <1>3, <2>1, LosingRemembers, InterruptAnswers
  <1>4. CASE ~DeadlineIgnored /\ Finish("exhausted") /\ UNCHANGED hist
    <2>1. ~(hist.lost /\ job.budget \in {"disabled", "reserved"})
      BY <1>1, <1>4, LostWhileUp DEF Answerable, DeadlineIgnored, UnsafeResume, Unfinished
    <2> QED BY <1>1, <1>4, <2>1, FinishAnswers, TerminalNames DEF Remembered
  <1> QED BY <1>2, <1>3, <1>4 DEF DeadlineFires, Unfinished

LEMMA TimerAnswers == ASSUME Inductive, Answerable, Timer PROVE Answerable'
  <1>1. ASSUME Wake \/ ApprovalExpired
        PROVE  /\ job.status \in {"waiting", "awaiting_approval"} /\ job.phase = "none"
               /\ job.budget \in {"disabled", "reserved"} /\ ~hist.lost /\ hist' = hist
    BY <1>1, NothingLost DEF Wake, ApprovalExpired, Listening, Inductive, Agreement, Stage,
                             Answerable, Bearings, Working
  <1>2. CASE Wake
    BY <1>1, <1>2, AdvanceAnswers DEF Wake, Remembered
  <1>3. CASE ApprovalExpired
    <2>1. /\ job'.status = "paused" /\ job'.phase = job.phase /\ Carried /\ task'.next = "none"
      BY <1>3, Typed DEF Types, JobType, TaskType, ApprovalExpired, Continue, Carried
    <2>2. Gate' /\ Consent'
      BY <1>1, <1>3, <2>1, Quiet DEF Answerable, Carried, Remembered, WorkPhases
    <2>3. Bearings' /\ Disclosure'
      BY <1>1, <1>3, <2>1 DEF Bearings, Disclosure, Carried
    <2> QED BY <2>2, <2>3 DEF Answerable
  <1> QED BY <1>2, <1>3, DeadlineFiresAnswers DEF Timer

LEMMA PauseAnswers == ASSUME Inductive, Answerable, Pause PROVE Answerable'
  <1>1. task.up /\ task.next = "none" /\ hist' = hist /\ Remembered
    BY DEF Pause, Listening, Remembered
  <1>2. CASE job' = [job EXCEPT !.pauseReq = TRUE] /\ UNCHANGED task
    <2>1. /\ job'.status = job.status /\ job'.phase = job.phase /\ job'.resume = job.resume
          /\ job'.pending = job.pending /\ Carried
      BY <1>2, Typed DEF Types, JobType, Carried
    <2> QED BY <1>1, <1>2, <2>1, SameAnswers
  <1>3. ASSUME job.status \notin WorkPhases \cup {"budget_preparing", "budget_authorizing"},
               job' = [job EXCEPT !.status = "paused", !.pending = NoPending],
               Continue("none")
        PROVE  Answerable'
    <2>1. job.status \in Working
      BY <1>1, <1>3, Typed DEF Types, JobType, Pause, Statuses, Inductive, Agreement, Process,
                              Working, ChainPhases, WritePhases
    <2>2. job.phase = "none" /\ job.budget \in {"disabled", "reserved"} /\ ~hist.lost
      BY <1>1, <2>1, NothingLost DEF Inductive, Agreement, Stage, Answerable, Bearings
    <2>3. /\ job'.status = "paused" /\ job'.phase = job.phase /\ Carried /\ task'.next = "none"
      BY <1>3, Typed DEF Types, JobType, TaskType, Continue, Carried
    <2>4. Gate' /\ Consent'
      BY <1>1, <2>3, Quiet DEF Answerable, Carried, WorkPhases
    <2>5. Bearings' /\ Disclosure'
      BY <1>1, <2>2, <2>3 DEF Bearings, Disclosure, Carried
    <2> QED BY <2>4, <2>5 DEF Answerable
  <1> QED BY <1>2, <1>3 DEF Pause

(* Resume takes up only what has nothing to disclose. *)
LEMMA ResumeAnswers == ASSUME Inductive, Answerable, Resume PROVE Answerable'
  <1>1. /\ task.up /\ hist' = hist /\ Remembered
        /\ \/ job.status = "paused"
           \/ job.status = "interrupted" /\ ~UnsafeResume
    BY DEF Resume, Listening, Remembered
  <1>2. job.budget \in {"disabled", "reserved"}
    BY <1>1 DEF Inductive, Agreement, Stage, Working, UnsafeResume
  <1>3. ~hist.lost
    BY <1>1, <1>2, LostWhileUp DEF Answerable, UnsafeResume, Unfinished
  <1>4. /\ job'.status = "ready" /\ job'.phase = "none" /\ Carried /\ task'.next = "plan"
    BY Typed DEF Types, JobType, TaskType, Resume, Continue, Carried
  <1>5. Gate' /\ Consent'
    BY <1>1, <1>4, Quiet DEF Answerable, Carried, WorkPhases
  <1>6. Bearings' /\ Disclosure'
    BY <1>1, <1>2, <1>3, <1>4 DEF Bearings, Disclosure, Carried
  <1> QED BY <1>5, <1>6 DEF Answerable

LEMMA CancelAnswers == ASSUME Inductive, Answerable, Cancel PROVE Answerable'
  <1>1. task.up /\ task.next = "none" /\ Finish(CancelStatus) /\ LoseEffect
    BY DEF Cancel, Listening
  <1>2. CancelStatus \in Terminal /\ CancelStatus # "completed"
    BY DEF CancelStatus, Terminal
  <1>3. job.status \in Unfinished => job.budget \in {"disabled", "reserved"}
    BY DEF Inductive, Agreement, Stage, Unfinished, Working, WorkPhases
  <1>4. Remembered /\ (hist'.lost <=> hist.lost \/ (task.active /\ job.status \in Unfinished))
    BY <1>1, LosingRemembers
  <1>5. hist'.lost /\ job.budget \in {"disabled", "reserved"}
          => CancelStatus = "cancelled_unreconciled"
    BY <1>1, <1>4, LostWhileUp DEF Answerable, CancelStatus, Unfinished
  <1> QED BY <1>1, <1>2, <1>3, <1>4, <1>5, FinishAnswers

LEMMA DecisionAnswers == ASSUME Inductive, Answerable, Approve \/ Reject PROVE Answerable'
  <1>1. /\ job.status = "awaiting_approval" /\ job.phase = "none" /\ task.up
        /\ task.next = "none" /\ job.budget \in {"disabled", "reserved"} /\ ~hist.lost
    BY NothingLost DEF Approve, Reject, Listening, Inductive, Agreement, Stage, Answerable,
                       Bearings, Working
  <1>2. CASE Reject
    BY <1>1, <1>2, FinishAnswers, TerminalNames DEF Reject, Remembered
  <1>3. CASE Approve
    <2>1. /\ job'.status = "ready" /\ job'.phase = job.phase /\ Carried
          /\ task'.next = "execute"
      BY <1>3, Typed DEF Types, JobType, TaskType, Approve, Continue, Carried
    <2>2. /\ hist'.granted = hist.granted \cup {job.iteration} /\ ~hist'.lost
          /\ hist'.ran = hist.ran /\ hist'.verified = hist.verified
      BY <1>1, <1>3, Typed DEF Types, HistType, Approve
    <2>3. Consent'
      BY <1>1, <2>1, <2>2 DEF Answerable, Consent, Cleared, Carried
    <2>4. Gate' /\ Bearings' /\ Disclosure'
      BY <1>1, <2>1, <2>2 DEF Answerable, Gate, Bearings, Disclosure, Carried
    <2> QED BY <2>3, <2>4 DEF Answerable
  <1> QED BY <1>2, <1>3

LEMMA ReconcileAnswers == ASSUME Inductive, Answerable, Reconcile PROVE Answerable'
  <1>1. job.budget \in Unconfirmed /\ hist' = hist /\ Remembered
    BY DEF Reconcile, Remembered
  <1>2. job'.status = "reconciling" /\ Carried /\ task'.next = "none"
    BY Typed DEF Types, JobType, TaskType, Reconcile, RunOperation, Carried
  <1>3. Gate' /\ Consent'
    BY <1>1, <1>2, Quiet DEF Answerable, Carried, WorkPhases
  <1>4. Bearings' /\ Disclosure'
    BY <1>1, <1>2 DEF Answerable, Bearings, Disclosure, Carried, Unconfirmed, Working,
                      WorkPhases, Terminal
  <1> QED BY <1>3, <1>4 DEF Answerable

LEMMA CommandAnswers == ASSUME Inductive, Answerable, Command PROVE Answerable'
  BY PauseAnswers, ResumeAnswers, CancelAnswers, DecisionAnswers, ReconcileAnswers DEF Command

-----------------------------------------------------------------------------
(* The coordinator, faults, the chain and the world *)

(* Without a worker, the record is at rest. *)
LEMMA LostWhileDown ==
    ASSUME Inductive, Disclosure, hist.lost, ~task.up, job.status \notin Terminal
    PROVE  \/ /\ job.budget \in {"disabled", "reserved"} /\ job.status \in Unfinished
           \/ /\ job.budget \in {"disabled", "reserved"}
              /\ job.status = "interrupted" /\ job.phase \in Unfinished
           \/ /\ job.budget \in {"settlement_pending", "settled", "receipt_pending", "complete"}
              /\ job.outcome = "cancelled_unreconciled"
  BY DEF Disclosure, Terminal

LEMMA LaunchAnswers == ASSUME Inductive, Answerable, Launch PROVE Answerable'
  <1>1. /\ ~task.up /\ task.next = "none" /\ job.status \notin Terminal
        /\ hist' = hist /\ Remembered /\ task'.next = FirstStep
        /\ coord = "launch" => /\ job.status = "queued"
                               /\ job.budget \in {"disabled", "unprepared"}
    BY NoWorkerFields DEF Launch, Inductive, Agreement, Process, Stage, NoWorker, Remembered
  <1>2. FirstStep \in {"boot", "receipt", "close", "none"}
    BY DEF FirstStep
  <1>3. /\ Carried
        /\ \/ /\ coord = "launch" \/ job.status \in {"paused", "interrupted"}
              /\ job'.status = job.status /\ job'.phase = job.phase
           \/ /\ coord # "launch" /\ job.status \notin {"paused", "interrupted"}
              /\ job'.status = "interrupted" /\ job'.phase = job.status
    BY Typed DEF Types, JobType, Launch, Carried
  <1>4. job'.status \in {"queued", "paused", "interrupted"}
    BY <1>1, <1>3
  <1>5. Gate' /\ Consent'
    BY <1>1, <1>2, <1>3, <1>4, Quiet DEF Answerable, Carried, WorkPhases
  <1>6. Bearings'
    <2>1. job'.budget = "complete" => FirstStep = "close"
      BY <1>1, <1>3 DEF FirstStep, Carried
    <2>2. job'.status \in {"queued", "paused"} => job'.phase = "none"
      BY <1>1, <1>3 DEF Answerable, Bearings, Working
    <2> QED BY <1>1, <1>2, <1>4, <2>1, <2>2 DEF Bearings, Working, WorkPhases
  <1>7. Disclosure'
    <2> SUFFICES ASSUME hist.lost PROVE Disclosure'
      BY <1>1 DEF Disclosure
    <2>1. coord # "launch"
      BY <1>1, LostWhileDown DEF Answerable, Unfinished
    <2>2. job.budget \in {"disabled", "reserved"} => FirstStep = "none"
      BY <2>1 DEF FirstStep
    <2>3. job'.status \notin Terminal /\ job'.budget = job.budget /\ job'.outcome = job.outcome
      BY <1>3, <1>4 DEF Carried, Terminal
    <2>4. CASE job.budget \in {"disabled", "reserved"}
      <3>1. \/ job.status \in Unfinished
            \/ job.status = "interrupted" /\ job.phase \in Unfinished
        BY <1>1, <2>4, LostWhileDown DEF Answerable
      <3>2. job'.status = "interrupted" /\ job'.phase \in Unfinished
        BY <1>3, <2>1, <3>1 DEF Unfinished
      <3>3. job'.budget \in {"disabled", "reserved"} /\ task'.next = "none"
        BY <1>1, <2>2, <2>3, <2>4
      <3> QED BY <3>2, <3>3 DEF Disclosure
    <2>5. CASE job.budget \notin {"disabled", "reserved"}
      BY <1>1, <2>3, <2>5, LostWhileDown DEF Answerable, Disclosure
    <2> QED BY <2>4, <2>5
  <1> QED BY <1>5, <1>6, <1>7 DEF Answerable

LEMMA LaunchFailedAnswers == ASSUME Inductive, Answerable, LaunchFailed PROVE Answerable'
  <1>1. /\ ~task.up /\ task.next = "none" /\ job.status \notin Terminal
        /\ hist' = hist /\ task' = task /\ Remembered
    BY DEF LaunchFailed, Inductive, Agreement, Process, Remembered
  <1>2. /\ Carried
        /\ job'.status = IF job.budget \in {"disabled", "unprepared", "unreserved"}
                         THEN "failed" ELSE "interrupted"
        /\ job'.phase = IF job.phase = "none" THEN job.status ELSE job.phase
    BY Typed DEF Types, JobType, LaunchFailed, Carried
  <1>3. Gate' /\ Consent'
    BY <1>1, <1>2, Quiet DEF Answerable, Carried, WorkPhases
  <1>4. Bearings'
    BY <1>1, <1>2 DEF Bearings, Working, WorkPhases
  <1>5. Disclosure'
    <2> SUFFICES ASSUME hist.lost PROVE Disclosure'
      BY <1>1 DEF Disclosure
    <2>1. job.status \in Unfinished => job.phase = "none"
      BY DEF Answerable, Bearings, Unfinished, Working, WorkPhases
    <2>2. job.budget = "disabled" => ~Metered
      BY DEF Inductive, Agreement, Stage
    <2> QED BY <1>1, <1>2, <2>1, <2>2, LostWhileDown
            DEF Answerable, Disclosure, Unfinished, Carried, Terminal
  <1> QED BY <1>3, <1>4, <1>5 DEF Answerable

LEMMA HandleDownAnswers == ASSUME Inductive, Answerable, HandleDown PROVE Answerable'
  <1>1. /\ ~task.up /\ task.next = "none" /\ job.status \notin Terminal
        /\ hist' = hist /\ task' = task /\ Remembered
    BY DEF HandleDown, Inductive, Agreement, Process, Remembered
  <1>2. /\ Carried /\ job'.status = "interrupted"
        /\ job'.phase = IF job.phase = "none" THEN job.status ELSE job.phase
    BY Typed DEF Types, JobType, HandleDown, Carried
  <1>3. Gate' /\ Consent'
    BY <1>1, <1>2, Quiet DEF Answerable, Carried, WorkPhases
  <1>4. Bearings'
    BY <1>1, <1>2 DEF Bearings, Working, WorkPhases
  <1>5. Disclosure'
    <2> SUFFICES ASSUME hist.lost PROVE Disclosure'
      BY <1>1 DEF Disclosure
    <2>1. job.status \in Unfinished => job.phase = "none"
      BY DEF Answerable, Bearings, Unfinished, Working, WorkPhases
    <2> QED BY <1>1, <1>2, <2>1, LostWhileDown
            DEF Answerable, Disclosure, Unfinished, Carried, Terminal
  <1> QED BY <1>3, <1>4, <1>5 DEF Answerable

(* The process disappears between two checkpoints: what it was doing is the *)
(* status of the record, and the rest of its handler is forgotten.          *)
LEMMA FaultAnswers == ASSUME Inductive, Answerable, Fault PROVE Answerable'
  <1>1. /\ job' = job /\ ~task'.up /\ task'.next = "none" /\ LoseEffect
        /\ job.status \notin Terminal
    BY NoWorkerFields DEF Fault, WorkerExits, ServiceRestarts, Inductive, Agreement, Process
  <1>2. Remembered /\ (hist'.lost <=> hist.lost \/ (task.active /\ job.status \in Unfinished))
    BY <1>1, LosingRemembers
  <1>3. Gate' /\ Consent'
    BY <1>1, <1>2 DEF Answerable, Gate, Consent, Cleared, Remembered
  <1>4. Bearings'
    BY <1>1 DEF Answerable, Bearings
  <1>5. Disclosure'
    <2>1. job.status \in Unfinished => job.budget \in {"disabled", "reserved"}
      BY DEF Inductive, Agreement, Stage, Unfinished, Working, WorkPhases
    <2>2. CASE hist.lost
      BY <1>1, <2>2 DEF Answerable, Disclosure
    <2>3. CASE ~hist.lost
      BY <1>1, <1>2, <2>1, <2>3 DEF Disclosure
    <2> QED BY <2>2, <2>3
  <1> QED BY <1>3, <1>4, <1>5 DEF Answerable

LEMMA ChainAnswers == ASSUME Inductive, Answerable, Chain PROVE Answerable'
  <1>1. job' = job /\ hist' = hist /\ task'.up = task.up /\ task'.next = task.next
    BY Typed DEF Types, TaskType, Chain, Submit, TxEnds
  <1> QED BY <1>1, SameAnswers DEF Remembered, Carried

LEMMA WorldAnswers == ASSUME Inductive, Answerable, World PROVE Answerable'
  <1>1. CASE DeadlinePasses \/ PolicyChanges
    BY <1>1, SameAnswers DEF DeadlinePasses, PolicyChanges, Remembered, Carried
  <1>2. CASE ApprovalLapses
    <2>1. /\ job'.status = job.status /\ job'.phase = job.phase /\ job'.resume = job.resume
          /\ job'.pending.skill = job.pending.skill
          /\ job'.pending.approved = job.pending.approved /\ Carried
      BY <1>2, Typed DEF Types, JobType, ApprovalLapses, Carried
    <2> QED BY <1>2, <2>1, SameAnswers DEF ApprovalLapses, Remembered
  <1> QED BY <1>1, <1>2 DEF World

-----------------------------------------------------------------------------
(* The theorems *)

LEMMA InitAnswerable == Init => Answerable
  BY DEF Init, Answerable, Bearings, Gate, Disclosure, Consent, Cleared, NoWorker, NoPending

LEMMA InternalAnswers == ASSUME Inductive, Answerable, Internal PROVE Answerable'
  BY BootAnswers, PlanAnswers, ExecuteAnswers, OperateAnswers, SpawnAnswers, ProceedAnswers
     DEF Internal

LEMMA StepAnswers == Inductive /\ Answerable /\ [Next]_vars => Answerable'
  <1> SUFFICES ASSUME Inductive, Answerable, [Next]_vars PROVE Answerable'
    OBVIOUS
  <1>1. CASE UNCHANGED vars
    BY <1>1, SameAnswers DEF vars, Remembered, Carried
  <1>2. CASE Coordinate
    BY <1>2, LaunchAnswers, LaunchFailedAnswers, HandleDownAnswers DEF Coordinate
  <1> QED BY <1>1, <1>2, InternalAnswers, WorkResultAnswers, AccountingResultAnswers,
             TimerAnswers, CommandAnswers, FaultAnswers, ChainAnswers, WorldAnswers DEF Next

(* The record answers for what happened, whatever crashes in between.       *)
THEOREM AlwaysAnswerable == Spec => []Answerable
  BY InitAnswerable, StepAnswers, AlwaysInductive, PTL DEF Spec

(* A task is reported completed, and its receipt drafted as passed, only    *)
(* with evidence of every required action and a passed acceptance gate.     *)
THEOREM CompletionIsEarned == Spec => []CompletedIsVerified
  <1>1. Answerable => CompletedIsVerified
    BY DEF Answerable, Gate, CompletedIsVerified
  <1> QED BY <1>1, AlwaysAnswerable, PTL

(* Only Spawn invokes anything. *)
LEMMA OnlySpawnCalls ==
    ASSUME Inductive, [Next]_vars, ~Spawn
    PROVE  hist'.calls = hist.calls
  <1>1. hist \in HistType
    BY Typed DEF Types
  <1>2. LoseEffect => hist'.calls = hist.calls
    BY <1>1 DEF HistType, LoseEffect
  <1>3. CASE UNCHANGED vars
    BY <1>3 DEF vars
  <1>4. CASE Internal
    BY <1>4 DEF Internal, Boot, Plan, Execute, Operate, Proceed
  <1>5. CASE WorkResult
    BY <1>1, <1>2, <1>5 DEF WorkResult, PlanRejected, PlanParked, ProposeWait, ProposeFinish,
       ProposeAct, ActionSucceeded, ActionFailed, VerificationPassed, VerificationFailed,
       WorkInterrupted, HistType
  <1>6. CASE AccountingResult
    BY <1>1, <1>6 DEF AccountingResult, Prepared, PreparationFailed, Reserved, NotReserved,
       Authorized, AuthorizationFailed, Settled, Receipted, OutcomeUnknown,
       ReconciledReserved, ReconciledSettled, ReconciledReceipted, HistType
  <1>7. CASE Timer \/ Command
    BY <1>1, <1>2, <1>7 DEF Timer, DeadlineFires, Wake, ApprovalExpired, Command, Pause,
       Resume, Cancel, Approve, Reject, Reconcile, HistType
  <1>8. CASE Coordinate \/ Fault \/ World \/ Chain
    BY <1>2, <1>8 DEF Coordinate, Launch, LaunchFailed, HandleDown, Fault, WorkerExits,
       ServiceRestarts, World, DeadlinePasses, PolicyChanges, ApprovalLapses, Chain, Submit,
       TxEnds
  <1> QED BY <1>3, <1>4, <1>5, <1>6, <1>7, <1>8 DEF Next

(* Each proposal runs at most once, and only with the approval it needs:    *)
(* no crash, recovery or lapse between the approval and the dispatch        *)
(* gives it a second run.                                                   *)
THEOREM ProposalsRunOnce == Spec => ProposalRunsOnce
  <1>1. Inductive /\ Answerable /\ [Next]_vars
          => [job.status = "executing" /\ hist'.calls # hist.calls
                => /\ job.iteration \notin hist.ran
                   /\ NeedsApproval(job.pending.skill) => job.iteration \in hist.granted]_vars
    <2> SUFFICES ASSUME Inductive, Answerable, Next, job.status = "executing",
                        hist'.calls # hist.calls
                 PROVE  /\ job.iteration \notin hist.ran
                        /\ NeedsApproval(job.pending.skill) => job.iteration \in hist.granted
      OBVIOUS
    <2>1. Spawn
      BY OnlySpawnCalls
    <2>2. Cleared
      BY <2>1 DEF Spawn, Cleared
    <2> QED BY <2>2 DEF Answerable, Consent
  <1> QED BY <1>1, AlwaysInductive, AlwaysAnswerable, PTL DEF Spec, ProposalRunsOnce

(* Whatever ends a task after an effect of unknown outcome says so.         *)
THEOREM LossesAreDisclosed == Spec => []LostEffectIsDisclosed
  <1>1. Answerable => LostEffectIsDisclosed
    BY DEF Answerable, Disclosure, Unfinished, Terminal, LostEffectIsDisclosed
  <1> QED BY <1>1, AlwaysAnswerable, PTL

(* After an effect of unknown outcome nothing is ever invoked again, and    *)
(* the state that ends the task discloses it.                               *)
THEOREM LostEffectsAreFinal == Spec => LostEffectIsFinal
  <1>1. Inductive /\ Answerable /\ [Next]_vars => (hist.lost => hist'.calls = hist.calls)
    <2> SUFFICES ASSUME Inductive, Answerable, [Next]_vars, hist.lost
                 PROVE  hist'.calls = hist.calls
      OBVIOUS
    <2>1. ASSUME Spawn PROVE FALSE
      <3>1. task.up /\ job.status \in WorkPhases
        BY <2>1 DEF Spawn, Inductive, Agreement, Continuation
      <3> QED BY <3>1, NothingLost DEF Answerable, Working
    <2> QED BY <2>1, OnlySpawnCalls
  <1>2. Inductive /\ Answerable /\ LostEffectIsDisclosed' /\ [Next]_vars
          => [/\ hist.lost => hist'.calls = hist.calls
              /\ LostEffectIsDisclosed']_vars
    BY <1>1
  <1> QED BY <1>2, AlwaysInductive, AlwaysAnswerable, LossesAreDisclosed, PTL
          DEF Spec, LostEffectIsFinal
=============================================================================
