----------------------------- MODULE AgentTask -----------------------------
(***************************************************************************)
(* One supervised agent task with its Aeternity accounting: the gen_statem  *)
(* of damage_agent_task.erl, the part of the coordinator (damage_agent.erl) *)
(* that launches it and picks up the pieces, and the chain adapter          *)
(* (damage_agent_chain.erl) with the contracts it writes to.                *)
(*                                                                          *)
(* GRAIN.  Every handler of the state machine writes one or more durable    *)
(* checkpoints (checkpoint/3, a synchronous write to the task store) and a  *)
(* crash can fall between any two of them.  A step of this module is the    *)
(* code from one checkpoint to the next.  The rest of the handler is kept   *)
(* in task.next and nothing else of the task may happen before it: mailbox  *)
(* events require task.next = "none" (Listening).  Only a crash, and the    *)
(* world outside the process, can come in between.  task.next also holds    *)
(* the gen_statem's own internal events (boot, plan, execute,               *)
(* recover_accounting), which likewise precede any mailbox event.           *)
(*                                                                          *)
(* The state-machine state and the job map in the process are always those  *)
(* of the last checkpoint, so one record, job, stands for both.             *)
(***************************************************************************)
EXTENDS AgentPolicy

CONSTANTS
    MaxRestarts,     \* bound: restarts of the service (node or one_for_all)
    MaxWorkerExits   \* bound: unexpected exits of the task process alone

ASSUME BoundAssumption == MaxRestarts \in Nat /\ MaxWorkerExits \in Nat

VARIABLES
    job,     \* the durable checkpoint
    task,    \* the task process and the operation it supervises
    coord,   \* what the coordinator is doing about this task
    env,     \* clock, deadline timer and operator configuration
    chain,   \* the three contract mutations of the job
    hist     \* history: what really happened, to state properties about

vars == <<job, task, coord, env, chain, hist>>

-----------------------------------------------------------------------------
(* The values of the state *)

Mutations == {"reserve", "settle", "receipt"}

ChainPhases == {"budget_preparing", "budget_reserving", "budget_authorizing",
                "settling", "receipting", "reconciling"}
(* States in which a mutation of the chain (or its verdict) is in flight. *)
WritePhases == {"budget_reserving", "settling", "receipting", "reconciling"}

Statuses == {"queued", "ready", "waiting", "awaiting_approval", "paused",
             "interrupted", "accounting_pending"}
            \cup WorkPhases \cup ChainPhases \cup Terminal

BudgetStatuses == {"disabled", "unprepared", "reservation_pending", "unreserved",
                   "reserved", "settlement_pending", "settled",
                   "receipt_pending", "complete"}
(* Budgets whose last mutation has an unknown outcome. *)
Unconfirmed == {"reservation_pending", "settlement_pending", "receipt_pending"}

Continuations == {"none", "boot", "plan", "ask", "execute", "operate", "spawn", "advance",
                  "park", "fail", "complete", "abandon", "receipt", "close"}

NoPending == [skill |-> NoSkill, approved |-> FALSE, expired |-> FALSE]

JobType ==
    [status     : Statuses,
     phase      : Statuses \cup {"none"},     \* interrupted_phase
     budget     : BudgetStatuses,
     spent      : Nat,                        \* spent_units
     iteration  : 0 .. MaxIterations,         \* and llm_calls
     pending    : [skill : Skills \cup {NoSkill}, approved : BOOLEAN, expired : BOOLEAN],
     done       : SUBSET Skills,              \* completed_skills
     readFails  : Nat,
     verifyFails: Nat,
     noProgress : Nat,
     pauseReq   : BOOLEAN,
     resume     : WorkPhases \cup {"none"},   \* accounting_resume_phase
     outcome    : Terminal \cup {"none"},     \* execution_status
     receipt    : Nat]                        \* cost in the receipt draft

TaskType == [up : BOOLEAN, active : BOOLEAN, sent : BOOLEAN, next : Continuations]

EnvType == [late : BOOLEAN, policy : BOOLEAN, alarm : BOOLEAN,
            restarts : 0 .. MaxRestarts, exits : 0 .. MaxWorkerExits]

ChainType == [tx     : [Mutations -> {"none", "pending", "landed", "dropped"}],
              sent   : [Mutations -> Nat],
              amount : [Mutations -> Nat]]

HistType == [calls : Nat, usage : Nat, ran : SUBSET Nat, granted : SUBSET Nat,
             lost : BOOLEAN, adopted : BOOLEAN, verified : BOOLEAN]

TypeOK ==
    /\ job \in JobType
    /\ task \in TaskType
    /\ coord \in {"launch", "relaunch", "down", "idle"}
    /\ env \in EnvType
    /\ chain \in ChainType
    /\ hist \in HistType

-----------------------------------------------------------------------------
(* A task that damage_agent:handle_call({start, ..}) has just created. *)

NoWorker == [up |-> FALSE, active |-> FALSE, sent |-> FALSE, next |-> "none"]

Init ==
    /\ job = [status |-> "queued", phase |-> "none",
              budget |-> IF Metered THEN "unprepared" ELSE "disabled",
              spent |-> 0, iteration |-> 0, pending |-> NoPending, done |-> {},
              readFails |-> 0, verifyFails |-> 0, noProgress |-> 0,
              pauseReq |-> FALSE, resume |-> "none", outcome |-> "none",
              receipt |-> 0]
    /\ task = NoWorker
    /\ coord = "launch"
    /\ env = [late |-> FALSE, policy |-> TRUE, alarm |-> FALSE, restarts |-> 0, exits |-> 0]
    /\ chain = [tx     |-> [m \in Mutations |-> "none"],
                sent   |-> [m \in Mutations |-> 0],
                amount |-> [m \in Mutations |-> 0]]
    /\ hist = [calls |-> 0, usage |-> 0, ran |-> {}, granted |-> {},
               lost |-> FALSE, adopted |-> FALSE, verified |-> FALSE]

-----------------------------------------------------------------------------
(* Conditions the handlers test *)

(* profile/1 answers {ok, _}: deadline not reached, same reviewed template. *)
Profile == ~env.late /\ env.policy

Listening == task.up /\ task.next = "none"

UnsafeResumeAfterEffect ==   \* Mutant: interrupted work is not a reason
    \/ job.phase \in WritePhases
    \/ Metered /\ job.budget # "reserved"

UnsafeResume ==
    \/ job.phase \in {"executing", "verifying"} \cup WritePhases
    \/ Metered /\ job.budget # "reserved"

(* dispatch_allowed/3 and the test in execute_pending/1. *)
DispatchAllowed(workPhase) ==
    workPhase = "executing" /\ NeedsApproval(job.pending.skill)
        => job.pending.approved /\ ~job.pending.expired

-----------------------------------------------------------------------------
(* What the process does between checkpoints *)

(* raw_operation/4: spawn the linked worker of the current state. *)
RunOperation == task' = [task EXCEPT !.active = TRUE, !.sent = FALSE, !.next = "none"]
(* clear_operation/1, or an operation that has answered; then go on with n. *)
Continue(n)  == task' = [task EXCEPT !.active = FALSE, !.sent = FALSE, !.next = n]

(* An action or verifier whose worker is killed or answers nothing usable   *)
(* may or may not have had its effect.                                      *)
LoseEffect ==
    hist' = [hist EXCEPT !.lost = @ \/ (task.active /\ job.status \in {"executing", "verifying"})]

Park ==
    /\ job' = [job EXCEPT !.status = "paused", !.pending = NoPending, !.pauseReq = FALSE]
    /\ Continue("none")

Advance ==
    \/ job.pauseReq /\ Park
    \/ /\ ~job.pauseReq
       /\ job' = [job EXCEPT !.status = "ready", !.pending = NoPending]
       /\ Continue("plan")

Interrupt(phase) ==
    /\ job' = [job EXCEPT !.status = "interrupted", !.phase = phase]
    /\ Continue("none")

AccountingHold(phase) ==
    /\ job' = [job EXCEPT !.status = "accounting_pending", !.phase = phase]
    /\ Continue("none")

(* {stop, normal}: the worker is gone; the coordinator's DOWN handler finds *)
(* a terminal record and forgets it.                                        *)
TerminalFinish(s) ==
    /\ job' = [job EXCEPT !.status = s]
    /\ task' = NoWorker

StartReceipt ==
    /\ job' = [job EXCEPT !.status = "receipting", !.budget = "receipt_pending"]
    /\ RunOperation

(* finish/3 and budget_finish/3.  (FinishForgets.. and FinishRedrafts are   *)
(* the mistakes the properties are tried against, as are the operators      *)
(* marked "Mutant" below.)                                                  *)
FinishForgetsOutcome(s) ==   \* Mutant: execution_status is not recorded
    \/ job.budget \in {"disabled", "unprepared", "unreserved", "complete"} /\ TerminalFinish(s)
    \/ /\ job.budget = "reserved"
       /\ job' = [job EXCEPT !.status = "settling", !.budget = "settlement_pending",
                             !.receipt = job.spent]
       /\ RunOperation
    \/ job.budget = "settled" /\ StartReceipt
    \/ job.budget \in Unconfirmed /\ AccountingHold(job.status)

FinishRedrafts(s) ==         \* Mutant: a second finish drafts the receipt again
    \/ job.budget \in {"disabled", "unprepared", "unreserved", "complete"} /\ TerminalFinish(s)
    \/ /\ job.budget \in {"reserved", "settlement_pending"}
       /\ job' = [job EXCEPT !.status = "settling", !.budget = "settlement_pending",
                             !.outcome = s, !.receipt = job.spent]
       /\ RunOperation
    \/ job.budget = "settled" /\ StartReceipt
    \/ job.budget \in {"reservation_pending", "receipt_pending"} /\ AccountingHold(job.status)

Finish(s) ==
    \/ /\ job.budget \in {"disabled", "unprepared", "unreserved", "complete"}
       /\ TerminalFinish(s)
    \/ /\ job.budget = "reserved"
       /\ job' = [job EXCEPT !.status = "settling", !.budget = "settlement_pending",
                             !.outcome = s, !.receipt = job.spent]
       /\ RunOperation
    \/ job.budget = "settled" /\ StartReceipt
    \/ job.budget \in Unconfirmed /\ AccountingHold(job.status)

-----------------------------------------------------------------------------
(* Internal events and the rest of handlers: task.next *)

Boot ==
    /\ task.up /\ task.next = "boot"
    /\ \/ ~Metered /\ Advance
       \/ /\ Metered
          /\ job' = [job EXCEPT !.status = "budget_preparing"]
          /\ RunOperation
    /\ UNCHANGED <<coord, env, chain, hist>>

Plan ==
    /\ task.up /\ task.next = "plan"
    /\ \/ ~Profile /\ Finish("failed")
       \/ Profile /\ job.iteration >= MaxIterations /\ Finish("exhausted")
       \/ /\ Profile /\ job.iteration < MaxIterations
          /\ job' = [job EXCEPT !.status = "planning", !.pending = NoPending,
                                !.iteration = @ + 1]
          /\ task' = [task EXCEPT !.next = "operate"]
    /\ UNCHANGED <<coord, env, chain, hist>>

(* execute_pending/1, after an approval or a proposal that needs none. *)
Execute ==
    /\ task.up /\ task.next = "execute"
    /\ \/ ~(Profile /\ DispatchAllowed("executing")) /\ Finish("failed")
       \/ /\ Profile /\ DispatchAllowed("executing")
          /\ job' = [job EXCEPT !.status = "executing"]
          /\ task' = [task EXCEPT !.next = "operate"]
    /\ UNCHANGED <<coord, env, chain, hist>>

(* operation/4 of a metered task: price the invocation, ask the contract. *)
Operate ==
    /\ task.up /\ task.next = "operate" /\ Metered
    /\ LET units == Rate(job.status, job.pending.skill) IN
       \/ ~Affordable(job.budget, job.spent, units) /\ Finish("exhausted")
       \/ /\ Affordable(job.budget, job.spent, units)
          /\ job' = [job EXCEPT !.status = "budget_authorizing", !.resume = job.status]
          /\ RunOperation
    /\ UNCHANGED <<coord, env, chain, hist>>

(* The planner, action or verifier is really invoked. *)
Spawn ==
    /\ task.up
    /\ task.next = "spawn" \/ (task.next = "operate" /\ ~Metered)
    /\ RunOperation
    /\ hist' = [hist EXCEPT
           !.calls = @ + 1,
           !.usage = @ + Rate(job.status, job.pending.skill),
           !.ran = IF job.status = "executing" THEN @ \cup {job.iteration} ELSE @,
           !.granted = IF job.status = "executing" THEN @ \ {job.iteration} ELSE @]
    /\ UNCHANGED <<job, coord, env, chain>>

(* The second checkpoint of a proposal that waits for its owner. *)
Ask ==
    /\ job' = [job EXCEPT !.status = "awaiting_approval"]
    /\ Continue("none")

(* The tails of handlers that follow their first checkpoint. *)
Proceed ==
    /\ task.up
    /\ \/ task.next = "ask"      /\ Ask
       \/ task.next = "advance"  /\ Advance
       \/ task.next = "park"     /\ Park
       \/ task.next = "fail"     /\ Finish("failed")
       \/ task.next = "complete" /\ Finish("completed")
       \/ task.next = "abandon"  /\ Finish("cancelled")
       \/ task.next = "receipt"  /\ StartReceipt
       \/ task.next = "close"    /\ TerminalFinish(job.outcome)
    /\ UNCHANGED <<coord, env, chain, hist>>

-----------------------------------------------------------------------------
(* Results of the planner, of actions and of the verifier.  Each is looked  *)
(* at only under an unchanged profile.                                      *)

Answered(status) == task.up /\ task.active /\ job.status = status

(* The planner fails, or proposes something validate_plan/2 forbids. *)
PlanRejected ==
    /\ Answered("planning")
    /\ Finish("failed")
    /\ UNCHANGED <<coord, env, chain, hist>>

PlanParked ==
    /\ Answered("planning") /\ Profile /\ job.pauseReq
    /\ Park
    /\ UNCHANGED <<coord, env, chain, hist>>

ProposeWait ==
    /\ Answered("planning") /\ Profile /\ ~job.pauseReq
    /\ job' = [job EXCEPT !.status = "waiting"]
    /\ Continue("none")
    /\ UNCHANGED <<coord, env, chain, hist>>

ProposeFinishUnchecked ==    \* Mutant: required actions are not checked
    /\ Answered("planning") /\ Profile /\ ~job.pauseReq
    /\ job' = [job EXCEPT !.status = "verifying"]
    /\ Continue("operate")
    /\ UNCHANGED <<coord, env, chain, hist>>

ProposeFinish ==
    /\ Answered("planning") /\ Profile /\ ~job.pauseReq
    /\ \/ ~(RequiredActions \subseteq job.done) /\ Finish("failed")
       \/ /\ RequiredActions \subseteq job.done
          /\ job' = [job EXCEPT !.status = "verifying"]
          /\ Continue("operate")
    /\ UNCHANGED <<coord, env, chain, hist>>

ProposeAct(skill) ==
    /\ Answered("planning") /\ Profile /\ ~job.pauseReq
    /\ \/ ~(Requires[skill] \subseteq job.done) /\ Finish("failed")
       \/ /\ Requires[skill] \subseteq job.done
          /\ job' = [job EXCEPT !.pending =
                         [skill |-> skill, approved |-> FALSE, expired |-> FALSE]]
          /\ Continue(IF NeedsApproval(skill) THEN "ask" ELSE "execute")
    /\ UNCHANGED <<coord, env, chain, hist>>

(* Evidence accepted.  "same": it hashes like the previous action's. *)
ActionSucceeded(same) ==
    /\ Answered("executing") /\ Profile
    /\ same => job.done # {}
    /\ LET stalled == IF same THEN job.noProgress + 1 ELSE 0 IN
       /\ job' = [job EXCEPT !.done = @ \cup {job.pending.skill}, !.noProgress = stalled]
       /\ Continue(IF stalled >= MaxNoProgress THEN "park" ELSE "advance")
    /\ UNCHANGED <<coord, env, chain, hist>>

ActionFailedRetries ==       \* Mutant: a failed read is simply run again
    /\ Answered("executing") /\ Profile
    /\ Effect[job.pending.skill] = "read"
    /\ job' = [job EXCEPT !.readFails = @ + 1]
    /\ Continue(IF job.readFails + 1 >= MaxReadFailures THEN "fail" ELSE "operate")
    /\ UNCHANGED <<coord, env, chain, hist>>

(* An adapter's {error, _}: what it means depends on the declared effect. *)
ActionFailed ==
    /\ Answered("executing") /\ Profile
    /\ \/ /\ Effect[job.pending.skill] = "read"
          /\ job' = [job EXCEPT !.readFails = @ + 1]
          /\ Continue(IF job.readFails + 1 >= MaxReadFailures THEN "fail" ELSE "advance")
          /\ UNCHANGED hist
       \/ /\ Effect[job.pending.skill] = "local_artifact"
          /\ Finish("failed")
          /\ UNCHANGED hist
       \/ /\ Effect[job.pending.skill] \in {"isolated_write", "external_write"}
          /\ Interrupt("executing")
          /\ LoseEffect
    /\ UNCHANGED <<coord, env, chain>>

VerificationPassed ==
    /\ Answered("verifying") /\ Profile
    /\ UNCHANGED job
    /\ Continue("complete")
    /\ hist' = [hist EXCEPT !.verified = TRUE]
    /\ UNCHANGED <<coord, env, chain>>

VerificationFailed ==
    /\ Answered("verifying") /\ Profile
    /\ job' = [job EXCEPT !.verifyFails = @ + 1]
    /\ Continue(IF job.verifyFails + 1 >= MaxVerificationFailures THEN "fail" ELSE "advance")
    /\ UNCHANGED <<coord, env, chain, hist>>

(* An action or verifier whose result cannot be used: its worker died or    *)
(* timed out, the evidence was refused, or the profile no longer holds.     *)
WorkInterrupted ==
    /\ Answered("executing") \/ Answered("verifying")
    /\ Interrupt(job.status)
    /\ LoseEffect
    /\ UNCHANGED <<coord, env, chain>>

-----------------------------------------------------------------------------
(* Results of the accounting backend: accounting_result/3. *)

Prepared ==
    /\ Answered("budget_preparing")
    /\ \/ ~Profile /\ Finish("failed")
       \/ /\ Profile
          /\ job' = [job EXCEPT !.status = "budget_reserving",
                                !.budget = "reservation_pending"]
          /\ RunOperation
    /\ UNCHANGED <<coord, env, chain, hist>>

(* Refused, unusable, crashed or timed out: nothing was written anywhere. *)
PreparationFailed ==
    /\ Answered("budget_preparing")
    /\ Finish("failed")
    /\ UNCHANGED <<coord, env, chain, hist>>

ReservedOnSubmission ==      \* Mutant: submission is taken for inclusion
    /\ Answered("budget_reserving") /\ task.sent
    /\ job' = [job EXCEPT !.budget = "reserved"]
    /\ Continue("advance")
    /\ UNCHANGED <<coord, env, chain, hist>>

Reserved ==
    /\ Answered("budget_reserving") /\ task.sent /\ chain.tx["reserve"] = "landed"
    /\ job' = [job EXCEPT !.budget = "reserved"]
    /\ Continue("advance")
    /\ UNCHANGED <<coord, env, chain, hist>>

NotReservedOnAnyError ==     \* Mutant: an unknown outcome is taken for a refusal
    /\ Answered("budget_reserving")
    /\ job' = [job EXCEPT !.budget = "unreserved"]
    /\ Continue("fail")
    /\ UNCHANGED <<coord, env, chain, hist>>

(* reservation_not_submitted, signer_busy_not_submitted. *)
NotReserved ==
    /\ Answered("budget_reserving") /\ ~task.sent
    /\ job' = [job EXCEPT !.budget = "unreserved"]
    /\ Continue("fail")
    /\ UNCHANGED <<coord, env, chain, hist>>

(* The policy contract admits the invocation: recheck everything local that *)
(* may have changed during the call, book the tariff, and only then go on   *)
(* to the invocation itself.                                                *)
Authorized ==
    /\ Answered("budget_authorizing")
    /\ \/ ~Profile /\ Finish("failed")
       \/ Profile /\ job.pauseReq /\ Park
       \/ Profile /\ ~job.pauseReq /\ ~DispatchAllowed(job.resume) /\ Finish("failed")
       \/ /\ Profile /\ ~job.pauseReq /\ DispatchAllowed(job.resume)
          /\ job' = [job EXCEPT !.status = job.resume, !.resume = "none",
                                !.spent = @ + Rate(job.resume, job.pending.skill)]
          /\ Continue("spawn")
    /\ UNCHANGED <<coord, env, chain, hist>>

AuthorizationFailed ==
    /\ Answered("budget_authorizing")
    /\ Finish("failed")
    /\ UNCHANGED <<coord, env, chain, hist>>

SettledOnSubmission ==       \* Mutant: submission is taken for inclusion
    /\ Answered("settling") /\ task.sent
    /\ job' = [job EXCEPT !.budget = "settled"]
    /\ Continue("receipt")
    /\ UNCHANGED <<coord, env, chain, hist>>

Settled ==
    /\ Answered("settling") /\ task.sent /\ chain.tx["settle"] = "landed"
    /\ job' = [job EXCEPT !.budget = "settled"]
    /\ Continue("receipt")
    /\ UNCHANGED <<coord, env, chain, hist>>

Receipted ==
    /\ Answered("receipting") /\ task.sent /\ chain.tx["receipt"] = "landed"
    /\ job' = [job EXCEPT !.budget = "complete"]
    /\ Continue("close")
    /\ UNCHANGED <<coord, env, chain, hist>>

(* Any other answer, an unusable proof, a dead or timed-out worker.         *)
OutcomeUnknown ==
    /\ \E phase \in WritePhases : Answered(phase)
    /\ AccountingHold(job.status)
    /\ UNCHANGED <<coord, env, chain, hist>>

(* A deployment's reconcile/2 reports what the chain holds for this job and *)
(* this amount; a stage other than the one awaited is an OutcomeUnknown.    *)
ReconciledReservedGoesOn ==  \* Mutant: the recovered hold is worked under
    /\ Answered("reconciling") /\ job.budget = "reservation_pending"
    /\ chain.tx["reserve"] = "landed" /\ chain.amount["reserve"] = MaxCostUnits
    /\ job' = [job EXCEPT !.budget = "reserved"]
    /\ Continue("advance")
    /\ hist' = [hist EXCEPT !.adopted = TRUE]
    /\ UNCHANGED <<coord, env, chain>>

ReconciledReserved ==
    /\ Answered("reconciling") /\ job.budget = "reservation_pending"
    /\ chain.tx["reserve"] = "landed" /\ chain.amount["reserve"] = MaxCostUnits
    /\ job' = [job EXCEPT !.budget = "reserved"]
    /\ Continue("abandon")
    /\ hist' = [hist EXCEPT !.adopted = TRUE]
    /\ UNCHANGED <<coord, env, chain>>

ReconciledSettled ==
    /\ Answered("reconciling") /\ job.budget = "settlement_pending"
    /\ chain.tx["settle"] = "landed" /\ chain.amount["settle"] = job.spent
    /\ job' = [job EXCEPT !.budget = "settled"]
    /\ Continue("receipt")
    /\ UNCHANGED <<coord, env, chain, hist>>

ReconciledReceipted ==
    /\ Answered("reconciling") /\ job.budget = "receipt_pending"
    /\ chain.tx["receipt"] = "landed" /\ chain.amount["receipt"] = job.receipt
    /\ job' = [job EXCEPT !.budget = "complete"]
    /\ Continue("close")
    /\ UNCHANGED <<coord, env, chain, hist>>

-----------------------------------------------------------------------------
(* The adapter and the chain.  mutate/4 submits one transaction and waits   *)
(* for its inclusion; killing the worker does not recall a transaction.     *)

WriterOf == [m \in Mutations |->
    CASE m = "reserve" -> "budget_reserving"
      [] m = "settle"  -> "settling"
      [] OTHER         -> "receipting"]

AmountOfFreeWork(m) ==       \* Mutant: settles nothing, as after a reconciled hold
    CASE m = "reserve" -> MaxCostUnits
      [] m = "settle"  -> 0
      [] OTHER         -> job.receipt

AmountOf(m) ==
    CASE m = "reserve" -> MaxCostUnits
      [] m = "settle"  -> job.spent
      [] OTHER         -> job.receipt

Submit(m) ==
    /\ Answered(WriterOf[m]) /\ ~task.sent
    /\ m = "settle" => job.spent <= MaxCostUnits
    /\ task' = [task EXCEPT !.sent = TRUE]
    /\ chain' = [tx     |-> [chain.tx EXCEPT ![m] = "pending"],
                 sent   |-> [chain.sent EXCEPT ![m] = @ + 1],
                 amount |-> [chain.amount EXCEPT ![m] = AmountOf(m)]]
    /\ UNCHANGED <<job, coord, env, hist>>

TxEnds(m) ==
    /\ chain.tx[m] = "pending"
    /\ \E end \in {"landed", "dropped"} :
           chain' = [chain EXCEPT !.tx = [@ EXCEPT ![m] = end]]
    /\ UNCHANGED <<job, task, coord, env, hist>>

-----------------------------------------------------------------------------
(* Timers.  The deadline timer is set once, when the process starts; the    *)
(* event is consumed by whatever state it finds.                            *)

DeadlineIgnoredWhenInterrupted ==   \* Mutant: every interruption waits for its owner
    job.status \in WritePhases \cup {"accounting_pending", "interrupted"}

DeadlineIgnored ==
    \/ job.status \in WritePhases \cup {"accounting_pending"}
    \/ job.status = "interrupted" /\ UnsafeResume

DeadlineFires ==
    /\ Listening /\ env.alarm /\ env.late
    /\ env' = [env EXCEPT !.alarm = FALSE]
    /\ \/ DeadlineIgnored /\ UNCHANGED <<job, task, hist>>
       \/ /\ job.status \in {"executing", "verifying"}
          /\ Interrupt(job.status)
          /\ LoseEffect
       \/ /\ ~DeadlineIgnored /\ job.status \notin {"executing", "verifying"}
          /\ Finish("exhausted")
          /\ UNCHANGED hist
    /\ UNCHANGED <<coord, chain>>

Wake ==
    /\ Listening /\ job.status = "waiting"
    /\ Advance
    /\ UNCHANGED <<coord, env, chain, hist>>

ApprovalExpired ==
    /\ Listening /\ job.status = "awaiting_approval" /\ job.pending.expired
    /\ job' = [job EXCEPT !.status = "paused", !.pending = NoPending]
    /\ Continue("none")
    /\ UNCHANGED <<coord, env, chain, hist>>

-----------------------------------------------------------------------------
(* Commands of the owner.  A command that is refused changes nothing.       *)

Pause ==
    /\ Listening
    /\ job.status \notin {"interrupted", "paused", "accounting_pending"} \cup WritePhases
    /\ ~job.pauseReq
    /\ IF job.status \in WorkPhases \cup {"budget_preparing", "budget_authorizing"}
       THEN job' = [job EXCEPT !.pauseReq = TRUE] /\ UNCHANGED task
       ELSE /\ job' = [job EXCEPT !.status = "paused", !.pending = NoPending]
            /\ Continue("none")
    /\ UNCHANGED <<coord, env, chain, hist>>

Resume ==
    /\ Listening /\ Profile
    /\ \/ job.status = "paused" /\ (Metered => job.budget = "reserved")
       \/ job.status = "interrupted" /\ ~UnsafeResume
    /\ job' = [job EXCEPT !.status = "ready", !.pauseReq = FALSE, !.phase = "none",
                          !.pending = NoPending]
    /\ Continue("plan")
    /\ UNCHANGED <<coord, env, chain, hist>>

CancelStatusIgnoresPhase ==   \* Mutant: forgets what an interruption cut short
    IF job.status \in {"executing", "verifying"} THEN "cancelled_unreconciled" ELSE "cancelled"

CancelStatus ==
    IF \/ job.status \in {"executing", "verifying"}
       \/ job.status = "interrupted" /\ job.phase \in {"executing", "verifying"}
    THEN "cancelled_unreconciled" ELSE "cancelled"

Cancel ==
    /\ Listening
    /\ job.status \notin {"accounting_pending"} \cup WritePhases
    /\ Finish(CancelStatus)
    /\ LoseEffect
    /\ UNCHANGED <<coord, env, chain>>

Approve ==
    /\ Listening /\ job.status = "awaiting_approval" /\ Profile /\ ~job.pending.expired
    /\ job' = [job EXCEPT !.status = "ready", !.pending = [@ EXCEPT !.approved = TRUE]]
    /\ Continue("execute")
    /\ hist' = [hist EXCEPT !.granted = @ \cup {job.iteration}]
    /\ UNCHANGED <<coord, env, chain>>

Reject ==
    /\ Listening /\ job.status = "awaiting_approval"
    /\ Finish("failed")
    /\ UNCHANGED <<coord, env, chain, hist>>

Reconcile ==
    /\ Listening /\ job.status \in {"accounting_pending", "interrupted"}
    /\ job.budget \in Unconfirmed
    /\ job' = [job EXCEPT !.status = "reconciling"]
    /\ RunOperation
    /\ UNCHANGED <<coord, env, chain, hist>>

-----------------------------------------------------------------------------
(* The coordinator: launch/2, recovery and the DOWN handler *)

(* What init/1 does first: boot, or recover_accounting.                     *)
FirstStepNone ==             \* Mutant: nothing is recovered
    IF coord = "launch" THEN "boot" ELSE "none"

FirstStepRefiles ==          \* Mutant: a receipt of unknown outcome is filed again
    IF coord = "launch" THEN "boot"
    ELSE CASE job.budget \in {"settled", "receipt_pending"} -> "receipt"
           [] job.budget = "complete"                      -> "close"
           [] OTHER                                        -> "none"

FirstStep ==
    IF coord = "launch" THEN "boot"
    ELSE CASE job.budget = "settled"  -> "receipt"
           [] job.budget = "complete" -> "close"
           [] OTHER                   -> "none"

(* A new process; init/1 checkpoints the interruption before it listens.    *)
Launch ==
    /\ coord \in {"launch", "relaunch"}
    /\ job' = IF coord = "launch" \/ job.status \in {"paused", "interrupted"} THEN job
              ELSE [job EXCEPT !.status = "interrupted", !.phase = job.status]
    /\ task' = [NoWorker EXCEPT !.up = TRUE, !.next = FirstStep]
    /\ env' = [env EXCEPT !.alarm = TRUE]
    /\ coord' = "idle"
    /\ UNCHANGED <<chain, hist>>

(* start_child fails: no worker until the service restarts. *)
LaunchFailed ==
    /\ coord \in {"launch", "relaunch"}
    /\ job' = [job EXCEPT
           !.status = IF job.budget \in {"disabled", "unprepared", "unreserved"}
                      THEN "failed" ELSE "interrupted",
           !.phase = IF @ = "none" THEN job.status ELSE @]
    /\ coord' = "idle"
    /\ UNCHANGED <<task, env, chain, hist>>

(* The task process dies on its own (killed, crashed); its operation with it. *)
WorkerExits ==
    /\ task.up /\ env.exits < MaxWorkerExits
    /\ task' = NoWorker
    /\ coord' = "down"
    /\ env' = [env EXCEPT !.exits = @ + 1]
    /\ LoseEffect
    /\ UNCHANGED <<job, chain>>

HandleDown ==
    /\ coord = "down"
    /\ job' = [job EXCEPT !.status = "interrupted",
                          !.phase = IF @ = "none" THEN job.status ELSE @]
    /\ coord' = "relaunch"
    /\ UNCHANGED <<task, env, chain, hist>>

(* The node or the one_for_all supervisor restarts: every process is gone,  *)
(* the new coordinator relaunches what is not terminal.                     *)
ServiceRestarts ==
    /\ env.restarts < MaxRestarts
    /\ job.status \notin Terminal
    /\ task' = NoWorker
    /\ coord' = "relaunch"
    /\ env' = [env EXCEPT !.restarts = @ + 1]
    /\ LoseEffect
    /\ UNCHANGED <<job, chain>>

-----------------------------------------------------------------------------
(* The world *)

DeadlinePasses ==
    /\ ~env.late
    /\ env' = [env EXCEPT !.late = TRUE]
    /\ UNCHANGED <<job, task, coord, chain, hist>>

(* The template is changed, withdrawn or restored, or the service disabled. *)
PolicyChanges ==
    /\ env' = [env EXCEPT !.policy = ~@]
    /\ UNCHANGED <<job, task, coord, chain, hist>>

(* The clock passes expires_at of the pending proposal. *)
ApprovalLapses ==
    /\ job.status \notin Terminal
    /\ job.pending.skill # NoSkill /\ NeedsApproval(job.pending.skill)
    /\ ~job.pending.expired
    /\ job' = [job EXCEPT !.pending = [@ EXCEPT !.expired = TRUE]]
    /\ UNCHANGED <<task, coord, env, chain, hist>>

-----------------------------------------------------------------------------
Internal == Boot \/ Plan \/ Execute \/ Operate \/ Spawn \/ Proceed

WorkResult ==
    \/ PlanRejected \/ PlanParked \/ ProposeWait \/ ProposeFinish
    \/ \E skill \in Skills : ProposeAct(skill)
    \/ \E same \in BOOLEAN : ActionSucceeded(same)
    \/ ActionFailed \/ VerificationPassed \/ VerificationFailed \/ WorkInterrupted

AccountingResult ==
    \/ Prepared \/ PreparationFailed \/ Reserved \/ NotReserved
    \/ Authorized \/ AuthorizationFailed \/ Settled \/ Receipted \/ OutcomeUnknown
    \/ ReconciledReserved \/ ReconciledSettled \/ ReconciledReceipted

Timer == DeadlineFires \/ Wake \/ ApprovalExpired
Command == Pause \/ Resume \/ Cancel \/ Approve \/ Reject \/ Reconcile
Coordinate == Launch \/ LaunchFailed \/ HandleDown
Fault == WorkerExits \/ ServiceRestarts
Chain == \E m \in Mutations : Submit(m) \/ TxEnds(m)
World == DeadlinePasses \/ PolicyChanges \/ ApprovalLapses

Next == Internal \/ WorkResult \/ AccountingResult \/ Timer \/ Command
        \/ Coordinate \/ Fault \/ Chain \/ World

Spec == Init /\ [][Next]_vars

(***************************************************************************)
(* Fairness.  The runtime runs a ready process; every operation carries a   *)
(* state_timeout, so it ends; timers fire; the coordinator handles its      *)
(* messages; the clock moves.  Owners, operators, faults and the chain owe  *)
(* nothing.                                                                 *)
(***************************************************************************)
OperationEnds == WorkResult \/ AccountingResult

Fairness ==
    /\ WF_vars(Internal) /\ WF_vars(OperationEnds) /\ WF_vars(Timer)
    /\ WF_vars(Coordinate) /\ WF_vars(DeadlinePasses) /\ WF_vars(ApprovalLapses)

FairSpec == Spec /\ Fairness

-----------------------------------------------------------------------------
(* Properties *)

(* Providers, actions and verifiers of a metered task run only while the    *)
(* chain holds the reservation and nothing has been sent to settle it, even *)
(* across crashes, lost answers and late transactions.                      *)
WorkUnderHold ==
    Metered /\ task.active /\ job.status \in WorkPhases
        => chain.tx["reserve"] = "landed" /\ chain.sent["settle"] = 0

(* Charge before dispatch: the invocations started never cost more than     *)
(* what was booked, what was booked never exceeds the reserved ceiling, and *)
(* settlement and receipt carry exactly what was booked.                    *)
MoneyAddsUp ==
    /\ hist.usage <= job.spent
    /\ job.spent <= MaxCostUnits
    /\ chain.sent["settle"]  > 0 => chain.amount["settle"] = job.spent
    /\ chain.sent["receipt"] > 0 => chain.amount["receipt"] = job.spent

(* No mutation is ever submitted twice, whatever is lost or restarted: a    *)
(* timeout is not a licence to retry.                                       *)
NoMutationTwice == \A m \in Mutations : chain.sent[m] <= 1

(* The settlement is submitted only once the reservation is on chain, the   *)
(* receipt only once the settlement is.                                     *)
MutationsInOrder ==
    /\ chain.sent["settle"]  > 0 => chain.tx["reserve"] = "landed"
    /\ chain.sent["receipt"] > 0 => chain.tx["settle"] = "landed"

(* A task that has reached a terminal state leaves nothing open on chain:   *)
(* no reservation was ever submitted, or it is settled and receipted.       *)
TerminalIsClosed ==
    job.status \in Terminal
        => chain.sent["reserve"] = 0 \/ chain.tx["receipt"] = "landed"

(* Every mutation is submitted once, after the one before it is included.   *)
MutationsStand == NoMutationTwice /\ MutationsInOrder

(* What runs is held, what is held is booked to the unit, and what has      *)
(* ended is closed on chain.                                                *)
MoneyStands == WorkUnderHold /\ MoneyAddsUp /\ TerminalIsClosed

(* "Never execute a task whose reservation response was lost"               *)
(* (damage_agent_task.erl:546): once a hold is known only by reconciliation *)
(* the job does no work at all.                                             *)
AdoptedHoldNeverWorks == hist.adopted => hist.calls = 0

(* A task that ended after an action or verifier of unknown outcome says    *)
(* so.  (The exception is an unmetered task that cannot be relaunched:      *)
(* damage_agent:launch/2 closes it as failed.)                              *)
LostEffectIsDisclosed ==
    hist.lost /\ job.status \in Terminal
        => job.status \in {"cancelled_unreconciled"} \cup (IF Metered THEN {} ELSE {"failed"})

(* After an action or verifier whose outcome is unknown, nothing is invoked *)
(* any more, not by recovery, by resume, by a timer or by reconciliation,   *)
(* and whatever ends the task discloses it.                                 *)
LostEffectIsFinal ==
    [][/\ hist.lost => hist'.calls = hist.calls
       /\ LostEffectIsDisclosed']_vars

(* Each proposal is executed at most once, and one that needs approval only *)
(* after its owner approved that very proposal; the approval is consumed.   *)
ProposalRunsOnce ==
    [][job.status = "executing" /\ hist'.calls # hist.calls
         => /\ job.iteration \notin hist.ran
            /\ NeedsApproval(job.pending.skill) => job.iteration \in hist.granted]_vars

(* A task is reported completed (and its receipt "passed") only when every  *)
(* required action has evidence and the acceptance gate passed.             *)
CompletedIsVerified ==
    "completed" \in {job.status, job.outcome}
        => hist.verified /\ RequiredActions \subseteq job.done

(* From the settlement intent on, what is booked, the receipt draft and the *)
(* execution outcome never change, through every hold and reconciliation.   *)
DraftIsFinal ==
    [][job.outcome # "none"
         => /\ job'.spent = job.spent
            /\ job'.receipt = job.receipt
            /\ job'.outcome = job.outcome]_vars

(* The task, its store, its adapter and the contracts implement the escrow. *)
Hold ==
    CASE chain.tx["receipt"] = "landed" -> "receipted"
      [] chain.tx["receipt"] # "landed" /\ chain.tx["settle"] = "landed" -> "settled"
      [] chain.tx["receipt"] # "landed" /\ chain.tx["settle"] # "landed"
         /\ chain.tx["reserve"] = "landed" -> "held"
      [] OTHER -> "none"

Escrow == INSTANCE AgentEscrow WITH
    Ceiling <- MaxCostUnits,
    hold    <- Hold,
    meter   <- hist.usage,
    paid    <- IF chain.tx["settle"] = "landed" THEN chain.amount["settle"] ELSE 0

ImplementsEscrow == Escrow!Spec

(* States that need somebody: the owner, the operator or a service restart. *)
NeedsSomebody ==
    \/ job.status = "accounting_pending"
    \/ job.status = "interrupted" /\ (UnsafeResume \/ ~task.up)

(* The deadline ends every task that nobody needs to look at.               *)
DeadlineConcludes == env.late ~> (job.status \in Terminal \/ NeedsSomebody)

(* The same, but for a task parked after its deadline event was consumed.   *)
DeadlineConcludesOrParks ==
    env.late ~> \/ job.status \in Terminal \/ NeedsSomebody
                \/ job.status = "paused" /\ ~env.alarm

(* A settlement known to be included is always followed by the attempt to   *)
(* file its receipt, with no help from the owner, if a worker can be had.   *)
SettledIsReceipted ==
    job.budget = "settled" ~> \/ job.budget \in {"receipt_pending", "complete"}
                              \/ job.status = "interrupted" /\ ~task.up
=============================================================================
