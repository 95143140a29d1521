------------------------ MODULE AgentTaskInductive ------------------------
(***************************************************************************)
(* The inductive invariant of AgentTask: why a durable record that is read  *)
(* back after any crash tells the task what it may still do on chain.       *)
(* TLC checks it in MCAgentTask, AgentTaskProofs proves it.  Answerable is   *)
(* what holds on top of it of the history; AgentTaskProofs proves both.     *)
(***************************************************************************)
EXTENDS AgentTask

-----------------------------------------------------------------------------
(* The process and the coordinator *)

(* There is a worker only while the coordinator has nothing else to do with *)
(* the task; an operation runs only between two turns of the worker.        *)
Process ==
    /\ ~task.up => ~task.active /\ task.next = "none"
    /\ task.up => coord = "idle" /\ job.status \notin Terminal
    /\ coord # "idle" => job.status \notin Terminal
    /\ coord = "launch" => job.status = "queued"
    /\ task.up => (job.status = "queued" <=> task.next = "boot")
    /\ task.active => task.next = "none" /\ job.status \in WorkPhases \cup ChainPhases

(* What the rest of a handler may rely on. *)
Continuation ==
    /\ task.next = "plan" => job.status = "ready"
    /\ task.next = "ask" => job.status = "planning"
    /\ task.next = "execute" => job.status \in {"ready", "planning"}
    /\ task.next \in {"operate", "spawn"} => job.status \in WorkPhases
    /\ task.next \in {"advance", "park"} => job.budget \in {"disabled", "reserved"}
    /\ task.next = "abandon" => job.budget = "reserved"
    /\ task.next = "receipt" => job.budget = "settled"
    /\ task.next = "close" => job.budget = "complete"

(* A proposal is at hand wherever one is executed. *)
Proposal ==
    (\/ job.status \in {"executing", "awaiting_approval"}
     \/ task.next \in {"ask", "execute"}
     \/ job.status = "budget_authorizing" /\ job.resume = "executing")
    => job.pending.skill \in Skills

-----------------------------------------------------------------------------
(* The durable record: the status of the task against that of its budget *)

Working == {"ready", "waiting", "awaiting_approval", "paused"} \cup WorkPhases

Stage ==
    /\ Metered <=> job.budget # "disabled"
    /\ job.status = "queued" => job.budget \in {"disabled", "unprepared"}
    /\ job.status \in Working => job.budget \in {"disabled", "reserved"}
    /\ job.status = "budget_preparing" => job.budget = "unprepared"
    /\ job.status = "budget_authorizing" => job.budget = "reserved"
    /\ job.status = "budget_reserving"
         => job.budget \in {"reservation_pending", "reserved", "unreserved"}
    /\ job.status = "settling" => job.budget \in {"settlement_pending", "settled"}
    /\ job.status = "receipting" => job.budget \in {"receipt_pending", "complete"}
    /\ job.status = "reconciling"
         => job.budget \in Unconfirmed \cup {"reserved", "settled", "complete"}
    /\ job.status = "accounting_pending" => job.budget \in Unconfirmed
    /\ job.status \in Terminal
         => job.budget \in {"disabled", "unprepared", "unreserved", "complete"}

(* An operation that writes runs against the intent recorded for it. *)
Intent ==
    task.active =>
        /\ job.status = "budget_reserving" => job.budget = "reservation_pending"
        /\ job.status = "settling" => job.budget = "settlement_pending"
        /\ job.status = "receipting" => job.budget = "receipt_pending"
        /\ job.status = "reconciling" => job.budget \in Unconfirmed

-----------------------------------------------------------------------------
(* The durable record against the chain *)

Unsent(m)    == chain.sent[m] = 0 /\ chain.tx[m] = "none"
Uncertain(m) == Unsent(m) \/ (chain.sent[m] = 1 /\ chain.tx[m] # "none")
Confirmed(m) == chain.sent[m] = 1 /\ chain.tx[m] = "landed"

Ledger ==
    /\ job.budget \in {"disabled", "unprepared", "unreserved"}
         => Unsent("reserve") /\ Unsent("settle") /\ Unsent("receipt")
    /\ job.budget = "reservation_pending"
         => Uncertain("reserve") /\ Unsent("settle") /\ Unsent("receipt")
    /\ job.budget = "reserved"
         => Confirmed("reserve") /\ Unsent("settle") /\ Unsent("receipt")
    /\ job.budget = "settlement_pending"
         => Confirmed("reserve") /\ Uncertain("settle") /\ Unsent("receipt")
    /\ job.budget = "settled"
         => Confirmed("reserve") /\ Confirmed("settle") /\ Unsent("receipt")
    /\ job.budget = "receipt_pending"
         => Confirmed("reserve") /\ Confirmed("settle") /\ Uncertain("receipt")
    /\ job.budget = "complete"
         => Confirmed("reserve") /\ Confirmed("settle") /\ Confirmed("receipt")

(* An operation that has not submitted its mutation yet is the only one     *)
(* that ever will.                                                          *)
OneWriter ==
    task.active /\ ~task.sent =>
        /\ job.status = "budget_reserving" => Unsent("reserve")
        /\ job.status = "settling" => Unsent("settle")
        /\ job.status = "receipting" => Unsent("receipt")

-----------------------------------------------------------------------------
(* The money *)

(* The receipt is drafted with the settlement intent. *)
Draft ==
    IF job.budget \in {"settlement_pending", "settled", "receipt_pending", "complete"}
    THEN job.outcome \in Terminal /\ job.receipt = job.spent
    ELSE job.outcome = "none"

(* The invocation about to be authorized fits; the one about to start is    *)
(* already booked.                                                          *)
Booking ==
    /\ job.status = "budget_authorizing"
         => /\ job.resume \in WorkPhases
            /\ job.spent + Rate(job.resume, job.pending.skill) <= MaxCostUnits
    /\ task.next = "spawn"
         => hist.usage + Rate(job.status, job.pending.skill) <= job.spent

(* Whatever crashes, is lost or is answered late: the durable record, the   *)
(* process, the chain and the meter stand in the relation the handlers      *)
(* count on.                                                                *)
Agreement ==
    /\ Process /\ Continuation /\ Proposal
    /\ Stage /\ Intent
    /\ Ledger /\ OneWriter
    /\ Draft /\ Booking /\ MoneyAddsUp

Inductive == TypeOK /\ Agreement
-----------------------------------------------------------------------------
(* The record against what really happened: hist *)

(* Work in progress has no interruption on record, and a task that has      *)
(* filed its receipt does nothing but close.                                *)
Bearings ==
    /\ \/ job.status \in Working
       \/ job.status \in {"queued", "budget_preparing", "budget_authorizing", "budget_reserving"}
       \/ task.next \in {"advance", "park"}
       => job.phase = "none"
    /\ task.up /\ job.budget = "complete" => task.next = "close"

(* Whoever is past the finish proposal has the required evidence; whoever   *)
(* completes has passed the acceptance gate as well.                        *)
Gate ==
    /\ \/ job.status = "verifying" \/ task.next = "complete"
       \/ job.status = "budget_authorizing" /\ job.resume = "verifying"
       => RequiredActions \subseteq job.done
    /\ task.next = "complete" => hist.verified
    /\ "completed" \in {job.status, job.outcome}
         => hist.verified /\ RequiredActions \subseteq job.done

(* An effect of unknown outcome stays on record, as the phase that was      *)
(* interrupted and then as the outcome, until the task ends with it.        *)
Unfinished == {"executing", "verifying"}

Disclosure ==
    hist.lost =>
        \/ /\ job.budget \in {"disabled", "reserved"}
           /\ \/ job.status \in Unfinished /\ ~task.up
              \/ job.status = "interrupted" /\ job.phase \in Unfinished /\ task.next = "none"
              \/ job.status = "cancelled_unreconciled"
              \/ job.status = "failed" /\ ~Metered
        \/ /\ job.budget \in {"settlement_pending", "settled", "receipt_pending", "complete"}
           /\ job.outcome = "cancelled_unreconciled"
           /\ job.status \in Terminal => job.status = "cancelled_unreconciled"

(* A proposal on its way to its execution, which is cleared to run. *)
Cleared ==
    \/ job.status = "executing" /\ task.next \in {"operate", "spawn"}
    \/ job.status = "budget_authorizing" /\ job.resume = "executing"

(* A proposal that may still run has not run; one that is cleared to run,   *)
(* or approved on its way there, is one the owner approved if it needs it.  *)
Consent ==
    /\ \A i \in hist.ran : i <= job.iteration
    /\ \/ Cleared \/ job.status \in {"planning", "awaiting_approval"}
       \/ job.status = "budget_authorizing" /\ job.resume = "planning"
       \/ task.next \in {"ask", "execute"}
       => job.iteration \notin hist.ran
    /\ \/ Cleared /\ NeedsApproval(job.pending.skill)
       \/ task.next = "execute" /\ job.pending.approved
       => job.iteration \in hist.granted

Answerable == Bearings /\ Gate /\ Disclosure /\ Consent
=============================================================================
