----------------------------- MODULE ScheduleOps -----------------------------
(***************************************************************************)
(* Creating a funded schedule (v2): the browser (schedules-v2.js,          *)
(* schedule-operations.js), the scheduler process with its journal of      *)
(* operations (damage_schedule_v2.erl), the worker it spawns for each, and *)
(* the chain.  One owner; all of its tabs.                                 *)
(*                                                                         *)
(* A creation writes three transactions, create_schedule,                  *)
(* approve_allowance and fund_schedule.  A custodial worker sends them     *)
(* itself; a wallet's owner signs each of them in the browser ("desktop")  *)
(* or lets the wallet broadcast it and come back with its hash ("mobile"). *)
(* Answers get lost, calls time out in the browser and are served          *)
(* afterwards, the deadline kills a worker, the server restarts, and a     *)
(* transaction nobody waits for any more is included all the same.         *)
(***************************************************************************)
EXTENDS Naturals, FiniteSets

CONSTANTS Wallets,     \* among "custodial", "desktop" and "mobile"
          Tabs,        \* the owner's open pages
          Specs,       \* creation payloads: feature, cron, window and lock amount
          NoSpec,
          NoOp,
          MaxScheds,   \* bound: schedules prepared
          MaxSigned,   \* bound, for each wallet: transactions signed in the browser
          MaxPosts,    \* bound, for each wallet: creations submitted in the browser
          MaxRestarts  \* bound, for each wallet: restarts of the server

ASSUME ScheduleAssumption ==
  /\ Wallets \subseteq {"custodial", "desktop", "mobile"}
  /\ NoSpec \notin Specs
  /\ MaxScheds \in Nat
  /\ \A w \in Wallets : MaxSigned[w] \in Nat /\ MaxPosts[w] \in Nat /\ MaxRestarts[w] \in Nat

VARIABLES wallet,   \* how the owner signs, and on what device
          ops,      \* the journal, on disk
          drafts,   \* the drafts on disk: the payload of each prepared schedule
          stored,   \* the schedules on disk
          worker,   \* the owner's mutation worker
          prepared, \* schedule ids handed out so far
          txs,      \* the transactions and what became of them
          chain,    \* the schedule contract
          allowed,  \* the allowance the schedule contract holds
          requests, \* POSTs on their way to the scheduler or in its mailbox
          tabs,     \* what each page does
          pending,  \* localStorage damage_schedule_v2_pending
          signed, posts, restarts

disk   == <<ops, drafts, stored>>
onchain == <<txs, chain, allowed>>
client == <<tabs, pending, signed, posts>>
vars   == <<wallet, disk, worker, prepared, onchain, requests, client, restarts>>

MostSigned == CHOOSE n \in {MaxSigned[w] : w \in Wallets} : \A w \in Wallets : MaxSigned[w] <= n
Scheds == 1 .. MaxScheds
NoSched == 0
ChainStages == {"create_schedule", "approve_allowance", "fund_schedule"}
Stages == ChainStages \cup {"queued", "ensuring_vault", "preparing", "legacy_create"}
Tx == [sched : Scheds, stage : ChainStages, n : 0 .. MostSigned]
NoTx == [sched |-> NoSched, stage |-> "queued", n |-> 0]

(* identity/3: a creation is known by its payload, a submission by the     *)
(* transaction, a draft found without an operation by its schedule.        *)
CreateId(p) == [kind |-> "create", spec |-> p, tx |-> NoTx]
SubmitId(t) == [kind |-> "submit", spec |-> NoSpec, tx |-> t]
LegacyId(s) == [kind |-> "legacy", spec |-> NoSpec, tx |-> [NoTx EXCEPT !.sched = s]]
OpIds == {CreateId(p) : p \in Specs} \cup {SubmitId(t) : t \in Tx} \cup {LegacyId(s) : s \in Scheds}

ASSUME NoOpAssumption == NoOp \notin OpIds

NewOp == [status |-> "running", stage |-> "queued", sched |-> NoSched,
          signs |-> "queued", next |-> NoOp]
Op == [status : {"running", "complete", "failed", "reconciliation_required", "superseded"},
       stage : Stages, sched : Scheds \cup {NoSched},
       signs : ChainStages \cup {"queued"},   \* the stage a complete operation asks to sign
       next : OpIds \cup {NoOp}]

NoWorker == [op |-> NoOp, at |-> "start", sched |-> NoSched, reply |-> "none", signs |-> "queued"]
Worker == [op : OpIds \cup {NoOp},
           at : {"start", "vault", "preparing", "drafted", "submit", "wait", "undraft", "replied"},
           sched : Scheds \cup {NoSched},
           reply : {"none", "ok", "error", "not_configured"},
           signs : ChainStages \cup {"queued"}]

Idle == [at |-> "idle", op |-> NoOp, tx |-> NoTx, told |-> "nothing"]
Tab == [at : {"idle", "posting", "observing", "signing", "wallet", "returned"},
        op : OpIds \cup {NoOp}, tx : Tx \cup {NoTx},
        told : {"nothing", "success"}]
Request == [tab : Tabs, id : OpIds]

TypeOK ==
  /\ wallet \in Wallets
  /\ DOMAIN ops \subseteq OpIds /\ \A id \in DOMAIN ops : ops[id] \in Op
  /\ drafts \in [Scheds -> Specs \cup {NoSpec}]
  /\ stored \subseteq Scheds
  /\ worker \in Worker
  /\ prepared \in 0 .. MaxScheds
  /\ DOMAIN txs \subseteq Tx /\ \A t \in DOMAIN txs : txs[t] \in {"sent", "ok", "failed"}
  /\ chain \in [Scheds -> [created : BOOLEAN, funded : Nat]]
  /\ allowed \in Nat
  /\ requests \subseteq Request
  /\ tabs \in [Tabs -> Tab]
  /\ pending \in Tx \cup {NoTx}
  /\ signed \in 0 .. MaxSigned[wallet] /\ posts \in 0 .. MaxPosts[wallet]
  /\ restarts \in 0 .. MaxRestarts[wallet]

Init ==
  /\ wallet \in Wallets
  /\ ops = [id \in {} |-> NewOp]
  /\ drafts = [s \in Scheds |-> NoSpec] /\ stored = {}
  /\ worker = NoWorker /\ prepared = 0
  /\ txs = [t \in {} |-> "sent"]
  /\ chain = [s \in Scheds |-> [created |-> FALSE, funded |-> 0]] /\ allowed = 0
  /\ requests = {}
  /\ tabs = [t \in Tabs |-> Idle] /\ pending = NoTx
  /\ signed = 0 /\ posts = 0 /\ restarts = 0

(* A function of the keys seen so far, with one more.                      *)
Added(f, key, value) == [k \in DOMAIN f \cup {key} |-> IF k \in DOMAIN f THEN f[k] ELSE value]

-----------------------------------------------------------------------------
(* The journal.                                                            *)

(* Mutant: only a running operation blocks the owner.                      *)
BlocksOwnerRunning(op) == op.status = "running"

(* blocks_owner, owner_operation_blocked *)
BlocksOwner(op) == op.status \in {"running", "reconciliation_required"}
Blocked == \E id \in DOMAIN ops : BlocksOwner(ops[id])
HasDraft == \E s \in Scheds : drafts[s] # NoSpec

(* Mutant: an operation that was cut short failed.                         *)
FailureAlways(op, why) == [op EXCEPT !.status = "failed"]

(* Mutant: a status of its own for the deadline.                           *)
FailureTimedOut(op, why) ==
  [op EXCEPT !.status =
     IF op.stage \in {"queued", "preparing"} \/ (op.stage = "ensuring_vault" /\ why = "not_configured")
     THEN "failed" ELSE IF why = "deadline" THEN "timed_out" ELSE "reconciliation_required"]

(* failure/2: before a stage that may write it is failed, after it unknown *)
Failure(op, why) ==
  [op EXCEPT !.status =
     IF op.stage \in {"queued", "preparing"} \/ (op.stage = "ensuring_vault" /\ why = "not_configured")
     THEN "failed" ELSE "reconciliation_required"]

Finished(op, w) ==
  IF w.reply = "ok" THEN [op EXCEPT !.status = "complete", !.signs = w.signs] ELSE Failure(op, w.reply)

-----------------------------------------------------------------------------
(* The browser.                                                            *)

(* Mutant: a superseded operation is done.                                 *)
SeenNotFollowed(id, op) ==
  IF op.status \in {"complete", "superseded"} /\ op.signs = "queued" THEN [Idle EXCEPT !.op = id, !.told = "success"]
  ELSE IF op.status = "complete"
       THEN [Idle EXCEPT !.at = "signing", !.op = id, !.tx = [sched |-> op.sched, stage |-> op.signs, n |-> 0]]
  ELSE IF op.status = "running" THEN [Idle EXCEPT !.at = "observing", !.op = id]
  ELSE Idle

(* awaitScheduleOperation: what an operation that was read leads to.  A    *)
(* notice of an error, or that it is still pending, leaves the page idle.  *)
Seen(id, op) ==
  IF op.status = "complete" /\ op.signs = "queued" THEN [Idle EXCEPT !.op = id, !.told = "success"]
  ELSE IF op.status = "complete"
       THEN [Idle EXCEPT !.at = "signing", !.op = id, !.tx = [sched |-> op.sched, stage |-> op.signs, n |-> 0]]
  ELSE IF op.status = "running" THEN [Idle EXCEPT !.at = "observing", !.op = id]
  ELSE IF op.status = "superseded" THEN [Idle EXCEPT !.at = "observing", !.op = op.next]
  ELSE Idle

Post(tab, id) ==
  /\ requests' = requests \cup {[tab |-> tab, id |-> id]}
  /\ tabs' = [tabs EXCEPT ![tab] = [Idle EXCEPT !.at = "posting", !.op = id]]

(* The create form's submit, again after an error as well.                 *)
Enable(tab, p) ==
  /\ tabs[tab].at = "idle" /\ posts < MaxPosts[wallet]
  /\ Post(tab, CreateId(p))
  /\ posts' = posts + 1
  /\ UNCHANGED <<disk, worker, prepared, onchain, pending, signed, restarts>>

(* "Check / continue" in the list of pending operations.                   *)
Continue(tab, id) ==
  /\ tabs[tab].at = "idle" /\ id \in DOMAIN ops
  /\ ops[id].status = "running" \/ (ops[id].status = "complete" /\ ops[id].signs # "queued")
  /\ tabs' = [tabs EXCEPT ![tab] = [Idle EXCEPT !.at = "observing", !.op = id]]
  /\ UNCHANGED <<disk, worker, prepared, onchain, requests, pending, signed, posts, restarts>>

ReadOperation(tab) ==
  /\ tabs[tab].at = "observing"
  /\ tabs' = [tabs EXCEPT ![tab] = Seen(@.op, ops[@.op])]
  /\ UNCHANGED <<disk, worker, prepared, onchain, requests, pending, signed, posts, restarts>>

(* The deadline, maxReads, a failed GET, a closed form.                    *)
StopObserving(tab) ==
  /\ tabs[tab].at = "observing"
  /\ tabs' = [tabs EXCEPT ![tab] = Idle]
  /\ UNCHANGED <<disk, worker, prepared, onchain, requests, pending, signed, posts, restarts>>

(* The POST fails in the browser: the request was lost, or it is served    *)
(* later and nobody sees the answer.                                       *)
PostFails(tab) ==
  /\ tabs[tab].at = "posting"
  /\ tabs' = [tabs EXCEPT ![tab] = Idle]
  /\ \E lost \in SUBSET {r \in requests : r.tab = tab /\ r.id = tabs[tab].op} :
       requests' = requests \ lost
  /\ UNCHANGED <<disk, worker, prepared, onchain, pending, signed, posts, restarts>>

WalletRefuses(tab) ==
  /\ tabs[tab].at \in {"signing", "wallet"}
  /\ tabs' = [tabs EXCEPT ![tab] = Idle]
  /\ UNCHANGED <<disk, worker, prepared, onchain, requests, pending, signed, posts, restarts>>

SignHere(tab) ==
  /\ wallet = "desktop" /\ tabs[tab].at = "signing" /\ signed < MaxSigned[wallet]
  /\ signed' = signed + 1
  /\ Post(tab, SubmitId([tabs[tab].tx EXCEPT !.n = signed']))
  /\ UNCHANGED <<disk, worker, prepared, onchain, pending, posts, restarts>>

(* A mobile browser leaves for the wallet, which broadcasts and returns.   *)
Redirect(tab) ==
  /\ wallet = "mobile" /\ tabs[tab].at = "signing" /\ signed < MaxSigned[wallet]
  /\ pending' = tabs[tab].tx
  /\ tabs' = [tabs EXCEPT ![tab].at = "wallet"]
  /\ UNCHANGED <<disk, worker, prepared, onchain, requests, signed, posts, restarts>>

WalletBroadcasts(tab) ==
  /\ tabs[tab].at = "wallet" /\ signed < MaxSigned[wallet]
  /\ signed' = signed + 1
  /\ LET t == [tabs[tab].tx EXCEPT !.n = signed'] IN
     /\ txs' = Added(txs, t, "sent")
     /\ tabs' = [tabs EXCEPT ![tab] = [@ EXCEPT !.at = "returned", !.tx = t]]
  /\ UNCHANGED <<disk, worker, prepared, chain, allowed, requests, pending, posts, restarts>>

(* resumeMobileWalletFlow: the pending entry is removed before the POST.   *)
Resume(tab) ==
  /\ tabs[tab].at = "returned" /\ pending # NoTx
  /\ pending' = NoTx
  /\ Post(tab, SubmitId([pending EXCEPT !.n = tabs[tab].tx.n]))
  /\ UNCHANGED <<disk, worker, prepared, onchain, signed, posts, restarts>>

-----------------------------------------------------------------------------
(* The scheduler process: admission, the end of a worker, a restart.       *)

Answer(r, tab) == tabs' = [tabs EXCEPT ![r.tab] = IF @.at = "posting" /\ @.op = r.id THEN tab ELSE @]

(* start_operation: an exact retry is answered with the operation it made. *)
Retried(r) ==
  /\ r \in requests /\ r.id \in DOMAIN ops
  /\ requests' = requests \ {r}
  /\ Answer(r, Seen(r.id, ops[r.id]))
  /\ UNCHANGED <<disk, worker, prepared, onchain, pending, signed, posts, restarts>>

(* Mutant: a remaining draft does not matter.                              *)
MayAdmitWithDraft(id) == ~Blocked

MayAdmit(id) == ~Blocked /\ ~(id.kind = "create" /\ HasDraft)

(* Busy, a draft left, or eight workers of other owners.                   *)
Refused(r) ==
  /\ r \in requests /\ r.id \notin DOMAIN ops
  /\ requests' = requests \ {r}
  /\ Answer(r, Idle)
  /\ UNCHANGED <<disk, worker, prepared, onchain, pending, signed, posts, restarts>>

(* Mutant: any submission for the schedule supersedes.                     *)
SupersededAnyStage(id) ==
  [i \in DOMAIN ops |->
     IF id.kind = "submit" /\ ops[i].status = "complete" /\ ops[i].signs # "queued" /\ ops[i].sched = id.tx.sched
     THEN [ops[i] EXCEPT !.status = "superseded", !.next = id, !.signs = "queued"]
     ELSE ops[i]]

(* supersede_signing_operation *)
Superseded(id) ==
  [i \in DOMAIN ops |->
     IF id.kind = "submit" /\ ops[i].status = "complete" /\ ops[i].signs = id.tx.stage /\ ops[i].sched = id.tx.sched
     THEN [ops[i] EXCEPT !.status = "superseded", !.next = id, !.signs = "queued"]
     ELSE ops[i]]

Admitted(r) ==
  /\ r \in requests /\ r.id \notin DOMAIN ops /\ MayAdmit(r.id)
  /\ requests' = requests \ {r}
  /\ ops' = Added(Superseded(r.id), r.id, [NewOp EXCEPT !.sched = r.id.tx.sched])
  /\ worker' = [NoWorker EXCEPT !.op = r.id, !.sched = r.id.tx.sched]
  /\ Answer(r, [Idle EXCEPT !.at = "observing", !.op = r.id])
  /\ UNCHANGED <<drafts, stored, prepared, onchain, pending, signed, posts, restarts>>

Working(at) == worker.op # NoOp /\ worker.at = at
Still == UNCHANGED <<onchain, requests, client, restarts>>

OperationComplete ==
  /\ Working("replied")
  /\ ops' = [ops EXCEPT ![worker.op] = Finished(@, worker)]
  /\ worker' = NoWorker
  /\ UNCHANGED <<drafts, stored, prepared>> /\ Still

(* operation_deadline: kills the worker; a reply under way is ignored.     *)
OperationDeadline ==
  /\ worker.op # NoOp
  /\ ops' = [ops EXCEPT ![worker.op] = Failure(@, "deadline")]
  /\ worker' = NoWorker
  /\ UNCHANGED <<drafts, stored, prepared>> /\ Still

(* recover_operations, recover_legacy_draft *)
Restart ==
  /\ restarts < MaxRestarts[wallet] /\ restarts' = restarts + 1
  /\ worker' = NoWorker
  /\ LET known   == {ops[id].sched : id \in DOMAIN ops}
         orphans == {s \in Scheds : drafts[s] # NoSpec} \ (known \cup stored)
     IN ops' = [id \in DOMAIN ops \cup {LegacyId(s) : s \in orphans} |->
                  IF id \notin DOMAIN ops
                  THEN [NewOp EXCEPT !.status = "reconciliation_required",
                                     !.stage = "legacy_create", !.sched = id.tx.sched]
                  ELSE IF ops[id].status = "running"
                  THEN Failure(ops[id], "worker_interrupted") ELSE ops[id]]
  /\ UNCHANGED <<drafts, stored, prepared, onchain, requests, client>>

-----------------------------------------------------------------------------
(* The worker.                                                             *)

Checkpoint(stage, sched) == ops' = [ops EXCEPT ![worker.op] = [@ EXCEPT !.stage = stage, !.sched = sched]]
Reply(kind, signs) == worker' = [worker EXCEPT !.at = "replied", !.reply = kind, !.signs = signs]
Custodial == wallet = "custodial"

CreateStarts ==
  /\ Working("start") /\ worker.op.kind = "create"
  /\ Checkpoint("ensuring_vault", NoSched)
  /\ worker' = [worker EXCEPT !.at = "vault"]
  /\ UNCHANGED <<drafts, stored, prepared>> /\ Still

VaultReady ==
  /\ Working("vault")
  /\ Checkpoint("preparing", NoSched)
  /\ worker' = [worker EXCEPT !.at = "preparing"]
  /\ UNCHANGED <<drafts, stored, prepared>> /\ Still

(* The vault, the preview, the contract call before it was posted, the     *)
(* node: an error reply.                                                   *)
WorkerErrs ==
  /\ worker.op # NoOp /\ worker.at \in {"vault", "preparing", "submit", "wait"}
  /\ \E why \in {"error", "not_configured"} :
       (why = "not_configured" => worker.at = "vault") /\ Reply(why, "queued")
  /\ UNCHANGED <<disk, prepared>> /\ Still

DraftStored ==
  /\ Working("preparing") /\ prepared < MaxScheds
  /\ prepared' = prepared + 1
  /\ drafts' = [drafts EXCEPT ![prepared'] = worker.op.spec]
  /\ worker' = [worker EXCEPT !.at = "drafted", !.sched = prepared']
  /\ UNCHANGED <<ops, stored>> /\ Still

CreateCheckpointed ==
  /\ Working("drafted")
  /\ Checkpoint("create_schedule", worker.sched)
  /\ IF Custodial THEN worker' = [worker EXCEPT !.at = "submit"]
     ELSE Reply("ok", "create_schedule")
  /\ UNCHANGED <<drafts, stored, prepared>> /\ Still

(* Mutant: the draft is not looked up.                                     *)
SubmitStartsUnchecked ==
  /\ Working("start") /\ worker.op.kind = "submit"
  /\ Checkpoint(worker.op.tx.stage, worker.sched)
  /\ worker' = [worker EXCEPT !.at = "submit"]
  /\ UNCHANGED <<drafts, stored, prepared>> /\ Still

(* do_submit_tx: without a draft the submission is refused before it is    *)
(* checkpointed.                                                           *)
SubmitStarts ==
  /\ Working("start") /\ worker.op.kind = "submit"
  /\ IF drafts[worker.sched] = NoSpec
     THEN Reply("error", "queued") /\ UNCHANGED ops
     ELSE /\ Checkpoint(worker.op.tx.stage, worker.sched)
          /\ worker' = [worker EXCEPT !.at = "submit"]
  /\ UNCHANGED <<drafts, stored, prepared>> /\ Still

WorkerTx ==
  IF worker.op.kind = "submit" THEN worker.op.tx
  ELSE [sched |-> worker.sched, stage |-> ops[worker.op].stage, n |-> 0]

(* contract_call, post_signed: sent here, or by the wallet before.         *)
TxSubmitted ==
  /\ Working("submit")
  /\ txs' = Added(txs, WorkerTx, "sent")
  /\ worker' = [worker EXCEPT !.at = "wait"]
  /\ UNCHANGED <<disk, prepared, chain, allowed, requests, client, restarts>>

NextStage(stage) == IF stage = "create_schedule" THEN "approve_allowance" ELSE "fund_schedule"

(* Mutant: a revert counts as success.                                     *)
TxConfirmedAnyway ==
  /\ Working("wait") /\ txs[WorkerTx] \in {"ok", "failed"}
  /\ IF WorkerTx.stage = "fund_schedule"
     THEN /\ stored' = stored \cup {worker.sched}
          /\ worker' = [worker EXCEPT !.at = "undraft"]
          /\ UNCHANGED ops
     ELSE /\ UNCHANGED stored
          /\ IF Custodial
             THEN /\ Checkpoint(NextStage(WorkerTx.stage), worker.sched)
                  /\ worker' = [worker EXCEPT !.at = "submit"]
             ELSE Reply("ok", NextStage(WorkerTx.stage)) /\ UNCHANGED ops
  /\ UNCHANGED <<drafts, prepared>> /\ Still

(* The transaction is confirmed: the next stage, or the schedule is stored.*)
TxConfirmed ==
  /\ Working("wait") /\ txs[WorkerTx] = "ok"
  /\ IF WorkerTx.stage = "fund_schedule"
     THEN /\ stored' = stored \cup {worker.sched}
          /\ worker' = [worker EXCEPT !.at = "undraft"]
          /\ UNCHANGED ops
     ELSE /\ UNCHANGED stored
          /\ IF Custodial
             THEN /\ Checkpoint(NextStage(WorkerTx.stage), worker.sched)
                  /\ worker' = [worker EXCEPT !.at = "submit"]
             ELSE Reply("ok", NextStage(WorkerTx.stage)) /\ UNCHANGED ops
  /\ UNCHANGED <<drafts, prepared>> /\ Still

DraftDeleted ==
  /\ Working("undraft")
  /\ drafts' = [drafts EXCEPT ![worker.sched] = NoSpec]
  /\ Reply("ok", "queued")
  /\ UNCHANGED <<ops, stored, prepared>> /\ Still

-----------------------------------------------------------------------------
(* The chain, external: a transaction sent is included, whoever still      *)
(* waits for it, or never.                                                 *)

TxIncluded(t) ==
  /\ t \in DOMAIN txs /\ txs[t] = "sent"
  /\ LET s == t.sched
         ok == \/ t.stage = "create_schedule" /\ ~chain[s].created
               \/ t.stage = "approve_allowance"
               \/ t.stage = "fund_schedule" /\ chain[s].created /\ allowed > 0
     IN /\ txs' = [txs EXCEPT ![t] = IF ok THEN "ok" ELSE "failed"]
        /\ chain' = IF ~ok THEN chain
                    ELSE [chain EXCEPT ![s] =
                            [created |-> @.created \/ t.stage = "create_schedule",
                             funded |-> IF t.stage = "fund_schedule" THEN @.funded + 1 ELSE @.funded]]
        /\ allowed' = IF ~ok THEN allowed
                      ELSE IF t.stage = "approve_allowance" THEN allowed + 1
                      ELSE IF t.stage = "fund_schedule" THEN allowed - 1 ELSE allowed
  /\ UNCHANGED <<disk, worker, prepared, requests, client, restarts>>

TxDropped(t) ==
  /\ t \in DOMAIN txs /\ txs[t] = "sent"
  /\ txs' = [txs EXCEPT ![t] = "failed"]
  /\ UNCHANGED <<disk, worker, prepared, chain, allowed, requests, client, restarts>>

Browser(tab) ==
  \/ \E p \in Specs : Enable(tab, p)
  \/ \E id \in DOMAIN ops : Continue(tab, id)
  \/ ReadOperation(tab) \/ StopObserving(tab) \/ PostFails(tab)
  \/ WalletRefuses(tab) \/ SignHere(tab) \/ Redirect(tab) \/ WalletBroadcasts(tab) \/ Resume(tab)

Scheduler ==
  \/ \E r \in requests : Retried(r) \/ Refused(r) \/ Admitted(r)
  \/ OperationComplete \/ OperationDeadline \/ Restart

WorkerSteps ==
  \/ CreateStarts \/ VaultReady \/ WorkerErrs \/ DraftStored \/ CreateCheckpointed
  \/ SubmitStarts \/ TxSubmitted \/ TxConfirmed \/ DraftDeleted

Next ==
  /\ \/ \E tab \in Tabs : Browser(tab)
     \/ Scheduler
     \/ WorkerSteps
     \/ \E t \in DOMAIN txs : TxIncluded(t) \/ TxDropped(t)
  /\ UNCHANGED wallet

Spec == Init /\ [][Next]_vars
-----------------------------------------------------------------------------
(* Where the scheduler sends, a schedule is funded once, whatever is       *)
(* retried, lost, timed out, signed in two tabs or killed: "a timeout must *)
(* never cause a second funding request" (schedule-operations.js).         *)
Flying == {t \in DOMAIN txs : txs[t] = "sent"}
Funds(s) == chain[s].funded + Cardinality({t \in Flying : t.sched = s /\ t.stage = "fund_schedule"})
FundedOnce == wallet # "mobile" => \A s \in Scheds : Funds(s) <= 1

(* At most one write of the owner is in flight, and while one is whose     *)
(* operation ended without it, everything of the owner is blocked.         *)
OneWriteAtATime == wallet # "mobile" =>
  /\ Cardinality(Flying) <= 1
  /\ Flying # {} => Blocked

(* "failed indicates failure before a possible write"                      *)
(* (doc/schedule-operation-recovery.md): a failed operation sent nothing   *)
(* and nothing of it was sent.                                             *)
FailedIsBeforeAnyWrite ==
  \A id \in DOMAIN ops : ops[id].status = "failed" =>
    \A t \in DOMAIN txs : t # id.tx /\ ~(id.kind = "create" /\ t.n = 0 /\ t.sched = ops[id].sched)

(* It holds where the scheduler, and not the wallet, sends.                *)
FailedWroteNothing == wallet # "mobile" => FailedIsBeforeAnyWrite

(* A schedule that runs is funded on chain.                                *)
ActiveIsFunded == \A s \in stored : chain[s].created /\ chain[s].funded > 0

(* One draft at a time: no replacement is begun beside an unfinished one,  *)
(* even one that no operation knows of.                                    *)
OneDraft == Cardinality({s \in Scheds : drafts[s] # NoSpec}) <= 1

(* One unfinished write and one unfinished draft of an owner at a time.    *)
OneAtATime == OneWriteAtATime /\ OneDraft

(* The record tells the truth about the chain, both ways: what failed      *)
(* wrote nothing, what is active is funded.                                *)
OutcomesAreTrue == FailedWroteNothing /\ ActiveIsFunded

(* What the page reports as created exists.                                *)
SuccessIsTrue == \A tab \in Tabs : tabs[tab].told = "success" => ops[tabs[tab].op].sched \in stored

(* An operation's outcome is final, but for a signing request that a later *)
(* submission supersedes, and it names that submission.                    *)
OutcomeStands ==
  [][\A id \in DOMAIN ops : ops[id].status # "running" /\ ops'[id] # ops[id] =>
       /\ ops[id].status = "complete" /\ ops[id].signs # "queued"
       /\ ops'[id].status = "superseded"
       /\ ops'[id].next.tx.stage = ops[id].signs /\ ops'[ops'[id].next].status = "running"]_vars
=============================================================================
