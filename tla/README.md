# DamageBDD in TLA+

DamageBDD runs behaviour-driven tests as a paid service.  Around the runner it
has grown a supervised agent (a planner that works on an account's behalf under
a price ceiling held by a contract), a scheduler, wallets, a remote signer, an
IPFS layer and a search index.  Most of it is Erlang/OTP: processes with
mailboxes, supervisors that restart them, durable tables, and calls to things
that may not answer.

This directory holds TLA+ models of the parts of it where ordering, crashes and
lost answers decide whether the program is right, the TLC runs that explore
small instances of them, and proofs of the most important results for every
instance.  Everything is translated from the code under `src/`; `PROJECT.json`
maps each definition to its lines.

- [The system](#the-system): its parts, their state, how they interact
- [The modules](#the-modules): what models what, and at which grain
- [The runs](#the-runs): what each explores, the bounds, the fairness
- [The proofs](#the-proofs): what is proved, and how
- [What the models showed of the code](#what-the-models-showed-of-the-code)
- [What is not modelled](#what-is-not-modelled), [The plan](#the-plan)

To run a model: `tlc -config AgentTask_recovery.cfg MCAgentTask`; to run the
proofs of a module: `tlapm AgentTaskProofs.tla`.


## The system

Paths are relative to `src/`; `damage` stands for `apps/damage/src/damage`.

### The supervised agent

An account asks for a goal from a reviewed *template*.  A *planner* (a local
model) proposes one step at a time: act, wait, or finish.  Actions run in
workers, some after the owner's approval; a finish proposal is accepted when
every required action has evidence and an acceptance gate passes.  In accounting
mode `aeternity`, a ceiling is reserved on chain first, every invocation is
authorized by a policy contract and booked at a fixed price before it starts,
and the total is settled and receipted at the end.

| part | state it keeps | operations |
|---|---|---|
| task `damage_agent_task.erl` | the job record (status, budget, spent units, pending proposal, evidence, counters, outcome), the running operation with its timers, the deadline | boot, plan, propose, execute, verify; reserve, authorize, settle, file; pause, resume, cancel, approve, reject, reconcile; time-outs; recovery in `init/1` |
| policy, budget `damage_agent_policy.erl`, `_budget.erl` | none: templates, tariffs, limits from the configuration | `cost`, `charge`, `profile`, limits |
| coordinator `damage_agent.erl` | monitors and running tasks | start, launch, recovery at boot, `'DOWN'`, forwarding of commands |
| store `damage_agent_store.erl` | `tasks.dets`, a hash-chained event list per task | create (request keys, quotas), save (revision compared), all |
| chain adapter `damage_agent_chain.erl` | none | reserve, authorize, settle, write a receipt, reconcile: read-only |
| actions, planner, drafts | none of their own | each runs in a worker under a `state_timeout` |
| HTTP, canonical codec | none | parse, authorize, forward |

The task calls the store synchronously at each checkpoint, runs everything slow
in one linked worker at a time, and is monitored by the coordinator, which
relaunches it from its record.  Store, coordinator and task supervisor are
`one_for_all`.

*Hard:* a crash between any two checkpoints of a handler that writes several; a
mutation whose transaction is included after its operation was killed; an
approval, a template or a deadline that changes while the chain is asked; save
requests that outlive the process that sent them.
*Right means:* nothing is mutated twice, no work without a hold, no work after an
outcome is unknown, money adds up, a finished task leaves nothing open, an
approval is used once, a request key names one task.

### IPFS

| part | state | operations |
|---|---|---|
| request queue `damage_ipfs_queue.erl` (twice: client and fetcher) | accepted jobs, waiting queue, slot counter | request, result, deadline, caller's and worker's death, drain |
| pin store `damage_ipfs_store.erl` | `pin_intents.dets`: desired state and revision of each CID; in memory an index of what is due | desire, next\_pending, complete, page, requeue, verification\_result, metadata |
| pinner, reconciler `damage_ipfs_pinner.erl`, `_reconciler.erl` on `damage_ipfs_loop.erl` | one pass each, a cursor, failure counters | apply the intent due next; compare a page of applied ones with the node |
| backend, Kubo, discovery, publication, health, peers | connections | HTTP to the node |

Pinner and reconciler call the store and, through the queue, the backend.  The
supervisor is `rest_for_one`: store, client, fetcher, pinner, reconciler.

*Hard:* four events race to end a request; a killed worker's operation may reach
the node later, after an opposite one; a pass works on rows that are replaced
while it waits; the due index lives in memory only.
*Right means:* every caller is answered once, no slot leaks, the latest request
stands, and the node ends up as it was last asked to be.

### Durable schedules

Creating a schedule takes three contract transactions: it is created, the
contract is allowed the amount, and it is funded.  A custodial account leaves
all three to the server; a wallet's owner signs each in the browser, or lets a
mobile wallet sign, broadcast and come back.

| part | state it keeps | operations |
|---|---|---|
| page `apps/damage/priv/static/js/schedules-v2.js`, `schedule-operations.js` | what it waits for; on a mobile device the transaction the wallet was sent off with (`localStorage`) | create, sign, redirect and resume, observe an operation, "Check / continue" |
| scheduler `damage_schedule_v2.erl`, `_contract.erl`, `_operation.erl` | the journal of operations, drafts, schedules (files); one worker and one deadline timer for each owner | start\_operation (retry, refusal, admission, supersession), completion, deadline, recovery |
| worker (spawned) | its stage, checkpointed before each write | vault, preview, draft, submit, wait, store |
| contract, chain | schedules, allowance | include or drop a transaction |

*Hard:* a request that timed out in the browser is served afterwards; two tabs
sign the same transaction; the deadline or a restart kills a worker between a
checkpoint, a transaction and its confirmation; what it sent is included later.
*Right means:* no schedule is funded twice; `failed` means that nothing was
written; one unfinished write and one draft at a time; what the page reports as
created exists.

Pausing, resuming, cancelling and the execution of occurrences are part of the
same modules and not modelled.

### Pages

- **Voice notes** (`apps/nosternity/assets/src/voice-note.js`): hold to record,
  then a transcript by the browser's recogniser or by the node.  State: the
  session that owns the recorder, the clip on review with its object URL, the
  transcript, the language and mode menus, the probe of on-device recognition.
  *Hard:* permission, recogniser, recorder, timers and transcription answer long
  after the session that asked is gone.  *Right means:* no microphone is left
  open, no transcript of another clip, no audio to a recogniser that was not
  allowed, nothing leaked.
- **ECAI console, index jobs** (`apps/ecai/priv/static/js/ecai-console.js`, with
  `ecai_index_jobs_srv.erl` and `_sse.erl` behind it): a list that learns of jobs
  from a poll, the detail of the open row, the answers to its own commands and
  an event stream that drops and reconnects.  *Hard:* these four arrive in any
  order, and across a change of view or account.  *Right means:* progress never
  rewinds, the log loses and repeats nothing but where a retry or resume starts it
  again, an open row is followed to its end, and nothing is shown to another account.

### Runner, chain client

- **Legacy scheduler** (`damage_schedule.erl`, `_index.erl`): superseded.
- **BDD runner** (`damage.erl`, `damage_bdd_service.erl`): folds steps over a
  context; failure, skipping and clean-up order matter.
- **Step libraries** (`steps_*.erl`): input and output.
- **Aeternity client and node pool** (`damage_ae.erl`, `damage_ae_node_pool.erl`):
  nonces, signing, failover between nodes.

### Wallets, signing, sales

- **Nostr Wallet Connect** (`damage_nwc_*.erl`): requests from relays answered
  once, an invoice watched until paid or expired.
- **Lightning, L402, swap options** (`damage_cln.erl`, `damage_l402.erl`,
  `damage_swap_option.erl`): a preimage is released against one payment.
- **nsecbunker** (`damage_nsecbunker*.erl`): remote signing with a replay cache,
  a rate limit and an approval gate.
- **NFT sales** (`damage_release_nft*.erl`, `damage_theme_purchase.erl`): one
  active checkout per token, a paid invoice and a transfer of unknown outcome.
- **Accounts, identity, secrets**; **analytics, balance cache, invoices, tax
  journal**; **encrypted context scopes and settings**; **quickstart trials**;
  **market maker** and its ledger; **state channels and job registry**.

### Connections, machines, operations

Webdriver, recorder and themes; Nostr client pool; monitors, disposable
machines, SSH/SMTP listeners; code reload and upgrade.  Their state is mostly
that of an external program.

### The other applications

- **ecai**: a write-ahead log and ingestion writer (`ecai_wal.erl`,
  `ecai_ingest_writer.erl`: torn tails, replay), index jobs, pool and reward
  ledger (`ecai_index_*.erl`: leases, one reward per job), a patch manager,
  search, learning, voice.
- **erm**: a desktop client.  **nosternity**: a relay.  Vendored libraries
  (`zx`, `bech32`, ...), static sites, packaging.

`PROJECT.json` lists all of these under `components`, with what is modelled of
each, and the hazards the properties are aimed at.


## The modules

    AgentPolicy ---- AgentTask ---- AgentTaskInductive ---- MCAgentTask
                        |                    |
                    AgentEscrow       AgentTaskProofs
                     (refined)
    AgentStore ----- MCAgentStore         IndexJobs --- MCIndexJobs
      |        |                            |
      |    AgentStoreProofs               IndexJobsProofs
    AgentRecords
     (refined)

    Queues --------- IpfsQueue ----- MCIpfsQueue
      |                  |
      |              IpfsQueueProofs
      |                  |
      |              QueuesProofs
      |                  |
      +-- IpfsPins - IpfsPinsProofs

    ScheduleOps ---- MCScheduleOps        VoiceNote --- VoiceNoteProofs
      |
    ScheduleOpsProofs

### AgentPolicy

Templates and prices as constants with their assumptions: effects, approval
flags, prerequisites, required actions, tariff, ceiling, limits; the tests
`NeedsApproval`, `Rate` and `Affordable`.  The contents of goals, observations
and evidence do not matter to any property and are left out.

### AgentTask

The gen\_statem, the coordinator's treatment of one task, the adapter and the
three mutations on chain.

**Grain.**  A handler writes one or more durable checkpoints, and a crash can
fall between any two.  A step is the code from one checkpoint to the next; what
is left of the handler is `task.next`, and no mailbox event is handled before it
(`Listening`).  gen\_statem's own next events (plan, execute, ...) are
continuations too, because they precede the mailbox.  The process's job map is
always that of its last checkpoint, so the record `job` stands for both.

| variable | code |
|---|---|
| `job` | the checkpoint: `status`, `interrupted_phase`, `budget`, `spent_units`, the pending proposal, evidence (`completed_skills`), counters, `pause_requested`, `accounting_resume_phase`, `execution_status`, the receipt draft's cost |
| `task` | whether the process lives, whether its operation runs and has handed its transaction over, the continuation |
| `coord` | `launch/2` pending, a `'DOWN'` to handle, or nothing |
| `env` | deadline passed, deadline timer armed, template unchanged, fault counters |
| `chain` | each mutation: never sent, in flight, included, dropped; its amount |
| `hist` | what really happened (invocations, their price, approvals given, effects lost), read by properties only |

**Actions.**  `Internal` are continuations; `WorkResult` what planner, actions
and verifiers answer, `ActionFailed` and `WorkInterrupted` being those after
which an effect is unknown; `AccountingResult` what the adapter answers,
`OutcomeUnknown` being time-out, death and ambiguous answers; `Timer` deadline,
wait and approval expiry; `Command` the owner's; `Coordinate` launch, failed
launch, `'DOWN'`.  `Submit` hands a transaction to the node and `TxEnds`
includes or drops it, whether or not anybody still waits: this is how a killed
operation's transaction is included later.  Nobody owes progress on chain.

### AgentEscrow

Four actions: the promise of the accounting to somebody who sees only the
contracts and the meters.  Open once; work against the hold and within the
ceiling; settle once, for at least the work done and at most the ceiling; file.
`AgentTask!ImplementsEscrow` maps the task to it.

### AgentTaskInductive

The strengthenings that make the safety of AgentTask inductive: `Inductive` (the
record against process, chain and meter) and `Answerable` (the record against what
really happened); see the proofs.

### AgentStore

Many tasks, the store's mailbox, the coordinator's calls, the task processes'
checkpoints, the supervisor.  A client of the store blocks; a call that times
out leaves its request to be served when nobody waits.  `coord.at` is the call
the coordinator waits in; `todo` its jobs to relaunch.  Terminal states are
`done`, paused and interrupted ones `halted`: the store and the coordinator
tell no more apart.  `Asks` are the start requests clients may make; an identifier
is drawn at random and compared for equality only, so `Fresh` picks any that no
record carries.  This module checks what AgentTask takes for granted: the
record a process works on is the one in the store.

### AgentRecords

What AgentStore promises to whoever starts tasks: a table in which a request is
admitted once and within the quotas, records advance one revision at a time and
end for good, and answers name the task that was asked for.
`AgentStore!ImplementsRecords` maps the store's table and the answers given to it;
mailbox, coordinator, processes and faults are not seen.

### Queues, IpfsQueue

`IpfsQueue` is one handler per step, except that `drain/1`, which looks at the
clock on each turn, is one step per turn with no message in between.  Workers,
callers, timers and monitors are processes of their own; a killed worker's
result may already be in the mailbox, and `Flush` is `cleanup/1`'s demonitoring:
it takes the two deaths out of the mailbox and leaves the result and the deadline.
`Queues` holds what both IPFS modules say of a queue in which nobody stands
twice.

### IpfsPins

The store of intents with its index `due`, the two passes, their loops, the
supervisor, and a node that may refuse some CIDs for ever (`Stubborn`).

**Grain.**  A pass is cut where it waits, for the node or for the store.  The
store serves its mailbox in order, so a call left there by a killed pass is
served before anything its successor asks: it is as if the pass had died after
it.  Intervals and retry delays are kept as an order, who is due and before
whom.  An operation given up on is added to `late` and may land on the node at
any later step, once; that is what the queue in front of the node can leave
behind (`IpfsQueue!Kill`).  `asked` and `done` record the last request served and
the last operation a pass saw succeed.  A revision is a positive integer, as in the
code; `MaxRequests` only bounds how many requests are made.


### ScheduleOps

One owner, all of its pages, the scheduler process, the one worker an owner may
have, and the chain.

| variable | code |
|---|---|
| `ops` | the journal: status, stage, schedule, the stage a complete operation asks to sign, the operation that superseded it |
| `drafts`, `stored` | drafts and schedules on disk |
| `worker` | the spawned process and its reply under way |
| `txs`, `chain`, `allowed` | transactions and their fate; the contract |
| `requests` | POSTs under way or in the scheduler's mailbox |
| `tabs`, `pending` | pages; `damage_schedule_v2_pending` |

An operation is known by what was asked (`identity/3`): the payload of a creation,
the transaction of a submission.  A custodial transaction is signed by the server
once for each stage; one signed in the browser carries a number, so that two
signatures of one stage are two transactions.  `PostFails` covers both a lost
request and a lost answer.  `TxIncluded` needs nobody who waits.  Reconciliation
by an operator is a change of the journal by hand and not part of the program.

### VoiceNote

Every `await` is a session that stands at a `step`, every callback an action that
may come at any time after it was registered; session objects outlive their
session because late callbacks hold them.  `Wrap` is what is
left of `finish` when the recogniser has had its say: any recording may turn out
empty or silent there.  `Fairness` is the code's own timers only.

### IndexJobs

A job is its list of durable events; a record or an answer is a position in it.
`wire` holds requests with the answer they will get, which may be stale when it
comes.  The stream (`ui.session`) connects, reads events one at a time, is refused,
drops, waits and reconnects; a closed row, a view left, a sign-out or an end of the
job stops it.  Other operators' commands are `JobMoves`.  The log of a row holds the
numbers of the events streamed to it and a `Restart` for the line "Operator retry
accepted" (or resume), which carries no number; that line is added to the log as it
stands, and `last` is set to just before the accepted event (`Restarted`).  The
page cuts its log to 80 lines, from the front; the model keeps all of them.

### AgentTaskProofs, AgentStoreProofs, IpfsQueueProofs, QueuesProofs, IpfsPinsProofs, ScheduleOpsProofs, VoiceNoteProofs, IndexJobsProofs

The theorems of each module; see [The proofs](#the-proofs).  `MCAgentTask`,
`MCAgentStore`, `MCIpfsQueue`, `MCScheduleOps` and `MCIndexJobs` give constants their
values for TLC and define nothing else.


## The runs

Times are for two workers of a small machine.

| run | explores | bounds | states |
|---|---|---|---|
| `agent_recovery` | a metered task through a service restart and an exit between any two checkpoints | push, 2 iterations, ceiling 5 | 1.57 M, 65 s |
| `agent_unmetered` | the same with accounting disabled and every kind of effect | read, artifact, push, 4 iterations | 302 k, 7 s |
| `agent_deadline` | under fairness, two restarts | push, 1 iteration, ceiling 4 | 197 k, 60 s |
| `agent_adopted_hold` | *violated*, see below | 1 restart and 1 exit | |
| `store_records` | start requests repeated and varied under two keys, three quotas, any two faults, fair | 3 identifiers, 2 saved, 2 revisions | 304 k, 125 s |
| `queue_bounded` | three requests for one slot and one place, a restart | | 1.46 M, 45 s |
| `queue_answered` | under fairness, two requests, a restart | | 55 k |
| `pins_converge` | three requests on two CIDs, one of them stubborn, any one fault, fair | batch 1 | 251 k, 33 s |
| `schedule_creation` | two pages, two payloads, each kind of wallet, lost and late requests, the deadline, a restart | 2 schedules, 4 signatures | 812 k, 70 s |
| `schedule_mobile_failed` | *violated*, see below | a mobile wallet | |
| `voice_sessions` | every order of callbacks of three sessions and two probes, fair | 2 languages | 117 k, 25 s |
| `index_jobs` | two jobs, one request under way, one change of account, dropped streams, fair | 3 events, 1 replayed | 223 k, 110 s |

### What the properties say

A property of a run may be the conjunction of parts that one argument covers; the
parts have names and comments of their own in the module.

*Agent.*  `MoneyStands`: invocations only under an included reservation and before
anything is sent to settle it (`WorkUnderHold`); work done <= booked <= ceiling,
settlement and receipt carry what was booked (`MoneyAddsUp`); a finished task has
nothing open (`TerminalIsClosed`).  `MutationsStand`: each mutation is submitted
once, in order.  `LostEffectIsFinal`: after an action of unknown outcome nothing is
invoked, and the task's end says so.  `ProposalRunsOnce`: one dispatch per
proposal, after its own approval.  `CompletedIsVerified`: completed means evidence
and gate.  `Answerable`: through every crash and recovery the record still tells what
happened, and so what may be resumed and how the task must end.  `DraftIsFinal`: the receipt draft is not rewritten by any recovery.
`DeadlineConcludesOrParks`: the deadline ends a task that waits for nobody, or
finds it parked after its event was consumed.  `SettledIsReceipted`: recovery
goes on from a settlement to its receipt.  `ImplementsEscrow`: the refinement.
`AdoptedHoldNeverWorks`: a hold known by reconciliation only is not worked under;
it fails once a restart and a worker's exit come together.

*Store.*  `AdmissionHolds`: a request key names one task, the one asked for, for
ever, and no quota is exceeded.  `CheckpointsAreCurrent`: late
save requests of dead processes change nothing behind a live one's back and never
make the `'DOWN'` handler's assertion fail.  `ImplementsRecords`: the refinement; in
it, no finished task is reopened and no checkpoint skipped (`RecordsOnlyAdvance`).
`EveryTaskIsServed`: an unfinished task has a process again, unless its start
failed.

*IPFS.*  `SlotsAccounted`, `NothingRunsUnowned`, `OneAnswerEach`: counter, map, queue,
workers and callers agree after every race, and no slot idles beside a waiting
request.  `EveryoneAnswered`, although workers may hang for ever;
`AbandonedIsReleased`, although no clock moves.  `IntentsStand`: no stale pass brings
back, rewrites or completes an intent that is not the one it read.  `Converges`:
when requests and faults cease, every CID that is not stubborn is and stays as
last asked.

*Schedules.*  `OneAtATime`: at most one write of an owner is in flight, and while
one is whose operation ended without it everything else is blocked; at most one
draft.  `OutcomesAreTrue`: what failed wrote nothing, what is stored is funded on
chain.  `FundedOnce`.  `SuccessIsTrue`: what a page reports as created is stored.
`OutcomeStands`: an outcome is final, but for a signing request superseded by the
submission it asked for.  The first three leave the mobile wallet out, which
sends by itself; `FailedIsBeforeAnyWrite` is what the documentation says of it.

*Voice.*  `MicrophoneIsOwned`, `TextIsTheRecording`, `AudioStaysWhereAllowed`,
`NothingLeftBehind` (object URLs; a destroyed recorder is quiet for good), and
`BusyEnds`: a recording that was begun comes to an end by the code's own timers,
whatever recogniser and server do.

*Index jobs.*  `StreamsAreSound`: a log loses and repeats no event except at a line
that says that a retry or resume was accepted, and runs on there with an event that
took the job back to work (`LogBreaksOnlyAtRestarts`); only the open row is followed,
only the account's own rows are shown.  `ProgressStands`:
a row shows the state its job had at the number it shows, and never an older one.
`FollowedToTheEnd`: an open row comes up to date, unless the stream was refused or
the page took the history for complete.

Each property has a mutant of a mapped definition, listed in `PROJECT.json` and
marked "Mutant" in the modules, that makes its run fail.

### Why the bounds are enough

- *Agent.*  Crashes are interesting between two checkpoints, so one restart and
  one exit reach every pair of them once, in both orders; two restarts reach
  recovery of a recovery.  Two iterations distinguish "this proposal" from "an
  earlier one", the ceilings are such that the last invocation does not fit, and
  with three iterations every limit (read failures, verification failures, no
  progress) is met.  One skill suffices with faults, since skills differ only by
  their effect; the unmetered run has one of each.
- *Store.*  The four requests (`FourAsks`) are a first one, another under its key,
  another key, and another account; three identifiers with two saved leave one
  to be drawn afresh.  Two faults are any pair of a time-out, an exit, a failed
  start and a restart.  The quotas (two active, one for each owner, two saved)
  are all met, the active one never without the saved one; alone it is met in
  the proof only.  No symmetry is used, because a liveness property is checked.
- *Queue.*  One slot and one place make the third request the one that is refused.
  Requests are symmetric; deadlock checking is off only because there are finitely
  many of them, after which nothing need happen.
- *Pins.*  Three requests on one CID give pin, unpin, pin, where the last looks
  like the first but for its revision.  One fault can leave an operation to land
  late, and a restart can do so too.  With two faults the properties hold as well
  (1.06 M states, under three minutes).

- *Schedules.*  Two pages and two payloads give every pair of repeated, varied and
  crossed requests; two schedules are a first and a replacement.  A desktop owner
  signs four times, so that each stage is signed once and one of them twice.  One
  restart and any number of deadlines meet every stage.  Pages and payloads are
  symmetric; only safety is checked.
- *Voice.*  A session can outlive its successor only while its callbacks are out, and
  three sessions (two recordings and a transcription) with two probes are the
  least in which a callback of the first recording meets the second one's
  transcription.  No recording follows a transcription within this bound (a fourth
  session is too much for TLC): that a late transcript is not written under a
  later clip is shown for every bound by `TextAlwaysTheRecording`.
- *Index jobs.*  One job moves, by three events of which one is replayed on a first
  connection, so that a reconnection has something to miss; the other stands
  beside it to take the open row, the selection and the list away.  With one
  request on the wire an answer can already be older than an event or a command.
  Three events suffice for a log that skips one at a restart (1, restart, 3) and for
  one that repeats one (2, 3, restart, 3); a second restart is left to the proof.

### Fairness

- *AgentTask*: a ready process runs (`Internal`), every operation carries a
  `state_timeout` and so ends (`OperationEnds`), timers fire, the coordinator
  handles its messages, clocks move.  Owners, operators, the chain and faults owe
  nothing.
- *AgentStore*: store and coordinator run; a `'DOWN'` message is in a mailbox
  served in order, so start requests cannot pass every one of them for ever: strong
  fairness of handling some `'DOWN'`, which is less than the mailbox guarantees.
- *IpfsQueue*: only the queue process; that clocks move is a hypothesis of
  `EveryoneAnswered` and not needed by `AbandonedIsReleased`.
- *VoiceNote*: the recording limit, the recorder's stop event, the 1500 ms for the
  recogniser, the 65 s for the transcription.  Nothing of user, permission,
  recogniser or server.
- *IndexJobs*: requests fail in the end and the back-off fires (weak); a poll, an
  answer, a connection and the delivery of an event succeed if tried again and
  again (strong): the page cannot do better than try.
- *ScheduleOps*: none, only safety is stated.
- *IpfsPins*: the loops run a pass when the last has ended, an answer comes (what
  `EveryoneAnswered` shows of the queue), retry times come.


## The proofs

Every theorem holds for all values of the constants that satisfy the modules'
named assumptions (`TemplateAssumption`, `TariffAssumption`, `LimitAssumption`,
`BoundAssumption`, `StoreAssumption`, `NoJobAssumption`, `QueueAssumption`,
`PinsAssumption`, `ScheduleAssumption`, `NoOpAssumption`, `VoiceAssumption`,
`IndexJobsAssumption`), which say that bounds are natural numbers,
that tables are functions on their sets, and that "none" is not a value.  Every
invariant, every action property and both refinements that the passing runs check
are stated by theorems.

**AgentTaskProofs.**  None of the safety properties is inductive alone: that a
recovered process does not settle twice depends on what its record says of what
its predecessor had sent.  `Inductive` is `TypeOK` and `Agreement`, ten named
parts in four groups:

- *Process, Continuation, Proposal*: which statuses a live process, a running
  operation and each continuation can stand in;
- *Stage, Intent*: each task status admits certain budget statuses only, and an
  operation that writes runs against the intent recorded for it;
- *Ledger, OneWriter*: each budget status fixes what is known of each mutation:
  unsent, uncertain, or confirmed; an operation that has not submitted yet is the
  only one that ever will.  A record read back after any crash therefore says
  what may still be sent;
- *Draft, Booking, MoneyAddsUp*: the receipt is drafted with the settlement
  intent, and an invocation about to start is booked.

There is one lemma per action (`PlanKeeps`, `ReservedKeeps`, ...); those of
similar shape rest on a common one (`QuietMove`, `TurnMove`, `OutcomeMove`,
`LocalStep`, `DownMove`).  From `AlwaysInductive` follow `TypeCorrect`, `WorkIsHeld`,
`SentOnce`, `SentInOrder`, `EndsClosed` and `BooksBalance`, and from these the
composites the run checks, `MutationsAlwaysStand` and `MoneyAlwaysStands`; with a case per action,
`DraftNeverChanges` (an action property) and `TaskImplementsEscrow` (the
refinement: a step changes the escrow's variables only in `Spawn`, which is
`Work`, and `TxEnds`, which is `Open`, `Close` or `File`).

What a task says of itself when it ends, the second half of the module, needs
`Answerable`, inductive on top of `Inductive`:

- *Bearings*: work in progress has no interruption on record.  That is why the
  `'DOWN'` handler, which keeps a phase that is already there, still writes the
  right one when an action is what the exit cut short;
- *Gate*: whoever is past the finish proposal has the evidence, through the
  authorization of the verifier as well;
- *Disclosure*: an effect of unknown outcome is on record as the interrupted phase,
  which `unsafe_resume/1` and the deadline heed and a cancellation turns into
  `cancelled_unreconciled`, and from the settlement intent on as the drafted
  outcome, which every later hold and reconciliation carries to the end;
- *Consent*: a proposal on its way to its execution has not run, and if it needs
  an approval, the owner gave it to this one.

One lemma for each common end of a handler (`ParkAnswers`, `FinishAnswers`, ...) and
one for each action or group of actions; `Quiet` covers every state that is neither
work nor a proposal.  From it follow `CompletionIsEarned`, `LossesAreDisclosed`,
`ProposalsRunOnce` and `LostEffectsAreFinal`.

**AgentStoreProofs.**  The question is who may still write a record.  `Custody` says
that a task is with its process, with a `'DOWN'` message, in the coordinator's
hands or on its list of jobs to relaunch, never with two of them (`Processes`,
`Relaunches`, `InHand`); whoever writes has the record as it is in the store, but for
a start the coordinator takes for failed (`failing`), whose record may have been
advanced by the process's own first checkpoint.  `Mailbox` says what the store
may still be asked: at most one message of the coordinator, the one it waits for
(`Expected`), and at most one checkpoint of each task, based on the record and sent
before the coordinator's message about that task (`Based`, `Ordered`).  That order
is why a time-out cannot hurt: the coordinator reads the table through the same
mailbox, so what it reads has the dead process's checkpoint in it.  `StoreInvariant`
proves `TypeOK /\ AdmissionHolds /\ Custody`; from it follow `CheckpointsAlwaysCurrent`,
`RecordsAlwaysAdvance` (an action property), `StoreImplementsRecords` (the refinement:
`StoreCreates` is `Admit` or `Answer`, the two kinds of save are `Advance`, with an
answer where they end a launch, and `ProcessStarts` is `Answer`) and
`CheckpointsNeverRefused`: no checkpoint of a task process is ever refused for its
revision.  `save/3`'s
comparison is needed against the coordinator only, after a start it takes for
failed.  The quotas rest on the cardinality of images and subsets of finite sets.

**IpfsQueueProofs.**  `WorkersAreOwned` needs that started jobs are among the
accepted; `SlotsAlwaysAddUp` is inductive with types of the variables it names and
the finiteness of the set of jobs; `SlotsAreFilled` follows step by step from it.
`SlotsAlwaysAccounted` is both.  `QueuesProofs` states what removing, taking and
appending do to a queue without repetitions.

`OneAnswer` and `QueueTypeCorrect` follow from `Mail`: the types,
the slots, and for each request what may still be in the mailbox about it.  A
call that has not been taken has left no other trace (`Untouched`); its caller's
death is there only if the caller is dead, its worker's result and death only if
the worker has ended, its deadline only if the timer is no longer armed, so
that each message comes once (`Once`).  That is why a mailbox never holds a message
twice, and why `finish/4` may forget a job while others about it are under way.
`OneTouched` says that a step about one request leaves what is known of the others.

**IpfsPinsProofs.**  `Books` has four parts: the shelf (types of intents and of
the due index), the hand (what the pinner carries was read from an intent: its
revision is at most the current one, and if equal, it wants the same), and the
two properties `RequestsStand` and `AppliedIsDone` state.  The hand is what makes an
answered pass harmless: either its revision is current, and then its success is
this intent's, or it changes nothing.  `PinsTypeCorrect` needs `Flow`: in addition to the
books, room in the table, no more late operations than there were faults, and
pages whose next row and last CID exist.  The latter are a least and a greatest
element of a set of numbers, which `LeastNatural` takes from the well-foundedness of
`<` on `Nat`.

**ScheduleOpsProofs.**  `Inv` has eight parts.  `Pages` says that what pages show was
read from the journal; `Journal` what an operation's record says of itself; `Alone`
that the living worker's operation is the only one that blocks the owner; `Work`
how far the worker has written that record at each of its steps; `Drafts` and
`Truth` the data on disk and on chain.  The heart is `Careful`, which holds where the
scheduler sends: a transaction in flight is the living worker's, or else an
operation of unknown outcome is left in the journal (`Flight`); every signed
transaction has its operation, beyond its first checkpoint (`Known`); and a
schedule that is funded or about to be has no draft any more, or one that nobody
can submit for, because the owner is blocked (`Money`).  That is why an operation
admitted after any crash finds nothing in flight, and why a second signature of a
funding transaction finds no draft.  `EndKeeps` covers completion, deadline and
restart alike, `WorkerStepKeeps` all steps of a worker but the sending, `PageKeeps`,
`AnswerKeeps` and `PostKeeps` the pages.  `OutcomesStand` is an action property.

**VoiceNoteProofs.**  A late callback finds its own session record and nothing else,
so `Sound` ties all that matters to `current` (`Owner`, `Numbered`, `Written`,
`Probing`) and says next to nothing of the others.

**IndexJobsProofs.**  The page is one variable, `ui`, and handlers are compositions of
operators on it; each operator has a lemma that it keeps `SoundUi`, and each request
sent or answered one that it keeps `SoundWire`.  `SoundUi`: every row is a record its
job had at the number it shows, fetched for this account; its log breaks only at
restarts, and event `last + 1` may come next in it (`Log`); at most one row is open,
and it is on the page; and the stream, if there is one, follows that row and stands
at `last`.  `LogGrows` and `LogRestarts` are the two ways in which a log gets longer.
`SoundWire`: what is under way was asked for by an account that was signed in, will
be dropped if that account has left, and carries a record that its job really had;
an accepted retry or resume names the event that took its job back to work, and
a row that its handler still holds is on the page.  The last is why a late detail
cannot put a row back that a poll took away.  From `PageInvariant` follow
`StreamsAlwaysSound` and, step by step, `ProgressAlwaysStands`.

**Only model-checked.**  The liveness properties: `DeadlineConcludesOrParks`,
`SettledIsReceipted`, `EveryTaskIsServed`, `EveryoneAnswered`, `AbandonedIsReleased`,
`Converges`, `BusyEnds`, `FollowedToTheEnd`.  They rest on fairness and so on ENABLED,
which is out of the prover's reach.  `AdoptedHoldNeverWorks` and
`FailedIsBeforeAnyWrite` are violated.  What a fold over a set or a recursive definition
computes cannot be proved either; no theorem depends on it (the bound
`MaxRequests` on the sum of revisions is used by none).


## What the models showed of the code

1. **A reconciled hold can be worked under** (`agent_adopted_hold`,
   `damage_agent.erl:96`).  The `'DOWN'` handler keeps an `interrupted_phase` that is
   already there.  A task restarted in `accounting_pending` whose owner reconciles
   the reservation, and whose process exits between the `reservation_reconciled`
   checkpoint and the settlement intent, comes back with budget `reserved` and the
   phase of the *first* interruption, which `unsafe_resume/1` does not list.  A
   resume then executes the task, which the comment at `damage_agent_task.erl:546`
   and `docs/AGENT_ACCOUNTING.md:128` exclude.
2. **A mobile wallet's transaction can be recorded as failed**
   (`schedule_mobile_failed`, `damage_schedule_v2_operation.erl:35`).  The wallet
   broadcasts before the server hears of the transaction.  Its submission is
   admitted with stage `queued`, which `failure_status/2` counts as before any
   write: a restart or the deadline before the first checkpoint makes it `failed`.
   A failed operation blocks nobody, every exact retry is answered with it, and
   its draft keeps a new creation out.
   `apps/damage/doc/schedule-operation-recovery.md:85` says that `failed` indicates
   failure before a possible write.

Noticed on the way, and not stated as properties because no line of the
repository promises otherwise:

- `damage_agent_task.erl:82`: the deadline timer is armed once and its event consumed
  in states that ignore it.  A pause requested earlier, a deadline that passes
  while the reservation is in flight, and a reservation that succeeds park the
  task with its hold open; `DeadlineConcludesOrParks` says "or parks" for it.
- `schedules-v2.js:625`: after a lost POST of a mobile transaction "Check / continue"
  asks the wallet to sign and broadcast the same stage again.
- `ecai-console.js:2220`: a stopped job whose first connection fails is said to be
  complete; and `:1915`: that flag survives a retry or a resume by another operator,
  so that the events of the new run are not followed.  `FollowedToTheEnd` excepts both.
- `ecai-console.js:2010`: after an accepted retry or resume the stream starts again
  from the accepted event under a log that is kept.  An event that only a poll has
  shown (a failure, say, while the stream waits to reconnect) is then never logged,
  and the accepted event is logged twice if it was streamed before the answer came.
  `LogBreaksOnlyAtRestarts` allows both there and nowhere else.

Everything else that was stated holds.


## What is not modelled

- Of the agent: validation of templates and proposals (one nondeterministic
  refusal), contents of goals, observations, evidence and drafts, hashes,
  read-only views, decoding of node answers, the legacy management facade.
- Of supervision: restart intensities.  The number of faults is bounded instead,
  and a supervisor that gives up is a node that is down.
- Of the store: an I/O error is a crash of the store and so a service restart.
- Of IPFS: the rebuild of the pending index from the file (a restart leaves intents
  and their order as they were, which is what the rebuild yields), contents, addressing, the backend's protocol, CID metadata, intervals
  and back-off times (an order is kept), a clock that jumps backwards, health and
  peers.
- Of schedules: pause, resume, cancel, the execution of occurrences, cron arithmetic,
  the token upgrade, amounts (an allowance is a count of fundings), other owners'
  workers (a refusal at any time).
- Of the index-job service: leases, workers and rewards; the console sees events only.
  A restart that stores a recovery event without publishing it
  (`ecai_index_jobs_srv.erl:1133`) is left out: a live stream that outlives the restart
  would not be sent that event.
- Of the browser: layout, wording, levels and sizes.  Most JavaScript under `src/` is
  vendored (`highlight/`), bundled (`dashboard.js`) or layout, so that the mapped share
  of all source lines stays small.
- Whole components: see `components` in `PROJECT.json`.  Step libraries, backends,
  accounts and listeners are input and output; webdriver, machines, channels and
  reload tools drive state that is not the program's; search, learning, voice and
  the market maker are numeric; the rest is planned.


## The plan

The order is by what a mistake costs and how hard a test finds it.  Done: the agent
(1), its store (2), the IPFS queue (3), intents and reconciliation (4), the
creation of schedules (5), voice notes and the console's index-job list (6).

7. **Schedules v2, the rest**: `ScheduleOccurrences` (at most one run per occurrence
   across restarts), and pause, resume and cancel as further kinds of operation in
   `ScheduleOps`: they share admission, worker and journal.
8. **nsecbunker**: replay cache with eviction, rate window, approval gate; a request
   is signed at most once and never after its gate closed.
9. **Payments**: the NWC invoice watch and the NFT checkout as one pattern (an
   external payment and an external transfer of unknown outcome), against an
   abstract sale: paid at most once, delivered at most once, never delivered
   unpaid.  L402 and swap options as operators checked against it.
10. **ECAI write-ahead log**: torn tail, checkpoint, replay, against an abstract log
    (a prefix that contains everything acknowledged).  Leases and the reward
    ledger: one reward per job.
11. **BDD runner**: the fold over steps with failure and clean-up, as a recursive
    function against a reference.

Proofs: the safety of every module is done.  Next are promises stated apart from
their components, as AgentEscrow and AgentRecords do: that IpfsPins implements a
register of the latest request for each CID, and that IpfsQueue implements a pool that
answers each caller once.  They rest on invariants proved here (`Books`, `Mail`).
