----------------------------- MODULE AgentStore -----------------------------
(***************************************************************************)
(* Who writes the record of an agent task, and when: the task store         *)
(* (damage_agent_store.erl), a single process that serves its mailbox in    *)
(* order, its two kinds of clients, the coordinator (damage_agent.erl) and  *)
(* the task processes, and the one_for_all supervisor over all of them.     *)
(*                                                                          *)
(* Clients block on the store, but not for ever: a call that times out      *)
(* leaves its request in the mailbox, to be served when nobody waits.       *)
(*                                                                          *)
(* AgentTask takes for granted what is checked here: that the record a task *)
(* process holds between two calls is the one in the store.                 *)
(***************************************************************************)
EXTENDS Integers, FiniteSets, Sequences

CONSTANTS
    NoJob,        \* no job in hand
    Ids,          \* task identifiers the coordinator may draw
    Owners, Keys, \* accounts and the request_id their clients choose
    Requests,     \* request_hash: template and goal
    Asks,         \* the start requests there may be
    MaxSaved, MaxActive, MaxPerOwner,   \* max_saved_tasks, max_active_tasks, max_tasks_per_owner
    MaxAsks,      \* bound: start requests waiting at the coordinator
    MaxRevision,  \* bound: a task process writes no checkpoint beyond it
    MaxFaults     \* bound: timeouts, exits, failed starts and restarts

ASSUME StoreAssumption ==
    /\ IsFiniteSet(Ids) /\ Cardinality(Ids) > MaxSaved   \* there is always a fresh one
    /\ {MaxSaved, MaxActive, MaxPerOwner} \subseteq Nat \ {0}
    /\ {MaxAsks, MaxRevision, MaxFaults} \subseteq Nat
    /\ Asks \subseteq [owner : Owners, key : Keys, req : Requests]

VARIABLES
    disk,     \* tasks.dets: the records, by identifier
    queue,    \* the store's mailbox
    coord,    \* the coordinator: where it is, the job in hand, jobs to relaunch
    worker,   \* the task processes
    asked,    \* start requests in the coordinator's mailbox
    downs,    \* DOWN messages in the coordinator's mailbox
    told,     \* history: the tasks clients were given for their requests
    orphans,  \* history: tasks left without a process, start_child failed
    faults

vars == <<disk, queue, coord, worker, asked, downs, told, orphans, faults>>

(* done stands for the terminal states, halted for paused and interrupted.  *)
Status == {"queued", "running", "halted", "done"}

Job == [id : Ids, owner : Owners, key : Keys, req : Requests, status : Status, rev : Nat]

ASSUME NoJobAssumption == NoJob \notin Job

Message == [kind : {"create", "save", "all"}, from : {"coordinator", "worker"}, job : Job]

Places == {"serving", "creating", "starting", "failing", "recovering",
           "reading", "interrupting", "rereading"}

Idle == [at |-> "serving", job |-> NoJob, recovery |-> FALSE, todo |-> {}]
Down == [at |-> "down", job |-> NoJob]

TypeOK ==
    /\ DOMAIN disk \subseteq Ids /\ \A id \in DOMAIN disk : disk[id] \in Job
    /\ queue \in Seq(Message)
    /\ coord \in [at : Places, job : Job \cup {NoJob}, recovery : BOOLEAN, todo : SUBSET Job]
    /\ coord.at \in {"serving", "recovering"} <=> coord.job = NoJob
    /\ worker \in [Ids -> {Down} \cup [at : {"init", "run", "saving"}, job : Job]]
    /\ asked \in Seq(Asks)
    /\ downs \subseteq Ids /\ orphans \subseteq Ids
    /\ told \subseteq [ask : Asks, id : Ids]
    /\ faults \in 0 .. MaxFaults

-----------------------------------------------------------------------------
Init ==
    /\ disk = <<>>
    /\ queue = <<>>
    /\ coord = Idle
    /\ worker = [id \in Ids |-> Down]
    /\ asked = <<>>
    /\ downs = {} /\ told = {} /\ orphans = {} /\ faults = 0

AskOf(job) == [owner |-> job.owner, key |-> job.key, req |-> job.req]

Send(kind, from, job) == queue' = Append(queue, [kind |-> kind, from |-> from, job |-> job])

Received(kind, from) ==
    queue # <<>> /\ Head(queue).kind = kind /\ Head(queue).from = from

Fault == faults < MaxFaults /\ faults' = faults + 1

ServedKeepsJob == coord' = [coord EXCEPT !.at = "serving"]   \* Mutant: the job stays in hand
(* The next job to relaunch, or the next message. *)
Served == coord' = [Idle EXCEPT !.todo = coord.todo]

-----------------------------------------------------------------------------
(* Starting a task: {start,..} and launch/2 *)

(* A client asks; whether it still waits for the answer does not matter.    *)
Ask(ask) ==
    /\ Len(asked) < MaxAsks
    /\ asked' = Append(asked, ask)
    /\ UNCHANGED <<disk, queue, coord, worker, downs, told, orphans, faults>>

(* Sixteen random bytes: one that no task has; which one, nothing depends on. *)
Fresh == CHOOSE id \in Ids : id \notin DOMAIN disk

Start ==
    /\ coord.at = "serving" /\ coord.todo = {} /\ asked # <<>>
    /\ asked' = Tail(asked)
    /\ LET ask == Head(asked)
           job == [id |-> Fresh, owner |-> ask.owner, key |-> ask.key, req |-> ask.req,
                   status |-> "queued", rev |-> 0] IN
       /\ Send("create", "coordinator", job)
       /\ coord' = [coord EXCEPT !.at = "creating", !.job = job, !.recovery = FALSE]
    /\ UNCHANGED <<disk, worker, downs, told, orphans, faults>>

Unfinished == {id \in DOMAIN disk : disk[id].status # "done"}

ExistingUnfinished(job) ==   \* Mutant: a finished task frees its request_id
    {id \in Unfinished : disk[id].owner = job.owner /\ disk[id].key = job.key}

Existing(job) ==
    {id \in DOMAIN disk : disk[id].owner = job.owner /\ disk[id].key = job.key}

QuotaInclusive(job) ==       \* Mutant: the quotas are off by one
    /\ Cardinality(DOMAIN disk) < MaxSaved
    /\ Cardinality(Unfinished) < MaxActive
    /\ Cardinality({id \in Unfinished : disk[id].owner = job.owner}) <= MaxPerOwner

Quota(job) ==
    /\ Cardinality(DOMAIN disk) < MaxSaved
    /\ Cardinality(Unfinished) < MaxActive
    /\ Cardinality({id \in Unfinished : disk[id].owner = job.owner}) < MaxPerOwner

SameTask(id, job) == TRUE    \* Mutant: the key alone identifies a request
SameRequest(id, job) == disk[id].req = job.req

(* Tell(id): the client that sent coord.job is given task id. *)
Tell(id) == told' = told \cup {[ask |-> AskOf(coord.job), id |-> id]}

StoreCreates ==
    /\ Received("create", "coordinator")
    /\ queue' = Tail(queue)
    /\ LET job == Head(queue).job
           new == [job EXCEPT !.rev = 1] IN
       \/ /\ Existing(job) = {} /\ Quota(job)
          /\ disk' = [id \in DOMAIN disk \cup {job.id} |-> IF id = job.id THEN new ELSE disk[id]]
          /\ coord' = [coord EXCEPT !.at = "starting", !.job = new]
          /\ UNCHANGED told
       \/ /\ Existing(job) = {} /\ ~Quota(job)       \* task_quota_exceeded
          /\ Served /\ UNCHANGED <<disk, told>>
       \/ \E id \in Existing(job) :                   \* duplicate
             /\ SameRequest(id, job)
             /\ Tell(id) /\ Served /\ UNCHANGED disk
       \/ \E id \in Existing(job) :                   \* idempotency_conflict
             /\ ~SameRequest(id, job)
             /\ Served /\ UNCHANGED <<disk, told>>
    /\ UNCHANGED <<worker, asked, downs, orphans, faults>>

Relaunch(job) ==
    /\ coord.at = "serving" /\ job \in coord.todo
    /\ coord' = [at |-> "starting", job |-> job, recovery |-> TRUE, todo |-> coord.todo \ {job}]
    /\ UNCHANGED <<disk, queue, worker, asked, downs, told, orphans, faults>>

(* The new process records the interruption before it is considered started. *)
MustInterrupt == coord.recovery /\ coord.job.status # "halted"

TellStarted == IF coord.recovery THEN UNCHANGED told ELSE Tell(coord.job.id)

ProcessStarts ==
    /\ coord.at = "starting" /\ worker[coord.job.id].at # "init"
    /\ \/ /\ MustInterrupt
          /\ worker' = [worker EXCEPT ![coord.job.id] = [at |-> "init", job |-> coord.job]]
          /\ Send("save", "worker", [coord.job EXCEPT !.status = "halted"])
          /\ UNCHANGED <<coord, told>>
       \/ /\ ~MustInterrupt
          /\ worker' = [worker EXCEPT ![coord.job.id] = [at |-> "run", job |-> coord.job]]
          /\ TellStarted /\ Served /\ UNCHANGED queue
    /\ UNCHANGED <<disk, asked, downs, orphans, faults>>

(* start_child answers an error: the dead child is still registered, or     *)
(* init's own checkpoint timed out.  The coordinator writes what it knows:  *)
(* done without accounting, halted with a hold.                             *)
StartFails ==
    /\ coord.at = "starting" /\ Fault
    /\ worker' = [worker EXCEPT ![coord.job.id] = Down]
    /\ \E status \in {"halted", "done"} :
           Send("save", "coordinator", [coord.job EXCEPT !.status = status])
    /\ coord' = [coord EXCEPT !.at = "failing"]
    /\ UNCHANGED <<disk, asked, downs, told, orphans>>

-----------------------------------------------------------------------------
(* save/3: compare and swap on the revision *)

Current(job) == disk[job.id].rev = job.rev /\ disk[job.id].owner = job.owner
Bumped(job)  == [job EXCEPT !.rev = @ + 1]
Store(job)   == disk' = [disk EXCEPT ![job.id] = Bumped(job)]

(* A checkpoint of a task process; a stale one is its end.  The process may *)
(* be gone already.                                                         *)
StoreSavesWorker ==
    /\ Received("save", "worker")
    /\ queue' = Tail(queue)
    /\ LET job == Head(queue).job
           waits == worker[job.id].at IN
       \/ /\ Current(job) /\ Store(job)
          /\ \/ /\ waits = "down"
                /\ UNCHANGED <<worker, coord, downs, told>>
             \/ /\ waits = "init"
                /\ worker' = [worker EXCEPT ![job.id] = [at |-> "run", job |-> Bumped(job)]]
                /\ TellStarted /\ Served /\ UNCHANGED downs
             \/ /\ waits = "saving" /\ job.status # "done"
                /\ worker' = [worker EXCEPT ![job.id] = [at |-> "run", job |-> Bumped(job)]]
                /\ UNCHANGED <<coord, downs, told>>
             \/ /\ waits = "saving" /\ job.status = "done"
                /\ worker' = [worker EXCEPT ![job.id] = Down]
                /\ downs' = downs \cup {job.id}
                /\ UNCHANGED <<coord, told>>
       \/ /\ ~Current(job) /\ waits \in {"run", "saving"}
          /\ worker' = [worker EXCEPT ![job.id] = Down]
          /\ downs' = downs \cup {job.id}
          /\ UNCHANGED <<disk, coord, told>>
       \/ /\ ~Current(job) /\ waits \in {"down", "init"}
          /\ UNCHANGED <<disk, worker, coord, downs, told>>
    /\ UNCHANGED <<asked, orphans, faults>>

-----------------------------------------------------------------------------
(* The supervisor: one_for_all.  A new coordinator reads the store and       *)
(* relaunches what is not finished.                                         *)

FenceAround ==               \* Mutant: rest_for_one, the store and its mailbox survive
    /\ worker' = [id \in Ids |-> Down]
    /\ queue' = SelectSeq(queue, LAMBDA m : m.from = "worker")

Fence ==
    /\ worker' = [id \in Ids |-> Down]
    /\ queue' = <<>>

RestartAll ==
    /\ Fence
    /\ coord' = [Idle EXCEPT !.at = "recovering"]
    /\ asked' = <<>>
    /\ downs' = {} /\ orphans' = {}

ServiceRestarts ==
    /\ Fault /\ RestartAll
    /\ UNCHANGED <<disk, told>>

RecoverRunning == {disk[id] : id \in {i \in Unfinished : disk[i].status = "running"}}   \* Mutant
Recoverable == {disk[id] : id \in Unfinished}

Recover ==
    /\ coord.at = "recovering"
    /\ coord' = [Idle EXCEPT !.todo = Recoverable]
    /\ UNCHANGED <<disk, queue, worker, asked, downs, told, orphans, faults>>

(* A checkpoint of the coordinator; {ok,_} = save(..) asserts it is current. *)
StoreSavesCoordinator ==
    /\ Received("save", "coordinator")
    /\ LET job == Head(queue).job IN
       \/ /\ Current(job) /\ Store(job)
          /\ \/ /\ coord.at = "interrupting"
                /\ queue' = Append(Tail(queue), [kind |-> "all", from |-> "coordinator", job |-> job])
                /\ coord' = [coord EXCEPT !.at = "rereading"]
                /\ UNCHANGED <<told, orphans>>
             \/ /\ coord.at = "failing"
                /\ queue' = Tail(queue)
                /\ orphans' = orphans \cup {job.id}
                /\ TellStarted /\ Served
          /\ UNCHANGED <<worker, asked, downs>>
       \/ /\ ~Current(job)
          /\ RestartAll /\ UNCHANGED <<disk, told>>
    /\ UNCHANGED faults

-----------------------------------------------------------------------------
(* The DOWN handler *)

ReadAtOnce(id) ==            \* Mutant: the record is read past the mailbox
    /\ queue' = <<[kind |-> "all", from |-> "coordinator", job |-> disk[id]]>> \o queue
Read(id) == Send("all", "coordinator", disk[id])

HandleDown(id) ==
    /\ coord.at = "serving" /\ coord.todo = {} /\ id \in downs
    /\ downs' = downs \ {id}
    /\ Read(id)
    /\ coord' = [coord EXCEPT !.at = "reading", !.job = disk[id]]
    /\ UNCHANGED <<disk, worker, asked, told, orphans, faults>>

InterruptsEvery(job) == TRUE   \* Mutant: a normal end is interrupted as well
Interrupts(job) == job.status # "done"

(* all/0 answered: once before the interruption is written, once after.     *)
StoreReads ==
    /\ Received("all", "coordinator")
    /\ LET job == disk[Head(queue).job.id] IN
       \/ /\ coord.at = "reading" /\ Interrupts(job)
          /\ queue' = Append(Tail(queue), [kind |-> "save", from |-> "coordinator",
                                           job |-> [job EXCEPT !.status = "halted"]])
          /\ coord' = [coord EXCEPT !.at = "interrupting", !.job = job]
       \/ /\ coord.at = "reading" /\ ~Interrupts(job)
          /\ queue' = Tail(queue)
          /\ Served
       \/ /\ coord.at = "rereading"
          /\ queue' = Tail(queue)
          /\ coord' = [Idle EXCEPT !.todo = IF job.status = "halted" THEN {job} ELSE {}]
    /\ UNCHANGED <<disk, worker, asked, downs, told, orphans, faults>>

-----------------------------------------------------------------------------
(* The task processes *)

Checkpoint(id, status) ==
    /\ worker[id].at = "run" /\ worker[id].job.rev < MaxRevision
    /\ worker' = [worker EXCEPT ![id] = [@ EXCEPT !.at = "saving"]]
    /\ Send("save", "worker", [worker[id].job EXCEPT !.status = status])
    /\ UNCHANGED <<disk, coord, asked, downs, told, orphans, faults>>

(* Killed, crashed, or out of patience with the store: what it sent stays.  *)
WorkerExits(id) ==
    /\ worker[id].at \in {"run", "saving"} /\ Fault
    /\ worker' = [worker EXCEPT ![id] = Down]
    /\ downs' = downs \cup {id}
    /\ UNCHANGED <<disk, queue, coord, asked, told, orphans>>

-----------------------------------------------------------------------------
StoreStep == StoreCreates \/ StoreSavesWorker \/ StoreSavesCoordinator \/ StoreReads

CoordinatorStep ==
    \/ Start
    \/ \E job \in coord.todo : Relaunch(job)
    \/ ProcessStarts \/ Recover
    \/ \E id \in Ids : HandleDown(id)

WorkerStep == \E id \in Ids, status \in {"running", "halted", "done"} : Checkpoint(id, status)

Next ==
    \/ \E ask \in Asks : Ask(ask)
    \/ StoreStep \/ CoordinatorStep \/ WorkerStep
    \/ StartFails \/ ServiceRestarts
    \/ \E id \in Ids : WorkerExits(id)

Spec == Init /\ [][Next]_vars

(* Ready processes run, and the coordinator's mailbox is served in order,   *)
(* so that start requests cannot overtake a DOWN message for ever.  Clients, *)
(* task processes and faults owe nothing.                                   *)
FairSpec ==
    /\ Spec /\ WF_vars(StoreStep) /\ WF_vars(CoordinatorStep)
    /\ SF_vars(\E id \in Ids : HandleDown(id))

-----------------------------------------------------------------------------
(* Properties *)

(* However often a client repeats its request, and whatever it was told     *)
(* before, its key names one task for ever.                                 *)
OneTaskPerRequest ==
    \A i, j \in DOMAIN disk :
        disk[i].owner = disk[j].owner /\ disk[i].key = disk[j].key => i = j

(* What a client was given is in the store, survives every restart, and is  *)
(* a task for the very request it made.                                     *)
AnswersStand ==
    \A t \in told : t.id \in DOMAIN disk /\ AskOf(disk[t.id]) = t.ask

(* Admission: never more unfinished tasks than the quotas allow, whoever    *)
(* retries, restarts or asks at once.                                       *)
QuotasHold ==
    /\ Cardinality(DOMAIN disk) <= MaxSaved
    /\ Cardinality(Unfinished) <= MaxActive
    /\ \A o \in Owners : Cardinality({id \in Unfinished : disk[id].owner = o}) <= MaxPerOwner

(* Admission, idempotency and the answers given hold together: a retry is   *)
(* neither a second task nor a way round the quotas.                        *)
AdmissionHolds == OneTaskPerRequest /\ AnswersStand /\ QuotasHold

(* Between two calls a task process holds exactly the record in the store,  *)
(* late requests of dead processes included: nothing is left that could     *)
(* change it behind its back.                                               *)
WorkerIsCurrent ==
    \A id \in Ids :
        worker[id].at = "run" =>
            /\ worker[id].job = disk[id]
            /\ \A n \in DOMAIN queue : queue[n].kind = "save" => queue[n].job.id # id

(* The exit of one task process never takes the service down: what the DOWN *)
(* handler writes is based on the last checkpoint, even if the process died *)
(* with that checkpoint still in the store's mailbox.                       *)
ExitIsContained ==
    coord.at = "interrupting" => Current(coord.job)

(* Whoever writes a checkpoint bases it on the last one.                    *)
CheckpointsAreCurrent == WorkerIsCurrent /\ ExitIsContained

(* A finished task is never reopened, and no checkpoint is skipped.         *)
RecordsOnlyAdvance ==
    [][\A id \in DOMAIN disk :
          disk'[id] # disk[id] => /\ disk[id].status # "done"
                                  /\ disk'[id].rev = disk[id].rev + 1]_vars

(* Clients see a table of records and nothing of who writes them: requests  *)
(* are admitted once and within the quotas, records advance by one revision *)
(* and are still for what was asked, and answers name the right task.       *)
Record(id) == [ask |-> AskOf(disk[id]), status |-> disk[id].status, rev |-> disk[id].rev]

Table == [id \in DOMAIN disk |-> Record(id)]

Ledger == INSTANCE AgentRecords WITH record <- Table, answers <- told

ImplementsRecords == Ledger!Spec

(* Every unfinished task gets a process that takes its owner's commands,    *)
(* unless its start failed.                                                 *)
EveryTaskIsServed ==
    \A id \in Ids :
        id \in Unfinished ~>
            \/ worker[id].at \in {"run", "saving"}
            \/ id \notin Unfinished
            \/ id \in orphans
=============================================================================
