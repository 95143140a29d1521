----------------------------- MODULE IpfsQueue -----------------------------
(***************************************************************************)
(* The bounded queue in front of the IPFS backend (damage_ipfs_queue.erl):  *)
(* a process that accepts a limited number of requests, runs at most Limit  *)
(* of them at once in workers of their own, and lets go of each when its    *)
(* result, its deadline, its worker's death or its caller's death arrives   *)
(* first.  The other three may still be in the mailbox, or on their way.    *)
(*                                                                          *)
(* GRAIN.  A handler is one step, but for drain/1, a loop that looks at the *)
(* clock: one step per turn, with no message handled while draining holds.  *)
(***************************************************************************)
EXTENDS Integers, FiniteSets, Sequences, Queues

CONSTANTS
    Requests,     \* one element per call of request/2; also its Ref
    Limit,        \* client_concurrency, fetch_concurrency
    QueueLimit,   \* client_queue_limit, fetch_queue_limit
    MaxRestarts   \* bound: restarts of the queue process

ASSUME QueueAssumption ==
    /\ IsFiniteSet(Requests)
    /\ Limit \in Nat \ {0} /\ QueueLimit \in Nat
    /\ MaxRestarts \in Nat

VARIABLES
    jobs,      \* the references in the map of accepted jobs
    started,   \* those whose job has a worker
    active,    \* the counter of used slots
    queue,     \* the references waiting for a slot
    draining,  \* drain/1 is running
    mailbox,   \* messages to the queue process, in order of arrival
    armed,     \* jobs whose deadline timer has not fired
    caller, worker,   \* the processes of each request
    expired,   \* requests whose deadline has passed
    answers,   \* history: the answers each caller was sent
    restarts

vars == <<jobs, started, active, queue, draining, mailbox, armed,
          caller, worker, expired, answers, restarts>>
state == <<jobs, started, active, queue>>

Kinds   == {"request", "job_result", "deadline", "caller_down", "worker_down"}
Answer  == {"result", "timeout", "overloaded", "too_large", "worker_down", "unavailable"}
Callers == {"new", "waiting", "answered", "left", "dead"}
Workers == {"none", "running", "killed", "ended"}   \* killed: the signal is under way

TypeOK ==
    /\ jobs \subseteq Requests /\ started \subseteq jobs /\ armed \subseteq jobs
    /\ active \in 0 .. Limit
    /\ queue \in Seq(Requests)
    /\ draining \in BOOLEAN
    /\ mailbox \in Seq([kind : Kinds, ref : Requests])
    /\ caller \in [Requests -> Callers]
    /\ worker \in [Requests -> Workers]
    /\ expired \subseteq Requests
    /\ answers \in [Requests -> Seq(Answer)]
    /\ restarts \in 0 .. MaxRestarts

Init ==
    /\ jobs = {} /\ started = {} /\ active = 0 /\ queue = <<>>
    /\ draining = FALSE /\ mailbox = <<>> /\ armed = {}
    /\ caller = [r \in Requests |-> "new"]
    /\ worker = [r \in Requests |-> "none"]
    /\ expired = {}
    /\ answers = [r \in Requests |-> <<>>]
    /\ restarts = 0

Msg(kind, r) == [kind |-> kind, ref |-> r]

Receives(kind, r) == ~draining /\ mailbox # <<>> /\ Head(mailbox) = Msg(kind, r)

Reply(r, answer) ==
    /\ answers' = [answers EXCEPT ![r] = Append(@, answer)]
    /\ caller' = [caller EXCEPT ![r] = IF @ = "waiting" THEN "answered" ELSE @]

-----------------------------------------------------------------------------
(* finish/4 *)

(* demonitor with flush: the DOWN messages go (of each there is one at most), *)
(* the others stay.                                                         *)
Flush(r, box) == Without(Without(box, Msg("caller_down", r)), Msg("worker_down", r))

KillNone(r) == UNCHANGED worker   \* Mutant: the worker is left to itself
Kill(r) == worker' = [worker EXCEPT ![r] = IF @ = "running" THEN "killed" ELSE @]

KnownAlways(r) == TRUE            \* Mutant: a second end of a job is handled as well
Known(r) == r \in jobs

FreedAlways(r) == 1               \* Mutant: a job that never ran frees a slot
Freed(r) == IF r \in started THEN 1 ELSE 0

DrainNever == draining' = FALSE   \* Mutant: a freed slot is not filled
DrainNext == draining' = TRUE

(* Let go of r; box is what is left of the mailbox.                         *)
Release(r, box) ==
    /\ jobs' = jobs \ {r}
    /\ started' = started \ {r}
    /\ active' = active - Freed(r)
    /\ queue' = Without(queue, r)
    /\ mailbox' = Flush(r, box)
    /\ armed' = armed \ {r}
    /\ Kill(r)
    /\ DrainNext

Finish(r, answer, box) ==
    \/ Known(r) /\ Release(r, box) /\ Reply(r, answer)
    \/ /\ ~Known(r)
       /\ mailbox' = box
       /\ UNCHANGED <<state, draining, armed, caller, worker, answers>>

-----------------------------------------------------------------------------
(* handle_call({request,..}) *)

Full == Cardinality(jobs) >= Limit + QueueLimit

ArmNone(r) == UNCHANGED armed     \* Mutant: no timer
Arm(r) == armed' = armed \cup {r}

(* Monitoring a caller that is dead already brings its DOWN at once. *)
Monitored(r, box) ==
    IF caller[r] = "dead" THEN Append(box, Msg("caller_down", r)) ELSE box

Accept(r) ==
    /\ Receives("request", r)
    /\ r \notin jobs                 \* make_ref()
    /\ r \notin expired /\ ~Full
    /\ jobs' = jobs \cup {r}
    /\ queue' = Append(queue, r)
    /\ mailbox' = Monitored(r, Tail(mailbox))
    /\ Arm(r)
    /\ draining' = TRUE
    /\ UNCHANGED <<started, active, caller, worker, expired, answers, restarts>>

Refuse(r) ==
    /\ Receives("request", r)
    /\ \/ r \in expired /\ Reply(r, "timeout")
       \/ r \notin expired /\ Full /\ Reply(r, "overloaded")
       \/ r \notin expired /\ ~Full /\ Reply(r, "too_large")
    /\ mailbox' = Tail(mailbox)
    /\ UNCHANGED <<state, draining, armed, worker, expired, restarts>>

-----------------------------------------------------------------------------
(* handle_info *)

JobResult(r) ==
    /\ Receives("job_result", r) /\ Finish(r, "result", Tail(mailbox))
    /\ UNCHANGED <<expired, restarts>>

Deadline(r) ==
    /\ Receives("deadline", r) /\ Finish(r, "timeout", Tail(mailbox))
    /\ UNCHANGED <<expired, restarts>>

WorkerDown(r) ==
    /\ Receives("worker_down", r) /\ Finish(r, "worker_down", Tail(mailbox))
    /\ UNCHANGED <<expired, restarts>>

CallerDownIgnored(r) ==           \* Mutant: only workers' monitors are looked up
    /\ Receives("caller_down", r)
    /\ mailbox' = Tail(mailbox)
    /\ UNCHANGED <<state, draining, armed, caller, worker, answers, expired, restarts>>

(* Nobody is left to answer. *)
CallerDown(r) ==
    /\ Receives("caller_down", r)
    /\ \/ Known(r) /\ Release(r, Tail(mailbox))
       \/ /\ ~Known(r)
          /\ mailbox' = Tail(mailbox)
          /\ UNCHANGED <<state, draining, armed, worker>>
    /\ UNCHANGED <<caller, answers, expired, restarts>>

-----------------------------------------------------------------------------
(* One turn of drain/1 *)

DrainEnds ==
    /\ draining /\ (active >= Limit \/ queue = <<>>)
    /\ draining' = FALSE
    /\ UNCHANGED <<state, mailbox, armed, caller, worker, expired, answers, restarts>>

DrainDrops ==
    /\ draining /\ active < Limit /\ queue # <<>>
    /\ Head(queue) \in expired
    /\ Finish(Head(queue), "timeout", mailbox)
    /\ UNCHANGED <<expired, restarts>>

DrainStarts ==
    /\ draining /\ active < Limit /\ queue # <<>>
    /\ Head(queue) \notin expired
    /\ started' = started \cup {Head(queue)}
    /\ active' = active + 1
    /\ queue' = Tail(queue)
    /\ worker' = [worker EXCEPT ![Head(queue)] = "running"]
    /\ UNCHANGED <<jobs, draining, mailbox, armed, caller, expired, answers, restarts>>

-----------------------------------------------------------------------------
(* The other processes *)

Ask(r) ==
    /\ caller[r] = "new"
    /\ caller' = [caller EXCEPT ![r] = "waiting"]
    /\ mailbox' = Append(mailbox, Msg("request", r))
    /\ UNCHANGED <<state, draining, armed, worker, expired, answers, restarts>>

(* The call's own timeout, a second after the deadline. *)
CallerLeaves(r) ==
    /\ caller[r] = "waiting" /\ r \in expired
    /\ caller' = [caller EXCEPT ![r] = "left"]
    /\ UNCHANGED <<state, draining, mailbox, armed, worker, expired, answers, restarts>>

CallerDies(r) ==
    /\ caller[r] \in {"waiting", "left"}
    /\ caller' = [caller EXCEPT ![r] = "dead"]
    /\ mailbox' = IF r \in jobs THEN Append(mailbox, Msg("caller_down", r)) ELSE mailbox
    /\ UNCHANGED <<state, draining, armed, worker, expired, answers, restarts>>

(* It sends its result, then ends; or the kill is quicker. *)
WorkerAnswers(r) ==
    /\ worker[r] \in {"running", "killed"}
    /\ worker' = [worker EXCEPT ![r] = "ended"]
    /\ mailbox' = IF worker[r] = "running"
                  THEN mailbox \o <<Msg("job_result", r), Msg("worker_down", r)>>
                  ELSE Append(mailbox, Msg("job_result", r))
    /\ UNCHANGED <<state, draining, armed, caller, expired, answers, restarts>>

(* Killed, or with the backend connection it is linked to. *)
WorkerDies(r) ==
    /\ worker[r] \in {"running", "killed"}
    /\ worker' = [worker EXCEPT ![r] = "ended"]
    /\ mailbox' = IF worker[r] = "running" THEN Append(mailbox, Msg("worker_down", r)) ELSE mailbox
    /\ UNCHANGED <<state, draining, armed, caller, expired, answers, restarts>>

DeadlinePasses(r) ==
    /\ caller[r] # "new" /\ r \notin expired
    /\ expired' = expired \cup {r}
    /\ UNCHANGED <<state, draining, mailbox, armed, caller, worker, answers, restarts>>

TimerFires(r) ==
    /\ r \in armed \cap expired
    /\ armed' = armed \ {r}
    /\ mailbox' = Append(mailbox, Msg("deadline", r))
    /\ UNCHANGED <<state, draining, caller, worker, expired, answers, restarts>>

(* terminate/2, or a crash: workers are linked, callers learn of it. *)
ServiceRestarts ==
    /\ restarts < MaxRestarts /\ restarts' = restarts + 1
    /\ jobs' = {} /\ started' = {} /\ active' = 0 /\ queue' = <<>>
    /\ draining' = FALSE /\ mailbox' = <<>> /\ armed' = {}
    /\ worker' = [r \in Requests |-> IF worker[r] = "none" THEN "none" ELSE "ended"]
    /\ answers' = [r \in Requests |->
                      IF caller[r] = "waiting" THEN Append(answers[r], "unavailable") ELSE answers[r]]
    /\ caller' = [r \in Requests |-> IF caller[r] = "waiting" THEN "answered" ELSE caller[r]]
    /\ UNCHANGED expired

-----------------------------------------------------------------------------
Handle(r) == Accept(r) \/ Refuse(r) \/ JobResult(r) \/ Deadline(r) \/ WorkerDown(r) \/ CallerDown(r)

QueueStep == DrainEnds \/ DrainDrops \/ DrainStarts \/ \E r \in Requests : Handle(r)

Next ==
    \/ QueueStep
    \/ \E r \in Requests :
           \/ Ask(r) \/ CallerLeaves(r) \/ CallerDies(r)
           \/ WorkerAnswers(r) \/ WorkerDies(r)
           \/ DeadlinePasses(r) \/ TimerFires(r)
    \/ ServiceRestarts

Spec == Init /\ [][Next]_vars

(* The queue process runs when it has something to do.  Workers may hang;   *)
(* callers owe nothing.                                                     *)
FairSpec == Spec /\ WF_vars(QueueStep)

(* The clock moves and timers fire. *)
Clock == \A r \in Requests : WF_vars(DeadlinePasses(r)) /\ WF_vars(TimerFires(r))

-----------------------------------------------------------------------------
(* Properties *)

(* The counter, the map and the queue tell one story after any interleaving *)
(* of results, deadlines and deaths: no slot is lost or used twice, nothing *)
(* waits twice, and admission is bounded.                                   *)
SlotsAddUp ==
    /\ active = Cardinality(started) /\ active <= Limit
    /\ Waiting(queue) = jobs \ started /\ NoRepeat(queue)
    /\ Cardinality(jobs) <= Limit + QueueLimit

(* A backend request runs only for a job that still holds a slot, so that   *)
(* at most Limit run that have not been told to stop.                       *)
NothingRunsUnowned ==
    \A r \in Requests : worker[r] = "running" => r \in started

(* A caller is answered once at most, and as long as it waits its request   *)
(* is in the queue process's hands, whichever of result, deadline, death    *)
(* and restart are racing.                                                  *)
Owed(r) == r \in jobs \/ \E i \in DOMAIN mailbox : mailbox[i] = Msg("request", r)

OneAnswerEach ==
    \A r \in Requests :
        /\ Len(answers[r]) <= 1
        /\ caller[r] = "waiting" => Owed(r)
        /\ answers[r] # <<>> => ~Owed(r)

(* Between two messages no request waits next to a free slot. *)
NoIdleSlot == ~draining /\ queue # <<>> => active = Limit

(* The slots are all accounted for: none lost, none used twice, none idle   *)
(* beside a request that waits for it.                                      *)
SlotsAccounted == SlotsAddUp /\ NoIdleSlot

(* Whatever its worker does, a caller is answered.                          *)
EveryoneAnswered == Clock => \A r \in Requests : caller[r] = "waiting" ~> caller[r] # "waiting"

(* A dead caller gives its place back without waiting for its deadline:     *)
(* even under a clock that stands still.                                    *)
AbandonedIsReleased == \A r \in Requests : caller[r] = "dead" ~> r \notin jobs
=============================================================================
