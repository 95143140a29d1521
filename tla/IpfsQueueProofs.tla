-------------------------- MODULE IpfsQueueProofs --------------------------
(***************************************************************************)
(* For every number of requests, slots and places: no backend request runs  *)
(* that the queue has let go of; the counter of slots, the map of jobs and  *)
(* the queue of waiting ones agree; and every caller is answered once.      *)
(***************************************************************************)
EXTENDS IpfsQueue, QueuesProofs, FiniteSetTheorems

(* Neither who is accepted nor who waits matters: only that a worker starts *)
(* with its slot and that the slot is given back with a kill.               *)
Owned == worker \in [Requests -> Workers] /\ NothingRunsUnowned

LEMMA ReleaseKeeps ==
    ASSUME Owned, NEW r \in Requests, NEW box, Release(r, box)
    PROVE  Owned'
<1>1. /\ worker' = [worker EXCEPT ![r] = IF @ = "running" THEN "killed" ELSE @]
      /\ started' = started \ {r}
  BY DEF Release, Kill
<1>2. worker' \in [Requests -> Workers]
  BY <1>1 DEF Owned, Workers
<1>3. ASSUME NEW s \in Requests, worker'[s] = "running" PROVE s \in started'
  <2>1. s # r /\ worker[s] = "running"
    BY <1>1, <1>3 DEF Owned
  <2> QED
    BY <1>1, <2>1 DEF Owned, NothingRunsUnowned
<1> QED
  BY <1>2, <1>3 DEF Owned, NothingRunsUnowned

LEMMA SameKeeps ==
    ASSUME Owned, UNCHANGED <<started, worker>>
    PROVE  Owned'
BY DEF Owned, NothingRunsUnowned

LEMMA FinishKeeps ==
    ASSUME Owned, NEW r, Known(r) => r \in Requests, NEW answer, NEW box, Finish(r, answer, box)
    PROVE  Owned'
<1>1. CASE Known(r) /\ Release(r, box)
  BY <1>1, ReleaseKeeps
<1>2. CASE UNCHANGED <<state, worker>>
  BY <1>2, SameKeeps DEF state
<1> QED
  BY <1>1, <1>2 DEF Finish

(* A worker that ends was somebody's or was told to. *)
LEMMA EndKeeps ==
    ASSUME Owned, NEW r \in Requests,
           worker' = [worker EXCEPT ![r] = "ended"], UNCHANGED started
    PROVE  Owned'
<1>1. worker' \in [Requests -> Workers]
  BY DEF Owned, Workers
<1>2. \A s \in Requests : worker'[s] = "running" => worker[s] = "running"
  BY DEF Owned
<1> QED
  BY <1>1, <1>2 DEF Owned, NothingRunsUnowned

LEMMA StartKeeps == ASSUME Owned, DrainStarts PROVE Owned'
<1>1. /\ worker' = [worker EXCEPT ![Head(queue)] = "running"]
      /\ started' = started \cup {Head(queue)}
  BY DEF DrainStarts
<1>2. worker' \in [Requests -> Workers]
  BY <1>1 DEF Owned, Workers
<1>3. \A s \in Requests : worker'[s] = "running" => s = Head(queue) \/ worker[s] = "running"
  BY <1>1 DEF Owned
<1> QED
  BY <1>1, <1>2, <1>3 DEF Owned, NothingRunsUnowned

LEMMA RestartKeeps == ASSUME Owned, ServiceRestarts PROVE Owned'
<1>1. worker' = [r \in Requests |-> IF worker[r] = "none" THEN "none" ELSE "ended"]
  BY DEF ServiceRestarts
<1>2. \A s \in Requests : worker'[s] # "running"
  BY <1>1
<1>3. worker' \in [Requests -> Workers]
  BY <1>1 DEF Workers
<1> QED
  BY <1>2, <1>3 DEF Owned, NothingRunsUnowned

LEMMA HandleKeeps ==
    ASSUME Owned, NEW r \in Requests, Handle(r)
    PROVE  Owned'
<1>1. CASE Accept(r)
  BY <1>1, SameKeeps DEF Accept
<1>2. CASE Refuse(r)
  BY <1>2, SameKeeps DEF Refuse, state
<1>3. CASE JobResult(r)
  BY <1>3, FinishKeeps DEF JobResult
<1>4. CASE Deadline(r)
  BY <1>4, FinishKeeps DEF Deadline
<1>5. CASE WorkerDown(r)
  BY <1>5, FinishKeeps DEF WorkerDown
<1>6. CASE CallerDown(r)
  <2>1. CASE Release(r, Tail(mailbox))
    BY <2>1, ReleaseKeeps
  <2>2. CASE UNCHANGED <<state, worker>>
    BY <2>2, SameKeeps DEF state
  <2> QED
    BY <1>6, <2>1, <2>2 DEF CallerDown
<1> QED
  BY <1>1, <1>2, <1>3, <1>4, <1>5, <1>6 DEF Handle

LEMMA StepKeeps ==
    ASSUME Owned, jobs \subseteq Requests, [Next]_vars
    PROVE  Owned'
<1>1. CASE DrainEnds
  BY <1>1, SameKeeps DEF DrainEnds, state
<1>2. CASE DrainDrops
  BY <1>2, FinishKeeps DEF DrainDrops, Known
<1>3. CASE DrainStarts
  BY <1>3, StartKeeps
<1>4. CASE \E r \in Requests : Handle(r)
  BY <1>4, HandleKeeps
<1>5. CASE \E r \in Requests : Ask(r) \/ CallerLeaves(r) \/ CallerDies(r)
                                  \/ DeadlinePasses(r) \/ TimerFires(r)
  BY <1>5, SameKeeps DEF Ask, CallerLeaves, CallerDies, DeadlinePasses, TimerFires, state
<1>6. CASE \E r \in Requests : WorkerAnswers(r) \/ WorkerDies(r)
  BY <1>6, EndKeeps DEF WorkerAnswers, WorkerDies, state
<1>7. CASE ServiceRestarts
  BY <1>7, RestartKeeps
<1>8. CASE UNCHANGED vars
  BY <1>8, SameKeeps DEF vars
<1> QED
  BY <1>1, <1>2, <1>3, <1>4, <1>5, <1>6, <1>7, <1>8 DEF Next, QueueStep

(* Only calls of request/2 are ever accepted. *)
LEMMA JobsStep ==
    ASSUME jobs \subseteq Requests, [Next]_vars
    PROVE  jobs' \subseteq Requests
<1>1. CASE QueueStep
  <2>1. CASE \E r \in Requests : Handle(r)
    BY <2>1 DEF Handle, Accept, Refuse, JobResult, Deadline, WorkerDown, CallerDown,
                Finish, Release, state
  <2>2. CASE DrainEnds \/ DrainDrops \/ DrainStarts
    BY <2>2 DEF DrainEnds, DrainDrops, DrainStarts, Finish, Release, state
  <2> QED
    BY <1>1, <2>1, <2>2 DEF QueueStep
<1>2. CASE ~QueueStep
  BY <1>2 DEF Next, vars, state, Ask, CallerLeaves, CallerDies, WorkerAnswers, WorkerDies,
              DeadlinePasses, TimerFires, ServiceRestarts
<1> QED
  BY <1>1, <1>2

-----------------------------------------------------------------------------
(* A backend request runs only for a job that still holds a slot: finish/4  *)
(* never leaves a worker behind, whichever of result, deadline and death    *)
(* comes first and whichever of them comes late.                            *)
THEOREM WorkersAreOwned == Spec => []NothingRunsUnowned
<1>1. Init => jobs \subseteq Requests /\ Owned
  BY DEF Init, Owned, Workers, NothingRunsUnowned
<1>2. jobs \subseteq Requests /\ Owned /\ [Next]_vars => (jobs \subseteq Requests /\ Owned)'
  BY StepKeeps, JobsStep
<1>3. Owned => NothingRunsUnowned
  BY DEF Owned
<1> QED
  BY <1>1, <1>2, <1>3, PTL DEF Spec

-----------------------------------------------------------------------------
(* Slots *)

(* SlotsAddUp with the types its parts need. *)
Slots ==
    /\ jobs \subseteq Requests /\ started \subseteq jobs
    /\ queue \in Seq(Requests)
    /\ active \in Nat
    /\ SlotsAddUp

LEMMA SetsFinite ==
    ASSUME Slots
    PROVE  /\ IsFiniteSet(jobs) /\ IsFiniteSet(started)
           /\ Cardinality(jobs) \in Nat /\ Cardinality(started) \in Nat
<1>1. IsFiniteSet(jobs) /\ IsFiniteSet(started)
  BY QueueAssumption, FS_Subset DEF Slots
<1> QED
  BY <1>1, FS_CardinalityType

LEMMA SlotsSame ==
    ASSUME Slots, UNCHANGED state
    PROVE  Slots'
BY DEF Slots, SlotsAddUp, state

LEMMA ReleaseSlots ==
    ASSUME Slots, NEW r \in jobs, NEW box, Release(r, box)
    PROVE  Slots'
<1>1. /\ jobs' = jobs \ {r} /\ started' = started \ {r}
      /\ active' = active - Freed(r) /\ queue' = Without(queue, r)
  BY DEF Release
<1>2. Waiting(queue) = jobs \ started /\ NoRepeat(queue)
  BY DEF Slots, SlotsAddUp, Waiting, NoRepeat
<1>3. /\ queue' \in Seq(Requests) /\ NoRepeat(queue')
      /\ Waiting(queue') = (jobs \ started) \ {r}
  BY <1>1, <1>2, WithoutOne DEF Slots
<1>4. Waiting(queue') = jobs' \ started'
  BY <1>1, <1>3
<1>5. active' = Cardinality(started') /\ active' \in Nat /\ active' <= active
  <2>1. CASE r \in started
    <3>1. Cardinality(started \ {r}) = Cardinality(started) - 1
      BY <2>1, SetsFinite, FS_RemoveElement
    <3>2. Cardinality(started \ {r}) \in Nat
      BY SetsFinite, FS_RemoveElement, FS_CardinalityType
    <3> QED
      BY <1>1, <2>1, <3>1, <3>2 DEF Freed, Slots, SlotsAddUp
  <2>2. CASE r \notin started
    <3>1. started' = started
      BY <1>1, <2>2
    <3>2. active' = active
      BY <1>1, <2>2 DEF Freed, Slots
    <3> QED
      BY <3>1, <3>2 DEF Slots, SlotsAddUp
  <2> QED
    BY <2>1, <2>2
<1>6. Cardinality(jobs') <= Limit + QueueLimit
  <2>1. Cardinality(jobs \ {r}) = Cardinality(jobs) - 1
    BY SetsFinite, FS_RemoveElement
  <2> QED
    BY <1>1, <2>1, SetsFinite, QueueAssumption DEF Slots, SlotsAddUp
<1>7. active' <= Limit
  BY <1>5, QueueAssumption DEF Slots, SlotsAddUp
<1>8. jobs' \subseteq Requests /\ started' \subseteq jobs'
  BY <1>1 DEF Slots
<1> QED
  BY <1>3, <1>4, <1>5, <1>6, <1>7, <1>8 DEF Slots, SlotsAddUp, Waiting, NoRepeat

LEMMA FinishSlots ==
    ASSUME Slots, NEW r, NEW answer, NEW box, Finish(r, answer, box)
    PROVE  Slots'
BY ReleaseSlots, SlotsSame DEF Finish, Known

LEMMA AcceptSlots ==
    ASSUME Slots, NEW r \in Requests, Accept(r)
    PROVE  Slots'
<1>1. /\ r \notin jobs /\ ~Full
      /\ jobs' = jobs \cup {r} /\ queue' = Append(queue, r)
      /\ started' = started /\ active' = active
  BY DEF Accept
<1>2. queue \in Seq(Requests) /\ Waiting(queue) = jobs \ started /\ NoRepeat(queue)
  BY DEF Slots, SlotsAddUp
<1>3. /\ queue' \in Seq(Requests) /\ NoRepeat(queue')
      /\ Waiting(queue') = Waiting(queue) \cup {r}
  BY <1>1, <1>2, AppendOne
<1>4. Cardinality(jobs') <= Limit + QueueLimit
  <2>1. Cardinality(jobs') = Cardinality(jobs) + 1
    BY <1>1, SetsFinite, FS_AddElement
  <2> QED
    BY <1>1, <2>1, SetsFinite, QueueAssumption DEF Full
<1>5. /\ Waiting(queue') = jobs' \ started'
      /\ jobs' \subseteq Requests /\ started' \subseteq jobs'
  BY <1>1, <1>2, <1>3 DEF Slots
<1> QED
  BY <1>1, <1>3, <1>4, <1>5 DEF Slots, SlotsAddUp

LEMMA StartSlots ==
    ASSUME Slots, DrainStarts
    PROVE  Slots'
<1> DEFINE r == Head(queue)
<1>1. /\ queue # <<>> /\ active < Limit /\ jobs' = jobs
      /\ started' = started \cup {r} /\ active' = active + 1 /\ queue' = Tail(queue)
  BY DEF DrainStarts
<1>2. queue \in Seq(Requests) /\ Waiting(queue) = jobs \ started /\ NoRepeat(queue)
  BY DEF Slots, SlotsAddUp
<1>3. /\ r \in Waiting(queue) /\ NoRepeat(queue')
      /\ queue' \in Seq(Requests) /\ Waiting(queue') = Waiting(queue) \ {r}
  BY <1>1, <1>2, TailOne
<1>4. r \in jobs \ started
  BY <1>2, <1>3
<1> HIDE DEF r
<1>5. active' = Cardinality(started')
  BY <1>1, <1>4, SetsFinite, FS_AddElement DEF Slots, SlotsAddUp
<1>6. active' \in Nat /\ active' <= Limit
  BY <1>1, QueueAssumption DEF Slots
<1>7. Waiting(queue') = jobs' \ started' /\ started' \subseteq jobs'
  BY <1>1, <1>2, <1>4, <1>3 DEF Slots
<1> QED
  BY <1>1, <1>3, <1>5, <1>6, <1>7 DEF Slots, SlotsAddUp

LEMMA EmptySlots ==
    ASSUME jobs = {}, started = {}, active = 0, queue = <<>>
    PROVE  Slots
<1>1. Cardinality({}) = 0
  BY FS_EmptySet
<1> QED
  BY <1>1, QueueAssumption DEF Slots, SlotsAddUp, Waiting, NoRepeat

LEMMA RestartSlots == ASSUME ServiceRestarts PROVE Slots'
<1>1. Cardinality({}) = 0
  BY FS_EmptySet
<1> QED
  BY <1>1, QueueAssumption DEF ServiceRestarts, Slots, SlotsAddUp, Waiting, NoRepeat

LEMMA SlotsStep == Slots /\ [Next]_vars => Slots'
<1> SUFFICES ASSUME Slots, [Next]_vars PROVE Slots'
  OBVIOUS
<1>1. CASE DrainDrops
  BY <1>1, FinishSlots DEF DrainDrops
<1>2. CASE DrainStarts
  BY <1>2, StartSlots
<1>3. ASSUME NEW r \in Requests, Handle(r) PROVE Slots'
  <2>1. CASE Accept(r)
    BY <2>1, AcceptSlots
  <2>2. CASE JobResult(r) \/ Deadline(r) \/ WorkerDown(r)
    BY <2>2, FinishSlots DEF JobResult, Deadline, WorkerDown
  <2>3. CASE CallerDown(r)
    BY <2>3, ReleaseSlots, SlotsSame DEF CallerDown, Known
  <2>4. CASE Refuse(r)
    BY <2>4, SlotsSame DEF Refuse
  <2> QED
    BY <1>3, <2>1, <2>2, <2>3, <2>4 DEF Handle
<1>4. CASE DrainEnds \/ UNCHANGED vars
  BY <1>4, SlotsSame DEF DrainEnds, vars, state
<1>5. CASE \E r \in Requests : Ask(r) \/ CallerLeaves(r) \/ CallerDies(r)
               \/ WorkerAnswers(r) \/ WorkerDies(r) \/ DeadlinePasses(r) \/ TimerFires(r)
  BY <1>5, SlotsSame DEF Ask, CallerLeaves, CallerDies, WorkerAnswers, WorkerDies,
                         DeadlinePasses, TimerFires
<1>6. CASE ServiceRestarts
  BY <1>6, RestartSlots
<1> QED
  BY <1>1, <1>2, <1>3, <1>4, <1>5, <1>6 DEF Next, QueueStep

(* However results, deadlines and deaths interleave, no slot is lost or     *)
(* used twice and admission stays bounded: a job that ends twice, or ends   *)
(* before it was started, leaves the counter right.                         *)
THEOREM SlotsAlwaysAddUp == Spec => []SlotsAddUp
<1>1. Init => Slots
  BY EmptySlots DEF Init
<1>2. Slots => SlotsAddUp
  BY DEF Slots
<1> QED
  BY <1>1, <1>2, SlotsStep, PTL DEF Spec

-----------------------------------------------------------------------------
(* What ends while a request waits drains; what does not drain leaves the   *)
(* waiting and the slots as they are.                                       *)
LEMMA IdleStep ==
    ASSUME Slots, NoIdleSlot, [Next]_vars
    PROVE  NoIdleSlot'
<1>1. CASE DrainEnds
  <2>1. queue # <<>> => active = Limit
    BY <1>1, QueueAssumption DEF DrainEnds, Slots, SlotsAddUp
  <2> QED
    BY <1>1, <2>1 DEF DrainEnds, NoIdleSlot, state
<1>2. CASE draining'
  BY <1>2 DEF NoIdleSlot
<1>3. CASE UNCHANGED <<state, draining>>
  BY <1>3 DEF NoIdleSlot, state
<1>4. CASE DrainDrops \/ DrainStarts
  BY <1>2, <1>3, <1>4 DEF DrainDrops, DrainStarts, Finish, Release, DrainNext
<1>5. ASSUME NEW r \in Requests, Handle(r) PROVE draining' \/ UNCHANGED <<state, draining>>
  BY <1>5 DEF Handle, Accept, Refuse, JobResult, Deadline, WorkerDown, CallerDown,
              Finish, Release, DrainNext
<1>6. CASE \E r \in Requests : Ask(r) \/ CallerLeaves(r) \/ CallerDies(r)
               \/ WorkerAnswers(r) \/ WorkerDies(r) \/ DeadlinePasses(r) \/ TimerFires(r)
  BY <1>3, <1>6 DEF Ask, CallerLeaves, CallerDies, WorkerAnswers, WorkerDies,
                    DeadlinePasses, TimerFires
<1>7. CASE ServiceRestarts
  BY <1>7 DEF ServiceRestarts, NoIdleSlot
<1>8. CASE UNCHANGED vars
  BY <1>3, <1>8 DEF vars, state
<1> QED
  BY <1>1, <1>2, <1>3, <1>4, <1>5, <1>6, <1>7, <1>8 DEF Next, QueueStep

(* Between two messages no request waits next to a free slot: whichever of  *)
(* result, deadline and death frees it, finish/4 gives it to the next.      *)
THEOREM SlotsAreFilled == Spec => []NoIdleSlot
<1>1. Init => Slots /\ NoIdleSlot
  BY EmptySlots DEF Init, NoIdleSlot
<1>2. Slots /\ NoIdleSlot /\ [Next]_vars => (Slots /\ NoIdleSlot)'
  BY SlotsStep, IdleStep
<1> QED
  BY <1>1, <1>2, PTL DEF Spec

(* Every slot is accounted for in every reachable state.                    *)
THEOREM SlotsAlwaysAccounted == Spec => []SlotsAccounted
  BY SlotsAlwaysAddUp, SlotsAreFilled, PTL DEF SlotsAccounted

-----------------------------------------------------------------------------
(***************************************************************************)
(* For every number of requests, slots and places: a caller of the IPFS     *)
(* queue is answered at most once and is in its hands until it is.  That    *)
(* needs to know what may still be in the mailbox about a request: its      *)
(* result, its deadline and two deaths, each once, in any order.            *)
(***************************************************************************)

Messages == [kind : Kinds, ref : Requests]

In(kind, r) == Msg(kind, r) \in Waiting(mailbox)

Types ==
    /\ draining \in BOOLEAN
    /\ mailbox \in Seq(Messages) /\ NoRepeat(mailbox)
    /\ armed \subseteq Requests /\ expired \subseteq Requests
    /\ caller \in [Requests -> Callers]
    /\ worker \in [Requests -> Workers]
    /\ answers \in [Requests -> Seq(Answer)]
    /\ restarts \in 0 .. MaxRestarts

(* Nothing has come of the request yet. *)
Untouched(r) ==
    /\ r \notin jobs /\ r \notin armed
    /\ worker[r] = "none" /\ answers[r] = <<>>
    /\ \A kind \in Kinds \ {"request"} : ~In(kind, r)

(* What tells that a message about r can come only once. *)
Once(r) ==
    /\ caller[r] = "new" => ~In("request", r)
    /\ caller[r] = "new" \/ In("request", r) => Untouched(r)
    /\ r \in jobs \ started => worker[r] = "none"
    /\ In("caller_down", r) => caller[r] = "dead"
    /\ In("job_result", r) \/ In("worker_down", r) => worker[r] = "ended"
    /\ In("deadline", r) => r \notin armed
    /\ r \in armed => r \in jobs

(* OneAnswerEach for one request. *)
Fair(r) ==
    /\ Len(answers[r]) <= 1
    /\ caller[r] = "waiting" => r \in jobs \/ In("request", r)
    /\ answers[r] # <<>> => r \notin jobs /\ ~In("request", r)

Mail == Types /\ Slots /\ \A r \in Requests : Once(r) /\ Fair(r)

-----------------------------------------------------------------------------
(* A step that leaves s alone, but for a message about it that goes. *)
LEMMA Aside ==
    ASSUME NEW s, Once(s), Fair(s),
           \A kind \in Kinds : In(kind, s)' => In(kind, s),
           In("request", s)' <=> In("request", s),
           s \in jobs' <=> s \in jobs, s \in started' <=> s \in started,
           s \in armed' <=> s \in armed,
           caller'[s] = caller[s], worker'[s] = worker[s], answers'[s] = answers[s]
    PROVE  Once(s)' /\ Fair(s)'
BY DEF Once, Fair, Untouched, Kinds

LEMMA MessageType == \A kind \in Kinds, r \in Requests : Msg(kind, r) \in Messages
BY DEF Msg, Messages

LEMMA MessageParts ==
    \A k1, k2, r1, r2 : Msg(k1, r1) = Msg(k2, r2) => k1 = k2 /\ r1 = r2
BY DEF Msg

(* The message at the head is taken. *)
LEMMA Taken ==
    ASSUME Types, NEW r \in Requests, NEW kind \in Kinds, Receives(kind, r)
    PROVE  /\ In(kind, r)
           /\ Tail(mailbox) \in Seq(Messages) /\ NoRepeat(Tail(mailbox))
           /\ Waiting(Tail(mailbox)) = Waiting(mailbox) \ {Msg(kind, r)}
BY TailOne DEF Types, Receives, In

(* A message that cannot be there yet is sent. *)
LEMMA Posted ==
    ASSUME Types, NEW r \in Requests, NEW kind \in Kinds, ~In(kind, r),
           mailbox' = Append(mailbox, Msg(kind, r))
    PROVE  /\ mailbox' \in Seq(Messages) /\ NoRepeat(mailbox')
           /\ Waiting(mailbox') = Waiting(mailbox) \cup {Msg(kind, r)}
BY AppendOne, MessageType DEF Types, In

(* Only the mailbox changes, and only by what is about r.                   *)
LEMMA OthersStay ==
    ASSUME NEW r, NEW s, s # r, NEW gone, NEW come,
           \A m \in gone \cup come : \E kind \in Kinds : m = Msg(kind, r),
           Waiting(mailbox') = (Waiting(mailbox) \ gone) \cup come
    PROVE  \A kind \in Kinds : In(kind, s)' <=> In(kind, s)
<1> SUFFICES ASSUME NEW kind \in Kinds PROVE In(kind, s)' <=> In(kind, s)
  OBVIOUS
<1>1. Msg(kind, s) \notin gone \cup come
  BY MessageParts
<1> QED
  BY <1>1 DEF In

(* A step about r alone. *)
LEMMA OneTouched ==
    ASSUME Mail, NEW r \in Requests, NEW gone, NEW come,
           \A m \in gone \cup come : \E kind \in Kinds : m = Msg(kind, r),
           Waiting(mailbox') = (Waiting(mailbox) \ gone) \cup come,
           \A s \in Requests \ {r} :
               /\ s \in jobs' <=> s \in jobs
               /\ s \in started' <=> s \in started
               /\ s \in armed' <=> s \in armed
               /\ caller'[s] = caller[s] /\ worker'[s] = worker[s] /\ answers'[s] = answers[s],
           Types', Slots', Once(r)', Fair(r)'
    PROVE  Mail'
<1>1. ASSUME NEW s \in Requests \ {r} PROVE Once(s)' /\ Fair(s)'
  <2>1. \A kind \in Kinds : In(kind, s)' <=> In(kind, s)
    BY OthersStay
  <2>2. Once(s) /\ Fair(s)
    BY DEF Mail
  <2> QED
    BY <2>1, <2>2, Aside DEF Kinds
<1> QED
  BY <1>1 DEF Mail

(* The first answer to r. *)
LEMMA ReplyFields ==
    ASSUME Types, NEW r \in Requests, NEW answer \in Answer, Reply(r, answer),
           caller[r] # "new", answers[r] = <<>>
    PROVE  /\ caller' \in [Requests -> Callers] /\ answers' \in [Requests -> Seq(Answer)]
           /\ Len(answers'[r]) <= 1
           /\ caller'[r] \notin {"new", "waiting"} /\ (caller[r] = "dead" => caller'[r] = "dead")
           /\ \A s \in Requests \ {r} : caller'[s] = caller[s] /\ answers'[s] = answers[s]
<1>1. caller \in [Requests -> Callers] /\ answers \in [Requests -> Seq(Answer)]
  BY DEF Types
<1>2. /\ caller' = [caller EXCEPT ![r] = IF @ = "waiting" THEN "answered" ELSE @]
      /\ answers' = [answers EXCEPT ![r] = <<answer>>]
  BY DEF Reply
<1>3. <<answer>> \in Seq(Answer) /\ Len(<<answer>>) = 1
  OBVIOUS
<1>4. answers' \in [Requests -> Seq(Answer)] /\ Len(answers'[r]) <= 1
  BY <1>1, <1>2, <1>3
<1>5. /\ caller' \in [Requests -> Callers]
      /\ caller'[r] \notin {"new", "waiting"} /\ (caller[r] = "dead" => caller'[r] = "dead")
  BY <1>1, <1>2 DEF Callers
<1>6. \A s \in Requests \ {r} : caller'[s] = caller[s] /\ answers'[s] = answers[s]
  BY <1>1, <1>2
<1> QED
  BY <1>4, <1>5, <1>6

-----------------------------------------------------------------------------
(* A job ends: r is answered, or has nobody left to be answered. *)
LEMMA ReleaseMail ==
    ASSUME Mail, NEW r \in jobs, NEW gone, NEW box \in Seq(Messages), NoRepeat(box),
           \A m \in gone : \E kind \in Kinds : m = Msg(kind, r),
           Waiting(box) = Waiting(mailbox) \ gone,
           Release(r, box), UNCHANGED <<expired, restarts>>,
           \/ \E answer \in Answer : Reply(r, answer)
           \/ caller[r] = "dead" /\ UNCHANGED <<caller, answers>>
    PROVE  Mail'
<1> DEFINE deaths == {Msg("caller_down", r), Msg("worker_down", r)}
<1>1. r \in Requests /\ Types /\ Slots /\ Once(r) /\ Fair(r)
  BY DEF Mail, Slots
<1>2. /\ jobs' = jobs \ {r} /\ started' = started \ {r} /\ armed' = armed \ {r}
      /\ worker' = [worker EXCEPT ![r] = IF @ = "running" THEN "killed" ELSE @]
      /\ draining' = TRUE
  BY DEF Release, Kill, DrainNext
<1>3. /\ mailbox' \in Seq(Messages) /\ NoRepeat(mailbox')
      /\ Waiting(mailbox') = Waiting(box) \ deaths
  BY WithoutOne DEF Release, Flush
<1>4. Waiting(mailbox') = (Waiting(mailbox) \ (gone \cup deaths)) \cup {}
  BY <1>3
<1>5. \A m \in (gone \cup deaths) \cup {} : \E kind \in Kinds : m = Msg(kind, r)
  BY DEF Kinds
<1>6. caller[r] # "new" /\ ~In("request", r) /\ answers[r] = <<>>
  BY <1>1 DEF Once, Fair, Untouched
<1>7. /\ caller' \in [Requests -> Callers] /\ answers' \in [Requests -> Seq(Answer)]
      /\ Len(answers'[r]) <= 1
      /\ caller'[r] \notin {"new", "waiting"} /\ (caller[r] = "dead" => caller'[r] = "dead")
      /\ \A s \in Requests \ {r} : caller'[s] = caller[s] /\ answers'[s] = answers[s]
  <2>1. CASE caller[r] = "dead" /\ UNCHANGED <<caller, answers>>
    BY <1>1, <1>6, <2>1 DEF Types
  <2>2. CASE \E answer \in Answer : Reply(r, answer)
    BY <1>1, <1>6, <2>2, ReplyFields
  <2> QED
    BY <2>1, <2>2
<1>8. Types'
  BY <1>1, <1>2, <1>3, <1>7 DEF Types, Workers
<1>9. Slots'
  BY <1>1, ReleaseSlots
<1>10. \A s \in Requests \ {r} : worker'[s] = worker[s]
  BY <1>1, <1>2 DEF Types
<1>11. Once(r)' /\ Fair(r)'
  <2>1. ~In("request", r)' /\ ~In("caller_down", r)' /\ ~In("worker_down", r)'
    BY <1>4, <1>6 DEF In
  <2>2. In("job_result", r)' => worker'[r] = "ended"
    BY <1>1, <1>2, <1>4 DEF In, Once, Types
  <2> QED
    BY <1>2, <1>7, <2>1, <2>2 DEF Once, Fair
<1> QED
  BY <1>1, <1>2, <1>4, <1>5, <1>7, <1>8, <1>9, <1>10, <1>11, OneTouched

(* A message about a job that has ended is taken and ignored. *)
LEMMA IgnoredMail ==
    ASSUME Mail, NEW r \in Requests, NEW kind \in Kinds \ {"request"}, Receives(kind, r),
           mailbox' = Tail(mailbox),
           UNCHANGED <<state, draining, armed, caller, worker, expired, answers, restarts>>
    PROVE  Mail'
<1>1. Types /\ Slots
  BY DEF Mail
<1>2. /\ mailbox' \in Seq(Messages) /\ NoRepeat(mailbox')
      /\ Waiting(mailbox') = Waiting(mailbox) \ {Msg(kind, r)}
  BY <1>1, Taken
<1>3. Types' /\ Slots'
  BY <1>1, <1>2, SlotsSame DEF Types
<1>4. ASSUME NEW s \in Requests PROVE Once(s)' /\ Fair(s)'
  <2>1. \A k \in Kinds : In(k, s)' => In(k, s)
    BY <1>2 DEF In
  <2>2. In("request", s)' <=> In("request", s)
    BY <1>2, MessageParts DEF In
  <2>3. Once(s) /\ Fair(s)
    BY DEF Mail
  <2> QED
    BY <2>1, <2>2, <2>3, Aside DEF state
<1> QED
  BY <1>3, <1>4 DEF Mail

(* finish/4 on a message. *)
LEMMA FinishMail ==
    ASSUME Mail, NEW r \in Requests, NEW kind \in Kinds \ {"request"}, Receives(kind, r),
           NEW answer \in Answer, Finish(r, answer, Tail(mailbox)),
           UNCHANGED <<expired, restarts>>
    PROVE  Mail'
<1>1. Types
  BY DEF Mail
<1>2. /\ Tail(mailbox) \in Seq(Messages) /\ NoRepeat(Tail(mailbox))
      /\ Waiting(Tail(mailbox)) = Waiting(mailbox) \ {Msg(kind, r)}
  BY <1>1, Taken
<1>3. CASE Known(r) /\ Release(r, Tail(mailbox)) /\ Reply(r, answer)
  BY <1>2, <1>3, ReleaseMail DEF Known
<1>4. CASE ~Known(r)
  BY <1>4, IgnoredMail DEF Finish
<1> QED
  BY <1>3, <1>4 DEF Finish

LEMMA CallerDownMail ==
    ASSUME Mail, NEW r \in Requests, CallerDown(r)
    PROVE  Mail'
<1>1. /\ Types /\ Once(r) /\ Receives("caller_down", r)
      /\ "caller_down" \in Kinds \ {"request"}
  BY DEF Mail, CallerDown, Kinds
<1>2. /\ Tail(mailbox) \in Seq(Messages) /\ NoRepeat(Tail(mailbox))
      /\ Waiting(Tail(mailbox)) = Waiting(mailbox) \ {Msg("caller_down", r)}
      /\ caller[r] = "dead"
  BY <1>1, Taken DEF Once
<1>3. CASE Known(r) /\ Release(r, Tail(mailbox))
  BY <1>1, <1>2, <1>3, ReleaseMail DEF Known, CallerDown
<1>4. CASE ~(Known(r) /\ Release(r, Tail(mailbox)))
  BY <1>1, <1>4, IgnoredMail DEF CallerDown
<1> QED
  BY <1>3, <1>4

(* drain/1 finds the deadline passed. *)
LEMMA DropsMail == ASSUME Mail, DrainDrops PROVE Mail'
<1> DEFINE r == Head(queue)
           gone == {}
<1>1. Types /\ Slots /\ r \in jobs /\ Finish(r, "timeout", mailbox) /\ UNCHANGED <<expired, restarts>>
  <2>1. queue \in Seq(Requests) /\ queue # <<>> /\ Waiting(queue) = jobs \ started /\ NoRepeat(queue)
    BY DEF DrainDrops, Mail, Slots, SlotsAddUp
  <2>2. r \in Waiting(queue)
    BY <2>1, TailOne
  <2> QED
    BY <2>1, <2>2 DEF DrainDrops, Mail
<1> HIDE DEF r
<1>2. Release(r, mailbox) /\ Reply(r, "timeout")
  BY <1>1 DEF Finish, Known
<1>3. mailbox \in Seq(Messages) /\ NoRepeat(mailbox) /\ "timeout" \in Answer
  BY <1>1 DEF Types, Answer
<1>4. Waiting(mailbox) = Waiting(mailbox) \ gone /\ \A m \in gone : \E kind \in Kinds : m = Msg(kind, r)
  OBVIOUS
<1> HIDE DEF gone
<1> QED
  BY <1>1, <1>2, <1>3, <1>4, ReleaseMail

-----------------------------------------------------------------------------
(* Requests come in *)

LEMMA AcceptMail == ASSUME Mail, NEW r \in Requests, Accept(r) PROVE Mail'
<1> DEFINE gone == {Msg("request", r)}
           come == IF caller[r] = "dead" THEN {Msg("caller_down", r)} ELSE {}
<1>1. /\ Types /\ Slots /\ Once(r) /\ Receives("request", r)
      /\ {"request", "caller_down"} \subseteq Kinds
  BY DEF Mail, Accept, Kinds
<1>2. /\ In("request", r)
      /\ Tail(mailbox) \in Seq(Messages) /\ NoRepeat(Tail(mailbox))
      /\ Waiting(Tail(mailbox)) = Waiting(mailbox) \ gone
  BY <1>1, Taken
<1>3. Untouched(r) /\ caller[r] # "new"
  BY <1>1, <1>2 DEF Once
<1>4. /\ jobs' = jobs \cup {r} /\ armed' = armed \cup {r} /\ draining' = TRUE
      /\ mailbox' = Monitored(r, Tail(mailbox))
      /\ UNCHANGED <<started, caller, worker, expired, answers, restarts>>
  BY DEF Accept, Arm
<1>5. /\ mailbox' \in Seq(Messages) /\ NoRepeat(mailbox')
      /\ Waiting(mailbox') = (Waiting(mailbox) \ gone) \cup come
  <2>1. CASE caller[r] = "dead"
    <3> DEFINE box == Tail(mailbox)
               m == Msg("caller_down", r)
    <3>1. m \in Messages /\ m \notin Waiting(box)
      BY <1>1, <1>2, <1>3, MessageType DEF Untouched, In, Kinds
    <3>2. mailbox' = Append(box, m) /\ come = {m}
      BY <1>4, <2>1 DEF Monitored
    <3>3. box \in Seq(Messages) /\ NoRepeat(box) /\ Waiting(box) = Waiting(mailbox) \ gone
      BY <1>2
    <3> HIDE DEF come, gone, box, m
    <3> QED
      BY <3>1, <3>2, <3>3, AppendOne
  <2>2. CASE caller[r] # "dead"
    BY <1>2, <1>4, <2>2 DEF Monitored
  <2> QED
    BY <2>1, <2>2
<1>6. \A m \in gone \cup come : \E kind \in Kinds : m = Msg(kind, r)
  BY <1>1
<1>7. Types' /\ Slots'
  BY <1>1, <1>4, <1>5, AcceptSlots DEF Types
<1>8. /\ ~In("request", r)'
      /\ In("caller_down", r)' => caller[r] = "dead"
      /\ ~In("job_result", r)' /\ ~In("worker_down", r)' /\ ~In("deadline", r)'
  BY <1>3, <1>5, MessageParts DEF In, Untouched, Kinds
<1>9. Once(r)' /\ Fair(r)'
  BY <1>3, <1>4, <1>8 DEF Once, Fair, Untouched
<1> HIDE DEF gone, come
<1> QED
  BY <1>4, <1>5, <1>6, <1>7, <1>9, OneTouched

LEMMA RefuseMail == ASSUME Mail, NEW r \in Requests, Refuse(r) PROVE Mail'
<1> DEFINE gone == {Msg("request", r)}
<1>1. Types /\ Slots /\ Once(r) /\ Receives("request", r) /\ "request" \in Kinds
  BY DEF Mail, Refuse, Kinds
<1>2. /\ In("request", r) /\ mailbox' = Tail(mailbox)
      /\ mailbox' \in Seq(Messages) /\ NoRepeat(mailbox')
      /\ Waiting(mailbox') = (Waiting(mailbox) \ gone) \cup {}
  BY <1>1, Taken DEF Refuse
<1>3. Untouched(r) /\ caller[r] # "new"
  BY <1>1, <1>2 DEF Once
<1>4. PICK answer \in Answer : Reply(r, answer)
  BY DEF Refuse, Answer
<1>5. UNCHANGED <<state, draining, armed, worker, expired, restarts>>
  BY DEF Refuse
<1>6. /\ caller' \in [Requests -> Callers] /\ answers' \in [Requests -> Seq(Answer)]
      /\ Len(answers'[r]) <= 1 /\ caller'[r] \notin {"new", "waiting"}
      /\ \A s \in Requests \ {r} : caller'[s] = caller[s] /\ answers'[s] = answers[s]
  BY <1>1, <1>3, <1>4, ReplyFields DEF Untouched
<1>7. Types' /\ Slots'
  BY <1>1, <1>2, <1>5, <1>6, SlotsSame DEF Types
<1>8. \A kind \in Kinds : ~In(kind, r)'
  BY <1>2, <1>3 DEF In, Untouched
<1>9. Once(r)' /\ Fair(r)'
  BY <1>3, <1>5, <1>6, <1>8 DEF Once, Fair, Untouched, Kinds, state
<1>10. \A m \in gone \cup {} : \E kind \in Kinds : m = Msg(kind, r)
  BY <1>1
<1> HIDE DEF gone
<1> QED
  BY <1>2, <1>5, <1>6, <1>7, <1>9, <1>10, OneTouched DEF state

LEMMA HandleMail == ASSUME Mail, NEW r \in Requests, Handle(r) PROVE Mail'
<1>1. CASE Accept(r)
  BY <1>1, AcceptMail
<1>2. CASE Refuse(r)
  BY <1>2, RefuseMail
<1>3. CASE JobResult(r)
  BY <1>3, FinishMail DEF JobResult, Kinds, Answer
<1>4. CASE Deadline(r)
  BY <1>4, FinishMail DEF Deadline, Kinds, Answer
<1>5. CASE WorkerDown(r)
  BY <1>5, FinishMail DEF WorkerDown, Kinds, Answer
<1>6. CASE CallerDown(r)
  BY <1>6, CallerDownMail
<1> QED
  BY <1>1, <1>2, <1>3, <1>4, <1>5, <1>6 DEF Handle

-----------------------------------------------------------------------------
(* The other processes *)

(* Nothing about anybody changes but the clock or the drain. *)
LEMMA QuietMail ==
    ASSUME Mail, UNCHANGED <<state, mailbox, armed, caller, worker, answers, restarts>>,
           draining' \in BOOLEAN, expired' \subseteq Requests
    PROVE  Mail'
<1>1. Types' /\ Slots'
  BY SlotsSame DEF Mail, Types
<1>2. \A s \in Requests : Once(s)' /\ Fair(s)'
  BY DEF Mail, Once, Fair, Untouched, In, state
<1> QED
  BY <1>1, <1>2 DEF Mail

LEMMA AskMail == ASSUME Mail, NEW r \in Requests, Ask(r) PROVE Mail'
<1> DEFINE come == {Msg("request", r)}
<1>1. Types /\ Slots /\ Once(r) /\ caller[r] = "new" /\ "request" \in Kinds
  BY DEF Mail, Ask, Kinds
<1>2. Untouched(r) /\ ~In("request", r)
  BY <1>1 DEF Once
<1>3. /\ caller' = [caller EXCEPT ![r] = "waiting"]
      /\ mailbox' = Append(mailbox, Msg("request", r))
      /\ UNCHANGED <<state, draining, armed, worker, expired, answers, restarts>>
  BY DEF Ask
<1>4. /\ mailbox' \in Seq(Messages) /\ NoRepeat(mailbox')
      /\ Waiting(mailbox') = (Waiting(mailbox) \ {}) \cup come
  BY <1>1, <1>2, <1>3, Posted
<1>5. Types' /\ Slots'
  BY <1>1, <1>3, <1>4, SlotsSame DEF Types, Callers
<1>6. caller'[r] = "waiting" /\ \A s \in Requests \ {r} : caller'[s] = caller[s]
  BY <1>1, <1>3 DEF Types
<1>7. In("request", r)' /\ \A kind \in Kinds \ {"request"} : ~In(kind, r)'
  BY <1>2, <1>4, MessageParts DEF In, Untouched
<1>8. Once(r)' /\ Fair(r)'
  BY <1>2, <1>3, <1>6, <1>7 DEF Once, Fair, Untouched, Kinds, state
<1>9. \A m \in {} \cup come : \E kind \in Kinds : m = Msg(kind, r)
  BY <1>1
<1> HIDE DEF come
<1> QED
  BY <1>3, <1>4, <1>5, <1>6, <1>8, <1>9, OneTouched DEF state

LEMMA LeavesMail == ASSUME Mail, NEW r \in Requests, CallerLeaves(r) PROVE Mail'
<1>1. /\ Types /\ Slots /\ Once(r) /\ Fair(r) /\ caller[r] = "waiting"
      /\ caller' = [caller EXCEPT ![r] = "left"]
      /\ UNCHANGED <<state, draining, mailbox, armed, worker, expired, answers, restarts>>
  BY DEF Mail, CallerLeaves
<1>2. caller'[r] = "left" /\ \A s \in Requests \ {r} : caller'[s] = caller[s]
  BY <1>1 DEF Types
<1>3. Types' /\ Slots'
  BY <1>1, SlotsSame DEF Types, Callers
<1>4. Once(r)' /\ Fair(r)'
  BY <1>1, <1>2 DEF Once, Fair, Untouched, In, state
<1>5. \A s \in Requests \ {r} : Once(s)' /\ Fair(s)'
  BY <1>1, <1>2 DEF Mail, Once, Fair, Untouched, In, state
<1> QED
  BY <1>3, <1>4, <1>5 DEF Mail

LEMMA CallerDiesMail == ASSUME Mail, NEW r \in Requests, CallerDies(r) PROVE Mail'
<1> DEFINE come == IF r \in jobs THEN {Msg("caller_down", r)} ELSE {}
<1>1. /\ Types /\ Slots /\ Once(r) /\ Fair(r) /\ caller[r] \in {"waiting", "left"}
      /\ caller' = [caller EXCEPT ![r] = "dead"]
      /\ mailbox' = IF r \in jobs THEN Append(mailbox, Msg("caller_down", r)) ELSE mailbox
      /\ UNCHANGED <<state, draining, armed, worker, expired, answers, restarts>>
      /\ "caller_down" \in Kinds
  BY DEF Mail, CallerDies, Kinds
<1>2. ~In("caller_down", r)
  BY <1>1 DEF Once
<1>3. /\ mailbox' \in Seq(Messages) /\ NoRepeat(mailbox')
      /\ Waiting(mailbox') = (Waiting(mailbox) \ {}) \cup come
  <2>1. CASE r \in jobs
    BY <1>1, <1>2, <2>1, Posted
  <2>2. CASE r \notin jobs
    BY <1>1, <2>2 DEF Types
  <2> QED
    BY <2>1, <2>2
<1>4. caller'[r] = "dead" /\ \A s \in Requests \ {r} : caller'[s] = caller[s]
  BY <1>1 DEF Types
<1>5. Types' /\ Slots'
  BY <1>1, <1>3, SlotsSame DEF Types, Callers
<1>6. \A kind \in Kinds \ {"caller_down"} : In(kind, r)' <=> In(kind, r)
  BY <1>3, MessageParts DEF In
<1>7. r \in jobs => ~In("request", r)
  BY <1>1 DEF Once, Untouched
<1>8. In("caller_down", r)' => r \in jobs
  BY <1>2, <1>3 DEF In
<1>9. Once(r)' /\ Fair(r)'
  BY <1>1, <1>4, <1>6, <1>7, <1>8 DEF Once, Fair, Untouched, Kinds, state
<1>10. \A m \in {} \cup come : \E kind \in Kinds : m = Msg(kind, r)
  BY <1>1
<1> HIDE DEF come
<1> QED
  BY <1>1, <1>3, <1>4, <1>5, <1>9, <1>10, OneTouched DEF state

(* A worker ends and says so; nobody thought it had. *)
Ended(r) ==
    /\ mailbox' \in Seq(Messages) /\ NoRepeat(mailbox')
    /\ Waiting(mailbox) \subseteq Waiting(mailbox')
    /\ Waiting(mailbox') \ Waiting(mailbox) \subseteq {Msg("job_result", r), Msg("worker_down", r)}

LEMMA WorkerMail ==
    ASSUME Mail, NEW r \in Requests, Ended(r),
           worker[r] \in {"running", "killed"},
           worker' = [worker EXCEPT ![r] = "ended"],
           UNCHANGED <<state, draining, armed, caller, expired, answers, restarts>>
    PROVE  Mail'
<1> DEFINE come == Waiting(mailbox') \ Waiting(mailbox)
<1>1. /\ Types /\ Slots /\ Once(r) /\ Fair(r)
      /\ {"job_result", "worker_down"} \subseteq Kinds
  BY DEF Mail, Kinds
<1>2. worker'[r] = "ended" /\ \A s \in Requests \ {r} : worker'[s] = worker[s]
  BY <1>1 DEF Types
<1>3. Types' /\ Slots'
  BY <1>1, SlotsSame DEF Types, Workers, Ended
<1>4. caller[r] # "new" /\ ~In("request", r) /\ r \notin jobs \ started
  BY <1>1 DEF Once, Untouched
<1>5. \A kind \in Kinds \ {"job_result", "worker_down"} : In(kind, r)' <=> In(kind, r)
  BY MessageParts DEF In, Ended
<1>6. Once(r)' /\ Fair(r)'
  BY <1>1, <1>2, <1>4, <1>5 DEF Once, Fair, Untouched, Kinds, state
<1>7. \A m \in {} \cup come : \E kind \in Kinds : m = Msg(kind, r)
  BY <1>1 DEF Ended
<1>8. Waiting(mailbox') = (Waiting(mailbox) \ {}) \cup come
  BY DEF Ended
<1> HIDE DEF come
<1> QED
  BY <1>2, <1>3, <1>6, <1>7, <1>8, OneTouched DEF state

LEMMA WorkerEndsMail ==
    ASSUME Mail, NEW r \in Requests, WorkerAnswers(r) \/ WorkerDies(r)
    PROVE  Mail'
<1> DEFINE result == Msg("job_result", r)
           down == Msg("worker_down", r)
<1>1. /\ Types /\ Once(r) /\ worker[r] \in {"running", "killed"}
      /\ worker' = [worker EXCEPT ![r] = "ended"]
      /\ UNCHANGED <<state, draining, armed, caller, expired, answers, restarts>>
  BY DEF Mail, WorkerAnswers, WorkerDies
<1>2. /\ result \in Messages /\ down \in Messages /\ result # down
      /\ result \notin Waiting(mailbox) /\ down \notin Waiting(mailbox)
  <2>1. ~In("job_result", r) /\ ~In("worker_down", r)
    BY <1>1 DEF Once
  <2> QED
    BY <2>1, MessageType, MessageParts DEF In, Kinds
<1>3. \/ mailbox' = mailbox
      \/ mailbox' = Append(mailbox, result)
      \/ mailbox' = Append(mailbox, down)
      \/ mailbox' = mailbox \o <<result, down>>
  BY DEF WorkerAnswers, WorkerDies
<1>4. Ended(r) <=> /\ mailbox' \in Seq(Messages) /\ NoRepeat(mailbox')
                   /\ Waiting(mailbox) \subseteq Waiting(mailbox')
                   /\ Waiting(mailbox') \ Waiting(mailbox) \subseteq {result, down}
  BY DEF Ended
<1> HIDE DEF result, down
<1>5. Ended(r)
  <2>1. CASE mailbox' = mailbox
    BY <1>1, <1>4, <2>1 DEF Types
  <2>2. CASE mailbox' = Append(mailbox, result)
    BY <1>1, <1>2, <1>4, <2>2, AppendOne DEF Types
  <2>3. CASE mailbox' = Append(mailbox, down)
    BY <1>1, <1>2, <1>4, <2>3, AppendOne DEF Types
  <2>4. CASE mailbox' = mailbox \o <<result, down>>
    BY <1>1, <1>2, <1>4, <2>4, AppendTwo DEF Types
  <2> QED
    BY <1>3, <2>1, <2>2, <2>3, <2>4
<1> QED
  BY <1>1, <1>5, WorkerMail

LEMMA TimerMail == ASSUME Mail, NEW r \in Requests, TimerFires(r) PROVE Mail'
<1> DEFINE come == {Msg("deadline", r)}
<1>1. /\ Types /\ Slots /\ Once(r) /\ Fair(r) /\ r \in armed /\ "deadline" \in Kinds
      /\ armed' = armed \ {r}
      /\ mailbox' = Append(mailbox, Msg("deadline", r))
      /\ UNCHANGED <<state, draining, caller, worker, expired, answers, restarts>>
  BY DEF Mail, TimerFires, Kinds
<1>2. caller[r] # "new" /\ ~In("request", r) /\ ~In("deadline", r)
  BY <1>1 DEF Once, Untouched
<1>3. /\ mailbox' \in Seq(Messages) /\ NoRepeat(mailbox')
      /\ Waiting(mailbox') = (Waiting(mailbox) \ {}) \cup come
  BY <1>1, <1>2, Posted
<1>4. Types' /\ Slots'
  BY <1>1, <1>3, SlotsSame DEF Types
<1>5. \A kind \in Kinds \ {"deadline"} : In(kind, r)' <=> In(kind, r)
  BY <1>3, MessageParts DEF In
<1>6. Once(r)' /\ Fair(r)'
  BY <1>1, <1>2, <1>5 DEF Once, Fair, Kinds, state
<1>7. \A m \in {} \cup come : \E kind \in Kinds : m = Msg(kind, r)
  BY <1>1
<1> HIDE DEF come
<1> QED
  BY <1>1, <1>3, <1>4, <1>6, <1>7, OneTouched DEF state

-----------------------------------------------------------------------------
(* The queue process itself *)

(* A waiting job never had a worker: nothing of one is in the mailbox. *)
LEMMA StartsMail == ASSUME Mail, DrainStarts PROVE Mail'
<1>1. /\ Types /\ Slots
      /\ queue \in Seq(Requests) /\ queue # <<>> /\ NoRepeat(queue)
      /\ Waiting(queue) = jobs \ started
  BY DEF Mail, Slots, SlotsAddUp, DrainStarts
<1>2. PICK r \in Requests : r = Head(queue) /\ r \in jobs \ started
  BY <1>1, TailOne
<1>3. /\ started' = started \cup {r}
      /\ worker' = [worker EXCEPT ![r] = "running"]
      /\ UNCHANGED <<jobs, draining, mailbox, armed, caller, expired, answers, restarts>>
  BY <1>2 DEF DrainStarts
<1>4. Slots'
  BY <1>1, StartSlots
<1>5. Once(r) /\ Fair(r)
  BY <1>2 DEF Mail
<1>6. worker'[r] = "running" /\ \A s \in Requests \ {r} : worker'[s] = worker[s]
  BY <1>1, <1>2, <1>3 DEF Types
<1>7. Types'
  BY <1>1, <1>2, <1>3 DEF Types, Workers
<1>8. \A kind \in Kinds, s \in Requests : In(kind, s)' <=> In(kind, s)
  BY <1>3 DEF In
<1>9. Once(r)' /\ Fair(r)'
  <2>1. caller[r] # "new" /\ ~In("request", r) /\ ~In("job_result", r) /\ ~In("worker_down", r)
    BY <1>2, <1>5 DEF Once, Untouched
  <2>2. r \in jobs' /\ r \in started'
    BY <1>2, <1>3
  <2> QED
    BY <1>2, <1>3, <1>5, <1>8, <2>1, <2>2 DEF Once, Fair, Kinds
<1>10. ASSUME NEW s \in Requests \ {r} PROVE Once(s)' /\ Fair(s)'
  <2>1. Once(s) /\ Fair(s)
    BY DEF Mail
  <2> QED
    BY <1>3, <1>6, <1>8, <2>1, Aside DEF Kinds
<1> QED
  BY <1>4, <1>7, <1>9, <1>10 DEF Mail

LEMMA RestartMail == ASSUME Mail, ServiceRestarts PROVE Mail'
<1>1. Types /\ Slots'
  BY RestartSlots DEF Mail
<1>2. /\ jobs' = {} /\ started' = {} /\ armed' = {} /\ mailbox' = <<>> /\ draining' = FALSE
      /\ restarts' = restarts + 1 /\ restarts < MaxRestarts /\ expired' = expired
      /\ worker' = [r \in Requests |-> IF worker[r] = "none" THEN "none" ELSE "ended"]
      /\ answers' = [r \in Requests |->
             IF caller[r] = "waiting" THEN Append(answers[r], "unavailable") ELSE answers[r]]
      /\ caller' = [r \in Requests |-> IF caller[r] = "waiting" THEN "answered" ELSE caller[r]]
  BY DEF ServiceRestarts
<1>3. Waiting(mailbox') = {} /\ NoRepeat(mailbox') /\ mailbox' \in Seq(Messages)
  BY <1>2 DEF Waiting, NoRepeat
<1>4. ASSUME NEW s \in Requests
      PROVE  /\ answers'[s] \in Seq(Answer) /\ Len(answers'[s]) <= 1
             /\ caller'[s] \in Callers \ {"waiting"}
             /\ worker'[s] \in Workers
             /\ Once(s)'
  <2>1. Once(s) /\ Fair(s) /\ caller[s] \in Callers /\ worker[s] \in Workers /\ answers[s] \in Seq(Answer)
    BY <1>1 DEF Mail, Types
  <2>2. caller[s] = "waiting" => answers[s] = <<>>
    BY <2>1 DEF Fair
  <2>3. answers'[s] = IF caller[s] = "waiting" THEN <<"unavailable">> ELSE answers[s]
    <3>1. answers'[s] = IF caller[s] = "waiting" THEN Append(answers[s], "unavailable") ELSE answers[s]
      BY <1>2
    <3>2. Append(<<>>, "unavailable") = <<"unavailable">>
      OBVIOUS
    <3> QED
      BY <2>2, <3>1, <3>2
  <2>4. answers'[s] \in Seq(Answer) /\ Len(answers'[s]) <= 1
    <3>1. <<"unavailable">> \in Seq(Answer) /\ Len(<<"unavailable">>) = 1
      BY DEF Answer
    <3> QED
      BY <2>1, <2>3, <3>1 DEF Fair
  <2>5. caller'[s] = IF caller[s] = "waiting" THEN "answered" ELSE caller[s]
    BY <1>2
  <2>6. worker'[s] = IF worker[s] = "none" THEN "none" ELSE "ended"
    BY <1>2
  <2>7. \A kind \in Kinds : ~In(kind, s)'
    BY <1>3 DEF In
  <2>8. Once(s)'
    BY <1>2, <2>1, <2>3, <2>5, <2>6, <2>7 DEF Once, Untouched, Kinds
  <2> QED
    BY <2>1, <2>4, <2>5, <2>6, <2>8 DEF Callers, Workers
<1>5. Types'
  <2>1. restarts' \in 0 .. MaxRestarts
    BY <1>1, <1>2, QueueAssumption DEF Types
  <2>2. answers' \in [Requests -> Seq(Answer)]
    BY <1>2, <1>4
  <2>3. caller' \in [Requests -> Callers] /\ worker' \in [Requests -> Workers]
    BY <1>2, <1>4
  <2> QED
    BY <1>1, <1>2, <1>3, <2>1, <2>2, <2>3 DEF Types
<1>6. \A s \in Requests : Fair(s)'
  BY <1>2, <1>3, <1>4 DEF Fair, In
<1> QED
  BY <1>1, <1>4, <1>5, <1>6 DEF Mail

LEMMA MailInit == Init => Mail
<1> SUFFICES ASSUME Init PROVE Mail
  OBVIOUS
<1>1. Slots
  BY EmptySlots DEF Init
<1>2. Waiting(mailbox) = {} /\ NoRepeat(mailbox) /\ mailbox \in Seq(Messages)
  BY DEF Init, Waiting, NoRepeat
<1>3. <<>> \in Seq(Answer) /\ Len(<<>>) = 0
  OBVIOUS
<1>4. Types
  <2>1. answers \in [Requests -> Seq(Answer)]
    BY <1>3 DEF Init
  <2>2. caller \in [Requests -> Callers] /\ worker \in [Requests -> Workers]
    BY DEF Init, Callers, Workers
  <2>3. restarts \in 0 .. MaxRestarts
    BY QueueAssumption DEF Init
  <2> QED
    BY <1>2, <2>1, <2>2, <2>3 DEF Init, Types
<1>5. ASSUME NEW r \in Requests PROVE Once(r) /\ Fair(r)
  <2>1. caller[r] = "new" /\ worker[r] = "none" /\ answers[r] = <<>>
    BY DEF Init
  <2>2. r \notin jobs /\ r \notin armed /\ \A kind \in Kinds : ~In(kind, r)
    BY <1>2 DEF Init, In
  <2> QED
    BY <1>3, <2>1, <2>2 DEF Once, Fair, Untouched, Kinds
<1> QED
  BY <1>1, <1>4, <1>5 DEF Mail

LEMMA MailStep == Mail /\ [Next]_vars => Mail'
<1> SUFFICES ASSUME Mail, [Next]_vars PROVE Mail'
  OBVIOUS
<1>1. draining \in BOOLEAN /\ expired \subseteq Requests
  BY DEF Mail, Types
<1>2. CASE DrainEnds
  BY <1>1, <1>2, QuietMail DEF DrainEnds
<1>3. CASE DrainDrops
  BY <1>3, DropsMail
<1>4. CASE DrainStarts
  BY <1>4, StartsMail
<1>5. ASSUME NEW r \in Requests, Handle(r) PROVE Mail'
  BY <1>5, HandleMail
<1>6. ASSUME NEW r \in Requests,
             \/ Ask(r) \/ CallerLeaves(r) \/ CallerDies(r)
             \/ WorkerAnswers(r) \/ WorkerDies(r) \/ TimerFires(r)
      PROVE  Mail'
  BY <1>6, AskMail, LeavesMail, CallerDiesMail, WorkerEndsMail, TimerMail
<1>7. ASSUME NEW r \in Requests, DeadlinePasses(r) PROVE Mail'
  BY <1>1, <1>7, QuietMail DEF DeadlinePasses
<1>8. CASE ServiceRestarts
  BY <1>8, RestartMail
<1>9. CASE UNCHANGED vars
  BY <1>1, <1>9, QuietMail DEF vars, state
<1> QED
  BY <1>2, <1>3, <1>4, <1>5, <1>6, <1>7, <1>8, <1>9 DEF Next, QueueStep

-----------------------------------------------------------------------------
(* A caller is answered once at most and its request is in the queue's      *)
(* hands until it is: finish/4 forgets a job before anything else about it  *)
(* is taken from the mailbox, and nothing forgets one unanswered.           *)
THEOREM OneAnswer == Spec => []OneAnswerEach
<1>1. Mail => OneAnswerEach
  <2> SUFFICES ASSUME Mail, NEW r \in Requests
               PROVE  /\ Len(answers[r]) <= 1
                      /\ caller[r] = "waiting" => Owed(r)
                      /\ answers[r] # <<>> => ~Owed(r)
    BY DEF OneAnswerEach
  <2>1. Owed(r) <=> r \in jobs \/ In("request", r)
    BY DEF Owed, In, Waiting
  <2> QED
    BY <2>1 DEF Mail, Fair
<1> QED
  BY <1>1, MailInit, MailStep, PTL DEF Spec

(* The queue process's state has its type, the counter of slots its bounds. *)
THEOREM QueueTypeCorrect == Spec => []TypeOK
<1>1. Mail => TypeOK
  <2> SUFFICES ASSUME Mail PROVE TypeOK
    OBVIOUS
  <2>1. active \in 0 .. Limit
    BY QueueAssumption DEF Mail, Slots, SlotsAddUp
  <2>2. armed \subseteq jobs
    BY DEF Mail, Types, Once
  <2> QED
    BY <2>1, <2>2 DEF Mail, Types, Slots, TypeOK, Messages
<1> QED
  BY <1>1, MailInit, MailStep, PTL DEF Spec
=============================================================================
