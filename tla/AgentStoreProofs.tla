-------------------------- MODULE AgentStoreProofs --------------------------
(***************************************************************************)
(* Proofs about AgentStore, for every set of identifiers, owners, keys and  *)
(* requests, every quota and every number of faults: admission holds, every *)
(* checkpoint is based on the last one, and records only advance.           *)
(*                                                                          *)
(* The argument is about who may still write a record.  A task is with its  *)
(* process, or with a DOWN message, or in the coordinator's hands, or on    *)
(* its list of jobs to relaunch, never with two of them; and what is in the *)
(* store's mailbox is at most one message of the coordinator, the one it    *)
(* waits for, and at most one checkpoint for each task, sent before it.     *)
(***************************************************************************)
EXTENDS AgentStore, FiniteSetTheorems, TLAPS

-----------------------------------------------------------------------------
(* The inductive invariant *)

(* The coordinator works on a task of the store. *)
Held == coord.at \in {"starting", "failing", "reading", "interrupting", "rereading"}

(* No checkpoint of a task process is under way for id. *)
Quiet(q, id) == \A m \in Range(q) : m.from = "worker" => m.job.id # id

(* No message of the coordinator is under way. *)
Silent(q) == \A m \in Range(q) : m.from = "worker"

Records ==
    /\ DOMAIN disk \subseteq Ids
    /\ \A id \in DOMAIN disk :
          disk[id] \in Job /\ disk[id].id = id /\ AskOf(disk[id]) \in Asks

(* A process holds the record in the store, and nobody else has the task.   *)
Processes ==
    /\ downs \subseteq DOMAIN disk
    /\ \A id \in Ids : worker[id].at # "down" =>
          /\ id \in DOMAIN disk \ downs
          /\ worker[id].job = disk[id] /\ disk[id].status # "done"
          /\ worker[id].at = "init" => coord.at = "starting" /\ coord.job.id = id
          /\ worker[id].at = "run" => Quiet(queue, id)

(* A job to relaunch is the record in the store, and nobody has the task.   *)
(* A new coordinator finds nobody at work.                                  *)
Relaunches ==
    /\ \A job \in coord.todo :
          /\ job.id \in DOMAIN disk \ downs
          /\ job = disk[job.id] /\ job.status # "done"
          /\ worker[job.id].at = "down" /\ Quiet(queue, job.id)
          /\ Held => coord.job.id # job.id
    /\ coord.at = "recovering" =>
          downs = {} /\ Range(queue) = {} /\ \A id \in Ids : worker[id].at = "down"

(* The job in the coordinator's hands. *)
InHand ==
    /\ coord.at = "creating" =>
          /\ coord.job \in Job /\ coord.job.id \notin DOMAIN disk
          /\ AskOf(coord.job) \in Asks /\ coord.job.status = "queued"
    /\ Held =>
          /\ coord.job \in Job /\ coord.job.id \in DOMAIN disk \ downs
          /\ AskOf(coord.job) = AskOf(disk[coord.job.id])
          /\ worker[coord.job.id].at \in {"down", "init"}
    /\ coord.at = "starting" =>
          /\ coord.job = disk[coord.job.id] /\ coord.job.status # "done"
          /\ worker[coord.job.id].at = "down" => Quiet(queue, coord.job.id)
    /\ coord.at = "failing" =>
          /\ coord.job.rev <= disk[coord.job.id].rev
          /\ coord.job.rev = disk[coord.job.id].rev =>
                coord.job = disk[coord.job.id] /\ coord.job.status # "done"
    /\ coord.at = "interrupting" =>
          /\ coord.job = disk[coord.job.id] /\ coord.job.status # "done"
          /\ Quiet(queue, coord.job.id)
    /\ coord.at = "rereading" =>
          disk[coord.job.id].status = "halted" /\ Quiet(queue, coord.job.id)

(* What the coordinator waits for, and the message it sent for it.          *)
Expected(m) ==
    \/ /\ coord.at = "creating"
       /\ m.kind = "create" /\ m.job = coord.job
    \/ /\ coord.at \in {"reading", "rereading"}
       /\ m.kind = "all" /\ m.job.id = coord.job.id
    \/ /\ coord.at \in {"failing", "interrupting"}
       /\ m.kind = "save" /\ m.job = [coord.job EXCEPT !.status = m.job.status]
       /\ coord.at = "interrupting" => m.job.status = "halted"

(* A checkpoint of a task process under way: it is based on the record.     *)
Based(m) ==
    /\ m.kind = "save" /\ m.job.id \in DOMAIN disk
    /\ m.job = [disk[m.job.id] EXCEPT !.status = m.job.status]
    /\ disk[m.job.id].status # "done"
    /\ worker[m.job.id].at = "init" => m.job.status # "done"

(* One checkpoint of each task, one message of the coordinator, in order.   *)
Ordered(q) ==
    /\ q \in Seq(Message)
    /\ \A n, k \in DOMAIN q :
          q[n].from = "worker" /\ q[k].from = "worker" /\ q[n].job.id = q[k].job.id => n = k
    /\ \A n, k \in DOMAIN q :
          q[n].from = "coordinator" /\ q[k].from = "coordinator" => n = k
    /\ \A n, k \in DOMAIN q :
          q[n].from = "coordinator" /\ q[k].from = "worker" /\ q[k].job.id = q[n].job.id => k < n

Mailbox ==
    /\ Ordered(queue)
    /\ \A m \in Range(queue) : IF m.from = "worker" THEN Based(m) ELSE Expected(m)

Custody == Records /\ Processes /\ Relaunches /\ InHand /\ Mailbox

Inductive == TypeOK /\ AdmissionHolds /\ Custody

-----------------------------------------------------------------------------
(* The mailbox *)

(* What is left when the store takes the first message. *)
LEMMA TailKeeps ==
    ASSUME NEW q, Ordered(q), q # <<>>
    PROVE  /\ Ordered(Tail(q)) /\ Range(Tail(q)) \subseteq Range(q)
           /\ Head(q) \in Message /\ Head(q) \in Range(q)
           /\ Quiet(Tail(q), Head(q).job.id)
           /\ Head(q).from = "coordinator" => Silent(Tail(q))
<1> DEFINE t == Tail(q)
           h == Head(q)
<1>0. q \in Seq(Message)
  BY DEF Ordered
<1>1. /\ Len(q) \in Nat \ {0} /\ DOMAIN q = 1 .. Len(q)
      /\ t \in Seq(Message) /\ DOMAIN t = 1 .. Len(q) - 1
      /\ h = q[1] /\ h \in Message
  BY <1>0
<1>2. \A i \in 1 .. Len(q) - 1 : t[i] = q[i + 1] /\ i + 1 \in DOMAIN q
  BY <1>0
<1> HIDE DEF t, h
<1>3. Range(t) \subseteq Range(q) /\ h \in Range(q)
  <2>1. 1 \in DOMAIN q
    BY <1>1
  <2> QED
    BY <2>1, <1>1, <1>2 DEF Range
<1>4. \A i \in DOMAIN t : t[i].from \in {"coordinator", "worker"}
  <2>1. \A i \in DOMAIN t : t[i] \in Message
    BY <1>1
  <2> QED
    BY <2>1 DEF Message
<1>5. \A i \in DOMAIN t : t[i].from = "worker" => t[i].job.id # h.job.id
  <2> SUFFICES ASSUME NEW i \in DOMAIN t, t[i].from = "worker", t[i].job.id = h.job.id
               PROVE  FALSE
    OBVIOUS
  <2>1. i + 1 \in DOMAIN q /\ t[i] = q[i + 1] /\ i + 1 # 1 /\ 1 \in DOMAIN q
    BY <1>1, <1>2
  <2>2. h.from \in {"coordinator", "worker"}
    BY <1>1 DEF Message
  <2>3. CASE h.from = "worker"
    BY <2>1, <2>3, <1>1 DEF Ordered
  <2>4. CASE h.from = "coordinator"
    <3>1. i + 1 < 1
      BY <2>1, <2>4, <1>1 DEF Ordered
    <3> QED
      BY <3>1, <2>1, <1>1
  <2> QED
    BY <2>2, <2>3, <2>4
<1>6. h.from = "coordinator" => \A i \in DOMAIN t : t[i].from = "worker"
  <2> SUFFICES ASSUME h.from = "coordinator", NEW i \in DOMAIN t, t[i].from # "worker"
               PROVE  FALSE
    OBVIOUS
  <2>1. i + 1 \in DOMAIN q /\ t[i] = q[i + 1] /\ i + 1 # 1 /\ 1 \in DOMAIN q
    BY <1>1, <1>2
  <2> QED
    BY <2>1, <1>1, <1>4 DEF Ordered
<1>7. Ordered(t)
  <2>1. ASSUME NEW n \in DOMAIN t, NEW k \in DOMAIN t
        PROVE  /\ n + 1 \in DOMAIN q /\ t[n] = q[n + 1]
               /\ k + 1 \in DOMAIN q /\ t[k] = q[k + 1]
               /\ n + 1 = k + 1 => n = k
               /\ k + 1 < n + 1 => k < n
    BY <1>1, <1>2
  <2> QED
    BY <2>1, <1>1 DEF Ordered
<1> QED
  BY <1>1, <1>3, <1>5, <1>6, <1>7 DEF t, h, Quiet, Silent, Range

(* What a new message finds there. *)
LEMMA AppendKeeps ==
    ASSUME NEW q, Ordered(q), NEW m \in Message,
           m.from = "worker" =>
              /\ Quiet(q, m.job.id)
              /\ \A l \in Range(q) : l.from = "coordinator" => l.job.id # m.job.id,
           m.from = "coordinator" => Silent(q)
    PROVE  Ordered(Append(q, m)) /\ Range(Append(q, m)) = Range(q) \cup {m}
<1> DEFINE a == Append(q, m)
           e == Len(q) + 1
<1>1. /\ Len(q) \in Nat /\ DOMAIN q = 1 .. Len(q)
      /\ a \in Seq(Message) /\ DOMAIN a = 1 .. e
      /\ a[e] = m /\ e \in DOMAIN a
  BY DEF Ordered
<1>2. \A i \in DOMAIN q : a[i] = q[i] /\ i < e
  BY DEF Ordered
<1>3. \A i \in DOMAIN a : i # e => i \in DOMAIN q
  BY <1>1
<1> HIDE DEF a, e
<1>4. Range(a) = Range(q) \cup {m}
  BY <1>1, <1>2, <1>3 DEF Range
<1>5. \A i \in DOMAIN q : q[i] \in Range(q) /\ i \in DOMAIN a
  BY <1>1, <1>2 DEF Range, e
<1>6. ASSUME NEW n \in DOMAIN a, NEW k \in DOMAIN a,
             a[n].from = "worker", a[k].from = "worker", a[n].job.id = a[k].job.id
      PROVE  n = k
  <2>1. n # e /\ k # e => n = k
    BY <1>2, <1>3, <1>6 DEF Ordered
  <2>2. n = e => k = e
    BY <1>1, <1>2, <1>3, <1>5, <1>6 DEF Quiet
  <2>3. k = e => n = e
    BY <1>1, <1>2, <1>3, <1>5, <1>6 DEF Quiet
  <2> QED
    BY <2>1, <2>2, <2>3
<1>7. ASSUME NEW n \in DOMAIN a, NEW k \in DOMAIN a,
             a[n].from = "coordinator", a[k].from = "coordinator"
      PROVE  n = k
  <2>1. n # e /\ k # e => n = k
    BY <1>2, <1>3, <1>7 DEF Ordered
  <2>2. n = e => k = e
    BY <1>1, <1>2, <1>3, <1>5, <1>7 DEF Silent
  <2>3. k = e => n = e
    BY <1>1, <1>2, <1>3, <1>5, <1>7 DEF Silent
  <2> QED
    BY <2>1, <2>2, <2>3
<1>8. ASSUME NEW n \in DOMAIN a, NEW k \in DOMAIN a,
             a[n].from = "coordinator", a[k].from = "worker", a[k].job.id = a[n].job.id
      PROVE  k < n
  <2>1. n # e /\ k # e => k < n
    BY <1>2, <1>3, <1>8 DEF Ordered
  <2>2. n # k
    BY <1>8
  <2>3. n = e => k < n
    BY <2>2, <1>2, <1>3
  <2>4. k # e
    BY <2>2, <1>1, <1>2, <1>3, <1>5, <1>8
  <2> QED
    BY <2>1, <2>3, <2>4
<1>9. Ordered(a)
  BY <1>1, <1>6, <1>7, <1>8 DEF Ordered
<1> QED
  BY <1>4, <1>9 DEF a

-----------------------------------------------------------------------------
(* Admission *)

(* What clients are newly told is right. *)
ToldRight ==
    \A t \in told' \ told : t.id \in DOMAIN disk /\ AskOf(disk[t.id]) = t.ask

LEMMA FiniteStore ==
    ASSUME Records
    PROVE  /\ IsFiniteSet(DOMAIN disk) /\ IsFiniteSet(Unfinished)
           /\ \A o : IsFiniteSet({id \in Unfinished : disk[id].owner = o})
<1>1. IsFiniteSet(DOMAIN disk)
  BY StoreAssumption, FS_Subset DEF Records
<1>2. IsFiniteSet(Unfinished)
  BY <1>1, FS_Subset DEF Unfinished
<1>3. ASSUME NEW o PROVE IsFiniteSet({id \in Unfinished : disk[id].owner = o})
  BY <1>2, FS_Subset
<1> QED
  BY <1>1, <1>2, <1>3

(* Answers to clients, with the records as they are. *)
LEMMA TellingAdmits ==
    ASSUME AdmissionHolds, disk' = disk, ToldRight
    PROVE  AdmissionHolds'
<1>1. OneTaskPerRequest' /\ QuotasHold'
  BY DEF AdmissionHolds, OneTaskPerRequest, QuotasHold, Unfinished
<1>2. AnswersStand'
  BY DEF AdmissionHolds, AnswersStand, ToldRight
<1> QED
  BY <1>1, <1>2 DEF AdmissionHolds

(* A checkpoint of an unfinished task, by whoever writes it. *)
LEMMA SavingAdmits ==
    ASSUME Records, AdmissionHolds, ToldRight, NEW job \in Job, Store(job),
           job.id \in DOMAIN disk, disk[job.id].status # "done",
           AskOf(job) = AskOf(disk[job.id])
    PROVE  /\ AdmissionHolds' /\ Records'
           /\ DOMAIN disk' = DOMAIN disk /\ disk'[job.id] = Bumped(job)
           /\ \A id \in DOMAIN disk : id # job.id => disk'[id] = disk[id]
<1>1. /\ DOMAIN disk' = DOMAIN disk /\ disk'[job.id] = Bumped(job)
      /\ \A id \in DOMAIN disk : id # job.id => disk'[id] = disk[id]
  BY DEF Store
<1>2. /\ Bumped(job) \in Job /\ Bumped(job).id = job.id
      /\ AskOf(Bumped(job)) = AskOf(job) /\ Bumped(job).status = job.status
  BY DEF Bumped, Job, AskOf
<1>3. \A id \in DOMAIN disk :
         /\ disk'[id] \in Job /\ disk'[id].id = id /\ AskOf(disk'[id]) = AskOf(disk[id])
         /\ disk'[id].owner = disk[id].owner /\ disk'[id].key = disk[id].key
  BY <1>1, <1>2 DEF Records, AskOf
<1>4. Records'
  BY <1>1, <1>3 DEF Records
<1>5. OneTaskPerRequest'
  BY <1>1, <1>3 DEF AdmissionHolds, OneTaskPerRequest
<1>6. AnswersStand'
  BY <1>1, <1>3 DEF AdmissionHolds, AnswersStand, ToldRight
<1>7. Unfinished' \subseteq Unfinished
  BY <1>1 DEF Unfinished
<1>8. QuotasHold'
  <2>1. Cardinality(Unfinished') <= Cardinality(Unfinished)
    BY <1>7, FiniteStore, FS_Subset
  <2>2. ASSUME NEW o \in Owners
        PROVE  Cardinality({id \in Unfinished : disk[id].owner = o}') <= MaxPerOwner
    <3> DEFINE S == {id \in Unfinished : disk[id].owner = o}
               T == {id \in Unfinished' : disk'[id].owner = o}
    <3>1. T \subseteq S
      BY <1>7, <1>3, <1>1 DEF Unfinished
    <3>2. IsFiniteSet(S) /\ Cardinality(S) <= MaxPerOwner
      BY FiniteStore DEF AdmissionHolds, QuotasHold
    <3>3. Cardinality(T) <= Cardinality(S) /\ Cardinality(S) \in Nat /\ Cardinality(T) \in Nat
      BY <3>1, <3>2, FS_Subset, FS_CardinalityType
    <3> HIDE DEF S, T
    <3>4. Cardinality(T) <= MaxPerOwner
      BY <3>2, <3>3, StoreAssumption
    <3> QED
      BY <3>4 DEF T
  <2>3. Cardinality(Unfinished) \in Nat /\ Cardinality(Unfinished') \in Nat
    BY FiniteStore, <1>7, FS_Subset, FS_CardinalityType
  <2>4. Cardinality(Unfinished') <= MaxActive
    BY <2>1, <2>3, StoreAssumption DEF AdmissionHolds, QuotasHold
  <2> QED
    BY <2>2, <2>4, <1>1 DEF AdmissionHolds, QuotasHold
<1> QED
  BY <1>1, <1>4, <1>5, <1>6, <1>8 DEF AdmissionHolds

(* A new task: nobody has its key, and it is within the quotas. *)
LEMMA CreatingAdmits ==
    ASSUME Records, AdmissionHolds, told' = told, NEW job \in Job, job.id \notin DOMAIN disk,
           AskOf(job) \in Asks, Existing(job) = {}, Quota(job),
           disk' = [id \in DOMAIN disk \cup {job.id} |->
                       IF id = job.id THEN [job EXCEPT !.rev = 1] ELSE disk[id]]
    PROVE  /\ AdmissionHolds' /\ Records'
           /\ DOMAIN disk' = DOMAIN disk \cup {job.id}
           /\ disk'[job.id] = [job EXCEPT !.rev = 1]
           /\ \A id \in DOMAIN disk : disk'[id] = disk[id]
<1> DEFINE new == [job EXCEPT !.rev = 1]
<1>1. /\ DOMAIN disk' = DOMAIN disk \cup {job.id} /\ disk'[job.id] = new
      /\ \A id \in DOMAIN disk : disk'[id] = disk[id]
  OBVIOUS
<1>2. /\ new \in Job /\ new.id = job.id /\ AskOf(new) = AskOf(job)
      /\ new.owner = job.owner /\ new.key = job.key
  BY DEF Job, AskOf
<1> HIDE DEF new
<1>3. job.id \in Ids
  BY DEF Job
<1>4. Records'
  BY <1>1, <1>2, <1>3 DEF Records
<1>5. OneTaskPerRequest'
  BY <1>1, <1>2 DEF AdmissionHolds, OneTaskPerRequest, Existing
<1>6. AnswersStand'
  BY <1>1 DEF AdmissionHolds, AnswersStand
<1>7. Unfinished' \subseteq Unfinished \cup {job.id} /\ job.id \notin Unfinished
  BY <1>1 DEF Unfinished
<1>8. QuotasHold'
  <2>1. Cardinality(DOMAIN disk') <= MaxSaved
    <3>1. Cardinality(DOMAIN disk') = Cardinality(DOMAIN disk) + 1
      BY <1>1, FiniteStore, FS_AddElement
    <3>2. Cardinality(DOMAIN disk) \in Nat
      BY FiniteStore, FS_CardinalityType
    <3> QED
      BY <3>1, <3>2, StoreAssumption DEF Quota
  <2>2. Cardinality(Unfinished') <= MaxActive
    <3>1. Cardinality(Unfinished \cup {job.id}) = Cardinality(Unfinished) + 1
      BY <1>7, FiniteStore, FS_AddElement
    <3>2. IsFiniteSet(Unfinished \cup {job.id})
      BY FiniteStore, FS_AddElement
    <3>3. /\ Cardinality(Unfinished') <= Cardinality(Unfinished \cup {job.id})
          /\ Cardinality(Unfinished) \in Nat /\ Cardinality(Unfinished') \in Nat
      BY <3>2, <1>7, FiniteStore, FS_Subset, FS_CardinalityType
    <3> QED
      BY <3>1, <3>3, StoreAssumption DEF Quota
  <2>3. ASSUME NEW o \in Owners
        PROVE  Cardinality({id \in Unfinished : disk[id].owner = o}') <= MaxPerOwner
    <3> DEFINE S == {id \in Unfinished : disk[id].owner = o}
               T == {id \in Unfinished' : disk'[id].owner = o}
    <3>1. IsFiniteSet(S) /\ job.id \notin S /\ Cardinality(S) <= MaxPerOwner
      BY FiniteStore, <1>7 DEF AdmissionHolds, QuotasHold
    <3>2. T \subseteq S \cup {job.id} /\ (o # job.owner => T \subseteq S)
      BY <1>1, <1>2, <1>7 DEF Unfinished
    <3>3. o = job.owner => Cardinality(S) < MaxPerOwner
      BY DEF Quota
    <3> HIDE DEF S, T
    <3>4. IsFiniteSet(S \cup {job.id}) /\ Cardinality(S \cup {job.id}) = Cardinality(S) + 1
      BY <3>1, FS_AddElement
    <3>5. /\ Cardinality(S) \in Nat /\ IsFiniteSet(T) /\ Cardinality(T) \in Nat
          /\ Cardinality(T) <= Cardinality(S \cup {job.id})
          /\ o # job.owner => Cardinality(T) <= Cardinality(S)
      BY <3>1, <3>2, <3>4, FS_Subset, FS_CardinalityType
    <3>6. Cardinality(T) <= MaxPerOwner
      BY <3>1, <3>3, <3>4, <3>5, StoreAssumption
    <3> QED
      BY <3>6 DEF T
  <2> QED
    BY <2>1, <2>2, <2>3 DEF QuotasHold
<1> QED
  BY <1>1, <1>4, <1>5, <1>6, <1>8 DEF AdmissionHolds, new

-----------------------------------------------------------------------------
(* Places without a message of the coordinator *)

LEMMA NothingExpected ==
    ASSUME Mailbox, coord.at \in {"serving", "recovering", "starting"}
    PROVE  Silent(queue)
BY DEF Mailbox, Expected, Silent

(* While a checkpoint is under way its process waits or is gone, and the    *)
(* task is on no list.                                                      *)
LEMMA CheckpointUnderWay ==
    ASSUME Custody, NEW m \in Range(queue), m.from = "worker"
    PROVE  /\ Based(m) /\ worker[m.job.id].at # "run"
           /\ \A job \in coord.todo : job.id # m.job.id
BY DEF Custody, Mailbox, Processes, Relaunches, Quiet, Based, Records

(* Nothing but requests, answers and counts moves.                          *)
LEMMA CustodySame ==
    ASSUME Custody, UNCHANGED <<disk, queue, coord, worker, downs>>
    PROVE  Custody'
<1>1. Records' /\ Processes' /\ Relaunches' /\ InHand'
  BY DEF Custody, Records, Processes, Relaunches, InHand, Held
<1>2. Mailbox'
  BY DEF Custody, Mailbox, Expected, Based
<1> QED
  BY <1>1, <1>2 DEF Custody

LEMMA AdmissionSame ==
    ASSUME AdmissionHolds, UNCHANGED <<disk, told>>
    PROVE  AdmissionHolds'
BY TellingAdmits DEF ToldRight

-----------------------------------------------------------------------------
(* Starting a task *)

LEMMA AskKeeps ==
    ASSUME Inductive, NEW ask \in Asks, Ask(ask)
    PROVE  Inductive'
<1>1. TypeOK'
  BY DEF Inductive, TypeOK, Ask
<1>2. AdmissionHolds' /\ Custody'
  BY AdmissionSame, CustodySame DEF Inductive, Ask
<1> QED
  BY <1>1, <1>2 DEF Inductive

(* The quota on saved tasks leaves an identifier nobody has. *)
LEMMA FreshIsFree ==
    ASSUME Records, QuotasHold
    PROVE  Fresh \in Ids \ DOMAIN disk
<1>1. \E id \in Ids : id \notin DOMAIN disk
  <2> SUFFICES ASSUME Ids \subseteq DOMAIN disk PROVE FALSE
    OBVIOUS
  <2>1. DOMAIN disk = Ids
    BY DEF Records
  <2>2. Cardinality(Ids) <= MaxSaved /\ Cardinality(Ids) > MaxSaved
    BY <2>1, StoreAssumption DEF QuotasHold
  <2>3. Cardinality(Ids) \in Nat /\ MaxSaved \in Nat
    BY StoreAssumption, FS_CardinalityType
  <2> QED
    BY <2>2, <2>3
<1> QED
  BY <1>1 DEF Fresh

LEMMA StartKeeps ==
    ASSUME Inductive, Start
    PROVE  Inductive'
<1> DEFINE ask == Head(asked)
           new == [id |-> Fresh, owner |-> ask.owner, key |-> ask.key, req |-> ask.req,
                   status |-> "queued", rev |-> 0]
           message == [kind |-> "create", from |-> "coordinator", job |-> new]
<1>1. /\ TypeOK /\ AdmissionHolds /\ Custody
      /\ Records /\ Processes /\ Relaunches /\ InHand /\ Mailbox
  BY DEF Inductive, Custody
<1>2. ask \in Asks /\ asked' \in Seq(Asks)
  BY <1>1 DEF TypeOK, Start
<1>3. new \in Job /\ AskOf(new) = ask /\ new.id \notin DOMAIN disk /\ new.status = "queued"
  BY <1>1, <1>2, FreshIsFree, StoreAssumption DEF AdmissionHolds, Job, AskOf, Status
<1>4. /\ coord' = [coord EXCEPT !.at = "creating", !.job = new, !.recovery = FALSE]
      /\ queue' = Append(queue, message)
      /\ coord.at = "serving" /\ coord.todo = {}
      /\ UNCHANGED <<disk, worker, downs, told, orphans, faults>>
  BY DEF Start, Send
<1>5. message \in Message /\ message.from = "coordinator" /\ message.kind = "create"
      /\ message.job = new
  BY <1>3 DEF Message
<1> HIDE DEF ask, new, message
<1>6. /\ coord'.at = "creating" /\ coord'.job = new /\ coord'.todo = {}
      /\ coord'.recovery = FALSE /\ coord' \in [at : Places, job : Job \cup {NoJob},
                                                recovery : BOOLEAN, todo : SUBSET Job]
  BY <1>1, <1>3, <1>4 DEF TypeOK, Places
<1>7. Silent(queue)
  BY <1>1, <1>4, NothingExpected
<1>8. Ordered(queue') /\ Range(queue') = Range(queue) \cup {message}
  BY <1>1, <1>4, <1>5, <1>7, AppendKeeps DEF Mailbox
<1>9. TypeOK'
  BY <1>1, <1>2, <1>3, <1>4, <1>6, <1>8, NoJobAssumption DEF TypeOK, Ordered
<1>10. AdmissionHolds'
  BY <1>1, <1>4, AdmissionSame
<1>11. Records'
  BY <1>1, <1>4 DEF Records
<1>12. Processes'
  BY <1>1, <1>4, <1>5, <1>8 DEF Processes, Quiet
<1>13. Relaunches' /\ InHand'
  BY <1>2, <1>3, <1>4, <1>6 DEF Relaunches, InHand, Held
<1>14. Mailbox'
  <2>1. ASSUME NEW m \in Range(queue), m.from = "worker" PROVE Based(m)'
    BY <2>1, <1>1, <1>4 DEF Mailbox, Based
  <2>2. ASSUME NEW m, m = message PROVE Expected(m)'
    BY <2>2, <1>5, <1>6 DEF Expected
  <2> QED
    BY <2>1, <2>2, <1>5, <1>7, <1>8 DEF Mailbox, Silent
<1> QED
  BY <1>9, <1>10, <1>11, <1>12, <1>13, <1>14 DEF Inductive, Custody

LEMMA RelaunchKeeps ==
    ASSUME Inductive, NEW job \in coord.todo, Relaunch(job)
    PROVE  Inductive'
<1>1. /\ TypeOK /\ AdmissionHolds /\ Custody
      /\ Records /\ Processes /\ Relaunches /\ InHand /\ Mailbox
  BY DEF Inductive, Custody
<1>2. /\ coord.at = "serving" /\ job \in Job
      /\ coord' = [at |-> "starting", job |-> job, recovery |-> TRUE, todo |-> coord.todo \ {job}]
      /\ UNCHANGED <<disk, queue, worker, asked, downs, told, orphans, faults>>
  BY <1>1 DEF Relaunch, TypeOK
<1>3. /\ coord'.at = "starting" /\ coord'.job = job /\ coord'.recovery = TRUE
      /\ coord'.todo = coord.todo \ {job}
  BY <1>2
<1>4. TypeOK'
  BY <1>1, <1>2, <1>3, NoJobAssumption DEF TypeOK, Places
<1>5. AdmissionHolds' /\ Records'
  BY <1>1, <1>2, AdmissionSame DEF Records
<1>6. Processes'
  BY <1>1, <1>2, <1>3 DEF Processes, Quiet
<1>7. Relaunches'
  BY <1>1, <1>2, <1>3 DEF Relaunches
<1>8. InHand'
  BY <1>1, <1>2, <1>3 DEF InHand, Relaunches, Held
<1>9. Mailbox'
  BY <1>1, <1>2, NothingExpected DEF Mailbox, Silent, Based
<1> QED
  BY <1>4, <1>5, <1>6, <1>7, <1>8, <1>9 DEF Inductive, Custody

(* The coordinator is done with a job and takes the next. *)
LEMMA ServedIs ==
    ASSUME TypeOK, Served
    PROVE  /\ coord'.at = "serving" /\ coord'.job = NoJob /\ coord'.recovery = FALSE
           /\ coord'.todo = coord.todo
           /\ coord' \in [at : Places, job : Job \cup {NoJob}, recovery : BOOLEAN, todo : SUBSET Job]
BY DEF TypeOK, Served, Idle, Places

(* The answer to the coordinator: the message it waited for leaves, and     *)
(* nothing else concerns its task.                                          *)
LEMMA CoordinatorAnswered ==
    ASSUME Mailbox, NEW kind, Received(kind, "coordinator")
    PROVE  /\ Ordered(Tail(queue)) /\ Range(Tail(queue)) \subseteq Range(queue)
           /\ Head(queue) \in Message /\ Expected(Head(queue))
           /\ Head(queue).kind = kind
           /\ Silent(Tail(queue)) /\ Quiet(Tail(queue), Head(queue).job.id)
           /\ \A m \in Range(Tail(queue)) : m.from = "worker" /\ Based(m)
<1>1. /\ Ordered(queue) /\ queue # <<>> /\ Head(queue).from = "coordinator"
      /\ Head(queue).kind = kind
  BY DEF Mailbox, Received
<1>2. /\ Ordered(Tail(queue)) /\ Range(Tail(queue)) \subseteq Range(queue)
      /\ Head(queue) \in Message /\ Head(queue) \in Range(queue)
      /\ Silent(Tail(queue)) /\ Quiet(Tail(queue), Head(queue).job.id)
  BY <1>1, TailKeeps
<1>3. Expected(Head(queue))
  BY <1>1, <1>2 DEF Mailbox
<1> QED
  BY <1>1, <1>2, <1>3 DEF Mailbox, Silent

LEMMA StoreCreatesKeeps ==
    ASSUME Inductive, StoreCreates
    PROVE  Inductive'
<1> DEFINE h == Head(queue)
           q == Tail(queue)
<1>1. /\ TypeOK /\ AdmissionHolds /\ Custody
      /\ Records /\ Processes /\ Relaunches /\ InHand /\ Mailbox
  BY DEF Inductive, Custody
<1>2. Received("create", "coordinator")
  BY DEF StoreCreates
<1>3. /\ Ordered(q) /\ Range(q) \subseteq Range(queue) /\ h \in Message /\ Expected(h)
      /\ Quiet(q, h.job.id) /\ h.kind = "create"
      /\ \A m \in Range(q) : m.from = "worker" /\ Based(m)
  BY <1>1, <1>2, CoordinatorAnswered
<1>4. /\ queue' = q /\ UNCHANGED <<worker, asked, downs, orphans, faults>>
  BY DEF StoreCreates
<1>5. /\ coord.at = "creating" /\ h.job = coord.job /\ coord.job \in Job
      /\ coord.job.id \notin DOMAIN disk /\ AskOf(coord.job) \in Asks
      /\ coord.job.status # "done"
  BY <1>1, <1>3 DEF Expected, InHand
<1>6. \/ /\ Existing(coord.job) = {} /\ Quota(coord.job)
         /\ disk' = [id \in DOMAIN disk \cup {coord.job.id} |->
                        IF id = coord.job.id THEN [coord.job EXCEPT !.rev = 1] ELSE disk[id]]
         /\ coord' = [coord EXCEPT !.at = "starting", !.job = [coord.job EXCEPT !.rev = 1]]
         /\ UNCHANGED told
      \/ Served /\ UNCHANGED <<disk, told>>
      \/ \E id \in Existing(coord.job) :
            SameRequest(id, coord.job) /\ Tell(id) /\ Served /\ UNCHANGED disk
  BY <1>5 DEF StoreCreates
<1> HIDE DEF h, q
<1>7. CASE /\ Existing(coord.job) = {} /\ Quota(coord.job)
           /\ disk' = [id \in DOMAIN disk \cup {coord.job.id} |->
                          IF id = coord.job.id THEN [coord.job EXCEPT !.rev = 1] ELSE disk[id]]
           /\ coord' = [coord EXCEPT !.at = "starting", !.job = [coord.job EXCEPT !.rev = 1]]
           /\ UNCHANGED told
  <2> DEFINE new == [coord.job EXCEPT !.rev = 1]
  <2>1. /\ AdmissionHolds' /\ Records'
        /\ DOMAIN disk' = DOMAIN disk \cup {coord.job.id} /\ disk'[coord.job.id] = new
        /\ \A id \in DOMAIN disk : disk'[id] = disk[id]
    BY <1>1, <1>5, <1>7, CreatingAdmits
  <2>2. new \in Job /\ new.id = coord.job.id /\ AskOf(new) = AskOf(coord.job)
    BY <1>5 DEF Job, AskOf
  <2>a. coord.job.status # "done" => new.status # "done"
    BY <1>5 DEF Job
  <2>3. /\ coord' \in [at : Places, job : Job \cup {NoJob}, recovery : BOOLEAN, todo : SUBSET Job]
        /\ coord'.at = "starting" /\ coord'.job = new /\ coord'.todo = coord.todo
    BY <1>1, <1>7, <2>2 DEF TypeOK, Places
  <2> HIDE DEF new
  <2>4. TypeOK'
    <3>1. coord'.at \in {"serving", "recovering"} <=> coord'.job = NoJob
      BY <2>2, <2>3, NoJobAssumption
    <3>2. DOMAIN disk' \subseteq Ids /\ (\A id \in DOMAIN disk' : disk'[id] \in Job)
      BY <2>1 DEF Records
    <3>3. queue' \in Seq(Message)
      BY <1>3, <1>4 DEF Ordered
    <3> QED
      BY <1>1, <1>4, <1>7, <2>3, <3>1, <3>2, <3>3 DEF TypeOK
  <2>5. Processes'
    BY <1>1, <1>3, <1>4, <1>5, <2>1, <2>2, <2>3 DEF Processes, Quiet
  <2>6. Relaunches'
    BY <1>1, <1>3, <1>4, <1>5, <2>1, <2>2, <2>3 DEF Relaunches, Quiet
  <2>7. worker[coord.job.id].at = "down" /\ coord.job.id \notin downs
    BY <1>1, <1>5 DEF Processes, Job
  <2>8. InHand'
    BY <1>3, <1>4, <1>5, <2>1, <2>2, <2>3, <2>7, <2>a DEF InHand, Held
  <2>9. Mailbox'
    BY <1>1, <1>3, <1>4, <2>1 DEF Mailbox, Based
  <2> QED
    BY <2>1, <2>4, <2>5, <2>6, <2>8, <2>9 DEF Inductive, Custody
<1>8. CASE Served /\ disk' = disk /\ ToldRight /\ told' \subseteq [ask : Asks, id : Ids]
  <2>1. /\ coord'.at = "serving" /\ coord'.job = NoJob /\ coord'.todo = coord.todo
        /\ coord' \in [at : Places, job : Job \cup {NoJob}, recovery : BOOLEAN, todo : SUBSET Job]
    BY <1>1, <1>8, ServedIs
  <2>2. TypeOK'
    BY <1>1, <1>3, <1>4, <1>8, <2>1 DEF TypeOK, Ordered
  <2>3. AdmissionHolds' /\ Records'
    BY <1>1, <1>8, TellingAdmits DEF Records
  <2>4. Processes'
    BY <1>1, <1>3, <1>4, <1>5, <1>8, <2>1 DEF Processes, Quiet
  <2>5. Relaunches'
    BY <1>1, <1>3, <1>4, <1>5, <1>8, <2>1 DEF Relaunches, Quiet, Held
  <2>6. InHand'
    BY <2>1 DEF InHand, Held
  <2>7. Mailbox'
    BY <1>1, <1>3, <1>4, <1>8 DEF Mailbox, Based
  <2> QED
    BY <2>2, <2>3, <2>4, <2>5, <2>6, <2>7 DEF Inductive, Custody
<1>9. CASE Served /\ UNCHANGED <<disk, told>>
  BY <1>1, <1>8, <1>9 DEF ToldRight, TypeOK
<1>10. CASE \E id \in Existing(coord.job) :
               SameRequest(id, coord.job) /\ Tell(id) /\ Served /\ UNCHANGED disk
  <2>1. PICK id \in Existing(coord.job) :
               SameRequest(id, coord.job) /\ Tell(id) /\ Served /\ UNCHANGED disk
    BY <1>10
  <2>2. id \in DOMAIN disk /\ AskOf(disk[id]) = AskOf(coord.job)
    BY <2>1 DEF Existing, SameRequest, AskOf
  <2>3. ToldRight /\ told' \subseteq [ask : Asks, id : Ids]
    BY <1>1, <1>5, <2>1, <2>2 DEF Tell, ToldRight, TypeOK
  <2> QED
    BY <1>8, <2>1, <2>3
<1> QED
  BY <1>6, <1>7, <1>9, <1>10

(* The job that is started is the record in the store. *)
LEMMA Starting ==
    ASSUME Inductive, coord.at = "starting"
    PROVE  /\ coord.job \in Job /\ coord.job.id \in DOMAIN disk \ downs
           /\ coord.job.id \in Ids
           /\ coord.job = disk[coord.job.id] /\ coord.job.status # "done"
           /\ AskOf(coord.job) \in Asks
           /\ worker[coord.job.id].at \in {"down", "init"}
           /\ worker[coord.job.id].at = "down" => Quiet(queue, coord.job.id)
           /\ Silent(queue)
           /\ \A job \in coord.todo : job.id # coord.job.id
BY NothingExpected DEF Inductive, Custody, Records, Relaunches, InHand, Held

(* What the client is told, if it is told anything. *)
LEMMA StartTells ==
    ASSUME TypeOK, coord.job \in Job, coord.job.id \in DOMAIN disk,
           AskOf(coord.job) \in Asks, AskOf(coord.job) = AskOf(disk[coord.job.id]), TellStarted
    PROVE  ToldRight /\ told' \subseteq [ask : Asks, id : Ids]
<1>1. coord.job.id \in Ids
  BY DEF Job
<1> QED
  BY <1>1 DEF TellStarted, Tell, ToldRight, TypeOK

LEMMA ProcessStartsKeeps ==
    ASSUME Inductive, ProcessStarts
    PROVE  Inductive'
<1> DEFINE id == coord.job.id
<1>1. /\ TypeOK /\ AdmissionHolds /\ Custody
      /\ Records /\ Processes /\ Relaunches /\ InHand /\ Mailbox
  BY DEF Inductive, Custody
<1>2. /\ coord.at = "starting" /\ worker[id].at # "init"
      /\ UNCHANGED <<disk, asked, downs, orphans, faults>>
  BY DEF ProcessStarts
<1>3. /\ coord.job \in Job /\ id \in DOMAIN disk \ downs /\ id \in Ids
      /\ coord.job = disk[id] /\ coord.job.status # "done"
      /\ AskOf(coord.job) \in Asks
      /\ worker[id].at = "down" /\ Quiet(queue, id) /\ Silent(queue)
      /\ \A job \in coord.todo : job.id # id
  BY <1>2, Starting
<1>4. CASE /\ worker' = [worker EXCEPT ![id] = [at |-> "init", job |-> coord.job]]
           /\ Send("save", "worker", [coord.job EXCEPT !.status = "halted"])
           /\ UNCHANGED <<coord, told>>
  <2> DEFINE message == [kind |-> "save", from |-> "worker",
                         job |-> [coord.job EXCEPT !.status = "halted"]]
  <2>1. /\ message \in Message /\ message.from = "worker" /\ message.kind = "save"
        /\ message.job = [coord.job EXCEPT !.status = "halted"]
        /\ message.job.id = id /\ message.job.status = "halted"
    BY <1>3 DEF Message, Job, Status
  <2>2. queue' = Append(queue, message)
    BY <1>4 DEF Send
  <2> HIDE DEF message
  <2>3. Ordered(queue') /\ Range(queue') = Range(queue) \cup {message}
    <3>1. Ordered(queue) /\ Quiet(queue, message.job.id)
      BY <1>1, <1>3, <2>1 DEF Mailbox
    <3>2. \A l \in Range(queue) : l.from # "coordinator"
      BY <1>3 DEF Silent
    <3> QED
      BY <2>1, <2>2, <3>1, <3>2, AppendKeeps
  <2>4. /\ worker'[id] = [at |-> "init", job |-> coord.job]
        /\ \A i \in Ids : i # id => worker'[i] = worker[i]
    BY <1>1, <1>3, <1>4 DEF TypeOK
  <2>5. TypeOK'
    BY <1>1, <1>2, <1>3, <1>4, <2>3 DEF TypeOK, Ordered
  <2>6. AdmissionHolds' /\ Records'
    BY <1>1, <1>2, <1>4, AdmissionSame DEF Records
  <2>7. Processes'
    <3>1. /\ worker'[id].at = "init" /\ worker'[id].job = coord.job
          /\ coord'.at = "starting" /\ coord'.job.id = id
      BY <1>2, <1>4, <2>4
    <3>2. \A i \in Ids : i # id /\ Quiet(queue, i) => Quiet(queue, i)'
      BY <2>1, <2>3 DEF Quiet
    <3> QED
      BY <1>1, <1>2, <1>3, <2>4, <3>1, <3>2 DEF Processes
  <2>8. Relaunches'
    BY <1>1, <1>2, <1>3, <1>4, <2>1, <2>3, <2>4 DEF Relaunches, Quiet, TypeOK, Job, Held
  <2>9. InHand'
    BY <1>1, <1>2, <1>3, <1>4, <2>4 DEF InHand, Held
  <2>10. Mailbox'
    <3>1. ASSUME NEW m \in Range(queue) PROVE m.from = "worker" /\ Based(m)'
      <4>1. m.from = "worker" /\ Based(m) /\ m.job.id # id
        BY <1>1, <1>3 DEF Mailbox, Silent, Quiet
      <4>2. m.job.id \in Ids
        BY <4>1, <1>1 DEF Based, Records
      <4> QED
        BY <4>1, <4>2, <1>2, <2>4 DEF Based
    <3>2. ASSUME NEW m, m = message PROVE m.from = "worker" /\ Based(m)'
      BY <3>2, <1>2, <1>3, <2>1, <2>4 DEF Based
    <3> QED
      BY <3>1, <3>2, <2>3 DEF Mailbox
  <2> QED
    BY <2>5, <2>6, <2>7, <2>8, <2>9, <2>10 DEF Inductive, Custody
<1>5. CASE /\ worker' = [worker EXCEPT ![id] = [at |-> "run", job |-> coord.job]]
           /\ TellStarted /\ Served /\ UNCHANGED queue
  <2>1. /\ coord'.at = "serving" /\ coord'.job = NoJob /\ coord'.todo = coord.todo
        /\ coord' \in [at : Places, job : Job \cup {NoJob}, recovery : BOOLEAN, todo : SUBSET Job]
    BY <1>1, <1>5, ServedIs
  <2>2. /\ worker'[id] = [at |-> "run", job |-> coord.job]
        /\ \A i \in Ids : i # id => worker'[i] = worker[i]
    BY <1>1, <1>3, <1>5 DEF TypeOK
  <2>3. ToldRight /\ told' \subseteq [ask : Asks, id : Ids]
    BY <1>1, <1>3, <1>5, StartTells
  <2>4. TypeOK'
    BY <1>1, <1>2, <1>3, <1>5, <2>1, <2>3 DEF TypeOK
  <2>5. AdmissionHolds' /\ Records'
    BY <1>1, <1>2, <2>3, TellingAdmits DEF Records
  <2>6. Processes'
    BY <1>1, <1>2, <1>3, <1>5, <2>1, <2>2 DEF Processes, Quiet
  <2>7. Relaunches'
    BY <1>1, <1>2, <1>3, <1>5, <2>1, <2>2 DEF Relaunches, Quiet, Held, TypeOK, Job
  <2>8. InHand'
    BY <2>1 DEF InHand, Held
  <2>9. Mailbox'
    <3>1. ASSUME NEW m \in Range(queue) PROVE m.from = "worker" /\ Based(m)'
      <4>1. m.from = "worker" /\ Based(m) /\ m.job.id # id
        BY <1>1, <1>3 DEF Mailbox, Silent, Quiet
      <4>2. m.job.id \in Ids
        BY <4>1, <1>1 DEF Based, Records
      <4> QED
        BY <4>1, <4>2, <1>2, <2>2 DEF Based
    <3> QED
      BY <3>1, <1>1, <1>5 DEF Mailbox
  <2> QED
    BY <2>4, <2>5, <2>6, <2>7, <2>8, <2>9 DEF Inductive, Custody
<1> QED
  BY <1>2, <1>4, <1>5 DEF ProcessStarts

LEMMA StartFailsKeeps ==
    ASSUME Inductive, StartFails
    PROVE  Inductive'
<1> DEFINE id == coord.job.id
<1>1. /\ TypeOK /\ AdmissionHolds /\ Custody
      /\ Records /\ Processes /\ Relaunches /\ InHand /\ Mailbox
  BY DEF Inductive, Custody
<1>2. /\ coord.at = "starting" /\ Fault
      /\ worker' = [worker EXCEPT ![id] = Down]
      /\ coord' = [coord EXCEPT !.at = "failing"]
      /\ UNCHANGED <<disk, asked, downs, told, orphans>>
  BY DEF StartFails
<1>3. PICK status \in {"halted", "done"} :
          Send("save", "coordinator", [coord.job EXCEPT !.status = status])
  BY DEF StartFails
<1> DEFINE message == [kind |-> "save", from |-> "coordinator",
                       job |-> [coord.job EXCEPT !.status = status]]
<1>4. /\ coord.job \in Job /\ id \in DOMAIN disk \ downs /\ id \in Ids
      /\ coord.job = disk[id] /\ coord.job.status # "done"
      /\ AskOf(coord.job) \in Asks /\ Silent(queue)
      /\ \A job \in coord.todo : job.id # id
  BY <1>2, Starting
<1>5. /\ message \in Message /\ message.from = "coordinator" /\ message.kind = "save"
      /\ message.job = [coord.job EXCEPT !.status = status]
      /\ message.job.status = status
  BY <1>4 DEF Message, Job, Status
<1>6. queue' = Append(queue, message)
  BY <1>3 DEF Send
<1> HIDE DEF message
<1>7. Ordered(queue') /\ Range(queue') = Range(queue) \cup {message}
  BY <1>1, <1>4, <1>5, <1>6, AppendKeeps DEF Mailbox
<1>8. /\ coord' \in [at : Places, job : Job \cup {NoJob}, recovery : BOOLEAN, todo : SUBSET Job]
      /\ coord'.at = "failing" /\ coord'.job = coord.job /\ coord'.todo = coord.todo
  BY <1>1, <1>2 DEF TypeOK, Places
<1>9. /\ worker'[id] = Down /\ worker'[id].at = "down"
      /\ \A i \in Ids : i # id => worker'[i] = worker[i]
      /\ worker' \in [Ids -> {Down} \cup [at : {"init", "run", "saving"}, job : Job]]
  BY <1>1, <1>2, <1>4 DEF TypeOK, Down
<1>10. TypeOK'
  <2>1. faults' \in 0 .. MaxFaults
    BY <1>1, <1>2, StoreAssumption DEF TypeOK, Fault
  <2> QED
    BY <2>1, <1>1, <1>2, <1>7, <1>8, <1>9, <1>4, NoJobAssumption DEF TypeOK, Ordered
<1>11. AdmissionHolds' /\ Records'
  BY <1>1, <1>2, AdmissionSame DEF Records
<1>12. Processes'
  BY <1>1, <1>2, <1>4, <1>5, <1>7, <1>9 DEF Processes, Quiet
<1>13. Relaunches'
  BY <1>1, <1>2, <1>4, <1>5, <1>7, <1>8, <1>9 DEF Relaunches, Quiet, TypeOK, Job
<1>14. InHand'
  BY <1>2, <1>4, <1>8, <1>9 DEF InHand, Held, Job
<1>15. Mailbox'
  <2>1. ASSUME NEW m \in Range(queue) PROVE m.from = "worker" /\ Based(m)'
    <3>1. m.from = "worker" /\ Based(m)
      BY <1>1, <1>4 DEF Mailbox, Silent
    <3>2. m.job.id \in Ids
      BY <3>1, <1>1 DEF Based, Records
    <3> QED
      BY <3>1, <3>2, <1>2, <1>9 DEF Based
  <2>2. ASSUME NEW m, m = message PROVE m.from = "coordinator" /\ Expected(m)'
    BY <2>2, <1>5, <1>8 DEF Expected
  <2> QED
    BY <2>1, <2>2, <1>7 DEF Mailbox
<1> QED
  BY <1>10, <1>11, <1>12, <1>13, <1>14, <1>15 DEF Inductive, Custody

-----------------------------------------------------------------------------
(* A checkpoint of a task process *)

(* It is always current: the compare-and-swap never refuses one. *)
LEMMA CheckpointServed ==
    ASSUME Inductive, Received("save", "worker")
    PROVE  /\ Ordered(Tail(queue)) /\ Range(Tail(queue)) \subseteq Range(queue)
           /\ Head(queue).job \in Job /\ Current(Head(queue).job)
           /\ Based(Head(queue)) /\ AskOf(Head(queue).job) = AskOf(disk[Head(queue).job.id])
           /\ Head(queue).job.id \in Ids
           /\ Quiet(Tail(queue), Head(queue).job.id)
           /\ worker[Head(queue).job.id].at # "run"
           /\ \A job \in coord.todo : job.id # Head(queue).job.id
<1> DEFINE h == Head(queue)
           i == h.job.id
<1>1. Custody /\ Mailbox /\ Records /\ queue # <<>> /\ h.from = "worker"
  BY DEF Inductive, Custody, Received
<1>2. /\ Ordered(Tail(queue)) /\ Range(Tail(queue)) \subseteq Range(queue)
      /\ h \in Message /\ h \in Range(queue) /\ Quiet(Tail(queue), i)
  BY <1>1, TailKeeps DEF Mailbox
<1>3. /\ Based(h) /\ worker[i].at # "run"
      /\ \A job \in coord.todo : job.id # i
  BY <1>1, <1>2, CheckpointUnderWay
<1>4. h.job \in Job /\ disk[i] \in Job /\ i \in DOMAIN disk /\ i \in Ids
  BY <1>1, <1>2, <1>3 DEF Message, Based, Records
<1>5. h.job = [disk[i] EXCEPT !.status = h.job.status]
  BY <1>3 DEF Based
<1> HIDE DEF h, i
<1>6. /\ h.job.rev = disk[i].rev /\ h.job.owner = disk[i].owner
      /\ AskOf(h.job) = AskOf(disk[i])
  BY <1>4, <1>5 DEF Job, AskOf
<1> QED
  BY <1>2, <1>3, <1>4, <1>6 DEF Current, h, i

LEMMA StoreSavesWorkerKeeps ==
    ASSUME Inductive, StoreSavesWorker
    PROVE  Inductive'
<1> DEFINE h == Head(queue)
           job == h.job
           i == job.id
           q == Tail(queue)
<1>1. /\ TypeOK /\ AdmissionHolds /\ Custody
      /\ Records /\ Processes /\ Relaunches /\ InHand /\ Mailbox
  BY DEF Inductive, Custody
<1>2. Received("save", "worker") /\ queue' = q /\ UNCHANGED <<asked, orphans, faults>>
  BY DEF StoreSavesWorker
<1>3. /\ Ordered(q) /\ Range(q) \subseteq Range(queue)
      /\ job \in Job /\ Current(job) /\ Based(h) /\ AskOf(job) = AskOf(disk[i])
      /\ i \in Ids /\ Quiet(q, i) /\ worker[i].at # "run"
      /\ \A j \in coord.todo : j.id # i
  BY <1>2, CheckpointServed
<1>4. i \in DOMAIN disk /\ disk[i].status # "done" /\ job.rev = disk[i].rev
      /\ (worker[i].at = "init" => job.status # "done")
  BY <1>3 DEF Based, Current
<1>5. /\ Store(job)
      /\ \/ /\ worker[i].at = "down"
            /\ UNCHANGED <<worker, coord, downs, told>>
         \/ /\ worker[i].at = "init"
            /\ worker' = [worker EXCEPT ![i] = [at |-> "run", job |-> Bumped(job)]]
            /\ TellStarted /\ Served /\ UNCHANGED downs
         \/ /\ worker[i].at = "saving" /\ job.status # "done"
            /\ worker' = [worker EXCEPT ![i] = [at |-> "run", job |-> Bumped(job)]]
            /\ UNCHANGED <<coord, downs, told>>
         \/ /\ worker[i].at = "saving" /\ job.status = "done"
            /\ worker' = [worker EXCEPT ![i] = Down]
            /\ downs' = downs \cup {i}
            /\ UNCHANGED <<coord, told>>
  BY <1>3 DEF StoreSavesWorker
<1>6. /\ Bumped(job) \in Job /\ Bumped(job).status = job.status /\ Bumped(job).id = i
      /\ Bumped(job).rev = disk[i].rev + 1 /\ AskOf(Bumped(job)) = AskOf(disk[i])
  BY <1>3, <1>4 DEF Bumped, Job, AskOf
<1> HIDE DEF h, job, i, q
<1>7. ASSUME ToldRight
      PROVE  /\ AdmissionHolds' /\ Records'
             /\ DOMAIN disk' = DOMAIN disk /\ disk'[i] = Bumped(job)
             /\ \A id \in DOMAIN disk : id # i => disk'[id] = disk[id]
  <2>1. /\ i = job.id /\ job.id \in DOMAIN disk /\ disk[job.id].status # "done"
        /\ AskOf(job) = AskOf(disk[job.id])
    BY <1>3, <1>4 DEF i
  <2> QED
    BY <1>1, <1>3, <1>5, <1>7, <2>1, SavingAdmits
(* Nothing in the mailbox is about i but, perhaps, a message of the coordinator. *)
<1>8. ASSUME NEW m \in Range(q), m.from = "worker"
      PROVE  Based(m) /\ m.job.id # i /\ m.job.id \in Ids
  BY <1>1, <1>3, <1>8 DEF Mailbox, Quiet, Based, Records
<1>9. ASSUME \A id \in Ids : id # i => worker'[id] = worker[id], ToldRight,
             (coord' = coord) \/ coord.at = "starting"
      PROVE  Mailbox'
  <2>1. ASSUME NEW m \in Range(q), m.from = "worker" PROVE Based(m)'
    BY <1>7, <1>8, <1>9, <2>1 DEF Based
  <2>2. ASSUME NEW m \in Range(q), m.from # "worker" PROVE Expected(m)'
    <3>1. Expected(m) /\ ~Silent(queue)
      BY <1>1, <1>3, <2>2 DEF Mailbox, Silent
    <3>2. coord' = coord
      BY <1>1, <1>9, <3>1, NothingExpected
    <3> QED
      BY <3>1, <3>2 DEF Expected
  <2> QED
    BY <1>2, <1>3, <2>1, <2>2 DEF Mailbox
<1>10. \A id \in Ids : Quiet(queue, id) => Quiet(queue, id)'
  BY <1>2, <1>3 DEF Quiet
<1>11. CASE worker[i].at = "down" /\ UNCHANGED <<worker, coord, downs, told>>
  <2>1. ToldRight
    BY <1>11 DEF ToldRight
  <2>2. TypeOK'
    BY <1>1, <1>2, <1>3, <1>7, <1>11, <2>1 DEF TypeOK, Ordered, Records
  <2>3. Processes'
    BY <1>1, <1>7, <1>10, <1>11, <2>1 DEF Processes
  <2>4. Relaunches'
    <3>1. coord.at # "recovering"
      BY <1>1, <1>2, TailKeeps DEF Relaunches, Mailbox, Received
    <3> QED
      BY <3>1, <1>1, <1>3, <1>7, <1>10, <1>11, <2>1 DEF Relaunches, Held, Records
  <2>5. InHand'
    <3>1. Held /\ coord.job.id = i => coord.at \in {"reading", "failing"}
      <4>1. h \in Range(queue) /\ h.from = "worker" /\ h.job.id = i
        BY <1>1, <1>2, TailKeeps DEF Mailbox, Received, h, i, job
      <4>2. ~Quiet(queue, i)
        BY <4>1 DEF Quiet
      <4> QED
        BY <4>2, <1>1, <1>11 DEF InHand, Held
    <3>2. Held => AskOf(disk'[coord.job.id]) = AskOf(disk[coord.job.id]) /\ coord.job.id \in Ids
      BY <1>1, <1>6, <1>7, <2>1 DEF InHand, Records
    <3>3. /\ coord.at = "creating" => InHand'
          /\ ~Held /\ coord.at # "creating" => InHand'
      BY <1>1, <1>7, <1>11, <2>1 DEF InHand, Held
    <3>4. CASE Held /\ coord.job.id # i
      BY <3>2, <3>4, <1>1, <1>7, <1>10, <1>11, <2>1 DEF InHand, Held
    <3>5. CASE Held /\ coord.job.id = i
      <4>1. coord.job.rev \in Nat /\ disk[i].rev \in Nat
        BY <1>1, <1>4, <3>5 DEF InHand, Records, Job
      <4>2. coord.at = "failing" => coord.job.rev <= disk[i].rev
        BY <1>1, <3>5 DEF InHand
      <4> QED
        BY <3>1, <3>2, <3>5, <4>1, <4>2, <1>1, <1>6, <1>7, <1>11, <2>1 DEF InHand, Held
    <3> QED
      BY <3>3, <3>4, <3>5
  <2> QED
    BY <1>7, <1>9, <1>11, <2>1, <2>2, <2>3, <2>4, <2>5 DEF Inductive, Custody
<1>12. CASE /\ worker[i].at = "init"
            /\ worker' = [worker EXCEPT ![i] = [at |-> "run", job |-> Bumped(job)]]
            /\ TellStarted /\ Served /\ UNCHANGED downs
  <2>1. coord.at = "starting" /\ coord.job.id = i
    BY <1>1, <1>3, <1>12 DEF Processes
  <2>2. ToldRight /\ told' \subseteq [ask : Asks, id : Ids]
    BY <1>1, <1>12, <2>1, Starting, StartTells
  <2>3. /\ coord'.at = "serving" /\ coord'.job = NoJob /\ coord'.todo = coord.todo
        /\ coord' \in [at : Places, job : Job \cup {NoJob}, recovery : BOOLEAN, todo : SUBSET Job]
    BY <1>1, <1>12, ServedIs
  <2>4. /\ worker'[i] = [at |-> "run", job |-> Bumped(job)]
        /\ \A id \in Ids : id # i => worker'[id] = worker[id]
        /\ worker' \in [Ids -> {Down} \cup [at : {"init", "run", "saving"}, job : Job]]
    BY <1>1, <1>3, <1>6, <1>12 DEF TypeOK
  <2>5. TypeOK'
    BY <1>1, <1>2, <1>3, <1>7, <1>12, <2>2, <2>3, <2>4 DEF TypeOK, Ordered, Records
  <2>6. Processes'
    <3>1. \A id \in Ids : id = i => Quiet(queue, id)'
      BY <1>2, <1>3 DEF Quiet
    <3> QED
      BY <1>1, <1>4, <1>6, <1>7, <1>10, <1>12, <2>1, <2>2, <2>3, <2>4, <3>1 DEF Processes
  <2>7. Relaunches'
    BY <1>1, <1>3, <1>7, <1>10, <1>12, <2>2, <2>3, <2>4 DEF Relaunches, Held, Records
  <2>8. InHand'
    BY <2>3 DEF InHand, Held
  <2> QED
    BY <1>7, <1>9, <2>1, <2>2, <2>4, <2>5, <2>6, <2>7, <2>8 DEF Inductive, Custody
<1>13. CASE /\ worker[i].at = "saving" /\ job.status # "done"
            /\ worker' = [worker EXCEPT ![i] = [at |-> "run", job |-> Bumped(job)]]
            /\ UNCHANGED <<coord, downs, told>>
  <2>1. ToldRight
    BY <1>13 DEF ToldRight
  <2>2. /\ worker'[i] = [at |-> "run", job |-> Bumped(job)]
        /\ \A id \in Ids : id # i => worker'[id] = worker[id]
        /\ worker' \in [Ids -> {Down} \cup [at : {"init", "run", "saving"}, job : Job]]
    BY <1>1, <1>3, <1>6, <1>13 DEF TypeOK
  <2>3. TypeOK'
    BY <1>1, <1>2, <1>3, <1>7, <1>13, <2>1, <2>2 DEF TypeOK, Ordered, Records
  <2>4. Processes'
    <3>1. \A id \in Ids : id = i => Quiet(queue, id)'
      BY <1>2, <1>3 DEF Quiet
    <3> QED
      BY <1>1, <1>3, <1>4, <1>6, <1>7, <1>10, <1>13, <2>1, <2>2, <3>1 DEF Processes
  <2>5. Relaunches'
    BY <1>1, <1>3, <1>7, <1>10, <1>13, <2>1, <2>2 DEF Relaunches, Held, Records
  <2>6. Held => coord.job.id # i /\ coord.job.id \in Ids
    BY <1>1, <1>13 DEF InHand, Records
  <2>7. InHand'
    BY <2>6, <1>1, <1>7, <1>10, <1>13, <2>1, <2>2 DEF InHand, Held
  <2> QED
    BY <1>7, <1>9, <1>13, <2>1, <2>2, <2>3, <2>4, <2>5, <2>7 DEF Inductive, Custody
<1>14. CASE /\ worker[i].at = "saving" /\ job.status = "done"
            /\ worker' = [worker EXCEPT ![i] = Down]
            /\ downs' = downs \cup {i}
            /\ UNCHANGED <<coord, told>>
  <2>1. ToldRight
    BY <1>14 DEF ToldRight
  <2>2. /\ worker'[i].at = "down"
        /\ \A id \in Ids : id # i => worker'[id] = worker[id]
        /\ worker' \in [Ids -> {Down} \cup [at : {"init", "run", "saving"}, job : Job]]
    BY <1>1, <1>3, <1>14 DEF TypeOK, Down
  <2>3. TypeOK'
    BY <1>1, <1>2, <1>3, <1>7, <1>14, <2>1, <2>2 DEF TypeOK, Ordered, Records
  <2>4. Processes'
    BY <1>1, <1>4, <1>7, <1>10, <1>14, <2>1, <2>2 DEF Processes
  <2>5. Relaunches'
    BY <1>1, <1>3, <1>7, <1>10, <1>14, <2>1, <2>2 DEF Relaunches, Held, Records
  <2>6. Held => coord.job.id # i /\ coord.job.id \in Ids
    BY <1>1, <1>14 DEF InHand, Records
  <2>7. InHand'
    BY <2>6, <1>1, <1>7, <1>10, <1>14, <2>1, <2>2 DEF InHand, Held
  <2> QED
    BY <1>7, <1>9, <1>14, <2>1, <2>2, <2>3, <2>4, <2>5, <2>7 DEF Inductive, Custody
<1> QED
  BY <1>5, <1>11, <1>12, <1>13, <1>14

-----------------------------------------------------------------------------
(* The supervisor *)

LEMMA RestartAllKeeps ==
    ASSUME Inductive, RestartAll, UNCHANGED <<disk, told>>, faults' \in 0 .. MaxFaults
    PROVE  Inductive'
<1>1. TypeOK /\ AdmissionHolds /\ Records
  BY DEF Inductive, Custody
<1>2. /\ worker' = [id \in Ids |-> Down] /\ queue' = <<>> /\ asked' = <<>>
      /\ downs' = {} /\ orphans' = {}
      /\ coord' = [at |-> "recovering", job |-> NoJob, recovery |-> FALSE, todo |-> {}]
  BY DEF RestartAll, Fence, Idle
<1>3. queue' \in Seq(Message) /\ DOMAIN queue' = {} /\ Range(queue') = {} /\ asked' \in Seq(Asks)
  BY <1>2 DEF Range
<1>4. /\ coord'.at = "recovering" /\ coord'.job = NoJob /\ coord'.todo = {}
      /\ coord' \in [at : Places, job : Job \cup {NoJob}, recovery : BOOLEAN, todo : SUBSET Job]
  BY <1>2 DEF Places
<1>5. /\ \A id \in Ids : worker'[id].at = "down"
      /\ worker' \in [Ids -> {Down} \cup [at : {"init", "run", "saving"}, job : Job]]
  BY <1>2 DEF Down
<1>6. TypeOK'
  BY <1>1, <1>2, <1>3, <1>4, <1>5 DEF TypeOK
<1>7. AdmissionHolds' /\ Records'
  BY <1>1, AdmissionSame DEF Records
<1>8. Processes' /\ Relaunches' /\ InHand'
  BY <1>2, <1>3, <1>4, <1>5 DEF Processes, Relaunches, InHand, Held
<1>9. Mailbox'
  BY <1>3 DEF Mailbox, Ordered
<1> QED
  BY <1>6, <1>7, <1>8, <1>9 DEF Inductive, Custody

LEMMA ServiceRestartsKeeps ==
    ASSUME Inductive, ServiceRestarts
    PROVE  Inductive'
<1>1. faults' \in 0 .. MaxFaults
  BY StoreAssumption DEF Inductive, TypeOK, ServiceRestarts, Fault
<1> QED
  BY <1>1, RestartAllKeeps DEF ServiceRestarts

LEMMA RecoverKeeps ==
    ASSUME Inductive, Recover
    PROVE  Inductive'
<1>1. /\ TypeOK /\ AdmissionHolds /\ Custody
      /\ Records /\ Processes /\ Relaunches /\ InHand /\ Mailbox
  BY DEF Inductive, Custody
<1>2. /\ coord.at = "recovering"
      /\ coord' = [at |-> "serving", job |-> NoJob, recovery |-> FALSE, todo |-> Recoverable]
      /\ UNCHANGED <<disk, queue, worker, asked, downs, told, orphans, faults>>
  BY DEF Recover, Idle
<1>3. downs = {} /\ Range(queue) = {} /\ \A id \in Ids : worker[id].at = "down"
  BY <1>1, <1>2 DEF Relaunches
<1>4. \A job \in Recoverable :
         /\ job \in Job /\ job.id \in DOMAIN disk /\ job = disk[job.id]
         /\ job.status # "done" /\ job.id \in Ids
  BY <1>1 DEF Recoverable, Unfinished, Records
<1>5. /\ coord'.at = "serving" /\ coord'.job = NoJob /\ coord'.todo = Recoverable
      /\ coord' \in [at : Places, job : Job \cup {NoJob}, recovery : BOOLEAN, todo : SUBSET Job]
  BY <1>2, <1>4 DEF Places
<1>6. TypeOK'
  BY <1>1, <1>2, <1>5 DEF TypeOK
<1>7. AdmissionHolds' /\ Records'
  BY <1>1, <1>2, AdmissionSame DEF Records
<1>8. Processes' /\ InHand'
  BY <1>1, <1>2, <1>3, <1>5 DEF Processes, InHand, Held
<1>9. Relaunches'
  BY <1>2, <1>3, <1>4, <1>5 DEF Relaunches, Quiet, Held
<1>10. Mailbox'
  BY <1>1, <1>2, <1>3 DEF Mailbox
<1> QED
  BY <1>6, <1>7, <1>8, <1>9, <1>10 DEF Inductive, Custody

(* A checkpoint of the coordinator.  After a DOWN message it is current;    *)
(* after a failed start it may come too late, and then everything restarts. *)
LEMMA StoreSavesCoordinatorKeeps ==
    ASSUME Inductive, StoreSavesCoordinator
    PROVE  Inductive'
<1> DEFINE h == Head(queue)
           job == h.job
           i == job.id
           q == Tail(queue)
<1>1. /\ TypeOK /\ AdmissionHolds /\ Custody
      /\ Records /\ Processes /\ Relaunches /\ InHand /\ Mailbox
  BY DEF Inductive, Custody
<1>2. Received("save", "coordinator") /\ faults' = faults
  BY DEF StoreSavesCoordinator
<1>3. /\ Ordered(q) /\ Range(q) \subseteq Range(queue) /\ h \in Message /\ Expected(h)
      /\ Silent(q) /\ Quiet(q, i) /\ h.kind = "save"
      /\ \A m \in Range(q) : m.from = "worker" /\ Based(m)
  BY <1>1, <1>2, CoordinatorAnswered
<1>4. job \in Job
  BY <1>3 DEF Message
<1>5. CASE ~Current(job)
  <2>1. RestartAll /\ UNCHANGED <<disk, told>>
    BY <1>5 DEF StoreSavesCoordinator
  <2> QED
    BY <1>1, <1>2, <2>1, RestartAllKeeps DEF TypeOK
<1>6. CASE Current(job)
  <2>1. /\ Store(job) /\ UNCHANGED <<worker, asked, downs>>
        /\ \/ /\ coord.at = "interrupting"
              /\ queue' = Append(q, [kind |-> "all", from |-> "coordinator", job |-> job])
              /\ coord' = [coord EXCEPT !.at = "rereading"]
              /\ UNCHANGED <<told, orphans>>
           \/ /\ coord.at = "failing"
              /\ queue' = q
              /\ orphans' = orphans \cup {i}
              /\ TellStarted /\ Served
    BY <1>6 DEF StoreSavesCoordinator
  <2> HIDE DEF h, q
  <2>2. /\ coord.at \in {"failing", "interrupting"}
        /\ job = [coord.job EXCEPT !.status = job.status]
        /\ coord.at = "interrupting" => job.status = "halted"
    BY <1>3 DEF Expected
  <2> HIDE DEF job
  <2>3. /\ coord.job \in Job /\ coord.job.id \in DOMAIN disk \ downs
        /\ AskOf(coord.job) = AskOf(disk[coord.job.id])
        /\ worker[coord.job.id].at \in {"down", "init"}
    BY <1>1, <2>2 DEF InHand, Held
  <2>4. /\ i = coord.job.id /\ job.rev = coord.job.rev /\ AskOf(job) = AskOf(coord.job)
    BY <1>4, <2>2, <2>3 DEF Job, AskOf
  <2>5. coord.job = disk[i] /\ disk[i].status # "done"
    BY <1>1, <1>6, <2>2, <2>4 DEF InHand, Current
  <2>6. worker[i].at = "down" /\ i \in Ids /\ AskOf(coord.job) \in Asks
    BY <1>1, <2>2, <2>3, <2>4 DEF Processes, Records
  <2>7. /\ Bumped(job) \in Job /\ Bumped(job).status = job.status /\ Bumped(job).id = i
        /\ AskOf(Bumped(job)) = AskOf(job)
    BY <1>4 DEF Bumped, Job, AskOf, i
  <2>8. ASSUME ToldRight
        PROVE  /\ AdmissionHolds' /\ Records'
               /\ DOMAIN disk' = DOMAIN disk /\ disk'[i] = Bumped(job)
               /\ \A id \in DOMAIN disk : id # i => disk'[id] = disk[id]
    <3>1. /\ i = job.id /\ job.id \in DOMAIN disk /\ disk[job.id].status # "done"
          /\ AskOf(job) = AskOf(disk[job.id])
      BY <2>3, <2>4, <2>5 DEF i
    <3> QED
      BY <1>1, <1>4, <2>1, <2>8, <3>1, SavingAdmits
  <2> HIDE DEF i
  <2>9. \A j \in coord.todo : j.id # i /\ j.id \in DOMAIN disk
    BY <1>1, <2>2, <2>4 DEF Relaunches, Held
  <2>10. ASSUME ToldRight, NEW m \in Range(q) PROVE m.from = "worker" /\ Based(m)'
    <3>1. m.from = "worker" /\ Based(m) /\ m.job.id # i
      BY <1>3, <2>10 DEF Quiet
    <3> QED
      BY <3>1, <2>1, <2>8, <2>10 DEF Based
  <2>11. CASE /\ coord.at = "interrupting"
              /\ queue' = Append(q, [kind |-> "all", from |-> "coordinator", job |-> job])
              /\ coord' = [coord EXCEPT !.at = "rereading"]
              /\ UNCHANGED <<told, orphans>>
    <3> DEFINE message == [kind |-> "all", from |-> "coordinator", job |-> job]
    <3>1. ToldRight
      BY <2>11 DEF ToldRight
    <3>2. /\ message \in Message /\ message.from = "coordinator" /\ message.kind = "all"
          /\ message.job.id = i
      BY <1>4 DEF Message, i
    <3>3. queue' = Append(q, message)
      BY <2>11
    <3> HIDE DEF message
    <3>4. Ordered(queue') /\ Range(queue') = Range(q) \cup {message}
      BY <1>3, <3>2, <3>3, AppendKeeps
    <3>5. /\ coord'.at = "rereading" /\ coord'.job = coord.job /\ coord'.todo = coord.todo
          /\ coord' \in [at : Places, job : Job \cup {NoJob}, recovery : BOOLEAN, todo : SUBSET Job]
      BY <1>1, <2>11 DEF TypeOK, Places
    <3>6. TypeOK'
      BY <1>1, <1>2, <2>1, <2>3, <2>8, <2>11, <3>1, <3>4, <3>5, NoJobAssumption
         DEF TypeOK, Ordered, Records
    <3>7. /\ \A id : Quiet(queue, id) => Quiet(queue, id)'
          /\ \A id : id = i => Quiet(queue, id)'
      BY <1>3, <3>2, <3>4 DEF Quiet, i
    <3>8. Processes'
      BY <1>1, <2>1, <2>6, <2>8, <2>11, <3>1, <3>7 DEF Processes
    <3>9. Relaunches'
      BY <1>1, <2>1, <2>4, <2>8, <2>9, <3>1, <3>5, <3>7 DEF Relaunches
    <3>10. InHand'
      BY <2>1, <2>2, <2>3, <2>4, <2>6, <2>7, <2>8, <2>11, <3>1, <3>5, <3>7 DEF InHand, Held
    <3>11. Mailbox'
      <4>1. ASSUME NEW m, m = message PROVE m.from = "coordinator" /\ Expected(m)'
        BY <4>1, <3>2, <3>5, <2>4 DEF Expected
      <4> QED
        BY <4>1, <2>10, <3>1, <3>4 DEF Mailbox
    <3> QED
      BY <2>8, <3>1, <3>6, <3>8, <3>9, <3>10, <3>11 DEF Inductive, Custody
  <2>12. CASE /\ coord.at = "failing" /\ queue' = q
              /\ orphans' = orphans \cup {i}
              /\ TellStarted /\ Served
    <3>1. ToldRight /\ told' \subseteq [ask : Asks, id : Ids]
      BY <1>1, <2>3, <2>6, <2>12, StartTells
    <3>2. /\ coord'.at = "serving" /\ coord'.job = NoJob /\ coord'.todo = coord.todo
          /\ coord' \in [at : Places, job : Job \cup {NoJob}, recovery : BOOLEAN, todo : SUBSET Job]
      BY <1>1, <2>12, ServedIs
    <3>3. TypeOK'
      BY <1>1, <1>2, <1>3, <2>1, <2>6, <2>8, <2>12, <3>1, <3>2 DEF TypeOK, Ordered, Records
    <3>4. \A id : Quiet(queue, id) => Quiet(queue, id)'
      BY <1>3, <2>12 DEF Quiet
    <3>5. Processes'
      BY <1>1, <2>1, <2>6, <2>8, <2>12, <3>1, <3>4 DEF Processes
    <3>6. Relaunches'
      BY <1>1, <2>1, <2>8, <2>9, <3>1, <3>2, <3>4 DEF Relaunches, Held
    <3>7. InHand'
      BY <3>2 DEF InHand, Held
    <3>8. Mailbox'
      BY <1>3, <2>10, <2>12, <3>1 DEF Mailbox
    <3> QED
      BY <2>8, <3>1, <3>3, <3>5, <3>6, <3>7, <3>8 DEF Inductive, Custody
  <2> QED
    BY <2>1, <2>11, <2>12
<1> QED
  BY <1>5, <1>6

-----------------------------------------------------------------------------
(* The DOWN handler *)

LEMMA HandleDownKeeps ==
    ASSUME Inductive, NEW id \in Ids, HandleDown(id)
    PROVE  Inductive'
<1>1. /\ TypeOK /\ AdmissionHolds /\ Custody
      /\ Records /\ Processes /\ Relaunches /\ InHand /\ Mailbox
  BY DEF Inductive, Custody
<1>2. /\ coord.at = "serving" /\ coord.todo = {} /\ id \in downs
      /\ downs' = downs \ {id} /\ Read(id)
      /\ coord' = [coord EXCEPT !.at = "reading", !.job = disk[id]]
      /\ UNCHANGED <<disk, worker, asked, told, orphans, faults>>
  BY DEF HandleDown
<1>3. /\ id \in DOMAIN disk /\ disk[id] \in Job /\ disk[id].id = id
      /\ worker[id].at = "down"
  BY <1>1, <1>2 DEF Processes, Records
<1> DEFINE message == [kind |-> "all", from |-> "coordinator", job |-> disk[id]]
<1>4. /\ message \in Message /\ message.from = "coordinator" /\ message.kind = "all"
      /\ message.job.id = id
  BY <1>3 DEF Message
<1>5. queue' = Append(queue, message)
  BY <1>2 DEF Read, Send
<1> HIDE DEF message
<1>6. Silent(queue)
  BY <1>1, <1>2, NothingExpected
<1>7. Ordered(queue') /\ Range(queue') = Range(queue) \cup {message}
  BY <1>1, <1>4, <1>5, <1>6, AppendKeeps DEF Mailbox
<1>8. /\ coord'.at = "reading" /\ coord'.job = disk[id] /\ coord'.todo = {}
      /\ coord' \in [at : Places, job : Job \cup {NoJob}, recovery : BOOLEAN, todo : SUBSET Job]
  BY <1>1, <1>2, <1>3 DEF TypeOK, Places
<1>9. TypeOK'
  BY <1>1, <1>2, <1>3, <1>7, <1>8, NoJobAssumption DEF TypeOK, Ordered
<1>10. AdmissionHolds' /\ Records'
  BY <1>1, <1>2, AdmissionSame DEF Records
<1>11. Processes'
  BY <1>1, <1>2, <1>4, <1>7 DEF Processes, Quiet
<1>12. Relaunches' /\ InHand'
  BY <1>2, <1>3, <1>8 DEF Relaunches, InHand, Held
<1>13. Mailbox'
  <2>1. ASSUME NEW m \in Range(queue) PROVE m.from = "worker" /\ Based(m)'
    BY <1>1, <1>2, <1>6 DEF Mailbox, Silent, Based
  <2>2. ASSUME NEW m, m = message PROVE m.from = "coordinator" /\ Expected(m)'
    BY <2>2, <1>3, <1>4, <1>8 DEF Expected
  <2> QED
    BY <2>1, <2>2, <1>7 DEF Mailbox
<1> QED
  BY <1>9, <1>10, <1>11, <1>12, <1>13 DEF Inductive, Custody

(* The record is read behind the last checkpoint of the dead process: what  *)
(* is written then is based on it.                                          *)
LEMMA StoreReadsKeeps ==
    ASSUME Inductive, StoreReads
    PROVE  Inductive'
<1> DEFINE h == Head(queue)
           i == h.job.id
           job == disk[i]
           q == Tail(queue)
<1>1. /\ TypeOK /\ AdmissionHolds /\ Custody
      /\ Records /\ Processes /\ Relaunches /\ InHand /\ Mailbox
  BY DEF Inductive, Custody
<1>2. Received("all", "coordinator") /\ UNCHANGED <<disk, worker, asked, downs, told, orphans, faults>>
  BY DEF StoreReads
<1>3. /\ Ordered(q) /\ Range(q) \subseteq Range(queue) /\ h \in Message /\ Expected(h)
      /\ Silent(q) /\ Quiet(q, i) /\ h.kind = "all"
      /\ \A m \in Range(q) : m.from = "worker" /\ Based(m)
  BY <1>1, <1>2, CoordinatorAnswered
<1>4. /\ coord.at \in {"reading", "rereading"} /\ i = coord.job.id
      /\ i \in DOMAIN disk \ downs /\ worker[i].at = "down" /\ i \in Ids
      /\ job \in Job /\ job.id = i
  BY <1>1, <1>3 DEF Expected, InHand, Held, Records, Processes
<1>5. \/ /\ coord.at = "reading" /\ Interrupts(job)
         /\ queue' = Append(q, [kind |-> "save", from |-> "coordinator",
                                job |-> [job EXCEPT !.status = "halted"]])
         /\ coord' = [coord EXCEPT !.at = "interrupting", !.job = job]
      \/ queue' = q /\ Served
      \/ /\ coord.at = "rereading" /\ queue' = q
         /\ coord' = [Idle EXCEPT !.todo = IF job.status = "halted" THEN {job} ELSE {}]
  BY DEF StoreReads
<1>6. AdmissionHolds' /\ Records'
  BY <1>1, <1>2, AdmissionSame DEF Records
<1>7. \A id : Quiet(queue, id) => Quiet(q, id)
  BY <1>3 DEF Quiet
<1> HIDE DEF h, i, job, q
<1>8. \A j \in coord.todo : j.id # i
  BY <1>1, <1>4 DEF Relaunches, Held
<1>9. CASE /\ coord.at = "reading" /\ Interrupts(job)
           /\ queue' = Append(q, [kind |-> "save", from |-> "coordinator",
                                  job |-> [job EXCEPT !.status = "halted"]])
           /\ coord' = [coord EXCEPT !.at = "interrupting", !.job = job]
  <2> DEFINE message == [kind |-> "save", from |-> "coordinator",
                         job |-> [job EXCEPT !.status = "halted"]]
  <2>1. /\ message \in Message /\ message.from = "coordinator" /\ message.kind = "save"
        /\ message.job = [job EXCEPT !.status = "halted"] /\ message.job.status = "halted"
    BY <1>4 DEF Message, Job, Status
  <2>2. queue' = Append(q, message)
    BY <1>9
  <2> HIDE DEF message
  <2>3. Ordered(queue') /\ Range(queue') = Range(q) \cup {message}
    BY <1>3, <2>1, <2>2, AppendKeeps
  <2>4. /\ coord'.at = "interrupting" /\ coord'.job = job /\ coord'.todo = coord.todo
        /\ coord' \in [at : Places, job : Job \cup {NoJob}, recovery : BOOLEAN, todo : SUBSET Job]
    BY <1>1, <1>4, <1>9 DEF TypeOK, Places
  <2>5. TypeOK'
    BY <1>1, <1>2, <1>4, <2>3, <2>4, NoJobAssumption DEF TypeOK, Ordered
  <2>6. \A id : Quiet(q, id) => Quiet(queue, id)'
    BY <2>1, <2>3 DEF Quiet
  <2>7. Processes'
    BY <1>1, <1>2, <1>4, <1>7, <2>6 DEF Processes
  <2>8. Relaunches'
    BY <1>1, <1>2, <1>4, <1>7, <1>8, <2>4, <2>6 DEF Relaunches
  <2>9. InHand'
    BY <1>2, <1>3, <1>4, <1>9, <2>4, <2>6 DEF InHand, Held, Interrupts, job
  <2>10. Mailbox'
    <3>1. ASSUME NEW m \in Range(q) PROVE m.from = "worker" /\ Based(m)'
      BY <1>2, <1>3 DEF Based
    <3>2. ASSUME NEW m, m = message PROVE m.from = "coordinator" /\ Expected(m)'
      BY <3>2, <2>1, <2>4 DEF Expected
    <3> QED
      BY <3>1, <3>2, <2>3 DEF Mailbox
  <2> QED
    BY <1>6, <2>5, <2>7, <2>8, <2>9, <2>10 DEF Inductive, Custody
<1>10. ASSUME queue' = q, coord'.at = "serving", coord'.job = NoJob,
              coord' \in [at : Places, job : Job \cup {NoJob}, recovery : BOOLEAN, todo : SUBSET Job],
              \A j \in coord'.todo : j \in coord.todo \/ (coord.at = "rereading" /\ j = job)
       PROVE  Inductive'
  <2>1. TypeOK'
    BY <1>1, <1>2, <1>3, <1>10 DEF TypeOK, Ordered
  <2>2. Processes'
    BY <1>1, <1>2, <1>4, <1>7, <1>10 DEF Processes
  <2>3. ASSUME coord.at = "rereading" PROVE job.status # "done"
    BY <2>3, <1>1, <1>4 DEF InHand, job
  <2>4. Relaunches'
    BY <1>1, <1>2, <1>3, <1>4, <1>7, <1>10, <2>3 DEF Relaunches, Held, job
  <2>5. InHand'
    BY <1>10 DEF InHand, Held
  <2>6. Mailbox'
    BY <1>2, <1>3, <1>10 DEF Mailbox, Based
  <2> QED
    BY <1>6, <2>1, <2>2, <2>4, <2>5, <2>6 DEF Inductive, Custody
<1>11. CASE queue' = q /\ Served
  BY <1>1, <1>10, <1>11, ServedIs
<1>12. CASE /\ coord.at = "rereading" /\ queue' = q
            /\ coord' = [Idle EXCEPT !.todo = IF job.status = "halted" THEN {job} ELSE {}]
  <2>1. /\ coord'.at = "serving" /\ coord'.job = NoJob /\ coord'.todo \subseteq {job}
        /\ coord' \in [at : Places, job : Job \cup {NoJob}, recovery : BOOLEAN, todo : SUBSET Job]
    BY <1>4, <1>12 DEF Idle, Places
  <2> QED
    BY <1>10, <1>12, <2>1
<1> QED
  BY <1>5, <1>9, <1>11, <1>12

-----------------------------------------------------------------------------
(* The task processes *)

LEMMA CheckpointKeeps ==
    ASSUME Inductive, NEW id \in Ids, NEW status \in {"running", "halted", "done"},
           Checkpoint(id, status)
    PROVE  Inductive'
<1> DEFINE message == [kind |-> "save", from |-> "worker",
                       job |-> [worker[id].job EXCEPT !.status = status]]
<1>1. /\ TypeOK /\ AdmissionHolds /\ Custody
      /\ Records /\ Processes /\ Relaunches /\ InHand /\ Mailbox
  BY DEF Inductive, Custody
<1>2. /\ worker[id].at = "run" /\ queue' = Append(queue, message)
      /\ worker' = [worker EXCEPT ![id] = [@ EXCEPT !.at = "saving"]]
      /\ UNCHANGED <<disk, coord, asked, downs, told, orphans, faults>>
  BY DEF Checkpoint, Send
<1>3. /\ id \in DOMAIN disk \ downs /\ worker[id].job = disk[id] /\ disk[id].status # "done"
      /\ Quiet(queue, id) /\ disk[id] \in Job /\ disk[id].id = id
      /\ worker[id] \in [at : {"init", "run", "saving"}, job : Job]
  BY <1>1, <1>2 DEF Processes, Records, TypeOK, Down
<1>4. /\ message \in Message /\ message.from = "worker" /\ message.kind = "save"
      /\ message.job = [disk[id] EXCEPT !.status = status] /\ message.job.id = id
      /\ message.job.status = status
  BY <1>3 DEF Message, Job, Status
<1> HIDE DEF message
<1>5. (* Whatever the coordinator waits for is about another task. *)
      \A l \in Range(queue) : l.from = "coordinator" => l.job.id # id
  <2> SUFFICES ASSUME NEW l \in Range(queue), l.from = "coordinator", l.job.id = id
               PROVE  FALSE
    OBVIOUS
  <2>1. Expected(l)
    BY <1>1 DEF Mailbox
  <2>2. CASE coord.at = "creating"
    BY <2>1, <2>2, <1>1, <1>3 DEF Expected, InHand
  <2>3. CASE coord.at \in {"reading", "rereading"}
    BY <2>1, <2>3, <1>1, <1>2 DEF Expected, InHand, Held
  <2>4. CASE coord.at \in {"failing", "interrupting"}
    <3>1. coord.job \in Job /\ worker[coord.job.id].at \in {"down", "init"}
      BY <2>4, <1>1 DEF InHand, Held
    <3>2. l.job.id = coord.job.id
      BY <2>1, <2>4, <3>1 DEF Expected, Job
    <3> QED
      BY <3>1, <3>2, <1>2
  <2> QED
    BY <2>1, <2>2, <2>3, <2>4 DEF Expected
<1>6. Ordered(queue') /\ Range(queue') = Range(queue) \cup {message}
  <2>1. Ordered(queue) /\ Quiet(queue, message.job.id)
    BY <1>1, <1>3, <1>4 DEF Mailbox
  <2>2. \A l \in Range(queue) : l.from = "coordinator" => l.job.id # message.job.id
    BY <1>4, <1>5
  <2>3. message \in Message /\ message.from = "worker" /\ queue' = Append(queue, message)
    BY <1>2, <1>4
  <2>4. message.from # "coordinator"
    BY <2>3
  <2>5. /\ Ordered(Append(queue, message))
        /\ Range(Append(queue, message)) = Range(queue) \cup {message}
    BY <2>1, <2>2, <2>3, <2>4, AppendKeeps, SMTT(20)
  <2> QED
    BY <2>3, <2>5
<1>7. /\ worker'[id].at = "saving" /\ worker'[id].job = disk[id]
      /\ \A i \in Ids : i # id => worker'[i] = worker[i]
      /\ worker' \in [Ids -> {Down} \cup [at : {"init", "run", "saving"}, job : Job]]
  BY <1>1, <1>2, <1>3 DEF TypeOK
<1>8. \A i : i # id /\ Quiet(queue, i) => Quiet(queue, i)'
  BY <1>4, <1>6 DEF Quiet
<1>9. TypeOK'
  BY <1>1, <1>2, <1>6, <1>7 DEF TypeOK, Ordered
<1>10. AdmissionHolds' /\ Records'
  BY <1>1, <1>2, AdmissionSame DEF Records
<1>11. Processes'
  BY <1>1, <1>2, <1>3, <1>7, <1>8 DEF Processes
<1>12. Relaunches'
  BY <1>1, <1>2, <1>7, <1>8 DEF Relaunches, Held, Records
<1>13. InHand'
  <2>1. Held => coord.job.id # id /\ coord.job.id \in Ids
    BY <1>1, <1>2 DEF InHand, Records
  <2> QED
    BY <2>1, <1>1, <1>2, <1>7, <1>8 DEF InHand, Held
<1>14. Mailbox'
  <2>1. ASSUME NEW m \in Range(queue)
        PROVE  IF m.from = "worker" THEN Based(m)' ELSE Expected(m)'
    <3>1. CASE m.from = "worker"
      <4>1. Based(m) /\ m.job.id # id /\ m.job.id \in Ids
        BY <3>1, <1>1, <1>3 DEF Mailbox, Quiet, Based, Records
      <4> QED
        BY <3>1, <4>1, <1>2, <1>7 DEF Based
    <3>2. CASE m.from # "worker"
      BY <3>2, <1>1, <1>2 DEF Mailbox, Expected
    <3> QED
      BY <3>1, <3>2
  <2>2. ASSUME NEW m, m = message PROVE m.from = "worker" /\ Based(m)'
    BY <2>2, <1>2, <1>3, <1>4, <1>7 DEF Based
  <2> QED
    BY <2>1, <2>2, <1>6 DEF Mailbox
<1> QED
  BY <1>9, <1>10, <1>11, <1>12, <1>13, <1>14 DEF Inductive, Custody

LEMMA WorkerExitsKeeps ==
    ASSUME Inductive, NEW id \in Ids, WorkerExits(id)
    PROVE  Inductive'
<1>1. /\ TypeOK /\ AdmissionHolds /\ Custody
      /\ Records /\ Processes /\ Relaunches /\ InHand /\ Mailbox
  BY DEF Inductive, Custody
<1>2. /\ worker[id].at \in {"run", "saving"} /\ Fault
      /\ worker' = [worker EXCEPT ![id] = Down]
      /\ downs' = downs \cup {id}
      /\ UNCHANGED <<disk, queue, coord, asked, told, orphans>>
  BY DEF WorkerExits
<1>3. id \in DOMAIN disk
  BY <1>1, <1>2 DEF Processes
<1>4. /\ worker'[id].at = "down"
      /\ \A i \in Ids : i # id => worker'[i] = worker[i]
      /\ worker' \in [Ids -> {Down} \cup [at : {"init", "run", "saving"}, job : Job]]
  BY <1>1, <1>2 DEF TypeOK, Down
<1>5. TypeOK'
  <2>1. faults' \in 0 .. MaxFaults
    BY <1>1, <1>2, StoreAssumption DEF TypeOK, Fault
  <2> QED
    BY <2>1, <1>1, <1>2, <1>4 DEF TypeOK
<1>6. AdmissionHolds' /\ Records'
  BY <1>1, <1>2, AdmissionSame DEF Records
<1>7. Processes'
  BY <1>1, <1>2, <1>3, <1>4 DEF Processes
<1>8. Relaunches'
  BY <1>1, <1>2, <1>4 DEF Relaunches, Held, Records
<1>9. InHand'
  <2>1. Held => coord.job.id # id /\ coord.job.id \in Ids
    BY <1>1, <1>2 DEF InHand, Records
  <2> QED
    BY <2>1, <1>1, <1>2, <1>4 DEF InHand, Held
<1>10. Mailbox'
  <2>1. ASSUME NEW m \in Range(queue), m.from = "worker" PROVE Based(m)'
    <3>1. Based(m) /\ m.job.id \in Ids
      BY <2>1, <1>1 DEF Mailbox, Based, Records
    <3> QED
      BY <3>1, <1>2, <1>4 DEF Based
  <2>2. ASSUME NEW m \in Range(queue), m.from # "worker" PROVE Expected(m)'
    BY <2>2, <1>1, <1>2 DEF Mailbox, Expected
  <2> QED
    BY <2>1, <2>2, <1>1, <1>2 DEF Mailbox
<1> QED
  BY <1>5, <1>6, <1>7, <1>8, <1>9, <1>10 DEF Inductive, Custody

-----------------------------------------------------------------------------
(* The invariant holds *)

LEMMA InductiveInit == Init => Inductive
<1> SUFFICES ASSUME Init PROVE Inductive
  OBVIOUS
<1>1. /\ disk = <<>> /\ DOMAIN disk = {} /\ asked = <<>>
      /\ queue = <<>> /\ Range(queue) = {} /\ DOMAIN queue = {}
      /\ coord = [at |-> "serving", job |-> NoJob, recovery |-> FALSE, todo |-> {}]
      /\ worker = [id \in Ids |-> Down]
      /\ downs = {} /\ told = {} /\ orphans = {} /\ faults = 0
  BY DEF Init, Idle, Range
<1>2. TypeOK
  BY <1>1, StoreAssumption DEF TypeOK, Places
<1>3. AdmissionHolds
  <2>1. Unfinished = {} /\ \A o : {id \in Unfinished : disk[id].owner = o} = {}
    BY <1>1 DEF Unfinished
  <2> QED
    BY <1>1, <2>1, FS_EmptySet, StoreAssumption
       DEF AdmissionHolds, OneTaskPerRequest, AnswersStand, QuotasHold
<1>4. Records /\ Processes /\ Relaunches /\ InHand
  BY <1>1 DEF Records, Processes, Relaunches, InHand, Held, Down
<1>5. Mailbox
  BY <1>1 DEF Mailbox, Ordered
<1> QED
  BY <1>2, <1>3, <1>4, <1>5 DEF Inductive, Custody

LEMMA InductiveNext == Inductive /\ [Next]_vars => Inductive'
<1> SUFFICES ASSUME Inductive, [Next]_vars PROVE Inductive'
  OBVIOUS
<1>1. CASE \E ask \in Asks : Ask(ask)
  BY <1>1, AskKeeps
<1>2. CASE StoreStep
  BY <1>2, StoreCreatesKeeps, StoreSavesWorkerKeeps, StoreSavesCoordinatorKeeps, StoreReadsKeeps
     DEF StoreStep
<1>3. CASE CoordinatorStep
  BY <1>3, StartKeeps, RelaunchKeeps, ProcessStartsKeeps, RecoverKeeps, HandleDownKeeps
     DEF CoordinatorStep
<1>4. CASE WorkerStep
  BY <1>4, CheckpointKeeps DEF WorkerStep
<1>5. CASE StartFails
  BY <1>5, StartFailsKeeps
<1>6. CASE ServiceRestarts
  BY <1>6, ServiceRestartsKeeps
<1>7. CASE \E id \in Ids : WorkerExits(id)
  BY <1>7, WorkerExitsKeeps
<1>8. CASE UNCHANGED vars
  <2>1. TypeOK'
    BY <1>8 DEF Inductive, TypeOK, vars
  <2>2. AdmissionHolds' /\ Custody'
    BY <1>8, AdmissionSame, CustodySame DEF Inductive, vars
  <2> QED
    BY <2>1, <2>2 DEF Inductive
<1> QED
  BY <1>1, <1>2, <1>3, <1>4, <1>5, <1>6, <1>7, <1>8 DEF Next

(* Custody of every record: a task is with its process, with a DOWN         *)
(* message, in the coordinator's hands or on its list, and the mailbox of   *)
(* the store holds at most one message of each of them.                     *)
THEOREM StoreInvariant == Spec => []Inductive
BY InductiveInit, InductiveNext, PTL DEF Spec

(* The store, its mailbox, the coordinator and the task processes have      *)
(* their types in every reachable state.                                    *)
THEOREM StoreTypeCorrect == Spec => []TypeOK
<1>1. Inductive => TypeOK
  BY DEF Inductive
<1> QED
  BY <1>1, StoreInvariant, PTL

(* However many clients ask, repeat themselves and reuse their keys, a key  *)
(* names one task, what a client was given stands, and the quotas hold.     *)
THEOREM AdmissionAlwaysHolds == Spec => []AdmissionHolds
<1>1. Inductive => AdmissionHolds
  BY DEF Inductive
<1> QED
  BY <1>1, StoreInvariant, PTL

(* A task process between two calls holds the record in the store, and what *)
(* the DOWN handler is about to write is based on the last checkpoint.      *)
THEOREM CheckpointsAlwaysCurrent == Spec => []CheckpointsAreCurrent
<1>1. Inductive => CheckpointsAreCurrent
  <2> SUFFICES ASSUME Inductive PROVE CheckpointsAreCurrent
    OBVIOUS
  <2>1. Processes /\ InHand /\ Mailbox
    BY DEF Inductive, Custody
  <2>2. ASSUME NEW id \in Ids, worker[id].at = "run"
        PROVE  /\ worker[id].job = disk[id]
               /\ \A n \in DOMAIN queue : queue[n].kind = "save" => queue[n].job.id # id
    <3>1. worker[id].job = disk[id] /\ Quiet(queue, id)
      BY <2>1, <2>2 DEF Processes
    <3>2. ASSUME NEW n \in DOMAIN queue, queue[n].kind = "save" PROVE queue[n].job.id # id
      <4>1. queue[n] \in Range(queue)
        BY DEF Range
      <4>2. CASE queue[n].from = "worker"
        BY <4>1, <4>2, <3>1 DEF Quiet
      <4>3. CASE queue[n].from # "worker"
        <5>1. /\ coord.at \in {"failing", "interrupting"}
              /\ queue[n].job = [coord.job EXCEPT !.status = queue[n].job.status]
          BY <4>1, <4>3, <3>2, <2>1 DEF Mailbox, Expected
        <5>2. coord.job \in Job /\ worker[coord.job.id].at \in {"down", "init"}
          BY <5>1, <2>1 DEF InHand, Held
        <5>3. queue[n].job.id = coord.job.id
          BY <5>1, <5>2 DEF Job
        <5> QED
          BY <5>2, <5>3, <2>2
      <4> QED
        BY <4>2, <4>3
    <3> QED
      BY <3>1, <3>2
  <2>3. ExitIsContained
    BY <2>1 DEF InHand, ExitIsContained, Current
  <2> QED
    BY <2>2, <2>3 DEF CheckpointsAreCurrent, WorkerIsCurrent
<1> QED
  BY <1>1, StoreInvariant, PTL

(* The compare-and-swap of save/3 is there for processes that hold an old   *)
(* record.  None ever does.                                                 *)
NoCheckpointIsStale == \A m \in Range(queue) : m.from = "worker" => Current(m.job)

(* No checkpoint of a task process, be it alive or long dead, is ever       *)
(* refused by the store: only the coordinator, after a start it thinks      *)
(* failed, can come too late.                                               *)
THEOREM CheckpointsNeverRefused == Spec => []NoCheckpointIsStale
<1>1. Inductive => NoCheckpointIsStale
  <2> SUFFICES ASSUME Inductive, NEW m \in Range(queue), m.from = "worker" PROVE Current(m.job)
    BY DEF NoCheckpointIsStale
  <2>1. Based(m) /\ disk[m.job.id] \in Job
    BY CheckpointUnderWay DEF Inductive, Custody, Records, Based
  <2> QED
    BY <2>1 DEF Based, Current, Job
<1> QED
  BY <1>1, StoreInvariant, PTL

-----------------------------------------------------------------------------
(* Records only advance *)

Advances ==
    \A id \in DOMAIN disk :
        disk'[id] # disk[id] =>
            disk[id].status # "done" /\ disk'[id].rev = disk[id].rev + 1

LEMMA SavingAdvances ==
    ASSUME Records, NEW job \in Job, job.id \in DOMAIN disk, Current(job), Store(job),
           disk[job.id].status # "done"
    PROVE  Advances
<1>1. Bumped(job).rev = disk[job.id].rev + 1
  BY DEF Bumped, Current, Job
<1>2. /\ disk'[job.id] = Bumped(job)
      /\ \A id \in DOMAIN disk : id # job.id => disk'[id] = disk[id]
  BY DEF Store
<1> QED
  BY <1>1, <1>2 DEF Advances

LEMMA NextAdvances ==
    ASSUME Inductive, [Next]_vars
    PROVE  Advances
<1>1. /\ Records /\ InHand /\ Mailbox
  BY DEF Inductive, Custody
<1>2. CASE StoreCreates
  <2>1. Received("create", "coordinator")
    BY <1>2 DEF StoreCreates
  <2>2. Expected(Head(queue)) /\ Head(queue).kind = "create"
    BY <1>1, <2>1, CoordinatorAnswered
  <2>3. Head(queue).job.id \notin DOMAIN disk
    BY <1>1, <2>2 DEF Expected, InHand
  <2>4. \A id \in DOMAIN disk : disk'[id] = disk[id]
    BY <1>2, <2>3 DEF StoreCreates
  <2> QED
    BY <2>4 DEF Advances
<1>3. CASE StoreSavesWorker
  <2>1. Received("save", "worker")
    BY <1>3 DEF StoreSavesWorker
  <2>2. Head(queue).job \in Job /\ Current(Head(queue).job) /\ Based(Head(queue))
    BY <2>1, CheckpointServed
  <2>3. Store(Head(queue).job)
    BY <1>3, <2>2 DEF StoreSavesWorker
  <2> QED
    BY <1>1, <2>2, <2>3, SavingAdvances DEF Based
<1>4. CASE StoreSavesCoordinator
  <2> DEFINE job == Head(queue).job
  <2>1. Received("save", "coordinator")
    BY <1>4 DEF StoreSavesCoordinator
  <2>2. /\ Head(queue) \in Message /\ Expected(Head(queue)) /\ Head(queue).kind = "save"
    BY <1>1, <2>1, CoordinatorAnswered
  <2>3. /\ coord.at \in {"failing", "interrupting"} /\ job \in Job
        /\ job = [coord.job EXCEPT !.status = job.status]
    BY <2>2 DEF Expected, Message
  <2> HIDE DEF job
  <2>4. coord.job \in Job /\ coord.job.id \in DOMAIN disk
    BY <1>1, <2>3 DEF InHand, Held
  <2>5. job.id = coord.job.id /\ job.rev = coord.job.rev
    BY <2>3, <2>4 DEF Job
  <2>6. CASE Current(job)
    <3>1. disk[job.id].status # "done" /\ job.id \in DOMAIN disk
      BY <1>1, <2>3, <2>4, <2>5, <2>6 DEF InHand, Current
    <3>2. Store(job)
      BY <1>4, <2>6 DEF StoreSavesCoordinator, job
    <3> QED
      BY <1>1, <2>3, <2>6, <3>1, <3>2, SavingAdvances
  <2>7. CASE ~Current(job)
    BY <1>4, <2>7 DEF StoreSavesCoordinator, job, Advances
  <2> QED
    BY <2>6, <2>7
<1>5. CASE disk' = disk
  BY <1>5 DEF Advances
<1>6. disk' = disk \/ StoreCreates \/ StoreSavesWorker \/ StoreSavesCoordinator
  BY DEF Next, StoreStep, CoordinatorStep, WorkerStep, Ask, StoreReads, Start, Relaunch,
         ProcessStarts, Recover, HandleDown, Checkpoint, StartFails, ServiceRestarts,
         WorkerExits, vars
<1> QED
  BY <1>2, <1>3, <1>4, <1>5, <1>6

(* Whoever writes, a finished task is never reopened and no checkpoint is   *)
(* skipped or overwritten, through timeouts, exits, failed starts and       *)
(* restarts.                                                                *)
THEOREM RecordsAlwaysAdvance == Spec => RecordsOnlyAdvance
<1>1. Inductive /\ [Next]_vars => [Advances]_vars
  BY NextAdvances
<1>2. [Advances]_vars <=>
      [\A id \in DOMAIN disk :
          disk'[id] # disk[id] => /\ disk[id].status # "done"
                                  /\ disk'[id].rev = disk[id].rev + 1]_vars
  BY DEF Advances
<1> QED
  BY <1>1, <1>2, StoreInvariant, PTL DEF Spec, RecordsOnlyAdvance

-----------------------------------------------------------------------------
(* The store implements the table of records *)

LEMMA AskFields ==
    \A job : AskOf(job).owner = job.owner /\ AskOf(job).key = job.key /\ AskOf(job).req = job.req
BY DEF AskOf

LEMMA TableFields ==
    /\ DOMAIN Table = DOMAIN disk
    /\ \A id \in DOMAIN disk : /\ Table[id] = Record(id) /\ Table[id].ask = AskOf(disk[id])
                               /\ Table[id].status = disk[id].status
                               /\ Table[id].rev = disk[id].rev
BY DEF Table, Record

LEMMA TellingIsTold ==
    ASSUME NEW id \in DOMAIN disk, AskOf(coord.job) = AskOf(disk[id]), Tell(id)
    PROVE  Ledger!Told(id)
BY TableFields DEF Tell, Ledger!Told

LEMMA SavingIsAdvance ==
    ASSUME Records, NEW job \in Job, job.id \in DOMAIN disk, Current(job), Store(job),
           disk[job.id].status # "done", AskOf(job) = AskOf(disk[job.id]),
           Ledger!Told(job.id) \/ UNCHANGED told
    PROVE  Ledger!Next
<1> DEFINE id == job.id
<1>1. job.rev = disk[id].rev /\ disk[id] \in Job /\ job.status \in Status /\ id \in DOMAIN Table
  BY TableFields DEF Current, Job, Records
<1>2. /\ disk' = [disk EXCEPT ![id] = Bumped(job)] /\ DOMAIN disk' = DOMAIN disk
      /\ Bumped(job) \in Job /\ Bumped(job).status = job.status
      /\ Bumped(job).rev = disk[id].rev + 1 /\ AskOf(Bumped(job)) = AskOf(job)
  BY <1>1 DEF Store, Bumped, Job, AskOf
<1> HIDE DEF id
<1>3. Table' = [i \in DOMAIN disk |->
                  [ask |-> AskOf(disk'[i]), status |-> disk'[i].status, rev |-> disk'[i].rev]]
  BY <1>2 DEF Table, Record, AskOf
<1> DEFINE new == [ask |-> Table[id].ask, status |-> job.status, rev |-> Table[id].rev + 1]
<1>4. Table' = [Table EXCEPT ![id] = new]
  <2>1. disk'[id] = Bumped(job) /\ id \in DOMAIN disk
    BY <1>2 DEF id
  <2>2. Table'[id] = new
    <3>1. /\ AskOf(disk'[id]) = Table[id].ask /\ disk'[id].status = job.status
          /\ disk'[id].rev = Table[id].rev + 1
      BY <1>2, <2>1, TableFields DEF id
    <3>2. Table'[id] = [ask |-> AskOf(disk'[id]), status |-> disk'[id].status,
                        rev |-> disk'[id].rev]
      BY <1>3, <2>1
    <3> QED
      BY <3>1, <3>2
  <2>3. \A i \in DOMAIN disk : i # id => Table'[i] = Table[i]
    BY <1>2, <1>3, TableFields DEF Record
  <2> HIDE DEF new
  <2>4. Table' = [i \in DOMAIN disk |-> IF i = id THEN new ELSE Table[i]]
    BY <1>3, <2>2, <2>3
  <2>5. Table = [i \in DOMAIN disk |-> Table[i]]
    BY DEF Table
  <2> QED
    BY <2>1, <2>4, <2>5, TableFields
<1>5. Ledger!Advance(id)
  <2>1. Table[id].status # "done" /\ job.status \in Ledger!Status
    BY <1>1, TableFields DEF id, Status, Ledger!Status
  <2> QED
    BY <1>4, <2>1 DEF Ledger!Advance, id
<1> QED
  BY <1>1, <1>5 DEF Ledger!Next, id

LEMMA SameCardinality == \A S : Ledger!Cardinality(S) = Cardinality(S)
BY DEF Ledger!Cardinality, Cardinality

LEMMA CreatingIsAdmit ==
    ASSUME Records, NEW job \in Job, job.id \notin DOMAIN disk, AskOf(job) \in Asks,
           job.status = "queued", Existing(job) = {}, Quota(job), UNCHANGED told,
           disk' = [id \in DOMAIN disk \cup {job.id} |->
                       IF id = job.id THEN [job EXCEPT !.rev = 1] ELSE disk[id]]
    PROVE  Ledger!Next
<1>1. job.id \in Ids /\ job.id \notin DOMAIN Table /\ AskOf(job).owner = job.owner
      /\ AskOf(job).key = job.key
  BY TableFields DEF Job, AskOf
<1>2. Ledger!Unfinished = Unfinished
  BY TableFields DEF Ledger!Unfinished, Unfinished
<1>3. /\ \A id \in DOMAIN disk : Table[id].ask.owner = disk[id].owner
      /\ \A id \in DOMAIN disk : Table[id].ask.key = disk[id].key
  BY TableFields, AskFields
<1>4. {id \in Unfinished : Table[id].ask.owner = AskOf(job).owner}
        = {id \in Unfinished : disk[id].owner = job.owner}
  BY <1>1, <1>3 DEF Unfinished
<1>5. \A id \in DOMAIN Table : ~(/\ Table[id].ask.owner = AskOf(job).owner
                                 /\ Table[id].ask.key = AskOf(job).key)
  BY <1>1, <1>3, TableFields DEF Existing
<1>6. Ledger!Admissible(AskOf(job))
  BY <1>2, <1>4, <1>5, TableFields, SameCardinality DEF Ledger!Admissible, Quota
<1> DEFINE new == [ask |-> AskOf(job), status |-> "queued", rev |-> 1]
<1>7. Table' = [i \in DOMAIN Table \cup {job.id} |-> IF i = job.id THEN new ELSE Table[i]]
  <2>1. DOMAIN disk' = DOMAIN disk \cup {job.id}
    OBVIOUS
  <2>2. Table' = [i \in DOMAIN disk' |->
                    [ask |-> AskOf(disk'[i]), status |-> disk'[i].status, rev |-> disk'[i].rev]]
    BY DEF Table, Record, AskOf
  <2>3. disk'[job.id] = [job EXCEPT !.rev = 1] /\ \A i \in DOMAIN disk : disk'[i] = disk[i]
    OBVIOUS
  <2>4. Table'[job.id] = new
    BY <2>1, <2>2, <2>3 DEF Job, AskOf
  <2>5. \A i \in DOMAIN disk : Table'[i] = Table[i]
    BY <2>1, <2>2, <2>3, TableFields DEF Record
  <2> QED
    BY <2>1, <2>2, <2>4, <2>5, TableFields
<1>8. Ledger!Admit(job.id, AskOf(job))
  BY <1>1, <1>6, <1>7, TableFields DEF Ledger!Admit
<1> QED
  BY <1>1, <1>8 DEF Ledger!Next

LEMMA InitIsEmpty == Init => Ledger!Init
BY DEF Init, Ledger!Init, Table

LEMMA NextIsRecords ==
    ASSUME Inductive, [Next]_vars
    PROVE  [Ledger!Next]_<<Table, told>>
<1>1. /\ Records /\ InHand /\ Mailbox /\ Processes
  BY DEF Inductive, Custody
<1>2. CASE StoreCreates
  <2> DEFINE job == Head(queue).job
  <2>1. Received("create", "coordinator")
    BY <1>2 DEF StoreCreates
  <2>2. /\ Head(queue) \in Message /\ Expected(Head(queue)) /\ Head(queue).kind = "create"
    BY <1>1, <2>1, CoordinatorAnswered
  <2>3. /\ coord.at = "creating" /\ job = coord.job /\ job \in Job
        /\ job.id \notin DOMAIN disk /\ AskOf(job) \in Asks /\ job.status = "queued"
    BY <1>1, <2>2 DEF Expected, InHand
  <2>4. \/ /\ Existing(job) = {} /\ Quota(job) /\ UNCHANGED told
           /\ disk' = [id \in DOMAIN disk \cup {job.id} |->
                          IF id = job.id THEN [job EXCEPT !.rev = 1] ELSE disk[id]]
        \/ UNCHANGED <<disk, told>>
        \/ \E id \in Existing(job) : SameRequest(id, job) /\ Tell(id) /\ UNCHANGED disk
    BY <1>2 DEF StoreCreates
  <2> HIDE DEF job
  <2>5. ASSUME NEW id \in Existing(job), SameRequest(id, job), Tell(id), UNCHANGED disk
        PROVE  Ledger!Next
    <3>1. id \in DOMAIN disk /\ AskOf(coord.job) = AskOf(disk[id])
      BY <2>3, <2>5 DEF Existing, SameRequest, AskOf
    <3>2. Ledger!Told(id) /\ Table' = Table
      BY <2>5, <3>1, TellingIsTold DEF Table, Record, AskOf
    <3> QED
      BY <3>1, <3>2, TableFields DEF Ledger!Next, Ledger!Answer
  <2> QED
    BY <1>1, <2>3, <2>4, <2>5, CreatingIsAdmit DEF Table, Record, AskOf
<1>3. CASE StoreSavesWorker
  <2> DEFINE job == Head(queue).job
  <2>1. Received("save", "worker")
    BY <1>3 DEF StoreSavesWorker
  <2>2. /\ job \in Job /\ Current(job) /\ Based(Head(queue)) /\ job.id \in Ids
        /\ AskOf(job) = AskOf(disk[job.id])
    BY <2>1, CheckpointServed
  <2>3. job.id \in DOMAIN disk /\ disk[job.id].status # "done"
    BY <2>2 DEF Based
  <2>4. /\ Store(job)
        /\ told' = told \/ (worker[job.id].at = "init" /\ TellStarted)
    <3>1. /\ Current(job) /\ Store(job)
          /\ \/ UNCHANGED told
             \/ worker[job.id].at = "init" /\ TellStarted
      BY <1>3, <2>2, Zenon DEF StoreSavesWorker
    <3> QED
      BY <3>1
  <2> HIDE DEF job
  <2>5. Ledger!Told(job.id) \/ UNCHANGED told
    <3>1. CASE worker[job.id].at = "init" /\ TellStarted
      <4>1. coord.at = "starting" /\ coord.job.id = job.id /\ AskOf(coord.job) = AskOf(disk[job.id])
        BY <1>1, <2>2, <3>1 DEF Processes, InHand, Held
      <4>2. Tell(job.id) \/ UNCHANGED told
        BY <3>1, <4>1 DEF TellStarted
      <4> QED
        BY <2>3, <4>1, <4>2, TellingIsTold
    <3> QED
      BY <2>4, <3>1
  <2> QED
    BY <1>1, <2>2, <2>3, <2>4, <2>5, SavingIsAdvance
<1>4. CASE StoreSavesCoordinator
  <2> DEFINE job == Head(queue).job
  <2>1. Received("save", "coordinator")
    BY <1>4 DEF StoreSavesCoordinator
  <2>2. /\ Head(queue) \in Message /\ Expected(Head(queue)) /\ Head(queue).kind = "save"
    BY <1>1, <2>1, CoordinatorAnswered
  <2>3. /\ coord.at \in {"failing", "interrupting"} /\ job \in Job
        /\ job = [coord.job EXCEPT !.status = job.status]
    BY <2>2 DEF Expected, Message
  <2>4. \/ Current(job) /\ Store(job) /\ (told' = told \/ TellStarted)
        \/ ~Current(job) /\ UNCHANGED <<disk, told>>
    BY <1>4 DEF StoreSavesCoordinator
  <2> HIDE DEF job
  <2>5. /\ coord.job \in Job /\ coord.job.id \in DOMAIN disk
        /\ AskOf(coord.job) = AskOf(disk[coord.job.id])
    BY <1>1, <2>3 DEF InHand, Held
  <2>6. job.id = coord.job.id /\ job.rev = coord.job.rev /\ AskOf(job) = AskOf(coord.job)
    BY <2>3, <2>5 DEF Job, AskOf
  <2>7. ASSUME Current(job), Store(job), told' = told \/ TellStarted
        PROVE  Ledger!Next
    <3>1. disk[job.id].status # "done"
      BY <1>1, <2>3, <2>5, <2>6, <2>7 DEF InHand, Current
    <3>2. Ledger!Told(job.id) \/ UNCHANGED told
      <4>1. Tell(job.id) \/ UNCHANGED told
        BY <2>6, <2>7 DEF TellStarted
      <4> QED
        BY <2>5, <2>6, <4>1, TellingIsTold
    <3> QED
      BY <1>1, <2>3, <2>5, <2>6, <2>7, <3>1, <3>2, SavingIsAdvance
  <2> QED
    BY <2>4, <2>7 DEF Table, Record, AskOf
<1>5. CASE ProcessStarts
  <2>1. coord.at = "starting" /\ UNCHANGED disk /\ (told' = told \/ TellStarted)
    BY <1>5 DEF ProcessStarts
  <2>2. coord.job.id \in DOMAIN disk /\ AskOf(coord.job) = AskOf(disk[coord.job.id])
    BY <1>1, <2>1 DEF InHand, Held
  <2>3. Ledger!Told(coord.job.id) \/ UNCHANGED told
    BY <2>1, <2>2, TellingIsTold DEF TellStarted
  <2>4. Table' = Table
    BY <2>1 DEF Table, Record, AskOf
  <2> QED
    BY <2>2, <2>3, <2>4, TableFields DEF Ledger!Next, Ledger!Answer
<1>6. CASE UNCHANGED <<disk, told>>
  BY <1>6 DEF Table, Record, AskOf
<1>7. \/ UNCHANGED <<disk, told>>
      \/ StoreCreates \/ StoreSavesWorker \/ StoreSavesCoordinator \/ ProcessStarts
  BY DEF Next, StoreStep, CoordinatorStep, WorkerStep, Ask, StoreReads, Start, Relaunch,
         Recover, HandleDown, Checkpoint, StartFails, ServiceRestarts, WorkerExits, vars
<1> QED
  BY <1>2, <1>3, <1>4, <1>5, <1>6, <1>7

(* Whoever starts tasks sees the table of records and nothing else: the     *)
(* mailbox with its late requests, the coordinator, the processes, their    *)
(* exits and the restarts implement it.                                     *)
THEOREM StoreImplementsRecords == Spec => ImplementsRecords
<1>1. Inductive /\ [Next]_vars => [Ledger!Next]_<<Table, told>>
  BY NextIsRecords
<1> QED
  BY <1>1, InitIsEmpty, StoreInvariant, PTL DEF Spec, ImplementsRecords, Ledger!Spec
=============================================================================
