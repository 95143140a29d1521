---------------------------- MODULE AgentRecords ----------------------------
(***************************************************************************)
(* What the task store, the coordinator and the task processes together     *)
(* promise to whoever starts tasks, and nothing of mailboxes, time-outs,    *)
(* exits or restarts: a table of records in which a start request is        *)
(* admitted once, for ever under its own request_id and within the quotas;  *)
(* in which a record is rewritten one revision at a time and not at all     *)
(* once it is finished; and answers that name the task that was asked for.  *)
(***************************************************************************)
EXTENDS Integers, FiniteSets

CONSTANTS
    Ids,     \* task identifiers
    Asks,    \* the start requests there may be: owner, key, req
    MaxSaved, MaxActive, MaxPerOwner   \* the three quotas

VARIABLES
    record,  \* the tasks there are: what was asked for, status, revision
    answers  \* the tasks clients were given for their requests

Status == {"queued", "running", "halted", "done"}

Unfinished == {id \in DOMAIN record : record[id].status # "done"}

Init == DOMAIN record = {} /\ answers = {}

(* The key is free and there is room: in all, at work, and of one owner.    *)
Admissible(ask) ==
    /\ \A id \in DOMAIN record :
          ~(record[id].ask.owner = ask.owner /\ record[id].ask.key = ask.key)
    /\ Cardinality(DOMAIN record) < MaxSaved
    /\ Cardinality(Unfinished) < MaxActive
    /\ Cardinality({id \in Unfinished : record[id].ask.owner = ask.owner}) < MaxPerOwner

Admit(id, ask) ==
    /\ id \notin DOMAIN record /\ Admissible(ask)
    /\ record' = [i \in DOMAIN record \cup {id} |->
                     IF i = id THEN [ask |-> ask, status |-> "queued", rev |-> 1]
                     ELSE record[i]]
    /\ UNCHANGED answers

(* Somebody whose request was id's is told so. *)
Told(id) == answers' = answers \cup {[ask |-> record[id].ask, id |-> id]}

Advance(id) ==
    /\ record[id].status # "done"
    /\ \E status \in Status :
           record' = [record EXCEPT ![id] = [ask |-> record[id].ask, status |-> status,
                                             rev |-> record[id].rev + 1]]
    /\ Told(id) \/ UNCHANGED answers

Answer(id) == Told(id) /\ UNCHANGED record

Next ==
    \/ \E id \in Ids, ask \in Asks : Admit(id, ask)
    \/ \E id \in DOMAIN record : Advance(id) \/ Answer(id)

Spec == Init /\ [][Next]_<<record, answers>>
=============================================================================
