------------------------------ MODULE IpfsPins ------------------------------
(***************************************************************************)
(* Durable pin intents and their application to the IPFS node: the store of *)
(* intents (damage_ipfs_store.erl), the pinner that applies the one due     *)
(* next (damage_ipfs_pinner.erl), the reconciler that compares applied ones *)
(* with the node (damage_ipfs_reconciler.erl), the loop that runs one pass  *)
(* of either at a time (damage_ipfs_loop.erl) and their supervisor.         *)
(*                                                                          *)
(* A request goes through damage_ipfs_client (module IpfsQueue), which      *)
(* answers every caller but cannot recall what has reached the node: an     *)
(* operation given up on may still take effect, and later than others.      *)
(*                                                                          *)
(* GRAIN.  A pass is cut where it waits: for the node and for the store.    *)
(* The store serves its mailbox in order, so a call that a killed pass left *)
(* there is served before anything its successor asks; it is as if the pass *)
(* had died after it.  Intervals and retry delays are kept as an order: who *)
(* is due, and before whom.                                                 *)
(***************************************************************************)
EXTENDS Integers, FiniteSets, Sequences, FiniteSetsExt, Queues

CONSTANTS
    N,            \* number of CIDs; the store's index is ordered by them
    Stubborn,     \* those the node may refuse for ever
    Batch,        \* reconcile_batch
    MaxIntents,   \* max_intents
    MaxRequests,  \* bound: requests to pin or unpin
    MaxFaults     \* bound: errors, deaths, restarts, interference

ASSUME PinsAssumption ==
    /\ {N, Batch, MaxIntents} \subseteq Nat \ {0}
    /\ {MaxRequests, MaxFaults} \subseteq Nat
    /\ Stubborn \subseteq 1 .. N

Cids == 1 .. N

VARIABLES
    intent,      \* pin_intents.dets: the desired state of each CID
    due,         \* pending CIDs whose next_at has come, in order of next_at
    node,        \* whether the node has the CID pinned
    late,        \* operations nobody waits for that may still reach the node
    pinner,      \* the pinner's pass
    reconciler,  \* the reconciler's pass
    cursor,      \* the reconciler loop's data: where the next page begins
    faults,
    asked,       \* history: the last request served, by CID
    done         \* history: the last operation a pass saw succeed, by CID

vars == <<intent, due, node, late, pinner, reconciler, cursor, faults, asked, done>>

(* want: desired =:= pinned.  verify: "fine" without a failed verification, *)
(* "deferred" until verify_next_at, "overdue" after it.                     *)
Revisions == Nat \ {0}
Intent == [want : BOOLEAN, rev : Revisions, applied : BOOLEAN,
           verify : {"fine", "deferred", "overdue"}]
Job == [cid : Cids, rev : Revisions, want : BOOLEAN]
Row == [cid : Cids, is : Intent]
Request == [rev : Revisions \cup {0}, want : BOOLEAN]
NoRequest == [rev |-> 0, want |-> FALSE]

PinnerIdle == [at |-> "idle"]
ReconcilerIdle == [at |-> "idle"]

Pinner ==
    {PinnerIdle} \cup [at : {"asking"}, job : Job]
                 \cup [at : {"answered"}, job : Job, ok : BOOLEAN]

Reconciler ==
    {ReconcilerIdle}
    \cup [at : {"checking"}, rows : SUBSET Row, last : 0 .. N, next : 0 .. N]
    \cup [at : {"answered"}, rows : SUBSET Row, last : 0 .. N, next : 0 .. N,
          saw : {"agrees", "differs", "error"}]

Known == DOMAIN intent
Pending == {c \in Known : ~intent[c].applied}

TypeOK ==
    /\ Known \subseteq Cids /\ Cardinality(Known) <= MaxIntents
    /\ \A c \in Known : intent[c] \in Intent
    /\ due \in Seq(Pending) /\ NoRepeat(due)
    /\ node \in [Cids -> BOOLEAN]
    /\ late \in [Cids -> [BOOLEAN -> 0 .. MaxFaults]]
    /\ pinner \in Pinner
    /\ reconciler \in Reconciler
    /\ cursor \in 0 .. N
    /\ faults \in 0 .. MaxFaults
    /\ asked \in [Cids -> Request] /\ done \in [Cids -> Request]

Init ==
    /\ intent = <<>> /\ due = <<>>
    /\ node \in [Cids -> BOOLEAN]
    /\ late = [c \in Cids |-> [want \in BOOLEAN |-> 0]]
    /\ pinner = PinnerIdle /\ reconciler = ReconcilerIdle
    /\ cursor = 0 /\ faults = 0
    /\ asked = [c \in Cids |-> NoRequest] /\ done = asked

Fault == faults < MaxFaults /\ faults' = faults + 1

-----------------------------------------------------------------------------
(* The store *)

(* persist/3 and index/3 *)
Write(c, is) == intent' = [d \in Known \cup {c} |-> IF d = c THEN is ELSE intent[d]]

Queued(c)   == due' = Append(Without(due, c), c)      \* next_at: now
UnqueuedNever(c) == UNCHANGED due          \* Mutant: persist leaves the old index entry
Unqueued(c) == due' = Without(due, c)                 \* later, or never

Revision(c) == IF c \in Known THEN intent[c].rev ELSE 0
Requested(c) == [rev |-> intent[c].rev, want |-> intent[c].want]

(* desire/2.  A caller that gave up waiting is owed no less. *)
Desire(c, want) ==
    /\ c \in Known \/ Cardinality(Known) < MaxIntents
    /\ MapThenSumSet(Revision, Known) < MaxRequests
    /\ Write(c, [want |-> want, rev |-> Revision(c) + 1, applied |-> FALSE, verify |-> "fine"])
    /\ Queued(c)
    /\ asked' = [asked EXCEPT ![c] = [rev |-> Revision(c) + 1, want |-> want]]
    /\ UNCHANGED <<node, late, pinner, reconciler, cursor, faults, done>>

CurrentAlways(c, rev) == c \in Known       \* Mutant: the revision is not compared
Current(c, rev) == c \in Known /\ intent[c].rev = rev

(* complete/3: applied, or once more after a delay. *)
Complete(c, rev, ok) ==
    \/ /\ Current(c, rev)
       /\ Write(c, IF ok THEN [intent[c] EXCEPT !.applied = TRUE, !.verify = "fine"]
                   ELSE [intent[c] EXCEPT !.applied = FALSE])
       /\ Unqueued(c)
    \/ ~Current(c, rev) /\ UNCHANGED <<intent, due>>

(* requeue/2 *)
RequeueRow(row) ==                         \* Mutant: writes back the row it read
    /\ Write(row.cid, [row.is EXCEPT !.applied = FALSE])
    /\ Queued(row.cid)

Requeue(row) ==
    LET c == row.cid IN
    \/ /\ Current(c, row.is.rev) /\ intent[c].applied
       /\ Write(c, [intent[c] EXCEPT !.applied = FALSE])
       /\ Queued(c)
    \/ /\ ~(Current(c, row.is.rev) /\ intent[c].applied)
       /\ UNCHANGED <<intent, due>>

(* verification_result/3 *)
Verified(row, verify) ==
    LET c == row.cid IN
    /\ \/ /\ Current(c, row.is.rev) /\ intent[c].applied
          /\ Write(c, [intent[c] EXCEPT !.verify = verify])
       \/ /\ ~(Current(c, row.is.rev) /\ intent[c].applied)
          /\ UNCHANGED intent
    /\ UNCHANGED due

-----------------------------------------------------------------------------
(* The pinner's pass: next_pending, one operation, complete *)

PinnerReads ==
    /\ pinner.at = "idle" /\ due # <<>>
    /\ pinner' = [at |-> "asking", job |-> [cid |-> Head(due), rev |-> intent[Head(due)].rev,
                                                want |-> intent[Head(due)].want]]
    /\ UNCHANGED <<intent, due, node, late, reconciler, cursor, faults, asked, done>>

(* ensure_pin and unpin are idempotent on the node. *)
OperationLands ==
    /\ pinner.at = "asking"
    /\ node' = [node EXCEPT ![pinner.job.cid] = pinner.job.want]
    /\ pinner' = [at |-> "answered", job |-> pinner.job, ok |-> TRUE]
    /\ done' = [done EXCEPT ![pinner.job.cid] = [rev |-> pinner.job.rev, want |-> pinner.job.want]]
    /\ UNCHANGED <<intent, due, late, reconciler, cursor, faults, asked>>

(* The operation of a pass that no longer waits for it: it never reached    *)
(* the node, or it is still on its way.                                     *)
Abandon == late' \in {late, [late EXCEPT ![pinner.job.cid][pinner.job.want] = @ + 1]}

(* Refused, timed out, overloaded, or the connection was lost. *)
OperationFails ==
    /\ pinner.at = "asking"
    /\ \/ Fault /\ Abandon
       \/ pinner.job.cid \in Stubborn /\ UNCHANGED <<faults, late>>
    /\ pinner' = [at |-> "answered", job |-> pinner.job, ok |-> FALSE]
    /\ UNCHANGED <<intent, due, node, reconciler, cursor, asked, done>>

PinnerCompletes ==
    /\ pinner.at = "answered"
    /\ Complete(pinner.job.cid, pinner.job.rev, pinner.ok)
    /\ pinner' = PinnerIdle
    /\ UNCHANGED <<node, late, reconciler, cursor, faults, asked, done>>

-----------------------------------------------------------------------------
(* The reconciler's pass: one page, row by row *)

(* page/2 *)
After(k) == {c \in Known : c > k}
Page == {c \in After(cursor) : Cardinality({d \in After(cursor) : d < c}) < Batch}
NextCursor ==
    IF Page = After(cursor) THEN 0
    ELSE CHOOSE c \in Page : \A d \in Page : d <= c

ReconcilerReads ==
    /\ reconciler.at = "idle"
    /\ reconciler' = [at |-> "checking", last |-> cursor, next |-> NextCursor,
                      rows |-> {[cid |-> c, is |-> intent[c]] : c \in Page}]
    /\ UNCHANGED <<intent, due, node, late, pinner, cursor, faults, asked, done>>

First == CHOOSE row \in reconciler.rows : \A r \in reconciler.rows : row.cid <= r.cid

(* On to the rest of the rows. *)
RowDone ==
    reconciler' = [at |-> "checking", rows |-> reconciler.rows \ {First},
                   last |-> First.cid, next |-> reconciler.next]

RowSkipped ==
    /\ reconciler.at = "checking" /\ reconciler.rows # {}
    /\ ~First.is.applied \/ First.is.verify = "deferred"
    /\ RowDone
    /\ UNCHANGED <<intent, due, node, late, pinner, cursor, faults, asked, done>>

ComparesPinned(is, pinned) ==              \* Mutant: unpinned ones are never compared
    IF is.want => pinned THEN "agrees" ELSE "differs"
Compares(is, pinned) == IF is.want = pinned THEN "agrees" ELSE "differs"

(* pin_check, explicit_pin_check.  A row read as deferred may be overdue by *)
(* the time it is looked at.                                                *)
RowChecked ==
    /\ reconciler.at = "checking" /\ reconciler.rows # {} /\ First.is.applied
    /\ \E saw \in {"agrees", "differs", "error"} :
           /\ \/ saw = Compares(First.is, node[First.cid]) /\ UNCHANGED faults
              \/ saw = "error" /\ First.cid \in Stubborn /\ UNCHANGED faults
              \/ saw = "error" /\ Fault
           /\ reconciler' = [at |-> "answered", rows |-> reconciler.rows, saw |-> saw,
                             last |-> reconciler.last, next |-> reconciler.next]
    /\ UNCHANGED <<intent, due, node, late, pinner, cursor, asked, done>>

(* record/6 *)
RowRecorded ==
    /\ reconciler.at = "answered"
    /\ \/ /\ reconciler.saw = "agrees" /\ First.is.verify = "fine"
          /\ UNCHANGED <<intent, due>>
       \/ /\ reconciler.saw = "agrees" /\ First.is.verify # "fine"
          /\ Verified(First, "fine")
       \/ reconciler.saw = "differs" /\ Requeue(First)
       \/ reconciler.saw = "error" /\ Verified(First, "deferred")
    /\ RowDone
    /\ UNCHANGED <<node, late, pinner, cursor, faults, asked, done>>

ReconcilerEnds ==
    /\ reconciler.at = "checking" /\ reconciler.rows = {}
    /\ cursor' = reconciler.next
    /\ reconciler' = ReconcilerIdle
    /\ UNCHANGED <<intent, due, node, late, pinner, faults, asked, done>>

(* The pass runs out of time: the next one goes on behind its last row. *)
ReconcilerStops ==
    /\ reconciler.at = "checking" /\ reconciler.rows # {}
    /\ Fault
    /\ cursor' = reconciler.last
    /\ reconciler' = ReconcilerIdle
    /\ UNCHANGED <<intent, due, node, late, pinner, asked, done>>

-----------------------------------------------------------------------------
(* damage_ipfs_loop and damage_ipfs_sup *)

(* task_timeout, or the pass died: complete/2 of the loop kills it. *)
PinnerPassDies ==
    /\ pinner.at # "idle" /\ Fault
    /\ IF pinner.at = "asking" THEN Abandon ELSE UNCHANGED late
    /\ pinner' = PinnerIdle
    /\ UNCHANGED <<intent, due, node, reconciler, cursor, asked, done>>

ReconcilerPassDies ==
    /\ reconciler.at # "idle" /\ Fault
    /\ reconciler' = ReconcilerIdle
    /\ cursor' \in {cursor, 0}            \* 0: the loop itself was restarted
    /\ UNCHANGED <<intent, due, node, late, pinner, asked, done>>

(* rest_for_one: the store, the client or the pinner takes those behind it  *)
(* along.  What was served is on disk: dets:sync/1 comes before the answer. *)
ServiceRestarts ==
    /\ Fault
    /\ IF pinner.at = "asking" THEN Abandon ELSE UNCHANGED late
    /\ pinner' = PinnerIdle /\ reconciler' = ReconcilerIdle
    /\ cursor' = 0
    /\ UNCHANGED <<intent, due, node, asked, done>>

-----------------------------------------------------------------------------
(* The world *)

LateLands(c, want) ==
    /\ late[c][want] > 0
    /\ late' = [late EXCEPT ![c][want] = @ - 1]
    /\ node' = [node EXCEPT ![c] = want]
    /\ UNCHANGED <<intent, due, pinner, reconciler, cursor, faults, asked, done>>

(* Somebody else pins or unpins on the node. *)
Interference(c) ==
    /\ Fault
    /\ node' = [node EXCEPT ![c] = ~@]
    /\ UNCHANGED <<intent, due, late, pinner, reconciler, cursor, asked, done>>

(* next_at comes. *)
RetryDue(c) ==
    /\ c \in Pending \ Waiting(due)
    /\ due' = Append(due, c)
    /\ UNCHANGED <<intent, node, late, pinner, reconciler, cursor, faults, asked, done>>

VerifyDue(c) ==
    /\ c \in Known /\ intent[c].verify = "deferred"
    /\ intent' = [intent EXCEPT ![c].verify = "overdue"]
    /\ UNCHANGED <<due, node, late, pinner, reconciler, cursor, faults, asked, done>>

-----------------------------------------------------------------------------
NodeAnswers == OperationLands \/ OperationFails
PinnerStep == PinnerReads \/ PinnerCompletes
ReconcilerStep == ReconcilerReads \/ RowSkipped \/ RowChecked \/ RowRecorded \/ ReconcilerEnds

Next ==
    \/ \E c \in Cids, want \in BOOLEAN : Desire(c, want) \/ LateLands(c, want)
    \/ PinnerStep \/ ReconcilerStep \/ NodeAnswers \/ ReconcilerStops
    \/ PinnerPassDies \/ ReconcilerPassDies \/ ServiceRestarts
    \/ \E c \in Cids : Interference(c) \/ RetryDue(c) \/ VerifyDue(c)

Spec == Init /\ [][Next]_vars

(* The loops run a pass when the last one has ended, a request is answered  *)
(* (IpfsQueue!EveryoneAnswered), and clocks move.                           *)
FairSpec ==
    /\ Spec
    /\ WF_vars(PinnerStep) /\ WF_vars(ReconcilerStep) /\ WF_vars(NodeAnswers)
    /\ \A c \in Cids : WF_vars(RetryDue(c)) /\ WF_vars(VerifyDue(c))

-----------------------------------------------------------------------------
(* Properties *)

(* While an intent is marked applied, the last operation known to have      *)
(* succeeded is the one this very revision asks for: an older pass's        *)
(* success, arriving after a newer request, is never taken for it.          *)
AppliedWasDone ==
    \A c \in Known :
        intent[c].applied => done[c] = Requested(c)

(* The store holds what was last asked for: no pass, however old the row or *)
(* the result it comes with, brings back an earlier intent or rewrites the  *)
(* current one, and no restart forgets it.                                  *)
LastRequestStands == \A c \in Cids : asked[c] = IF c \in Known THEN Requested(c) ELSE NoRequest

(* The last request stands, and is applied only by its own operation.       *)
IntentsStand == LastRequestStands /\ AppliedWasDone

(* Once requests and faults have ceased, every CID is, and stays, as it was *)
(* last asked for, although operations given up on may land after newer     *)
(* ones and the node may refuse other CIDs for ever ("One failing CID does  *)
(* not stall other queued pins", damage_ipfs_pinner.erl:45).                *)
Converges ==
    \A c \in Cids \ Stubborn :
        <>[](c \in Known => intent[c].applied /\ node[c] = intent[c].want)
=============================================================================
