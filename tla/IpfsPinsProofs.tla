--------------------------- MODULE IpfsPinsProofs ---------------------------
(***************************************************************************)
(* For any number of CIDs, requests and faults: the store of intents holds  *)
(* what was last asked for, and marks it applied only after an operation    *)
(* for that very revision succeeded.                                        *)
(***************************************************************************)
EXTENDS IpfsPins, QueuesProofs, FiniteSetTheorems

Verdict == {"fine", "deferred", "overdue"}
Record  == [want : BOOLEAN, rev : Nat, applied : BOOLEAN, verify : Verdict]
History == [rev : Nat, want : BOOLEAN]
Work    == [cid : Cids, rev : Nat, want : BOOLEAN]

(* The store: its table and the index of what is due. *)
Shelf ==
    /\ Known \subseteq Cids
    /\ \A c \in Known : intent[c] \in Record
    /\ due \in Seq(Cids) /\ NoRepeat(due) /\ Waiting(due) \subseteq Pending
    /\ asked \in [Cids -> History] /\ done \in [Cids -> History]

(* The job in a pass's hands was read from the store: it is never ahead of  *)
(* it, it is the current request if the revisions agree, and while it is    *)
(* worked on nobody else can mark that CID applied.                         *)
HandOf(job) ==
    /\ job \in Work
    /\ job.cid \in Known /\ ~intent[job.cid].applied
    /\ job.rev <= intent[job.cid].rev
    /\ job.rev = intent[job.cid].rev => job.want = intent[job.cid].want

Hand ==
    \/ pinner = PinnerIdle
    \/ pinner.at = "asking" /\ HandOf(pinner.job)
    \/ /\ pinner.at = "answered" /\ HandOf(pinner.job)
       /\ pinner.ok => done[pinner.job.cid] = [rev |-> pinner.job.rev, want |-> pinner.job.want]

Books == Shelf /\ Hand /\ LastRequestStands /\ AppliedWasDone

-----------------------------------------------------------------------------
(* Small steps of the store *)

LEMMA WriteFields ==
    ASSUME NEW c, NEW is, Write(c, is)
    PROVE  /\ Known' = Known \cup {c}
           /\ intent'[c] = is
           /\ \A d \in Known : d # c => intent'[d] = intent[d]
  BY DEF Write, Known

(* An intent that is written pending is queued or not; one that is written  *)
(* applied is not.                                                          *)
LEMMA QueuedKeeps ==
    ASSUME Shelf, NEW c \in Cids, Queued(c)
    PROVE  due' \in Seq(Cids) /\ NoRepeat(due') /\ Waiting(due') = Waiting(due) \cup {c}
<1> DEFINE w == Without(due, c)
<1>1. w \in Seq(Cids) /\ Waiting(w) = Waiting(due) \ {c} /\ NoRepeat(w)
  BY WithoutOne DEF Shelf
<1>2. c \notin Waiting(w)
  BY <1>1
<1>3. due' = Append(w, c)
  BY DEF Queued
<1> HIDE DEF w
<1>4. /\ Append(w, c) \in Seq(Cids) /\ Waiting(Append(w, c)) = Waiting(w) \cup {c}
      /\ NoRepeat(Append(w, c))
  BY <1>1, <1>2, AppendOne
<1> QED
  BY <1>1, <1>3, <1>4

LEMMA UnqueuedKeeps ==
    ASSUME Shelf, NEW c, Unqueued(c)
    PROVE  due' \in Seq(Cids) /\ NoRepeat(due') /\ Waiting(due') = Waiting(due) \ {c}
  BY WithoutOne DEF Shelf, Unqueued

(* What a step may do to the books without touching them. *)
LEMMA SameKeeps ==
    ASSUME Books, UNCHANGED <<intent, due, asked, done>>, Hand'
    PROVE  Books'
  BY DEF Books, Shelf, Known, Pending, LastRequestStands, AppliedWasDone, Requested

LEMMA HandSame ==
    ASSUME Hand, UNCHANGED <<intent, done, pinner>>
    PROVE  Hand'
  BY DEF Hand, HandOf, Known

-----------------------------------------------------------------------------
(* Writing back an intent of the same revision: complete, requeue,          *)
(* verification_result and the passing of verify_next_at.                   *)

LEMMA RewriteKeeps ==
    ASSUME Books, NEW c \in Known, NEW is \in Record, Write(c, is),
           is.rev = intent[c].rev, is.want = intent[c].want,
           is.applied => intent[c].applied \/ done[c] = Requested(c),
           due' \in Seq(Cids), NoRepeat(due'),
           \A d \in Waiting(due') : d \in Waiting(due) \cup {c},
           is.applied => c \notin Waiting(due'),
           UNCHANGED <<asked, done>>
    PROVE  Shelf' /\ LastRequestStands' /\ AppliedWasDone'
<1>1. Known' = Known /\ intent'[c] = is /\ \A d \in Known : d # c => intent'[d] = intent[d]
  BY WriteFields
<1>2. Shelf /\ c \in Cids
  BY DEF Books, Shelf
<1>3. \A d \in Waiting(due') : d \in Pending'
  BY <1>1, <1>2 DEF Shelf, Pending
<1>4. Shelf'
  BY <1>1, <1>2, <1>3 DEF Shelf
<1>5. LastRequestStands'
  BY <1>1, <1>2 DEF Books, LastRequestStands, Requested
<1>6. AppliedWasDone'
  BY <1>1, <1>2 DEF Books, AppliedWasDone, Requested
<1> QED
  BY <1>4, <1>5, <1>6

LEMMA RewriteHand ==
    ASSUME Hand, NEW c \in Known, NEW is \in Record, Write(c, is),
           is.rev = intent[c].rev, is.want = intent[c].want,
           is.applied => intent[c].applied,
           UNCHANGED <<pinner, done>>
    PROVE  Hand'
<1>1. Known' = Known /\ intent'[c] = is /\ \A d \in Known : d # c => intent'[d] = intent[d]
  BY WriteFields
<1>2. ASSUME NEW job, HandOf(job) PROVE HandOf(job)'
  BY <1>1, <1>2 DEF HandOf
<1> QED
  BY <1>2 DEF Hand

-----------------------------------------------------------------------------
(* The steps *)

LEMMA DesireKeeps ==
    ASSUME Books, NEW c \in Cids, NEW want \in BOOLEAN, Desire(c, want)
    PROVE  Books'
<1> DEFINE is == [want |-> want, rev |-> Revision(c) + 1, applied |-> FALSE, verify |-> "fine"]
<1>1. /\ Write(c, is) /\ Queued(c) /\ pinner' = pinner /\ done' = done
      /\ asked' = [asked EXCEPT ![c] = [rev |-> Revision(c) + 1, want |-> want]]
  BY DEF Desire
<1>2. Revision(c) \in Nat /\ Shelf
  BY DEF Books, Shelf, Revision, Record
<1>3. /\ Known' = Known \cup {c} /\ intent'[c] = is
      /\ \A d \in Known : d # c => intent'[d] = intent[d]
  BY <1>1, WriteFields
<1>4. is \in Record /\ ~is.applied /\ is.rev = Revision(c) + 1 /\ is.want = want
  BY <1>2 DEF Record, Verdict
<1> HIDE DEF is
<1>5. due' \in Seq(Cids) /\ NoRepeat(due') /\ Waiting(due') = Waiting(due) \cup {c}
  BY <1>1, <1>2, QueuedKeeps
<1>6. Waiting(due') \subseteq Pending'
  BY <1>2, <1>3, <1>4, <1>5 DEF Shelf, Pending
<1>7. asked' \in [Cids -> History]
  BY <1>1, <1>2 DEF Shelf, History
<1>8. Shelf'
  BY <1>1, <1>2, <1>3, <1>4, <1>5, <1>6, <1>7 DEF Shelf
<1>9. LastRequestStands'
  BY <1>1, <1>2, <1>3, <1>4 DEF Books, Shelf, LastRequestStands, Requested
<1>10. AppliedWasDone'
  BY <1>1, <1>2, <1>3, <1>4 DEF Books, AppliedWasDone, Requested
<1>11. ASSUME NEW job, HandOf(job) PROVE HandOf(job)'
  BY <1>2, <1>3, <1>4, <1>11 DEF HandOf, Work, Shelf, Record, Revision
<1>12. Hand'
  BY <1>1, <1>11 DEF Books, Hand
<1> QED
  BY <1>8, <1>9, <1>10, <1>12 DEF Books

LEMMA ReadsKeeps == ASSUME Books, PinnerReads PROVE Books'
<1> DEFINE c == Head(due)
           job == [cid |-> c, rev |-> intent[c].rev, want |-> intent[c].want]
<1>1. c \in Waiting(due)
  <2>1. Len(due) \in Nat /\ DOMAIN due = 1 .. Len(due) /\ due # <<>>
    BY DEF Books, Shelf, PinnerReads
  <2>2. 1 \in DOMAIN due /\ c = due[1]
    BY <2>1 DEF Books, Shelf
  <2> QED
    BY <2>2 DEF Waiting
<1>2. c \in Known /\ ~intent[c].applied /\ c \in Cids /\ intent[c] \in Record
  BY <1>1 DEF Books, Shelf, Pending
<1>3. HandOf(job)
  BY <1>2 DEF HandOf, Work, Record
<1>4. pinner' = [at |-> "asking", job |-> job] /\ UNCHANGED <<intent, due, asked, done>>
  BY DEF PinnerReads
<1> HIDE DEF job
<1>5. Hand'
  BY <1>3, <1>4 DEF Hand, HandOf, Known
<1> QED
  BY <1>4, <1>5, SameKeeps

LEMMA LandsKeeps == ASSUME Books, OperationLands PROVE Books'
<1> SUFFICES ASSUME NEW job, job = pinner.job PROVE Books'
  OBVIOUS
<1>1. HandOf(job) /\ Shelf
  BY DEF Books, Hand, OperationLands, PinnerIdle
<1>2. /\ pinner' = [at |-> "answered", job |-> job, ok |-> TRUE]
      /\ done' = [done EXCEPT ![job.cid] = [rev |-> job.rev, want |-> job.want]]
      /\ UNCHANGED <<intent, due, asked>>
  BY DEF OperationLands
<1>3. job.cid \in Cids /\ [rev |-> job.rev, want |-> job.want] \in History
  BY <1>1 DEF HandOf, Work, History
<1>4. /\ done' \in [Cids -> History]
      /\ done'[job.cid] = [rev |-> job.rev, want |-> job.want]
      /\ \A d \in Cids : d # job.cid => done'[d] = done[d]
  BY <1>1, <1>2, <1>3 DEF Shelf
<1>5. Shelf'
  BY <1>1, <1>2, <1>4 DEF Shelf, Known, Pending
<1>6. LastRequestStands'
  BY <1>2 DEF Books, LastRequestStands, Known, Requested
<1>7. AppliedWasDone'
  BY <1>1, <1>2, <1>4 DEF Books, AppliedWasDone, Known, Requested, HandOf, Shelf
<1>8. HandOf(job)'
  BY <1>1, <1>2 DEF HandOf, Known
<1>9. pinner'.at = "answered" /\ pinner'.job = job
  BY <1>2
<1>10. Hand'
  BY <1>4, <1>8, <1>9 DEF Hand, HandOf
<1> QED
  BY <1>5, <1>6, <1>7, <1>10 DEF Books

LEMMA FailsKeeps == ASSUME Books, OperationFails PROVE Books'
<1>1. HandOf(pinner.job)
  BY DEF Books, Hand, OperationFails, PinnerIdle
<1>2. /\ pinner' = [at |-> "answered", job |-> pinner.job, ok |-> FALSE]
      /\ UNCHANGED <<intent, due, asked, done>>
  BY DEF OperationFails
<1>3. Hand'
  BY <1>1, <1>2 DEF Hand, HandOf, Known
<1> QED
  BY <1>2, <1>3, SameKeeps

LEMMA CompletesKeeps == ASSUME Books, PinnerCompletes PROVE Books'
<1> DEFINE c == pinner.job.cid
           is == IF pinner.ok THEN [intent[c] EXCEPT !.applied = TRUE, !.verify = "fine"]
                 ELSE [intent[c] EXCEPT !.applied = FALSE]
<1>1. /\ HandOf(pinner.job)
      /\ pinner.ok => done[c] = [rev |-> pinner.job.rev, want |-> pinner.job.want]
  BY DEF Books, Hand, PinnerCompletes, PinnerIdle
<1>2. Complete(c, pinner.job.rev, pinner.ok) /\ pinner' = PinnerIdle /\ UNCHANGED <<asked, done>>
  BY DEF PinnerCompletes
<1>3. Hand'
  BY <1>2 DEF Hand
<1>4. CASE Current(c, pinner.job.rev) /\ Write(c, is) /\ Unqueued(c)
  <2>1. c \in Known /\ intent[c] \in Record /\ pinner.job.rev = intent[c].rev /\ Shelf
    BY <1>1, <1>4 DEF HandOf, Books, Shelf, Current
  <2>2. is \in Record /\ is.rev = intent[c].rev /\ is.want = intent[c].want
        /\ (is.applied => pinner.ok)
    BY <2>1 DEF Record, Verdict
  <2>3. pinner.ok => done[c] = Requested(c)
    BY <1>1, <2>1 DEF HandOf, Requested
  <2>4. due' \in Seq(Cids) /\ NoRepeat(due') /\ Waiting(due') = Waiting(due) \ {c}
    BY <1>4, <2>1, UnqueuedKeeps
  <2> HIDE DEF is
  <2>5. Shelf' /\ LastRequestStands' /\ AppliedWasDone'
    BY <1>2, <1>4, <2>1, <2>2, <2>3, <2>4, RewriteKeeps
  <2> QED
    BY <1>3, <2>5 DEF Books
<1>5. CASE UNCHANGED <<intent, due>>
  BY <1>2, <1>3, <1>5, SameKeeps
<1> QED
  BY <1>2, <1>4, <1>5 DEF Complete

LEMMA RequeueKeeps ==
    ASSUME Books, NEW row, Requeue(row), UNCHANGED <<pinner, asked, done>>
    PROVE  Books'
<1> DEFINE c == row.cid
           is == [intent[c] EXCEPT !.applied = FALSE]
<1>1. CASE Current(c, row.is.rev) /\ intent[c].applied /\ Write(c, is) /\ Queued(c)
  <2>1. c \in Known /\ c \in Cids /\ intent[c] \in Record /\ Shelf
    BY <1>1 DEF Current, Books, Shelf
  <2>2. is \in Record /\ is.rev = intent[c].rev /\ is.want = intent[c].want /\ ~is.applied
    BY <2>1 DEF Record
  <2>3. due' \in Seq(Cids) /\ NoRepeat(due') /\ Waiting(due') = Waiting(due) \cup {c}
    BY <1>1, <2>1, QueuedKeeps
  <2> HIDE DEF is
  <2>4. Shelf' /\ LastRequestStands' /\ AppliedWasDone'
    BY <1>1, <2>1, <2>2, <2>3, RewriteKeeps
  <2>5. Hand'
    BY <1>1, <2>1, <2>2, RewriteHand DEF Books
  <2> QED
    BY <2>4, <2>5 DEF Books
<1>2. CASE UNCHANGED <<intent, due>>
  BY <1>2, SameKeeps, HandSame DEF Books
<1> QED
  BY <1>1, <1>2 DEF Requeue

(* A verification verdict, and the passing of its delay. *)
LEMMA VerdictKeeps ==
    ASSUME Books, NEW c \in Known, NEW verify \in Verdict,
           Write(c, [intent[c] EXCEPT !.verify = verify]),
           UNCHANGED <<due, pinner, asked, done>>
    PROVE  Books'
<1> DEFINE is == [intent[c] EXCEPT !.verify = verify]
<1>1. intent[c] \in Record /\ Shelf
  BY DEF Books, Shelf
<1>2. /\ is \in Record /\ is.rev = intent[c].rev /\ is.want = intent[c].want
      /\ is.applied = intent[c].applied
  BY <1>1 DEF Record
<1>3. due' \in Seq(Cids) /\ NoRepeat(due') /\ Waiting(due') = Waiting(due)
      /\ (is.applied => c \notin Waiting(due'))
  BY <1>1, <1>2 DEF Shelf, Pending
<1> HIDE DEF is
<1>4. Write(c, is)
  BY DEF is
<1>5. Shelf' /\ LastRequestStands' /\ AppliedWasDone'
  BY <1>2, <1>3, <1>4, RewriteKeeps
<1>6. Hand'
  BY <1>2, <1>4, RewriteHand DEF Books
<1> QED
  BY <1>5, <1>6 DEF Books

LEMMA RecordedKeeps == ASSUME Books, RowRecorded PROVE Books'
<1>1. UNCHANGED <<pinner, asked, done>>
  BY DEF RowRecorded
<1>2. ASSUME NEW verify \in Verdict, Verified(First, verify) PROVE Books'
  <2>1. CASE /\ Current(First.cid, First.is.rev)
             /\ Write(First.cid, [intent[First.cid] EXCEPT !.verify = verify])
    BY <1>1, <1>2, <2>1, VerdictKeeps DEF Verified, Current
  <2>2. CASE UNCHANGED intent
    BY <1>1, <1>2, <2>2, SameKeeps, HandSame DEF Verified, Books
  <2> QED
    BY <1>2, <2>1, <2>2 DEF Verified
<1>3. CASE Requeue(First)
  BY <1>1, <1>3, RequeueKeeps
<1>4. CASE UNCHANGED <<intent, due>>
  BY <1>1, <1>4, SameKeeps, HandSame DEF Books
<1> QED
  BY <1>2, <1>3, <1>4 DEF RowRecorded, Verdict

LEMMA RetryKeeps == ASSUME Books, NEW c \in Cids, RetryDue(c) PROVE Books'
<1>1. /\ c \in Pending /\ c \notin Waiting(due) /\ due' = Append(due, c) /\ Shelf
      /\ UNCHANGED <<intent, pinner, asked, done>>
  BY DEF RetryDue, Books
<1>2. due' \in Seq(Cids) /\ NoRepeat(due') /\ Waiting(due') = Waiting(due) \cup {c}
  BY <1>1, AppendOne DEF Shelf
<1>3. Shelf'
  BY <1>1, <1>2 DEF Shelf, Known, Pending
<1>4. Hand'
  BY <1>1, HandSame DEF Books
<1> QED
  BY <1>1, <1>3, <1>4 DEF Books, LastRequestStands, AppliedWasDone, Requested, Known

LEMMA VerifyKeeps == ASSUME Books, NEW c \in Cids, VerifyDue(c) PROVE Books'
<1>1. c \in Known /\ UNCHANGED <<due, pinner, asked, done>>
      /\ intent' = [intent EXCEPT ![c].verify = "overdue"]
  BY DEF VerifyDue
<1>2. Write(c, [intent[c] EXCEPT !.verify = "overdue"])
  BY <1>1 DEF Write, Known
<1> QED
  BY <1>1, <1>2, VerdictKeeps DEF Verdict

LEMMA OthersKeep ==
    ASSUME Books, UNCHANGED <<intent, due, asked, done>>, pinner' \in {pinner, PinnerIdle}
    PROVE  Books'
<1>1. Hand'
  BY HandSame DEF Books, Hand
<1> QED
  BY <1>1, SameKeeps

LEMMA StepKeeps == ASSUME Books, [Next]_vars PROVE Books'
<1>1. CASE PinnerStep
  BY <1>1, ReadsKeeps, CompletesKeeps DEF PinnerStep
<1>2. CASE NodeAnswers
  BY <1>2, LandsKeeps, FailsKeeps DEF NodeAnswers
<1>3. CASE ReconcilerStep
  <2>1. CASE RowRecorded
    BY <2>1, RecordedKeeps
  <2>2. CASE ReconcilerReads \/ RowSkipped \/ RowChecked \/ ReconcilerEnds
    BY <2>2, OthersKeep DEF ReconcilerReads, RowSkipped, RowChecked, ReconcilerEnds
  <2> QED
    BY <1>3, <2>1, <2>2 DEF ReconcilerStep
<1>4. CASE ReconcilerStops \/ PinnerPassDies \/ ReconcilerPassDies \/ ServiceRestarts
  BY <1>4, OthersKeep DEF ReconcilerStops, PinnerPassDies, ReconcilerPassDies, ServiceRestarts
<1>5. ASSUME NEW c \in Cids, NEW want \in BOOLEAN, Desire(c, want) \/ LateLands(c, want)
      PROVE  Books'
  BY <1>5, DesireKeeps, OthersKeep DEF LateLands
<1>6. ASSUME NEW c \in Cids, Interference(c) \/ RetryDue(c) \/ VerifyDue(c)
      PROVE  Books'
  BY <1>6, RetryKeeps, VerifyKeeps, OthersKeep DEF Interference
<1>7. CASE UNCHANGED vars
  BY <1>7, OthersKeep DEF vars
<1> QED
  BY <1>1, <1>2, <1>3, <1>4, <1>5, <1>6, <1>7 DEF Next

LEMMA InitBooks == Init => Books
<1> SUFFICES ASSUME Init PROVE Books
  OBVIOUS
<1>1. /\ Known = {} /\ due = <<>> /\ pinner = PinnerIdle
      /\ asked = [c \in Cids |-> NoRequest] /\ done = asked
  BY DEF Init, Known
<1>2. NoRequest \in History
  BY DEF NoRequest, History
<1>3. Shelf
  BY <1>1, <1>2 DEF Shelf, NoRepeat, Waiting, Pending
<1> QED
  BY <1>1, <1>3 DEF Books, Hand, LastRequestStands, AppliedWasDone

-----------------------------------------------------------------------------
(* The store of intents holds what was last asked for, whatever passes      *)
(* bring back late (the revision test of complete, requeue and              *)
(* verification_result).                                                    *)
THEOREM RequestsStand == Spec => []LastRequestStands
<1>1. Books /\ [Next]_vars => Books'
  BY StepKeeps
<1>2. Books => LastRequestStands
  BY DEF Books
<1> QED
  BY InitBooks, <1>1, <1>2, PTL DEF Spec

(* An intent is applied only by the success of an operation for its own     *)
(* revision (complete/3).                                                   *)
THEOREM AppliedIsDone == Spec => []AppliedWasDone
<1>1. Books /\ [Next]_vars => Books'
  BY StepKeeps
<1>2. Books => AppliedWasDone
  BY DEF Books
<1> QED
  BY InitBooks, <1>1, <1>2, PTL DEF Spec

(* Both at once: what the store promises about every intent.                *)
THEOREM IntentsAlwaysStand == Spec => []IntentsStand
  BY RequestsStand, AppliedIsDone, PTL DEF IntentsStand

-----------------------------------------------------------------------------
(***************************************************************************)
(* Type correctness.  On top of the books: the table has room, a page and   *)
(* its rows are CIDs in order, and no more operations are under way than    *)
(* there were faults.  First and NextCursor choose the least row and the    *)
(* greatest CID of a page: that there is one is LeastNatural, from the      *)
(* well-foundedness of < on Nat.                                            *)
(***************************************************************************)

Room == Cardinality(Known) <= MaxIntents /\ \A c \in Known : intent[c] \in Intent

Underway ==
    /\ node \in [Cids -> BOOLEAN] /\ faults \in 0 .. MaxFaults
    /\ late \in [Cids -> [BOOLEAN -> Nat]]
    /\ \A c \in Cids, want \in BOOLEAN : late[c][want] <= faults

Pages ==
    /\ reconciler \in Reconciler /\ cursor \in 0 .. N
    /\ reconciler.at = "answered" => reconciler.rows # {}

Flow == Books /\ Room /\ Underway /\ pinner \in Pinner /\ Pages

LEMMA LeastNatural ==
    ASSUME NEW T \in SUBSET Nat, T # {}
    PROVE  \E n \in T : \A m \in T : n <= m
<1> DEFINE R == OpToRel(<, Nat)
<1>1. R = {ss \in Nat \X Nat : ss[1] < ss[2]}
  BY Zenon DEF OpToRel
<1>2. IsWellFoundedOn(R, Nat)
  BY NatLessThanWellFounded
<1> HIDE DEF R
<1>3. PICK n \in T : \A m \in T : ~(<<m, n>> \in R)
  BY <1>2, WFMin
<1>4. \A m \in T : ~(m < n)
  BY <1>1, <1>3
<1> QED
  BY <1>4

LEMMA GreatestCid ==
    ASSUME NEW T \in SUBSET Cids, T # {}
    PROVE  \E n \in T : \A m \in T : m <= n
<1> DEFINE D == {N - n : n \in T}
<1>1. N \in Nat /\ \A n \in T : n \in Nat /\ N - n \in Nat
  BY PinsAssumption DEF Cids
<1>2. D \in SUBSET Nat /\ D # {}
  BY <1>1
<1>3. PICK d \in D : \A m \in D : d <= m
  BY <1>2, LeastNatural
<1>4. PICK n \in T : d = N - n
  BY <1>3
<1>5. \A m \in T : N - n <= N - m
  BY <1>3, <1>4
<1> QED
  BY <1>1, <1>5

LEMMA FirstIsRow ==
    ASSUME reconciler.rows \in SUBSET Row, reconciler.rows # {}
    PROVE  First \in reconciler.rows /\ First.cid \in 0 .. N
<1> DEFINE T == {row.cid : row \in reconciler.rows}
<1>1. T \in SUBSET Nat /\ T # {} /\ \A row \in reconciler.rows : row.cid \in 1 .. N
  BY PinsAssumption DEF Row, Cids
<1>2. PICK n \in T : \A m \in T : n <= m
  BY <1>1, LeastNatural
<1>3. \E row \in reconciler.rows : \A r \in reconciler.rows : row.cid <= r.cid
  BY <1>2
<1>4. First \in reconciler.rows
  BY <1>3 DEF First
<1> QED
  BY <1>1, <1>4, PinsAssumption

LEMMA PageOfCids ==
    ASSUME Known \subseteq Cids
    PROVE  Page \subseteq Known /\ NextCursor \in 0 .. N
<1>0. N \in Nat /\ 0 \in 0 .. N /\ \A c \in Cids : c \in Nat /\ c \in 0 .. N
  <2>1. N \in Nat
    BY PinsAssumption
  <2> QED
    BY <2>1 DEF Cids
<1>1. Page \subseteq Known /\ Page \in SUBSET Cids /\ After(cursor) \subseteq Known
  BY DEF Page, After
<1>2. CASE Page = After(cursor)
  <2>1. NextCursor = 0
    BY <1>2, Zenon DEF NextCursor
  <2> QED
    BY <1>0, <1>1, <2>1
<1>3. CASE Page # After(cursor)
  <2>1. After(cursor) # {} /\ After(cursor) \in SUBSET Nat
    <3>1. After(cursor) \in SUBSET Nat
      BY <1>0, <1>1
    <3>2. After(cursor) = {} => Page = {}
      BY DEF Page
    <3> QED
      BY <1>3, <3>1, <3>2
  <2>2. PICK n \in After(cursor) : \A m \in After(cursor) : n <= m
    BY <2>1, LeastNatural
  <2>3. {d \in After(cursor) : d < n} = {}
    BY <2>1, <2>2
  <2>4. Cardinality({d \in After(cursor) : d < n}) < Batch
    BY <2>3, FS_EmptySet, PinsAssumption
  <2>5. n \in Page
    BY <2>4 DEF Page
  <2>6. \E c \in Page : \A d \in Page : d <= c
    BY <1>1, <2>5, GreatestCid
  <2>7. NextCursor \in Page
    BY <1>3, <2>6 DEF NextCursor
  <2> QED
    BY <1>0, <1>1, <2>7
<1> QED
  BY <1>1, <1>2, <1>3

(* One intent is written back with its own revision, or none is. *)
LEMMA SameRoom ==
    ASSUME Room, UNCHANGED intent
    PROVE  Room'
  BY DEF Room, Known

LEMMA RewriteRoom ==
    ASSUME Room, NEW c \in Known, NEW is \in Intent, Write(c, is)
    PROVE  Room'
<1>1. Known' = Known /\ intent'[c] = is /\ \A d \in Known : d # c => intent'[d] = intent[d]
  BY WriteFields
<1> QED
  BY <1>1 DEF Room

LEMMA StoreRoom ==
    ASSUME Books, Room,
           \/ \E c \in Known, is \in Intent : Write(c, is)
           \/ UNCHANGED intent
    PROVE  Room'
  BY SameRoom, RewriteRoom

LEMMA DesireRoom ==
    ASSUME Books, Room, NEW c \in Cids, NEW want \in BOOLEAN, Desire(c, want)
    PROVE  Room'
<1> DEFINE is == [want |-> want, rev |-> Revision(c) + 1, applied |-> FALSE, verify |-> "fine"]
<1>1. Write(c, is) /\ (c \in Known \/ Cardinality(Known) < MaxIntents)
  BY DEF Desire
<1>2. Revision(c) \in Nat
  BY DEF Room, Revision, Intent, Revisions
<1>3. is \in Intent
  BY <1>2 DEF Intent, Revisions
<1> HIDE DEF is
<1>4. /\ Known' = Known \cup {c} /\ intent'[c] = is
      /\ \A d \in Known : d # c => intent'[d] = intent[d]
  BY <1>1, WriteFields
<1>5. IsFiniteSet(Known)
  <2>1. IsFiniteSet(Cids)
    BY FS_Interval, PinsAssumption DEF Cids
  <2> QED
    BY <2>1, FS_Subset DEF Books, Shelf
<1>6. Cardinality(Known') <= MaxIntents
  <2>1. CASE c \in Known
    BY <1>4, <2>1 DEF Room
  <2>2. CASE c \notin Known
    <3>1. Cardinality(Known) < MaxIntents
      BY <1>1, <2>2
    <3>2. Cardinality(Known \cup {c}) = Cardinality(Known) + 1 /\ Cardinality(Known) \in Nat
      BY <1>5, <2>2, FS_AddElement, FS_CardinalityType
    <3> QED
      BY <1>4, <3>1, <3>2, PinsAssumption
  <2> QED
    BY <2>1, <2>2
<1> QED
  BY <1>3, <1>4, <1>6 DEF Room

(* What complete, requeue and verification_result write is an intent. *)
LEMMA CompleteRoom ==
    ASSUME Books, Room, NEW c, NEW rev, NEW ok, Complete(c, rev, ok)
    PROVE  Room'
<1> DEFINE is == IF ok THEN [intent[c] EXCEPT !.applied = TRUE, !.verify = "fine"]
                 ELSE [intent[c] EXCEPT !.applied = FALSE]
<1>1. CASE Current(c, rev) /\ Write(c, is)
  <2>1. c \in Known /\ intent[c] \in Intent
    BY <1>1 DEF Current, Room
  <2>2. is \in Intent
    BY <2>1 DEF Intent
  <2> HIDE DEF is
  <2> QED
    BY <1>1, <2>1, <2>2, StoreRoom
<1>2. CASE UNCHANGED intent
  BY <1>2, StoreRoom
<1> QED
  BY <1>1, <1>2 DEF Complete

LEMMA RequeueRoom ==
    ASSUME Books, Room, NEW row, Requeue(row)
    PROVE  Room'
<1> DEFINE c == row.cid
           is == [intent[c] EXCEPT !.applied = FALSE]
<1>1. CASE Current(c, row.is.rev) /\ Write(c, is)
  <2>1. c \in Known /\ intent[c] \in Intent
    BY <1>1 DEF Current, Room
  <2>2. is \in Intent
    BY <2>1 DEF Intent
  <2> HIDE DEF is, c
  <2> QED
    BY <1>1, <2>1, <2>2, StoreRoom
<1>2. CASE UNCHANGED intent
  BY <1>2, StoreRoom
<1> QED
  BY <1>1, <1>2 DEF Requeue

LEMMA VerifiedRoom ==
    ASSUME Books, Room, NEW row, NEW verify \in Verdict, Verified(row, verify)
    PROVE  Room'
<1> DEFINE c == row.cid
           is == [intent[c] EXCEPT !.verify = verify]
<1>1. CASE Current(c, row.is.rev) /\ Write(c, is)
  <2>1. c \in Known /\ intent[c] \in Intent
    BY <1>1 DEF Current, Room
  <2>2. is \in Intent
    BY <2>1 DEF Intent, Verdict
  <2> HIDE DEF is, c
  <2> QED
    BY <1>1, <2>1, <2>2, StoreRoom
<1>2. CASE UNCHANGED intent
  BY <1>2, StoreRoom
<1> QED
  BY <1>1, <1>2 DEF Verified

LEMMA RecordedRoom == ASSUME Books, Room, RowRecorded PROVE Room'
<1>1. CASE UNCHANGED intent
  BY <1>1, StoreRoom
<1>2. CASE Verified(First, "fine") \/ Verified(First, "deferred")
  BY <1>2, VerifiedRoom DEF Verdict
<1>3. CASE Requeue(First)
  BY <1>3, RequeueRoom
<1> QED
  BY <1>1, <1>2, <1>3 DEF RowRecorded

LEMMA VerifyRoom == ASSUME Books, Room, NEW c \in Cids, VerifyDue(c) PROVE Room'
<1> DEFINE is == [intent[c] EXCEPT !.verify = "overdue"]
<1>1. c \in Known /\ intent' = [intent EXCEPT ![c].verify = "overdue"]
  BY DEF VerifyDue
<1>2. Write(c, is)
  BY <1>1 DEF Write, Known
<1>3. is \in Intent
  BY <1>1 DEF Room, Intent
<1> HIDE DEF is
<1> QED
  BY <1>1, <1>2, <1>3, StoreRoom

LEMMA RoomKeeps == ASSUME Books, Room, Next PROVE Room'
<1>1. CASE PinnerStep
  BY <1>1, CompleteRoom, SameRoom DEF PinnerStep, PinnerReads, PinnerCompletes
<1>2. CASE ReconcilerStep
  BY <1>2, RecordedRoom, SameRoom
     DEF ReconcilerStep, ReconcilerReads, RowSkipped, RowChecked, ReconcilerEnds
<1>3. CASE NodeAnswers \/ ReconcilerStops \/ PinnerPassDies \/ ReconcilerPassDies \/ ServiceRestarts
  BY <1>3, SameRoom DEF NodeAnswers, OperationLands, OperationFails, ReconcilerStops,
     PinnerPassDies, ReconcilerPassDies, ServiceRestarts
<1>4. ASSUME NEW c \in Cids, NEW want \in BOOLEAN, Desire(c, want) \/ LateLands(c, want)
      PROVE  Room'
  BY <1>4, DesireRoom, SameRoom DEF LateLands
<1>5. ASSUME NEW c \in Cids, Interference(c) \/ RetryDue(c) \/ VerifyDue(c)
      PROVE  Room'
  BY <1>5, VerifyRoom, SameRoom DEF Interference, RetryDue
<1> QED
  BY <1>1, <1>2, <1>3, <1>4, <1>5 DEF Next

LEMMA CounterType ==
    ASSUME NEW S, NEW f \in [S -> Nat], NEW s, NEW n \in Nat
    PROVE  [f EXCEPT ![s] = n] \in [S -> Nat]
  OBVIOUS

(* Operations that nobody waits for: each was given up on by a fault. *)
LEMMA AbandonKeeps ==
    ASSUME Underway, Fault, Abandon, pinner.job.cid \in Cids, pinner.job.want \in BOOLEAN,
           node' = node
    PROVE  Underway'
<1>1. faults' = faults + 1 /\ faults' \in 0 .. MaxFaults /\ faults \in Nat
  BY PinsAssumption DEF Underway, Fault
<1> DEFINE x == pinner.job.cid
           w == pinner.job.want
<1>2. late' = late \/ late' = [late EXCEPT ![x][w] = late[x][w] + 1]
  BY DEF Abandon, Underway
<1>3. late[x] \in [BOOLEAN -> Nat] /\ late[x][w] \in Nat
  BY DEF Underway
<1> HIDE DEF x, w
<1>4. CASE late' = [late EXCEPT ![x][w] = late[x][w] + 1]
  <2>1. late' = [late EXCEPT ![x] = [late[x] EXCEPT ![w] = late[x][w] + 1]]
    BY <1>4 DEF Underway
  <2>2. [late[x] EXCEPT ![w] = late[x][w] + 1] \in [BOOLEAN -> Nat]
    <3>1. late[x][w] + 1 \in Nat
      BY <1>3
    <3> QED
      BY <1>3, <3>1, CounterType
  <2>3. late' \in [Cids -> [BOOLEAN -> Nat]]
    BY <2>1, <2>2 DEF Underway
  <2>4. ASSUME NEW c \in Cids, NEW want \in BOOLEAN PROVE late'[c][want] <= faults'
    <3>1. late[c][want] \in Nat /\ late[c][want] <= faults
      BY DEF Underway
    <3>2. late'[c][want] \in {late[c][want], late[c][want] + 1}
      <4>1. CASE c = x
        <5>1. late'[c] = [late[x] EXCEPT ![w] = late[x][w] + 1]
          BY <2>1, <4>1 DEF Underway
        <5> QED
          BY <5>1, <4>1, <1>3
      <4>2. CASE c # x
        BY <2>1, <4>2 DEF Underway
      <4> QED
        BY <4>1, <4>2
    <3> QED
      BY <1>1, <3>1, <3>2
  <2> QED
    BY <1>1, <2>3, <2>4 DEF Underway
<1>5. CASE late' = late
  <2>1. ASSUME NEW c \in Cids, NEW want \in BOOLEAN PROVE late[c][want] <= faults'
    <3>1. late[c][want] \in Nat /\ late[c][want] <= faults
      BY DEF Underway
    <3> QED
      BY <1>1, <3>1
  <2> QED
    BY <1>1, <1>5, <2>1 DEF Underway
<1> QED
  BY <1>2, <1>4, <1>5

LEMMA HandTyped ==
    ASSUME Books, pinner.at # "idle"
    PROVE  pinner.job.cid \in Cids /\ pinner.job.want \in BOOLEAN
  BY DEF Books, Hand, HandOf, Work, PinnerIdle

LEMMA FaultKeeps ==
    ASSUME Underway, Fault, node' \in [Cids -> BOOLEAN], late' = late
    PROVE  Underway'
<1>1. faults' = faults + 1 /\ faults' \in 0 .. MaxFaults /\ faults \in Nat
  BY PinsAssumption DEF Underway, Fault
<1>2. ASSUME NEW c \in Cids, NEW want \in BOOLEAN PROVE late[c][want] <= faults'
  <2>1. late[c][want] \in Nat /\ late[c][want] <= faults
    BY DEF Underway
  <2> QED
    BY <1>1, <2>1
<1> QED
  BY <1>1, <1>2 DEF Underway

LEMMA NodeKeeps ==
    ASSUME Underway, node' \in [Cids -> BOOLEAN], UNCHANGED <<late, faults>>
    PROVE  Underway'
  BY DEF Underway

LEMMA LateLandsKeeps ==
    ASSUME Underway, NEW x \in Cids, NEW w \in BOOLEAN, LateLands(x, w)
    PROVE  Underway'
<1>1. /\ late[x][w] > 0 /\ late' = [late EXCEPT ![x][w] = late[x][w] - 1]
      /\ node' = [node EXCEPT ![x] = w] /\ faults' = faults
  BY DEF LateLands, Underway
<1>2. late[x] \in [BOOLEAN -> Nat] /\ late[x][w] \in Nat /\ late[x][w] - 1 \in Nat
  BY <1>1 DEF Underway
<1>3. late' = [late EXCEPT ![x] = [late[x] EXCEPT ![w] = late[x][w] - 1]]
  BY <1>1 DEF Underway
<1>4. [late[x] EXCEPT ![w] = late[x][w] - 1] \in [BOOLEAN -> Nat]
  BY <1>2, CounterType
<1>5. late' \in [Cids -> [BOOLEAN -> Nat]]
  BY <1>3, <1>4 DEF Underway
<1>6. ASSUME NEW c \in Cids, NEW want \in BOOLEAN PROVE late'[c][want] <= faults'
  <2>1. late[c][want] \in Nat /\ late[c][want] <= faults /\ faults \in Nat
    BY PinsAssumption DEF Underway
  <2>2. late'[c][want] \in {late[c][want], late[c][want] - 1}
    <3>1. CASE c = x
      <4>1. late'[c] = [late[x] EXCEPT ![w] = late[x][w] - 1]
        BY <1>3, <3>1 DEF Underway
      <4> QED
        BY <4>1, <3>1, <1>2
    <3>2. CASE c # x
      BY <1>3, <3>2 DEF Underway
    <3> QED
      BY <3>1, <3>2
  <2> QED
    BY <1>1, <2>1, <2>2
<1>7. node' \in [Cids -> BOOLEAN]
  BY <1>1 DEF Underway
<1> QED
  BY <1>1, <1>5, <1>6, <1>7 DEF Underway

LEMMA UnderwayKeeps == ASSUME Books, Underway, Next PROVE Underway'
<1>0. node \in [Cids -> BOOLEAN]
  BY DEF Underway
<1>1. CASE OperationLands
  <2>1. pinner.job.cid \in Cids /\ pinner.job.want \in BOOLEAN
    BY <1>1, HandTyped DEF OperationLands
  <2> QED
    BY <1>0, <1>1, <2>1, NodeKeeps DEF OperationLands
<1>2. CASE OperationFails
  <2>1. pinner.job.cid \in Cids /\ pinner.job.want \in BOOLEAN
    BY <1>2, HandTyped DEF OperationFails
  <2> QED
    BY <1>0, <1>2, <2>1, AbandonKeeps, NodeKeeps DEF OperationFails
<1>3. CASE PinnerPassDies \/ ServiceRestarts
  <2>1. Fault /\ node' = node
    BY <1>3 DEF PinnerPassDies, ServiceRestarts
  <2>2. CASE pinner.at = "asking" /\ Abandon
    BY <1>0, <2>1, <2>2, HandTyped, AbandonKeeps
  <2>3. CASE late' = late
    BY <1>0, <2>1, <2>3, FaultKeeps
  <2> QED
    BY <1>3, <2>2, <2>3 DEF PinnerPassDies, ServiceRestarts
<1>4. CASE PinnerStep
  BY <1>0, <1>4, NodeKeeps DEF PinnerStep, PinnerReads, PinnerCompletes
<1>5. CASE ReconcilerStep
  BY <1>0, <1>5, NodeKeeps, FaultKeeps
     DEF ReconcilerStep, ReconcilerReads, RowSkipped, RowChecked, RowRecorded, ReconcilerEnds
<1>6. CASE ReconcilerStops \/ ReconcilerPassDies
  BY <1>0, <1>6, FaultKeeps DEF ReconcilerStops, ReconcilerPassDies
<1>7. ASSUME NEW c \in Cids, NEW want \in BOOLEAN, Desire(c, want) \/ LateLands(c, want)
      PROVE  Underway'
  BY <1>0, <1>7, NodeKeeps, LateLandsKeeps DEF Desire
<1>8. ASSUME NEW c \in Cids, Interference(c) \/ RetryDue(c) \/ VerifyDue(c)
      PROVE  Underway'
  <2>1. CASE Interference(c)
    <3>1. node' \in [Cids -> BOOLEAN]
      BY <1>0, <2>1 DEF Interference
    <3> QED
      BY <2>1, <3>1, FaultKeeps DEF Interference
  <2> QED
    BY <1>0, <1>8, <2>1, NodeKeeps DEF RetryDue, VerifyDue
<1> QED
  BY <1>1, <1>2, <1>3, <1>4, <1>5, <1>6, <1>7, <1>8 DEF Next, NodeAnswers

(* The pinner's hands. *)
LEMMA PinnerKeeps == ASSUME Books, Room, pinner \in Pinner, Next PROVE pinner' \in Pinner
<1>1. CASE PinnerReads
  <2> DEFINE c == Head(due)
             job == [cid |-> c, rev |-> intent[c].rev, want |-> intent[c].want]
  <2>1. c \in Waiting(due)
    BY <1>1, TailOne DEF Books, Shelf, PinnerReads
  <2>2. c \in Known /\ c \in Cids /\ intent[c] \in Intent
    BY <2>1 DEF Books, Shelf, Pending, Room
  <2>3. job \in Job
    BY <2>2 DEF Job, Intent
  <2>4. pinner' = [at |-> "asking", job |-> job]
    BY <1>1 DEF PinnerReads
  <2> HIDE DEF job
  <2> QED
    BY <2>3, <2>4 DEF Pinner
<1>2. CASE OperationLands \/ OperationFails
  <2>1. pinner.at = "asking" /\ pinner.job \in Job
    BY <1>2 DEF OperationLands, OperationFails, Pinner, PinnerIdle
  <2>2. \E ok \in BOOLEAN : pinner' = [at |-> "answered", job |-> pinner.job, ok |-> ok]
    BY <1>2 DEF OperationLands, OperationFails
  <2> QED
    BY <2>1, <2>2 DEF Pinner
<1>3. CASE PinnerCompletes \/ PinnerPassDies \/ ServiceRestarts
  BY <1>3 DEF PinnerCompletes, PinnerPassDies, ServiceRestarts, Pinner
<1>4. CASE ReconcilerStep \/ ReconcilerStops \/ ReconcilerPassDies
  BY <1>4 DEF ReconcilerStep, ReconcilerReads, RowSkipped, RowChecked, RowRecorded,
     ReconcilerEnds, ReconcilerStops, ReconcilerPassDies
<1>5. ASSUME NEW c, NEW want, Desire(c, want) \/ LateLands(c, want) PROVE pinner' \in Pinner
  BY <1>5 DEF Desire, LateLands
<1>6. ASSUME NEW c, Interference(c) \/ RetryDue(c) \/ VerifyDue(c) PROVE pinner' \in Pinner
  BY <1>6 DEF Interference, RetryDue, VerifyDue
<1> QED
  BY <1>1, <1>2, <1>3, <1>4, <1>5, <1>6 DEF Next, PinnerStep, NodeAnswers

(* The reconciler's page. *)
LEMMA CheckingTyped ==
    ASSUME NEW rows \in SUBSET Row, NEW last \in 0 .. N, NEW next \in 0 .. N,
           reconciler' = [at |-> "checking", rows |-> rows, last |-> last, next |-> next],
           cursor' \in 0 .. N
    PROVE  Pages'
  BY DEF Pages, Reconciler

LEMMA ReconcilerFields ==
    ASSUME Pages, reconciler.at # "idle"
    PROVE  /\ reconciler.rows \in SUBSET Row
           /\ reconciler.last \in 0 .. N /\ reconciler.next \in 0 .. N
           /\ cursor \in 0 .. N
  BY DEF Pages, Reconciler, ReconcilerIdle

LEMMA RowDoneKeeps ==
    ASSUME Pages, reconciler.at # "idle", reconciler.rows # {}, RowDone, cursor' = cursor
    PROVE  Pages'
<1>1. /\ reconciler.rows \in SUBSET Row /\ reconciler.next \in 0 .. N /\ cursor' \in 0 .. N
  BY ReconcilerFields
<1>2. First.cid \in 0 .. N
  BY <1>1, FirstIsRow
<1>3. reconciler' = [at |-> "checking", rows |-> reconciler.rows \ {First},
                     last |-> First.cid, next |-> reconciler.next]
  BY DEF RowDone
<1> QED
  BY <1>1, <1>2, <1>3, CheckingTyped

LEMMA PageEnds ==
    ASSUME reconciler' = ReconcilerIdle, cursor' \in 0 .. N
    PROVE  Pages'
  BY DEF Pages, Reconciler, ReconcilerIdle

LEMMA PagesKeeps == ASSUME Books, Room, Pages, Next PROVE Pages'
<1>0. cursor \in 0 .. N /\ 0 \in 0 .. N
  <2>1. N \in Nat
    BY PinsAssumption
  <2> QED
    BY <2>1 DEF Pages
<1>1. CASE ReconcilerReads
  <2> DEFINE rows == {[cid |-> c, is |-> intent[c]] : c \in Page}
  <2>1. Page \subseteq Known /\ NextCursor \in 0 .. N /\ Known \subseteq Cids
    BY PageOfCids DEF Books, Shelf
  <2>2. \A c \in Page : [cid |-> c, is |-> intent[c]] \in Row
    BY <2>1 DEF Room, Row
  <2>3. rows \in SUBSET Row
    BY <2>2
  <2>4. reconciler' = [at |-> "checking", rows |-> rows, last |-> cursor, next |-> NextCursor]
    BY <1>1 DEF ReconcilerReads
  <2>5. cursor' = cursor
    BY <1>1 DEF ReconcilerReads
  <2> HIDE DEF rows
  <2> QED
    BY <1>0, <2>1, <2>3, <2>4, <2>5, CheckingTyped
<1>2. CASE RowSkipped
  BY <1>2, RowDoneKeeps DEF RowSkipped
<1>3. CASE RowRecorded
  <2>1. reconciler.rows # {}
    BY <1>3 DEF Pages, RowRecorded
  <2> QED
    BY <1>3, <2>1, RowDoneKeeps DEF RowRecorded
<1>4. CASE RowChecked
  <2>1. PICK saw \in {"agrees", "differs", "error"} :
          reconciler' = [at |-> "answered", rows |-> reconciler.rows, saw |-> saw,
                         last |-> reconciler.last, next |-> reconciler.next]
    BY <1>4 DEF RowChecked
  <2>2. reconciler.at # "idle" /\ reconciler.rows # {} /\ cursor' = cursor
    BY <1>4 DEF RowChecked
  <2>3. /\ reconciler.rows \in SUBSET Row
        /\ reconciler.last \in 0 .. N /\ reconciler.next \in 0 .. N
    BY <2>2, ReconcilerFields
  <2> QED
    BY <1>0, <2>1, <2>2, <2>3 DEF Pages, Reconciler
<1>5. CASE ReconcilerEnds \/ ReconcilerStops
  <2>1. reconciler.at # "idle" /\ reconciler' = ReconcilerIdle
        /\ cursor' \in {reconciler.next, reconciler.last}
    BY <1>5 DEF ReconcilerEnds, ReconcilerStops
  <2> QED
    BY <2>1, ReconcilerFields, PageEnds
<1>6. CASE ReconcilerPassDies \/ ServiceRestarts
  BY <1>0, <1>6, PageEnds DEF ReconcilerPassDies, ServiceRestarts
<1>7. CASE UNCHANGED <<reconciler, cursor>>
  BY <1>7 DEF Pages
<1>8. CASE PinnerStep \/ NodeAnswers \/ PinnerPassDies
  BY <1>7, <1>8 DEF PinnerStep, PinnerReads, PinnerCompletes, NodeAnswers, OperationLands,
     OperationFails, PinnerPassDies
<1>9. ASSUME NEW c, NEW want, Desire(c, want) \/ LateLands(c, want) PROVE Pages'
  BY <1>7, <1>9 DEF Desire, LateLands
<1>10. ASSUME NEW c, Interference(c) \/ RetryDue(c) \/ VerifyDue(c) PROVE Pages'
  BY <1>7, <1>10 DEF Interference, RetryDue, VerifyDue
<1> QED
  BY <1>1, <1>2, <1>3, <1>4, <1>5, <1>6, <1>8, <1>9, <1>10 DEF Next, ReconcilerStep

LEMMA InitFlow == Init => Flow
<1> SUFFICES ASSUME Init PROVE Flow
  OBVIOUS
<1>1. Books
  BY InitBooks
<1>2. Known = {}
  BY DEF Init, Known
<1>3. Room
  BY <1>2, FS_EmptySet, PinsAssumption DEF Room
<1>4. Underway
  <2>1. /\ faults = 0 /\ node \in [Cids -> BOOLEAN]
        /\ late = [c \in Cids |-> [want \in BOOLEAN |-> 0]]
    BY DEF Init
  <2>2. faults \in 0 .. MaxFaults
    BY <2>1, PinsAssumption
  <2>3. [want \in BOOLEAN |-> 0] \in [BOOLEAN -> Nat]
    OBVIOUS
  <2>4. late \in [Cids -> [BOOLEAN -> Nat]]
    BY <2>1, <2>3
  <2>5. \A c \in Cids, want \in BOOLEAN : late[c][want] <= faults
    BY <2>1
  <2> QED
    BY <2>1, <2>2, <2>4, <2>5 DEF Underway
<1>5. pinner \in Pinner
  BY DEF Init, Pinner
<1>6. Pages
  <2>1. reconciler = ReconcilerIdle /\ cursor = 0 /\ N \in Nat
    BY PinsAssumption DEF Init
  <2> QED
    BY <2>1 DEF Pages, Reconciler, ReconcilerIdle
<1> QED
  BY <1>1, <1>3, <1>4, <1>5, <1>6 DEF Flow

LEMMA FlowKeeps == ASSUME Flow, [Next]_vars PROVE Flow'
<1>1. Books'
  BY StepKeeps DEF Flow
<1>2. CASE Next
  BY <1>1, <1>2, RoomKeeps, UnderwayKeeps, PinnerKeeps, PagesKeeps DEF Flow
<1>3. CASE UNCHANGED vars
  BY <1>1, <1>3 DEF vars, Flow, Room, Known, Underway, Pages
<1> QED
  BY <1>2, <1>3

LEMMA FlowTyped == Flow => TypeOK
<1> SUFFICES ASSUME Flow PROVE TypeOK
  OBVIOUS
<1>1. due \in Seq(Pending) /\ NoRepeat(due) /\ Known \subseteq Cids
  <2>1. due \in Seq(Cids) /\ Waiting(due) \subseteq Pending
    BY DEF Flow, Books, Shelf
  <2>2. \A i \in 1 .. Len(due) : due[i] \in Pending
    BY <2>1 DEF Waiting
  <2>3. due \in Seq(Pending)
    BY <2>1, <2>2
  <2> QED
    BY <2>3 DEF Flow, Books, Shelf
<1>2. asked \in [Cids -> Request] /\ done \in [Cids -> Request]
  <2>1. History = Request
    <3>1. Revisions \cup {0} = Nat
      BY DEF Revisions
    <3> QED
      BY <3>1, Zenon DEF History, Request
  <2> QED
    BY <2>1 DEF Flow, Books, Shelf
<1>3. late \in [Cids -> [BOOLEAN -> 0 .. MaxFaults]]
  <2>1. ASSUME NEW c \in Cids PROVE late[c] \in [BOOLEAN -> 0 .. MaxFaults]
    <3>1. late[c] \in [BOOLEAN -> Nat]
      BY DEF Flow, Underway
    <3>2. ASSUME NEW want \in BOOLEAN PROVE late[c][want] \in 0 .. MaxFaults
      <4>1. late[c][want] \in Nat /\ late[c][want] <= faults /\ faults \in 0 .. MaxFaults
        BY <3>1 DEF Flow, Underway
      <4> QED
        BY <4>1, PinsAssumption
    <3> QED
      BY <3>1, <3>2
  <2> QED
    BY <2>1 DEF Flow, Underway
<1> QED
  BY <1>1, <1>2, <1>3 DEF Flow, Room, Underway, Pages, TypeOK

(* The table never outgrows its limit, the index holds each pending CID at  *)
(* most once and no other, a page is a run of known CIDs that ends within   *)
(* the table, and no more operations are under way than were given up on.   *)
THEOREM PinsTypeCorrect == Spec => []TypeOK
<1>1. Flow /\ [Next]_vars => Flow'
  BY FlowKeeps
<1> QED
  BY InitFlow, <1>1, FlowTyped, PTL DEF Spec
=============================================================================
