-------------------------- MODULE IndexJobsProofs --------------------------
(***************************************************************************)
(* Proofs about IndexJobs, for every number of jobs, events, requests in    *)
(* flight and sign-ins: what is shown is the account's own and never goes   *)
(* back, the log of a row breaks only where it says that the job was taken  *)
(* back to work, and only the open row is followed.                         *)
(*                                                                         *)
(* LAYOUT.  The handlers are compositions of a few operators on the page    *)
(* (StartJobStream, RenderJobs, OpenRow) and on the requests (Sent,         *)
(* RefreshJobs, Released).  Each operator has a lemma that it keeps SoundUi *)
(* or SoundWire, stated for any page and any requests; the lemma of an      *)
(* action composes them.                                                    *)
(***************************************************************************)
EXTENDS IndexJobs, FiniteSetTheorems, TLAPS

-----------------------------------------------------------------------------
(* The inductive invariant *)

Rows(T) == UNION {[S -> T] : S \in SUBSET Jobs}

Ui == [jobs : Rows(Entry), open : SUBSET Jobs, selected : Jobs \cup {None},
       session : Session \cup {NoSession}]

(* The log of j breaks only at restarts, and event last + 1 may come next.  *)
Log(log, last, j) ==
  /\ \A i \in 1 .. Len(log) - 1 : log[i + 1] = Restart \/ Follows(j, log[i], log[i + 1])
  /\ log # <<>> => Follows(j, log[Len(log)], last + 1)

(* What a row says of its job is recorded, in its log as well.              *)
Row(e, j) ==
  /\ e \in Entry /\ e.by = page.epoch
  /\ e.seq \in 1 .. Len(hist[j]) /\ e.state = hist[j][e.seq]
  /\ Log(e.log, e.last, j)

(* The accordion; and the stream goes on where the log of its row ends.     *)
SoundUi(u) ==
  /\ u \in Ui
  /\ u.open = (IF u.selected = None THEN {} ELSE {u.selected})
  /\ u.open \subseteq DOMAIN u.jobs
  /\ \A j \in DOMAIN u.jobs : Row(u.jobs[j], j) /\ page.authenticated
  /\ u.session.job # None =>
        /\ JobIsOpen(u, u.session.job)
        /\ u.jobs[u.session.job].last # Fresh
        /\ u.session.at = "reading" => u.session.pos = u.jobs[u.session.job].last

Requests ==
  [kind : {"list"}, epoch : Nat, then : Jobs \cup {None}, rows : Rows(Nat)]
    \cup [kind : {"detail"}, epoch : Nat, job : Jobs, seq : Nat, again : BOOLEAN]
    \cup [kind : {"select"}, epoch : Nat, job : Jobs, seq : Nat]
    \cup [kind : {"control"}, epoch : Nat, job : Jobs, seq : Nat, restarts : BOOLEAN,
          held : {"entry", "open", "closed"}]

(* A request was made for an account that was signed in, its answer is      *)
(* recorded, an accepted retry or resume took its job back to work, and the *)
(* row that its handler holds is on the page.                               *)
Request(r, u) ==
  /\ r \in Requests /\ Read(r)
  /\ r.epoch = page.epoch => page.authenticated
  /\ r.kind = "list" /\ r.then # None => r.then \in DOMAIN u.jobs
  /\ r.kind = "detail" => r.job \in DOMAIN u.jobs
  /\ r.kind = "control" /\ r.held = "entry" => r.job \in DOMAIN u.jobs
  /\ r.kind = "control" /\ r.restarts /\ r.seq # 0 => TookBack(r.job, r.seq)

SoundWire(w, u) ==
  /\ IsFiniteSet(w) /\ Cardinality(w) <= MaxWire
  /\ \A r \in w : Request(r, u)

World ==
  /\ hist \in [Jobs -> Seq(States)] /\ \A j \in Jobs : hist[j] # <<>>
  /\ page \in [view : {"indexing", "away"}, authenticated : BOOLEAN, epoch : 0 .. MaxEpochs]

Inductive == World /\ SoundUi(ui) /\ SoundWire(wire, ui)

-----------------------------------------------------------------------------
(* Rows *)

LEMMA RowsElim ==
  ASSUME NEW T, NEW f \in Rows(T)
  PROVE  DOMAIN f \subseteq Jobs /\ f \in [DOMAIN f -> T] /\ \A j \in DOMAIN f : f[j] \in T
<1>1. PICK S \in SUBSET Jobs : f \in [S -> T]
  BY DEF Rows
<1> QED
  BY <1>1

LEMMA RowsIntro ==
  ASSUME NEW T, NEW S \in SUBSET Jobs, NEW f \in [S -> T]
  PROVE  f \in Rows(T)
BY DEF Rows

LEMMA EmptyLog ==
  ASSUME NEW j, NEW last
  PROVE  Log(<<>>, last, j)
BY DEF Log

(* A row whose stream was never started has an empty log. *)
LEMMA FreshIsEmpty ==
  ASSUME World, NEW j \in Jobs, NEW log \in Seq(Nat), Log(log, Fresh, j)
  PROVE  log = <<>>
<1> SUFFICES ASSUME log # <<>> PROVE FALSE
  OBVIOUS
<1>1. log[Len(log)] \in Nat /\ Follows(j, log[Len(log)], Fresh + 1)
  BY DEF Log
<1>2. Fresh + 1 = 0
  BY DEF Fresh
<1>3. hist[j] \in Seq(States)
  BY DEF World
<1> QED
  BY <1>1, <1>2, <1>3 DEF Follows, TookBack

(* The next event. *)
LEMMA LogGrows ==
  ASSUME NEW j, NEW log \in Seq(Nat), NEW last \in Nat, Log(log, last, j),
         NEW l, l = Append(log, last + 1)
  PROVE  l \in Seq(Nat) /\ Log(l, last + 1, j)
<1>1. /\ l \in Seq(Nat) /\ Len(l) = Len(log) + 1 /\ Len(log) \in Nat /\ l # <<>>
      /\ l[Len(log) + 1] = last + 1 /\ \A i \in 1 .. Len(log) : l[i] = log[i]
  OBVIOUS
<1>2. ASSUME NEW i \in 1 .. Len(l) - 1 PROVE l[i + 1] = Restart \/ Follows(j, l[i], l[i + 1])
  <2>1. CASE i = Len(log)
    <3>1. log # <<>> /\ l[i] = log[Len(log)] /\ l[i + 1] = last + 1
      BY <1>1, <2>1
    <3> QED
      BY <3>1 DEF Log
  <2>2. CASE i # Len(log)
    <3>1. i \in 1 .. Len(log) - 1 /\ l[i] = log[i] /\ l[i + 1] = log[i + 1]
      BY <1>1, <2>2
    <3> QED
      BY <3>1 DEF Log
  <2> QED
    BY <2>1, <2>2
<1>3. Follows(j, l[Len(l)], (last + 1) + 1)
  BY <1>1 DEF Follows, Restart
<1> QED
  BY <1>1, <1>2, <1>3 DEF Log

(* A retry or resume was accepted as event n. *)
LEMMA LogRestarts ==
  ASSUME NEW j, NEW log \in Seq(Nat), NEW last, Log(log, last, j),
         NEW n \in Nat \ {0}, TookBack(j, n), NEW l, l = Append(log, Restart)
  PROVE  l \in Seq(Nat) /\ Log(l, n - 1, j)
<1>1. /\ l \in Seq(Nat) /\ Len(l) = Len(log) + 1 /\ Len(log) \in Nat /\ l # <<>>
      /\ l[Len(log) + 1] = Restart /\ \A i \in 1 .. Len(log) : l[i] = log[i]
  BY DEF Restart
<1>2. ASSUME NEW i \in 1 .. Len(l) - 1 PROVE l[i + 1] = Restart \/ Follows(j, l[i], l[i + 1])
  <2>1. CASE i = Len(log)
    BY <1>1, <2>1
  <2>2. CASE i # Len(log)
    <3>1. i \in 1 .. Len(log) - 1 /\ l[i] = log[i] /\ l[i + 1] = log[i + 1]
      BY <1>1, <2>2
    <3> QED
      BY <3>1 DEF Log
  <2> QED
    BY <2>1, <2>2
<1>3. (n - 1) + 1 = n /\ l[Len(l)] = Restart
  BY <1>1
<1>4. Follows(j, l[Len(l)], (n - 1) + 1)
  BY <1>3 DEF Follows
<1> QED
  BY <1>1, <1>2, <1>4 DEF Log

(* What SoundUi says of the fields. *)
LEMMA UiFields ==
  ASSUME NEW u \in Ui
  PROVE  /\ u.jobs \in Rows(Entry) /\ DOMAIN u.jobs \subseteq Jobs
         /\ u.jobs \in [DOMAIN u.jobs -> Entry]
         /\ u.open \in SUBSET Jobs /\ u.selected \in Jobs \cup {None}
         /\ u.session \in Session \cup {NoSession}
         /\ u = [jobs |-> u.jobs, open |-> u.open, selected |-> u.selected,
                 session |-> u.session]
<1>1. u.jobs \in Rows(Entry)
  BY DEF Ui
<1>2. DOMAIN u.jobs \subseteq Jobs /\ u.jobs \in [DOMAIN u.jobs -> Entry]
  BY <1>1, RowsElim
<1> QED
  BY <1>1, <1>2 DEF Ui

LEMMA SessionFields ==
  /\ NoSession.job = None /\ NoSession.at = "none"
  /\ \A s \in Session : /\ s.job \in Jobs /\ s.job # None /\ s.at # "none"
                        /\ s.pos \in Nat /\ s.terminal \in BOOLEAN
  /\ \A s \in Session \cup {NoSession} : s.job = None <=> s = NoSession
BY IndexJobsAssumption DEF NoSession, Session

LEMMA ClearedIsSound == SoundUi(Cleared)
<1>1. NoRows \in Rows(Entry) /\ DOMAIN NoRows = {}
  <2>1. NoRows \in [{} -> Entry] /\ DOMAIN NoRows = {} /\ {} \in SUBSET Jobs
    BY DEF NoRows
  <2> QED
    BY <2>1, RowsIntro
<1>2. Cleared \in Ui
  BY <1>1 DEF Cleared, Ui
<1> QED
  BY <1>1, <1>2, SessionFields DEF Cleared, SoundUi

LEMMA StopKeeps ==
  ASSUME NEW u, SoundUi(u)
  PROVE  /\ SoundUi(StopStream(u))
         /\ StopStream(u).jobs = u.jobs /\ StopStream(u).open = u.open
         /\ StopStream(u).selected = u.selected /\ StopStream(u).session = NoSession
<1> DEFINE v == StopStream(u)
<1>1. u \in Ui
  BY DEF SoundUi
<1>2. /\ v.jobs = u.jobs /\ v.open = u.open /\ v.selected = u.selected
      /\ v.session = NoSession /\ v \in Ui
  BY <1>1 DEF StopStream, Ui
<1> HIDE DEF v
<1>3. SoundUi(v)
  BY <1>2, SessionFields DEF SoundUi
<1> QED
  BY <1>2, <1>3 DEF v

(* Another row in place of j's: the stream must still fit its log. *)
LEMMA RowKeeps ==
  ASSUME NEW u, SoundUi(u), NEW j \in DOMAIN u.jobs, NEW e, Row(e, j),
         u.session.job = j => /\ e.last # Fresh
                              /\ u.session.at = "reading" => u.session.pos = e.last
  PROVE  /\ SoundUi([u EXCEPT !.jobs[j] = e])
         /\ [u EXCEPT !.jobs[j] = e].session = u.session
         /\ DOMAIN [u EXCEPT !.jobs[j] = e].jobs = DOMAIN u.jobs
         /\ [u EXCEPT !.jobs[j] = e].jobs[j] = e
         /\ \A i \in DOMAIN u.jobs : i # j => [u EXCEPT !.jobs[j] = e].jobs[i] = u.jobs[i]
<1> DEFINE v == [u EXCEPT !.jobs[j] = e]
<1>1. /\ u \in Ui /\ e \in Entry
  BY DEF SoundUi, Row
<1>2. u.jobs \in [DOMAIN u.jobs -> Entry] /\ DOMAIN u.jobs \in SUBSET Jobs
  BY <1>1, UiFields
<1>3. /\ v.jobs = [u.jobs EXCEPT ![j] = e] /\ v.open = u.open
      /\ v.selected = u.selected /\ v.session = u.session
  BY <1>1 DEF Ui
<1>4. /\ v.jobs \in [DOMAIN u.jobs -> Entry] /\ DOMAIN v.jobs = DOMAIN u.jobs
      /\ v.jobs[j] = e /\ \A i \in DOMAIN u.jobs : i # j => v.jobs[i] = u.jobs[i]
  BY <1>1, <1>2, <1>3
<1>5. v \in Ui
  <2>1. v.jobs \in Rows(Entry)
    BY <1>2, <1>4, RowsIntro
  <2> QED
    BY <2>1, <1>1, <1>3 DEF Ui
<1> HIDE DEF v
<1>6. SoundUi(v)
  BY <1>3, <1>4, <1>5 DEF SoundUi, JobIsOpen
<1> QED
  BY <1>3, <1>4, <1>6 DEF v

-----------------------------------------------------------------------------
(* The operators on the page *)

LEMMA StartKeeps ==
  ASSUME NEW u, SoundUi(u), NEW j, World
  PROVE  /\ SoundUi(StartJobStream(u, j))
         /\ DOMAIN StartJobStream(u, j).jobs = DOMAIN u.jobs
         /\ StartJobStream(u, j).open = u.open
         /\ StartJobStream(u, j).selected = u.selected
         /\ \A i \in DOMAIN u.jobs :
               /\ StartJobStream(u, j).jobs[i].seq = u.jobs[i].seq
               /\ StartJobStream(u, j).jobs[i].state = u.jobs[i].state
<1>1. CASE \/ ~JobIsOpen(u, j) \/ u.jobs[j].streamBlocked \/ u.jobs[j].historyComplete
           \/ u.session.job = j
  BY <1>1 DEF StartJobStream
<1>2. CASE ~(\/ ~JobIsOpen(u, j) \/ u.jobs[j].streamBlocked \/ u.jobs[j].historyComplete
             \/ u.session.job = j)
  <2> DEFINE l == IF u.jobs[j].last # Fresh THEN u.jobs[j].last
                  ELSE IF u.jobs[j].seq > Window THEN u.jobs[j].seq - Window ELSE 0
             s == [job |-> j, at |-> "connecting", pos |-> 0, terminal |-> FALSE]
             e == [u.jobs[j] EXCEPT !.last = l]
             v == [u EXCEPT !.session = s, !.jobs[j].last = l]
  <2>1. JobIsOpen(u, j) /\ j \in DOMAIN u.jobs /\ j \in Jobs /\ j # None
    BY <1>2, UiFields, IndexJobsAssumption DEF JobIsOpen, SoundUi
  <2>2. u \in Ui /\ Row(u.jobs[j], j) /\ u.jobs[j] \in Entry
    BY <2>1 DEF SoundUi, Row
  <2>3. StartJobStream(u, j) = v
    BY <1>2, <2>2 DEF StartJobStream, Ui, Entry
  <2>4. l \in Nat /\ l # Fresh /\ (u.jobs[j].last # Fresh => l = u.jobs[j].last)
    BY <2>2, IndexJobsAssumption, SMTT(20) DEF Entry, Fresh
  <2>5. Row(e, j) /\ e.last = l /\ e.seq = u.jobs[j].seq /\ e.state = u.jobs[j].state
    <3>1. e \in Entry /\ e.last = l /\ e.log = u.jobs[j].log /\ e.seq = u.jobs[j].seq
          /\ e.state = u.jobs[j].state /\ e.by = u.jobs[j].by
      BY <2>2, <2>4 DEF Entry
    <3>2. ASSUME u.jobs[j].last = Fresh PROVE u.jobs[j].log = <<>>
      <4>1. u.jobs[j].log \in Seq(Nat) /\ Log(u.jobs[j].log, Fresh, j)
        BY <3>2, <2>2 DEF Row, Entry
      <4> QED
        BY <4>1, <2>1, FreshIsEmpty
    <3>3. Log(u.jobs[j].log, l, j)
      <4>1. CASE u.jobs[j].last = Fresh
        BY <4>1, <3>2, EmptyLog
      <4>2. CASE u.jobs[j].last # Fresh
        BY <4>2, <2>2, <2>4 DEF Row
      <4> QED
        BY <4>1, <4>2
    <3> HIDE DEF e, l
    <3> QED
      BY <3>1, <3>3, <2>2, <2>4 DEF Row
  <2>6. s \in Session /\ s.job = j /\ s.at = "connecting"
    BY <2>1 DEF Session
  <2>7. /\ v.jobs = [u.jobs EXCEPT ![j] = e] /\ v.open = u.open
        /\ v.selected = u.selected /\ v.session = s
    BY <2>2 DEF Ui
  <2> HIDE DEF e, l, s, v
  <2>8. u.jobs \in [DOMAIN u.jobs -> Entry] /\ DOMAIN u.jobs \in SUBSET Jobs
    BY <2>2, UiFields
  <2>9. /\ v.jobs \in [DOMAIN u.jobs -> Entry] /\ DOMAIN v.jobs = DOMAIN u.jobs
        /\ v.jobs[j] = e /\ \A i \in DOMAIN u.jobs : i # j => v.jobs[i] = u.jobs[i]
    BY <2>1, <2>5, <2>7, <2>8 DEF Row
  <2>10. v \in Ui
    <3>1. v.jobs \in Rows(Entry)
      BY <2>8, <2>9, RowsIntro
    <3>2. v = [u EXCEPT !.session = s, !.jobs[j].last = l]
      BY DEF v
    <3>3. v = [u EXCEPT !.session = s, !.jobs = v.jobs]
      BY <3>2, <2>2 DEF Ui
    <3> QED
      BY <3>1, <3>3, <2>2, <2>6 DEF Ui
  <2>11. SoundUi(v)
    BY <2>1, <2>4, <2>5, <2>6, <2>7, <2>9, <2>10 DEF SoundUi, JobIsOpen
  <2> QED
    BY <2>3, <2>5, <2>7, <2>9, <2>11
<1> QED
  BY <1>1, <1>2

LEMMA MergeKeeps ==
  ASSUME World, NEW j \in Jobs, NEW e, Row(e, j), NEW n \in 1 .. Len(hist[j])
  PROVE  /\ Row(MergeIndexRecord(e, j, n), j)
         /\ MergeIndexRecord(e, j, n).last = e.last /\ MergeIndexRecord(e, j, n).log = e.log
         /\ MergeIndexRecord(e, j, n).seq >= e.seq
<1>1. e \in Entry /\ e.seq \in Nat /\ n \in Nat
  BY DEF Row, Entry
<1>2. CASE e.seq > n
  BY <1>1, <1>2 DEF MergeIndexRecord
<1>3. CASE ~(e.seq > n)
  <2> DEFINE m == [e EXCEPT !.seq = n, !.state = hist[j][n]]
  <2>1. hist[j][n] \in States
    BY DEF World
  <2>2. /\ m \in Entry /\ m.seq = n /\ m.state = hist[j][n] /\ m.last = e.last
        /\ m.log = e.log /\ m.by = e.by
    BY <1>1, <2>1 DEF Entry
  <2>3. MergeIndexRecord(e, j, n) = m
    BY <1>3 DEF MergeIndexRecord
  <2> HIDE DEF m
  <2> QED
    BY <1>1, <1>3, <2>2, <2>3 DEF Row
<1> QED
  BY <1>2, <1>3

LEMMA CreateKeeps ==
  ASSUME World, NEW j \in Jobs, NEW n \in 1 .. Len(hist[j])
  PROVE  Row(CreateJobEntry(j, n, page.epoch), j)
<1>1. hist[j][n] \in States /\ page.epoch \in 0 .. MaxEpochs
  BY DEF World
<1>2. /\ CreateJobEntry(j, n, page.epoch) \in Entry
      /\ CreateJobEntry(j, n, page.epoch).log = <<>>
  BY <1>1 DEF CreateJobEntry, Entry, Fresh
<1> QED
  BY <1>2, EmptyLog DEF Row, CreateJobEntry

(* The records of a list or of the rows themselves. *)
Recorded(rows) == rows \in Rows(Nat) /\ \A j \in DOMAIN rows : rows[j] \in 1 .. Len(hist[j])

LEMMA RenderKeeps ==
  ASSUME World, NEW u, SoundUi(u), NEW rows, Recorded(rows)
  PROVE  /\ SoundUi(RenderJobs(u, rows, page.epoch))
         /\ page.authenticated /\ DOMAIN rows # {} =>
               DOMAIN RenderJobs(u, rows, page.epoch).jobs = DOMAIN rows
         /\ \A j \in DOMAIN u.jobs \cap DOMAIN RenderJobs(u, rows, page.epoch).jobs :
               RenderJobs(u, rows, page.epoch).jobs[j].seq >= u.jobs[j].seq
<1>1. CASE ~page.authenticated \/ DOMAIN rows = {}
  <2>1. RenderJobs(u, rows, page.epoch) = Cleared /\ DOMAIN Cleared.jobs = {}
    BY <1>1 DEF RenderJobs, Cleared, NoRows
  <2> QED
    BY <1>1, <2>1, ClearedIsSound
<1>2. CASE page.authenticated /\ DOMAIN rows # {}
  <2> DEFINE kept == u.selected \in DOMAIN rows
             jobs == [j \in DOMAIN rows |->
                        IF j \in DOMAIN u.jobs THEN MergeIndexRecord(u.jobs[j], j, rows[j])
                        ELSE CreateJobEntry(j, rows[j], page.epoch)]
             next == [jobs |-> jobs,
                      open |-> u.open \cap DOMAIN rows,
                      selected |-> IF kept THEN u.selected ELSE None,
                      session |-> IF kept THEN u.session ELSE NoSession]
             r == RenderJobs(u, rows, page.epoch)
  <2>1. DOMAIN rows \in SUBSET Jobs /\ \A j \in DOMAIN rows : rows[j] \in 1 .. Len(hist[j])
    BY RowsElim DEF Recorded
  <2>2. u \in Ui /\ \A j \in DOMAIN u.jobs : Row(u.jobs[j], j)
    BY DEF SoundUi
  <2>3. \A j \in DOMAIN rows :
           /\ Row(jobs[j], j)
           /\ j \in DOMAIN u.jobs => /\ jobs[j].last = u.jobs[j].last
                                     /\ jobs[j].seq >= u.jobs[j].seq
    BY <2>1, <2>2, MergeKeeps, CreateKeeps
  <2>4. DOMAIN jobs = DOMAIN rows /\ jobs \in Rows(Entry)
    <3>1. jobs \in [DOMAIN rows -> Entry]
      BY <2>3 DEF Row
    <3> QED
      BY <2>1, <3>1, RowsIntro
  <2>5. /\ next.jobs = jobs /\ next.open = u.open \cap DOMAIN rows
        /\ next.selected = (IF kept THEN u.selected ELSE None)
        /\ next.session = (IF kept THEN u.session ELSE NoSession)
    OBVIOUS
  <2>6. r = IF kept /\ next.session = NoSession THEN StartJobStream(next, next.selected) ELSE next
    BY <1>2 DEF RenderJobs
  <2>7. next \in Ui
    BY <2>2, <2>4, UiFields DEF Ui
  <2> HIDE DEF jobs, next, r
  <2>8. /\ next.open = (IF next.selected = None THEN {} ELSE {next.selected})
        /\ next.open \subseteq DOMAIN next.jobs
    <3>1. u.open = (IF u.selected = None THEN {} ELSE {u.selected}) /\ None \notin DOMAIN rows
      BY <2>1, IndexJobsAssumption DEF SoundUi
    <3> QED
      BY <3>1, <2>4, <2>5
  <2>9. next.session.job # None =>
          /\ JobIsOpen(next, next.session.job)
          /\ next.jobs[next.session.job].last # Fresh
          /\ next.session.at = "reading" =>
                next.session.pos = next.jobs[next.session.job].last
    <3>1. SUFFICES ASSUME next.session.job # None
                   PROVE  /\ JobIsOpen(next, next.session.job)
                          /\ next.jobs[next.session.job].last # Fresh
                          /\ next.session.at = "reading" =>
                                next.session.pos = next.jobs[next.session.job].last
      OBVIOUS
    <3>2. kept /\ next.session = u.session /\ next.selected = u.selected
      BY <3>1, <2>5, SessionFields
    <3>3. /\ JobIsOpen(u, u.session.job) /\ u.jobs[u.session.job].last # Fresh
          /\ u.session.at = "reading" => u.session.pos = u.jobs[u.session.job].last
      BY <3>1, <3>2 DEF SoundUi
    <3> QED
      BY <3>2, <3>3, <2>3, <2>4, <2>5 DEF JobIsOpen
  <2>10. SoundUi(next)
    BY <1>2, <2>3, <2>4, <2>5, <2>7, <2>8, <2>9 DEF SoundUi
  <2>11. /\ SoundUi(r) /\ DOMAIN r.jobs = DOMAIN next.jobs
         /\ \A j \in DOMAIN next.jobs : r.jobs[j].seq = next.jobs[j].seq
    BY <2>6, <2>10, StartKeeps
  <2> QED
    BY <2>3, <2>4, <2>5, <2>11 DEF r
<1> QED
  BY <1>1, <1>2

LEMMA OpenKeeps ==
  ASSUME World, NEW u, SoundUi(u), NEW j \in DOMAIN u.jobs
  PROVE  /\ SoundUi(OpenRow(u, j)) /\ DOMAIN OpenRow(u, j).jobs = DOMAIN u.jobs
         /\ \A i \in DOMAIN u.jobs : OpenRow(u, j).jobs[i].seq = u.jobs[i].seq
<1>1. CASE u.selected = j
  BY <1>1 DEF OpenRow
<1>2. CASE u.selected # j
  <2> DEFINE s == StopStream(u)
             v == [s EXCEPT !.open = {j}, !.selected = j]
  <2>1. SoundUi(s) /\ s.jobs = u.jobs /\ s.session = NoSession
    BY StopKeeps
  <2>2. OpenRow(u, j) = StartJobStream(v, j)
    BY <1>2 DEF OpenRow
  <2> HIDE DEF s
  <2>3. s \in Ui /\ DOMAIN u.jobs \subseteq Jobs
    BY <2>1, UiFields DEF SoundUi
  <2>4. /\ v \in Ui /\ v.jobs = u.jobs /\ v.open = {j} /\ v.selected = j
        /\ v.session = NoSession
    BY <2>1, <2>3 DEF Ui
  <2> HIDE DEF v
  <2>5. j # None /\ \A i \in DOMAIN u.jobs : Row(u.jobs[i], i) /\ page.authenticated
    BY <2>3, IndexJobsAssumption DEF SoundUi
  <2>6. SoundUi(v)
    BY <2>4, <2>5, SessionFields DEF SoundUi
  <2> QED
    BY <2>2, <2>4, <2>6, StartKeeps
<1> QED
  BY <1>1, <1>2

-----------------------------------------------------------------------------
(* The operators on the requests *)

LEMMA SubsetKeeps ==
  ASSUME NEW u, NEW w, SoundWire(w, u), NEW x \in SUBSET w
  PROVE  SoundWire(x, u)
<1>1. IsFiniteSet(x) /\ Cardinality(x) <= Cardinality(w)
  BY FS_Subset DEF SoundWire
<1>2. Cardinality(w) \in Nat /\ Cardinality(x) \in Nat /\ MaxWire \in Nat
  BY <1>1, FS_CardinalityType, IndexJobsAssumption DEF SoundWire
<1> QED
  BY <1>1, <1>2 DEF SoundWire

LEMMA SentKeeps ==
  ASSUME NEW u, NEW w, SoundWire(w, u), NEW r, Request(r, u)
  PROVE  SoundWire(Sent(w, r), u)
<1>1. CASE Cardinality(w) < MaxWire
  <2>1. Sent(w, r) = w \cup {r}
    BY <1>1 DEF Sent
  <2>2. /\ IsFiniteSet(w \cup {r})
        /\ Cardinality(w \cup {r}) = Cardinality(w) \/ Cardinality(w \cup {r}) = Cardinality(w) + 1
        /\ Cardinality(w) \in Nat /\ MaxWire \in Nat
    BY FS_AddElement, FS_CardinalityType, IndexJobsAssumption DEF SoundWire
  <2>3. Cardinality(w \cup {r}) <= MaxWire
    BY <1>1, <2>2
  <2> QED
    BY <2>1, <2>2, <2>3 DEF SoundWire
<1>2. CASE ~(Cardinality(w) < MaxWire)
  BY <1>2 DEF Sent
<1> QED
  BY <1>1, <1>2

(* Rows may be added. *)
LEMMA AttachedKeeps ==
  ASSUME NEW u, NEW w, SoundWire(w, u), NEW v, DOMAIN u.jobs \subseteq DOMAIN v.jobs
  PROVE  SoundWire(w, v)
BY DEF SoundWire, Request

LEMMA ListIsRequest ==
  ASSUME World, page.authenticated, NEW u, NEW then \in Jobs \cup {None},
         then # None => then \in DOMAIN u.jobs, NEW listed \in Filters
  PROVE  Request([kind |-> "list", epoch |-> page.epoch, then |-> then,
                  rows |-> [j \in listed |-> Len(hist[j])]], u)
<1> DEFINE rows == [j \in listed |-> Len(hist[j])]
           r == [kind |-> "list", epoch |-> page.epoch, then |-> then, rows |-> rows]
<1>1. /\ listed \in SUBSET Jobs /\ page.epoch \in Nat /\ page.epoch \in 0 .. page.epoch
      /\ \A j \in Jobs : Len(hist[j]) \in Nat /\ Len(hist[j]) \in 1 .. Len(hist[j])
  <2>1. listed \in SUBSET Jobs
    BY DEF Filters
  <2>2. page.epoch \in Nat /\ page.epoch \in 0 .. page.epoch
    BY IndexJobsAssumption DEF World
  <2>3. ASSUME NEW j \in Jobs PROVE Len(hist[j]) \in Nat /\ Len(hist[j]) \in 1 .. Len(hist[j])
    <3>1. hist[j] \in Seq(States) /\ hist[j] # <<>>
      BY DEF World
    <3> QED
      BY <3>1
  <2> QED
    BY <2>1, <2>2, <2>3
<1>2. /\ DOMAIN rows = listed /\ rows \in [listed -> Nat]
      /\ \A j \in DOMAIN rows : rows[j] \in 1 .. Len(hist[j])
  BY <1>1
<1>3. rows \in Rows(Nat)
  BY <1>1, <1>2, RowsIntro
<1> HIDE DEF rows
<1>4. r \in Requests /\ r.kind = "list" /\ r.then = then /\ r.rows = rows /\ r.epoch = page.epoch
  BY <1>1, <1>3 DEF Requests
<1>5. Read(r)
  BY <1>1, <1>2, <1>4 DEF Read
<1> QED
  BY <1>4, <1>5 DEF Request, rows

LEMMA RefreshKeeps ==
  ASSUME World, page.authenticated, NEW u, NEW w, SoundWire(w, u),
         NEW then \in Jobs \cup {None}, then # None => then \in DOMAIN u.jobs,
         NEW x \in RefreshJobs(w, then)
  PROVE  SoundWire(x, u)
<1>1. PICK listed \in Filters :
         x = Sent(w, [kind |-> "list", epoch |-> page.epoch, then |-> then,
                      rows |-> [j \in listed |-> Len(hist[j])]])
  BY DEF RefreshJobs
<1> QED
  BY <1>1, ListIsRequest, SentKeeps

LEMMA DetailKeeps ==
  ASSUME World, page.authenticated, NEW u, NEW w, SoundWire(w, u),
         NEW j \in Jobs, j \in DOMAIN u.jobs, NEW again \in BOOLEAN
  PROVE  SoundWire(LoadIndexJobDetail(w, j, again), u)
<1> DEFINE r == [kind |-> "detail", epoch |-> page.epoch, job |-> j, seq |-> Len(hist[j]),
                 again |-> again]
<1>1. hist[j] \in Seq(States) /\ hist[j] # <<>> /\ page.epoch \in Nat
  BY IndexJobsAssumption DEF World
<1>2. /\ r \in Requests /\ r.kind = "detail" /\ r.job = j /\ r.seq \in 1 .. Len(hist[j])
      /\ r.again \in BOOLEAN /\ r.epoch \in 0 .. page.epoch
  BY <1>1 DEF Requests
<1> HIDE DEF r
<1>3. Request(r, u)
  BY <1>2 DEF Request, Read
<1> QED
  BY <1>3, SentKeeps DEF LoadIndexJobDetail, r

LEMMA KindOfRequest ==
  ASSUME NEW r \in Requests
  PROVE  /\ r.kind = "list" => r \in [kind : {"list"}, epoch : Nat, then : Jobs \cup {None},
                                      rows : Rows(Nat)]
         /\ r.kind = "detail" => r \in [kind : {"detail"}, epoch : Nat, job : Jobs, seq : Nat,
                                        again : BOOLEAN]
         /\ r.kind = "select" => r \in [kind : {"select"}, epoch : Nat, job : Jobs, seq : Nat]
         /\ r.kind = "control" => r \in [kind : {"control"}, epoch : Nat, job : Jobs, seq : Nat,
                                         restarts : BOOLEAN, held : {"entry", "open", "closed"}]
         /\ r.kind \in {"list", "detail", "select", "control"}
BY DEF Requests

(* Rows were removed: what was held of them is let go. *)
LEMMA ReleasedKeeps ==
  ASSUME NEW u, NEW v, NEW w, SoundWire(w, u)
  PROVE  SoundWire(Released(w, u, v), v)
<1> DEFINE gone(j) == j \in DOMAIN u.jobs /\ j \notin DOMAIN v.jobs
           kept == {x \in w : ~(x.kind = "detail" /\ gone(x.job))}
           image(r) == CASE r.kind = "control" /\ r.held = "entry" /\ gone(r.job) ->
                              [r EXCEPT !.held = IF r.job \in u.open THEN "open" ELSE "closed"]
                         [] r.kind = "list" /\ r.then # None /\ gone(r.then) ->
                              [r EXCEPT !.then = None]
                         [] OTHER -> r
           f == [r \in kept |-> image(r)]
<1>1. Released(w, u, v) = {f[r] : r \in kept}
  BY DEF Released
<1>2. SoundWire(kept, u)
  BY SubsetKeeps
<1>3. IsFiniteSet(Released(w, u, v)) /\ Cardinality(Released(w, u, v)) <= MaxWire
  <2> DEFINE T == {f[r] : r \in kept}
  <2>1. f \in Surjection(kept, T)
    BY DEF Surjection
  <2> HIDE DEF f, T, kept
  <2>2. IsFiniteSet(T) /\ Cardinality(T) <= Cardinality(kept)
    BY <1>2, <2>1, FS_Surjection DEF SoundWire
  <2>3. Cardinality(T) \in Nat /\ Cardinality(kept) \in Nat /\ MaxWire \in Nat
    BY <1>2, <2>2, FS_CardinalityType, IndexJobsAssumption DEF SoundWire
  <2> QED
    BY <1>1, <1>2, <2>2, <2>3 DEF SoundWire, T
<1>4. ASSUME NEW r \in kept PROVE Request(image(r), v)
  <2>1. Request(r, u) /\ r \in Requests /\ Read(r)
    BY DEF SoundWire, Request
  <2>2. CASE r.kind = "control" /\ r.held = "entry" /\ gone(r.job)
    <3> DEFINE x == [r EXCEPT !.held = IF r.job \in u.open THEN "open" ELSE "closed"]
    <3>1. image(r) = x
      BY <2>2
    <3>2. r \in [kind : {"control"}, epoch : Nat, job : Jobs, seq : Nat,
                 restarts : BOOLEAN, held : {"entry", "open", "closed"}]
      BY <2>1, <2>2, KindOfRequest
    <3>3. /\ x \in [kind : {"control"}, epoch : Nat, job : Jobs, seq : Nat,
                    restarts : BOOLEAN, held : {"entry", "open", "closed"}]
          /\ x.kind = "control" /\ x.epoch = r.epoch /\ x.held # "entry" /\ x.seq = r.seq
          /\ x.held \in {"entry", "open", "closed"}
          /\ x.job = r.job /\ x.restarts = r.restarts
      BY <3>2
    <3> HIDE DEF x, image
    <3>4. Read(x)
      BY <2>1, <2>2, <3>3 DEF Read
    <3>5. x \in Requests
      BY <3>3 DEF Requests
    <3>6. x.restarts /\ x.seq # 0 => TookBack(x.job, x.seq)
      <4>1. r.restarts /\ r.seq # 0 => TookBack(r.job, r.seq)
        BY <2>1, <2>2 DEF Request
      <4> QED
        BY <3>3, <4>1
    <3> QED
      BY <2>1, <3>1, <3>3, <3>4, <3>5, <3>6 DEF Request
  <2>3. CASE r.kind = "list" /\ r.then # None /\ gone(r.then)
    <3> DEFINE x == [r EXCEPT !.then = None]
    <3>1. image(r) = x
      BY <2>3
    <3>2. r \in [kind : {"list"}, epoch : Nat, then : Jobs \cup {None}, rows : Rows(Nat)]
      BY <2>1, <2>3, KindOfRequest
    <3>3. /\ x \in [kind : {"list"}, epoch : Nat, then : Jobs \cup {None}, rows : Rows(Nat)]
          /\ x.kind = "list" /\ x.epoch = r.epoch /\ x.then = None /\ x.rows = r.rows
      BY <3>2
    <3> HIDE DEF x, image
    <3>4. Read(x)
      BY <2>1, <2>3, <3>3 DEF Read
    <3>5. x \in Requests
      BY <3>3 DEF Requests
    <3> QED
      BY <2>1, <3>1, <3>3, <3>4, <3>5 DEF Request
  <2>4. CASE /\ ~(r.kind = "control" /\ r.held = "entry" /\ gone(r.job))
             /\ ~(r.kind = "list" /\ r.then # None /\ gone(r.then))
    <3>1. image(r) = r
      BY <2>4
    <3> HIDE DEF image
    <3> QED
      BY <2>1, <2>4, <3>1 DEF Request
  <2> QED
    BY <2>2, <2>3, <2>4
<1> QED
  BY <1>1, <1>3, <1>4 DEF SoundWire

-----------------------------------------------------------------------------
(* The steps.  Each keeps the invariant and takes no row back.              *)

Progress ==
  \A j \in DOMAIN ui.jobs \cap DOMAIN ui'.jobs : ui'.jobs[j].seq >= ui.jobs[j].seq

Good == Inductive' /\ Progress

(* Only the browser moved. *)
LEMMA BrowserMoves ==
  ASSUME World, UNCHANGED <<hist, page>>, SoundUi(ui'), SoundWire(wire', ui')
  PROVE  Inductive'
<1>1. World'
  BY DEF World
<1>2. SoundUi(ui)'
  BY DEF SoundUi, Row, Log, Follows, TookBack, JobIsOpen
<1>3. SoundWire(wire, ui)'
  BY DEF SoundWire, Request, Read, TookBack
<1> QED
  BY <1>1, <1>2, <1>3 DEF Inductive

LEMMA SameRows ==
  ASSUME SoundUi(ui), \A j \in DOMAIN ui.jobs \cap DOMAIN ui'.jobs : ui'.jobs[j].seq = ui.jobs[j].seq
  PROVE  Progress
<1>1. \A j \in DOMAIN ui.jobs : ui.jobs[j].seq \in Nat
  BY DEF SoundUi, Row, Entry
<1> QED
  BY <1>1 DEF Progress

(* Only requests were made or dropped. *)
LEMMA OnlyRequests ==
  ASSUME Inductive, UNCHANGED <<hist, page, ui>>, SoundWire(wire', ui)
  PROVE  Good
<1>1. SoundUi(ui) /\ World
  BY DEF Inductive
<1> QED
  BY <1>1, BrowserMoves, SameRows DEF Good

(* An event of job j: all that was recorded stays recorded. *)
LEMMA EmitKeeps ==
  ASSUME Inductive, NEW j \in Jobs, NEW s \in States, Emit(j, s), UNCHANGED <<page, ui>>
  PROVE  /\ World' /\ SoundUi(ui)' /\ Progress
         /\ \A r : Request(r, ui) => Request(r, ui)'
         /\ Len(hist'[j]) = Len(hist[j]) + 1
         /\ Current(j) = "stopped" /\ s = "running" =>
               \A n : n = Len(hist[j]) + 1 => TookBack(j, n)'
<1>1. /\ World /\ SoundUi(ui) /\ hist[j] \in Seq(States) /\ hist[j] # <<>>
      /\ hist \in [Jobs -> Seq(States)]
  BY DEF Inductive, World
<1>2. hist' = [hist EXCEPT ![j] = Append(hist[j], s)]
  BY <1>1 DEF Emit
<1>3. /\ hist' \in [Jobs -> Seq(States)] /\ hist'[j] = Append(hist[j], s)
      /\ \A i \in Jobs : i # j => hist'[i] = hist[i]
  BY <1>1, <1>2
<1>4. \A i \in Jobs :
         /\ hist'[i] # <<>> /\ Len(hist[i]) \in Nat /\ Len(hist'[i]) \in Nat
         /\ Len(hist[i]) <= Len(hist'[i])
         /\ \A n \in 1 .. Len(hist[i]) : hist'[i][n] = hist[i][n]
  <2> SUFFICES ASSUME NEW i \in Jobs
               PROVE  /\ hist'[i] # <<>> /\ Len(hist[i]) \in Nat /\ Len(hist'[i]) \in Nat
                      /\ Len(hist[i]) <= Len(hist'[i])
                      /\ \A n \in 1 .. Len(hist[i]) : hist'[i][n] = hist[i][n]
    OBVIOUS
  <2>1. CASE i = j
    BY <2>1, <1>1, <1>3
  <2>2. CASE i # j
    BY <2>2, <1>1, <1>3 DEF World
  <2> QED
    BY <2>1, <2>2
<1>5. World'
  BY <1>1, <1>3, <1>4 DEF World
<1>5a. \A i \in Jobs : \A n : TookBack(i, n) => TookBack(i, n)'
  <2> SUFFICES ASSUME NEW i \in Jobs, NEW n, TookBack(i, n) PROVE TookBack(i, n)'
    OBVIOUS
  <2>1. hist[i] \in Seq(States) /\ hist'[i] \in Seq(States)
    BY <1>1, <1>3
  <2>2. /\ n \in 1 .. Len(hist[i]) /\ n - 1 \in 1 .. Len(hist[i])
        /\ n \in 1 .. Len(hist'[i]) /\ n - 1 \in 1 .. Len(hist'[i])
    BY <2>1, <1>4 DEF TookBack
  <2> QED
    BY <2>1, <2>2, <1>4 DEF TookBack
<1>6. \A i \in Jobs : \A e : Row(e, i) => Row(e, i)'
  <2> SUFFICES ASSUME NEW i \in Jobs, NEW e, Row(e, i) PROVE Row(e, i)'
    OBVIOUS
  <2>1. e.seq \in 1 .. Len(hist'[i]) /\ hist'[i][e.seq] = hist[i][e.seq]
    BY <1>4 DEF Row
  <2>2. Log(e.log, e.last, i)'
    BY <1>5a DEF Row, Log, Follows
  <2> QED
    BY <2>1, <2>2 DEF Row
<1>7. SoundUi(ui)'
  <2>1. ui \in Ui /\ DOMAIN ui.jobs \subseteq Jobs
    BY <1>1, UiFields DEF SoundUi
  <2>2. ASSUME NEW i \in DOMAIN ui.jobs PROVE Row(ui.jobs[i], i)'
    <3>1. Row(ui.jobs[i], i) /\ i \in Jobs
      BY <1>1, <2>1 DEF SoundUi
    <3>2. PICK e : e = ui.jobs[i]
      OBVIOUS
    <3>3. Row(e, i)'
      BY <3>1, <3>2, <1>6
    <3> QED
      BY <3>2, <3>3 DEF Row
  <2> QED
    BY <1>1, <2>1, <2>2 DEF SoundUi, JobIsOpen
<1>8. ASSUME NEW r, Request(r, ui) PROVE Request(r, ui)'
  <2>1. r \in Requests /\ Read(r)
    BY <1>8 DEF Request
  <2>2. Read(r)'
    <3>1. CASE r.kind = "list"
      <4>1. DOMAIN r.rows \subseteq Jobs
        BY <3>1, <2>1 DEF Read
      <4>2. \A i \in DOMAIN r.rows : r.rows[i] \in 1 .. Len(hist'[i])
        BY <3>1, <2>1, <4>1, <1>4 DEF Read
      <4> QED
        BY <3>1, <2>1, <4>2 DEF Read
    <3>2. CASE r.kind = "detail"
      <4>1. r.job \in Jobs
        BY <3>2, <2>1, KindOfRequest
      <4> QED
        BY <3>2, <2>1, <4>1, <1>4 DEF Read
    <3>3. CASE r.kind = "select"
      <4>1. r.job \in Jobs
        BY <3>3, <2>1, KindOfRequest
      <4> QED
        BY <3>3, <2>1, <4>1, <1>4 DEF Read
    <3>4. CASE r.kind = "control"
      <4>1. r.job \in Jobs
        BY <3>4, <2>1, KindOfRequest
      <4> QED
        BY <3>4, <2>1, <4>1, <1>4 DEF Read
    <3> QED
      BY <3>1, <3>2, <3>3, <3>4, <2>1, KindOfRequest
  <2>3. r.kind = "control" => r.job \in Jobs
    BY <2>1, KindOfRequest
  <2>4. r.kind = "control" /\ r.restarts /\ r.seq # 0 => TookBack(r.job, r.seq)'
    BY <1>8, <2>3, <1>5a DEF Request
  <2> QED
    BY <1>8, <2>1, <2>2, <2>4 DEF Request
<1>9. Progress
  BY <1>1, SameRows
<1>10. Len(hist'[j]) = Len(hist[j]) + 1
  BY <1>1, <1>3
<1>11. ASSUME Current(j) = "stopped", s = "running", NEW n, n = Len(hist[j]) + 1
       PROVE  TookBack(j, n)'
  <2> DEFINE m == Len(hist[j])
  <2>1. m \in Nat \ {0} /\ m \in 1 .. m /\ n - 1 = m
    BY <1>1, <1>11
  <2>2. hist[j][m] = "stopped"
    BY <1>11 DEF Current
  <2>3. /\ n \in DOMAIN hist'[j] /\ m \in DOMAIN hist'[j]
        /\ hist'[j][n] = "running" /\ hist'[j][m] = "stopped"
    BY <1>1, <1>3, <1>11, <2>1, <2>2
  <2> HIDE DEF m
  <2> QED
    BY <2>1, <2>3 DEF TookBack
<1> QED
  BY <1>5, <1>7, <1>8, <1>9, <1>10, <1>11

LEMMA CurrentIsState ==
  ASSUME World, NEW j \in Jobs
  PROVE  Current(j) \in States /\ MayBecome(Current(j)) \subseteq States
<1>1. hist[j] \in Seq(States) /\ hist[j] # <<>>
  BY DEF World
<1>2. Current(j) \in States
  BY <1>1 DEF Current
<1> QED
  BY <1>2 DEF MayBecome, States

LEMMA JobMovesGood ==
  ASSUME Inductive, NEW j \in Jobs, JobMoves(j)
  PROVE  Good
<1>1. PICK s \in MayBecome(Current(j)) : Emit(j, s)
  BY DEF JobMoves
<1>2. s \in States /\ UNCHANGED <<page, ui, wire>>
  BY CurrentIsState DEF JobMoves, Inductive
<1>3. /\ World' /\ SoundUi(ui)' /\ Progress
      /\ \A r : Request(r, ui) => Request(r, ui)'
  BY <1>1, <1>2, EmitKeeps
<1>4. SoundWire(wire, ui)'
  <2>1. SoundWire(wire, ui)
    BY DEF Inductive
  <2>2. \A r \in wire' : Request(r, ui)'
    BY <1>2, <1>3, <2>1 DEF SoundWire
  <2> QED
    BY <1>2, <2>1, <2>2 DEF SoundWire
<1> QED
  BY <1>3, <1>4 DEF Inductive, Good

LEMMA OpenGood ==
  ASSUME Inductive, NEW j \in Jobs, Open(j)
  PROVE  Good
<1>1. /\ World /\ SoundUi(ui) /\ SoundWire(wire, ui)
      /\ page.authenticated /\ j \in DOMAIN ui.jobs
      /\ ui' = OpenRow(ui, j) /\ wire' = LoadIndexJobDetail(wire, j, FALSE)
      /\ UNCHANGED <<hist, page>>
  BY DEF Inductive, Open
<1>2. /\ SoundUi(ui') /\ DOMAIN ui'.jobs = DOMAIN ui.jobs
      /\ \A i \in DOMAIN ui.jobs : ui'.jobs[i].seq = ui.jobs[i].seq
  BY <1>1, OpenKeeps
<1>3. SoundWire(wire', ui')
  <2>1. SoundWire(wire', ui)
    BY <1>1, DetailKeeps
  <2> QED
    BY <1>2, <2>1, AttachedKeeps
<1> QED
  BY <1>1, <1>2, <1>3, BrowserMoves, SameRows DEF Good

LEMMA CloseGood ==
  ASSUME Inductive, NEW j \in Jobs, Close(j)
  PROVE  Good
<1> DEFINE s == StopStream(ui)
<1>1. /\ World /\ SoundUi(ui) /\ SoundWire(wire, ui)
      /\ ui' = [s EXCEPT !.open = {}, !.selected = None]
      /\ UNCHANGED <<hist, page, wire>>
  BY DEF Inductive, Close
<1>2. SoundUi(s) /\ s.jobs = ui.jobs /\ s.session = NoSession
  BY <1>1, StopKeeps
<1> HIDE DEF s
<1>3. s \in Ui
  BY <1>2 DEF SoundUi
<1>4. /\ ui' \in Ui /\ ui'.jobs = ui.jobs /\ ui'.open = {} /\ ui'.selected = None
      /\ ui'.session = NoSession
  BY <1>1, <1>2, <1>3 DEF Ui
<1>5. SoundUi(ui')
  BY <1>1, <1>4, SessionFields DEF SoundUi
<1>6. SoundWire(wire', ui')
  BY <1>1, <1>4, AttachedKeeps
<1> QED
  BY <1>1, <1>4, <1>5, <1>6, BrowserMoves, SameRows DEF Good

LEMMA SelectIndexJobGood ==
  ASSUME Inductive, NEW j \in Jobs, SelectIndexJob(j)
  PROVE  Good
<1> DEFINE r == [kind |-> "select", epoch |-> page.epoch, job |-> j, seq |-> Len(hist[j])]
<1>1. /\ World /\ SoundUi(ui) /\ SoundWire(wire, ui)
      /\ page.authenticated /\ wire' = Sent(wire, r)
      /\ UNCHANGED <<hist, page, ui>>
  BY DEF Inductive, SelectIndexJob
<1>2. hist[j] \in Seq(States) /\ hist[j] # <<>> /\ page.epoch \in Nat
  BY <1>1, IndexJobsAssumption DEF World
<1>3. /\ r \in Requests /\ r.kind = "select" /\ r.job = j /\ r.seq \in 1 .. Len(hist[j])
      /\ r.epoch \in 0 .. page.epoch
  BY <1>2 DEF Requests
<1> HIDE DEF r
<1>4. Request(r, ui)
  BY <1>1, <1>3 DEF Request, Read
<1> QED
  BY <1>1, <1>4, SentKeeps, OnlyRequests

(* The view changed; the account did not. *)
LEMMA SameAccount ==
  ASSUME hist' = hist, page'.epoch = page.epoch, page'.authenticated = page.authenticated,
         SoundWire(wire', ui')
  PROVE  SoundWire(wire, ui)'
BY DEF SoundWire, Request, Read, TookBack

LEMMA LeaveGood ==
  ASSUME Inductive, Leave
  PROVE  Good
<1>1. /\ World /\ SoundUi(ui) /\ SoundWire(wire, ui)
      /\ page' = [page EXCEPT !.view = "away"] /\ ui' = StopStream(ui)
      /\ UNCHANGED <<hist, wire>>
  BY DEF Inductive, Leave
<1>2. SoundUi(ui') /\ ui'.jobs = ui.jobs /\ ui'.session = NoSession
  BY <1>1, StopKeeps
<1>3. World' /\ page'.epoch = page.epoch /\ page'.authenticated = page.authenticated
  BY <1>1 DEF World
<1>4. SoundUi(ui)'
  BY <1>1, <1>2, <1>3, SessionFields DEF SoundUi, Row, Log, Follows, TookBack
<1>5. SoundWire(wire', ui')
  BY <1>1, <1>2, AttachedKeeps
<1>6. SoundWire(wire, ui)'
  BY <1>1, <1>3, <1>5, SameAccount
<1> QED
  BY <1>1, <1>2, <1>3, <1>4, <1>6, SameRows DEF Good, Inductive

LEMMA ReturnGood ==
  ASSUME Inductive, Return
  PROVE  Good
<1>1. /\ World /\ SoundUi(ui) /\ SoundWire(wire, ui) /\ page.view = "away"
      /\ page' = [page EXCEPT !.view = "indexing"] /\ UNCHANGED <<hist, ui>>
      /\ \/ page.authenticated /\ wire' \in RefreshJobs(wire, None)
         \/ wire' = wire
  BY DEF Inductive, Return
<1>2. ui.session.job = None
  BY <1>1 DEF SoundUi, JobIsOpen
<1>3. World' /\ page'.epoch = page.epoch /\ page'.authenticated = page.authenticated
  BY <1>1 DEF World
<1>4. SoundUi(ui)'
  BY <1>1, <1>2, <1>3 DEF SoundUi, Row, Log, Follows, TookBack
<1>5. SoundWire(wire', ui')
  BY <1>1, RefreshKeeps
<1>6. SoundWire(wire, ui)'
  BY <1>1, <1>3, <1>5, SameAccount
<1> QED
  BY <1>1, <1>3, <1>4, <1>6, SameRows DEF Good, Inductive

LEMMA SyncBrowserSessionGood ==
  ASSUME Inductive, SyncBrowserSession
  PROVE  Good
<1>1. PICK on \in BOOLEAN :
         page' = [page EXCEPT !.epoch = page.epoch + 1, !.authenticated = on]
  BY DEF SyncBrowserSession, Inductive, World
<1>2. /\ World /\ SoundUi(ui) /\ SoundWire(wire, ui) /\ page.epoch < MaxEpochs
      /\ ui' = Cleared /\ wire' = Released(wire, ui, Cleared) /\ hist' = hist
  BY DEF Inductive, SyncBrowserSession
<1>3. World' /\ page'.epoch = page.epoch + 1 /\ page.epoch \in Nat
  <2>1. /\ page \in [view : {"indexing", "away"}, authenticated : BOOLEAN, epoch : 0 .. MaxEpochs]
        /\ MaxEpochs \in Nat
    BY <1>2, IndexJobsAssumption DEF World
  <2>2. /\ page.view \in {"indexing", "away"} /\ page.epoch \in Nat
        /\ page.epoch + 1 \in 0 .. MaxEpochs
    BY <1>2, <2>1
  <2>3. page' = [view |-> page.view, authenticated |-> on, epoch |-> page.epoch + 1]
    BY <1>1, <2>1
  <2>4. /\ page' \in [view : {"indexing", "away"}, authenticated : BOOLEAN, epoch : 0 .. MaxEpochs]
        /\ page'.epoch = page.epoch + 1
    BY <2>2, <2>3
  <2> QED
    BY <1>2, <2>2, <2>4 DEF World
<1>4. /\ Cleared.jobs = NoRows /\ DOMAIN NoRows = {} /\ Cleared.open = {}
      /\ Cleared.selected = None /\ Cleared.session.job = None /\ Cleared \in Ui
  <2>1. Cleared \in Ui
    BY ClearedIsSound DEF SoundUi
  <2>2. DOMAIN NoRows = {}
    BY DEF NoRows
  <2> QED
    BY <2>1, <2>2, SessionFields DEF Cleared
<1>5. SoundUi(ui)'
  BY <1>2, <1>4 DEF SoundUi
<1>6. SoundWire(wire', Cleared)
  BY <1>2, ReleasedKeeps
<1>7. SoundWire(wire, ui)'
  <2>1. ASSUME NEW r \in wire' PROVE Request(r, ui)'
    <3>1. Request(r, Cleared)
      BY <1>6 DEF SoundWire
    <3>2. r.epoch \in 0 .. page.epoch
      BY <3>1 DEF Request, Read
    <3>3. r.epoch \in 0 .. page'.epoch /\ r.epoch # page'.epoch
      BY <3>2, <1>3
    <3>4. Read(r)'
      BY <3>1, <3>3, <1>2 DEF Request, Read
    <3> QED
      BY <3>1, <3>3, <3>4, <1>2 DEF Request, TookBack
  <2> QED
    BY <1>6, <2>1 DEF SoundWire
<1>8. Progress
  BY <1>2, <1>4 DEF Progress
<1> QED
  BY <1>3, <1>5, <1>7, <1>8 DEF Good, Inductive

LEMMA PollGood ==
  ASSUME Inductive, Poll
  PROVE  Good
<1>1. /\ World /\ SoundUi(ui) /\ SoundWire(wire, ui) /\ page.authenticated
      /\ wire' \in RefreshJobs(wire, None) /\ UNCHANGED <<hist, page, ui>>
  BY DEF Inductive, Poll
<1> QED
  BY <1>1, RefreshKeeps, OnlyRequests

LEMMA PollJobTelemetryGood ==
  ASSUME Inductive, NEW j \in Jobs, PollJobTelemetry(j)
  PROVE  Good
<1>1. /\ World /\ SoundUi(ui) /\ SoundWire(wire, ui)
      /\ page.authenticated /\ j \in DOMAIN ui.jobs
      /\ wire' = LoadIndexJobDetail(wire, j, FALSE)
      /\ UNCHANGED <<hist, page, ui>>
  BY DEF Inductive, PollJobTelemetry, JobIsOpen
<1> QED
  BY <1>1, DetailKeeps, OnlyRequests

(* A command: its answer carries the event it made, or none. *)
LEMMA ControlIndexJobGood ==
  ASSUME Inductive, NEW j \in Jobs, ControlIndexJob(j)
  PROVE  Good
<1>1. /\ World /\ SoundUi(ui) /\ SoundWire(wire, ui)
      /\ page.authenticated /\ j \in DOMAIN ui.jobs /\ UNCHANGED <<page, ui>>
  BY DEF Inductive, ControlIndexJob, JobIsOpen
<1>2. hist[j] \in Seq(States) /\ hist[j] # <<>> /\ page.epoch \in Nat /\ Len(hist[j]) \in Nat
  BY <1>1, IndexJobsAssumption DEF World
<1> DEFINE r(n, restarts) == [kind |-> "control", epoch |-> page.epoch, job |-> j,
                              seq |-> n, restarts |-> restarts, held |-> "entry"]
<1>3. ASSUME NEW n \in Nat, NEW restarts \in BOOLEAN
      PROVE  /\ r(n, restarts) \in Requests /\ r(n, restarts).kind = "control"
             /\ r(n, restarts).job = j /\ r(n, restarts).epoch = page.epoch
             /\ r(n, restarts).seq = n /\ r(n, restarts).held = "entry"
             /\ r(n, restarts).restarts = restarts
  BY <1>2 DEF Requests
<1>4. PICK s \in IndexActions(ui.jobs[j].state) :
        LET restarts == s = "running" IN
        \/ /\ MayEmit(j) /\ s \in MayBecome(Current(j)) /\ (restarts => Current(j) = "stopped")
           /\ Emit(j, s)
           /\ wire' = Sent(wire, r(Len(hist[j]) + 1, restarts))
        \/ /\ ui.jobs[j].state = "stopped" \/ Current(j) # ui.jobs[j].state
           /\ wire' = Sent(wire, r(0, restarts))
           /\ UNCHANGED hist
  BY DEF ControlIndexJob
<1>5. CASE /\ s \in MayBecome(Current(j)) /\ Emit(j, s)
           /\ s = "running" => Current(j) = "stopped"
           /\ wire' = Sent(wire, r(Len(hist[j]) + 1, s = "running"))
  <2>1. s \in States
    BY <1>1, <1>5, CurrentIsState
  <2>2. /\ World' /\ SoundUi(ui)' /\ Progress
        /\ \A x : Request(x, ui) => Request(x, ui)'
        /\ Len(hist'[j]) = Len(hist[j]) + 1
        /\ s = "running" => \A n : n = Len(hist[j]) + 1 => TookBack(j, n)'
    BY <1>1, <1>5, <2>1, EmitKeeps
  <2>3. PICK x : x = r(Len(hist[j]) + 1, s = "running")
    OBVIOUS
  <2>4. /\ x \in Requests /\ x.kind = "control" /\ x.job = j /\ x.epoch = page.epoch
        /\ x.seq = Len(hist[j]) + 1 /\ x.held = "entry" /\ x.restarts = (s = "running")
    <3>1. Len(hist[j]) + 1 \in Nat /\ (s = "running") \in BOOLEAN
      BY <1>2
    <3> HIDE DEF r
    <3> QED
      BY <1>3, <2>3, <3>1
  <2>5. wire' = Sent(wire, x)
    BY <1>5, <2>3
  <2> HIDE DEF r
  <2>6. Request(x, ui)'
    <3>1. x.seq \in 0 .. Len(hist'[j]) /\ x.epoch \in 0 .. page'.epoch
      BY <1>1, <1>2, <2>2, <2>4
    <3>2. Read(x)'
      BY <2>4, <3>1 DEF Read
    <3>3. x.restarts => TookBack(x.job, x.seq)'
      BY <2>2, <2>4
    <3> QED
      BY <1>1, <2>4, <3>2, <3>3 DEF Request
  <2>7. /\ IsFiniteSet(Sent(wire, x)) /\ Cardinality(Sent(wire, x)) <= MaxWire
        /\ Sent(wire, x) \subseteq wire \cup {x}
    <3>1. CASE Cardinality(wire) < MaxWire
      <4>1. Sent(wire, x) = wire \cup {x}
        BY <3>1 DEF Sent
      <4>2. /\ IsFiniteSet(wire \cup {x}) /\ Cardinality(wire) \in Nat /\ MaxWire \in Nat
            /\ \/ Cardinality(wire \cup {x}) = Cardinality(wire)
               \/ Cardinality(wire \cup {x}) = Cardinality(wire) + 1
        BY <1>1, FS_AddElement, FS_CardinalityType, IndexJobsAssumption DEF SoundWire
      <4>3. Cardinality(wire \cup {x}) <= MaxWire
        BY <3>1, <4>2
      <4> QED
        BY <4>1, <4>2, <4>3
    <3>2. CASE ~(Cardinality(wire) < MaxWire)
      BY <3>2, <1>1 DEF Sent, SoundWire
    <3> QED
      BY <3>1, <3>2
  <2>8. \A y \in wire' : Request(y, ui)'
    BY <1>1, <2>2, <2>5, <2>6, <2>7 DEF SoundWire
  <2>9. SoundWire(wire, ui)'
    BY <2>5, <2>7, <2>8 DEF SoundWire
  <2> QED
    BY <2>2, <2>9 DEF Good, Inductive
<1>6. CASE wire' = Sent(wire, r(0, s = "running")) /\ UNCHANGED hist
  <2>1. PICK x : x = r(0, s = "running")
    OBVIOUS
  <2>2. /\ x \in Requests /\ x.kind = "control" /\ x.job = j /\ x.epoch = page.epoch
        /\ x.seq = 0 /\ x.held = "entry" /\ x.restarts \in BOOLEAN
    <3>1. (s = "running") \in BOOLEAN /\ 0 \in Nat
      OBVIOUS
    <3> HIDE DEF r
    <3> QED
      BY <1>3, <2>1, <3>1
  <2>3. wire' = Sent(wire, x)
    BY <1>6, <2>1
  <2> HIDE DEF r
  <2>4. Request(x, ui)
    BY <1>1, <1>2, <2>2 DEF Request, Read
  <2> QED
    BY <1>1, <1>6, <2>3, <2>4, SentKeeps, OnlyRequests
<1> QED
  BY <1>4, <1>5, <1>6

-----------------------------------------------------------------------------
(* The answers *)

(* What a handler knows of the answer that it takes from the wire. *)
LEMMA TakenFromWire ==
  ASSUME Inductive, NEW r \in wire
  PROVE  /\ World /\ SoundUi(ui) /\ SoundWire(wire \ {r}, ui)
         /\ Request(r, ui) /\ r \in Requests /\ Read(r)
         /\ Heeded(r) => page.authenticated /\ r.epoch = page.epoch
<1>1. World /\ SoundUi(ui) /\ SoundWire(wire, ui)
  BY DEF Inductive
<1>2. SoundWire(wire \ {r}, ui)
  BY <1>1, SubsetKeeps
<1> QED
  BY <1>1, <1>2 DEF SoundWire, Request, Heeded

LEMMA IgnoredGood ==
  ASSUME Inductive, NEW r, Ignored(r)
  PROVE  Good
<1>1. r \in wire /\ wire' = wire \ {r} /\ UNCHANGED <<hist, page, ui>>
  BY DEF Ignored
<1> QED
  BY <1>1, TakenFromWire, OnlyRequests

LEMMA ReadFailsGood ==
  ASSUME Inductive, NEW r, ReadFails(r)
  PROVE  Good
<1>1. r \in wire /\ wire' = wire \ {r} /\ UNCHANGED <<hist, page, ui>>
  BY DEF ReadFails
<1> QED
  BY <1>1, TakenFromWire, OnlyRequests

LEMMA ListAnswersGood ==
  ASSUME Inductive, NEW r, ListAnswers(r)
  PROVE  Good
<1> DEFINE left == Released(wire \ {r}, ui, ui')
<1>1. /\ r \in wire /\ r.kind = "list" /\ Heeded(r) /\ UNCHANGED <<hist, page>>
      /\ ui' = RenderJobs(ui, r.rows, r.epoch)
      /\ wire' = IF r.then # None /\ r.then \in ui'.open
                 THEN LoadIndexJobDetail(left, r.then, TRUE) ELSE left
  BY DEF ListAnswers
<1>2. /\ World /\ SoundUi(ui) /\ SoundWire(wire \ {r}, ui) /\ r \in Requests /\ Read(r)
      /\ page.authenticated /\ r.epoch = page.epoch
  BY <1>1, TakenFromWire
<1>3. Recorded(r.rows)
  <2>1. r.rows \in Rows(Nat)
    BY <1>1, <1>2, KindOfRequest
  <2>2. \A j \in DOMAIN r.rows : r.rows[j] \in 1 .. Len(hist[j])
    BY <1>1, <1>2 DEF Read
  <2> QED
    BY <2>1, <2>2 DEF Recorded
<1>4. /\ SoundUi(ui')
      /\ \A j \in DOMAIN ui.jobs \cap DOMAIN ui'.jobs : ui'.jobs[j].seq >= ui.jobs[j].seq
  BY <1>1, <1>2, <1>3, RenderKeeps
<1>5. SoundWire(left, ui')
  BY <1>2, ReleasedKeeps
<1> HIDE DEF left
<1>6. SoundWire(wire', ui')
  <2>1. ASSUME r.then \in ui'.open PROVE r.then \in Jobs /\ r.then \in DOMAIN ui'.jobs
    <3>1. r.then \in DOMAIN ui'.jobs /\ ui' \in Ui
      BY <1>4, <2>1 DEF SoundUi
    <3> QED
      BY <3>1, UiFields
  <2>2. ASSUME r.then \in ui'.open
        PROVE  SoundWire(LoadIndexJobDetail(left, r.then, TRUE), ui')
    BY <1>2, <1>5, <2>1, <2>2, DetailKeeps
  <2> QED
    BY <1>1, <1>5, <2>2
<1> QED
  BY <1>1, <1>2, <1>4, <1>6, BrowserMoves DEF Good, Progress

LEMMA DetailAnswersGood ==
  ASSUME Inductive, NEW r, DetailAnswers(r)
  PROVE  Good
<1> DEFINE e == MergeIndexRecord(ui.jobs[r.job], r.job, r.seq)
           merged == IF JobIsOpen(ui, r.job) THEN [ui EXCEPT !.jobs[r.job] = e] ELSE ui
<1>1. /\ r \in wire /\ r.kind = "detail" /\ Heeded(r) /\ UNCHANGED <<hist, page>>
      /\ wire' = wire \ {r}
  BY DEF DetailAnswers
<1>2. /\ World /\ SoundUi(ui) /\ SoundWire(wire \ {r}, ui) /\ r \in Requests /\ Read(r)
      /\ Request(r, ui)
  BY <1>1, TakenFromWire
<1>3. r.job \in Jobs /\ r.job \in DOMAIN ui.jobs /\ r.seq \in 1 .. Len(hist[r.job])
  BY <1>1, <1>2, KindOfRequest DEF Request, Read
<1>4. ui \in Ui /\ Row(ui.jobs[r.job], r.job)
  BY <1>2, <1>3 DEF SoundUi
<1>5. Row(e, r.job) /\ e.last = ui.jobs[r.job].last /\ e.seq >= ui.jobs[r.job].seq
  BY <1>2, <1>3, <1>4, MergeKeeps
<1>6. ui' = IF r.again /\ ui.session = NoSession THEN StartJobStream(merged, r.job) ELSE merged
  BY <1>4 DEF DetailAnswers, Ui
<1> HIDE DEF e
<1>7. /\ SoundUi(merged) /\ DOMAIN merged.jobs = DOMAIN ui.jobs
      /\ \A j \in DOMAIN ui.jobs : merged.jobs[j].seq >= ui.jobs[j].seq
  <2>1. \A j \in DOMAIN ui.jobs : ui.jobs[j].seq \in Nat
    BY <1>2 DEF SoundUi, Row, Entry
  <2>2. CASE JobIsOpen(ui, r.job)
    <3>1. ui.session.job = r.job => /\ e.last # Fresh
                                    /\ ui.session.at = "reading" => ui.session.pos = e.last
      BY <1>2, <1>3, <1>5, IndexJobsAssumption DEF SoundUi
    <3>2. PICK v : v = [ui EXCEPT !.jobs[r.job] = e]
      OBVIOUS
    <3>3. /\ SoundUi(v) /\ DOMAIN v.jobs = DOMAIN ui.jobs /\ v.jobs[r.job] = e
          /\ \A i \in DOMAIN ui.jobs : i # r.job => v.jobs[i] = ui.jobs[i]
      BY <1>2, <1>3, <1>5, <3>1, <3>2, RowKeeps
    <3>4. merged = v
      BY <2>2, <3>2
    <3> HIDE DEF merged
    <3> QED
      BY <1>5, <2>1, <3>3, <3>4
  <2>3. CASE ~JobIsOpen(ui, r.job)
    BY <1>2, <2>1, <2>3
  <2> QED
    BY <2>2, <2>3
<1> HIDE DEF merged
<1>8. /\ SoundUi(ui') /\ DOMAIN ui'.jobs = DOMAIN ui.jobs
      /\ \A j \in DOMAIN ui.jobs : ui'.jobs[j].seq >= ui.jobs[j].seq
  BY <1>2, <1>6, <1>7, StartKeeps
<1>9. SoundWire(wire', ui')
  BY <1>1, <1>2, <1>8, AttachedKeeps
<1> QED
  BY <1>1, <1>2, <1>8, <1>9, BrowserMoves DEF Good, Progress

LEMMA SelectAnswersGood ==
  ASSUME Inductive, NEW r, SelectAnswers(r)
  PROVE  Good
<1> DEFINE known == [j \in DOMAIN ui.jobs \cup {r.job} |->
                       IF j = r.job THEN r.seq ELSE ui.jobs[j].seq]
           v == RenderJobs(ui, known, r.epoch)
<1>1. /\ r \in wire /\ r.kind = "select" /\ Heeded(r) /\ UNCHANGED <<hist, page>>
      /\ ui' = OpenRow(v, r.job)
      /\ wire' = LoadIndexJobDetail(wire \ {r}, r.job, FALSE)
  BY DEF SelectAnswers
<1>2. /\ World /\ SoundUi(ui) /\ SoundWire(wire \ {r}, ui) /\ r \in Requests /\ Read(r)
      /\ page.authenticated /\ r.epoch = page.epoch
  BY <1>1, TakenFromWire
<1>3. r.job \in Jobs /\ r.seq \in Nat /\ r.seq \in 1 .. Len(hist[r.job])
  BY <1>1, <1>2, KindOfRequest DEF Read
<1>4. DOMAIN ui.jobs \subseteq Jobs /\ \A j \in DOMAIN ui.jobs : Row(ui.jobs[j], j)
  BY <1>2, UiFields DEF SoundUi
<1>5. Recorded(known) /\ DOMAIN known = DOMAIN ui.jobs \cup {r.job}
  <2>1. \A j \in DOMAIN ui.jobs : ui.jobs[j].seq \in Nat /\ ui.jobs[j].seq \in 1 .. Len(hist[j])
    BY <1>4 DEF Row, Entry
  <2>2. /\ known \in [DOMAIN ui.jobs \cup {r.job} -> Nat]
        /\ DOMAIN ui.jobs \cup {r.job} \in SUBSET Jobs
    BY <1>3, <1>4, <2>1
  <2>3. known \in Rows(Nat)
    BY <2>2, RowsIntro
  <2>4. \A j \in DOMAIN known : known[j] \in 1 .. Len(hist[j])
    BY <1>3, <2>1
  <2> QED
    BY <2>3, <2>4 DEF Recorded
<1> HIDE DEF known
<1>6. /\ SoundUi(v) /\ DOMAIN v.jobs = DOMAIN ui.jobs \cup {r.job}
      /\ \A j \in DOMAIN ui.jobs : v.jobs[j].seq >= ui.jobs[j].seq
  BY <1>2, <1>5, RenderKeeps, ZenonT(30)
<1> HIDE DEF v
<1>7. /\ SoundUi(ui') /\ DOMAIN ui'.jobs = DOMAIN v.jobs
      /\ \A j \in DOMAIN v.jobs : ui'.jobs[j].seq = v.jobs[j].seq
  BY <1>1, <1>2, <1>6, OpenKeeps
<1>8. SoundWire(wire', ui')
  <2>1. SoundWire(wire \ {r}, ui')
    BY <1>2, <1>6, <1>7, AttachedKeeps
  <2> QED
    BY <1>1, <1>2, <1>3, <1>6, <1>7, <2>1, DetailKeeps
<1> QED
  BY <1>1, <1>2, <1>6, <1>7, <1>8, BrowserMoves DEF Good, Progress

(* The row whose retry or resume was accepted. *)
LEMMA RestartedRow ==
  ASSUME NEW j, NEW e, Row(e, j), NEW n \in Nat \ {0}, TookBack(j, n)
  PROVE  Row(Restarted(e, n), j) /\ Restarted(e, n).seq = e.seq
<1> DEFINE f == Restarted(e, n)
           l == Append(e.log, Restart)
<1>1. e \in Entry /\ n - 1 \in Nat /\ e.log \in Seq(Nat) /\ Log(e.log, e.last, j)
  BY DEF Row, Entry
<1>2. l \in Seq(Nat) /\ Log(l, n - 1, j)
  BY <1>1, LogRestarts
<1>3. f = [e EXCEPT !.historyComplete = FALSE, !.streamBlocked = FALSE,
                    !.last = n - 1, !.log = l]
  BY <1>1 DEF Restarted, Entry
<1> HIDE DEF f, l
<1>4. /\ f \in Entry /\ f.seq = e.seq /\ f.state = e.state /\ f.by = e.by
      /\ f.log = l /\ f.last = n - 1
  <2> DEFINE g == [e EXCEPT !.historyComplete = FALSE, !.streamBlocked = FALSE]
             h == [g EXCEPT !.last = n - 1]
  <2>1. g \in Entry /\ g.seq = e.seq /\ g.state = e.state /\ g.by = e.by
    BY <1>1 DEF Entry
  <2>2. f = [h EXCEPT !.log = l]
    BY <1>3
  <2> HIDE DEF g
  <2>3. h \in Entry /\ h.seq = e.seq /\ h.state = e.state /\ h.by = e.by /\ h.last = n - 1
    BY <1>1, <2>1 DEF Entry
  <2> HIDE DEF h
  <2> QED
    BY <1>2, <2>2, <2>3 DEF Entry
<1>5. Row(f, j)
  BY <1>2, <1>4 DEF Row
<1> QED
  BY <1>4, <1>5 DEF f

LEMMA ControlAnswersGood ==
  ASSUME Inductive, NEW r, ControlAnswers(r)
  PROVE  Good
<1> DEFINE rowOpen == r.held = "open" \/ (r.held = "entry" /\ r.job \in ui.open)
           stopped == IF r.restarts /\ rowOpen THEN StopStream(ui) ELSE ui
           merged  == MergeIndexRecord(stopped.jobs[r.job], r.job, r.seq)
           row     == IF r.restarts THEN Restarted(merged, r.seq) ELSE merged
           then    == IF r.seq > 0 /\ r.held = "entry" THEN r.job ELSE None
<1>1. /\ r \in wire /\ r.kind = "control" /\ Heeded(r) /\ UNCHANGED <<hist, page>>
      /\ ui' = IF r.seq = 0 THEN ui
               ELSE IF r.held # "entry" THEN stopped
               ELSE [stopped EXCEPT !.jobs[r.job] = row]
      /\ wire' \in RefreshJobs(wire \ {r}, then)
  BY DEF ControlAnswers
<1>2. /\ World /\ SoundUi(ui) /\ SoundWire(wire \ {r}, ui) /\ r \in Requests /\ Read(r)
      /\ Request(r, ui) /\ page.authenticated
  BY <1>1, TakenFromWire
<1>3. /\ r.job \in Jobs /\ r.seq \in Nat /\ r.seq \in 0 .. Len(hist[r.job])
      /\ r.held = "entry" => r.job \in DOMAIN ui.jobs
  BY <1>1, <1>2, KindOfRequest DEF Request, Read
<1>4. SoundUi(stopped) /\ stopped.jobs = ui.jobs /\ stopped.open = ui.open
  BY <1>2, StopKeeps
<1>5. \A j \in DOMAIN ui.jobs : ui.jobs[j].seq \in Nat /\ Row(ui.jobs[j], j)
  BY <1>2 DEF SoundUi, Row, Entry
<1>6. /\ SoundUi(ui') /\ DOMAIN ui'.jobs = DOMAIN ui.jobs
      /\ \A j \in DOMAIN ui.jobs : ui'.jobs[j].seq >= ui.jobs[j].seq
  <2>1. CASE r.seq = 0
    BY <2>1, <1>1, <1>2, <1>5
  <2>2. CASE r.seq # 0 /\ r.held # "entry"
    BY <2>2, <1>1, <1>4, <1>5
  <2>3. CASE r.seq # 0 /\ r.held = "entry"
    <3>1. /\ Row(stopped.jobs[r.job], r.job) /\ r.seq \in 1 .. Len(hist[r.job])
          /\ r.job \in DOMAIN stopped.jobs
      BY <2>3, <1>3, <1>4, <1>5
    <3> DEFINE old == ui.jobs[r.job]
    <3>2. /\ Row(merged, r.job) /\ merged.last = old.last /\ merged.seq >= old.seq
      BY <1>2, <1>3, <1>4, <3>1, MergeKeeps
    <3>3. ASSUME r.restarts, stopped.session.job = r.job PROVE FALSE
      <4>1. r.job # None /\ NoSession.job = None
        BY <1>3, IndexJobsAssumption DEF NoSession
      <4>2. r.job \in stopped.open
        BY <1>4, <3>3, <4>1 DEF SoundUi, JobIsOpen
      <4>3. rowOpen
        BY <2>3, <1>4, <4>2
      <4>4. stopped = StopStream(ui)
        BY <3>3, <4>3
      <4>5. stopped.session = NoSession
        BY <1>2, <4>4, StopKeeps
      <4> QED
        BY <3>3, <4>1, <4>5
    <3> HIDE DEF merged, stopped
    <3>4. Row(row, r.job) /\ row.seq = merged.seq
      <4>1. CASE r.restarts
        <5>1. r.seq \in Nat \ {0} /\ TookBack(r.job, r.seq)
          BY <4>1, <2>3, <1>1, <1>2, <1>3 DEF Request
        <5> QED
          BY <4>1, <5>1, <3>2, RestartedRow, ZenonT(30)
      <4>2. CASE ~r.restarts
        BY <4>2, <3>2
      <4> QED
        BY <4>1, <4>2
    <3>5. stopped.session.job = r.job =>
             row.last # Fresh /\ (stopped.session.at = "reading" => stopped.session.pos = row.last)
      <4>1. ASSUME stopped.session.job = r.job
            PROVE  row.last # Fresh /\ (stopped.session.at = "reading" => stopped.session.pos = row.last)
        <5>1. row = merged
          BY <3>3, <4>1
        <5>2. r.job # None
          BY <1>3, IndexJobsAssumption
        <5> HIDE DEF row
        <5> QED
          BY <1>4, <3>2, <4>1, <5>1, <5>2 DEF SoundUi
      <4> QED
        BY <4>1
    <3> HIDE DEF row
    <3>6. PICK v : v = [stopped EXCEPT !.jobs[r.job] = row]
      OBVIOUS
    <3>7. /\ SoundUi(v) /\ DOMAIN v.jobs = DOMAIN stopped.jobs /\ v.jobs[r.job] = row
          /\ \A i \in DOMAIN stopped.jobs : i # r.job => v.jobs[i] = stopped.jobs[i]
      BY <1>4, <3>1, <3>4, <3>5, <3>6, RowKeeps
    <3>8. ui' = v
      BY <1>1, <2>3, <3>6
    <3> QED
      BY <1>4, <1>5, <3>2, <3>4, <3>7, <3>8
  <2> QED
    BY <2>1, <2>2, <2>3
<1> HIDE DEF stopped, row
<1>7. SoundWire(wire', ui')
  <2>1. then \in Jobs \cup {None} /\ (then # None => then \in DOMAIN ui.jobs)
    BY <1>3
  <2> HIDE DEF then
  <2>2. SoundWire(wire', ui)
    BY <1>1, <1>2, <2>1, RefreshKeeps
  <2> QED
    BY <1>6, <2>2, AttachedKeeps
<1> QED
  BY <1>1, <1>2, <1>6, <1>7, BrowserMoves DEF Good, Progress

-----------------------------------------------------------------------------
(* The stream *)

(* What holds while a job is followed. *)
LEMMA FollowedFacts ==
  ASSUME Inductive, ui.session.at # "none"
  PROVE  /\ World /\ SoundUi(ui) /\ SoundWire(wire, ui) /\ ui \in Ui
         /\ ui.session \in Session /\ Followed = ui.session.job /\ Followed # None
         /\ Followed \in DOMAIN ui.jobs /\ Followed \in Jobs /\ JobIsOpen(ui, Followed)
         /\ page.authenticated
         /\ Row(ui.jobs[Followed], Followed) /\ ui.jobs[Followed] \in Entry
         /\ ui.jobs[Followed].last \in Nat /\ ui.jobs[Followed].last # Fresh
         /\ ui.session.at = "reading" => ui.session.pos = ui.jobs[Followed].last
         /\ \A j \in DOMAIN ui.jobs : ui.jobs[j].seq \in Nat
<1>1. World /\ SoundUi(ui) /\ SoundWire(wire, ui)
  BY DEF Inductive
<1>2. ui \in Ui /\ ui.session \in Session
  BY <1>1, UiFields, SessionFields DEF SoundUi
<1>3. Followed \in Jobs /\ Followed # None
  BY <1>2, SessionFields DEF Followed
<1>4. /\ JobIsOpen(ui, Followed) /\ Followed \in DOMAIN ui.jobs /\ page.authenticated
      /\ ui.jobs[Followed].last # Fresh
      /\ ui.session.at = "reading" => ui.session.pos = ui.jobs[Followed].last
  BY <1>1, <1>3 DEF SoundUi, JobIsOpen, Followed
<1>5. Row(ui.jobs[Followed], Followed) /\ \A j \in DOMAIN ui.jobs : ui.jobs[j].seq \in Nat
  BY <1>1, <1>4 DEF SoundUi, Row, Entry
<1>6. ui.jobs[Followed] \in Entry
  BY <1>5 DEF Row
<1>7. ui.jobs[Followed].last \in Nat
  BY <1>4, <1>6 DEF Entry
<1> QED
  BY <1>1, <1>2, <1>3, <1>4, <1>5, <1>6, <1>7 DEF Followed

(* Only the session moved. *)
LEMMA SessionMoves ==
  ASSUME Inductive, ui.session.at # "none", NEW s \in Session, s.job = Followed,
         s.at = "reading" => s.pos = ui.jobs[Followed].last,
         ui' = [ui EXCEPT !.session = s], UNCHANGED <<hist, page, wire>>
  PROVE  Good
<1>1. /\ World /\ SoundUi(ui) /\ SoundWire(wire, ui) /\ ui \in Ui
      /\ JobIsOpen(ui, Followed) /\ ui.jobs[Followed].last # Fresh
  BY FollowedFacts
<1>2. /\ ui' \in Ui /\ ui'.jobs = ui.jobs /\ ui'.open = ui.open
      /\ ui'.selected = ui.selected /\ ui'.session = s
  BY <1>1 DEF Ui
<1>3. SoundUi(ui')
  BY <1>1, <1>2 DEF SoundUi, JobIsOpen
<1>4. SoundWire(wire', ui')
  BY <1>1, <1>2, AttachedKeeps
<1> QED
  BY <1>1, <1>2, <1>3, <1>4, BrowserMoves, SameRows DEF Good

LEMMA ConnectsGood ==
  ASSUME Inductive, Connects
  PROVE  Good
<1> DEFINE s == [ui.session EXCEPT !.at = "reading", !.pos = ui.jobs[Followed].last]
<1>1. /\ ui.session.at = "connecting" /\ UNCHANGED <<hist, page, wire>>
      /\ ui' = [ui EXCEPT !.session.at = "reading", !.session.pos = ui.jobs[Followed].last]
  BY DEF Connects
<1>2. /\ ui.session.at # "none" /\ ui \in Ui /\ ui.session \in Session
      /\ Followed = ui.session.job /\ ui.jobs[Followed].last \in Nat
  BY <1>1, FollowedFacts
<1>3. ui' = [ui EXCEPT !.session = s]
  BY <1>1, <1>2 DEF Ui
<1>4. s \in Session /\ s.job = Followed /\ s.at = "reading" /\ s.pos = ui.jobs[Followed].last
  BY <1>2 DEF Session
<1> HIDE DEF s
<1> QED
  BY <1>1, <1>2, <1>3, <1>4, SessionMoves

LEMMA ReconnectsGood ==
  ASSUME Inductive, Reconnects
  PROVE  Good
<1> DEFINE s == [ui.session EXCEPT !.at = "connecting"]
<1>1. /\ ui.session.at = "waiting" /\ UNCHANGED <<hist, page, wire>>
      /\ ui' = [ui EXCEPT !.session.at = "connecting"]
  BY DEF Reconnects
<1>2. /\ ui.session.at # "none" /\ ui \in Ui /\ ui.session \in Session
      /\ Followed = ui.session.job
  BY <1>1, FollowedFacts
<1>3. ui' = [ui EXCEPT !.session = s]
  BY <1>1, <1>2 DEF Ui
<1>4. s \in Session /\ s.job = Followed /\ s.at = "connecting"
  BY <1>2 DEF Session
<1> HIDE DEF s
<1> QED
  BY <1>1, <1>2, <1>3, <1>4, SessionMoves

(* The stream was stopped, and a flag of its row set. *)
LEMMA FlagKeeps ==
  ASSUME Inductive, ui.session.at # "none", NEW e, Row(e, Followed),
         e.seq = ui.jobs[Followed].seq,
         ui' = [StopStream(ui) EXCEPT !.jobs[Followed] = e], UNCHANGED <<hist, page, wire>>
  PROVE  Good
<1> DEFINE s == StopStream(ui)
           j == Followed
<1>1. /\ World /\ SoundUi(ui) /\ SoundWire(wire, ui) /\ j # None /\ j \in DOMAIN ui.jobs
  BY FollowedFacts
<1>2. SoundUi(s) /\ s.jobs = ui.jobs /\ s.session = NoSession
  BY <1>1, StopKeeps
<1> HIDE DEF s, j
<1>3. PICK v : v = [s EXCEPT !.jobs[j] = e]
  OBVIOUS
<1>4. s.session.job # j
  BY <1>1, <1>2, SessionFields
<1>5. /\ SoundUi(v) /\ DOMAIN v.jobs = DOMAIN ui.jobs /\ v.jobs[j] = e
      /\ \A i \in DOMAIN ui.jobs : i # j => v.jobs[i] = ui.jobs[i]
  <2>1. Row(e, j)
    BY DEF j
  <2> QED
    BY <1>1, <1>2, <1>3, <1>4, <2>1, RowKeeps
<1>6. ui' = v
  BY <1>3 DEF s, j
<1>7. \A i \in DOMAIN ui.jobs : ui'.jobs[i].seq = ui.jobs[i].seq
  BY <1>1, <1>5, <1>6 DEF j
<1>8. SoundWire(wire', ui')
  BY <1>1, <1>5, <1>6, AttachedKeeps
<1> QED
  BY <1>1, <1>5, <1>6, <1>7, <1>8, BrowserMoves, SameRows DEF Good

LEMMA ConnectionRefusedGood ==
  ASSUME Inductive, ConnectionRefused
  PROVE  Good
<1> DEFINE e == [ui.jobs[Followed] EXCEPT !.streamBlocked = TRUE]
<1>1. /\ ui.session.at = "connecting" /\ UNCHANGED <<hist, page, wire>>
      /\ ui' = [StopStream(ui) EXCEPT !.jobs[Followed].streamBlocked = TRUE]
  BY DEF ConnectionRefused
<1>2. /\ ui.session.at # "none" /\ ui \in Ui /\ SoundUi(ui) /\ Followed \in DOMAIN ui.jobs
      /\ Row(ui.jobs[Followed], Followed) /\ ui.jobs[Followed] \in Entry
  BY <1>1, FollowedFacts
<1>3. ui' = [StopStream(ui) EXCEPT !.jobs[Followed] = e]
  <2>1. StopStream(ui).jobs = ui.jobs /\ StopStream(ui) \in Ui
    BY <1>2, StopKeeps DEF SoundUi
  <2> QED
    BY <1>1, <2>1 DEF Ui
<1>4. /\ e \in Entry /\ e.seq = ui.jobs[Followed].seq /\ e.state = ui.jobs[Followed].state
      /\ e.by = ui.jobs[Followed].by /\ e.log = ui.jobs[Followed].log
      /\ e.last = ui.jobs[Followed].last
  BY <1>2 DEF Entry
<1> HIDE DEF e
<1>5. Row(e, Followed)
  BY <1>2, <1>4 DEF Row
<1> QED
  BY <1>1, <1>2, <1>3, <1>4, <1>5, FlagKeeps

LEMMA StreamEndsGood ==
  ASSUME Inductive, StreamEnds
  PROVE  Good
<1> DEFINE over == ui.session.terminal \/ TerminalIndexState(ui.jobs[Followed].state)
           e == [ui.jobs[Followed] EXCEPT !.historyComplete = TRUE]
           s == [ui.session EXCEPT !.at = "waiting"]
<1>1. /\ ui.session.at # "none" /\ UNCHANGED <<hist, page, wire>>
      /\ ui' = IF over THEN [StopStream(ui) EXCEPT !.jobs[Followed].historyComplete = TRUE]
               ELSE [ui EXCEPT !.session.at = "waiting"]
  BY DEF StreamEnds
<1>2. /\ ui \in Ui /\ SoundUi(ui) /\ Followed \in DOMAIN ui.jobs
      /\ ui.session \in Session /\ Followed = ui.session.job
      /\ Row(ui.jobs[Followed], Followed) /\ ui.jobs[Followed] \in Entry
  BY <1>1, FollowedFacts
<1>3. CASE over
  <2>1. ui' = [StopStream(ui) EXCEPT !.jobs[Followed] = e]
    <3>1. StopStream(ui).jobs = ui.jobs /\ StopStream(ui) \in Ui
      BY <1>2, StopKeeps DEF SoundUi
    <3>2. ui' = [StopStream(ui) EXCEPT !.jobs[Followed].historyComplete = TRUE]
      BY <1>1, <1>3
    <3> QED
      BY <3>1, <3>2 DEF Ui
  <2>2. /\ e \in Entry /\ e.seq = ui.jobs[Followed].seq /\ e.state = ui.jobs[Followed].state
        /\ e.by = ui.jobs[Followed].by /\ e.log = ui.jobs[Followed].log
        /\ e.last = ui.jobs[Followed].last
    BY <1>2 DEF Entry
  <2> HIDE DEF e
  <2>3. Row(e, Followed)
    BY <1>2, <2>2 DEF Row
  <2> QED
    BY <1>1, <1>2, <2>1, <2>2, <2>3, FlagKeeps
<1>4. CASE ~over
  <2>1. ui' = [ui EXCEPT !.session = s]
    BY <1>1, <1>2, <1>4 DEF Ui
  <2>2. s \in Session /\ s.job = Followed /\ s.at = "waiting"
    BY <1>2 DEF Session
  <2> HIDE DEF s
  <2> QED
    BY <1>1, <1>2, <2>1, <2>2, SessionMoves
<1> QED
  BY <1>3, <1>4

LEMMA HandleEventBlockGood ==
  ASSUME Inductive, HandleEventBlock
  PROVE  Good
<1> DEFINE j == Followed
           n == ui.session.pos + 1
           old == ui.jobs[j]
           e == EventTimeline(old, n)
           heard == [ui EXCEPT !.session.pos = n]
           taken == n > old.last /\ JobIsOpen(ui, j)
           ends  == taken /\ Newest(e, n) /\ TerminalIndexState(hist[j][n])
           new == IF Newest(e, n)
                  THEN [e EXCEPT !.seq = n, !.state = hist[j][n], !.historyComplete = @ \/ ends]
                  ELSE e
           s == [ui.session EXCEPT !.pos = n, !.terminal = @ \/ ends]
<1>1. /\ ui.session.at = "reading" /\ ui.session.pos < Len(hist[j])
      /\ ui' = IF ~taken THEN heard
               ELSE [heard EXCEPT !.jobs[j] = new, !.session.terminal = @ \/ ends]
      /\ IF ends THEN wire' \in RefreshJobs(wire, None) ELSE UNCHANGED wire
      /\ UNCHANGED <<hist, page>>
  BY DEF HandleEventBlock
<1>2. /\ World /\ SoundUi(ui) /\ SoundWire(wire, ui) /\ ui \in Ui
      /\ ui.session \in Session /\ j = ui.session.job /\ j # None
      /\ j \in DOMAIN ui.jobs /\ j \in Jobs /\ JobIsOpen(ui, j) /\ page.authenticated
      /\ Row(old, j) /\ old \in Entry /\ old.last \in Nat /\ ui.session.pos = old.last
      /\ \A i \in DOMAIN ui.jobs : ui.jobs[i].seq \in Nat
  BY <1>1, FollowedFacts
<1>3. n = old.last + 1 /\ n \in Nat /\ n # Fresh /\ n \in 1 .. Len(hist[j]) /\ taken
      /\ hist[j][n] \in States
  <2>1. hist[j] \in Seq(States)
    BY <1>2 DEF World
  <2>2. n = old.last + 1 /\ n \in 1 .. Len(hist[j])
    <3>1. ui.session.pos < Len(hist[j])
      BY <1>1
    <3>2. ui.session.pos = old.last /\ old.last \in Nat
      BY <1>2
    <3>3. Len(hist[j]) \in Nat
      BY <2>1
    <3> HIDE DEF j, old
    <3> QED
      BY <3>1, <3>2, <3>3
  <2> QED
    BY <1>2, <2>1, <2>2 DEF Fresh
<1> HIDE DEF j, old
<1>4. /\ e \in Entry /\ e.last = n /\ e.seq = old.seq /\ e.state = old.state
      /\ e.by = old.by /\ e.log = Append(old.log, n) /\ old.log \in Seq(Nat)
  <2>1. old.log \in Seq(Nat)
    BY <1>2 DEF Entry
  <2>2. Append(old.log, n) \in Seq(Nat)
    BY <1>3, <2>1
  <2>3. e = [old EXCEPT !.last = n, !.log = Append(old.log, n)]
    BY <1>2 DEF EventTimeline, Entry
  <2> HIDE DEF e, n
  <2> QED
    BY <1>2, <1>3, <2>1, <2>2, <2>3 DEF Entry
<1> HIDE DEF e
<1>5. Log(e.log, n, j)
  <2>1. /\ Log(old.log, old.last, j) /\ old.log \in Seq(Nat) /\ old.last \in Nat
        /\ e.log = Append(old.log, old.last + 1) /\ n = old.last + 1
    BY <1>2, <1>3, <1>4 DEF Row
  <2>2. PICK l, k, m : l = e.log /\ k = old.log /\ m = old.last
    OBVIOUS
  <2>3. Log(l, m + 1, j)
    BY <2>1, <2>2, LogGrows
  <2> QED
    BY <2>1, <2>2, <2>3
<1>6. Row(e, j)
  BY <1>2, <1>3, <1>4, <1>5 DEF Row
<1>7. Row(new, j) /\ new.last = n /\ new.seq >= old.seq
  <2>1. CASE Newest(e, n)
    <3>1. PICK c \in BOOLEAN : c = (e.historyComplete \/ ends)
      OBVIOUS
    <3>2. new = [e EXCEPT !.seq = n, !.state = hist[j][n], !.historyComplete = c]
      BY <2>1, <3>1, <1>4 DEF Entry
    <3> HIDE DEF new, n
    <3>3. /\ new \in Entry /\ new.seq = n /\ new.state = hist[j][n] /\ new.last = e.last
          /\ new.log = e.log /\ new.by = e.by
      BY <3>2, <1>3, <1>4 DEF Entry
    <3>4. Row(new, j)
      BY <3>3, <1>3, <1>4, <1>5, <1>6 DEF Row
    <3> QED
      BY <3>3, <3>4, <2>1, <1>4 DEF Newest
  <2>2. CASE ~Newest(e, n)
    <3>1. old.seq \in Nat
      BY <1>2 DEF Entry
    <3> QED
      BY <2>2, <3>1, <1>4, <1>6
  <2> QED
    BY <2>1, <2>2
<1> HIDE DEF new
<1>8. /\ s \in Session /\ s.job = j /\ s.pos = n
  <2>1. PICK t \in BOOLEAN : t = (ui.session.terminal \/ ends)
    OBVIOUS
  <2>2. s = [ui.session EXCEPT !.pos = n, !.terminal = t]
    BY <2>1, <1>2 DEF Session
  <2> HIDE DEF s, n
  <2> QED
    BY <2>2, <1>2, <1>3 DEF Session
<1>9. ui' = [ui EXCEPT !.jobs = [ui.jobs EXCEPT ![j] = new], !.session = s]
  <2>1. ui' = [heard EXCEPT !.jobs[j] = new, !.session.terminal = @ \/ ends]
    BY <1>1, <1>3
  <2> HIDE DEF ends
  <2> QED
    BY <2>1, <1>2 DEF Ui, Session
<1> HIDE DEF s
<1>10. /\ SoundUi(ui') /\ DOMAIN ui'.jobs = DOMAIN ui.jobs /\ ui'.jobs[j] = new
       /\ \A i \in DOMAIN ui.jobs : i # j => ui'.jobs[i] = ui.jobs[i]
  <2>1. ui.jobs \in [DOMAIN ui.jobs -> Entry] /\ DOMAIN ui.jobs \in SUBSET Jobs
    BY <1>2, UiFields
  <2>2. new \in Entry
    BY <1>7 DEF Row
  <2>3. /\ ui'.jobs = [ui.jobs EXCEPT ![j] = new] /\ ui'.open = ui.open
        /\ ui'.selected = ui.selected /\ ui'.session = s
    BY <1>2, <1>9 DEF Ui
  <2>4. /\ ui'.jobs \in [DOMAIN ui.jobs -> Entry] /\ DOMAIN ui'.jobs = DOMAIN ui.jobs
        /\ ui'.jobs[j] = new /\ \A i \in DOMAIN ui.jobs : i # j => ui'.jobs[i] = ui.jobs[i]
    BY <1>2, <2>1, <2>2, <2>3
  <2>5. ui' \in Ui
    <3>1. ui'.jobs \in Rows(Entry)
      BY <2>1, <2>4, RowsIntro
    <3> QED
      BY <3>1, <1>2, <1>8, <1>9, <2>3 DEF Ui
  <2> HIDE DEF n
  <2>6. SoundUi(ui')
    BY <1>2, <1>3, <1>7, <1>8, <2>3, <2>4, <2>5 DEF SoundUi, JobIsOpen
  <2> QED
    BY <2>4, <2>6
<1>11. \A i \in DOMAIN ui.jobs : ui'.jobs[i].seq >= ui.jobs[i].seq
  BY <1>2, <1>7, <1>10 DEF old
<1>12. SoundWire(wire', ui')
  <2>1. SoundWire(wire', ui)
    BY <1>1, <1>2, RefreshKeeps
  <2> QED
    BY <1>10, <2>1, AttachedKeeps
<1> QED
  BY <1>1, <1>2, <1>10, <1>11, <1>12, BrowserMoves DEF Good, Progress

-----------------------------------------------------------------------------
(* The theorems *)

LEMMA InductiveInit == Init => Inductive
<1> SUFFICES ASSUME Init PROVE Inductive
  OBVIOUS
<1>1. /\ hist = [j \in Jobs |-> <<"running">>] /\ ui = Cleared /\ wire = {}
      /\ page = [view |-> "indexing", authenticated |-> TRUE, epoch |-> 0]
  BY DEF Init
<1>2. World
  <2>1. <<"running">> \in Seq(States) /\ <<"running">> # <<>>
    BY DEF States
  <2>2. hist \in [Jobs -> Seq(States)] /\ \A j \in Jobs : hist[j] # <<>>
    BY <1>1, <2>1
  <2>3. page \in [view : {"indexing", "away"}, authenticated : BOOLEAN, epoch : 0 .. MaxEpochs]
    BY <1>1, IndexJobsAssumption
  <2> QED
    BY <2>2, <2>3 DEF World
<1>3. SoundUi(ui)
  BY <1>1, ClearedIsSound
<1>4. SoundWire(wire, ui)
  BY <1>1, FS_EmptySet, IndexJobsAssumption DEF SoundWire
<1> QED
  BY <1>2, <1>3, <1>4 DEF Inductive

LEMMA InductiveNext ==
  ASSUME Inductive, [Next]_vars
  PROVE  Good
<1>1. ASSUME NEW j \in Jobs, JobMoves(j) PROVE Good
  BY <1>1, JobMovesGood
<1>2. CASE User
  <2>1. ASSUME NEW j \in Jobs, Open(j) \/ Close(j) PROVE Good
    BY <2>1, OpenGood, CloseGood
  <2>2. ASSUME NEW j \in Jobs, SelectIndexJob(j) \/ ControlIndexJob(j) PROVE Good
    BY <2>2, SelectIndexJobGood, ControlIndexJobGood
  <2> QED
    BY <1>2, <2>1, <2>2, LeaveGood, ReturnGood, SyncBrowserSessionGood DEF User
<1>3. CASE Timers
  BY <1>3, PollGood, PollJobTelemetryGood DEF Timers
<1>4. CASE Stream
  BY <1>4, ConnectsGood, ConnectionRefusedGood, HandleEventBlockGood, StreamEndsGood,
     ReconnectsGood DEF Stream
<1>5. ASSUME NEW r \in wire, Answers(r) PROVE Good
  BY <1>5, ListAnswersGood, DetailAnswersGood, SelectAnswersGood, ControlAnswersGood
     DEF Answers
<1>6. ASSUME NEW r \in wire, Ignored(r) \/ ReadFails(r) PROVE Good
  BY <1>6, IgnoredGood, ReadFailsGood
<1>7. CASE UNCHANGED vars
  <2>1. World /\ SoundUi(ui) /\ SoundWire(wire, ui)
    BY DEF Inductive
  <2> QED
    BY <1>7, <2>1, OnlyRequests DEF vars
<1> QED
  BY <1>1, <1>2, <1>3, <1>4, <1>5, <1>6, <1>7 DEF Next

(* The page is sound in every reachable state: each row is a record of its  *)
(* job, fetched for the account that looks at it; its log breaks only at    *)
(* restarts; the stream, if any, is that of the open row and stands at the  *)
(* last event seen; whatever answer is still to come is a true record for a *)
(* row that is on the page, and an accepted retry or resume names the event *)
(* that took the job back to work.                                          *)
THEOREM PageInvariant == Spec => []Inductive
<1>1. Inductive /\ [Next]_vars => Inductive'
  BY InductiveNext DEF Good
<1> QED
  BY InductiveInit, <1>1, PTL DEF Spec

LEMMA InductiveSound == Inductive => StreamsAreSound
<1> SUFFICES ASSUME Inductive PROVE StreamsAreSound
  OBVIOUS
<1>1. World /\ SoundUi(ui) /\ SoundWire(wire, ui) /\ ui \in Ui
  BY DEF Inductive, SoundUi
<1>2. /\ DOMAIN ui.jobs \subseteq Jobs
      /\ \A j \in DOMAIN ui.jobs : Row(ui.jobs[j], j) /\ page.authenticated
  BY <1>1, UiFields DEF SoundUi
<1>3. Cardinality(ui.open) <= 1
  <2>1. CASE ui.open = {}
    BY <2>1, FS_EmptySet
  <2>2. CASE ui.open = {ui.selected}
    <3>1. Cardinality({ui.selected}) = 1
      BY FS_Singleton
    <3> QED
      BY <2>2, <3>1
  <2> QED
    BY <1>1, <2>1, <2>2 DEF SoundUi
<1>4. TypeOK
  <2>1. \A j \in DOMAIN ui.jobs : ui.jobs[j] \in Entry
    BY <1>2 DEF Row
  <2>2. /\ ui.open \subseteq DOMAIN ui.jobs /\ ui.selected \in ui.open \cup {None}
        /\ ui.session \in Session \cup {NoSession}
    BY <1>1, UiFields DEF SoundUi
  <2>3. Cardinality(wire) <= MaxWire /\ \A r \in wire : Read(r)
    BY <1>1 DEF SoundWire, Request
  <2> QED
    BY <1>1, <1>2, <1>3, <2>1, <2>2, <2>3 DEF TypeOK, World
<1>5. LogBreaksOnlyAtRestarts
  BY <1>2 DEF Row, Log, LogBreaksOnlyAtRestarts
<1>6. OnlyTheOpenJobIsFollowed
  BY <1>1 DEF SoundUi, OnlyTheOpenJobIsFollowed, Followed
<1>7. OwnJobsOnly
  BY <1>2 DEF OwnJobsOnly, Row
<1> QED
  BY <1>4, <1>5, <1>6, <1>7 DEF StreamsAreSound

(* Nothing is followed but the row that is open in front of the user, every *)
(* row is the account's own, and between two accepted restarts a log has no *)
(* gap and no event twice: whatever polls, details, commands and events     *)
(* cross each other, and however often the stream is dropped or stopped,    *)
(* the job retried or the account changed.                                  *)
THEOREM StreamsAlwaysSound == Spec => []StreamsAreSound
BY PageInvariant, InductiveSound, PTL

LEMMA InductiveShown == Inductive => ShownIsRecorded
BY DEF Inductive, SoundUi, Row, ShownIsRecorded

(* "Event sequence numbers prevent a stale list poll or older replayed      *)
(* events from rewinding progress": a row never goes back as long as it     *)
(* stays, and always shows a state that its job really had.                 *)
THEOREM ProgressAlwaysStands == Spec => ProgressStands
<1>1. Inductive /\ [Next]_vars =>
        [\A j \in DOMAIN ui.jobs \cap DOMAIN ui'.jobs : ui'.jobs[j].seq >= ui.jobs[j].seq]_vars
  BY InductiveNext DEF Good, Progress
<1> QED
  BY PageInvariant, InductiveShown, <1>1, PTL DEF Spec, ProgressStands
=============================================================================
