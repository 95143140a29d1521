----------------------------- MODULE IndexJobs -----------------------------
(***************************************************************************)
(* The index-job list of the ECAI console (ecai-console.js): one browser   *)
(* page that learns of jobs by four roads at once, the queue poll, the     *)
(* detail of the open row, the answers to its own commands and a live      *)
(* event stream that may drop at any time, while the jobs move on          *)
(* (ecai_index_jobs_srv.erl), other operators command them and the user    *)
(* opens rows, leaves the view, hides the tab and signs in and out.        *)
(*                                                                         *)
(* A <details> toggle is handled at once, and a hidden tab is a view left, *)
(* but for polls that it would not make.  Progress, artifacts and          *)
(* checkpoints are left out: a record is its event number and its state.   *)
(***************************************************************************)
EXTENDS Integers, FiniteSets, Sequences

CONSTANTS
  Jobs,
  None,
  Window,      \* events replayed on the first subscription to a job (16)
  MaxEvents,   \* bound: events of each job
  MaxWire,     \* bound: requests answered later; one too many fails
  MaxEpochs    \* bound: sign-ins and sign-outs

ASSUME IndexJobsAssumption ==
  /\ None \notin Jobs
  /\ {Window, MaxWire, MaxEpochs} \subseteq Nat
  /\ MaxEvents \in [Jobs -> Nat \ {0}]

VARIABLES
  hist,     \* the durable events of each job; event n is numbered n
  page,     \* what the browser shows, and to whom
  ui,       \* state.jobEntries, selectedIndexId, streamSession, the open rows
  wire      \* requests not yet answered, with the answer they will get

vars == <<hist, page, ui, wire>>

States == {"running", "stopped", "completed"}   \* stopped: paused, failed or canceled
TerminalIndexState(s) == s # "running"
Fresh == -1                                               \* lastSeq: null
Restart == 0                    \* a line of a log: "Operator retry accepted"

Entry == [seq : Nat, state : States, last : {Fresh} \cup Nat, log : Seq(Nat),
          historyComplete : BOOLEAN, streamBlocked : BOOLEAN, by : 0 .. MaxEpochs]

(* consumeJobStream's loop; pos: what the server has sent on the connection. *)
NoSession == [job |-> None, at |-> "none", pos |-> 0, terminal |-> FALSE]
Session == [job : Jobs, at : {"connecting", "reading", "waiting"}, pos : Nat, terminal : BOOLEAN]

Read(r) ==
  /\ r.epoch \in 0 .. page.epoch
  /\ CASE r.kind = "list" -> /\ r.then \in Jobs \cup {None}
                             /\ DOMAIN r.rows \subseteq Jobs
                             /\ \A j \in DOMAIN r.rows : r.rows[j] \in 1 .. Len(hist[j])
       [] r.kind = "detail"  -> r.seq \in 1 .. Len(hist[r.job]) /\ r.again \in BOOLEAN
       [] r.kind = "select"  -> r.seq \in 1 .. Len(hist[r.job])
       [] r.kind = "control" -> /\ r.seq \in 0 .. Len(hist[r.job]) /\ r.restarts \in BOOLEAN
                                /\ r.held \in {"entry", "open", "closed"}

TypeOK ==
  /\ hist \in [Jobs -> Seq(States)]
  /\ page \in [view : {"indexing", "away"}, authenticated : BOOLEAN,
               epoch : 0 .. MaxEpochs]
  /\ DOMAIN ui.jobs \subseteq Jobs /\ \A j \in DOMAIN ui.jobs : ui.jobs[j] \in Entry
  /\ ui.open \subseteq DOMAIN ui.jobs /\ Cardinality(ui.open) <= 1
  /\ ui.selected \in ui.open \cup {None}
  /\ ui.session \in Session \cup {NoSession}
  /\ Cardinality(wire) <= MaxWire /\ \A r \in wire : Read(r)

NoRows == [j \in {} |-> 0]
Cleared == [jobs |-> NoRows, open |-> {}, selected |-> None, session |-> NoSession]

Init ==
  /\ hist = [j \in Jobs |-> <<"running">>]
  /\ page = [view |-> "indexing", authenticated |-> TRUE, epoch |-> 0]
  /\ ui = Cleared
  /\ wire = {}
-----------------------------------------------------------------------------
(* The service *)

Current(j) == hist[j][Len(hist[j])]

MayBecome(s) ==
  CASE s = "running"   -> States
    [] s = "stopped"   -> {"running", "stopped"}
    [] s = "completed" -> {}

(* emit_event: state and event number are written together.                *)
Emit(j, s) == hist' = [hist EXCEPT ![j] = Append(@, s)]
MayEmit(j) == Len(hist[j]) < MaxEvents[j]

(* A worker's checkpoint or end, or another operator's command.            *)
JobMoves(j) ==
  /\ MayEmit(j)
  /\ \E s \in MayBecome(Current(j)) : Emit(j, s)
  /\ UNCHANGED <<page, ui, wire>>
-----------------------------------------------------------------------------
(* Requests.  Every one carries the identity it is made for.               *)

Sent(w, r) == IF Cardinality(w) < MaxWire THEN w \cup {r} ELSE w

(* The filter of the view: all jobs, or those that run. *)
Filters == {Jobs, {j \in Jobs : Current(j) = "running"}}

RefreshJobs(w, then) ==
  {Sent(w, [kind |-> "list", epoch |-> page.epoch, then |-> then,
            rows |-> [j \in listed |-> Len(hist[j])]]) : listed \in Filters}

LoadIndexJobDetail(w, j, again) ==
  Sent(w, [kind |-> "detail", epoch |-> page.epoch, job |-> j, seq |-> Len(hist[j]), again |-> again])

(* Requests whose handler holds a row that was removed: a detail goes      *)
(* nowhere, a command's answer still looks at the row it was given from.   *)
Released(w, before, after) ==
  LET gone(j) == j \in DOMAIN before.jobs /\ j \notin DOMAIN after.jobs IN
  {CASE r.kind = "control" /\ r.held = "entry" /\ gone(r.job) ->
          [r EXCEPT !.held = IF r.job \in before.open THEN "open" ELSE "closed"]
     [] r.kind = "list" /\ r.then # None /\ gone(r.then) -> [r EXCEPT !.then = None]
     [] OTHER -> r : r \in {x \in w : ~(x.kind = "detail" /\ gone(x.job))}}
-----------------------------------------------------------------------------
(* The rows and the stream *)

JobIsOpen(u, j) ==
  /\ page.authenticated /\ page.view = "indexing"
  /\ j \in DOMAIN u.jobs /\ j \in u.open /\ u.selected = j

StopForgets(u) == [u EXCEPT !.session.at = "none"]   \* Mutant: the aborted session stays
StopStream(u) == [u EXCEPT !.session = NoSession]

StartJobStream(u, j) ==
  IF ~JobIsOpen(u, j) \/ u.jobs[j].streamBlocked \/ u.jobs[j].historyComplete \/ u.session.job = j
  THEN u
  ELSE [u EXCEPT !.session = [job |-> j, at |-> "connecting", pos |-> 0, terminal |-> FALSE],
                 !.jobs[j].last = IF @ # Fresh THEN @
                                  ELSE IF u.jobs[j].seq > Window THEN u.jobs[j].seq - Window ELSE 0]

MergeIncoming(e, j, n) ==    \* Mutant: the last answer wins
  [e EXCEPT !.seq = n, !.state = hist[j][n]]

MergeIndexRecord(e, j, n) ==
  IF e.seq > n THEN e ELSE [e EXCEPT !.seq = n, !.state = hist[j][n]]

CreateJobEntry(j, n, epoch) ==
  [seq |-> n, state |-> hist[j][n], last |-> Fresh, log |-> <<>>,
   historyComplete |-> FALSE, streamBlocked |-> FALSE, by |-> epoch]

(* Rows are reconciled by job; the open one is followed again if nothing is. *)
RenderJobs(u, rows, epoch) ==
  IF ~page.authenticated \/ DOMAIN rows = {} THEN Cleared
  ELSE
    LET kept == u.selected \in DOMAIN rows
        next == [jobs |-> [j \in DOMAIN rows |->
                             IF j \in DOMAIN u.jobs THEN MergeIndexRecord(u.jobs[j], j, rows[j])
                             ELSE CreateJobEntry(j, rows[j], epoch)],
                 open |-> u.open \cap DOMAIN rows,
                 selected |-> IF kept THEN u.selected ELSE None,
                 session |-> IF kept THEN u.session ELSE NoSession]
    IN IF kept /\ next.session = NoSession THEN StartJobStream(next, next.selected) ELSE next

(* The accordion: one detailed stream at a time.                           *)
OpenRow(u, j) ==
  IF u.selected = j THEN u
  ELSE StartJobStream([StopStream(u) EXCEPT !.open = {j}, !.selected = j], j)
-----------------------------------------------------------------------------
(* The user and the browser *)

Open(j) ==
  /\ page.authenticated /\ page.view = "indexing"
  /\ j \in DOMAIN ui.jobs \ ui.open
  /\ ui' = OpenRow(ui, j)
  /\ wire' = LoadIndexJobDetail(wire, j, FALSE)
  /\ UNCHANGED <<hist, page>>

Close(j) ==
  /\ page.view = "indexing" /\ j \in ui.open
  /\ ui' = [StopStream(ui) EXCEPT !.open = {}, !.selected = None]
  /\ UNCHANGED <<hist, page, wire>>

(* A job is queued; its answer opens the new row wherever the user is by then. *)
SelectIndexJob(j) ==
  /\ page.authenticated /\ page.view = "indexing" /\ j \notin DOMAIN ui.jobs
  /\ Cardinality(wire) < MaxWire
  /\ wire' = Sent(wire, [kind |-> "select", epoch |-> page.epoch, job |-> j, seq |-> Len(hist[j])])
  /\ UNCHANGED <<hist, page, ui>>

(* Another view, or another browser tab.                                   *)
Leave ==
  /\ page.view = "indexing"
  /\ page' = [page EXCEPT !.view = "away"]
  /\ ui' = StopStream(ui)
  /\ UNCHANGED <<hist, wire>>

(* Back again: refreshView.                                                *)
Return ==
  /\ page.view = "away"
  /\ page' = [page EXCEPT !.view = "indexing"]
  /\ IF page.authenticated THEN wire' \in RefreshJobs(wire, None) ELSE UNCHANGED wire
  /\ UNCHANGED <<hist, ui>>

(* Another token: signed out, signed in, or somebody else at once.         *)
SyncBrowserSession ==
  /\ page.epoch < MaxEpochs
  /\ \E on \in BOOLEAN :
       /\ on \/ page.authenticated
       /\ page' = [page EXCEPT !.epoch = @ + 1, !.authenticated = on]
  /\ ui' = Cleared
  /\ wire' = Released(wire, ui, Cleared)
  /\ UNCHANGED hist

(* The queue poll, which the overview needs as well, or another filter.    *)
Poll ==
  /\ page.authenticated /\ Cardinality(wire) < MaxWire
  /\ wire' \in RefreshJobs(wire, None)
  /\ UNCHANGED <<hist, page, ui>>

PollJobTelemetry(j) ==
  /\ JobIsOpen(ui, j) /\ ui.jobs[j].state = "running"
  /\ \A r \in wire : r.kind # "detail"
  /\ Cardinality(wire) < MaxWire
  /\ wire' = LoadIndexJobDetail(wire, j, FALSE)
  /\ UNCHANGED <<hist, page, ui>>

IndexActions(s) ==
  CASE s = "running" -> {"stopped"}
    [] s = "stopped" -> {"running", "stopped"}
    [] OTHER         -> {}

(* A button of the row (pause, cancel; resume, retry), against whatever    *)
(* the job is by now.  The service refuses what its state does not allow,  *)
(* and what exceeds the retries or the queue's capacity.                   *)
ControlIndexJob(j) ==
  /\ JobIsOpen(ui, j)
  /\ \A r \in wire : ~(r.kind = "control" /\ r.job = j /\ r.held = "entry")
  /\ Cardinality(wire) < MaxWire
  /\ \E s \in IndexActions(ui.jobs[j].state) :
       LET restarts == s = "running" IN
       \/ /\ MayEmit(j) /\ s \in MayBecome(Current(j)) /\ (restarts => Current(j) = "stopped")
          /\ Emit(j, s)
          /\ wire' = Sent(wire, [kind |-> "control", epoch |-> page.epoch, job |-> j,
                                 seq |-> Len(hist[j]) + 1, restarts |-> restarts, held |-> "entry"])
       \/ /\ ui.jobs[j].state = "stopped" \/ Current(j) # ui.jobs[j].state
          /\ wire' = Sent(wire, [kind |-> "control", epoch |-> page.epoch, job |-> j,
                                 seq |-> 0, restarts |-> restarts, held |-> "entry"])
          /\ UNCHANGED hist
  /\ UNCHANGED <<page, ui>>
-----------------------------------------------------------------------------
(* Answers *)

HeededAnyway(r) == TRUE      \* Mutant: the session check of request() is gone
(* A response from the previous identity must not refill private panels.   *)
Heeded(r) == r.epoch = page.epoch

Ignored(r) ==
  /\ r \in wire /\ ~Heeded(r)
  /\ wire' = wire \ {r}
  /\ UNCHANGED <<hist, page, ui>>

ReadFails(r) ==
  /\ r \in wire
  /\ wire' = wire \ {r}
  /\ UNCHANGED <<hist, page, ui>>

ListAnswers(r) ==
  /\ r \in wire /\ r.kind = "list" /\ Heeded(r)
  /\ ui' = RenderJobs(ui, r.rows, r.epoch)
  /\ LET left == Released(wire \ {r}, ui, ui') IN
     wire' = IF r.then # None /\ r.then \in ui'.open
             THEN LoadIndexJobDetail(left, r.then, TRUE) ELSE left
  /\ UNCHANGED <<hist, page>>

DetailAnswers(r) ==
  /\ r \in wire /\ r.kind = "detail" /\ Heeded(r)
  /\ wire' = wire \ {r}
  /\ LET merged == IF JobIsOpen(ui, r.job)
                   THEN [ui EXCEPT !.jobs[r.job] = MergeIndexRecord(@, r.job, r.seq)] ELSE ui IN
     ui' = IF r.again /\ ui.session = NoSession THEN StartJobStream(merged, r.job) ELSE merged
  /\ UNCHANGED <<hist, page>>

SelectAnswers(r) ==
  /\ r \in wire /\ r.kind = "select" /\ Heeded(r)
  /\ LET known == [j \in DOMAIN ui.jobs \cup {r.job} |->
                     IF j = r.job THEN r.seq ELSE ui.jobs[j].seq] IN
     ui' = OpenRow(RenderJobs(ui, known, r.epoch), r.job)
  /\ wire' = LoadIndexJobDetail(wire \ {r}, r.job, FALSE)
  /\ UNCHANGED <<hist, page>>

RestartedAfter(e, n) ==      \* Mutant: the accepted transition is taken for seen
  [e EXCEPT !.historyComplete = FALSE, !.streamBlocked = FALSE,
            !.last = n, !.log = Append(@, Restart)]

(* An accepted retry or resume: the log is kept, under it a line without a *)
(* number, and the stream starts again from the transition just accepted,  *)
(* number n, whatever was seen before it.                                  *)
Restarted(e, n) ==
  [e EXCEPT !.historyComplete = FALSE, !.streamBlocked = FALSE,
            !.last = n - 1, !.log = Append(@, Restart)]

ControlAnswers(r) ==
  /\ r \in wire /\ r.kind = "control" /\ Heeded(r)
  /\ LET rowOpen == r.held = "open" \/ (r.held = "entry" /\ r.job \in ui.open)
         stopped == IF r.restarts /\ rowOpen THEN StopStream(ui) ELSE ui
         merged  == MergeIndexRecord(stopped.jobs[r.job], r.job, r.seq) IN
     ui' = IF r.seq = 0 THEN ui
           ELSE IF r.held # "entry" THEN stopped
           ELSE [stopped EXCEPT !.jobs[r.job] =
                   IF r.restarts THEN Restarted(merged, r.seq) ELSE merged]
  /\ wire' \in RefreshJobs(wire \ {r}, IF r.seq > 0 /\ r.held = "entry" THEN r.job ELSE None)
  /\ UNCHANGED <<hist, page>>
-----------------------------------------------------------------------------
(* The stream *)

Followed == ui.session.job

Connects ==
  /\ ui.session.at = "connecting"
  /\ ui' = [ui EXCEPT !.session.at = "reading", !.session.pos = ui.jobs[Followed].last]
  /\ UNCHANGED <<hist, page, wire>>

(* 401, 402, 403 or 404 *)
ConnectionRefused ==
  /\ ui.session.at = "connecting"
  /\ ui' = [StopStream(ui) EXCEPT !.jobs[Followed].streamBlocked = TRUE]
  /\ UNCHANGED <<hist, page, wire>>

EventTimeline(e, n) ==
  [e EXCEPT !.last = n, !.log = Append(@, n)]

(* Replayed history is for the timeline; the row may know better.          *)
Newest(e, n) == n >= e.seq

HandleEventBlock ==
  /\ ui.session.at = "reading" /\ ui.session.pos < Len(hist[Followed])
  /\ LET j == Followed
         n == ui.session.pos + 1
         e == EventTimeline(ui.jobs[j], n)
         heard == [ui EXCEPT !.session.pos = n]
         taken == n > ui.jobs[j].last /\ JobIsOpen(ui, j)
         ends  == taken /\ Newest(e, n) /\ TerminalIndexState(hist[j][n]) IN
     /\ ui' = IF ~taken THEN heard
              ELSE [heard EXCEPT
                      !.jobs[j] = IF Newest(e, n)
                                  THEN [e EXCEPT !.seq = n, !.state = hist[j][n],
                                                 !.historyComplete = @ \/ ends]
                                  ELSE e,
                      !.session.terminal = @ \/ ends]
     /\ IF ends THEN wire' \in RefreshJobs(wire, None) ELSE UNCHANGED wire
  /\ UNCHANGED <<hist, page>>

(* Dropped, or ended by the server after the last event of a stopped job.  *)
StreamEnds ==
  /\ ui.session.at \in {"connecting", "reading"}
  /\ LET j == Followed
         over == ui.session.terminal \/ TerminalIndexState(ui.jobs[j].state) IN
     ui' = IF over THEN [StopStream(ui) EXCEPT !.jobs[j].historyComplete = TRUE]
           ELSE [ui EXCEPT !.session.at = "waiting"]
  /\ UNCHANGED <<hist, page, wire>>

Reconnects ==
  /\ ui.session.at = "waiting"
  /\ ui' = [ui EXCEPT !.session.at = "connecting"]
  /\ UNCHANGED <<hist, page, wire>>
-----------------------------------------------------------------------------
User ==
  \/ \E j \in Jobs : Open(j) \/ Close(j) \/ SelectIndexJob(j) \/ ControlIndexJob(j)
  \/ Leave \/ Return \/ SyncBrowserSession

Timers == Poll \/ \E j \in Jobs : PollJobTelemetry(j)

Answers(r) == ListAnswers(r) \/ DetailAnswers(r) \/ SelectAnswers(r) \/ ControlAnswers(r)

Stream == Connects \/ ConnectionRefused \/ HandleEventBlock \/ StreamEnds \/ Reconnects

Next ==
  \/ \E j \in Jobs : JobMoves(j)
  \/ User \/ Timers \/ Stream
  \/ \E r \in wire : Answers(r) \/ Ignored(r) \/ ReadFails(r)

Spec == Init /\ [][Next]_vars

(* A request that is not answered fails in the end; the queue poll, a       *)
(* connection and the delivery of an event succeed if tried again and      *)
(* again; the back-off timer fires.                                        *)
Fairness ==
  /\ WF_vars(\E r \in wire : ReadFails(r))
  /\ SF_vars(Poll) /\ SF_vars(\E r \in wire : ListAnswers(r))
  /\ SF_vars(Connects) /\ SF_vars(HandleEventBlock) /\ WF_vars(Reconnects)

FairSpec == Spec /\ Fairness
-----------------------------------------------------------------------------
(* Properties *)

(* A row shows the state its job had at the event number it shows.         *)
ShownIsRecorded ==
  \A j \in DOMAIN ui.jobs : ui.jobs[j].state = hist[j][ui.jobs[j].seq]

(* "Event sequence numbers prevent a stale list poll or older replayed     *)
(* events from rewinding progress" (doc/console.md), as long as the row    *)
(* stays: whatever order polls, details, answers and events arrive in.     *)
ProgressStands ==
  /\ []ShownIsRecorded
  /\ [][\A j \in DOMAIN ui.jobs \cap DOMAIN ui'.jobs : ui'.jobs[j].seq >= ui.jobs[j].seq]_vars

(* Event n took the stopped job j back to work. *)
TookBack(j, n) ==
  n - 1 \in DOMAIN hist[j] /\ n \in DOMAIN hist[j]
    /\ hist[j][n - 1] = "stopped" /\ hist[j][n] = "running"

(* Event n of job j may stand right under a line of its log. *)
Follows(j, line, n) == IF line = Restart THEN TookBack(j, n) ELSE n = line + 1

(* No event is lost or repeated in the log of a row, however often the     *)
(* stream is dropped, stopped by a closed row or another view and started  *)
(* again, except where it says that a retry or resume was accepted: there  *)
(* the log may skip events that were never streamed or go back over some   *)
(* that were, and runs on with an event that took the job back to work.    *)
LogBreaksOnlyAtRestarts ==
  \A j \in DOMAIN ui.jobs :
    LET log == ui.jobs[j].log IN
    /\ \A i \in 1 .. Len(log) - 1 : log[i + 1] = Restart \/ Follows(j, log[i], log[i + 1])
    /\ log # <<>> => Follows(j, log[Len(log)], ui.jobs[j].last + 1)

(* There is a stream only for the row that is open in front of the user.   *)
OnlyTheOpenJobIsFollowed == Followed # None => JobIsOpen(ui, Followed)

(* What is shown was fetched for the account that looks at it.             *)
OwnJobsOnly ==
  \A j \in DOMAIN ui.jobs : page.authenticated /\ ui.jobs[j].by = page.epoch

(* Nothing is followed that should not be, what is followed is logged in   *)
(* order, and all of it is the account's own.                              *)
StreamsAreSound ==
  TypeOK /\ LogBreaksOnlyAtRestarts /\ OnlyTheOpenJobIsFollowed /\ OwnJobsOnly

(* An open row is followed up to the last event of its job, through drops, *)
(* hidden tabs and changes of view, unless the server refused the stream   *)
(* or the page had reason to take the history for complete.                *)
FollowedToTheEnd ==
  \A j \in Jobs :
    JobIsOpen(ui, j) ~>
      \/ ~JobIsOpen(ui, j)
      \/ ui.jobs[j].last = Len(hist[j])
      \/ ui.jobs[j].streamBlocked \/ ui.jobs[j].historyComplete
=============================================================================
