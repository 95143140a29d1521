-------------------------- MODULE ScheduleOpsProofs --------------------------
(***************************************************************************)
(* What ScheduleOps promises, proved for every set of wallets, pages and   *)
(* payloads and for every bound.  The argument is about one process: while *)
(* a worker lives nothing else of the owner can be admitted (Alone), and   *)
(* when it ends over a transaction in flight, what remains in the journal  *)
(* is an operation that blocks the owner for good.                         *)
(***************************************************************************)
EXTENDS ScheduleOps, FiniteSetTheorems, TLAPS

Unknown == \E id \in DOMAIN ops : ops[id].status = "reconciliation_required"
Busy == worker.op # NoOp

(* What pages show was read from the journal; what they post was signed.   *)
Pages ==
  /\ \A tab \in Tabs :
       /\ tabs[tab].at = "observing" => tabs[tab].op \in DOMAIN ops
       /\ tabs[tab].at \in {"signing", "wallet", "returned"} => tabs[tab].tx \in Tx
       /\ tabs[tab].at = "returned" => tabs[tab].tx.n > 0
       /\ tabs[tab].at \in {"wallet", "returned"} => wallet = "mobile"
       /\ tabs[tab].told = "success" =>
            /\ tabs[tab].op \in DOMAIN ops
            /\ ops[tabs[tab].op].status = "complete" /\ ops[tabs[tab].op].signs = "queued"
  /\ \A r \in requests :
       /\ r.id.kind \in {"create", "submit"}
       /\ r.id.kind = "submit" => r.id.tx.n > 0 /\ ~Custodial

(* What an operation's record says of itself.                              *)
Told(id, op) ==
  /\ op.status = "running" => id = worker.op
  /\ op.status = "complete" => IF op.signs = "queued" THEN op.sched \in stored ELSE op.sched \in Scheds
  /\ op.status = "superseded" => op.next \in DOMAIN ops
  /\ op.status = "failed" => op.stage \notin ChainStages /\ (id.kind = "create" => op.sched = NoSched)
  /\ id.kind = "legacy" => op.status = "reconciliation_required"
  /\ id.kind = "submit" => id.tx.n > 0
Journal == \A id \in DOMAIN ops : Told(id, ops[id])

(* The worker's own operation is the only one that blocks the owner.       *)
Alone ==
  Busy => /\ worker.op \in DOMAIN ops
          /\ ops[worker.op].status = "running"
          /\ \A id \in DOMAIN ops : id # worker.op => ~BlocksOwner(ops[id])

(* How far the worker w, at its step, has written the record op.           *)
Progress(w, op) ==
  /\ w.at \in {"vault", "preparing", "drafted"} => w.op.kind = "create"
  /\ w.at \in {"start", "vault", "preparing", "drafted"} =>
       /\ op.stage = CASE w.at = "start" -> "queued" [] w.at = "vault" -> "ensuring_vault"
                       [] OTHER -> "preparing"
       /\ w.op.kind = "create" => op.sched = NoSched
  /\ w.at \in {"start", "vault", "preparing"} /\ w.op.kind = "create" => ~HasDraft
  /\ w.at = "start" /\ w.op.kind = "submit" => w.sched = w.op.tx.sched
  /\ w.at \in {"drafted", "submit", "wait"} => w.sched \in Scheds /\ drafts[w.sched] # NoSpec
  /\ w.at \in {"submit", "wait", "undraft"} =>
       /\ op.stage \in ChainStages /\ op.sched = w.sched
       /\ w.op.kind = "submit" => op.stage = w.op.tx.stage /\ w.sched = w.op.tx.sched
  /\ w.at = "undraft" => w.sched \in stored /\ op.stage = "fund_schedule"
  /\ w.at = "replied" =>
       /\ w.reply # "none"
       /\ w.reply = "ok" => IF w.signs = "queued" THEN op.sched \in stored ELSE op.sched \in Scheds
       /\ w.reply = "ok" /\ op.stage = "fund_schedule" => drafts[w.sched] = NoSpec
       /\ w.reply = "not_configured" => op.stage = "ensuring_vault"
       /\ w.op.kind = "create" /\ op.stage \notin ChainStages => op.sched = NoSched
Work ==
  Busy => /\ worker.op.kind \in {"create", "submit"}
          /\ worker.op.kind = "submit" => ~Custodial
          /\ worker.at = "wait" => WorkerTx \in DOMAIN txs
          /\ Progress(worker, ops[worker.op])

Drafts ==
  /\ \A s, u \in Scheds : drafts[s] # NoSpec /\ drafts[u] # NoSpec => s = u
  /\ \A s \in Scheds : s > prepared => drafts[s] = NoSpec

Truth ==
  /\ \A t \in DOMAIN txs : t.stage = "fund_schedule" /\ txs[t] = "ok" =>
       chain[t.sched].created /\ chain[t.sched].funded > 0
  /\ \A s \in stored : chain[s].created /\ chain[s].funded > 0

(* Where the scheduler sends: what is in flight is the worker's, or else   *)
(* it blocks the owner; and every transaction has its operation.           *)
Flight ==
  /\ \A t \in Flying :
       IF Busy
       THEN /\ worker.at \in {"wait", "replied"} /\ t = WorkerTx
            /\ ops[worker.op].stage \in ChainStages
            /\ worker.at = "replied" => worker.reply = "error"
       ELSE Unknown
  /\ \A t, u \in Flying : t = u
Known ==
  \A t \in DOMAIN txs : t.n > 0 =>
    SubmitId(t) \in DOMAIN ops /\ ops[SubmitId(t)].stage \in ChainStages

(* A schedule that is funded, or about to be.                              *)
Claimed(s) ==
  chain[s].funded > 0 \/ \E t \in Flying : t.sched = s /\ t.stage = "fund_schedule"
Settled(s) ==
  \/ drafts[s] = NoSpec
  \/ /\ Busy /\ worker.sched = s /\ ops[worker.op].stage = "fund_schedule"
     /\ worker.at \in {"wait", "undraft", "replied"}
  \/ ~Busy /\ Unknown
Money ==
  \A s \in Scheds :
    /\ Claimed(s) => s <= prepared /\ Settled(s)
    /\ chain[s].funded <= 1
    /\ chain[s].funded > 0 => \A t \in Flying : ~(t.sched = s /\ t.stage = "fund_schedule")

Careful == wallet # "mobile" => Flight /\ Known /\ Money

Inv == TypeOK /\ Pages /\ Journal /\ Alone /\ Work /\ Drafts /\ Truth /\ Careful

USE ScheduleAssumption, NoOpAssumption

-----------------------------------------------------------------------------
(* Data.                                                                   *)

LEMMA MostSignedBounds ==
  ASSUME wallet \in Wallets
  PROVE  MostSigned \in Nat /\ MaxSigned[wallet] <= MostSigned
<1>1. \E n \in {MaxSigned[w] : w \in Wallets} : \A w \in Wallets : MaxSigned[w] <= n
  <2> SUFFICES \E v \in Wallets : \A w \in Wallets : MaxSigned[w] <= MaxSigned[v] OBVIOUS
  <2> SUFFICES ASSUME \A v \in Wallets : \E w \in Wallets : MaxSigned[w] > MaxSigned[v] PROVE FALSE OBVIOUS
  <2>1. PICK a \in Wallets : MaxSigned[a] > MaxSigned[wallet] OBVIOUS
  <2>2. PICK b \in Wallets : MaxSigned[b] > MaxSigned[a] OBVIOUS
  <2>3. PICK c \in Wallets : MaxSigned[c] > MaxSigned[b] OBVIOUS
  <2> QED BY <2>1, <2>2, <2>3
<1>2. MostSigned \in {MaxSigned[w] : w \in Wallets} /\ \A w \in Wallets : MaxSigned[w] <= MostSigned
  BY <1>1 DEF MostSigned
<1> QED BY <1>2

LEMMA TxFacts ==
  /\ NoTx \notin Tx
  /\ \A t \in Tx : t.sched \in Scheds /\ t.stage \in ChainStages /\ t.n \in Nat
  /\ wallet \in Wallets => \A s \in Scheds, stage \in ChainStages, n \in 0 .. MaxSigned[wallet] :
       [sched |-> s, stage |-> stage, n |-> n] \in Tx
<1>1. wallet \in Wallets => 0 .. MaxSigned[wallet] \subseteq 0 .. MostSigned BY MostSignedBounds
<1> QED BY <1>1 DEF Tx, NoTx, NoSched, Scheds

LEMMA IdFacts ==
  ASSUME NEW id \in OpIds
  PROVE  /\ id.kind \in {"create", "submit", "legacy"}
         /\ id.kind = "create" => id.spec \in Specs /\ id.tx = NoTx
         /\ id.kind = "submit" => id.tx \in Tx /\ id = SubmitId(id.tx)
         /\ id.tx.sched \in Scheds \cup {NoSched}
  BY TxFacts DEF OpIds, CreateId, SubmitId, LegacyId, NoTx, NoSched

LEMMA NewIds ==
  /\ \A p \in Specs : CreateId(p) \in OpIds /\ CreateId(p).kind = "create"
  /\ \A t \in Tx : SubmitId(t) \in OpIds /\ SubmitId(t).kind = "submit" /\ SubmitId(t).tx = t
  /\ \A s \in Scheds : /\ LegacyId(s) \in OpIds /\ LegacyId(s).kind = "legacy"
                       /\ LegacyId(s).tx.sched = s
  BY DEF OpIds, CreateId, SubmitId, LegacyId, NoTx

LEMMA NewRecords ==
  /\ NewOp \in Op /\ NewOp.status = "running" /\ NewOp.stage = "queued" /\ NewOp.sched = NoSched
  /\ NoWorker \in Worker /\ NoWorker.op = NoOp /\ NoWorker.at = "start"
  /\ Idle \in Tab /\ Idle.at = "idle" /\ Idle.told = "nothing"
  BY DEF NewOp, Op, Stages, NoSched, NoWorker, Worker, Idle, Tab

-----------------------------------------------------------------------------
(* Steps of the pages alone.                                               *)

LEMMA ClientKeeps ==
  ASSUME Inv, UNCHANGED <<wallet, disk, worker, prepared, onchain, restarts>>,
         requests' \subseteq Request, tabs' \in [Tabs -> Tab], pending' \in Tx \cup {NoTx},
         signed' \in 0 .. MaxSigned[wallet], posts' \in 0 .. MaxPosts[wallet], Pages'
  PROVE  Inv'
<1> USE DEF Inv, disk, onchain
<1>1. TypeOK' BY DEF TypeOK
<1>2. Journal' BY DEF Journal, Told
<1>3. Alone' /\ Drafts' /\ Truth' BY DEF Alone, Busy, Drafts, Truth
<1>4. Work' BY DEF Work, Busy, Progress, HasDraft, Custodial, WorkerTx
<1>5. Careful'
  BY DEF Careful, Flight, Known, Money, Claimed, Settled, Flying, Busy, Unknown, WorkerTx
<1> QED BY <1>1, <1>2, <1>3, <1>4, <1>5

(* What a page makes of an operation it may have read.                     *)
LEMMA SeenFacts ==
  ASSUME Inv, NEW id \in DOMAIN ops
  PROVE  /\ Seen(id, ops[id]) \in Tab
         /\ Seen(id, ops[id]).at \in {"idle", "observing", "signing"}
         /\ Seen(id, ops[id]).at = "observing" => Seen(id, ops[id]).op \in DOMAIN ops
         /\ Seen(id, ops[id]).at = "signing" => Seen(id, ops[id]).tx \in Tx
         /\ Seen(id, ops[id]).told = "success" =>
              /\ Seen(id, ops[id]).op = id
              /\ ops[id].status = "complete" /\ ops[id].signs = "queued"
<1>1. id \in OpIds /\ ops[id] \in Op /\ Told(id, ops[id]) /\ DOMAIN ops \subseteq OpIds /\ wallet \in Wallets
  BY DEF Inv, TypeOK, Journal
<1>2. Idle \in Tab /\ Idle = [at |-> "idle", op |-> NoOp, tx |-> NoTx, told |-> "nothing"] BY NewRecords DEF Idle
<1>3. CASE ops[id].status = "complete" /\ ops[id].signs = "queued"
  BY <1>1, <1>2, <1>3 DEF Seen, Tab
<1>4. CASE ops[id].status = "complete" /\ ops[id].signs # "queued"
  <2> DEFINE t == [sched |-> ops[id].sched, stage |-> ops[id].signs, n |-> 0]
  <2>1. ops[id].sched \in Scheds /\ ops[id].signs \in ChainStages BY <1>1, <1>4 DEF Told, Op
  <2>2. 0 \in 0 .. MaxSigned[wallet] BY <1>1
  <2>3. t \in Tx BY <1>1, <2>1, <2>2, TxFacts
  <2>4. Seen(id, ops[id]) = [Idle EXCEPT !.at = "signing", !.op = id, !.tx = t] BY <1>4 DEF Seen
  <2> HIDE DEF t
  <2> QED BY <1>1, <1>2, <2>3, <2>4 DEF Tab
<1>5. CASE ops[id].status = "running"
  BY <1>1, <1>2, <1>5 DEF Seen, Tab
<1>6. CASE ops[id].status = "superseded"
  <2>1. ops[id].next \in DOMAIN ops BY <1>1, <1>6 DEF Told
  <2> QED BY <1>1, <1>2, <1>6, <2>1 DEF Seen, Tab
<1>7. CASE ops[id].status \notin {"complete", "running", "superseded"}
  BY <1>1, <1>2, <1>7 DEF Seen
<1> QED BY <1>3, <1>4, <1>5, <1>6, <1>7

(* A page's new contents p.                                                *)
Sees(p) ==
  /\ p \in Tab
  /\ p.at = "observing" => p.op \in DOMAIN ops
  /\ p.at \in {"signing", "wallet", "returned"} => p.tx \in Tx
  /\ p.at = "returned" => p.tx.n > 0
  /\ p.at \in {"wallet", "returned"} => wallet = "mobile"
  /\ p.told = "success" =>
       p.op \in DOMAIN ops /\ ops[p.op].status = "complete" /\ ops[p.op].signs = "queued"

LEMMA IdleSees == Sees(Idle)
  BY NewRecords DEF Sees

LEMMA PageKeeps ==
  ASSUME Inv, UNCHANGED <<wallet, disk, worker, prepared, onchain, restarts>>,
         requests' \subseteq requests, pending' \in Tx \cup {NoTx},
         signed' \in 0 .. MaxSigned[wallet], posts' \in 0 .. MaxPosts[wallet],
         NEW tab \in Tabs, NEW p, Sees(p), tabs' = [tabs EXCEPT ![tab] = p]
  PROVE  Inv'
<1>1. tabs' \in [Tabs -> Tab] /\ requests' \subseteq Request BY DEF Inv, TypeOK, Sees
<1>2. UNCHANGED <<ops, wallet>> BY DEF disk
<1>3. /\ tabs'[tab] = p
      /\ \A x \in Tabs : x # tab => tabs'[x] = tabs[x]
  BY DEF Inv, TypeOK
<1>4. Pages' BY <1>2, <1>3 DEF Inv, Pages, Sees, Custodial
<1> QED BY <1>1, <1>4, ClientKeeps

(* The answer to a request, which the page may no longer wait for.         *)
LEMMA AnswerKeeps ==
  ASSUME Inv, UNCHANGED <<wallet, disk, worker, prepared, onchain, restarts, pending, signed, posts>>,
         NEW r \in requests, requests' = requests \ {r},
         NEW p, Sees(p), Answer(r, p)
  PROVE  Inv'
<1>1. r.tab \in Tabs BY DEF Inv, TypeOK, Request
<1>2. PICK tab \in Tabs : tab = r.tab BY <1>1
<1>3. CASE tabs[tab].at = "posting" /\ tabs[tab].op = r.id
  <2>1. tabs' = [tabs EXCEPT ![tab] = p] BY <1>2, <1>3 DEF Answer
  <2>2. /\ pending' \in Tx \cup {NoTx}
        /\ signed' \in 0 .. MaxSigned[wallet] /\ posts' \in 0 .. MaxPosts[wallet]
    BY DEF Inv, TypeOK
  <2> QED BY <2>1, <2>2, PageKeeps
<1>4. CASE ~(tabs[tab].at = "posting" /\ tabs[tab].op = r.id)
  <2>1. tabs' = tabs BY <1>2, <1>4 DEF Answer, Inv, TypeOK
  <2>2. Pages' BY <2>1 DEF Inv, Pages, Custodial, disk
  <2> QED BY <2>1, <2>2, ClientKeeps DEF Inv, TypeOK
<1> QED BY <1>3, <1>4

(* A POST of a creation or of a signed transaction.                        *)
LEMMA PostKeeps ==
  ASSUME Inv, UNCHANGED <<wallet, disk, worker, prepared, onchain, restarts>>,
         pending' \in Tx \cup {NoTx},
         signed' \in 0 .. MaxSigned[wallet], posts' \in 0 .. MaxPosts[wallet],
         NEW tab \in Tabs, NEW id \in OpIds, id.kind \in {"create", "submit"},
         id.kind = "submit" => id.tx.n > 0 /\ ~Custodial, Post(tab, id)
  PROVE  Inv'
<1> DEFINE p == [Idle EXCEPT !.at = "posting", !.op = id]
<1>1. /\ requests' = requests \cup {[tab |-> tab, id |-> id]}
      /\ tabs' = [tabs EXCEPT ![tab] = p]
  BY DEF Post
<1>2. p \in Tab /\ p.at = "posting" /\ p.told = "nothing" BY DEF Idle, Tab
<1> HIDE DEF p
<1>3. tabs' \in [Tabs -> Tab] /\ requests' \subseteq Request BY <1>1, <1>2 DEF Inv, TypeOK, Request
<1>4. /\ tabs'[tab] = p
      /\ \A x \in Tabs : x # tab => tabs'[x] = tabs[x]
  BY <1>1 DEF Inv, TypeOK
<1>5. Pages' BY <1>1, <1>2, <1>4 DEF Inv, Pages, Custodial, disk
<1> QED BY <1>3, <1>5, ClientKeeps

LEMMA BrowserKeeps ==
  ASSUME Inv, wallet' = wallet, NEW tab \in Tabs, Browser(tab), ~WalletBroadcasts(tab)
  PROVE  Inv'
<1>0. /\ requests \subseteq Request /\ pending \in Tx \cup {NoTx} /\ tabs \in [Tabs -> Tab]
      /\ signed \in 0 .. MaxSigned[wallet] /\ posts \in 0 .. MaxPosts[wallet]
      /\ MaxSigned[wallet] \in Nat /\ MaxPosts[wallet] \in Nat /\ wallet \in Wallets
      /\ DOMAIN ops \subseteq OpIds
  BY DEF Inv, TypeOK
<1>1. CASE \E p \in Specs : Enable(tab, p)
  <2>1. PICK p \in Specs : Enable(tab, p) BY <1>1
  <2>2. PICK id \in OpIds : id = CreateId(p) /\ id.kind = "create" BY NewIds
  <2>3. /\ Post(tab, id) /\ posts' \in 0 .. MaxPosts[wallet]
        /\ UNCHANGED <<disk, worker, prepared, onchain, pending, signed, restarts>>
    BY <1>0, <2>1, <2>2 DEF Enable
  <2> QED BY <1>0, <2>2, <2>3, PostKeeps
<1>2. CASE \E id \in DOMAIN ops : Continue(tab, id)
  <2>1. PICK id \in DOMAIN ops : Continue(tab, id) BY <1>2
  <2>2. PICK p : p = [Idle EXCEPT !.at = "observing", !.op = id] OBVIOUS
  <2>3. p \in Tab /\ p.at = "observing" /\ p.op = id /\ p.told = "nothing"
    BY <1>0, <2>2 DEF Idle, Tab
  <2>4. Sees(p) BY <2>3 DEF Sees
  <2>5. /\ tabs' = [tabs EXCEPT ![tab] = p]
        /\ UNCHANGED <<disk, worker, prepared, onchain, requests, pending, signed, posts, restarts>>
    BY <2>1, <2>2 DEF Continue
  <2> QED BY <1>0, <2>4, <2>5, PageKeeps
<1>3. CASE ReadOperation(tab)
  <2>1. tabs[tab].op \in DOMAIN ops BY <1>3 DEF ReadOperation, Inv, Pages
  <2>2. PICK id \in DOMAIN ops : id = tabs[tab].op BY <2>1
  <2>3. PICK p : p = Seen(id, ops[id]) OBVIOUS
  <2>4. Sees(p) BY <2>2, <2>3, SeenFacts DEF Sees
  <2>5. /\ tabs' = [tabs EXCEPT ![tab] = p]
        /\ UNCHANGED <<disk, worker, prepared, onchain, requests, pending, signed, posts, restarts>>
    BY <1>0, <1>3, <2>2, <2>3 DEF ReadOperation
  <2> QED BY <1>0, <2>4, <2>5, PageKeeps
<1>4. CASE StopObserving(tab) \/ WalletRefuses(tab)
  BY <1>0, <1>4, IdleSees, PageKeeps DEF StopObserving, WalletRefuses
<1>5. CASE PostFails(tab)
  BY <1>0, <1>5, IdleSees, PageKeeps DEF PostFails
<1>6. CASE SignHere(tab)
  <2>1. /\ wallet = "desktop" /\ tabs[tab].tx \in Tx /\ signed' = signed + 1
        /\ signed' \in 0 .. MaxSigned[wallet] /\ signed' > 0
        /\ Post(tab, SubmitId([tabs[tab].tx EXCEPT !.n = signed']))
        /\ UNCHANGED <<disk, worker, prepared, onchain, pending, posts, restarts>>
    BY <1>0, <1>6 DEF SignHere, Inv, Pages
  <2>2. PICK t \in Tx : t = [tabs[tab].tx EXCEPT !.n = signed'] /\ t.n > 0
    <3>1. [tabs[tab].tx EXCEPT !.n = signed'] = [sched |-> tabs[tab].tx.sched, stage |-> tabs[tab].tx.stage, n |-> signed']
      BY <2>1 DEF Tx
    <3>2. [tabs[tab].tx EXCEPT !.n = signed'] \in Tx BY <1>0, <2>1, <3>1, TxFacts
    <3> QED BY <2>1, <3>1, <3>2
  <2>3. PICK id \in OpIds : id = SubmitId(t) /\ id.kind = "submit" /\ id.tx = t BY NewIds
  <2>4. Post(tab, id) BY <2>1, <2>2, <2>3
  <2> QED BY <1>0, <2>1, <2>2, <2>3, <2>4, PostKeeps DEF Custodial
<1>7. CASE Redirect(tab)
  <2>1. /\ wallet = "mobile" /\ tabs[tab].at = "signing" /\ pending' = tabs[tab].tx
        /\ tabs' = [tabs EXCEPT ![tab].at = "wallet"]
        /\ UNCHANGED <<disk, worker, prepared, onchain, requests, signed, posts, restarts>>
    BY <1>7 DEF Redirect
  <2>2. PICK p : p = [tabs[tab] EXCEPT !.at = "wallet"] OBVIOUS
  <2>3. p \in Tab /\ p.at = "wallet" /\ p.tx = tabs[tab].tx /\ p.told = tabs[tab].told /\ p.op = tabs[tab].op
    BY <1>0, <2>2 DEF Tab
  <2>4. Sees(p) /\ p.tx \in Tx BY <2>1, <2>3 DEF Sees, Inv, Pages
  <2>5. tabs' = [tabs EXCEPT ![tab] = p] BY <1>0, <2>1, <2>2
  <2> QED BY <1>0, <2>1, <2>3, <2>4, <2>5, PageKeeps
<1>8. CASE Resume(tab)
  <2>1. /\ tabs[tab].at = "returned" /\ pending \in Tx /\ pending' = NoTx /\ wallet = "mobile"
        /\ tabs[tab].tx \in Tx /\ tabs[tab].tx.n > 0
        /\ Post(tab, SubmitId([pending EXCEPT !.n = tabs[tab].tx.n]))
        /\ UNCHANGED <<disk, worker, prepared, onchain, signed, posts, restarts>>
    BY <1>0, <1>8 DEF Resume, Inv, Pages
  <2>2. PICK t \in Tx : t = [pending EXCEPT !.n = tabs[tab].tx.n] /\ t.n > 0
    BY <2>1 DEF Tx
  <2>3. PICK id \in OpIds : id = SubmitId(t) /\ id.kind = "submit" /\ id.tx = t BY NewIds
  <2>4. Post(tab, id) BY <2>1, <2>2, <2>3
  <2> QED BY <1>0, <2>1, <2>2, <2>3, <2>4, PostKeeps DEF Custodial
<1> QED BY <1>1, <1>2, <1>3, <1>4, <1>5, <1>6, <1>7, <1>8 DEF Browser

-----------------------------------------------------------------------------
(* Requests: retried, refused, admitted.                                   *)

LEMMA RetriedKeeps ==
  ASSUME Inv, wallet' = wallet, NEW r \in requests, Retried(r)
  PROVE  Inv'
<1>1. r.id \in DOMAIN ops BY DEF Retried
<1>2. PICK id \in DOMAIN ops : id = r.id BY <1>1
<1>3. PICK p : p = Seen(id, ops[id]) OBVIOUS
<1>4. Sees(p) BY <1>3, SeenFacts DEF Sees
<1>5. /\ requests' = requests \ {r} /\ Answer(r, p)
      /\ UNCHANGED <<disk, worker, prepared, onchain, pending, signed, posts, restarts>>
  BY <1>2, <1>3 DEF Retried
<1> QED BY <1>4, <1>5, AnswerKeeps

LEMMA RefusedKeeps ==
  ASSUME Inv, wallet' = wallet, NEW r \in requests, Refused(r)
  PROVE  Inv'
  BY IdleSees, AnswerKeeps DEF Refused

LEMMA AdmittedKeeps ==
  ASSUME Inv, wallet' = wallet, NEW r \in requests, Admitted(r)
  PROVE  Inv'
<1>1. /\ r.id \notin DOMAIN ops /\ ~Blocked /\ (r.id.kind = "create" => ~HasDraft)
      /\ requests' = requests \ {r}
      /\ ops' = Added(Superseded(r.id), r.id, [NewOp EXCEPT !.sched = r.id.tx.sched])
      /\ worker' = [NoWorker EXCEPT !.op = r.id, !.sched = r.id.tx.sched]
      /\ Answer(r, [Idle EXCEPT !.at = "observing", !.op = r.id])
      /\ UNCHANGED <<drafts, stored, prepared, txs, chain, allowed, pending, signed, posts, restarts>>
  BY DEF Admitted, MayAdmit, onchain
<1>2. /\ r.tab \in Tabs /\ r.id \in OpIds /\ r.id.kind \in {"create", "submit"}
      /\ r.id.kind = "submit" => r.id.tx.n > 0 /\ ~Custodial
  BY DEF Inv, TypeOK, Request, Pages
<1>3. PICK id \in OpIds : id = r.id BY <1>2
<1>4. /\ id.kind = "create" => id.tx = NoTx
      /\ id.kind = "submit" => id.tx \in Tx /\ id = SubmitId(id.tx)
      /\ id.tx.sched \in Scheds \cup {NoSched} /\ id # NoOp
  BY IdFacts
<1>5. PICK n \in Op : n = [NewOp EXCEPT !.sched = id.tx.sched]
  BY <1>4, NewRecords DEF Op
<1>6. n.status = "running" /\ n.stage = "queued" /\ n.sched = id.tx.sched BY <1>5 DEF NewOp
<1>7. PICK w \in Worker : w = [NoWorker EXCEPT !.op = id, !.sched = id.tx.sched]
  BY <1>4, NewRecords DEF Worker
<1>8. w.op = id /\ w.at = "start" /\ w.sched = id.tx.sched BY <1>7 DEF NoWorker
<1>9. PICK p \in Tab : p = [Idle EXCEPT !.at = "observing", !.op = id]
  BY NewRecords DEF Tab
<1>10. p.at = "observing" /\ p.op = id /\ p.told = "nothing" BY <1>9 DEF Idle
<1>11. worker' = w /\ Answer(r, p) BY <1>1, <1>3, <1>7, <1>9
(* the journal *)
<1>12. /\ DOMAIN ops' = DOMAIN ops \cup {id} /\ ops'[id] = n
       /\ \A i \in DOMAIN ops : ops'[i] = Superseded(id)[i]
  BY <1>1, <1>3, <1>5 DEF Added, Superseded
<1>13. \A i \in DOMAIN ops :
         \/ ops'[i] = ops[i]
         \/ /\ ops[i].status = "complete" /\ ops[i].signs # "queued"
            /\ ops'[i] = [ops[i] EXCEPT !.status = "superseded", !.next = id, !.signs = "queued"]
  <2> SUFFICES ASSUME NEW i \in DOMAIN ops
      PROVE \/ ops'[i] = ops[i]
            \/ /\ ops[i].status = "complete" /\ ops[i].signs # "queued"
               /\ ops'[i] = [ops[i] EXCEPT !.status = "superseded", !.next = id, !.signs = "queued"]
    OBVIOUS
  <2>1. ops'[i] = IF /\ id.kind = "submit" /\ ops[i].status = "complete" /\ ops[i].signs = id.tx.stage
                     /\ ops[i].sched = id.tx.sched
                  THEN [ops[i] EXCEPT !.status = "superseded", !.next = id, !.signs = "queued"]
                  ELSE ops[i]
    BY <1>12 DEF Superseded
  <2>2. id.kind = "submit" => id.tx.stage # "queued" BY <1>4, TxFacts DEF ChainStages
  <2> QED BY <2>1, <2>2
<1>14. \A i \in DOMAIN ops : ops[i] \in Op /\ i \in OpIds BY DEF Inv, TypeOK
<1>15. \A i \in DOMAIN ops :
         /\ ops'[i] \in Op /\ ops'[i].stage = ops[i].stage /\ ops'[i].sched = ops[i].sched
         /\ \/ ops'[i] = ops[i]
            \/ /\ ops[i].status = "complete" /\ ops[i].signs # "queued"
               /\ ops'[i].status = "superseded" /\ ops'[i].next = id
  <2> SUFFICES ASSUME NEW i \in DOMAIN ops
      PROVE /\ ops'[i] \in Op /\ ops'[i].stage = ops[i].stage /\ ops'[i].sched = ops[i].sched
            /\ \/ ops'[i] = ops[i]
               \/ /\ ops[i].status = "complete" /\ ops[i].signs # "queued"
                  /\ ops'[i].status = "superseded" /\ ops'[i].next = id
    OBVIOUS
  <2>1. CASE ops'[i] = ops[i] BY <1>14, <2>1
  <2>2. CASE ops'[i] # ops[i]
    <3>1. /\ ops[i].status = "complete" /\ ops[i].signs # "queued"
          /\ ops'[i] = [ops[i] EXCEPT !.status = "superseded", !.next = id, !.signs = "queued"]
      BY <1>13, <2>2
    <3>2. PICK op \in Op : op = ops[i] BY <1>14
    <3>3. ops'[i] = [op EXCEPT !.status = "superseded", !.next = id, !.signs = "queued"] BY <3>1, <3>2
    <3>4. /\ ops'[i] \in Op /\ ops'[i].stage = op.stage /\ ops'[i].sched = op.sched
          /\ ops'[i].status = "superseded" /\ ops'[i].next = id
      BY <3>3 DEF Op
    <3> QED BY <3>1, <3>2, <3>4
  <2> QED BY <2>1, <2>2
<1>16. ~Busy /\ ~Unknown /\ \A i \in DOMAIN ops : ops[i].status # "running"
  BY <1>1 DEF Inv, Alone, Blocked, BlocksOwner, Unknown
<1>17. id \notin DOMAIN ops BY <1>1, <1>3
<1> HIDE DEF Inv
(* the pages *)
<1>18. /\ tabs' \in [Tabs -> Tab]
       /\ \A x \in Tabs : tabs'[x] = tabs[x] \/ tabs'[x] = p
  BY <1>2, <1>11 DEF Inv, TypeOK, Answer
<1>19. Pages'
  <2>1. \A x \in Tabs :
          /\ tabs'[x].at = "observing" => tabs'[x].op \in DOMAIN ops'
          /\ tabs'[x].at \in {"signing", "wallet", "returned"} => tabs'[x].tx \in Tx
          /\ tabs'[x].at = "returned" => tabs'[x].tx.n > 0
          /\ tabs'[x].at \in {"wallet", "returned"} => wallet = "mobile"
    BY <1>10, <1>12, <1>18 DEF Inv, Pages
  <2>2. \A x \in Tabs : tabs'[x].told = "success" =>
          /\ tabs'[x].op \in DOMAIN ops'
          /\ ops'[tabs'[x].op].status = "complete" /\ ops'[tabs'[x].op].signs = "queued"
    BY <1>10, <1>12, <1>15, <1>18 DEF Inv, Pages
  <2>3. \A q \in requests' : q \in requests BY <1>1
  <2> QED BY <2>1, <2>2, <2>3 DEF Inv, Pages, Custodial
<1>20. TypeOK'
  <2>1. DOMAIN ops' \subseteq OpIds /\ \A i \in DOMAIN ops' : ops'[i] \in Op
    BY <1>5, <1>12, <1>14, <1>15
  <2>2. requests' \subseteq Request /\ worker' \in Worker BY <1>1, <1>7, <1>11 DEF Inv, TypeOK
  <2> QED BY <1>1, <1>18, <2>1, <2>2 DEF Inv, TypeOK
<1>21. Journal'
  <2>1. Told(id, n)' BY <1>2, <1>3, <1>6, <1>8, <1>11 DEF Told
  <2>2. ASSUME NEW i \in DOMAIN ops PROVE Told(i, ops[i])'
    <3>1. Told(i, ops[i]) BY DEF Inv, Journal
    <3>2. DOMAIN ops' = DOMAIN ops \cup {id} /\ stored' = stored BY <1>1, <1>12
    <3> QED BY <1>15, <1>16, <3>1, <3>2 DEF Told
  <2> QED BY <1>12, <2>1, <2>2 DEF Journal
<1>22. Alone'
  <2>1. \A i \in DOMAIN ops : ~BlocksOwner(ops[i]) BY <1>1 DEF Blocked
  <2>2. \A i \in DOMAIN ops : ~BlocksOwner(ops'[i]) BY <1>15, <2>1 DEF BlocksOwner
  <2> QED BY <1>6, <1>8, <1>11, <1>12, <2>2 DEF Alone, Busy, BlocksOwner
<1>23. Work'
  <2>1. Progress(w, n)' BY <1>1, <1>3, <1>4, <1>6, <1>8 DEF Progress, HasDraft, NoTx
  <2> QED BY <1>1, <1>2, <1>3, <1>8, <1>11, <1>12, <2>1 DEF Work, Custodial
<1>24. Drafts' /\ Truth' BY <1>1 DEF Inv, Drafts, Truth
<1>25. Careful'
  <2> SUFFICES ASSUME wallet # "mobile" PROVE (Flight /\ Known /\ Money)' BY DEF Careful
  <2>1. Flight /\ Known /\ Money BY DEF Inv, Careful
  <2>2. Flying = {} BY <1>16, <2>1 DEF Flight
  <2>3. Flying' = {} BY <1>1, <2>2 DEF Flying
  <2>4. Known' BY <1>1, <1>12, <1>15, <2>1 DEF Known
  <2>5. ASSUME NEW s \in Scheds, chain[s].funded > 0 PROVE drafts[s] = NoSpec /\ s <= prepared
    BY <1>16, <2>1, <2>5 DEF Money, Claimed, Settled
  <2>6. Money' BY <1>1, <2>1, <2>3, <2>5 DEF Money, Claimed, Settled
  <2> QED BY <2>3, <2>4, <2>6 DEF Flight
<1> QED BY <1>19, <1>20, <1>21, <1>22, <1>23, <1>24, <1>25 DEF Inv

-----------------------------------------------------------------------------
(* The end of a worker: its operation gets an outcome.                     *)

(* ops' keeps what is not running, ends what is, and may add recovered     *)
(* drafts, which block the owner.                                          *)
LEMMA EndKeeps ==
  ASSUME Inv, UNCHANGED <<wallet, drafts, stored, prepared, onchain, requests, client>>,
         restarts' \in 0 .. MaxRestarts[wallet],
         worker' = NoWorker,
         DOMAIN ops \subseteq DOMAIN ops', DOMAIN ops' \subseteq OpIds,
         \A i \in DOMAIN ops' : ops'[i] \in Op,
         \A i \in DOMAIN ops' \ DOMAIN ops :
           i.kind = "legacy" /\ ops'[i].status = "reconciliation_required",
         \A i \in DOMAIN ops : ~(Busy /\ i = worker.op) => ops'[i] = ops[i],
         Busy => LET op == ops[worker.op]  new == ops'[worker.op] IN
           /\ new.stage = op.stage /\ new.sched = op.sched
           /\ \/ new.status = "complete" /\ worker.at = "replied" /\ worker.reply = "ok" /\ new.signs = worker.signs
              \/ new.status = "failed" /\ op.stage \notin ChainStages
              \/ new.status = "reconciliation_required"
  PROVE  Inv'
<1> USE DEF onchain, client
<1> DEFINE op == ops[worker.op]
           new == ops'[worker.op]
<1>1. NoWorker.op = NoOp /\ NoWorker \in Worker BY NewRecords
<1>2. ~Busy' BY <1>1 DEF Busy
<1>3. Busy => /\ worker.op \in DOMAIN ops /\ worker.op.kind \in {"create", "submit"}
              /\ op.status = "running"
              /\ Progress(worker, op) /\ Told(worker.op, op)
  BY DEF Inv, Alone, Work, Journal
<1>4. TypeOK' BY <1>1 DEF Inv, TypeOK
<1>5. Pages'
  <2>1. ASSUME NEW i \in DOMAIN ops, ops[i].status = "complete" PROVE ops'[i] = ops[i]
    BY <1>3, <2>1
  <2>2. /\ \A x \in Tabs : /\ tabs[x].at = "observing" => tabs[x].op \in DOMAIN ops'
                           /\ tabs[x].told = "success" =>
                                /\ tabs[x].op \in DOMAIN ops'
                                /\ ops'[tabs[x].op].status = "complete" /\ ops'[tabs[x].op].signs = "queued"
    BY <2>1 DEF Inv, Pages
  <2> QED BY <2>2 DEF Inv, Pages, Custodial
<1>6. Journal'
  <2> SUFFICES ASSUME NEW i \in DOMAIN ops' PROVE Told(i, ops[i])' BY DEF Journal
  <2>1. CASE i \notin DOMAIN ops
    <3>1. i.kind = "legacy" /\ ops'[i].status = "reconciliation_required" BY <2>1
    <3> QED BY <3>1 DEF Told
  <2>2. CASE i \in DOMAIN ops /\ ~(Busy /\ i = worker.op)
    <3>1. Told(i, ops[i]) /\ ops'[i] = ops[i] BY <2>2 DEF Inv, Journal
    <3>2. ops[i].status # "running" BY <1>1, <2>2, <3>1 DEF Told, Inv, TypeOK, Busy
    <3> QED BY <3>1, <3>2 DEF Told
  <2>3. CASE Busy /\ i = worker.op
    <3>1. /\ Progress(worker, op) /\ Told(i, op) /\ worker.op.kind \in {"create", "submit"} BY <1>3, <2>3
    <3>2. /\ op.stage \in Stages /\ worker.at \in {"start", "vault", "preparing", "drafted", "submit", "wait", "undraft", "replied"}
      BY <1>3, <2>3 DEF Inv, TypeOK, Op, Worker
    <3>3. op.stage \notin ChainStages /\ i.kind = "create" => op.sched = NoSched
      BY <2>3, <3>1, <3>2 DEF Progress
    <3>4. worker.at = "replied" /\ worker.reply = "ok" =>
            IF worker.signs = "queued" THEN op.sched \in stored ELSE op.sched \in Scheds
      BY <3>1 DEF Progress
    <3> QED BY <2>3, <3>1, <3>3, <3>4 DEF Told
  <2> QED BY <2>1, <2>2, <2>3
<1>7. Alone' /\ Work' BY <1>2 DEF Alone, Work
<1>8. Drafts' /\ Truth' BY DEF Inv, Drafts, Truth
<1>9. Careful'
  <2> SUFFICES ASSUME wallet # "mobile" PROVE (Flight /\ Known /\ Money)' BY DEF Careful
  <2>1. Flight /\ Known /\ Money BY DEF Inv, Careful
  <2>2. Flying' = Flying BY DEF Flying
  <2>3. Unknown => Unknown'
    <3> SUFFICES ASSUME NEW i \in DOMAIN ops, ops[i].status = "reconciliation_required" PROVE Unknown'
      BY DEF Unknown
    <3>1. ops'[i] = ops[i] BY <1>3
    <3> QED BY <3>1 DEF Unknown
  <2>4. Busy /\ op.stage \in ChainStages /\ ~(worker.at = "replied" /\ worker.reply = "ok") => Unknown'
    BY <1>3 DEF Unknown
  <2>5. Flight'
    <3>1. Flying # {} => Unknown' BY <2>1, <2>3, <2>4 DEF Flight
    <3> QED BY <1>2, <2>1, <2>2, <3>1 DEF Flight
  <2>6. Known'
    <3>1. \A i \in DOMAIN ops : ops'[i].stage = ops[i].stage OBVIOUS
    <3> QED BY <2>1, <3>1 DEF Known
  <2>7. ASSUME NEW s \in Scheds, Settled(s) PROVE Settled(s)'
    <3>1. CASE drafts[s] = NoSpec BY <3>1 DEF Settled
    <3>2. CASE ~Busy /\ Unknown BY <1>2, <2>3, <3>2 DEF Settled
    <3>3. CASE /\ Busy /\ worker.sched = s /\ op.stage = "fund_schedule"
               /\ worker.at \in {"wait", "undraft", "replied"}
      <4>1. worker.at = "replied" /\ worker.reply = "ok" => drafts[s] = NoSpec
        BY <1>3, <3>3 DEF Progress
      <4> QED BY <1>2, <2>4, <3>3, <4>1 DEF Settled, ChainStages
    <3> QED BY <2>7, <3>1, <3>2, <3>3 DEF Settled
  <2>8. Money' BY <2>1, <2>2, <2>7 DEF Money, Claimed
  <2> QED BY <2>5, <2>6, <2>8
<1> QED BY <1>4, <1>5, <1>6, <1>7, <1>8, <1>9 DEF Inv

LEMMA FailureFacts ==
  ASSUME NEW op \in Op, NEW why \in {"deadline", "worker_interrupted", "error", "not_configured"},
         why = "not_configured" => op.stage = "ensuring_vault"
  PROVE  /\ Failure(op, why) \in Op
         /\ Failure(op, why).stage = op.stage /\ Failure(op, why).sched = op.sched
         /\ \/ Failure(op, why).status = "failed" /\ op.stage \notin ChainStages
            \/ Failure(op, why).status = "reconciliation_required"
  BY DEF Failure, Op, Stages, ChainStages

LEMMA DeadlineKeeps ==
  ASSUME Inv, wallet' = wallet, OperationDeadline
  PROVE  Inv'
<1>1. /\ Busy /\ ops' = [ops EXCEPT ![worker.op] = Failure(@, "deadline")] /\ worker' = NoWorker
      /\ UNCHANGED <<drafts, stored, prepared, onchain, requests, client, restarts>>
  BY DEF OperationDeadline, Busy, Still
<1>2. /\ worker.op \in DOMAIN ops /\ ops[worker.op] \in Op /\ DOMAIN ops \subseteq OpIds
      /\ \A i \in DOMAIN ops : ops[i] \in Op
      /\ restarts \in 0 .. MaxRestarts[wallet]
  BY <1>1 DEF Inv, Alone, TypeOK
<1>3. /\ DOMAIN ops' = DOMAIN ops /\ ops'[worker.op] = Failure(ops[worker.op], "deadline")
      /\ \A i \in DOMAIN ops : i # worker.op => ops'[i] = ops[i]
  BY <1>1, <1>2
<1> QED BY <1>1, <1>2, <1>3, FailureFacts, EndKeeps

LEMMA CompleteKeeps ==
  ASSUME Inv, wallet' = wallet, OperationComplete
  PROVE  Inv'
<1>1. /\ Busy /\ worker.at = "replied"
      /\ ops' = [ops EXCEPT ![worker.op] = Finished(@, worker)] /\ worker' = NoWorker
      /\ UNCHANGED <<drafts, stored, prepared, onchain, requests, client, restarts>>
  BY DEF OperationComplete, Working, Busy, Still
<1>2. /\ worker.op \in DOMAIN ops /\ ops[worker.op] \in Op /\ DOMAIN ops \subseteq OpIds
      /\ \A i \in DOMAIN ops : ops[i] \in Op
      /\ restarts \in 0 .. MaxRestarts[wallet]
      /\ worker.reply \in {"none", "ok", "error", "not_configured"}
      /\ worker.signs \in ChainStages \cup {"queued"}
  BY <1>1 DEF Inv, Alone, TypeOK, Worker
<1>3. /\ DOMAIN ops' = DOMAIN ops /\ ops'[worker.op] = Finished(ops[worker.op], worker)
      /\ \A i \in DOMAIN ops : i # worker.op => ops'[i] = ops[i]
  BY <1>1, <1>2
<1>4. worker.reply # "none" /\ (worker.reply = "not_configured" => ops[worker.op].stage = "ensuring_vault")
  BY <1>1 DEF Inv, Work, Progress
<1>5. LET op == ops[worker.op]  new == Finished(ops[worker.op], worker) IN
        /\ new \in Op /\ new.stage = op.stage /\ new.sched = op.sched
        /\ \/ new.status = "complete" /\ worker.at = "replied" /\ worker.reply = "ok" /\ new.signs = worker.signs
           \/ new.status = "failed" /\ op.stage \notin ChainStages
           \/ new.status = "reconciliation_required"
  <2>1. CASE worker.reply = "ok" BY <1>1, <1>2, <2>1 DEF Finished, Op
  <2>2. CASE worker.reply # "ok" BY <1>2, <1>4, <2>2, FailureFacts DEF Finished
  <2> QED BY <2>1, <2>2
<1> QED BY <1>1, <1>2, <1>3, <1>5, EndKeeps

LEMMA RestartKeeps ==
  ASSUME Inv, wallet' = wallet, Restart
  PROVE  Inv'
<1> DEFINE known   == {ops[id].sched : id \in DOMAIN ops}
           orphans == {s \in Scheds : drafts[s] # NoSpec} \ (known \cup stored)
           legacy  == {LegacyId(s) : s \in orphans}
<1>1. /\ restarts' = restarts + 1 /\ restarts < MaxRestarts[wallet] /\ worker' = NoWorker
      /\ ops' = [id \in DOMAIN ops \cup legacy |->
                  IF id \notin DOMAIN ops
                  THEN [NewOp EXCEPT !.status = "reconciliation_required",
                                     !.stage = "legacy_create", !.sched = id.tx.sched]
                  ELSE IF ops[id].status = "running"
                  THEN Failure(ops[id], "worker_interrupted") ELSE ops[id]]
      /\ UNCHANGED <<drafts, stored, prepared, onchain, requests, client>>
  BY DEF Restart
<1>2. legacy \subseteq OpIds /\ \A i \in legacy : i.kind = "legacy" /\ i.tx.sched \in Scheds BY NewIds
<1> HIDE DEF known, orphans, legacy
<1>3. /\ DOMAIN ops \subseteq OpIds /\ \A i \in DOMAIN ops : ops[i] \in Op
      /\ restarts \in 0 .. MaxRestarts[wallet] /\ MaxRestarts[wallet] \in Nat
  BY DEF Inv, TypeOK
<1>4. DOMAIN ops' = DOMAIN ops \cup legacy BY <1>1
<1>5. \A i \in DOMAIN ops' \ DOMAIN ops :
        ops'[i] \in Op /\ i.kind = "legacy" /\ ops'[i].status = "reconciliation_required"
  <2> SUFFICES ASSUME NEW i \in legacy, i \notin DOMAIN ops
      PROVE ops'[i] \in Op /\ i.kind = "legacy" /\ ops'[i].status = "reconciliation_required"
    BY <1>4
  <2>1. ops'[i] = [NewOp EXCEPT !.status = "reconciliation_required",
                                !.stage = "legacy_create", !.sched = i.tx.sched]
    BY <1>1
  <2> QED BY <1>2, <2>1, NewRecords DEF Op, Stages
<1>6. \A i \in DOMAIN ops : ops'[i] = IF ops[i].status = "running"
                                      THEN Failure(ops[i], "worker_interrupted") ELSE ops[i]
  BY <1>1
<1>7. \A i \in DOMAIN ops : ops[i].status = "running" <=> Busy /\ i = worker.op
  BY <1>3 DEF Inv, Journal, Told, Alone, Busy
<1>8. \A i \in DOMAIN ops : ops'[i] \in Op BY <1>3, <1>6, FailureFacts
<1>9. Busy => /\ worker.op \in DOMAIN ops
              /\ ops'[worker.op] = Failure(ops[worker.op], "worker_interrupted")
  BY <1>6, <1>7 DEF Inv, Alone
<1>10. Busy => LET op == ops[worker.op]  new == ops'[worker.op] IN
         /\ new.stage = op.stage /\ new.sched = op.sched
         /\ \/ new.status = "failed" /\ op.stage \notin ChainStages
            \/ new.status = "reconciliation_required"
  BY <1>3, <1>9, FailureFacts
<1>11. /\ DOMAIN ops \subseteq DOMAIN ops' /\ DOMAIN ops' \subseteq OpIds
       /\ \A i \in DOMAIN ops' : ops'[i] \in Op
  BY <1>2, <1>3, <1>4, <1>5, <1>8
<1>12. \A i \in DOMAIN ops : ~(Busy /\ i = worker.op) => ops'[i] = ops[i] BY <1>6, <1>7
<1>13. restarts' \in 0 .. MaxRestarts[wallet]
  <2>1. restarts' = restarts + 1 /\ restarts < MaxRestarts[wallet] BY <1>1
  <2> QED BY <1>3, <2>1
<1> QED BY <1>1, <1>5, <1>10, <1>11, <1>12, <1>13, EndKeeps
-----------------------------------------------------------------------------
(* Steps of the worker.                                                    *)

(* The worker w goes on with its operation, whose record is now o.         *)
LEMMA WorkerStepKeeps ==
  ASSUME Inv, UNCHANGED <<wallet, onchain, requests, client, restarts>>, Busy,
         NEW o \in Op, o.status = "running", NEW w \in Worker, w.op = worker.op,
         DOMAIN ops' = DOMAIN ops, ops'[worker.op] = o,
         \A i \in DOMAIN ops : i # worker.op => ops'[i] = ops[i],
         worker' = w,
         drafts' \in [Scheds -> Specs \cup {NoSpec}], stored' \subseteq Scheds, prepared' \in 0 .. MaxScheds,
         stored \subseteq stored', prepared <= prepared',
         Progress(w, o)', w.at = "wait" => WorkerTx' \in DOMAIN txs,
         Drafts', Truth',
         ops[worker.op].stage \in ChainStages => o.stage \in ChainStages,
         wallet # "mobile" =>
           /\ \/ Flying = {}
              \/ w.at = "replied" /\ w.reply = "error" /\ o = ops[worker.op] /\ w.sched = worker.sched
           /\ \A s \in Scheds : Claimed(s) /\ Settled(s) => Settled(s)'
  PROVE  Inv'
<1> USE DEF onchain, client
<1>1. /\ Work /\ worker.op \in DOMAIN ops /\ ops[worker.op].status = "running"
      /\ worker.op.kind \in {"create", "submit"}
  BY DEF Inv, Alone, Work
<1>2. Busy' BY DEF Busy
<1>3. TypeOK'
  <2>1. \A i \in DOMAIN ops' : ops'[i] \in Op BY DEF Inv, TypeOK
  <2> QED BY <2>1 DEF Inv, TypeOK
<1>4. Pages'
  <2>1. \A x \in Tabs : tabs[x].told = "success" => ops'[tabs[x].op] = ops[tabs[x].op]
    BY <1>1 DEF Inv, Pages
  <2> QED BY <2>1 DEF Inv, Pages, Custodial
<1>5. Journal'
  <2> SUFFICES ASSUME NEW i \in DOMAIN ops PROVE Told(i, ops[i])' BY DEF Journal
  <2>1. Told(i, ops[i]) BY DEF Inv, Journal
  <2>2. CASE i = worker.op BY <1>1, <2>1, <2>2 DEF Told
  <2>3. CASE i # worker.op BY <2>1, <2>3 DEF Told
  <2> QED BY <2>2, <2>3
<1>6. Alone' BY <1>1 DEF Inv, Alone, BlocksOwner
<1>7. Work' BY <1>1 DEF Work, Custodial
<1>8. Careful'
  <2> SUFFICES ASSUME wallet # "mobile" PROVE (Flight /\ Known /\ Money)' BY DEF Careful
  <2>1. Flight /\ Known /\ Money BY DEF Inv, Careful
  <2>2. Flying' = Flying BY DEF Flying
  <2>3. Flight'
    <3>1. CASE Flying = {} BY <2>2, <3>1 DEF Flight
    <3>2. CASE Flying # {}
      <4>1. w.at = "replied" /\ w.reply = "error" /\ o = ops[worker.op] /\ w.sched = worker.sched BY <3>2
      <4>2. WorkerTx' = WorkerTx BY <4>1 DEF WorkerTx
      <4> QED BY <1>2, <2>1, <2>2, <4>1, <4>2 DEF Flight
    <3> QED BY <3>1, <3>2
  <2>4. Known'
    <3>1. \A i \in DOMAIN ops : ops[i].stage \in ChainStages => ops'[i].stage \in ChainStages OBVIOUS
    <3> QED BY <2>1, <3>1 DEF Known
  <2>5. Money'
    <3>1. \A s \in Scheds : s <= prepared => s <= prepared' BY DEF Inv, TypeOK, Scheds
    <3> QED BY <2>1, <2>2, <3>1 DEF Money, Claimed
  <2> QED BY <2>3, <2>4, <2>5
<1> QED BY <1>3, <1>4, <1>5, <1>6, <1>7, <1>8, <1>1 DEF Inv

LEMMA WorkerFacts ==
  ASSUME Inv, Busy
  PROVE  /\ worker.op \in DOMAIN ops /\ worker.op \in OpIds /\ ops[worker.op] \in Op /\ worker \in Worker
         /\ ops[worker.op].status = "running" /\ worker.op.kind \in {"create", "submit"}
         /\ Progress(worker, ops[worker.op])
         /\ worker.op.kind = "submit" => ~Custodial /\ worker.op.tx \in Tx
         /\ worker.op.kind = "create" => worker.op.spec \in Specs
         /\ wallet # "mobile" /\ worker.at \notin {"wait", "replied"} => Flying = {}
<1>1. worker.op \in OpIds BY DEF Inv, TypeOK, Alone
<1>2. /\ worker.op.kind = "submit" => worker.op.tx \in Tx
      /\ worker.op.kind = "create" => worker.op.spec \in Specs
  BY <1>1, IdFacts
<1>3. wallet # "mobile" /\ worker.at \notin {"wait", "replied"} => Flying = {}
  BY DEF Inv, Careful, Flight
<1> QED BY <1>1, <1>2, <1>3 DEF Inv, TypeOK, Alone, Work

LEMMA Checkpointed ==
  ASSUME Inv, Busy, NEW stage \in Stages, NEW s \in Scheds \cup {NoSched}, Checkpoint(stage, s)
  PROVE  \E o \in Op :
           /\ o.status = "running" /\ o.stage = stage /\ o.sched = s
           /\ DOMAIN ops' = DOMAIN ops /\ ops'[worker.op] = o
           /\ \A i \in DOMAIN ops : i # worker.op => ops'[i] = ops[i]
<1>1. PICK op \in Op : op = ops[worker.op] /\ op.status = "running" BY WorkerFacts
<1>2. ops' = [ops EXCEPT ![worker.op] = [op EXCEPT !.stage = stage, !.sched = s]]
  BY <1>1 DEF Checkpoint
<1>3. PICK o \in Op : o = [op EXCEPT !.stage = stage, !.sched = s] BY DEF Op
<1>4. o.status = "running" /\ o.stage = stage /\ o.sched = s BY <1>1, <1>3 DEF Op
<1> QED BY <1>2, <1>3, <1>4, WorkerFacts

(* The operation's record, when a step leaves it alone.                    *)
LEMMA Unchecked ==
  ASSUME Inv, Busy, UNCHANGED ops
  PROVE  \E o \in Op :
           /\ o = ops[worker.op] /\ o.status = "running"
           /\ DOMAIN ops' = DOMAIN ops /\ ops'[worker.op] = o
           /\ \A i \in DOMAIN ops : i # worker.op => ops'[i] = ops[i]
  BY WorkerFacts

LEMMA WorkerMoves ==
  ASSUME Inv, Busy,
         NEW at \in {"start", "vault", "preparing", "drafted", "submit", "wait", "undraft", "replied"},
         worker' = [worker EXCEPT !.at = at]
  PROVE  \E w \in Worker : worker' = w /\ w.op = worker.op /\ w.at = at /\ w.sched = worker.sched
<1>1. PICK v \in Worker : v = worker BY WorkerFacts
<1>2. PICK w : w = [v EXCEPT !.at = at] OBVIOUS
<1>3. w \in Worker /\ w.op = v.op /\ w.at = at /\ w.sched = v.sched BY <1>2 DEF Worker
<1> QED BY <1>1, <1>2, <1>3

LEMMA WorkerReplies ==
  ASSUME Inv, Busy, NEW kind \in {"ok", "error", "not_configured"},
         NEW signs \in ChainStages \cup {"queued"}, Reply(kind, signs)
  PROVE  \E w \in Worker :
           /\ worker' = w /\ w.op = worker.op /\ w.at = "replied" /\ w.sched = worker.sched
           /\ w.reply = kind /\ w.signs = signs
<1>1. PICK v \in Worker : v = worker BY WorkerFacts
<1>2. PICK w : w = [v EXCEPT !.at = "replied", !.reply = kind, !.signs = signs] OBVIOUS
<1>3. /\ w \in Worker /\ w.op = v.op /\ w.at = "replied" /\ w.sched = v.sched
      /\ w.reply = kind /\ w.signs = signs
  BY <1>2 DEF Worker
<1> QED BY <1>1, <1>2, <1>3 DEF Reply

LEMMA CreateStartsKeeps ==
  ASSUME Inv, wallet' = wallet, CreateStarts
  PROVE  Inv'
<1>1. /\ Busy /\ worker.at = "start" /\ worker.op.kind = "create"
      /\ Checkpoint("ensuring_vault", NoSched) /\ worker' = [worker EXCEPT !.at = "vault"]
      /\ UNCHANGED <<drafts, stored, prepared, onchain, requests, client, restarts>>
  BY DEF CreateStarts, Working, Busy, Still
<1>2. PICK o \in Op :
           /\ o.status = "running" /\ o.stage = "ensuring_vault" /\ o.sched = NoSched
           /\ DOMAIN ops' = DOMAIN ops /\ ops'[worker.op] = o
           /\ \A i \in DOMAIN ops : i # worker.op => ops'[i] = ops[i]
  BY <1>1, Checkpointed DEF Stages
<1>3. PICK w \in Worker : worker' = w /\ w.op = worker.op /\ w.at = "vault"
  <2>1. "vault" \in {"start", "vault", "preparing", "drafted", "submit", "wait", "undraft", "replied"}
    OBVIOUS
  <2> QED BY <1>1, <2>1, WorkerMoves
<1>4. Progress(w, o)' BY <1>1, <1>2, <1>3, WorkerFacts DEF Progress, HasDraft
<1>5. Drafts' /\ Truth' BY <1>1 DEF Inv, Drafts, Truth, onchain
<1>6. /\ drafts' \in [Scheds -> Specs \cup {NoSpec}] /\ stored' \subseteq Scheds /\ prepared' \in 0 .. MaxScheds
      /\ stored \subseteq stored' /\ prepared <= prepared'
  BY <1>1 DEF Inv, TypeOK
<1>7. ops[worker.op].stage \notin ChainStages BY <1>1, WorkerFacts DEF Progress, ChainStages
<1>8. wallet # "mobile" => Flying = {} BY <1>1, WorkerFacts
<1>9. \A s \in Scheds : Settled(s) => Settled(s)' BY <1>1 DEF Settled
<1> HIDE DEF Inv
<1> QED BY <1>1, <1>2, <1>3, <1>4, <1>5, <1>6, <1>7, <1>8, <1>9, WorkerStepKeeps

(* What a step that leaves the drafts and the schedules alone need not say.*)
LEMMA DraftsStay ==
  ASSUME Inv, UNCHANGED <<drafts, stored, prepared, onchain>>
  PROVE  /\ drafts' \in [Scheds -> Specs \cup {NoSpec}] /\ stored' \subseteq Scheds /\ prepared' \in 0 .. MaxScheds
         /\ stored \subseteq stored' /\ prepared <= prepared'
         /\ Drafts' /\ Truth'
  BY DEF Inv, TypeOK, Drafts, Truth, onchain

LEMMA VaultReadyKeeps ==
  ASSUME Inv, wallet' = wallet, VaultReady
  PROVE  Inv'
<1>1. /\ Busy /\ worker.at = "vault"
      /\ Checkpoint("preparing", NoSched) /\ worker' = [worker EXCEPT !.at = "preparing"]
      /\ UNCHANGED <<drafts, stored, prepared, onchain, requests, client, restarts>>
  BY DEF VaultReady, Working, Busy, Still
<1>2. PICK o \in Op :
           /\ o.status = "running" /\ o.stage = "preparing" /\ o.sched = NoSched
           /\ DOMAIN ops' = DOMAIN ops /\ ops'[worker.op] = o
           /\ \A i \in DOMAIN ops : i # worker.op => ops'[i] = ops[i]
  BY <1>1, Checkpointed DEF Stages
<1>3. PICK w \in Worker : worker' = w /\ w.op = worker.op /\ w.at = "preparing"
  <2>1. "preparing" \in {"start", "vault", "preparing", "drafted", "submit", "wait", "undraft", "replied"}
    OBVIOUS
  <2> QED BY <1>1, <2>1, WorkerMoves
<1>4. Progress(w, o)' BY <1>1, <1>2, <1>3, WorkerFacts DEF Progress, HasDraft
<1>5. ops[worker.op].stage \notin ChainStages BY <1>1, WorkerFacts DEF Progress, ChainStages
<1>6. wallet # "mobile" => Flying = {} BY <1>1, WorkerFacts
<1>7. \A s \in Scheds : Settled(s) => Settled(s)' BY <1>1 DEF Settled
<1> QED BY <1>1, <1>2, <1>3, <1>4, <1>5, <1>6, <1>7, DraftsStay, WorkerStepKeeps

LEMMA WorkerErrsKeeps ==
  ASSUME Inv, wallet' = wallet, WorkerErrs
  PROVE  Inv'
<1>1. PICK why \in {"error", "not_configured"} :
        (why = "not_configured" => worker.at = "vault") /\ Reply(why, "queued")
  BY DEF WorkerErrs
<1>2. /\ Busy /\ worker.at \in {"vault", "preparing", "submit", "wait"}
      /\ UNCHANGED <<ops, drafts, stored, prepared, onchain, requests, client, restarts>>
  BY DEF WorkerErrs, Busy, Still, disk
<1>3. PICK w \in Worker :
        /\ worker' = w /\ w.op = worker.op /\ w.at = "replied" /\ w.sched = worker.sched
        /\ w.reply = why /\ w.signs = "queued"
  BY <1>1, <1>2, WorkerReplies
<1>4. PICK o \in Op :
           /\ o = ops[worker.op] /\ o.status = "running"
           /\ DOMAIN ops' = DOMAIN ops /\ ops'[worker.op] = o
           /\ \A i \in DOMAIN ops : i # worker.op => ops'[i] = ops[i]
  BY <1>2, Unchecked
<1>5. Progress(w, o)' BY <1>1, <1>2, <1>3, <1>4, WorkerFacts DEF Progress
<1>6. wallet # "mobile" => Flying = {} \/ w.reply = "error"
  BY <1>1, <1>2, <1>3, WorkerFacts
<1>7. \A s \in Scheds : Settled(s) => Settled(s)'
  BY <1>2, <1>3, WorkerFacts DEF Settled, Busy
<1> QED BY <1>2, <1>3, <1>4, <1>5, <1>6, <1>7, DraftsStay, WorkerStepKeeps

LEMMA DraftStoredKeeps ==
  ASSUME Inv, wallet' = wallet, DraftStored
  PROVE  Inv'
<1>1. /\ Busy /\ worker.at = "preparing" /\ prepared < MaxScheds /\ prepared' = prepared + 1
      /\ drafts' = [drafts EXCEPT ![prepared + 1] = worker.op.spec]
      /\ worker' = [worker EXCEPT !.at = "drafted", !.sched = prepared + 1]
      /\ UNCHANGED <<ops, stored, onchain, requests, client, restarts>>
  BY DEF DraftStored, Working, Busy, Still
<1>2. /\ prepared \in 0 .. MaxScheds /\ drafts \in [Scheds -> Specs \cup {NoSpec}] /\ stored \subseteq Scheds
      /\ worker.op.kind = "create" /\ worker.op.spec \in Specs /\ ~HasDraft
  BY <1>1, WorkerFacts DEF Inv, TypeOK, Progress
<1>3. PICK u \in Scheds : u = prepared + 1 BY <1>1, <1>2 DEF Scheds
<1>4. prepared' \in 0 .. MaxScheds /\ prepared <= prepared' BY <1>1, <1>2
<1>5. PICK w \in Worker : worker' = w /\ w.op = worker.op /\ w.at = "drafted" /\ w.sched = u
  <2>1. PICK v \in Worker : v = worker BY <1>1, WorkerFacts
  <2>2. PICK w : w = [v EXCEPT !.at = "drafted", !.sched = u] OBVIOUS
  <2>3. w \in Worker /\ w.op = v.op /\ w.at = "drafted" /\ w.sched = u BY <2>2 DEF Worker
  <2> QED BY <1>1, <1>3, <2>1, <2>2, <2>3
<1>6. PICK o \in Op :
           /\ o = ops[worker.op] /\ o.status = "running"
           /\ DOMAIN ops' = DOMAIN ops /\ ops'[worker.op] = o
           /\ \A i \in DOMAIN ops : i # worker.op => ops'[i] = ops[i]
  BY <1>1, Unchecked
<1>7. /\ drafts' \in [Scheds -> Specs \cup {NoSpec}] /\ drafts'[u] \in Specs
      /\ \A s \in Scheds : s # u => drafts'[s] = NoSpec
  BY <1>1, <1>2, <1>3 DEF HasDraft
<1>8. Drafts'
  <2>1. \A s \in Scheds : s > prepared' => s # u BY <1>1, <1>2, <1>3 DEF Scheds
  <2> QED BY <1>7, <2>1 DEF Drafts
<1>9. Truth' BY <1>1 DEF Inv, Truth, onchain
<1>10. Progress(w, o)' BY <1>1, <1>2, <1>5, <1>6, <1>7, WorkerFacts DEF Progress
<1>11. wallet # "mobile" => Flying = {} BY <1>1, WorkerFacts
<1>12. wallet # "mobile" => \A s \in Scheds : Claimed(s) => Settled(s)'
  <2> SUFFICES ASSUME wallet # "mobile", NEW s \in Scheds, Claimed(s) PROVE drafts'[s] = NoSpec
    BY DEF Settled
  <2>1. s <= prepared BY DEF Inv, Careful, Money
  <2>2. s # u BY <1>2, <1>3, <2>1 DEF Scheds
  <2> QED BY <1>7, <2>2
<1> QED BY <1>1, <1>2, <1>4, <1>5, <1>6, <1>7, <1>8, <1>9, <1>10, <1>11, <1>12, WorkerStepKeeps

LEMMA CreateCheckpointedKeeps ==
  ASSUME Inv, wallet' = wallet, CreateCheckpointed
  PROVE  Inv'
<1>1. /\ Busy /\ worker.at = "drafted" /\ Checkpoint("create_schedule", worker.sched)
      /\ IF Custodial THEN worker' = [worker EXCEPT !.at = "submit"] ELSE Reply("ok", "create_schedule")
      /\ UNCHANGED <<drafts, stored, prepared, onchain, requests, client, restarts>>
  BY DEF CreateCheckpointed, Working, Busy, Still
<1>2. worker.op.kind = "create" /\ worker.sched \in Scheds /\ drafts[worker.sched] # NoSpec
  BY <1>1, WorkerFacts DEF Progress
<1>3. PICK o \in Op :
           /\ o.status = "running" /\ o.stage = "create_schedule" /\ o.sched = worker.sched
           /\ DOMAIN ops' = DOMAIN ops /\ ops'[worker.op] = o
           /\ \A i \in DOMAIN ops : i # worker.op => ops'[i] = ops[i]
  BY <1>1, <1>2, Checkpointed DEF Stages, ChainStages
<1>4. PICK w \in Worker : /\ worker' = w /\ w.op = worker.op /\ w.sched = worker.sched
                          /\ \/ w.at = "submit"
                             \/ w.at = "replied" /\ w.reply = "ok" /\ w.signs = "create_schedule"
  <2>1. CASE Custodial
    <3>1. "submit" \in {"start", "vault", "preparing", "drafted", "submit", "wait", "undraft", "replied"}
      OBVIOUS
    <3>2. worker' = [worker EXCEPT !.at = "submit"] BY <1>1, <2>1
    <3>3. PICK w \in Worker : worker' = w /\ w.op = worker.op /\ w.at = "submit" /\ w.sched = worker.sched
      BY <1>1, <3>1, <3>2, WorkerMoves
    <3> QED BY <3>3
  <2>2. CASE ~Custodial
    BY <1>1, <2>2, WorkerReplies DEF ChainStages
  <2> QED BY <2>1, <2>2
<1>5. Progress(w, o)' BY <1>1, <1>2, <1>3, <1>4 DEF Progress, ChainStages
<1>6. wallet # "mobile" => Flying = {} BY <1>1, WorkerFacts
<1>7. \A s \in Scheds : Settled(s) => Settled(s)' BY <1>1 DEF Settled
<1>8. o.stage \in ChainStages BY <1>3 DEF ChainStages
<1> QED BY <1>1, <1>3, <1>4, <1>5, <1>6, <1>7, <1>8, DraftsStay, WorkerStepKeeps

LEMMA SubmitStartsKeeps ==
  ASSUME Inv, wallet' = wallet, SubmitStarts
  PROVE  Inv'
<1>1. /\ Busy /\ worker.at = "start" /\ worker.op.kind = "submit"
      /\ UNCHANGED <<drafts, stored, prepared, onchain, requests, client, restarts>>
  BY DEF SubmitStarts, Working, Busy, Still
<1>2. /\ worker.op.tx \in Tx /\ worker.op.tx.stage \in ChainStages /\ worker.op.tx.sched \in Scheds
      /\ worker.sched = worker.op.tx.sched
      /\ ops[worker.op].stage \notin ChainStages
  BY <1>1, WorkerFacts, TxFacts DEF Progress, ChainStages
<1>3. wallet # "mobile" => Flying = {} BY <1>1, WorkerFacts
<1>4. \A s \in Scheds : Settled(s) => Settled(s)' BY <1>1 DEF Settled
<1>5. CASE drafts[worker.sched] = NoSpec
  <2>1. Reply("error", "queued") /\ UNCHANGED ops BY <1>5 DEF SubmitStarts
  <2>2. PICK w \in Worker :
          /\ worker' = w /\ w.op = worker.op /\ w.at = "replied" /\ w.sched = worker.sched
          /\ w.reply = "error" /\ w.signs = "queued"
    BY <1>1, <2>1, WorkerReplies
  <2>3. PICK o \in Op :
             /\ o = ops[worker.op] /\ o.status = "running"
             /\ DOMAIN ops' = DOMAIN ops /\ ops'[worker.op] = o
             /\ \A i \in DOMAIN ops : i # worker.op => ops'[i] = ops[i]
    BY <1>1, <2>1, Unchecked
  <2>4. Progress(w, o)' BY <1>1, <2>2, <2>3 DEF Progress
  <2> QED BY <1>1, <1>3, <1>4, <2>2, <2>3, <2>4, DraftsStay, WorkerStepKeeps
<1>6. CASE drafts[worker.sched] # NoSpec
  <2>1. Checkpoint(worker.op.tx.stage, worker.sched) /\ worker' = [worker EXCEPT !.at = "submit"]
    BY <1>6 DEF SubmitStarts
  <2>2. PICK o \in Op :
             /\ o.status = "running" /\ o.stage = worker.op.tx.stage /\ o.sched = worker.sched
             /\ DOMAIN ops' = DOMAIN ops /\ ops'[worker.op] = o
             /\ \A i \in DOMAIN ops : i # worker.op => ops'[i] = ops[i]
    BY <1>1, <1>2, <2>1, Checkpointed DEF Stages
  <2>3. PICK w \in Worker : worker' = w /\ w.op = worker.op /\ w.at = "submit" /\ w.sched = worker.sched
    <3>1. "submit" \in {"start", "vault", "preparing", "drafted", "submit", "wait", "undraft", "replied"}
      OBVIOUS
    <3> QED BY <1>1, <2>1, <3>1, WorkerMoves
  <2>4. Progress(w, o)' BY <1>1, <1>2, <1>6, <2>2, <2>3 DEF Progress
  <2> QED BY <1>1, <1>2, <1>3, <1>4, <2>2, <2>3, <2>4, DraftsStay, WorkerStepKeeps
<1> QED BY <1>5, <1>6

LEMMA WorkerTxFacts ==
  ASSUME Inv, Busy, worker.at \in {"submit", "wait"}
  PROVE  /\ WorkerTx \in Tx /\ WorkerTx.sched = worker.sched /\ WorkerTx.stage = ops[worker.op].stage
         /\ WorkerTx.sched \in Scheds /\ WorkerTx.stage \in ChainStages /\ drafts[worker.sched] # NoSpec
         /\ WorkerTx.n > 0 => WorkerTx = worker.op.tx /\ worker.op = SubmitId(WorkerTx)
<1>1. /\ worker.op \in OpIds /\ worker.op.kind \in {"create", "submit"}
      /\ worker.sched \in Scheds /\ drafts[worker.sched] # NoSpec /\ ops[worker.op].stage \in ChainStages
      /\ worker.op.kind = "submit" =>
           ops[worker.op].stage = worker.op.tx.stage /\ worker.sched = worker.op.tx.sched
  BY WorkerFacts DEF Progress
<1>2. CASE worker.op.kind = "submit"
  <2>1. worker.op.tx \in Tx /\ worker.op = SubmitId(worker.op.tx) BY <1>1, <1>2, IdFacts
  <2> QED BY <1>1, <1>2, <2>1 DEF WorkerTx
<1>3. CASE worker.op.kind = "create"
  <2>1. WorkerTx = [sched |-> worker.sched, stage |-> ops[worker.op].stage, n |-> 0] BY <1>3 DEF WorkerTx
  <2>2. wallet \in Wallets BY DEF Inv, TypeOK
  <2>3. 0 \in 0 .. MaxSigned[wallet] BY <2>2
  <2>4. WorkerTx \in Tx BY <1>1, <2>1, <2>2, <2>3, TxFacts
  <2> QED BY <1>1, <2>1, <2>4
<1> QED BY <1>1, <1>2, <1>3

LEMMA TxConfirmedKeeps ==
  ASSUME Inv, wallet' = wallet, TxConfirmed
  PROVE  Inv'
<1>1. /\ Busy /\ worker.at = "wait" /\ txs[WorkerTx] = "ok"
      /\ UNCHANGED <<drafts, prepared, txs, chain, allowed, requests, client, restarts>>
      /\ UNCHANGED onchain
  BY DEF TxConfirmed, Working, Busy, Still, onchain
<1>2. /\ WorkerTx.sched = worker.sched /\ WorkerTx.stage = ops[worker.op].stage
      /\ worker.sched \in Scheds /\ ops[worker.op].stage \in ChainStages
      /\ drafts[worker.sched] # NoSpec /\ WorkerTx \in DOMAIN txs
      /\ ops[worker.op].sched = worker.sched
  BY <1>1, WorkerTxFacts, WorkerFacts DEF Inv, Work, Progress
<1>3. PICK op \in Op : op = ops[worker.op] /\ op.status = "running" BY <1>1, WorkerFacts
<1>4. wallet # "mobile" => Flying = {}
  <2> SUFFICES ASSUME wallet # "mobile", NEW t \in Flying PROVE FALSE OBVIOUS
  <2>1. t = WorkerTx BY <1>1 DEF Inv, Careful, Flight
  <2> QED BY <1>1, <2>1 DEF Flying
<1>5. /\ drafts' \in [Scheds -> Specs \cup {NoSpec}] /\ prepared' \in 0 .. MaxScheds
      /\ prepared <= prepared' /\ Drafts'
  BY <1>1 DEF Inv, TypeOK, Drafts
<1>6. CASE WorkerTx.stage = "fund_schedule"
  <2>1. /\ stored' = stored \cup {worker.sched} /\ worker' = [worker EXCEPT !.at = "undraft"] /\ UNCHANGED ops
    BY <1>6 DEF TxConfirmed
  <2>2. PICK o \in Op :
             /\ o = ops[worker.op] /\ o.status = "running"
             /\ DOMAIN ops' = DOMAIN ops /\ ops'[worker.op] = o
             /\ \A i \in DOMAIN ops : i # worker.op => ops'[i] = ops[i]
    BY <1>1, <2>1, Unchecked
  <2>3. PICK w \in Worker : worker' = w /\ w.op = worker.op /\ w.at = "undraft" /\ w.sched = worker.sched
    <3>1. "undraft" \in {"start", "vault", "preparing", "drafted", "submit", "wait", "undraft", "replied"}
      OBVIOUS
    <3> QED BY <1>1, <2>1, <3>1, WorkerMoves
  <2>4. stored' \subseteq Scheds /\ stored \subseteq stored' BY <1>2, <2>1 DEF Inv, TypeOK
  <2>5. Truth'
    <3>1. chain[worker.sched].created /\ chain[worker.sched].funded > 0
      BY <1>1, <1>2, <1>6 DEF Inv, Truth
    <3> QED BY <1>1, <2>1, <3>1 DEF Inv, Truth
  <2>6. Progress(w, o)'
    <3>1. worker.op.kind = "submit" => o.stage = worker.op.tx.stage /\ worker.sched = worker.op.tx.sched
      BY <1>1, <2>2, WorkerFacts DEF Progress
    <3> QED BY <1>2, <1>6, <2>1, <2>2, <2>3, <3>1 DEF Progress
  <2>7. \A s \in Scheds : Settled(s) => Settled(s)' BY <1>1, <2>1, <2>3 DEF Settled, Busy
  <2> QED BY <1>1, <1>4, <1>5, <2>2, <2>3, <2>4, <2>5, <2>6, <2>7, WorkerStepKeeps
<1>7. CASE WorkerTx.stage # "fund_schedule"
  <2>1. /\ UNCHANGED stored
        /\ IF Custodial
           THEN /\ Checkpoint(NextStage(WorkerTx.stage), worker.sched)
                /\ worker' = [worker EXCEPT !.at = "submit"]
           ELSE Reply("ok", NextStage(WorkerTx.stage)) /\ UNCHANGED ops
    BY <1>7 DEF TxConfirmed
  <2>2. NextStage(WorkerTx.stage) \in ChainStages BY DEF NextStage, ChainStages
  <2>3. \A s \in Scheds : Settled(s) => Settled(s)' BY <1>1, <1>2, <1>7 DEF Settled
  <2>4. stored' \subseteq Scheds /\ stored \subseteq stored' /\ Truth'
    BY <1>1, <2>1 DEF Inv, TypeOK, Truth
  <2>5. CASE Custodial
    <3>1. Checkpoint(NextStage(WorkerTx.stage), worker.sched) /\ worker' = [worker EXCEPT !.at = "submit"]
      BY <2>1, <2>5
    <3>2. PICK o \in Op :
               /\ o.status = "running" /\ o.stage = NextStage(WorkerTx.stage) /\ o.sched = worker.sched
               /\ DOMAIN ops' = DOMAIN ops /\ ops'[worker.op] = o
               /\ \A i \in DOMAIN ops : i # worker.op => ops'[i] = ops[i]
      BY <1>1, <1>2, <2>2, <3>1, Checkpointed DEF Stages
    <3>3. PICK w \in Worker : worker' = w /\ w.op = worker.op /\ w.at = "submit" /\ w.sched = worker.sched
      <4>1. "submit" \in {"start", "vault", "preparing", "drafted", "submit", "wait", "undraft", "replied"}
        OBVIOUS
      <4> QED BY <1>1, <3>1, <4>1, WorkerMoves
    <3>4. worker.op.kind # "submit" BY <1>1, <2>5, WorkerFacts
    <3>5. Progress(w, o)' BY <1>1, <1>2, <2>2, <3>2, <3>3, <3>4 DEF Progress
    <3> QED BY <1>1, <1>4, <1>5, <2>2, <2>3, <2>4, <3>2, <3>3, <3>5, WorkerStepKeeps
  <2>6. CASE ~Custodial
    <3>1. Reply("ok", NextStage(WorkerTx.stage)) /\ UNCHANGED ops BY <2>1, <2>6
    <3>2. PICK w \in Worker :
            /\ worker' = w /\ w.op = worker.op /\ w.at = "replied" /\ w.sched = worker.sched
            /\ w.reply = "ok" /\ w.signs = NextStage(WorkerTx.stage)
      BY <1>1, <2>2, <3>1, WorkerReplies
    <3>3. PICK o \in Op :
               /\ o = ops[worker.op] /\ o.status = "running"
               /\ DOMAIN ops' = DOMAIN ops /\ ops'[worker.op] = o
               /\ \A i \in DOMAIN ops : i # worker.op => ops'[i] = ops[i]
      BY <1>1, <3>1, Unchecked
    <3>4. Progress(w, o)' BY <1>1, <1>2, <1>7, <2>2, <3>2, <3>3 DEF Progress, ChainStages
    <3> QED BY <1>1, <1>4, <1>5, <2>3, <2>4, <3>2, <3>3, <3>4, WorkerStepKeeps
  <2> QED BY <2>5, <2>6
<1> QED BY <1>6, <1>7

LEMMA DraftDeletedKeeps ==
  ASSUME Inv, wallet' = wallet, DraftDeleted
  PROVE  Inv'
<1>1. /\ Busy /\ worker.at = "undraft" /\ drafts' = [drafts EXCEPT ![worker.sched] = NoSpec]
      /\ Reply("ok", "queued")
      /\ UNCHANGED <<ops, stored, prepared, onchain, requests, client, restarts>>
  BY DEF DraftDeleted, Working, Busy, Still
<1>2. /\ worker.sched \in stored /\ ops[worker.op].sched = worker.sched /\ stored \subseteq Scheds
      /\ ops[worker.op].stage \in ChainStages /\ drafts \in [Scheds -> Specs \cup {NoSpec}]
  BY <1>1, WorkerFacts DEF Progress, Inv, TypeOK
<1>3. PICK w \in Worker :
        /\ worker' = w /\ w.op = worker.op /\ w.at = "replied" /\ w.sched = worker.sched
        /\ w.reply = "ok" /\ w.signs = "queued"
  BY <1>1, WorkerReplies
<1>4. PICK o \in Op :
           /\ o = ops[worker.op] /\ o.status = "running"
           /\ DOMAIN ops' = DOMAIN ops /\ ops'[worker.op] = o
           /\ \A i \in DOMAIN ops : i # worker.op => ops'[i] = ops[i]
  BY <1>1, Unchecked
<1>5. /\ drafts' \in [Scheds -> Specs \cup {NoSpec}] /\ drafts'[worker.sched] = NoSpec
      /\ \A s \in Scheds : drafts'[s] # NoSpec => drafts'[s] = drafts[s]
  BY <1>1, <1>2
<1>6. Drafts' BY <1>1, <1>5 DEF Inv, Drafts
<1>7. Truth' BY <1>1 DEF Inv, Truth, onchain
<1>8. Progress(w, o)' BY <1>1, <1>2, <1>3, <1>4, <1>5 DEF Progress
<1>9. wallet # "mobile" => Flying = {} BY <1>1, WorkerFacts
<1>10. \A s \in Scheds : Settled(s) => Settled(s)' BY <1>1, <1>5 DEF Settled
<1>11. stored' \subseteq Scheds /\ prepared' \in 0 .. MaxScheds /\ stored \subseteq stored' /\ prepared <= prepared'
  BY <1>1 DEF Inv, TypeOK
<1> QED BY <1>1, <1>3, <1>4, <1>5, <1>6, <1>7, <1>8, <1>9, <1>10, <1>11, WorkerStepKeeps

LEMMA TxSubmittedKeeps ==
  ASSUME Inv, wallet' = wallet, TxSubmitted
  PROVE  Inv'
<1>1. /\ Busy /\ worker.at = "submit" /\ txs' = Added(txs, WorkerTx, "sent")
      /\ worker' = [worker EXCEPT !.at = "wait"]
      /\ UNCHANGED <<ops, drafts, stored, prepared, chain, allowed, requests, tabs, pending, signed, posts, restarts>>
  BY DEF TxSubmitted, Working, Busy, disk, client
<1>2. /\ WorkerTx \in Tx /\ WorkerTx.sched = worker.sched /\ WorkerTx.stage = ops[worker.op].stage
      /\ WorkerTx.sched \in Scheds /\ WorkerTx.stage \in ChainStages /\ drafts[worker.sched] # NoSpec
      /\ WorkerTx.n > 0 => worker.op = SubmitId(WorkerTx)
  BY <1>1, WorkerTxFacts
<1>3. PICK w \in Worker : worker' = w /\ w.op = worker.op /\ w.at = "wait" /\ w.sched = worker.sched
  <2>1. "wait" \in {"start", "vault", "preparing", "drafted", "submit", "wait", "undraft", "replied"}
    OBVIOUS
  <2> QED BY <1>1, <2>1, WorkerMoves
<1>4. PICK x \in Tx : x = WorkerTx BY <1>2
<1>5. WorkerTx' = x BY <1>1, <1>3, <1>4 DEF WorkerTx
<1>6. /\ DOMAIN txs' = DOMAIN txs \cup {x}
      /\ \A t \in DOMAIN txs : txs'[t] = txs[t]
      /\ x \notin DOMAIN txs => txs'[x] = "sent"
  BY <1>1, <1>4 DEF Added
<1>7. TypeOK'
  <2>1. DOMAIN txs' \subseteq Tx /\ \A t \in DOMAIN txs' : txs'[t] \in {"sent", "ok", "failed"}
    BY <1>6 DEF Inv, TypeOK
  <2> QED BY <1>1, <1>3, <2>1 DEF Inv, TypeOK
<1>8. Pages' BY <1>1 DEF Inv, Pages, Custodial
<1>9. Journal' BY <1>1, <1>3 DEF Inv, Journal, Told
<1>10. Alone' /\ Busy' BY <1>1, <1>3 DEF Inv, Alone, Busy
<1>11. Work'
  <2>1. Progress(worker, ops[worker.op]) BY <1>1, WorkerFacts
  <2>2. Progress(w, ops[worker.op])' BY <1>1, <1>2, <1>3, <2>1 DEF Progress
  <2>3. worker'.op = worker.op BY <1>3
  <2> QED BY <1>1, <1>3, <1>5, <1>6, <2>2, WorkerFacts DEF Work, Custodial
<1>12. Drafts' BY <1>1 DEF Inv, Drafts
<1>13. Truth' BY <1>1, <1>6 DEF Inv, Truth
<1>14. Careful'
  <2> SUFFICES ASSUME wallet # "mobile" PROVE (Flight /\ Known /\ Money)' BY DEF Careful
  <2>1. Flight /\ Known /\ Money /\ Flying = {} BY <1>1, WorkerFacts DEF Inv, Careful
  <2>2. Flying' \subseteq {x} BY <1>6, <2>1 DEF Flying
  <2>3. Flight' BY <1>1, <1>2, <1>3, <1>5, <1>10, <2>2 DEF Flight
  <2>4. Known'
    <3>1. worker.op \in DOMAIN ops /\ ops[worker.op].stage \in ChainStages BY <1>1, <1>2, WorkerFacts
    <3> QED BY <1>1, <1>2, <1>4, <1>6, <2>1, <3>1 DEF Known
  <2>5. Money'
    <3> SUFFICES ASSUME NEW s \in Scheds
        PROVE /\ Claimed(s)' => s <= prepared /\ Settled(s)'
              /\ chain[s].funded <= 1
              /\ chain[s].funded > 0 => \A t \in Flying' : ~(t.sched = s /\ t.stage = "fund_schedule")
      BY <1>1 DEF Money
    <3>1. chain[s].funded > 0 => s <= prepared /\ drafts[s] = NoSpec
      BY <1>1, <2>1 DEF Money, Claimed, Settled
    <3>2. x.sched = s /\ x.stage = "fund_schedule" => s <= prepared /\ Settled(s)'
      <4>1. worker.sched <= prepared
        BY <1>2 DEF Inv, Drafts, TypeOK, Scheds
      <4> QED BY <1>1, <1>2, <1>3, <1>4, <1>10, <4>1 DEF Settled
    <3>3. chain[s].funded > 0 => ~(x.sched = s /\ x.stage = "fund_schedule") BY <1>2, <1>4, <3>1
    <3>4. drafts[s] = NoSpec => Settled(s)' BY <1>1 DEF Settled
    <3>5. chain[s].funded <= 1 BY <2>1 DEF Money
    <3> QED BY <1>1, <2>2, <3>1, <3>2, <3>3, <3>4, <3>5 DEF Claimed
  <2> QED BY <2>3, <2>4, <2>5
<1> QED BY <1>7, <1>8, <1>9, <1>10, <1>11, <1>12, <1>13, <1>14 DEF Inv

-----------------------------------------------------------------------------
(* Steps of the chain and of the wallet.                                   *)

LEMMA ChainKeeps ==
  ASSUME Inv, UNCHANGED <<wallet, disk, worker, prepared>>, DOMAIN txs \subseteq DOMAIN txs',
         TypeOK', Pages', Truth', Careful'
  PROVE  Inv'
<1>1. Journal' /\ Alone' /\ Drafts' BY DEF Inv, Journal, Told, Alone, Busy, Drafts, disk
<1>2. Work' BY DEF Inv, Work, Busy, Progress, HasDraft, Custodial, WorkerTx, disk
<1> QED BY <1>1, <1>2 DEF Inv

LEMMA TxDroppedKeeps ==
  ASSUME Inv, wallet' = wallet, NEW t \in DOMAIN txs, TxDropped(t)
  PROVE  Inv'
<1>1. /\ txs[t] = "sent" /\ txs' = [txs EXCEPT ![t] = "failed"]
      /\ UNCHANGED <<disk, worker, prepared, chain, allowed, requests, client, restarts>>
  BY DEF TxDropped
<1>2. /\ DOMAIN txs' = DOMAIN txs /\ txs'[t] = "failed"
      /\ \A u \in DOMAIN txs : u # t => txs'[u] = txs[u]
  BY <1>1
<1>3. TypeOK' BY <1>1, <1>2 DEF Inv, TypeOK, disk, client
<1>4. Pages' BY <1>1 DEF Inv, Pages, Custodial, disk, client
<1>5. Truth' BY <1>1, <1>2 DEF Inv, Truth, disk
<1>6. Careful'
  <2> SUFFICES ASSUME wallet # "mobile" PROVE (Flight /\ Known /\ Money)' BY DEF Careful
  <2>1. Flight /\ Known /\ Money BY DEF Inv, Careful
  <2>2. Flying' \subseteq Flying BY <1>2 DEF Flying
  <2>3. Flight' BY <1>1, <2>1, <2>2 DEF Flight, Busy, Unknown, WorkerTx, disk
  <2>4. Known' BY <1>1, <1>2, <2>1 DEF Known, disk
  <2>5. Money' BY <1>1, <2>1, <2>2 DEF Money, Claimed, Settled, Busy, Unknown, disk
  <2> QED BY <2>3, <2>4, <2>5
<1> QED BY <1>1, <1>2, <1>3, <1>4, <1>5, <1>6, ChainKeeps

LEMMA TxIncludedKeeps ==
  ASSUME Inv, wallet' = wallet, NEW t \in DOMAIN txs, TxIncluded(t)
  PROVE  Inv'
<1> DEFINE ok == \/ t.stage = "create_schedule" /\ ~chain[t.sched].created
                 \/ t.stage = "approve_allowance"
                 \/ t.stage = "fund_schedule" /\ chain[t.sched].created /\ allowed > 0
<1>1. /\ txs[t] = "sent" /\ txs' = [txs EXCEPT ![t] = IF ok THEN "ok" ELSE "failed"]
      /\ chain' = IF ~ok THEN chain
                  ELSE [chain EXCEPT ![t.sched] =
                          [created |-> @.created \/ t.stage = "create_schedule",
                           funded |-> IF t.stage = "fund_schedule" THEN @.funded + 1 ELSE @.funded]]
      /\ allowed' = IF ~ok THEN allowed
                    ELSE IF t.stage = "approve_allowance" THEN allowed + 1
                    ELSE IF t.stage = "fund_schedule" THEN allowed - 1 ELSE allowed
      /\ UNCHANGED <<disk, worker, prepared, requests, client, restarts>>
  BY DEF TxIncluded
<1>2. PICK s \in Scheds : s = t.sched BY TxFacts DEF Inv, TypeOK
<1>3. /\ DOMAIN txs' = DOMAIN txs /\ txs'[t] = (IF ok THEN "ok" ELSE "failed")
      /\ \A u \in DOMAIN txs : u # t => txs'[u] = txs[u]
  BY <1>1
<1>4. chain \in [Scheds -> [created : BOOLEAN, funded : Nat]] /\ allowed \in Nat BY DEF Inv, TypeOK
<1>5. PICK c \in [created : BOOLEAN, funded : Nat] : c = chain[s] BY <1>4
<1>6. PICK d \in [created : BOOLEAN, funded : Nat] :
        /\ chain' = [chain EXCEPT ![s] = d]
        /\ c.created => d.created
        /\ d.funded = IF ok /\ t.stage = "fund_schedule" THEN c.funded + 1 ELSE c.funded
  <2>1. CASE ~ok
    <3>1. chain' = [chain EXCEPT ![s] = c] BY <1>1, <1>4, <1>5, <2>1
    <3> QED BY <2>1, <3>1
  <2>2. CASE ok
    <3> DEFINE d == [created |-> c.created \/ t.stage = "create_schedule",
                     funded |-> IF t.stage = "fund_schedule" THEN c.funded + 1 ELSE c.funded]
    <3>1. d \in [created : BOOLEAN, funded : Nat] OBVIOUS
    <3>2. chain' = [chain EXCEPT ![t.sched] =
                      [created |-> @.created \/ t.stage = "create_schedule",
                       funded |-> IF t.stage = "fund_schedule" THEN @.funded + 1 ELSE @.funded]]
      BY <1>1, <2>2
    <3>3. chain' = [chain EXCEPT ![s] = d] BY <1>2, <1>5, <3>2
    <3>4. (c.created => d.created) /\ d.funded = (IF t.stage = "fund_schedule" THEN c.funded + 1 ELSE c.funded)
      OBVIOUS
    <3> HIDE DEF d
    <3> QED BY <2>2, <3>1, <3>3, <3>4
  <2> QED BY <2>1, <2>2
<1>7. /\ chain' \in [Scheds -> [created : BOOLEAN, funded : Nat]] /\ chain'[s] = d
      /\ \A u \in Scheds : u # s => chain'[u] = chain[u]
  BY <1>4, <1>6
<1>8. allowed' \in Nat BY <1>1, <1>4
<1>9. ok /\ t.stage = "fund_schedule" => c.created BY <1>2, <1>5
<1> HIDE DEF ok
<1>10. TypeOK'
  <2>1. DOMAIN txs' \subseteq Tx /\ \A u \in DOMAIN txs' : txs'[u] \in {"sent", "ok", "failed"}
    BY <1>3 DEF Inv, TypeOK
  <2> QED BY <1>1, <1>7, <1>8, <2>1 DEF Inv, TypeOK, disk, client
<1>11. Pages' BY <1>1 DEF Inv, Pages, Custodial, disk, client
<1>12. \A u \in Scheds : /\ chain[u].created => chain'[u].created
                         /\ chain[u].funded > 0 => chain'[u].funded > 0
  BY <1>5, <1>6, <1>7
<1>13. Truth'
  <2>1. \A u \in DOMAIN txs : u.sched \in Scheds BY TxFacts DEF Inv, TypeOK
  <2>2. ASSUME NEW u \in DOMAIN txs, u.stage = "fund_schedule", txs'[u] = "ok"
        PROVE  chain'[u.sched].created /\ chain'[u.sched].funded > 0
    <3>1. CASE u # t BY <1>3, <1>12, <2>1, <2>2, <3>1 DEF Inv, Truth
    <3>2. CASE u = t
      <4>1. ok /\ t.stage = "fund_schedule" BY <1>3, <2>2, <3>2
      <4> QED BY <1>2, <1>6, <1>7, <1>9, <3>2, <4>1
    <3> QED BY <3>1, <3>2
  <2>3. \A u \in stored : chain'[u].created /\ chain'[u].funded > 0 BY <1>12 DEF Inv, Truth, TypeOK
  <2> QED BY <1>1, <1>3, <2>2, <2>3 DEF Truth, disk
<1>14. Careful'
  <2> SUFFICES ASSUME wallet # "mobile" PROVE (Flight /\ Known /\ Money)' BY DEF Careful
  <2>1. Flight /\ Known /\ Money BY DEF Inv, Careful
  <2>2. Flying' \subseteq Flying \ {t} /\ t \in Flying BY <1>1, <1>3 DEF Flying
  <2>3. Flying' = {} BY <2>1, <2>2 DEF Flight
  <2>4. Known' BY <1>1, <1>3, <2>1 DEF Known, disk
  <2>5. \A u \in Scheds : Settled(u)' <=> Settled(u) BY <1>1 DEF Settled, Busy, Unknown, disk
  <2>6. Money'
    <3>1. ASSUME NEW u \in Scheds
          PROVE  (chain'[u].funded > 0 => Claimed(u)) /\ chain'[u].funded <= 1
      <4>1. CASE u = s /\ ok /\ t.stage = "fund_schedule"
        <5>1. Claimed(u) BY <1>2, <2>2, <4>1 DEF Claimed
        <5>2. ~(c.funded > 0) BY <1>2, <1>5, <2>1, <2>2, <4>1 DEF Money
        <5> QED BY <1>6, <1>7, <4>1, <5>1, <5>2
      <4>2. CASE ~(u = s /\ ok /\ t.stage = "fund_schedule")
        <5>1. chain'[u].funded = chain[u].funded BY <1>5, <1>6, <1>7, <4>2
        <5> QED BY <2>1, <5>1 DEF Money, Claimed
      <4> QED BY <4>1, <4>2
    <3>2. \A u \in Scheds : Claimed(u)' => Claimed(u) BY <2>3, <3>1 DEF Claimed
    <3>3. prepared' = prepared BY <1>1
    <3>4. \A u \in Scheds : Claimed(u) => u <= prepared /\ Settled(u) BY <2>1 DEF Money
    <3> QED BY <2>3, <2>5, <3>1, <3>2, <3>3, <3>4 DEF Money
  <2> QED BY <2>3, <2>4, <2>6 DEF Flight
<1> QED BY <1>1, <1>3, <1>10, <1>11, <1>13, <1>14, ChainKeeps

LEMMA WalletBroadcastsKeeps ==
  ASSUME Inv, wallet' = wallet, NEW tab \in Tabs, WalletBroadcasts(tab)
  PROVE  Inv'
<1> DEFINE x == [tabs[tab].tx EXCEPT !.n = signed + 1]
<1>1. /\ tabs[tab].at = "wallet" /\ signed < MaxSigned[wallet] /\ signed' = signed + 1
      /\ txs' = Added(txs, x, "sent")
      /\ tabs' = [tabs EXCEPT ![tab] = [@ EXCEPT !.at = "returned", !.tx = x]]
      /\ UNCHANGED <<ops, drafts, stored, worker, prepared, chain, allowed, requests, pending, posts, restarts>>
  BY DEF WalletBroadcasts, disk
<1>2. /\ wallet = "mobile" /\ tabs[tab].tx \in Tx /\ wallet \in Wallets
      /\ signed \in 0 .. MaxSigned[wallet] /\ MaxSigned[wallet] \in Nat
      /\ tabs \in [Tabs -> Tab]
  BY <1>1 DEF Inv, TypeOK, Pages
<1>3. signed' \in 0 .. MaxSigned[wallet] /\ signed + 1 > 0 BY <1>1, <1>2
<1>4. x = [sched |-> tabs[tab].tx.sched, stage |-> tabs[tab].tx.stage, n |-> signed + 1]
  BY <1>2 DEF Tx
<1>5. PICK t \in Tx : t = x /\ t.n > 0 BY <1>1, <1>2, <1>3, <1>4, TxFacts
<1> HIDE DEF x
<1>6. /\ DOMAIN txs' = DOMAIN txs \cup {t}
      /\ \A u \in DOMAIN txs : txs'[u] = txs[u]
      /\ t \notin DOMAIN txs => txs'[t] = "sent"
  BY <1>1, <1>5 DEF Added
<1>7. PICK o \in Tab : o = tabs[tab] BY <1>2
<1>8. PICK p : p = [o EXCEPT !.at = "returned", !.tx = t] OBVIOUS
<1>9. p \in Tab /\ p.at = "returned" /\ p.tx = t /\ p.told = o.told /\ p.op = o.op BY <1>8 DEF Tab
<1>10. /\ tabs' \in [Tabs -> Tab] /\ tabs'[tab] = p
       /\ \A y \in Tabs : y # tab => tabs'[y] = tabs[y]
  BY <1>1, <1>2, <1>5, <1>7, <1>8, <1>9
<1>11. TypeOK'
  <2>1. DOMAIN txs' \subseteq Tx /\ \A u \in DOMAIN txs' : txs'[u] \in {"sent", "ok", "failed"}
    BY <1>6 DEF Inv, TypeOK
  <2> QED BY <1>1, <1>3, <1>10, <2>1 DEF Inv, TypeOK
<1>12. Pages' BY <1>1, <1>2, <1>5, <1>7, <1>9, <1>10 DEF Inv, Pages, Custodial
<1>13. Truth' BY <1>1, <1>6 DEF Inv, Truth
<1>14. Careful' BY <1>2 DEF Careful
<1> QED BY <1>1, <1>6, <1>11, <1>12, <1>13, <1>14, ChainKeeps DEF disk

-----------------------------------------------------------------------------
(* The invariant.                                                          *)

LEMMA InitHolds == Init => Inv
<1> SUFFICES ASSUME Init PROVE Inv OBVIOUS
<1>1. TypeOK
  <2>1. /\ MaxSigned[wallet] \in Nat /\ MaxPosts[wallet] \in Nat /\ MaxRestarts[wallet] \in Nat
        /\ wallet \in Wallets
    BY DEF Init
  <2>2. /\ 0 \in 0 .. MaxSigned[wallet] /\ 0 \in 0 .. MaxPosts[wallet] /\ 0 \in 0 .. MaxRestarts[wallet]
    BY <2>1
  <2>3. chain \in [Scheds -> [created : BOOLEAN, funded : Nat]] BY DEF Init
  <2>4. DOMAIN ops = {} /\ DOMAIN txs = {} BY DEF Init
  <2>5. worker \in Worker /\ tabs \in [Tabs -> Tab] BY NewRecords DEF Init
  <2> QED BY <2>1, <2>2, <2>3, <2>4, <2>5 DEF Init, TypeOK
<1>2. ~Busy /\ DOMAIN ops = {} /\ DOMAIN txs = {} BY NewRecords DEF Init, Busy
<1>3. \A tab \in Tabs : tabs[tab].at = "idle" /\ tabs[tab].told = "nothing" BY NewRecords DEF Init
<1>4. Pages BY <1>3 DEF Init, Pages
<1>5. Journal /\ Alone /\ Work /\ Drafts /\ Truth BY <1>2 DEF Init, Journal, Alone, Work, Drafts, Truth
<1>6. Careful
  <2>1. Flying = {} BY <1>2 DEF Flying
  <2>2. \A s \in Scheds : chain[s].funded = 0 BY DEF Init
  <2> QED BY <1>2, <2>1, <2>2 DEF Careful, Flight, Known, Money, Claimed
<1> QED BY <1>1, <1>4, <1>5, <1>6 DEF Inv

LEMMA NextKeeps ==
  ASSUME Inv, [Next]_vars
  PROVE  Inv'
<1>1. CASE UNCHANGED vars
  <2>1. Pages' BY <1>1 DEF Inv, Pages, Custodial, vars, disk, client
  <2> QED BY <1>1, <2>1, ClientKeeps DEF Inv, TypeOK, vars, client
<1>2. CASE Next
  <2>1. wallet' = wallet BY <1>2 DEF Next
  <2>2. CASE \E tab \in Tabs : Browser(tab)
    <3>1. PICK tab \in Tabs : Browser(tab) BY <2>2
    <3> QED BY <2>1, <3>1, BrowserKeeps, WalletBroadcastsKeeps
  <2>3. CASE Scheduler
    BY <2>1, <2>3, RetriedKeeps, RefusedKeeps, AdmittedKeeps, CompleteKeeps, DeadlineKeeps, RestartKeeps
    DEF Scheduler
  <2>4. CASE WorkerSteps
    BY <2>1, <2>4, CreateStartsKeeps, VaultReadyKeeps, WorkerErrsKeeps, DraftStoredKeeps,
       CreateCheckpointedKeeps, SubmitStartsKeeps, TxSubmittedKeeps, TxConfirmedKeeps, DraftDeletedKeeps
    DEF WorkerSteps
  <2>5. CASE \E t \in DOMAIN txs : TxIncluded(t) \/ TxDropped(t)
    BY <2>1, <2>5, TxIncludedKeeps, TxDroppedKeeps
  <2> QED BY <1>2, <2>2, <2>3, <2>4, <2>5 DEF Next
<1> QED BY <1>1, <1>2

LEMMA InvAlways == Spec => []Inv
<1>1. Init => Inv BY InitHolds
<1>2. Inv /\ [Next]_vars => Inv' BY NextKeeps
<1> QED BY <1>1, <1>2, PTL DEF Spec

-----------------------------------------------------------------------------

(* Every record of the journal, the drafts, the transactions and the pages *)
(* keeps its shape, whatever is retried, lost or restarted.                *)
THEOREM SchedulesTypeCorrect == Spec => []TypeOK
<1>1. Inv => TypeOK BY DEF Inv
<1> QED BY <1>1, InvAlways, PTL

LEMMA AtMostOne ==
  ASSUME NEW S, \A x, y \in S : x = y
  PROVE  Cardinality(S) \in {0, 1} /\ (Cardinality(S) = 1 => S # {})
<1>1. CASE S = {} BY <1>1, FS_EmptySet
<1>2. CASE S # {}
  <2>1. PICK x : x \in S BY <1>2
  <2>2. S = {x} BY <2>1
  <2> QED BY <2>2, FS_Singleton
<1> QED BY <1>1, <1>2

(* At most one write of the owner is in flight, and it blocks the owner;   *)
(* and there is at most one unfinished draft (admission, start_operation). *)
THEOREM OneAtATimeAlways == Spec => []OneAtATime
<1>1. Inv => OneAtATime
  <2> SUFFICES ASSUME Inv PROVE OneAtATime OBVIOUS
  <2>1. OneDraft
    <3>1. \A s, u \in {v \in Scheds : drafts[v] # NoSpec} : s = u BY DEF Inv, Drafts
    <3>2. Cardinality({v \in Scheds : drafts[v] # NoSpec}) \in {0, 1} BY <3>1, AtMostOne
    <3> QED BY <3>2 DEF OneDraft
  <2>2. OneWriteAtATime
    <3> SUFFICES ASSUME wallet # "mobile" PROVE Cardinality(Flying) <= 1 /\ (Flying # {} => Blocked)
      BY DEF OneWriteAtATime
    <3>1. Flight BY DEF Inv, Careful
    <3>2. Cardinality(Flying) \in {0, 1}
      <4>1. \A t, u \in Flying : t = u BY <3>1 DEF Flight
      <4> QED BY <4>1, AtMostOne
    <3>3. Flying # {} => Blocked
      <4>1. Busy => Blocked BY DEF Inv, Alone, Blocked, BlocksOwner
      <4>2. Unknown => Blocked BY DEF Unknown, Blocked, BlocksOwner
      <4> QED BY <3>1, <4>1, <4>2 DEF Flight
    <3> QED BY <3>2, <3>3
  <2> QED BY <2>1, <2>2 DEF OneAtATime
<1> QED BY <1>1, InvAlways, PTL

(* No schedule is funded twice where the scheduler sends the transactions: *)
(* the rule schedule-operations.js quotes.                                 *)
THEOREM FundedOnceAlways == Spec => []FundedOnce
<1>1. Inv => FundedOnce
  <2> SUFFICES ASSUME Inv, wallet # "mobile", NEW s \in Scheds PROVE Funds(s) <= 1 BY DEF FundedOnce
  <2> DEFINE F == {t \in Flying : t.sched = s /\ t.stage = "fund_schedule"}
  <2>1. Flight /\ Money BY DEF Inv, Careful
  <2>2. \A t, u \in F : t = u BY <2>1 DEF Flight
  <2>3. Cardinality(F) \in {0, 1} /\ (Cardinality(F) = 1 => F # {}) BY <2>2, AtMostOne
  <2>4. /\ chain[s].funded \in Nat /\ chain[s].funded <= 1
        /\ chain[s].funded > 0 => F = {}
    BY <2>1 DEF Money, Inv, TypeOK
  <2>5. Funds(s) = chain[s].funded + Cardinality(F) BY DEF Funds
  <2> HIDE DEF F
  <2> QED BY <2>3, <2>4, <2>5
<1> QED BY <1>1, InvAlways, PTL

(* A failed operation wrote nothing; an active schedule is funded on chain *)
(* (failure/2, do_submit_tx).                                              *)
THEOREM OutcomesAreTrueAlways == Spec => []OutcomesAreTrue
<1>1. Inv => OutcomesAreTrue
  <2> SUFFICES ASSUME Inv PROVE OutcomesAreTrue OBVIOUS
  <2>1. FailedWroteNothing
    <3> SUFFICES ASSUME wallet # "mobile", NEW id \in DOMAIN ops, ops[id].status = "failed", NEW t \in DOMAIN txs
        PROVE t # id.tx /\ ~(id.kind = "create" /\ t.n = 0 /\ t.sched = ops[id].sched)
      BY DEF FailedWroteNothing, FailedIsBeforeAnyWrite
    <3>1. id \in OpIds /\ t \in Tx /\ Told(id, ops[id]) /\ Known BY DEF Inv, TypeOK, Journal, Careful
    <3>2. CASE id.kind = "create"
      BY <3>1, <3>2, IdFacts, TxFacts DEF Told, NoSched, Scheds
    <3>3. CASE id.kind = "submit"
      <4>1. id.tx.n > 0 /\ id = SubmitId(id.tx) /\ ops[id].stage \notin ChainStages
        BY <3>1, <3>3, IdFacts DEF Told
      <4> QED BY <3>1, <3>3, <4>1 DEF Known
    <3>4. id.kind # "legacy" BY <3>1 DEF Told
    <3> QED BY <3>1, <3>2, <3>3, <3>4, IdFacts
  <2>2. ActiveIsFunded BY DEF Inv, Truth, ActiveIsFunded
  <2> QED BY <2>1, <2>2 DEF OutcomesAreTrue
<1> QED BY <1>1, InvAlways, PTL

(* A page that reports success reports a schedule that is stored           *)
(* (awaitScheduleOperation).                                               *)
THEOREM SuccessIsTrueAlways == Spec => []SuccessIsTrue
<1>1. Inv => SuccessIsTrue
  BY DEF Inv, Pages, Journal, Told, SuccessIsTrue
<1> QED BY <1>1, InvAlways, PTL

(* An outcome once recorded is never rewritten, but for a signing request  *)
(* that the submission it asked for supersedes (supersede_signing_operation).*)
THEOREM OutcomesStand == Spec => OutcomeStands
<1> DEFINE Stands ==
      \A id \in DOMAIN ops : ops[id].status # "running" /\ ops'[id] # ops[id] =>
       /\ ops[id].status = "complete" /\ ops[id].signs # "queued"
       /\ ops'[id].status = "superseded"
       /\ ops'[id].next.tx.stage = ops[id].signs /\ ops'[ops'[id].next].status = "running"
<1>1. ASSUME Inv, Next PROVE Stands
  <2>1. CASE UNCHANGED ops BY <2>1
  <2>2. CASE Busy /\ \E new : ops' = [ops EXCEPT ![worker.op] = new]
    <3>1. ops[worker.op].status = "running" BY <1>1, <2>2 DEF Inv, Alone
    <3> QED BY <2>2, <3>1
  <2>3. CASE Restart
    <3>1. \A id \in DOMAIN ops : ops[id].status # "running" => ops'[id] = ops[id] BY <2>3 DEF Restart
    <3> QED BY <3>1
  <2>4. CASE \E r \in requests : Admitted(r)
    <3>1. PICK r \in requests : Admitted(r) BY <2>4
    <3>2. PICK n : n = [NewOp EXCEPT !.sched = r.id.tx.sched] OBVIOUS
    <3>3. n.status = "running" BY <3>2 DEF NewOp
    <3>4. r.id \notin DOMAIN ops /\ ops' = Added(Superseded(r.id), r.id, n) BY <3>1, <3>2 DEF Admitted
    <3>5. r.id \in OpIds /\ r.id.kind \in {"create", "submit"} BY <1>1 DEF Inv, TypeOK, Request, Pages
    <3>6. r.id.kind = "submit" => r.id.tx.stage # "queued" BY <3>5, IdFacts, TxFacts DEF ChainStages
    <3>7. ops'[r.id] = n /\ \A id \in DOMAIN ops : ops'[id] = Superseded(r.id)[id]
      BY <3>4 DEF Added, Superseded
    <3> SUFFICES ASSUME NEW id \in DOMAIN ops, ops[id].status # "running", ops'[id] # ops[id]
        PROVE /\ ops[id].status = "complete" /\ ops[id].signs # "queued"
              /\ ops'[id].status = "superseded"
              /\ ops'[id].next.tx.stage = ops[id].signs /\ ops'[ops'[id].next].status = "running"
      OBVIOUS
    <3>8. PICK op \in Op : op = ops[id] BY <1>1 DEF Inv, TypeOK
    <3>9. /\ r.id.kind = "submit" /\ op.status = "complete" /\ op.signs = r.id.tx.stage
          /\ ops'[id] = [op EXCEPT !.status = "superseded", !.next = r.id, !.signs = "queued"]
      BY <3>7, <3>8 DEF Superseded
    <3>10. ops'[id].status = "superseded" /\ ops'[id].next = r.id BY <3>8, <3>9 DEF Op
    <3> QED BY <3>3, <3>6, <3>7, <3>8, <3>9, <3>10
  <2>5. UNCHANGED ops \/ (Busy /\ \E new : ops' = [ops EXCEPT ![worker.op] = new]) \/ Restart
        \/ \E r \in requests : Admitted(r)
    <3>1. CASE \E tab \in Tabs : Browser(tab)
      BY <3>1 DEF Browser, Enable, Continue, ReadOperation, StopObserving, PostFails, WalletRefuses,
                  SignHere, Redirect, WalletBroadcasts, Resume, disk
    <3>2. CASE Scheduler
      BY <3>2 DEF Scheduler, Retried, Refused, OperationComplete, OperationDeadline, Working, Busy, disk
    <3>3. CASE WorkerSteps
      BY <3>3 DEF WorkerSteps, CreateStarts, VaultReady, WorkerErrs, DraftStored, CreateCheckpointed,
                  SubmitStarts, TxSubmitted, TxConfirmed, DraftDeleted, Checkpoint, Working, Busy, disk
    <3>4. CASE \E t \in DOMAIN txs : TxIncluded(t) \/ TxDropped(t)
      BY <3>4 DEF TxIncluded, TxDropped, disk
    <3> QED BY <1>1, <3>1, <3>2, <3>3, <3>4 DEF Next
  <2> QED BY <2>1, <2>2, <2>3, <2>4, <2>5
<1>2. ASSUME Inv, UNCHANGED vars PROVE Stands BY <1>2 DEF vars, disk
<1>3. Inv /\ [Next]_vars => [Stands]_vars BY <1>1, <1>2
<1> QED BY <1>3, InvAlways, PTL DEF Spec, OutcomeStands
=============================================================================
