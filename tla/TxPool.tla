------------------------------- MODULE TxPool -------------------------------
(***************************************************************************)
(* The goroutines of the transaction pool (evmcore/tx_pool.go): the calls  *)
(* that add transactions, loop, which hears of new heads and of the        *)
(* shutdown and evicts, scheduleReorgLoop, which merges what is requested  *)
(* while a run is active, and runReorg, which has a goroutine of its own.  *)
(*                                                                         *)
(* mu guards the content. A call that replaces a pending transaction waits *)
(* for scheduleReorgLoop with mu held. A run works in one hold of mu, and  *)
(* then tells subscribers without it. The channel that is closed when a    *)
(* run is done is that of the run under way or of the next one: a call     *)
(* waits for "cur" or for "next".                                          *)
(*                                                                         *)
(* Opera's chain does not reorganise: a reset brings no transaction back.  *)
(* The chain moves whatever the pool has. SetGasPrice has no caller.       *)
(***************************************************************************)
EXTENDS TxLists

CONSTANTS
  MayMiss,     \* bound: heads whose state StateAt may not find
  Call,        \* calls of addTxs, each made once
  Args,        \* [Call -> [txs, local, sync]]
  Made         \* bound: which of the calls are made in a behaviour

Free == "free"

ASSUME TxPoolAssumption ==
  /\ MayMiss \subseteq HeadIndex
  /\ Free \notin Call
  /\ Made \subseteq SUBSET Call
  /\ Args \in [Call -> [txs : Seq(Tx), local : BOOLEAN, sync : BOOLEAN]]

VARIABLES
  pool,       \* the content
  mu,         \* the call that holds mu between two steps, or Free
  head,       \* the chain's head
  notices,    \* chainHeadCh
  call,       \* the calls: step, what is still to add, the event to queue, dirty accounts
  sched,      \* scheduleReorgLoop: what the next run will do
  run,        \* runReorg
  stop,       \* how far Stop has come
  announced,  \* history: what subscribers were told of
  failed      \* history: a reset did not find its state

vars == <<pool, mu, head, notices, call, sched, run, stop, announced, failed>>

None == 0  \* no head to reset to

Idle == [launch |-> FALSE, reset |-> None, dirty |-> {}, events |-> {}]

Over == [step |-> "none", reset |-> None, dirty |-> {}, events |-> {}]

Init ==
  /\ pool = [pending |-> {}, queue |-> {}, all |-> {}, own |-> {}, locals |-> {},
             nonce |-> [a \in Account |-> HeadState[1][a].nonce], cur |-> 1, journal |-> {}]
  /\ mu = Free
  /\ head = 1
  /\ notices = <<>>
  /\ \E M \in Made :
       call = [c \in Call |-> [step |-> IF c \in M THEN "idle" ELSE "done", todo |-> <<>>, event |-> {},
                               dirty |-> {}]]
  /\ sched = Idle
  /\ run = Over
  /\ stop = "no"
  /\ announced = {}
  /\ failed = FALSE

LoopUp == stop \in {"no", "asked"}

Listening == stop \in {"no", "asked", "closed"}  \* scheduleReorgLoop takes requests

Closed == ~LoopUp  \* reorgShutdownCh

----------------------------------------------------------------------------
(* scheduleReorgLoop *)

Released(k, from, to) ==
  [c \in Call |-> IF k[c].step = from THEN [k[c] EXCEPT !.step = to] ELSE k[c]]

\* The loop's next turn: it launches what is wanted if no run is active, else it selects.
Continue(s, r, k) ==
  IF r.step = "none" /\ s.launch
  THEN /\ run' = [step |-> "lock", reset |-> s.reset, dirty |-> s.dirty, events |-> s.events]
       /\ sched' = Idle
       /\ call' = Released(k, "next", "cur")
  ELSE run' = r /\ sched' = s /\ call' = k

PutKeepsOld(E, T) == E \cup {t \in T : Rival(E, t) = {}}  \* mutant: the first of a nonce stays

\* Events of an account are kept by nonce.
Put(E, T) == {e \in E : Rival(T, e) = {}} \cup T

CurDone ==
  /\ Listening
  /\ run.step = "ended"
  /\ Continue(sched, Over, call)
  /\ UNCHANGED <<pool, mu, head, notices, stop, announced, failed>>

\* The shutdown's case of select. The loop takes nothing more and waits for the run.
SchedLeaves ==
  /\ stop = "closed"
  /\ stop' = "leaving"
  /\ UNCHANGED <<pool, mu, head, notices, call, sched, run, announced, failed>>

SchedExitsAlone ==  \* mutant: nextDone is not closed
  /\ stop = "leaving"
  /\ run.step \in {"none", "ended"}
  /\ stop' = "exited"
  /\ UNCHANGED <<pool, mu, head, notices, call, sched, run, announced, failed>>

\* nextDone is closed without a run.
SchedExits ==
  /\ stop = "leaving"
  /\ run.step \in {"none", "ended"}
  /\ stop' = "exited"
  /\ call' = Released(call, "next", "done")
  /\ UNCHANGED <<pool, mu, head, notices, sched, run, announced, failed>>

----------------------------------------------------------------------------
(* addTxs *)

\* Known ones are left out, by the lookup's own lock; the others keep their order.
Begin(c) ==
  LET txs  == Args[c].txs
      news == {i \in DOMAIN txs : txs[i] \notin pool.all}
  IN /\ call[c].step = "idle"
     /\ \E f \in [1 .. Cardinality(news) -> news] :
          /\ \A i, j \in 1 .. Cardinality(news) : i < j => f[i] < f[j]
          /\ call' = [call EXCEPT ![c].todo = [i \in 1 .. Cardinality(news) |-> txs[f[i]]],
                                  ![c].step = IF news = {} THEN "done" ELSE "add"]
     /\ UNCHANGED <<pool, mu, head, notices, sched, run, stop, announced, failed>>

\* The next step of a call that has todo left to add.
StepAfter(event, todo) == IF event # {} THEN "event" ELSE IF todo = <<>> THEN "request" ELSE "add"

AddTxKeepsLock(c) ==  \* mutant: the lock is not given back after a batch of several
  /\ call[c].step = "add"
  /\ mu \in {Free, c}
  /\ \E o \in AddOutcomes(pool, Head(call[c].todo), Args[c].local) :
       LET step == StepAfter(o.event, Tail(call[c].todo))
       IN /\ pool' = o.pool
          /\ call' = [call EXCEPT ![c] = [step |-> step, todo |-> Tail(@.todo),
                                          event |-> o.event, dirty |-> @.dirty \cup o.dirty]]
          /\ mu' = IF mu = Free /\ step = "request" THEN Free ELSE c
  /\ UNCHANGED <<head, notices, sched, run, stop, announced, failed>>

\* add of the next one. The lock is taken before the first and given back after the last.
AddTx(c) ==
  /\ call[c].step = "add"
  /\ mu \in {Free, c}
  /\ \E o \in AddOutcomes(pool, Head(call[c].todo), Args[c].local) :
       LET step == StepAfter(o.event, Tail(call[c].todo))
       IN /\ pool' = o.pool
          /\ call' = [call EXCEPT ![c] = [step |-> step, todo |-> Tail(@.todo),
                                          event |-> o.event, dirty |-> @.dirty \cup o.dirty]]
          /\ mu' = IF step = "request" THEN Free ELSE c
  /\ UNCHANGED <<head, notices, sched, run, stop, announced, failed>>

\* queueTxEvent, with mu held: the loop takes the event, or the pool is shut down.
QueueEvent(c) ==
  /\ call[c].step = "event"
  /\ \/ Listening /\ sched' = [sched EXCEPT !.events = Put(@, call[c].event)]
     \/ Closed /\ sched' = sched
  /\ LET step == StepAfter({}, call[c].todo)
     IN /\ call' = [call EXCEPT ![c].step = step, ![c].event = {}]
        /\ mu' = IF step = "request" THEN Free ELSE c
  /\ UNCHANGED <<pool, head, notices, run, stop, announced, failed>>

\* requestPromoteExecutables. A call that is not synchronous returns with the channel.
RequestPromote(c) ==
  LET after(step) == [call EXCEPT ![c] = [step |-> step, todo |-> <<>>, event |-> {}, dirty |-> {}]]
  IN /\ call[c].step = "request"
     /\ \/ /\ Listening
           /\ Continue([sched EXCEPT !.launch = TRUE, !.dirty = @ \cup call[c].dirty],
                       run, after(IF Args[c].sync THEN "next" ELSE "done"))
        \/ /\ Closed
           /\ call' = after("done")
           /\ UNCHANGED <<sched, run>>
     /\ UNCHANGED <<pool, mu, head, notices, stop, announced, failed>>

----------------------------------------------------------------------------
(* The chain and loop *)

NewBlock ==
  /\ head < Len(HeadState)
  /\ head' = head + 1
  /\ notices' = IF stop = "no" THEN Append(notices, head') ELSE notices
  /\ UNCHANGED <<pool, mu, call, sched, run, stop, announced, failed>>

LoopResetKeeps ==  \* mutant: a reset that is wanted already keeps its head
  /\ LoopUp
  /\ notices # <<>>
  /\ notices' = Tail(notices)
  /\ Continue([sched EXCEPT !.launch = TRUE, !.reset = IF @ = None THEN Head(notices) ELSE @],
              run, call)
  /\ UNCHANGED <<pool, mu, head, stop, announced, failed>>

\* requestReset: a reset that is wanted already gets the newer head.
LoopReset ==
  /\ LoopUp
  /\ notices # <<>>
  /\ notices' = Tail(notices)
  /\ Continue([sched EXCEPT !.launch = TRUE, !.reset = Head(notices)], run, call)
  /\ UNCHANGED <<pool, mu, head, stop, announced, failed>>

\* The tick of eviction finds accounts that were idle for Lifetime.
LoopEvict ==
  /\ LoopUp
  /\ mu = Free
  /\ \E A \in SUBSET ({t.from : t \in pool.queue} \ pool.locals) :
       /\ A # {}
       /\ pool' = RemoveTxs(pool, {t \in pool.queue : t.from \in A})
  /\ UNCHANGED <<mu, head, notices, call, sched, run, stop, announced, failed>>

\* The tick of the journal: rotate to what local accounts have.
LoopRotate ==
  /\ LoopUp
  /\ mu = Free
  /\ pool' = [pool EXCEPT !.journal = {t \in pool.pending \cup pool.queue : t.from \in pool.locals}]
  /\ UNCHANGED <<mu, head, notices, call, sched, run, stop, announced, failed>>

\* Stop: nobody is told of anything more, and the pool hears of no more heads.
Stop ==
  /\ stop = "no"
  /\ stop' = "asked"
  /\ UNCHANGED <<pool, mu, head, notices, call, sched, run, announced, failed>>

\* loop closes reorgShutdownCh and returns.
LoopExits ==
  /\ stop = "asked"
  /\ stop' = "closed"
  /\ UNCHANGED <<pool, mu, head, notices, call, sched, run, announced, failed>>

----------------------------------------------------------------------------
(* runReorg *)

PromoteDirty(p) == Promote(p, run.dirty)  \* mutant: a reset does not promote all accounts

AfterPromote(p) == Promote(p, IF run.reset # None THEN Account ELSE run.dirty)

RunTruncatesFirst(p) ==  \* mutant: the limits are seen to before demotion
  {NoncesSet(IF run.reset # None THEN Demote(q) ELSE q) : q \in TruncateQueue(TruncatePending(p))}

\* Demotion belongs to a reset. Then the limits and the nonces.
RunOutcomes(p) ==
  {NoncesSet(q) : q \in TruncateQueue(TruncatePending(IF run.reset # None THEN Demote(p) ELSE p))}

\* A reset drops the events below an account's nonce.
Fresh(E, p) == IF run.reset = None THEN E ELSE {e \in E : p.nonce[e.from] <= e.nonce}

\* StateAt may not find the head's state: then reset leaves all as it is.
RunLocked ==
  /\ run.step = "lock"
  /\ mu = Free
  /\ \E found \in IF run.reset = None THEN {FALSE} ELSE {TRUE, run.reset \notin MayMiss} :
       LET p == IF found THEN Reset(pool, run.reset) ELSE pool
           q == AfterPromote(p)
       IN /\ pool' \in RunOutcomes(q)
          /\ run' = [run EXCEPT !.step = "send",
                                !.events = Put(Fresh(@, p), q.pending \ p.pending)]
          /\ failed' = (failed \/ (run.reset # None /\ ~found))
  /\ UNCHANGED <<mu, head, notices, call, sched, stop, announced>>

\* Subscribers are told, unless Stop has closed their scope, and done is closed.
RunSends ==
  /\ run.step = "send"
  /\ announced' = IF stop = "no" THEN announced \cup run.events ELSE announced
  /\ run' = [Over EXCEPT !.step = "ended"]
  /\ call' = Released(call, "cur", "done")
  /\ UNCHANGED <<pool, mu, head, notices, sched, stop, failed>>

----------------------------------------------------------------------------

CallNext(c) == Begin(c) \/ AddTx(c) \/ QueueEvent(c) \/ RequestPromote(c)

Finished == stop = "exited" /\ \A c \in Call : call[c].step = "done"

Next ==
  \/ \E c \in Call : CallNext(c)
  \/ CurDone \/ SchedLeaves \/ SchedExits
  \/ NewBlock \/ LoopReset \/ LoopEvict \/ LoopRotate \/ Stop \/ LoopExits
  \/ RunLocked \/ RunSends
  \/ Finished /\ UNCHANGED vars

Spec == Init /\ [][Next]_vars

\* AddTx and RunLocked by when they can happen and what they do to the goroutine: the content
\* that they come to is never in the way.
AddTurn(c) ==
  /\ call[c].step = "add"
  /\ mu \in {Free, c}
  /\ \E E \in {{}, {Head(call[c].todo)}}, A \in {{}, {Head(call[c].todo).from}} :
       call' = [call EXCEPT ![c] = [step |-> StepAfter(E, Tail(@.todo)), todo |-> Tail(@.todo),
                                    event |-> E, dirty |-> @.dirty \cup A]]

RunTurn ==
  /\ run.step = "lock"
  /\ mu = Free
  /\ \E E \in SUBSET Tx : run' = [run EXCEPT !.step = "send", !.events = E]

\* Goroutines run, mu is not withheld from one that waits for it, subscribers read. Calls, heads
\* and Stop need not come.
FairSpec ==
  /\ Spec
  /\ \A c \in Call : WF_call(AddTurn(c)) /\ WF_vars(QueueEvent(c)) /\ WF_vars(RequestPromote(c))
  /\ WF_vars(CurDone) /\ WF_vars(SchedLeaves) /\ WF_vars(SchedExits)
  /\ WF_vars(LoopReset) /\ WF_vars(LoopExits)
  /\ WF_run(RunTurn) /\ WF_vars(RunSends)

----------------------------------------------------------------------------
(* Properties *)

Step == {"idle", "add", "event", "request", "next", "cur", "done"}

\* The values of the variables, and that mu is held by a call in the middle of adding.
TypeOK ==
  /\ pool \in Pool
  /\ mu \in {Free} \cup Call
  /\ head \in HeadIndex
  /\ notices \in Seq(HeadIndex)
  /\ call \in [Call -> [step : Step, todo : Seq(Tx), event : SUBSET Tx, dirty : SUBSET Account]]
  /\ sched \in [launch : BOOLEAN, reset : {None} \cup HeadIndex, dirty : SUBSET Account,
                events : SUBSET Tx]
  /\ run \in [step : {"none", "lock", "send", "ended"}, reset : {None} \cup HeadIndex,
              dirty : SUBSET Account, events : SUBSET Tx]
  /\ stop \in {"no", "asked", "closed", "leaving", "exited"}
  /\ announced \subseteq Tx
  /\ failed \in BOOLEAN
  /\ mu # Free => call[mu].step \in {"add", "event"}

\* The lookup, which is read without the lock, has exactly what the lists have, and no nonce of
\* an account is taken twice: no way into or out of a list (promoteTx, enqueueTx, removeTx and
\* the truncations each touch list and lookup on their own) leaves one behind.
LookupMatchesLists ==
  /\ pool.all = pool.pending \cup pool.queue
  /\ \A t \in pool.all, u \in pool.all : t.from = u.from /\ t.nonce = u.nonce => t = u
  /\ pool.own \subseteq pool.all

\* What is pending can be put into a block: per account it is consecutive from the nonce of the
\* state the pool has, and payable; and pendingNonces, which the API hands out, is the next one,
\* although it is set in five places.
PendingIsExecutable ==
  /\ \A t \in pool.pending : Payable(pool, t)
  /\ \A a \in Account :
       LET nonces == {t.nonce : t \in Of(pool.pending, a)}
       IN nonces = StateNonce(pool, a) .. pool.nonce[a] - 1

\* The limits. The pool is never larger than allowed, unless only local transactions are left.
\* When a run gives the lock back, what is pending is within GlobalSlots unless every account
\* that is not local is down to AccountSlots, and what is queued within GlobalQueue unless
\* only local accounts have it: demotion, which fills the queue, comes before truncation.
RoomKept(p) == Cardinality(p.all) <= GlobalSlots + GlobalQueue \/ p.all = p.own

LimitsHold(p) ==
  /\ \/ Cardinality(p.pending) <= GlobalSlots
     \/ \A a \in Account \ p.locals : Cardinality(Of(p.pending, a)) <= AccountSlots
  /\ \/ Cardinality(p.queue) <= GlobalQueue
     \/ \A t \in p.queue : t.from \in p.locals

Bounded ==
  [][ /\ RoomKept(pool')
      /\ run.step = "lock" /\ run'.step = "send" => LimitsHold(pool') ]_vars

\* Subscribers (handler and emitter) learn of every pending transaction: one they were not told
\* of is in the events of the run under way, of the next one, or of a call. A reset that does
\* not find its state drops events of replacements.
Coming == sched.events \cup run.events \cup UNION {call[c].event : c \in Call}

PendingIsAnnounced ==
  stop = "no" /\ ~failed => pool.pending \subseteq announced \cup Coming

\* Nothing is under way that would promote.
Quiet ==
  /\ stop = "no"
  /\ run.step = "none"
  /\ \A c \in Call : call[c].step \in {"idle", "done"}

\* promoteExecutables leaves a transaction that could be processed in the queue only behind
\* pending ones of its account, so that it is promoted when they are in a block. (It does leave
\* such: reset sets the nonces back, and they are set forward after promotion.)
QueueWaits ==
  Quiet => \A t \in pool.queue :
             t.nonce = pool.nonce[t.from] => Of(pool.pending, t.from) # {}

\* Nonces are in order in both lists.
NoncesInOrder == PendingIsExecutable /\ QueueWaits

\* The lists agree with the lookup, with the nonces and with the state.
ListsRight == LookupMatchesLists /\ NoncesInOrder

\* A transaction of a local account comes into the pool by way of the journal, and leaves the
\* journal only with the pool, so that it would survive a restart. One that is not in the journal
\* came before its account was local (RemoteToLocals makes it local, and does not journal it).
LocalJournaled ==
  \A t \in pool'.all :
    t.from \in pool'.locals /\ t \notin pool'.journal =>
      /\ t \in pool.all
      /\ t.from \in pool.locals => t \notin pool.journal

\* Neither subscribers nor the journal miss a transaction, after any step.
NothingLost == [][PendingIsAnnounced' /\ LocalJournaled]_vars

\* Every call returns, and so does Stop, whatever the order: neither the wait for the loop with
\* mu held, nor that for a run, nor that for the run under way at the shutdown is for ever.
EveryoneReturns ==
  /\ \A c \in Call : call[c].step # "idle" ~> call[c].step = "done"
  /\ stop = "asked" ~> stop = "exited"

\* The pool comes to the state of the head when the chain rests, however requests are merged.
FollowsHead ==
  head = Len(HeadState) ~> pool.cur = Len(HeadState) \/ stop # "no" \/ failed
=============================================================================
