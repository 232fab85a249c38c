------------------------------- MODULE TxLists -------------------------------
(***************************************************************************)
(* What the transaction pool does to its content while it holds its lock:  *)
(* evmcore/tx_pool.go with the lists of evmcore/tx_list.go.                *)
(*                                                                         *)
(* The content is a record p. Lists of an account are sets: an account has *)
(* at most one transaction of a nonce in a list, and a list is sorted by   *)
(* them. The costcap and gascap of a list only save a scan: a scan is      *)
(* skipped when no transaction is above the threshold.                     *)
(*                                                                         *)
(* What a transaction costs stands for its gas as well, and its price for  *)
(* the fee cap and the tip, in steps of PriceBump. All take one slot.      *)
(* Those refused for what they are (gas, tip, type, signature) are not     *)
(* offered: they change nothing. What the two heaps of tx_list.go find     *)
(* cheapest, and whose queue was active last, is left open.                *)
(***************************************************************************)
EXTENDS Integers, Sequences, FiniteSets, FiniteSetsExt

CONSTANTS
  Account,
  Tx,            \* records [from, nonce, price, cost]
  HeadState,     \* what the chain's heads say of accounts: a sequence of
                 \* [Account -> [nonce, balance]]
  AccountSlots, GlobalSlots, AccountQueue, GlobalQueue

HeadIndex == 1 .. Len(HeadState)

ASSUME TxListsAssumption ==
  /\ Tx \subseteq [from : Account, nonce : Nat, price : Nat, cost : Nat]
  /\ Len(HeadState) > 0
  /\ \A h \in HeadIndex : HeadState[h] \in [Account -> [nonce : Nat, balance : Nat]]
  /\ \A h \in HeadIndex, g \in HeadIndex, a \in Account :
       g <= h => HeadState[g][a].nonce <= HeadState[h][a].nonce
  /\ AccountSlots \in Nat \ {0} /\ GlobalSlots \in Nat \ {0}
  /\ AccountQueue \in Nat \ {0} /\ GlobalQueue \in Nat \ {0}

Pool == [pending : SUBSET Tx,             \* processable
         queue   : SUBSET Tx,             \* the others
         all     : SUBSET Tx,             \* the lookup
         own     : SUBSET Tx,             \* what the lookup has as local
         locals  : SUBSET Account,
         nonce   : [Account -> Nat],      \* pendingNonces
         cur     : HeadIndex,                \* currentState
         journal : SUBSET Tx]

Of(S, a) == {t \in S : t.from = a}

StateNonce(p, a) == HeadState[p.cur][a].nonce

Balance(p, a) == HeadState[p.cur][a].balance

Payable(p, t) == t.cost <= Balance(p, t.from)

----------------------------------------------------------------------------
(* Lists *)

\* What a list has at t's nonce.
Rival(S, t) == {u \in S : u.from = t.from /\ u.nonce = t.nonce}

\* txList.Add inserts t.
Inserts(S, t) == \A u \in Rival(S, t) : u.price < t.price

Insert(S, t) == (S \ Rival(S, t)) \cup {t}

\* txList.Cap: the n lowest nonces of one account.
Lowest(S, n) == {t \in S : Cardinality({u \in S : u.nonce < t.nonce}) < n}

\* txList.Ready: the consecutive ones at the front, unless they begin above n.
Ready(S, n) ==
  LET first == Min({t.nonce : t \in S})
  IN {t \in S : first <= n /\ \A m \in first .. t.nonce : \E u \in S : u.nonce = m}

\* Taken out of the lookup.
Forget(p, T) == [p EXCEPT !.all = @ \ T, !.own = @ \ T]

\* enqueueTx of what was pending: one that a better transaction keeps out stays in the lookup.
Requeue(p, T) ==
  LET in == {t \in T : Inserts(p.queue, t)}
      out == UNION {Rival(p.queue, t) : t \in in}
  IN Forget([p EXCEPT !.queue = (@ \ out) \cup in], out)

\* removeTx of each of T: by its nonce, from pending if there is one, else from the queue;
\* what was pending behind it is queued.
RemoveTxs(p, T) ==
  LET gone == T \cap p.all
      hit  == {t \in gone : Rival(p.pending, t) # {}}
      cut  == {u \in p.pending : \E t \in hit : t.from = u.from /\ t.nonce <= u.nonce}
      back == {u \in cut : Rival(hit, u) = {}}
      low(a) == Min({t.nonce : t \in Of(hit, a)} \cup {p.nonce[a]})
  IN Requeue([Forget(p, gone) EXCEPT
                !.pending = @ \ cut,
                !.queue = {u \in @ : Rival(gone \ hit, u) = {}},
                !.nonce = [a \in Account |-> low(a)]],
             back)

----------------------------------------------------------------------------
(* add *)

\* Transactions that have to go so that one more fits.
Excess(p) == Cardinality(p.all) + 1 - (GlobalSlots + GlobalQueue)

\* What may be discarded for one more: nothing else than remotes, and for one that is not
\* local as many as it takes.
Discards(p, isLocal) ==
  LET remotes == p.all \ p.own
  IN IF Excess(p) <= 0 THEN {{}}
     ELSE IF Excess(p) <= Cardinality(remotes)
          THEN {D \in SUBSET remotes : Cardinality(D) = Excess(p)}
          ELSE IF isLocal THEN {remotes} ELSE {}

Valid(p, t) == StateNonce(p, t.from) <= t.nonce /\ Payable(p, t)

\* The list, the lookup and the local mark.
Kept(p, t, isLocal, list) ==
  [Forget(p, Rival(p[list], t)) EXCEPT
     ![list] = Insert(@, t),
     !.all = @ \cup {t},
     !.own = IF isLocal THEN @ \cup {t} ELSE @]

\* locals.add and RemoteToLocals.
MadeLocal(p, a) ==
  [p EXCEPT !.locals = @ \cup {a}, !.own = @ \cup Of(p.all, a)]

Journaled(p, t) == [p EXCEPT !.journal = IF t.from \in p.locals THEN @ \cup {t} ELSE @]

\* A replacement of a pending transaction: told to subscribers by the next run; the account
\* is neither dirty nor made local.
Replace(p, t, isLocal) ==
  IF Inserts(p.pending, t)
  THEN [pool |-> Journaled(Kept(p, t, isLocal, "pending"), t), event |-> {t}, dirty |-> {}]
  ELSE [pool |-> p, event |-> {}, dirty |-> {}]

Enqueue(p, t, local, isLocal) ==
  LET q == Kept(p, t, isLocal, "queue")
      r == IF local THEN MadeLocal(q, t.from) ELSE q
  IN IF Inserts(p.queue, t)
     THEN [pool |-> Journaled(r, t), event |-> {},
           dirty |-> IF Rival(p.queue, t) = {} THEN {t.from} ELSE {}]
     ELSE [pool |-> p, event |-> {}, dirty |-> {}]

\* What add may come to. A full pool may find t underpriced. What was discarded for a
\* transaction is gone, also when its list then refuses it.
AddOutcomes(p, t, local) ==
  LET isLocal == local \/ t.from \in p.locals
      added(q) == IF Rival(q.pending, t) # {} THEN Replace(q, t, isLocal)
                                              ELSE Enqueue(q, t, local, isLocal)
      refused == [pool |-> p, event |-> {}, dirty |-> {}]
  IN IF t \in p.all \/ ~Valid(p, t) THEN {refused}
     ELSE {added(RemoveTxs(p, D)) : D \in Discards(p, isLocal)}
            \cup (IF Excess(p) > 0 /\ ~isLocal THEN {refused} ELSE {})

----------------------------------------------------------------------------
(* A run of the reorganisation *)

\* reset to the state of a head, with pendingNonces to match.
Reset(p, h) == [p EXCEPT !.cur = h, !.nonce = [a \in Account |-> HeadState[h][a].nonce]]

\* promoteExecutables
Promote(p, A) ==
  LET live(a)  == {t \in Of(p.queue, a) : StateNonce(p, a) <= t.nonce /\ Payable(p, t)}
      ready(a) == Ready(live(a), p.nonce[a])
      rest(a)  == IF a \in p.locals THEN live(a) \ ready(a)
                                    ELSE Lowest(live(a) \ ready(a), AccountQueue)
      won(a)   == {t \in ready(a) : Inserts(p.pending, t)}
      up       == UNION {won(a) : a \in A}
      stay     == UNION {rest(a) : a \in A}
      lost     == {t \in p.queue : t.from \in A} \ (up \cup stay)
      beaten   == UNION {Rival(p.pending, t) : t \in up}
  IN [Forget(p, lost \cup beaten) EXCEPT
        !.pending = (@ \ beaten) \cup up,
        !.queue = {t \in @ : t.from \notin A} \cup stay,
        !.nonce = [a \in Account |-> IF Of(up, a) = {} THEN @[a]
                                     ELSE Max({t.nonce : t \in Of(up, a)}) + 1]]

\* demoteUnexecutables: old and unpayable ones go, what was behind an unpayable one is queued,
\* and all of an account whose first is not at the state's nonce.
Demote(p) ==
  LET old    == {t \in p.pending : t.nonce < StateNonce(p, t.from)}
      costly == {t \in p.pending \ old : ~Payable(p, t)}
      behind == {t \in p.pending \ (old \cup costly) :
                   \E u \in costly : u.from = t.from /\ u.nonce < t.nonce}
      left   == p.pending \ (old \cup costly \cup behind)
      gapped == {t \in left : \A u \in Of(left, t.from) : u.nonce # StateNonce(p, t.from)}
  IN Requeue([Forget(p, old \cup costly) EXCEPT !.pending = left \ gapped], behind \cup gapped)

\* truncatePending: the longest lists of accounts that are not local are cut level by level.
TruncatePending(p) ==
  LET spammers == {a \in Account \ p.locals : Cardinality(Of(p.pending, a)) > AccountSlots}
      cut(n) == UNION {IF a \in spammers THEN Lowest(Of(p.pending, a), n) ELSE Of(p.pending, a) :
                         a \in Account}
      fits == {n \in AccountSlots .. Cardinality(p.pending) : Cardinality(cut(n)) <= GlobalSlots}
      left == cut(IF fits = {} THEN AccountSlots ELSE Max(fits))
      gone == p.pending \ left
  IN [Forget(p, gone) EXCEPT
        !.pending = left,
        !.nonce = [a \in Account |-> Min({t.nonce : t \in Of(gone, a)} \cup {@[a]})]]

\* truncateQueue: accounts that are not local lose their queue, one after another, the last of
\* them from its end.
TruncateQueue(p) ==
  LET removable == {t \in p.queue : t.from \notin p.locals}
      excess == Cardinality(p.queue) - GlobalQueue
      fromEnd(D, a) == \A t \in Of(D, a), u \in Of(p.queue \ D, a) : u.nonce < t.nonce
      partly(D) == {a \in Account : Of(D, a) # {} /\ Of(p.queue \ D, a) # {}}
  IN IF excess <= 0 THEN {p}
     ELSE IF Cardinality(removable) <= excess THEN {RemoveTxs(p, removable)}
     ELSE {RemoveTxs(p, D) : D \in {D \in SUBSET removable :
                                   /\ Cardinality(D) = excess
                                   /\ \A a \in Account : fromEnd(D, a)
                                   /\ Cardinality(partly(D)) <= 1}}

\* The last loop of runReorg.
NoncesSet(p) ==
  [p EXCEPT !.nonce = [a \in Account |-> IF Of(p.pending, a) = {} THEN @[a]
                                         ELSE Max({t.nonce : t \in Of(p.pending, a)}) + 1]]
=============================================================================
