---------------------------- MODULE TxPoolProofs ----------------------------
(***************************************************************************)
(* Proofs about TxPool, for any transactions, accounts, limits, chain of   *)
(* heads and calls: the types, that lists, lookup, nonces and state agree, *)
(* that neither subscribers nor the journal miss a transaction, and that   *)
(* the limits hold.                                                        *)
(***************************************************************************)
EXTENDS TxPool, FiniteSetTheorems, SequenceTheorems, WellFoundedInduction, TLAPS

----------------------------------------------------------------------------
(* The inductive invariant *)

\* The lists and the lookup
Shape(p) ==
  /\ p \in Pool
  /\ IsFiniteSet(p.all)
  /\ p.all = p.pending \cup p.queue
  /\ p.pending \cap p.queue = {}
  /\ \A t \in p.all, u \in p.all : t.from = u.from /\ t.nonce = u.nonce => t = u
  /\ p.own \subseteq p.all

\* What is pending, and that it reaches from the state's nonce to the next nonce
Executable(p) ==
  \A t \in p.pending :
    Payable(p, t) /\ StateNonce(p, t.from) <= t.nonce /\ t.nonce < p.nonce[t.from]

NoncesFilled(p) ==
  \A a \in Account :
    /\ StateNonce(p, a) <= p.nonce[a]
    /\ \A n \in StateNonce(p, a) .. p.nonce[a] - 1 : \E t \in p.pending : t.from = a /\ t.nonce = n

Content(p) == Shape(p) /\ Executable(p) /\ NoncesFilled(p)

\* The rest is stated of any notices n, calls k, scheduler s and run r, since the scheduler's
\* turn (Continue) starts from what the step before it in the same action leaves.
Notices == Seq(HeadIndex)

Calls == [Call -> [step : Step, todo : Seq(Tx), event : SUBSET Tx, dirty : SUBSET Account]]

Scheds == [launch : BOOLEAN, reset : {None} \cup HeadIndex, dirty : SUBSET Account,
           events : SUBSET Tx]

Runs == [step : {"none", "lock", "send", "ended"}, reset : {None} \cup HeadIndex,
         dirty : SUBSET Account, events : SUBSET Tx]

\* Who holds mu, and where there are events
Control(k, r) ==
  /\ \A c \in Call :
       /\ mu = c => k[c].step \in {"add", "event"}
       /\ k[c].step = "event" => mu = c
       /\ k[c].step = "add" => k[c].todo # <<>>
       /\ k[c].event # {} => k[c].step = "event"
       /\ k[c].event \subseteq pool.pending
  /\ r.step \in {"none", "ended"} => r.events = {}

\* Heads come in order: what is on its way to the pool is not older than what it has.
Forward(n, s, r) ==
  /\ \A i \in 1 .. Len(n) :
       /\ s.reset <= n[i] /\ r.reset <= n[i] /\ pool.cur <= n[i] /\ n[i] <= head
       /\ \A j \in 1 .. Len(n) : i < j => n[i] <= n[j]
  /\ s.reset # None => r.reset <= s.reset /\ pool.cur <= s.reset
  /\ r.reset # None => pool.cur <= r.reset
  /\ s.reset <= head /\ r.reset <= head /\ pool.cur <= head

\* A run for the account is under way.
Attended(k, s, r, a) ==
  \/ \E c \in Call : a \in k[c].dirty /\ k[c].step \in {"add", "event", "request"}
  \/ s.launch /\ (s.reset # None \/ a \in s.dirty)
  \/ r.step = "lock" /\ (r.reset # None \/ a \in r.dirty)

\* A queued transaction that could be processed
Stuck(p, t) == t.nonce = p.nonce[t.from] /\ Of(p.pending, t.from) = {}

Waits(k, s, r) ==
  stop = "no" => \A t \in pool.queue : Stuck(pool, t) => Attended(k, s, r, t.from)

Announced(k, s, r) ==
  stop = "no" /\ ~failed =>
    \A t \in pool.pending : \/ t \in announced \/ t \in s.events \/ t \in r.events
                            \/ \E c \in Call : t \in k[c].event

Right(n, k, s, r) ==
  /\ n \in Notices /\ k \in Calls /\ s \in Scheds /\ r \in Runs
  /\ Control(k, r) /\ Forward(n, s, r) /\ Waits(k, s, r) /\ Announced(k, s, r)

Others ==
  /\ mu \in {Free} \cup Call
  /\ head \in HeadIndex
  /\ stop \in {"no", "asked", "closed", "leaving", "exited"}
  /\ announced \subseteq Tx
  /\ failed \in BOOLEAN

IInv ==
  /\ Content(pool) /\ RoomKept(pool)
  /\ Others
  /\ Right(notices, call, sched, run)
  /\ run.step = "none" => ~sched.launch

----------------------------------------------------------------------------
(* Numbers and finite sets *)

\* A set of numbers has a least one (WFMin over the well-founded order of Nat).
LEMMA LeastNat ==
  ASSUME NEW T \in SUBSET Nat, T # {}
  PROVE  \E x \in T : \A y \in T : x <= y
<1> DEFINE R == OpToRel(<, Nat)
<1>1. IsWellFoundedOn(R, Nat)
  BY NatLessThanWellFounded
<1>2. \A x, y \in Nat : y < x => <<y, x>> \in R
  BY DEF OpToRel
<1> HIDE DEF R
<1>3. PICK x \in T : \A y \in T : ~(<<y, x>> \in R)
  BY <1>1, WFMin
<1>4. ASSUME NEW y \in T
      PROVE  x <= y
  <2>1. x \in Nat /\ y \in Nat /\ ~(<<y, x>> \in R)
    BY <1>3
  <2>2. ~(y < x)
    BY <1>2, <2>1, Zenon
  <2>3. QED
    BY <2>1, <2>2
<1>5. QED
  BY <1>4

\* A finite set of numbers that is not empty has a greatest one: take a smallest set that has
\* none, and remove an element.
LEMMA Greatest ==
  ASSUME NEW S \in SUBSET Nat, IsFiniteSet(S), S # {}
  PROVE  \E x \in S : \A y \in S : x >= y
<1> DEFINE Without(U) == \A x \in U : \E y \in U : ~(x >= y)
           T == {n \in Nat : \E U \in SUBSET Nat : /\ IsFiniteSet(U) /\ U # {}
                                                  /\ Without(U) /\ Cardinality(U) = n}
<1>1. SUFFICES ASSUME Without(S)
               PROVE  FALSE
  OBVIOUS
<1>2. Cardinality(S) \in T
  BY <1>1, FS_CardinalityType
<1>3. PICK n \in T : \A k \in T : n <= k
  BY <1>2, LeastNat
<1>4. PICK U \in SUBSET Nat : /\ IsFiniteSet(U) /\ U # {}
                              /\ Without(U) /\ Cardinality(U) = n
  BY <1>3
<1>5. PICK x \in U : TRUE
  BY <1>4
<1>6. /\ IsFiniteSet(U \ {x}) /\ Cardinality(U \ {x}) = n - 1
      /\ Cardinality(U \ {x}) \in Nat
  BY <1>4, <1>5, FS_RemoveElement, FS_CardinalityType
<1>7. U \ {x} # {}
  <2>1. x >= x
    BY <1>4, <1>5
  <2>2. \E y \in U : ~(x >= y)
    BY <1>4, <1>5
  <2>3. QED
    BY <2>1, <2>2
<1>8. ~Without(U \ {x})
  <2>1. SUFFICES ASSUME Without(U \ {x})
                 PROVE  FALSE
    OBVIOUS
  <2>2. n - 1 \in T
    BY <1>4, <1>6, <1>7, <2>1
  <2>3. n \in Nat /\ n <= n - 1
    BY <1>3, <2>2
  <2>4. QED
    BY <2>3
<1>9. PICK m \in U \ {x} : \A y \in U \ {x} : m >= y
  BY <1>8
<1>10. x \in Nat /\ m \in Nat /\ \A y \in U : y \in Nat
  BY <1>4, <1>5, <1>9
<1>11. CASE x >= m
  <2>1. \A y \in U : x >= y
    BY <1>9, <1>10, <1>11
  <2>2. QED
    BY <1>4, <1>5, <2>1
<1>12. CASE m >= x
  <2>1. \A y \in U : m >= y
    BY <1>9, <1>10, <1>12
  <2>2. QED
    BY <1>4, <1>9, <2>1
<1>13. QED
  BY <1>10, <1>11, <1>12

\* So Max is what it says.
LEMMA MaxIs ==
  ASSUME NEW S \in SUBSET Nat, IsFiniteSet(S), S # {}
  PROVE  Max(S) \in S /\ \A y \in S : Max(S) >= y
BY Greatest, Zenon DEF Max

\* Min is what it says.
LEMMA MinIs ==
  ASSUME NEW S \in SUBSET Nat, S # {}
  PROVE  Min(S) \in S /\ \A y \in S : Min(S) <= y
BY LeastNat, Zenon DEF Min

\* Finitely many transactions have finitely many nonces.
LEMMA NoncesFinite ==
  ASSUME NEW S, IsFiniteSet(S)
  PROVE  IsFiniteSet({t.nonce : t \in S})
<1> DEFINE f == [t \in S |-> t.nonce]
           T == {t.nonce : t \in S}
<1>1. f \in Surjection(S, T)
  BY DEF Surjection
<1>2. QED
  BY <1>1, FS_Surjection

----------------------------------------------------------------------------
(* Types *)

\* The fields of a transaction
LEMMA TxType ==
  ASSUME NEW t \in Tx
  PROVE  t.from \in Account /\ t.nonce \in Nat /\ t.cost \in Nat /\ t.price \in Nat
BY TxListsAssumption

\* What a state says
LEMMA StateType ==
  ASSUME NEW p \in Pool, NEW a \in Account
  PROVE  /\ StateNonce(p, a) \in Nat /\ Balance(p, a) \in Nat /\ p.cur \in HeadIndex
         /\ p.nonce[a] \in Nat
<1>1. p.cur \in HeadIndex /\ p.nonce \in [Account -> Nat]
  BY DEF Pool
<1>2. HeadState[p.cur] \in [Account -> [nonce : Nat, balance : Nat]]
  BY <1>1, TxListsAssumption
<1>3. HeadState[p.cur][a] \in [nonce : Nat, balance : Nat]
  BY <1>2
<1>4. QED
  BY <1>1, <1>3 DEF StateNonce, Balance

\* The lists are finite and of transactions.
LEMMA Lists ==
  ASSUME NEW p, Shape(p)
  PROVE  /\ p.pending \in SUBSET Tx /\ p.queue \in SUBSET Tx /\ p.all \in SUBSET Tx
         /\ IsFiniteSet(p.pending) /\ IsFiniteSet(p.queue)
<1>1. p \in Pool /\ IsFiniteSet(p.all) /\ p.all = p.pending \cup p.queue
  BY DEF Shape
<1>2. IsFiniteSet(p.pending) /\ IsFiniteSet(p.queue)
  BY <1>1, FS_Subset
<1>3. QED
  BY <1>1, <1>2 DEF Pool

\* Two lists have nothing with the same nonce of an account.
LEMMA Unique ==
  ASSUME NEW p, Shape(p), NEW t \in p.all, NEW u \in p.all, t.from = u.from, t.nonce = u.nonce
  PROVE  t = u
BY DEF Shape

----------------------------------------------------------------------------
(* Forgetting and queueing *)

\* The fields after Forget
LEMMA ForgetIs ==
  ASSUME NEW p \in Pool, NEW T
  PROVE  /\ Forget(p, T) \in Pool
         /\ Forget(p, T).all = p.all \ T /\ Forget(p, T).own = p.own \ T
         /\ Forget(p, T).pending = p.pending /\ Forget(p, T).queue = p.queue
         /\ Forget(p, T).locals = p.locals /\ Forget(p, T).nonce = p.nonce
         /\ Forget(p, T).cur = p.cur /\ Forget(p, T).journal = p.journal
BY DEF Forget, Pool

\* What goes from pending to the queue where nothing has its nonce just goes there.
LEMMA RequeueIs ==
  ASSUME NEW p \in Pool, NEW T \in SUBSET Tx, \A t \in T : Rival(p.queue, t) = {}
  PROVE  /\ Requeue(p, T) \in Pool
         /\ Requeue(p, T).queue = p.queue \cup T /\ Requeue(p, T).pending = p.pending
         /\ Requeue(p, T).all = p.all /\ Requeue(p, T).own = p.own
         /\ Requeue(p, T).locals = p.locals /\ Requeue(p, T).nonce = p.nonce
         /\ Requeue(p, T).cur = p.cur /\ Requeue(p, T).journal = p.journal
<1> DEFINE in == {t \in T : Inserts(p.queue, t)}
           out == UNION {Rival(p.queue, t) : t \in in}
           q == [p EXCEPT !.queue = (@ \ out) \cup in]
<1>1. in = T
  BY DEF Inserts
<1>2. out = {}
  BY <1>1
<1>3. /\ q \in Pool /\ q.queue = p.queue \cup T /\ q.pending = p.pending /\ q.all = p.all
      /\ q.own = p.own /\ q.locals = p.locals /\ q.nonce = p.nonce /\ q.cur = p.cur
      /\ q.journal = p.journal
  <2> HIDE DEF in, out
  <2>1. q = [p EXCEPT !.queue = p.queue \cup T]
    BY <1>1, <1>2
  <2>2. QED
    BY <2>1 DEF Pool
<1>4. Requeue(p, T) = Forget(q, out)
  BY DEF Requeue
<1> HIDE DEF q, out
<1>5. Requeue(p, T) = Forget(q, {}) /\ q \in Pool
  BY <1>2, <1>3, <1>4
<1> DEFINE r == Forget(q, {})
<1>6. /\ r \in Pool /\ r.all = q.all \ {} /\ r.own = q.own \ {}
      /\ r.pending = q.pending /\ r.queue = q.queue /\ r.locals = q.locals
      /\ r.nonce = q.nonce /\ r.cur = q.cur /\ r.journal = q.journal
  BY <1>5, ForgetIs
<1> HIDE DEF r
<1>7. q.all \ {} = q.all /\ q.own \ {} = q.own
  OBVIOUS
<1>8. Requeue(p, T) = r
  BY <1>5 DEF r
<1>9. QED
  BY <1>3, <1>6, <1>7, <1>8

----------------------------------------------------------------------------
(* removeTx *)

\* What is pending at a removed one's nonce or behind it, and the nonce that is left
CutBy(p, T) == {u \in p.pending : \E t \in T \cap p.pending : t.from = u.from /\ t.nonce <= u.nonce}

LowBy(p, T) ==
  [a \in Account |-> Min({t.nonce : t \in Of(T \cap p.pending, a)} \cup {p.nonce[a]})]

\* Only a transaction itself is at its nonce.
LEMMA RivalIs ==
  ASSUME NEW p, Shape(p), NEW S \in SUBSET p.all, NEW t \in p.all
  PROVE  Rival(S, t) = S \cap {t}
BY Unique DEF Rival

\* The nonce that is left is a lowest one.
LEMMA LowIs ==
  ASSUME NEW p, Shape(p), NEW T, NEW a \in Account
  PROVE  /\ LowBy(p, T)[a] \in Nat
         /\ LowBy(p, T)[a] <= p.nonce[a]
         /\ \A t \in T \cap p.pending : t.from = a => LowBy(p, T)[a] <= t.nonce
         /\ \/ LowBy(p, T)[a] = p.nonce[a]
            \/ \E t \in T \cap p.pending : t.from = a /\ LowBy(p, T)[a] = t.nonce
<1> DEFINE S == {t.nonce : t \in Of(T \cap p.pending, a)} \cup {p.nonce[a]}
<1>1. p.pending \in SUBSET Tx /\ p.nonce[a] \in Nat
  BY Lists, StateType DEF Shape
<1>2. S \in SUBSET Nat /\ S # {}
  BY <1>1, TxType DEF Of
<1>3. LowBy(p, T)[a] = Min(S)
  BY DEF LowBy
<1>4. Min(S) \in S /\ \A y \in S : Min(S) <= y
  <2> HIDE DEF S
  <2>1. QED
    BY <1>2, MinIs
<1>5. Min(S) \in Nat
  BY <1>2, <1>4
<1>6. p.nonce[a] \in S /\ \A t \in T \cap p.pending : t.from = a => t.nonce \in S
  BY DEF Of
<1>7. \A y \in S : y = p.nonce[a] \/ \E t \in T \cap p.pending : t.from = a /\ y = t.nonce
  BY DEF Of
<1> HIDE DEF S
<1>8. QED
  BY <1>3, <1>4, <1>5, <1>6, <1>7

\* The fields after RemoveTxs: nothing is in the way of what goes back to the queue.
LEMMA RemoveTxsIs ==
  ASSUME NEW p, Shape(p), NEW T \in SUBSET p.all
  PROVE  /\ RemoveTxs(p, T) \in Pool
         /\ RemoveTxs(p, T).all = p.all \ T /\ RemoveTxs(p, T).own = p.own \ T
         /\ RemoveTxs(p, T).pending = p.pending \ CutBy(p, T)
         /\ RemoveTxs(p, T).queue = (p.queue \ T) \cup (CutBy(p, T) \ T)
         /\ RemoveTxs(p, T).nonce = LowBy(p, T)
         /\ RemoveTxs(p, T).locals = p.locals /\ RemoveTxs(p, T).cur = p.cur
         /\ RemoveTxs(p, T).journal = p.journal
<1> DEFINE gone == T \cap p.all
           hit  == {t \in gone : Rival(p.pending, t) # {}}
           cut  == {u \in p.pending : \E t \in hit : t.from = u.from /\ t.nonce <= u.nonce}
           back == {u \in cut : Rival(hit, u) = {}}
           low(a) == Min({t.nonce : t \in Of(hit, a)} \cup {p.nonce[a]})
           m == [Forget(p, gone) EXCEPT
                   !.pending = @ \ cut,
                   !.queue = {u \in @ : Rival(gone \ hit, u) = {}},
                   !.nonce = [a \in Account |-> low(a)]]
<1>1. RemoveTxs(p, T) = Requeue(m, back)
  BY DEF RemoveTxs
<1>2. gone = T /\ p \in Pool /\ p.pending \in SUBSET p.all /\ p.queue \in SUBSET p.all
  BY DEF Shape
<1>3. \A t \in T : Rival(p.pending, t) = p.pending \cap {t}
  BY <1>2, RivalIs
<1>4. hit = T \cap p.pending
  BY <1>2, <1>3
<1>5. cut = CutBy(p, T)
  BY <1>4 DEF CutBy
<1>6. [a \in Account |-> low(a)] = LowBy(p, T)
  BY <1>4 DEF LowBy
<1>7. back = CutBy(p, T) \ T
  <2>1. \A u \in CutBy(p, T) : u \in p.all /\ u \in p.pending
    BY <1>2 DEF CutBy
  <2>2. hit \in SUBSET p.all
    BY <1>2, <1>4
  <2>3. \A u \in CutBy(p, T) : Rival(hit, u) = hit \cap {u}
    <3> HIDE DEF hit
    <3>1. QED
      BY <2>1, <2>2, RivalIs
  <2>4. \A u \in CutBy(p, T) : Rival(hit, u) = {} <=> u \notin T
    BY <1>4, <2>1, <2>3
  <2>5. QED
    BY <1>5, <2>4
<1>8. {u \in p.queue : Rival(gone \ hit, u) = {}} = p.queue \ T
  <2>1. gone \ hit = T \ p.pending
    BY <1>2, <1>4
  <2>2. \A u \in p.queue : Rival(gone \ hit, u) = (T \ p.pending) \cap {u}
    <3>1. T \ p.pending \in SUBSET p.all
      BY <1>2
    <3>2. QED
      BY <1>2, <2>1, <3>1, RivalIs
  <2>3. \A u \in p.queue : u \notin p.pending
    BY DEF Shape
  <2>4. QED
    BY <2>2, <2>3
<1>9. LowBy(p, T) \in [Account -> Nat]
  <2>1. \A a \in Account : LowBy(p, T)[a] \in Nat
    BY LowIs
  <2>2. QED
    BY <2>1 DEF LowBy
<1>10. /\ m \in Pool /\ m.all = p.all \ T /\ m.own = p.own \ T
       /\ m.pending = p.pending \ CutBy(p, T) /\ m.queue = p.queue \ T
       /\ m.nonce = LowBy(p, T) /\ m.locals = p.locals /\ m.cur = p.cur
       /\ m.journal = p.journal
  <2> DEFINE f == Forget(p, T)
  <2>1. /\ f \in Pool /\ f.all = p.all \ T /\ f.own = p.own \ T /\ f.pending = p.pending
        /\ f.queue = p.queue /\ f.locals = p.locals /\ f.nonce = p.nonce /\ f.cur = p.cur
        /\ f.journal = p.journal
    BY <1>2, ForgetIs
  <2>2. m = [f EXCEPT !.pending = f.pending \ CutBy(p, T), !.queue = f.queue \ T,
                      !.nonce = LowBy(p, T)]
    <3>1. Forget(p, gone) = f
      BY <1>2
    <3>2. m = [f EXCEPT !.pending = f.pending \ cut,
                        !.queue = {u \in f.queue : Rival(gone \ hit, u) = {}},
                        !.nonce = [a \in Account |-> low(a)]]
      BY <3>1
    <3>3. {u \in f.queue : Rival(gone \ hit, u) = {}} = f.queue \ T
      BY <1>8, <2>1
    <3> HIDE DEF f, gone, hit, cut, low, m
    <3>4. QED
      BY <1>5, <1>6, <3>2, <3>3
  <2> HIDE DEF f, m
  <2>3. f.pending \ CutBy(p, T) \in SUBSET Tx /\ f.queue \ T \in SUBSET Tx
    BY <2>1 DEF Pool
  <2>4. QED
    BY <1>9, <2>1, <2>2, <2>3 DEF Pool
<1> HIDE DEF m, back
<1>11. back \in SUBSET Tx /\ \A t \in back : Rival(m.queue, t) = {}
  <2>1. \A t \in back : t \in p.pending /\ t \in p.all
    BY <1>2, <1>7 DEF CutBy
  <2>2. m.queue \in SUBSET p.all
    BY <1>2, <1>10
  <2>3. \A t \in back : Rival(m.queue, t) = m.queue \cap {t}
    BY <2>1, <2>2, RivalIs
  <2>4. \A t \in back : t \notin m.queue
    BY <1>10, <2>1 DEF Shape
  <2>5. QED
    BY <1>2, <2>1, <2>3, <2>4, Lists
<1> DEFINE r == Requeue(m, back)
<1>12. /\ r \in Pool /\ r.queue = m.queue \cup back /\ r.pending = m.pending /\ r.all = m.all
       /\ r.own = m.own /\ r.locals = m.locals /\ r.nonce = m.nonce /\ r.cur = m.cur
       /\ r.journal = m.journal
  BY <1>10, <1>11, RequeueIs
<1> HIDE DEF r
<1>13. RemoveTxs(p, T) = r
  BY <1>1 DEF r
<1>14. QED
  BY <1>7, <1>10, <1>12, <1>13

\* What is gone from the lookup is gone from the local ones, and nothing comes.
Shrunk(p, q) == q.all \subseteq p.all /\ q.own = p.own \cap q.all

\* StateNonce and Payable are of the current state only.
LEMMA SameState ==
  ASSUME NEW p, NEW q, q.cur = p.cur
  PROVE  /\ \A a : StateNonce(q, a) = StateNonce(p, a) /\ Balance(q, a) = Balance(p, a)
         /\ \A t : Payable(q, t) <=> Payable(p, t)
BY DEF StateNonce, Balance, Payable

\* removeTx keeps lists and lookup equal.
LEMMA RemoveTxsShape ==
  ASSUME NEW p, Shape(p), NEW T \in SUBSET p.all
  PROVE  Shape(RemoveTxs(p, T)) /\ Shrunk(p, RemoveTxs(p, T))
<1> DEFINE q == RemoveTxs(p, T)
<1>1. /\ q \in Pool /\ q.all = p.all \ T /\ q.own = p.own \ T
      /\ q.pending = p.pending \ CutBy(p, T)
      /\ q.queue = (p.queue \ T) \cup (CutBy(p, T) \ T)
  BY RemoveTxsIs
<1>2. CutBy(p, T) \in SUBSET p.pending
  BY DEF CutBy
<1>3. /\ IsFiniteSet(p.all) /\ p.all = p.pending \cup p.queue /\ p.pending \cap p.queue = {}
      /\ \A t \in p.all, u \in p.all : t.from = u.from /\ t.nonce = u.nonce => t = u
      /\ p.own \subseteq p.all
  BY DEF Shape
<1>4. \A t \in T \cap p.pending : t \in CutBy(p, T)
  <2>1. \A t \in p.pending : t.nonce \in Nat
    BY Lists, TxType
  <2>2. QED
    BY <2>1 DEF CutBy
<1> HIDE DEF q
<1>5. IsFiniteSet(q.all)
  BY <1>1, <1>3, FS_Subset
<1>6. q.all = q.pending \cup q.queue /\ q.pending \cap q.queue = {}
  BY <1>1, <1>2, <1>3, <1>4
<1>7. Shape(q)
  BY <1>1, <1>3, <1>5, <1>6 DEF Shape
<1>8. Shrunk(p, q)
  BY <1>1, <1>3 DEF Shrunk
<1>9. QED
  BY <1>7, <1>8 DEF q

\* removeTx keeps what is pending consecutive, and the nonces right.
LEMMA RemoveTxsContent ==
  ASSUME NEW p, Content(p), NEW T \in SUBSET p.all
  PROVE  Content(RemoveTxs(p, T))
<1> DEFINE q == RemoveTxs(p, T)
<1>1. Shape(p) /\ p \in Pool
  BY DEF Content, Shape
<1>2. q.pending = p.pending \ CutBy(p, T) /\ q.nonce = LowBy(p, T) /\ q.cur = p.cur
  BY <1>1, RemoveTxsIs
<1>3. Shape(q)
  BY <1>1, RemoveTxsShape
<1> HIDE DEF q
<1>4. /\ \A a : StateNonce(q, a) = StateNonce(p, a)
      /\ \A t : Payable(q, t) <=> Payable(p, t)
  BY <1>2, SameState
<1>5. \A t \in p.pending : t.from \in Account /\ t.nonce \in Nat
  BY <1>1, Lists, TxType
<1>6. Executable(q)
  <2>1. SUFFICES ASSUME NEW u \in p.pending, u \notin CutBy(p, T)
                 PROVE  /\ Payable(p, u) /\ StateNonce(p, u.from) <= u.nonce
                        /\ u.nonce < LowBy(p, T)[u.from]
    BY <1>2, <1>4 DEF Executable
  <2>2. Payable(p, u) /\ StateNonce(p, u.from) <= u.nonce /\ u.nonce < p.nonce[u.from]
    BY DEF Content, Executable
  <2>3. \A t \in T \cap p.pending : t.from = u.from => u.nonce < t.nonce
    BY <1>5, <2>1 DEF CutBy
  <2>4. QED
    BY <1>1, <1>5, <2>2, <2>3, LowIs
<1>7. NoncesFilled(q)
  <2>1. SUFFICES ASSUME NEW a \in Account
                 PROVE  /\ StateNonce(p, a) <= LowBy(p, T)[a]
                        /\ \A n \in StateNonce(p, a) .. LowBy(p, T)[a] - 1 :
                             \E t \in q.pending : t.from = a /\ t.nonce = n
    BY <1>2, <1>4 DEF NoncesFilled
  <2>2. /\ StateNonce(p, a) <= p.nonce[a]
        /\ \A n \in StateNonce(p, a) .. p.nonce[a] - 1 :
             \E t \in p.pending : t.from = a /\ t.nonce = n
    BY DEF Content, NoncesFilled
  <2>3. /\ LowBy(p, T)[a] \in Nat
        /\ LowBy(p, T)[a] <= p.nonce[a]
        /\ \A t \in T \cap p.pending : t.from = a => LowBy(p, T)[a] <= t.nonce
        /\ \/ LowBy(p, T)[a] = p.nonce[a]
           \/ \E t \in T \cap p.pending : t.from = a /\ LowBy(p, T)[a] = t.nonce
    BY <1>1, LowIs
  <2>4. StateNonce(p, a) <= LowBy(p, T)[a]
    BY <2>2, <2>3 DEF Content, Executable
  <2>5. ASSUME NEW n \in StateNonce(p, a) .. LowBy(p, T)[a] - 1
        PROVE  \E t \in q.pending : t.from = a /\ t.nonce = n
    <3>1. n \in StateNonce(p, a) .. p.nonce[a] - 1 /\ n < LowBy(p, T)[a] /\ n \in Int
      BY <1>1, <2>3, StateType
    <3>2. PICK t \in p.pending : t.from = a /\ t.nonce = n
      BY <2>2, <3>1
    <3>3. t \notin CutBy(p, T)
      BY <1>5, <2>3, <3>1, <3>2 DEF CutBy
    <3>4. QED
      BY <1>2, <3>2, <3>3
  <2>6. QED
    BY <2>4, <2>5
<1>8. QED
  BY <1>3, <1>6, <1>7 DEF Content, q

\* removeTx makes nothing executable that stays in the queue.
LEMMA RemoveTxsStuck ==
  ASSUME NEW p, Content(p), NEW T \in SUBSET p.all,
         NEW t \in RemoveTxs(p, T).queue, Stuck(RemoveTxs(p, T), t)
  PROVE  t \in p.queue /\ Stuck(p, t)
<1> DEFINE q == RemoveTxs(p, T)
           a == t.from
<1>1. Shape(p) /\ p \in Pool
  BY DEF Content, Shape
<1>2. /\ q.pending = p.pending \ CutBy(p, T) /\ q.nonce = LowBy(p, T)
      /\ q.queue = (p.queue \ T) \cup (CutBy(p, T) \ T)
  BY <1>1, RemoveTxsIs
<1>3. t \in q.queue /\ t.nonce = q.nonce[a] /\ Of(q.pending, a) = {}
  BY DEF Stuck
<1> HIDE DEF q
<1>4. t \in p.all /\ t \notin T /\ a \in Account
  <2>1. t \in p.all /\ t \notin T
    BY <1>1, <1>2, <1>3 DEF Shape, CutBy
  <2>2. QED
    BY <1>1, <2>1, Lists, TxType
<1>5. \A u \in T \cap p.pending : u.from = a => u.nonce # t.nonce
  BY <1>1, <1>4, Unique
<1>6. /\ LowBy(p, T)[a] \in Nat
      /\ \A u \in T \cap p.pending : u.from = a => LowBy(p, T)[a] <= u.nonce
      /\ \/ LowBy(p, T)[a] = p.nonce[a]
         \/ \E u \in T \cap p.pending : u.from = a /\ LowBy(p, T)[a] = u.nonce
  BY <1>1, <1>4, LowIs
<1>7. LowBy(p, T)[a] = p.nonce[a] /\ t.nonce = p.nonce[a]
  BY <1>2, <1>3, <1>5, <1>6
<1>8. \A u \in T \cap p.pending : u.from # a
  <2>1. \A u \in p.pending : u.nonce \in Nat /\ u.nonce < p.nonce[u.from]
    BY <1>1, Lists, TxType DEF Content, Executable
  <2>2. QED
    BY <1>6, <1>7, <2>1
<1>9. \A u \in CutBy(p, T) : u.from # a
  BY <1>8 DEF CutBy
<1>10. t \in p.queue /\ Of(p.pending, a) = {}
  BY <1>2, <1>3, <1>9 DEF Of
<1>11. QED
  BY <1>7, <1>10 DEF Stuck

----------------------------------------------------------------------------
(* add *)

\* The fields after a transaction is kept in a list
LEMMA KeptPendingIs ==
  ASSUME NEW p \in Pool, NEW t \in Tx, NEW isLocal \in BOOLEAN
  PROVE  LET q == Kept(p, t, isLocal, "pending")
             R == Rival(p.pending, t)
         IN /\ q \in Pool
            /\ q.pending = (p.pending \ R) \cup {t} /\ q.queue = p.queue
            /\ q.all = (p.all \ R) \cup {t}
            /\ isLocal => q.own = (p.own \ R) \cup {t}
            /\ ~isLocal => q.own = p.own \ R
            /\ q.locals = p.locals /\ q.nonce = p.nonce /\ q.cur = p.cur
            /\ q.journal = p.journal
<1> DEFINE q == Kept(p, t, isLocal, "pending")
           R == Rival(p.pending, t)
           f == Forget(p, R)
<1>1. /\ f \in Pool /\ f.all = p.all \ R /\ f.own = p.own \ R /\ f.pending = p.pending
      /\ f.queue = p.queue /\ f.locals = p.locals /\ f.nonce = p.nonce /\ f.cur = p.cur
      /\ f.journal = p.journal
  BY ForgetIs
<1>2. q = [f EXCEPT !.pending = (f.pending \ Rival(f.pending, t)) \cup {t},
                    !.all = f.all \cup {t},
                    !.own = IF isLocal THEN f.own \cup {t} ELSE f.own]
  BY DEF Kept, Insert
<1>3. Rival(f.pending, t) = R
  BY <1>1
<1>4. (f.pending \ R) \cup {t} \in SUBSET Tx /\ f.all \cup {t} \in SUBSET Tx
      /\ f.own \cup {t} \in SUBSET Tx
  BY <1>1 DEF Pool
<1> HIDE DEF q, R, f
<1>5. q = [f EXCEPT !.pending = (f.pending \ R) \cup {t},
                    !.all = f.all \cup {t},
                    !.own = IF isLocal THEN f.own \cup {t} ELSE f.own]
  BY <1>2, <1>3
<1>6. /\ q \in Pool
      /\ q.pending = (f.pending \ R) \cup {t} /\ q.queue = f.queue
      /\ q.all = f.all \cup {t}
      /\ isLocal => q.own = f.own \cup {t}
      /\ ~isLocal => q.own = f.own
      /\ q.locals = f.locals /\ q.nonce = f.nonce /\ q.cur = f.cur
      /\ q.journal = f.journal
  BY <1>1, <1>4, <1>5 DEF Pool
<1>7. /\ q \in Pool
      /\ q.pending = (p.pending \ R) \cup {t} /\ q.queue = p.queue
      /\ q.all = (p.all \ R) \cup {t}
      /\ isLocal => q.own = (p.own \ R) \cup {t}
      /\ ~isLocal => q.own = p.own \ R
      /\ q.locals = p.locals /\ q.nonce = p.nonce /\ q.cur = p.cur
      /\ q.journal = p.journal
  BY <1>1, <1>6
<1>8. QED
  BY <1>7 DEF q, R

\* The same in the queue
LEMMA KeptQueueIs ==
  ASSUME NEW p \in Pool, NEW t \in Tx, NEW isLocal \in BOOLEAN
  PROVE  LET q == Kept(p, t, isLocal, "queue")
             R == Rival(p.queue, t)
         IN /\ q \in Pool
            /\ q.queue = (p.queue \ R) \cup {t} /\ q.pending = p.pending
            /\ q.all = (p.all \ R) \cup {t}
            /\ isLocal => q.own = (p.own \ R) \cup {t}
            /\ ~isLocal => q.own = p.own \ R
            /\ q.locals = p.locals /\ q.nonce = p.nonce /\ q.cur = p.cur
            /\ q.journal = p.journal
<1> DEFINE q == Kept(p, t, isLocal, "queue")
           R == Rival(p.queue, t)
           f == Forget(p, R)
<1>1. /\ f \in Pool /\ f.all = p.all \ R /\ f.own = p.own \ R /\ f.pending = p.pending
      /\ f.queue = p.queue /\ f.locals = p.locals /\ f.nonce = p.nonce /\ f.cur = p.cur
      /\ f.journal = p.journal
  BY ForgetIs
<1>2. q = [f EXCEPT !.queue = (f.queue \ Rival(f.queue, t)) \cup {t},
                    !.all = f.all \cup {t},
                    !.own = IF isLocal THEN f.own \cup {t} ELSE f.own]
  BY DEF Kept, Insert
<1>3. Rival(f.queue, t) = R
  BY <1>1
<1>4. (f.queue \ R) \cup {t} \in SUBSET Tx /\ f.all \cup {t} \in SUBSET Tx
      /\ f.own \cup {t} \in SUBSET Tx
  BY <1>1 DEF Pool
<1> HIDE DEF q, R, f
<1>5. q = [f EXCEPT !.queue = (f.queue \ R) \cup {t},
                    !.all = f.all \cup {t},
                    !.own = IF isLocal THEN f.own \cup {t} ELSE f.own]
  BY <1>2, <1>3
<1>6. /\ q \in Pool
      /\ q.queue = (f.queue \ R) \cup {t} /\ q.pending = f.pending
      /\ q.all = f.all \cup {t}
      /\ isLocal => q.own = f.own \cup {t}
      /\ ~isLocal => q.own = f.own
      /\ q.locals = f.locals /\ q.nonce = f.nonce /\ q.cur = f.cur
      /\ q.journal = f.journal
  BY <1>1, <1>4, <1>5 DEF Pool
<1>7. /\ q \in Pool
      /\ q.queue = (p.queue \ R) \cup {t} /\ q.pending = p.pending
      /\ q.all = (p.all \ R) \cup {t}
      /\ isLocal => q.own = (p.own \ R) \cup {t}
      /\ ~isLocal => q.own = p.own \ R
      /\ q.locals = p.locals /\ q.nonce = p.nonce /\ q.cur = p.cur
      /\ q.journal = p.journal
  BY <1>1, <1>6
<1>8. QED
  BY <1>7 DEF q, R

\* The fields after journalTx
LEMMA JournaledIs ==
  ASSUME NEW p \in Pool, NEW t \in Tx
  PROVE  LET q == Journaled(p, t)
         IN /\ q \in Pool
            /\ q.pending = p.pending /\ q.queue = p.queue /\ q.all = p.all /\ q.own = p.own
            /\ q.locals = p.locals /\ q.nonce = p.nonce /\ q.cur = p.cur
            /\ p.journal \subseteq q.journal
            /\ t.from \in p.locals => t \in q.journal
<1>1. CASE t.from \in p.locals
  BY <1>1 DEF Journaled, Pool
<1>2. CASE t.from \notin p.locals
  BY <1>2 DEF Journaled, Pool
<1>3. QED
  BY <1>1, <1>2

\* The fields after an account is made local
LEMMA MadeLocalIs ==
  ASSUME NEW p \in Pool, NEW a \in Account
  PROVE  LET q == MadeLocal(p, a)
         IN /\ q \in Pool
            /\ q.pending = p.pending /\ q.queue = p.queue /\ q.all = p.all
            /\ q.own = p.own \cup Of(p.all, a)
            /\ q.locals = p.locals \cup {a} /\ q.nonce = p.nonce /\ q.cur = p.cur
            /\ q.journal = p.journal
BY DEF MadeLocal, Pool, Of

\* What an addition of t to p has to come to
Adds(p, t, o) ==
  /\ Content(o.pool)
  /\ o.pool.all \subseteq p.all \cup {t} /\ o.pool.cur = p.cur
  /\ o.event \subseteq o.pool.pending \cap {t} /\ o.dirty \subseteq {t.from}
  /\ o.pool.pending \subseteq p.pending \cup o.event
  /\ \A u \in o.pool.queue :
       Stuck(o.pool, u) => u.from \in o.dirty \/ \E v \in p.queue : v.from = u.from /\ Stuck(p, v)
  /\ \A u \in o.pool.all :
       u.from \in o.pool.locals /\ u \notin o.pool.journal =>
         u \in p.all /\ (u.from \in p.locals => u \notin p.journal)

\* The same of a transaction that is left out
LEMMA AddsNothing ==
  ASSUME NEW p, Content(p), NEW t
  PROVE  Adds(p, t, [pool |-> p, event |-> {}, dirty |-> {}])
BY DEF Adds

\* A replacement in pending
LEMMA ReplaceAdds ==
  ASSUME NEW p, Content(p), NEW t \in Tx, t \notin p.all, Valid(p, t), NEW isLocal \in BOOLEAN,
         Rival(p.pending, t) # {}
  PROVE  /\ Adds(p, t, Replace(p, t, isLocal))
         /\ isLocal /\ p.all = p.own => Replace(p, t, isLocal).pool.all = Replace(p, t, isLocal).pool.own
<1>1. CASE ~Inserts(p.pending, t)
  BY <1>1, AddsNothing DEF Replace
<1>2. CASE Inserts(p.pending, t)
  <2> DEFINE k == Kept(p, t, isLocal, "pending")
             q == Journaled(k, t)
             o == [pool |-> q, event |-> {t}, dirty |-> {}]
             R == Rival(p.pending, t)
  <2>1. Replace(p, t, isLocal) = o
    BY <1>2 DEF Replace
  <2>2. Shape(p) /\ p \in Pool
    BY DEF Content, Shape
  <2>3. /\ k \in Pool
        /\ k.pending = (p.pending \ R) \cup {t} /\ k.queue = p.queue
        /\ k.all = (p.all \ R) \cup {t}
        /\ isLocal => k.own = (p.own \ R) \cup {t}
        /\ ~isLocal => k.own = p.own \ R
        /\ k.locals = p.locals /\ k.nonce = p.nonce /\ k.cur = p.cur
        /\ k.journal = p.journal
    BY <2>2, KeptPendingIs
  <2> HIDE DEF k
  <2>4. /\ q \in Pool
        /\ q.pending = k.pending /\ q.queue = k.queue /\ q.all = k.all /\ q.own = k.own
        /\ q.locals = k.locals /\ q.nonce = k.nonce /\ q.cur = k.cur
        /\ k.journal \subseteq q.journal
        /\ t.from \in k.locals => t \in q.journal
    BY <2>3, JournaledIs
  <2> HIDE DEF q
  <2>5. /\ q \in Pool
        /\ q.pending = (p.pending \ R) \cup {t} /\ q.queue = p.queue
        /\ q.all = (p.all \ R) \cup {t}
        /\ isLocal => q.own = (p.own \ R) \cup {t}
        /\ ~isLocal => q.own = p.own \ R
        /\ q.locals = p.locals /\ q.nonce = p.nonce /\ q.cur = p.cur
        /\ p.journal \subseteq q.journal
        /\ t.from \in p.locals => t \in q.journal
    BY <2>3, <2>4
  <2>6. /\ R \in SUBSET p.pending
        /\ \A u \in R : u.from = t.from /\ u.nonce = t.nonce
        /\ \A u \in p.pending : u.from = t.from /\ u.nonce = t.nonce => u \in R
    BY DEF Rival
  <2>7. PICK r \in R : r \in p.pending /\ r.from = t.from /\ r.nonce = t.nonce
    BY <2>6
  <2> HIDE DEF R
  <2>8. /\ IsFiniteSet(p.all) /\ p.all = p.pending \cup p.queue /\ p.pending \cap p.queue = {}
        /\ \A u \in p.all, v \in p.all : u.from = v.from /\ u.nonce = v.nonce => u = v
        /\ p.own \subseteq p.all
    BY <2>2 DEF Shape
  <2>9. Shape(q)
    <3>1. IsFiniteSet(q.all)
      <4>1. IsFiniteSet(p.all \ R)
        BY <2>8, FS_Subset
      <4>2. QED
        BY <2>5, <4>1, FS_AddElement
    <3>2. q.all = q.pending \cup q.queue /\ q.pending \cap q.queue = {} /\ q.own \subseteq q.all
      BY <2>5, <2>6, <2>8
    <3>3. \A u \in p.all : u.from = t.from /\ u.nonce = t.nonce => u \in R
      BY <2>6, <2>7, <2>8
    <3>4. \A u \in q.all, v \in q.all : u.from = v.from /\ u.nonce = v.nonce => u = v
      BY <2>5, <2>8, <3>3
    <3>5. QED
      BY <2>5, <3>1, <3>2, <3>4 DEF Shape
  <2>10. /\ \A a : StateNonce(q, a) = StateNonce(p, a)
         /\ \A u : Payable(q, u) <=> Payable(p, u)
    BY <2>5, SameState
  <2>11. Executable(q)
    <3>1. \A u \in p.pending :
            Payable(p, u) /\ StateNonce(p, u.from) <= u.nonce /\ u.nonce < p.nonce[u.from]
      BY DEF Content, Executable
    <3>2. Payable(p, t) /\ StateNonce(p, t.from) <= t.nonce /\ t.nonce < p.nonce[t.from]
      BY <2>7, <3>1 DEF Valid
    <3>3. QED
      BY <2>5, <2>10, <3>1, <3>2 DEF Executable
  <2>12. NoncesFilled(q)
    <3>1. \A a \in Account :
            /\ StateNonce(p, a) <= p.nonce[a]
            /\ \A n \in StateNonce(p, a) .. p.nonce[a] - 1 :
                 \E u \in p.pending : u.from = a /\ u.nonce = n
      BY DEF Content, NoncesFilled
    <3>2. \A u \in p.pending : \E v \in q.pending : v.from = u.from /\ v.nonce = u.nonce
      BY <2>5, <2>6
    <3>3. QED
      BY <2>5, <2>10, <3>1, <3>2 DEF NoncesFilled
  <2>13. Content(q)
    BY <2>9, <2>11, <2>12 DEF Content
  <2>14. \A u \in q.queue : Stuck(q, u) => u \in p.queue /\ Stuck(p, u)
    BY <2>5, <2>6, <2>7 DEF Stuck, Of
  <2>15. \A u \in q.all :
           u.from \in q.locals /\ u \notin q.journal =>
             u \in p.all /\ (u.from \in p.locals => u \notin p.journal)
    BY <2>5
  <2>16. Adds(p, t, o)
    BY <2>5, <2>13, <2>14, <2>15 DEF Adds
  <2>17. isLocal /\ p.all = p.own => q.all = q.own
    BY <2>5
  <2>18. QED
    BY <2>1, <2>16, <2>17
<1>3. QED
  BY <1>1, <1>2

\* A transaction that is queued
LEMMA EnqueueAdds ==
  ASSUME NEW p, Content(p), NEW t \in Tx, t \notin p.all, Valid(p, t),
         NEW local \in BOOLEAN, NEW isLocal \in BOOLEAN, Rival(p.pending, t) = {}
  PROVE  /\ Adds(p, t, Enqueue(p, t, local, isLocal))
         /\ isLocal /\ p.all = p.own =>
              Enqueue(p, t, local, isLocal).pool.all = Enqueue(p, t, local, isLocal).pool.own
<1>1. CASE ~Inserts(p.queue, t)
  BY <1>1, AddsNothing DEF Enqueue
<1>2. CASE Inserts(p.queue, t)
  <2> DEFINE k == Kept(p, t, isLocal, "queue")
             l == IF local THEN MadeLocal(k, t.from) ELSE k
             q == Journaled(l, t)
             R == Rival(p.queue, t)
             o == [pool |-> q, event |-> {}, dirty |-> IF R = {} THEN {t.from} ELSE {}]
  <2>1. Enqueue(p, t, local, isLocal) = o
    BY <1>2 DEF Enqueue
  <2>2. Shape(p) /\ p \in Pool /\ t.from \in Account
    BY TxType DEF Content, Shape
  <2>3. /\ k \in Pool
        /\ k.queue = (p.queue \ R) \cup {t} /\ k.pending = p.pending
        /\ k.all = (p.all \ R) \cup {t}
        /\ isLocal => k.own = (p.own \ R) \cup {t}
        /\ ~isLocal => k.own = p.own \ R
        /\ k.locals = p.locals /\ k.nonce = p.nonce /\ k.cur = p.cur
        /\ k.journal = p.journal
    BY <2>2, KeptQueueIs
  <2> HIDE DEF k
  <2>4. /\ l \in Pool
        /\ l.pending = k.pending /\ l.queue = k.queue /\ l.all = k.all
        /\ k.own \subseteq l.own /\ l.own \subseteq k.own \cup k.all
        /\ l.locals = k.locals \/ l.locals = k.locals \cup {t.from}
        /\ l.nonce = k.nonce /\ l.cur = k.cur /\ l.journal = k.journal
    <3>1. CASE local
      <4>1. /\ l \in Pool
            /\ l.pending = k.pending /\ l.queue = k.queue /\ l.all = k.all
            /\ l.own = k.own \cup Of(k.all, t.from)
            /\ l.locals = k.locals \cup {t.from} /\ l.nonce = k.nonce /\ l.cur = k.cur
            /\ l.journal = k.journal
        BY <2>2, <2>3, <3>1, MadeLocalIs
      <4> HIDE DEF l
      <4>2. QED
        BY <4>1 DEF Of
    <3>2. CASE ~local
      BY <2>3, <3>2
    <3>3. QED
      BY <3>1, <3>2
  <2> HIDE DEF l
  <2>5. /\ q \in Pool
        /\ q.pending = l.pending /\ q.queue = l.queue /\ q.all = l.all /\ q.own = l.own
        /\ q.locals = l.locals /\ q.nonce = l.nonce /\ q.cur = l.cur
        /\ l.journal \subseteq q.journal
        /\ t.from \in l.locals => t \in q.journal
    BY <2>4, JournaledIs
  <2> HIDE DEF q
  <2>6. /\ q \in Pool
        /\ q.queue = (p.queue \ R) \cup {t} /\ q.pending = p.pending
        /\ q.all = (p.all \ R) \cup {t}
        /\ q.own \subseteq p.own \cup q.all
        /\ isLocal => (p.own \ R) \cup {t} \subseteq q.own
        /\ q.locals = p.locals \/ q.locals = p.locals \cup {t.from}
        /\ q.nonce = p.nonce /\ q.cur = p.cur
        /\ p.journal \subseteq q.journal
        /\ t.from \in q.locals => t \in q.journal
    <3>1. isLocal \/ ~isLocal
      OBVIOUS
    <3>2. QED
      BY <2>3, <2>4, <2>5, <3>1
  <2>20. q.own \subseteq q.all
    <3>1. k.own \subseteq k.all
      BY <2>2, <2>3 DEF Shape
    <3>2. QED
      BY <3>1, <2>4, <2>5
  <2>7. /\ R \in SUBSET p.queue
        /\ \A u \in R : u.from = t.from /\ u.nonce = t.nonce
        /\ \A u \in p.queue : u.from = t.from /\ u.nonce = t.nonce => u \in R
        /\ \A u \in p.pending : ~(u.from = t.from /\ u.nonce = t.nonce)
    BY DEF Rival
  <2> HIDE DEF R
  <2>8. /\ IsFiniteSet(p.all) /\ p.all = p.pending \cup p.queue /\ p.pending \cap p.queue = {}
        /\ \A u \in p.all, v \in p.all : u.from = v.from /\ u.nonce = v.nonce => u = v
        /\ p.own \subseteq p.all
    BY <2>2 DEF Shape
  <2>9. Shape(q)
    <3>1. IsFiniteSet(q.all)
      <4>1. IsFiniteSet(p.all \ R)
        BY <2>8, FS_Subset
      <4>2. QED
        BY <2>6, <4>1, FS_AddElement
    <3>2. q.all = q.pending \cup q.queue /\ q.pending \cap q.queue = {}
      BY <2>6, <2>7, <2>8
    <3>3. \A u \in p.all : u.from = t.from /\ u.nonce = t.nonce => u \in R
      BY <2>7, <2>8
    <3>4. \A u \in q.all, v \in q.all : u.from = v.from /\ u.nonce = v.nonce => u = v
      BY <2>6, <2>8, <3>3
    <3>5. QED
      BY <2>6, <2>20, <3>1, <3>2, <3>4 DEF Shape
  <2>10. /\ \A a : StateNonce(q, a) = StateNonce(p, a)
         /\ \A u : Payable(q, u) <=> Payable(p, u)
    BY <2>6, SameState
  <2>11. Executable(q) /\ NoncesFilled(q)
    BY <2>6, <2>10 DEF Content, Executable, NoncesFilled
  <2>12. Content(q)
    BY <2>9, <2>11 DEF Content
  <2>13. ASSUME NEW u \in q.queue, Stuck(q, u)
         PROVE  u.from \in o.dirty \/ \E v \in p.queue : v.from = u.from /\ Stuck(p, v)
    <3>1. CASE u # t
      BY <2>6, <2>13, <3>1 DEF Stuck
    <3>2. CASE u = t /\ R = {}
      BY <3>2
    <3>3. CASE u = t /\ R # {}
      <4>1. PICK r \in R : r \in p.queue /\ r.from = t.from /\ r.nonce = t.nonce
        BY <2>7, <3>3
      <4>2. Stuck(p, r)
        BY <2>6, <2>13, <3>3, <4>1 DEF Stuck
      <4>3. QED
        BY <3>3, <4>1, <4>2
    <3>4. QED
      BY <3>1, <3>2, <3>3
  <2>14. \A u \in q.all :
           u.from \in q.locals /\ u \notin q.journal =>
             u \in p.all /\ (u.from \in p.locals => u \notin p.journal)
    BY <2>6
  <2>15. o.dirty \subseteq {t.from}
    OBVIOUS
  <2>16. Adds(p, t, o)
    BY <2>6, <2>12, <2>13, <2>14, <2>15 DEF Adds
  <2>17. isLocal /\ p.all = p.own => q.all = q.own
    BY <2>6, <2>20
  <2>18. QED
    BY <2>1, <2>16, <2>17
<1>3. QED
  BY <1>1, <1>2

\* Room is made where it is needed: what is left and one more fit, or only local ones are left.
LEMMA RoomMade ==
  ASSUME NEW p, Shape(p), RoomKept(p), NEW isLocal \in BOOLEAN, NEW D \in Discards(p, isLocal),
         NEW q, q.all = p.all \ D, q.own = p.own \ D,
         NEW t, NEW r, r.all \subseteq q.all \cup {t}, isLocal /\ q.all = q.own => r.all = r.own
  PROVE  RoomKept(r)
<1> DEFINE remotes == p.all \ p.own
           room == GlobalSlots + GlobalQueue
           n == Cardinality(p.all)
<1>1. IsFiniteSet(p.all) /\ n \in Nat /\ room \in Nat /\ p.own \subseteq p.all
  BY FS_CardinalityType, TxListsAssumption DEF Shape
<1>2. \/ n + 1 - room <= 0 /\ D = {}
      \/ D \in SUBSET remotes /\ Cardinality(D) = n + 1 - room
      \/ isLocal /\ D = remotes
  BY DEF Discards, Excess
<1>3. ASSUME NEW S, IsFiniteSet(S), Cardinality(S) \in Nat, Cardinality(S) + 1 <= room, q.all = S
      PROVE  RoomKept(r)
  <2>1. IsFiniteSet(S \cup {t}) /\ Cardinality(S \cup {t}) <= Cardinality(S) + 1
    <3>1. /\ IsFiniteSet(S \cup {t})
          /\ Cardinality(S \cup {t}) = IF t \in S THEN Cardinality(S) ELSE Cardinality(S) + 1
      BY <1>3, FS_AddElement
    <3>2. \/ Cardinality(S \cup {t}) = Cardinality(S)
          \/ Cardinality(S \cup {t}) = Cardinality(S) + 1
      BY <3>1
    <3> DEFINE k == Cardinality(S)
               l == Cardinality(S \cup {t})
    <3> HIDE DEF k, l
    <3>3. k \in Nat /\ (l = k \/ l = k + 1)
      BY <1>3, <3>2 DEF k, l
    <3>4. l <= k + 1
      BY <3>3
    <3>5. QED
      BY <3>1, <3>4 DEF k, l
  <2>2. r.all \in SUBSET (S \cup {t})
    BY <1>3
  <2>3. IsFiniteSet(r.all) /\ Cardinality(r.all) <= Cardinality(S \cup {t})
    BY <2>1, <2>2, FS_Subset
  <2>4. Cardinality(r.all) \in Nat /\ Cardinality(S \cup {t}) \in Nat
    BY <2>1, <2>3, FS_CardinalityType
  <2>5. Cardinality(r.all) <= room
    BY <1>1, <1>3, <2>1, <2>3, <2>4
  <2>6. QED
    BY <2>5 DEF RoomKept
<1>4. CASE n + 1 - room <= 0 /\ D = {}
  <2>1. q.all = p.all /\ n + 1 <= room
    BY <1>1, <1>4
  <2>2. QED
    BY <1>1, <1>3, <2>1
<1>5. CASE D \in SUBSET remotes /\ Cardinality(D) = n + 1 - room
  <2>1. D \in SUBSET p.all /\ p.all \cap D = D
    BY <1>5
  <2>2. IsFiniteSet(p.all \ D) /\ Cardinality(p.all \ D) = n - Cardinality(D)
    BY <1>1, <2>1, FS_Difference
  <2>3. Cardinality(p.all \ D) + 1 <= room
    BY <1>1, <1>5, <2>2
  <2>4. Cardinality(p.all \ D) \in Nat
    BY <2>2, FS_CardinalityType
  <2>5. QED
    BY <1>3, <2>2, <2>3, <2>4
<1>6. CASE isLocal /\ D = remotes
  <2>1. q.all = q.own
    BY <1>1, <1>6
  <2>2. r.all = r.own
    BY <1>6, <2>1
  <2>3. QED
    BY <2>2 DEF RoomKept
<1>7. QED
  BY <1>2, <1>4, <1>5, <1>6

\* add
LEMMA AddIs ==
  ASSUME NEW p, Content(p), RoomKept(p), NEW t \in Tx, NEW local \in BOOLEAN,
         NEW o \in AddOutcomes(p, t, local)
  PROVE  Adds(p, t, o) /\ RoomKept(o.pool)
<1> DEFINE isLocal == local \/ t.from \in p.locals
           added(q) == IF Rival(q.pending, t) # {} THEN Replace(q, t, isLocal)
                                                   ELSE Enqueue(q, t, local, isLocal)
           refused == [pool |-> p, event |-> {}, dirty |-> {}]
<1>1. o = refused \/ ( /\ t \notin p.all /\ Valid(p, t)
                       /\ \E D \in Discards(p, isLocal) : o = added(RemoveTxs(p, D)) )
  BY DEF AddOutcomes
<1>2. isLocal \in BOOLEAN /\ Shape(p) /\ p \in Pool
  BY DEF Content, Shape
<1>3. CASE o = refused
  BY <1>3, AddsNothing
<1>4. ASSUME t \notin p.all, Valid(p, t), NEW D \in Discards(p, isLocal), o = added(RemoveTxs(p, D))
      PROVE  Adds(p, t, o) /\ RoomKept(o.pool)
  <2> DEFINE q == RemoveTxs(p, D)
  <2>1. D \in SUBSET p.all
    BY <1>4 DEF Discards
  <2>2. /\ q.all = p.all \ D /\ q.own = p.own \ D /\ q.pending = p.pending \ CutBy(p, D)
        /\ q.locals = p.locals /\ q.cur = p.cur /\ q.journal = p.journal
    BY <1>2, <2>1, RemoveTxsIs
  <2>3. Content(q)
    BY <2>1, RemoveTxsContent
  <2>4. \A u \in q.queue : Stuck(q, u) => u \in p.queue /\ Stuck(p, u)
    BY <2>1, RemoveTxsStuck
  <2>5. t \notin q.all /\ Valid(q, t)
    BY <1>4, <2>2, SameState DEF Valid
  <2>6. o = added(q)
    BY <1>4
  <2> HIDE DEF q, isLocal
  <2>7. Adds(q, t, o) /\ (isLocal /\ q.all = q.own => o.pool.all = o.pool.own)
    <3>1. CASE Rival(q.pending, t) # {}
      <4>1. o = Replace(q, t, isLocal)
        BY <2>6, <3>1
      <4>2. QED
        BY <1>2, <2>3, <2>5, <3>1, <4>1, ReplaceAdds
    <3>2. CASE Rival(q.pending, t) = {}
      <4>1. o = Enqueue(q, t, local, isLocal)
        BY <2>6, <3>2
      <4>2. QED
        BY <1>2, <2>3, <2>5, <3>2, <4>1, EnqueueAdds
    <3>3. QED
      BY <3>1, <3>2
  <2>8. Adds(p, t, o)
    <3>1. /\ Content(o.pool)
          /\ o.pool.all \subseteq p.all \cup {t} /\ o.pool.cur = p.cur
          /\ o.event \subseteq o.pool.pending \cap {t} /\ o.dirty \subseteq {t.from}
          /\ o.pool.pending \subseteq p.pending \cup o.event
      BY <2>2, <2>7 DEF Adds
    <3>2. \A u \in o.pool.queue :
            Stuck(o.pool, u) =>
              u.from \in o.dirty \/ \E v \in p.queue : v.from = u.from /\ Stuck(p, v)
      BY <2>4, <2>7, Zenon DEF Adds
    <3>3. \A u \in o.pool.all :
            u.from \in o.pool.locals /\ u \notin o.pool.journal =>
              u \in p.all /\ (u.from \in p.locals => u \notin p.journal)
      BY <2>2, <2>7 DEF Adds
    <3>4. QED
      BY <3>1, <3>2, <3>3 DEF Adds
  <2>9. RoomKept(o.pool)
    <3> DEFINE r == o.pool
    <3>1. r.all \subseteq q.all \cup {t} /\ (isLocal /\ q.all = q.own => r.all = r.own)
      BY <2>7 DEF Adds
    <3> HIDE DEF r
    <3>2. RoomKept(r)
      BY <1>2, <1>4, <2>2, <3>1, RoomMade
    <3>3. QED
      BY <3>2 DEF r
  <2>10. QED
    BY <2>8, <2>9
<1>5. QED
  BY <1>1, <1>3, <1>4

----------------------------------------------------------------------------
(* promoteExecutables *)

\* Below a pending transaction that the state has not passed, all nonces are pending.
Filled(p) ==
  \A t \in p.pending : \A m \in StateNonce(p, t.from) .. t.nonce :
    \E u \in p.pending : u.from = t.from /\ u.nonce = m

\* The account's next one by the state is pending and will not be demoted.
Safe(p, a) == \E u \in p.pending : u.from = a /\ u.nonce = StateNonce(p, a) /\ Payable(p, u)

\* What the reorganisation starts from: the pool as it was, or with a newer state
Start(p) ==
  /\ Shape(p) /\ Filled(p) /\ NoncesFilled(p)
  /\ \A a \in Account : p.nonce[a] = StateNonce(p, a) \/ Safe(p, a)

\* What promotion leaves
Fit(p) ==
  /\ Shape(p) /\ Filled(p)
  /\ \A a \in Account : /\ StateNonce(p, a) <= p.nonce[a]
                        /\ p.nonce[a] = StateNonce(p, a) \/ Safe(p, a)

\* A queued transaction that could be processed, and that nothing safe is in front of
Loose(p, t) == t.nonce = p.nonce[t.from] /\ ~Safe(p, t.from)

Live(p, a) == {t \in Of(p.queue, a) : StateNonce(p, a) <= t.nonce /\ Payable(p, t)}

ReadyOf(p, a) == Ready(Live(p, a), p.nonce[a])

RestOf(p, a) == IF a \in p.locals THEN Live(p, a) \ ReadyOf(p, a)
                                  ELSE Lowest(Live(p, a) \ ReadyOf(p, a), AccountQueue)

\* A pool that is in order is one to start from.
LEMMA ContentStarts ==
  ASSUME NEW p, Content(p)
  PROVE  Start(p)
<1>1. Shape(p) /\ Executable(p) /\ NoncesFilled(p) /\ p \in Pool
  BY DEF Content, Shape
<1>2. ASSUME NEW t \in p.pending, NEW m \in StateNonce(p, t.from) .. t.nonce
      PROVE  \E u \in p.pending : u.from = t.from /\ u.nonce = m
  <2>1. t.from \in Account /\ t.nonce \in Nat
    BY <1>1, Lists, TxType
  <2>2. StateNonce(p, t.from) \in Nat /\ p.nonce[t.from] \in Nat
    BY <1>1, <2>1, StateType
  <2>3. m \in StateNonce(p, t.from) .. p.nonce[t.from] - 1
    BY <1>1, <2>1, <2>2 DEF Executable
  <2>4. QED
    BY <1>1, <2>1, <2>3 DEF NoncesFilled
<1>3. ASSUME NEW a \in Account, p.nonce[a] # StateNonce(p, a)
      PROVE  Safe(p, a)
  <2>1. StateNonce(p, a) \in Nat /\ p.nonce[a] \in Nat /\ StateNonce(p, a) <= p.nonce[a]
    BY <1>1, StateType DEF NoncesFilled
  <2>2. StateNonce(p, a) \in StateNonce(p, a) .. p.nonce[a] - 1
    BY <1>3, <2>1
  <2>3. QED
    BY <1>1, <2>2 DEF NoncesFilled, Executable, Safe
<1>4. QED
  BY <1>1, <1>2, <1>3 DEF Start, Filled

\* And so it is after a reset to a state that is not older.
LEMMA ResetIs ==
  ASSUME NEW p, Content(p), NEW h \in HeadIndex, p.cur <= h
  PROVE  LET q == Reset(p, h)
         IN /\ Start(q) /\ Shrunk(p, q) /\ q.pending = p.pending /\ q.queue = p.queue
            /\ q.all = p.all /\ q.locals = p.locals /\ q.journal = p.journal /\ q.cur = h
            /\ \A a \in Account : q.nonce[a] = StateNonce(q, a)
<1> DEFINE q == Reset(p, h)
<1>1. Shape(p) /\ Executable(p) /\ NoncesFilled(p) /\ p \in Pool
  BY DEF Content, Shape
<1>2. [a \in Account |-> HeadState[h][a].nonce] \in [Account -> Nat]
  BY TxListsAssumption
<1>3. /\ q \in Pool /\ q.pending = p.pending /\ q.queue = p.queue /\ q.all = p.all
      /\ q.own = p.own /\ q.locals = p.locals /\ q.journal = p.journal /\ q.cur = h
      /\ q.nonce = [a \in Account |-> HeadState[h][a].nonce]
  BY <1>1, <1>2 DEF Reset, Pool
<1>4. \A a \in Account : q.nonce[a] = StateNonce(q, a)
  BY <1>3 DEF StateNonce
<1>5. \A a \in Account : /\ StateNonce(p, a) <= StateNonce(q, a)
                         /\ StateNonce(p, a) \in Nat /\ StateNonce(q, a) \in Nat
  <2>1. SUFFICES ASSUME NEW a \in Account
                 PROVE  /\ StateNonce(p, a) <= StateNonce(q, a)
                        /\ StateNonce(p, a) \in Nat /\ StateNonce(q, a) \in Nat
    OBVIOUS
  <2>2. p.cur \in HeadIndex
    BY <1>1, StateType
  <2>3. HeadState[p.cur][a].nonce <= HeadState[h][a].nonce
    BY <2>2, TxListsAssumption
  <2>4. QED
    BY <1>1, <1>3, <2>3, StateType DEF StateNonce
<1> HIDE DEF q
<1>6. Shape(q) /\ Shrunk(p, q)
  BY <1>1, <1>3 DEF Shape, Shrunk
<1>7. Filled(q)
  <2>1. SUFFICES ASSUME NEW t \in p.pending, NEW m \in StateNonce(q, t.from) .. t.nonce
                 PROVE  \E u \in p.pending : u.from = t.from /\ u.nonce = m
    BY <1>3 DEF Filled
  <2>2. t.from \in Account /\ t.nonce \in Nat
    BY <1>1, Lists, TxType
  <2>3. m \in StateNonce(p, t.from) .. t.nonce
    BY <1>5, <2>2
  <2>4. Filled(p)
    BY ContentStarts DEF Start
  <2>5. QED
    BY <2>3, <2>4 DEF Filled
<1>8. NoncesFilled(q)
  <2>1. ASSUME NEW a \in Account
        PROVE  /\ StateNonce(q, a) <= q.nonce[a]
               /\ StateNonce(q, a) .. q.nonce[a] - 1 = {}
    BY <1>4, <1>5
  <2>2. QED
    BY <2>1 DEF NoncesFilled
<1>9. Start(q)
  BY <1>4, <1>6, <1>7, <1>8 DEF Start
<1>10. QED
  BY <1>3, <1>4, <1>6, <1>9 DEF q

\* What is ready begins at the account's next nonce.
LEMMA ReadyIs ==
  ASSUME NEW p, Start(p), NEW a \in Account, NEW t \in Live(p, a)
  PROVE  /\ p.nonce[a] <= t.nonce
         /\ t \in ReadyOf(p, a) <=>
              \A m \in p.nonce[a] .. t.nonce : \E u \in Live(p, a) : u.nonce = m
<1> DEFINE S == {u.nonce : u \in Live(p, a)}
           first == Min(S)
<1>1. Shape(p) /\ NoncesFilled(p) /\ p \in Pool
  BY DEF Start, Shape
<1>2. p.nonce[a] \in Nat /\ StateNonce(p, a) \in Nat
  BY <1>1, StateType
<1>3. \A u \in Live(p, a) : u \in p.queue /\ u \in p.all /\ u.from = a /\ u.nonce \in Nat
  BY <1>1, Lists, TxType DEF Live, Of, Shape
<1>4. ASSUME NEW u \in Live(p, a)
      PROVE  p.nonce[a] <= u.nonce
  <2>1. SUFFICES ASSUME u.nonce < p.nonce[a]
                 PROVE  FALSE
    BY <1>2, <1>3
  <2>2. u.nonce \in StateNonce(p, a) .. p.nonce[a] - 1
    BY <1>2, <1>3, <2>1 DEF Live
  <2>3. PICK v \in p.pending : v.from = a /\ v.nonce = u.nonce
    BY <1>1, <2>2 DEF NoncesFilled
  <2>4. v = u
    BY <1>1, <1>3, <2>3 DEF Shape
  <2>5. QED
    BY <1>1, <1>3, <2>3, <2>4 DEF Shape
<1>5. first \in S /\ \A y \in S : first <= y
  <2>1. S \in SUBSET Nat /\ S # {}
    BY <1>3
  <2> HIDE DEF S
  <2>2. QED
    BY <2>1, MinIs
<1>6. PICK f \in Live(p, a) : f.nonce = first
  BY <1>5
<1>7. first \in Nat /\ p.nonce[a] <= first /\ \A u \in Live(p, a) : first <= u.nonce
  BY <1>3, <1>4, <1>5, <1>6
<1>8. t \in ReadyOf(p, a) <=>
        /\ first <= p.nonce[a]
        /\ \A m \in first .. t.nonce : \E u \in Live(p, a) : u.nonce = m
  BY DEF ReadyOf, Ready
<1> HIDE DEF first
<1>9. ASSUME t \in ReadyOf(p, a)
      PROVE  \A m \in p.nonce[a] .. t.nonce : \E u \in Live(p, a) : u.nonce = m
  <2>1. first = p.nonce[a]
    BY <1>2, <1>7, <1>8, <1>9
  <2>2. QED
    BY <1>8, <1>9, <2>1
<1>10. ASSUME \A m \in p.nonce[a] .. t.nonce : \E u \in Live(p, a) : u.nonce = m
       PROVE  t \in ReadyOf(p, a)
  <2>1. p.nonce[a] \in p.nonce[a] .. t.nonce
    BY <1>2, <1>3, <1>4
  <2>2. PICK w \in Live(p, a) : w.nonce = p.nonce[a]
    BY <1>10, <2>1
  <2>3. first = p.nonce[a]
    BY <1>2, <1>7, <2>2
  <2>4. first <= p.nonce[a]
    BY <1>7, <2>3
  <2>5. \A m \in first .. t.nonce : \E u \in Live(p, a) : u.nonce = m
    BY <1>10, <2>3
  <2>6. QED
    BY <1>8, <2>4, <2>5, Zenon
<1>11. QED
  BY <1>4, <1>9, <1>10

\* What is promoted, what stays, what is lost and the next nonces
Up(p, A) == UNION {ReadyOf(p, a) : a \in A}

Stay(p, A) == UNION {RestOf(p, a) : a \in A}

Lost(p, A) == {t \in p.queue : t.from \in A} \ (Up(p, A) \cup Stay(p, A))

NextOf(p, A) ==
  [a \in Account |-> IF Of(Up(p, A), a) = {} THEN p.nonce[a]
                     ELSE Max({t.nonce : t \in Of(Up(p, A), a)}) + 1]

\* Where they come from
LEMMA UpIs ==
  ASSUME NEW p, Start(p), NEW A \in SUBSET Account
  PROVE  /\ Up(p, A) \in SUBSET p.queue /\ Stay(p, A) \in SUBSET p.queue
         /\ Up(p, A) \cap Stay(p, A) = {}
         /\ \A t \in Up(p, A) : t.from \in A /\ t \in ReadyOf(p, t.from) /\ t \in Live(p, t.from)
         /\ \A t \in Stay(p, A) :
              t.from \in A /\ t \in Live(p, t.from) /\ t \notin ReadyOf(p, t.from)
         /\ \A a \in A : \A t \in ReadyOf(p, a) : t \in Up(p, A) /\ t.from = a
<1>1. \A a \in A : \A t \in ReadyOf(p, a) : t \in Live(p, a)
  BY DEF ReadyOf, Ready
<1>2. \A a \in A : \A t \in RestOf(p, a) : t \in Live(p, a) /\ t \notin ReadyOf(p, a)
  BY DEF RestOf, Lowest
<1>3. \A a \in A : \A t \in Live(p, a) : t.from = a /\ t \in p.queue
  BY DEF Live, Of
<1>4. \A t \in Up(p, A) : t.from \in A /\ t \in ReadyOf(p, t.from) /\ t \in Live(p, t.from)
  BY <1>1, <1>3 DEF Up
<1>5. \A t \in Stay(p, A) : t.from \in A /\ t \in Live(p, t.from) /\ t \notin ReadyOf(p, t.from)
  BY <1>2, <1>3 DEF Stay
<1>6. \A a \in A : \A t \in ReadyOf(p, a) : t \in Up(p, A) /\ t.from = a
  BY <1>1, <1>3 DEF Up
<1>7. QED
  BY <1>3, <1>4, <1>5, <1>6

\* Promoted ones follow the next nonce without a gap, and the new next nonce follows them.
LEMMA NextIs ==
  ASSUME NEW p, Start(p), NEW A \in SUBSET Account, NEW a \in Account
  PROVE  /\ NextOf(p, A)[a] \in Nat
         /\ (\A t \in Up(p, A) : t.from # a) => NextOf(p, A)[a] = p.nonce[a]
         /\ \A t \in Up(p, A) : t.from = a =>
              /\ p.nonce[a] <= t.nonce /\ t.nonce < NextOf(p, A)[a]
              /\ \A m \in p.nonce[a] .. t.nonce :
                   \E u \in Up(p, A) : u.from = a /\ u.nonce = m
<1> DEFINE S == {t.nonce : t \in Of(Up(p, A), a)}
<1>1. Shape(p) /\ p \in Pool
  BY DEF Start, Shape
<1>2. p.nonce[a] \in Nat
  BY <1>1, StateType
<1>3. /\ Up(p, A) \in SUBSET p.queue /\ p.queue \in SUBSET Tx /\ IsFiniteSet(p.queue)
      /\ \A t \in Up(p, A) : t.from \in A /\ t \in ReadyOf(p, t.from) /\ t \in Live(p, t.from)
      /\ \A b \in A : \A t \in ReadyOf(p, b) : t \in Up(p, A) /\ t.from = b
  BY <1>1, UpIs, Lists
<1>4. \A t \in Up(p, A) : t.nonce \in Nat
  BY <1>3, TxType
<1>5. CASE \A t \in Up(p, A) : t.from # a
  <2>1. Of(Up(p, A), a) = {}
    BY <1>5 DEF Of
  <2>2. NextOf(p, A)[a] = p.nonce[a]
    BY <2>1 DEF NextOf
  <2>3. QED
    BY <1>2, <1>5, <2>2
<1>6. CASE \E t \in Up(p, A) : t.from = a
  <2>1. Of(Up(p, A), a) # {} /\ S \in SUBSET Nat /\ S # {}
    BY <1>4, <1>6 DEF Of
  <2>2. IsFiniteSet(S)
    <3>1. Of(Up(p, A), a) \in SUBSET p.queue
      BY <1>3 DEF Of
    <3>2. IsFiniteSet(Of(Up(p, A), a))
      BY <1>3, <3>1, FS_Subset
    <3>3. QED
      BY <3>2, NoncesFinite
  <2>3. NextOf(p, A)[a] = Max(S) + 1
    BY <2>1 DEF NextOf
  <2>4. Max(S) \in Nat /\ \A y \in S : Max(S) >= y
    <3> HIDE DEF S
    <3>1. QED
      BY <2>1, <2>2, MaxIs
  <2>5. \A t \in Up(p, A) : t.from = a => t.nonce \in S
    BY DEF Of
  <2> HIDE DEF S
  <2>6. NextOf(p, A)[a] \in Nat /\ \A t \in Up(p, A) : t.from = a => t.nonce < NextOf(p, A)[a]
    BY <1>4, <2>3, <2>4, <2>5
  <2>7. ASSUME NEW t \in Up(p, A), t.from = a
        PROVE  /\ p.nonce[a] <= t.nonce
               /\ \A m \in p.nonce[a] .. t.nonce :
                    \E u \in Up(p, A) : u.from = a /\ u.nonce = m
    <3>1. t \in Live(p, a) /\ t \in ReadyOf(p, a) /\ a \in A
      BY <1>3, <2>7
    <3>2. /\ p.nonce[a] <= t.nonce
          /\ \A m \in p.nonce[a] .. t.nonce : \E u \in Live(p, a) : u.nonce = m
      BY <3>1, ReadyIs
    <3>3. ASSUME NEW m \in p.nonce[a] .. t.nonce
          PROVE  \E u \in Up(p, A) : u.from = a /\ u.nonce = m
      <4>1. PICK u \in Live(p, a) : u.nonce = m
        BY <3>2
      <4>2. \A k \in p.nonce[a] .. u.nonce : k \in p.nonce[a] .. t.nonce
        BY <1>2, <1>4, <4>1
      <4>3. u \in ReadyOf(p, a)
        BY <3>2, <4>1, <4>2, ReadyIs
      <4>4. QED
        BY <1>3, <3>1, <4>1, <4>3
    <3>4. QED
      BY <3>2, <3>3
  <2>8. QED
    BY <1>6, <2>6, <2>7
<1>7. QED
  BY <1>5, <1>6

\* The fields after promotion: nothing pending is in the way.
LEMMA PromoteIs ==
  ASSUME NEW p, Start(p), NEW A \in SUBSET Account
  PROVE  LET q == Promote(p, A)
         IN /\ q \in Pool
            /\ q.pending = p.pending \cup Up(p, A)
            /\ q.queue = {t \in p.queue : t.from \notin A} \cup Stay(p, A)
            /\ q.all = p.all \ Lost(p, A) /\ q.own = p.own \ Lost(p, A)
            /\ q.nonce = NextOf(p, A) /\ q.locals = p.locals /\ q.cur = p.cur
            /\ q.journal = p.journal
<1> DEFINE won(a)   == {t \in ReadyOf(p, a) : Inserts(p.pending, t)}
           up       == UNION {won(a) : a \in A}
           lost     == {t \in p.queue : t.from \in A} \ (up \cup Stay(p, A))
           beaten   == UNION {Rival(p.pending, t) : t \in up}
           f == Forget(p, lost \cup beaten)
           q == [f EXCEPT
                   !.pending = (@ \ beaten) \cup up,
                   !.queue = {t \in @ : t.from \notin A} \cup Stay(p, A),
                   !.nonce = [a \in Account |-> IF Of(up, a) = {} THEN @[a]
                                                ELSE Max({t.nonce : t \in Of(up, a)}) + 1]]
<1>1. Promote(p, A) = q
  BY DEF Promote, Live, ReadyOf, RestOf, Stay
<1>2. Shape(p) /\ p \in Pool /\ p.pending \in SUBSET p.all /\ p.queue \in SUBSET p.all
  BY DEF Start, Shape
<1>3. /\ Up(p, A) \in SUBSET p.queue /\ Stay(p, A) \in SUBSET p.queue
      /\ \A a \in A : \A t \in ReadyOf(p, a) : t \in Up(p, A) /\ t.from = a
  BY UpIs
<1>4. \A t \in Up(p, A) : Rival(p.pending, t) = {}
  <2>1. SUFFICES ASSUME NEW t \in Up(p, A)
                 PROVE  Rival(p.pending, t) = {}
    OBVIOUS
  <2>2. t \in p.all /\ t \notin p.pending
    BY <1>2, <1>3 DEF Shape
  <2>3. Rival(p.pending, t) = p.pending \cap {t}
    BY <1>2, <2>2, RivalIs
  <2>4. QED
    BY <2>2, <2>3
<1>5. \A a \in A : won(a) = ReadyOf(p, a)
  BY <1>3, <1>4 DEF Inserts
<1>6. up = Up(p, A)
  <2>1. {won(a) : a \in A} = {ReadyOf(p, a) : a \in A}
    BY <1>5
  <2>2. QED
    BY <2>1 DEF Up
<1>7. beaten = {}
  BY <1>4, <1>6
<1>8. lost \cup beaten = Lost(p, A)
  BY <1>6, <1>7 DEF Lost
<1>9. /\ f \in Pool /\ f.all = p.all \ Lost(p, A) /\ f.own = p.own \ Lost(p, A)
      /\ f.pending = p.pending /\ f.queue = p.queue /\ f.locals = p.locals
      /\ f.nonce = p.nonce /\ f.cur = p.cur /\ f.journal = p.journal
  <2>1. f = Forget(p, Lost(p, A))
    BY <1>8
  <2>2. QED
    BY <1>2, <2>1, ForgetIs
<1>10. NextOf(p, A) \in [Account -> Nat]
  <2>1. \A a \in Account : NextOf(p, A)[a] \in Nat
    BY NextIs
  <2>2. QED
    BY <2>1 DEF NextOf
<1>11. q = [f EXCEPT !.pending = p.pending \cup Up(p, A),
                     !.queue = {t \in p.queue : t.from \notin A} \cup Stay(p, A),
                     !.nonce = NextOf(p, A)]
  <2>1. (f.pending \ beaten) \cup up = p.pending \cup Up(p, A)
    BY <1>6, <1>7, <1>9
  <2>2. {t \in f.queue : t.from \notin A} = {t \in p.queue : t.from \notin A}
    BY <1>9
  <2>3. [a \in Account |-> IF Of(up, a) = {} THEN f.nonce[a]
                           ELSE Max({t.nonce : t \in Of(up, a)}) + 1] = NextOf(p, A)
    BY <1>6, <1>9 DEF NextOf
  <2>4. q = [f EXCEPT
               !.pending = (f.pending \ beaten) \cup up,
               !.queue = {t \in f.queue : t.from \notin A} \cup Stay(p, A),
               !.nonce = [a \in Account |-> IF Of(up, a) = {} THEN f.nonce[a]
                                            ELSE Max({t.nonce : t \in Of(up, a)}) + 1]]
    OBVIOUS
  <2> HIDE DEF f, up, beaten, q
  <2>5. QED
    BY <2>1, <2>2, <2>3, <2>4
<1> HIDE DEF f, q
<1>12. /\ p.pending \cup Up(p, A) \in SUBSET Tx
       /\ {t \in p.queue : t.from \notin A} \cup Stay(p, A) \in SUBSET Tx
  BY <1>2, <1>3, Lists
<1>13. /\ q \in Pool /\ q.pending = p.pending \cup Up(p, A)
       /\ q.queue = {t \in p.queue : t.from \notin A} \cup Stay(p, A)
       /\ q.nonce = NextOf(p, A) /\ q.all = f.all /\ q.own = f.own /\ q.locals = f.locals
       /\ q.cur = f.cur /\ q.journal = f.journal
  BY <1>9, <1>10, <1>11, <1>12 DEF Pool
<1>14. /\ q \in Pool /\ q.pending = p.pending \cup Up(p, A)
       /\ q.queue = {t \in p.queue : t.from \notin A} \cup Stay(p, A)
       /\ q.all = p.all \ Lost(p, A) /\ q.own = p.own \ Lost(p, A)
       /\ q.nonce = NextOf(p, A) /\ q.locals = p.locals /\ q.cur = p.cur
       /\ q.journal = p.journal
  BY <1>9, <1>13
<1>15. QED
  BY <1>1, <1>14 DEF q

\* Promotion keeps lists and lookup equal, and what is pending filled. What it leaves in the
\* queue of an account that it is for has something safe in front of it.
LEMMA PromoteFit ==
  ASSUME NEW p, Start(p), NEW A \in SUBSET Account
  PROVE  LET q == Promote(p, A)
         IN /\ Fit(q) /\ Shrunk(p, q) /\ p.pending \subseteq q.pending
            /\ q.cur = p.cur /\ q.locals = p.locals /\ q.journal = p.journal
            /\ \A t \in q.pending \ p.pending : Payable(q, t) /\ StateNonce(q, t.from) <= t.nonce
            /\ \A t \in q.queue : Loose(q, t) => /\ t \in p.queue /\ t.from \notin A
                                                 /\ q.nonce[t.from] = p.nonce[t.from]
                                                 /\ Of(p.pending, t.from) \subseteq Of(q.pending, t.from)
<1> DEFINE q == Promote(p, A)
           U == Up(p, A)
           W == Stay(p, A)
<1>1. /\ Shape(p) /\ Filled(p) /\ NoncesFilled(p) /\ p \in Pool
      /\ \A a \in Account : p.nonce[a] = StateNonce(p, a) \/ Safe(p, a)
  BY DEF Start, Shape
<1>2. /\ q \in Pool
      /\ q.pending = p.pending \cup U
      /\ q.queue = {t \in p.queue : t.from \notin A} \cup W
      /\ q.all = p.all \ Lost(p, A) /\ q.own = p.own \ Lost(p, A)
      /\ q.nonce = NextOf(p, A) /\ q.locals = p.locals /\ q.cur = p.cur
      /\ q.journal = p.journal
  BY PromoteIs
<1>3. /\ U \in SUBSET p.queue /\ W \in SUBSET p.queue
      /\ U \cap W = {}
      /\ \A t \in U : t.from \in A /\ t \in ReadyOf(p, t.from) /\ t \in Live(p, t.from)
      /\ \A t \in W : t.from \in A /\ t \in Live(p, t.from) /\ t \notin ReadyOf(p, t.from)
  BY UpIs
<1>4. Lost(p, A) = {t \in p.queue : t.from \in A} \ (U \cup W)
  BY DEF Lost
<1>5. \A a \in Account :
        /\ q.nonce[a] \in Nat
        /\ (\A t \in U : t.from # a) => q.nonce[a] = p.nonce[a]
        /\ \A t \in U : t.from = a =>
             /\ p.nonce[a] <= t.nonce /\ t.nonce < q.nonce[a]
             /\ \A m \in p.nonce[a] .. t.nonce : \E u \in U : u.from = a /\ u.nonce = m
  BY <1>2, NextIs
<1> HIDE DEF q, U, W
<1>6. /\ \A a : StateNonce(q, a) = StateNonce(p, a)
      /\ \A t : Payable(q, t) <=> Payable(p, t)
  BY <1>2, SameState
<1>7. \A a \in Account : StateNonce(p, a) \in Nat /\ p.nonce[a] \in Nat /\ StateNonce(p, a) <= p.nonce[a]
  BY <1>1, StateType DEF NoncesFilled
<1>8. \A t \in p.all : t.from \in Account /\ t.nonce \in Nat
  BY <1>1, Lists, TxType
<1>9. /\ IsFiniteSet(p.all) /\ p.all = p.pending \cup p.queue /\ p.pending \cap p.queue = {}
      /\ \A t \in p.all, u \in p.all : t.from = u.from /\ t.nonce = u.nonce => t = u
      /\ p.own \subseteq p.all
  BY <1>1 DEF Shape
<1>10. Shape(q) /\ Shrunk(p, q)
  <2>1. IsFiniteSet(q.all)
    BY <1>2, <1>9, FS_Subset
  <2>2. q.all = q.pending \cup q.queue
    BY <1>2, <1>3, <1>4, <1>9
  <2>3. q.pending \cap q.queue = {}
    BY <1>2, <1>3, <1>9
  <2>4. q.own \subseteq q.all /\ q.own = p.own \cap q.all /\ q.all \subseteq p.all
    BY <1>2, <1>9
  <2>5. \A t \in q.all, u \in q.all : t.from = u.from /\ t.nonce = u.nonce => t = u
    BY <1>9, <2>4
  <2>6. QED
    BY <1>2, <2>1, <2>2, <2>3, <2>4, <2>5 DEF Shape, Shrunk
<1>11. \A t \in U : Payable(p, t) /\ StateNonce(p, t.from) <= t.nonce /\ t \in p.all
  BY <1>3, <1>9 DEF Live
<1>12. Filled(q)
  <2>1. SUFFICES ASSUME NEW t \in q.pending, NEW m \in StateNonce(p, t.from) .. t.nonce
                 PROVE  \E u \in q.pending : u.from = t.from /\ u.nonce = m
    BY <1>6 DEF Filled
  <2>2. CASE t \in p.pending
    BY <1>1, <1>2, <2>2 DEF Filled
  <2>3. CASE t \in U /\ m < p.nonce[t.from]
    <3>1. t.from \in Account /\ t.nonce \in Nat
      BY <1>8, <1>11, <2>3
    <3>2. m \in StateNonce(p, t.from) .. p.nonce[t.from] - 1
      BY <1>7, <2>3, <3>1
    <3>3. QED
      BY <1>1, <1>2, <3>1, <3>2 DEF NoncesFilled
  <2>4. CASE t \in U /\ ~(m < p.nonce[t.from])
    <3>1. t.from \in Account /\ t.nonce \in Nat
      BY <1>8, <1>11, <2>4
    <3>2. m \in p.nonce[t.from] .. t.nonce
      BY <1>7, <2>4, <3>1
    <3>3. QED
      BY <1>2, <1>5, <2>4, <3>1, <3>2
  <2>5. QED
    BY <1>2, <2>2, <2>3, <2>4
<1>13. ASSUME NEW a \in Account
       PROVE  /\ StateNonce(q, a) <= q.nonce[a]
              /\ q.nonce[a] = StateNonce(q, a) \/ Safe(q, a)
  <2>1. Safe(p, a) => Safe(q, a)
    BY <1>2, <1>6 DEF Safe
  <2>2. CASE \A t \in U : t.from # a
    BY <1>1, <1>5, <1>6, <1>7, <2>1, <2>2
  <2>3. ASSUME NEW t \in U, t.from = a
        PROVE  StateNonce(p, a) <= q.nonce[a] /\ Safe(q, a)
    <3>1. t.nonce \in Nat /\ p.nonce[a] <= t.nonce /\ t.nonce < q.nonce[a] /\ q.nonce[a] \in Nat
      BY <1>5, <1>8, <1>11, <2>3
    <3>2. StateNonce(p, a) <= q.nonce[a]
      BY <1>7, <3>1
    <3>3. CASE p.nonce[a] = StateNonce(p, a)
      <4>1. StateNonce(p, a) \in p.nonce[a] .. t.nonce
        BY <1>7, <3>1, <3>3
      <4>2. PICK u \in U : u.from = a /\ u.nonce = StateNonce(p, a)
        BY <1>5, <2>3, <4>1
      <4>3. QED
        BY <1>2, <1>6, <1>11, <3>2, <4>2 DEF Safe
    <3>4. QED
      BY <1>1, <2>1, <3>2, <3>3
  <2>4. QED
    BY <1>6, <2>2, <2>3
<1>14. Fit(q)
  BY <1>10, <1>12, <1>13 DEF Fit
<1>15. \A t \in q.pending \ p.pending : Payable(q, t) /\ StateNonce(q, t.from) <= t.nonce
  BY <1>2, <1>6, <1>11
<1>16. ASSUME NEW t \in q.queue, Loose(q, t)
       PROVE  /\ t \in p.queue /\ t.from \notin A /\ q.nonce[t.from] = p.nonce[t.from]
              /\ Of(p.pending, t.from) \subseteq Of(q.pending, t.from)
  <2>1. t \in p.queue /\ t.from \in Account /\ t.nonce \in Nat
    BY <1>2, <1>3, <1>8, <1>9
  <2>2. t.nonce = q.nonce[t.from] /\ q.nonce[t.from] = StateNonce(q, t.from)
    BY <1>13, <1>16, <2>1 DEF Loose
  <2>3. \A u \in U : u.from # t.from
    <3>1. SUFFICES ASSUME NEW u \in U, u.from = t.from
                   PROVE  FALSE
      OBVIOUS
    <3>2. u.nonce \in Nat /\ p.nonce[t.from] <= u.nonce /\ u.nonce < q.nonce[t.from]
      BY <1>5, <1>8, <1>11, <2>1, <3>1
    <3>3. QED
      BY <1>6, <1>7, <2>1, <2>2, <3>2
  <2>4. q.nonce[t.from] = p.nonce[t.from]
    BY <1>5, <2>1, <2>3
  <2>5. t.from \notin A
    <3>1. SUFFICES ASSUME t.from \in A
                   PROVE  FALSE
      OBVIOUS
    <3>2. t \in W /\ t \in Live(p, t.from) /\ t \notin ReadyOf(p, t.from)
      BY <1>2, <1>3, <3>1
    <3>3. \A m \in p.nonce[t.from] .. t.nonce : m = t.nonce
      BY <1>7, <2>1, <2>2, <2>4
    <3>4. \A m \in p.nonce[t.from] .. t.nonce : \E u \in Live(p, t.from) : u.nonce = m
      BY <3>2, <3>3
    <3>5. QED
      BY <2>1, <3>2, <3>4, ReadyIs
  <2>6. QED
    BY <1>2, <2>1, <2>4, <2>5 DEF Of
<1>17. QED
  BY <1>2, <1>10, <1>14, <1>15, <1>16 DEF q

----------------------------------------------------------------------------
(* demoteUnexecutables *)

\* What demotion leaves: all that is pending can be processed.
Even(p) ==
  /\ Shape(p) /\ Filled(p)
  /\ \A t \in p.pending : Payable(p, t) /\ StateNonce(p, t.from) <= t.nonce
  /\ \A a \in Account : /\ StateNonce(p, a) <= p.nonce[a]
                        /\ p.nonce[a] = StateNonce(p, a) \/ Of(p.pending, a) # {}

Old(p) == {t \in p.pending : t.nonce < StateNonce(p, t.from)}

Costly(p) == {t \in p.pending \ Old(p) : ~Payable(p, t)}

Behind(p) == {t \in p.pending \ (Old(p) \cup Costly(p)) :
                \E u \in Costly(p) : u.from = t.from /\ u.nonce < t.nonce}

Left(p) == p.pending \ (Old(p) \cup Costly(p) \cup Behind(p))

\* Nothing is left below one that is left but what is left too.
LEMMA LeftIs ==
  ASSUME NEW p, Fit(p), NEW t \in Left(p), NEW u \in p.pending, u.from = t.from,
         StateNonce(p, t.from) <= u.nonce, u.nonce <= t.nonce
  PROVE  u \in Left(p)
<1>1. Shape(p) /\ p \in Pool
  BY DEF Fit, Shape
<1>2. /\ \A v \in p.pending : v.nonce \in Nat /\ v.from \in Account /\ v \in p.all
      /\ t \in p.pending /\ t \notin Costly(p) /\ t \notin Behind(p) /\ t \notin Old(p)
  BY <1>1, Lists, TxType DEF Left, Shape
<1>3. StateNonce(p, u.from) \in Nat
  BY <1>1, <1>2, StateType
<1>4. \A v \in Costly(p) : v \in p.pending
  BY DEF Costly
<1>5. \A v \in Costly(p) : v.from = t.from => ~(v.nonce < t.nonce)
  BY <1>2 DEF Behind
<1>6. u \notin Old(p)
  BY <1>2, <1>3 DEF Old
<1>7. u \notin Costly(p)
  <2>1. SUFFICES ASSUME u \in Costly(p)
                 PROVE  FALSE
    OBVIOUS
  <2>2. u.nonce = t.nonce
    BY <1>2, <1>5, <2>1
  <2>3. u = t
    BY <1>1, <1>2, <2>2, Unique
  <2>4. QED
    BY <1>2, <2>1, <2>3
<1>8. u \notin Behind(p)
  <2>1. SUFFICES ASSUME NEW v \in Costly(p), v.from = u.from, v.nonce < u.nonce
                 PROVE  FALSE
    BY DEF Behind
  <2>2. v.nonce < t.nonce
    BY <1>2, <1>4, <2>1
  <2>3. QED
    BY <1>5, <2>1, <2>2
<1>9. QED
  BY <1>6, <1>7, <1>8 DEF Left

\* The fields after demotion: a gap in front is not possible.
LEMMA DemoteIs ==
  ASSUME NEW p, Fit(p)
  PROVE  LET q == Demote(p)
         IN /\ q \in Pool
            /\ q.pending = Left(p) /\ q.queue = p.queue \cup Behind(p)
            /\ q.all = p.all \ (Old(p) \cup Costly(p)) /\ q.own = p.own \ (Old(p) \cup Costly(p))
            /\ q.nonce = p.nonce /\ q.locals = p.locals /\ q.cur = p.cur
            /\ q.journal = p.journal
<1> DEFINE gapped == {t \in Left(p) : \A u \in Of(Left(p), t.from) : u.nonce # StateNonce(p, t.from)}
           gone == Old(p) \cup Costly(p)
           f == Forget(p, gone)
           m == [f EXCEPT !.pending = Left(p) \ gapped]
           q == Requeue(m, Behind(p) \cup gapped)
<1>1. Demote(p) = q
  BY DEF Demote, Old, Costly, Behind, Left
<1>2. /\ Shape(p) /\ Filled(p) /\ p \in Pool /\ p.pending \in SUBSET Tx
      /\ p.pending \in SUBSET p.all /\ p.queue \in SUBSET p.all
  BY Lists DEF Fit, Shape
<1>3. \A t \in p.pending : t.from \in Account /\ t.nonce \in Nat /\ StateNonce(p, t.from) \in Nat
  BY <1>2, TxType, StateType
<1>4. gapped = {}
  <2>1. SUFFICES ASSUME NEW t \in Left(p)
                 PROVE  \E u \in Of(Left(p), t.from) : u.nonce = StateNonce(p, t.from)
    OBVIOUS
  <2>2. t \in p.pending /\ StateNonce(p, t.from) <= t.nonce
    BY <1>3 DEF Left, Old
  <2>3. StateNonce(p, t.from) \in StateNonce(p, t.from) .. t.nonce
    BY <1>3, <2>2
  <2>4. PICK u \in p.pending : u.from = t.from /\ u.nonce = StateNonce(p, t.from)
    BY <1>2, <2>2, <2>3 DEF Filled
  <2>5. StateNonce(p, t.from) <= u.nonce /\ u.nonce <= t.nonce
    BY <1>3, <2>2, <2>4
  <2>6. u \in Left(p)
    BY <2>4, <2>5, LeftIs
  <2>7. QED
    BY <2>4, <2>6 DEF Of
<1>5. /\ f \in Pool /\ f.all = p.all \ gone /\ f.own = p.own \ gone /\ f.pending = p.pending
      /\ f.queue = p.queue /\ f.locals = p.locals /\ f.nonce = p.nonce /\ f.cur = p.cur
      /\ f.journal = p.journal
  BY <1>2, ForgetIs
<1>6. Left(p) \ gapped = Left(p) /\ Behind(p) \cup gapped = Behind(p)
  BY <1>4
<1> HIDE DEF f, gapped, gone
<1>7. Left(p) \in SUBSET Tx /\ Behind(p) \in SUBSET p.pending
  BY <1>2 DEF Left, Behind
<1>8. m = [f EXCEPT !.pending = Left(p)]
  BY <1>6
<1>9. /\ m \in Pool /\ m.all = p.all \ gone /\ m.own = p.own \ gone /\ m.pending = Left(p)
      /\ m.queue = p.queue /\ m.locals = p.locals /\ m.nonce = p.nonce /\ m.cur = p.cur
      /\ m.journal = p.journal
  <2> HIDE DEF m
  <2>1. QED
    BY <1>5, <1>7, <1>8 DEF Pool
<1> HIDE DEF m
<1>10. \A t \in Behind(p) : Rival(m.queue, t) = {}
  <2>1. SUFFICES ASSUME NEW t \in Behind(p)
                 PROVE  Rival(p.queue, t) = {}
    BY <1>9
  <2>2. t \in p.pending /\ t \in p.all
    BY <1>2, <1>7
  <2>3. Rival(p.queue, t) = p.queue \cap {t}
    BY <1>2, <2>2, RivalIs
  <2>4. QED
    BY <1>2, <2>2, <2>3 DEF Shape
<1>11. Behind(p) \in SUBSET Tx
  BY <1>2, <1>7
<1>12. q = Requeue(m, Behind(p))
  BY <1>6
<1> HIDE DEF q
<1>13. /\ q \in Pool /\ q.queue = m.queue \cup Behind(p) /\ q.pending = m.pending
       /\ q.all = m.all /\ q.own = m.own /\ q.locals = m.locals /\ q.nonce = m.nonce
       /\ q.cur = m.cur /\ q.journal = m.journal
  BY <1>9, <1>10, <1>11, <1>12, RequeueIs
<1>14. /\ q \in Pool
       /\ q.pending = Left(p) /\ q.queue = p.queue \cup Behind(p)
       /\ q.all = p.all \ gone /\ q.own = p.own \ gone
       /\ q.nonce = p.nonce /\ q.locals = p.locals /\ q.cur = p.cur
       /\ q.journal = p.journal
  BY <1>9, <1>13
<1>15. QED
  BY <1>1, <1>14 DEF gone

\* Demotion leaves what can be processed. It makes nothing executable that it queues.
LEMMA DemoteEven ==
  ASSUME NEW p, Fit(p)
  PROVE  LET q == Demote(p)
         IN /\ Even(q) /\ Shrunk(p, q) /\ q.pending \subseteq p.pending
            /\ q.cur = p.cur /\ q.locals = p.locals /\ q.journal = p.journal
            /\ \A t \in q.queue : Stuck(q, t) => t \in p.queue /\ Loose(p, t)
<1> DEFINE q == Demote(p)
           gone == Old(p) \cup Costly(p)
<1>1. /\ Shape(p) /\ Filled(p) /\ p \in Pool
      /\ \A a \in Account : /\ StateNonce(p, a) <= p.nonce[a]
                            /\ p.nonce[a] = StateNonce(p, a) \/ Safe(p, a)
  BY DEF Fit, Shape
<1>2. /\ q \in Pool
      /\ q.pending = Left(p) /\ q.queue = p.queue \cup Behind(p)
      /\ q.all = p.all \ gone /\ q.own = p.own \ gone
      /\ q.nonce = p.nonce /\ q.locals = p.locals /\ q.cur = p.cur
      /\ q.journal = p.journal
  BY DemoteIs
<1> HIDE DEF q
<1>3. /\ \A a : StateNonce(q, a) = StateNonce(p, a)
      /\ \A t : Payable(q, t) <=> Payable(p, t)
  BY <1>2, SameState
<1>4. \A t \in p.all : t.from \in Account /\ t.nonce \in Nat /\ StateNonce(p, t.from) \in Nat
  BY <1>1, Lists, TxType, StateType
<1>5. /\ IsFiniteSet(p.all) /\ p.all = p.pending \cup p.queue /\ p.pending \cap p.queue = {}
      /\ \A t \in p.all, u \in p.all : t.from = u.from /\ t.nonce = u.nonce => t = u
      /\ p.own \subseteq p.all
  BY <1>1 DEF Shape
<1>6. /\ Left(p) \subseteq p.pending /\ Behind(p) \subseteq p.pending /\ gone \subseteq p.pending
      /\ Left(p) \cap Behind(p) = {} /\ Left(p) \cup Behind(p) = p.pending \ gone
  BY DEF Left, Behind, Costly, Old
<1> HIDE DEF gone
<1>7. Shape(q) /\ Shrunk(p, q)
  <2>1. IsFiniteSet(q.all)
    BY <1>2, <1>5, FS_Subset
  <2>2. q.all = q.pending \cup q.queue /\ q.pending \cap q.queue = {}
    BY <1>2, <1>5, <1>6
  <2>3. q.own \subseteq q.all /\ q.own = p.own \cap q.all /\ q.all \subseteq p.all
    BY <1>2, <1>5
  <2>4. \A t \in q.all, u \in q.all : t.from = u.from /\ t.nonce = u.nonce => t = u
    BY <1>5, <2>3
  <2>5. QED
    BY <1>2, <2>1, <2>2, <2>3, <2>4 DEF Shape, Shrunk
<1>8. \A t \in Left(p) : Payable(p, t) /\ StateNonce(p, t.from) <= t.nonce
  BY <1>4, <1>5 DEF Left, Costly, Old
<1>9. Filled(q)
  <2>1. SUFFICES ASSUME NEW t \in Left(p), NEW m \in StateNonce(p, t.from) .. t.nonce
                 PROVE  \E u \in Left(p) : u.from = t.from /\ u.nonce = m
    BY <1>2, <1>3 DEF Filled
  <2>2. PICK u \in p.pending : u.from = t.from /\ u.nonce = m
    BY <1>1, <1>6 DEF Filled
  <2>3. StateNonce(p, t.from) <= u.nonce /\ u.nonce <= t.nonce
    BY <1>4, <1>5, <1>6, <2>2
  <2>4. u \in Left(p)
    BY <2>2, <2>3, LeftIs
  <2>5. QED
    BY <2>2, <2>4
<1>10. ASSUME NEW a \in Account, Safe(p, a)
       PROVE  Of(Left(p), a) # {}
  <2>1. PICK u \in p.pending : u.from = a /\ u.nonce = StateNonce(p, a) /\ Payable(p, u)
    BY <1>10 DEF Safe
  <2>2. u \notin Old(p) /\ u \notin Costly(p)
    BY <1>4, <1>5, <2>1 DEF Old, Costly
  <2>3. u \notin Behind(p)
    <3>1. SUFFICES ASSUME NEW v \in Costly(p), v.from = u.from, v.nonce < u.nonce
                   PROVE  FALSE
      BY DEF Behind
    <3>2. v \in p.pending /\ v \notin Old(p)
      BY DEF Costly
    <3>3. QED
      BY <1>4, <1>5, <2>1, <3>1, <3>2 DEF Old
  <2>4. QED
    BY <2>1, <2>2, <2>3 DEF Left, Of
<1>11. \A a \in Account : /\ StateNonce(q, a) <= q.nonce[a]
                          /\ q.nonce[a] = StateNonce(q, a) \/ Of(q.pending, a) # {}
  BY <1>1, <1>2, <1>3, <1>10
<1>12. Even(q)
  BY <1>2, <1>3, <1>7, <1>8, <1>9, <1>11 DEF Even
<1>13. ASSUME NEW t \in q.queue, Stuck(q, t)
       PROVE  t \in p.queue /\ Loose(p, t)
  <2>1. t.nonce = p.nonce[t.from] /\ Of(Left(p), t.from) = {}
    BY <1>2, <1>13 DEF Stuck
  <2>2. t.from \in Account
    BY <1>2, <1>4, <1>5, <1>6
  <2>3. ~Safe(p, t.from) /\ t.nonce = StateNonce(p, t.from)
    BY <1>1, <1>10, <2>1, <2>2
  <2>4. t \notin Behind(p)
    <3>1. SUFFICES ASSUME NEW v \in Costly(p), v.from = t.from, v.nonce < t.nonce
                   PROVE  FALSE
      BY DEF Behind
    <3>2. v \in p.pending /\ v \notin Old(p)
      BY DEF Costly
    <3>3. QED
      BY <1>4, <1>5, <2>3, <3>1, <3>2 DEF Old
  <2>5. QED
    BY <1>2, <2>1, <2>3, <2>4 DEF Loose
<1>14. QED
  BY <1>2, <1>6, <1>7, <1>12, <1>13 DEF q

----------------------------------------------------------------------------
(* truncatePending *)

\* txList.Cap keeps lower nonces before higher ones, something if there is something, and no
\* more than it is allowed to.
LEMMA LowestIs ==
  ASSUME NEW S \in SUBSET Tx, IsFiniteSet(S), NEW n \in Nat \ {0}
  PROVE  /\ Lowest(S, n) \subseteq S
         /\ \A t \in Lowest(S, n) : \A u \in S : u.nonce <= t.nonce => u \in Lowest(S, n)
         /\ S # {} => Lowest(S, n) # {}
         /\ (\A t \in S, u \in S : t.nonce = u.nonce => t = u) => Cardinality(Lowest(S, n)) <= n
<1> DEFINE Below(t) == {u \in S : u.nonce < t.nonce}
           L == Lowest(S, n)
<1>1. \A t \in S : t.nonce \in Nat
  BY TxType
<1>2. \A t : IsFiniteSet(Below(t)) /\ Cardinality(Below(t)) \in Nat
  <2>1. SUFFICES ASSUME NEW t
                 PROVE  IsFiniteSet(Below(t)) /\ Cardinality(Below(t)) \in Nat
    OBVIOUS
  <2>2. Below(t) \in SUBSET S
    OBVIOUS
  <2>3. IsFiniteSet(Below(t))
    BY <2>2, FS_Subset
  <2>4. QED
    BY <2>3, FS_CardinalityType
<1>3. L = {t \in S : Cardinality(Below(t)) < n}
  BY DEF Lowest
<1>4. ASSUME NEW t \in L, NEW u \in S, u.nonce <= t.nonce
      PROVE  u \in L
  <2>1. t \in S /\ Cardinality(Below(t)) < n
    BY <1>3
  <2>2. Below(u) \in SUBSET Below(t)
    BY <1>1, <1>4, <2>1
  <2>3. Cardinality(Below(u)) <= Cardinality(Below(t))
    <3> HIDE DEF Below
    <3>1. QED
      BY <1>2, <2>2, FS_Subset
  <2>4. Cardinality(Below(u)) < n
    <3> HIDE DEF Below
    <3>1. QED
      BY <1>2, <2>1, <2>3
  <2>5. QED
    BY <1>3, <2>4
<1>5. ASSUME S # {}
      PROVE  L # {}
  <2> DEFINE N == {t.nonce : t \in S}
  <2>1. N \in SUBSET Nat /\ N # {}
    BY <1>1, <1>5
  <2>2. PICK x \in N : \A y \in N : x <= y
    BY <2>1, LeastNat
  <2>3. PICK t \in S : t.nonce = x
    BY <2>2
  <2>4. Below(t) = {}
    BY <1>1, <2>2, <2>3
  <2>5. Cardinality(Below(t)) = 0
    BY <2>4, FS_EmptySet
  <2>6. 0 < n
    OBVIOUS
  <2>7. QED
    BY <1>3, <2>5, <2>6
<1>6. ASSUME \A t \in S, u \in S : t.nonce = u.nonce => t = u
      PROVE  Cardinality(L) <= n
  <2> DEFINE f == [t \in L |-> Cardinality(Below(t))]
             T == 0 .. n - 1
  <2>1. \A t \in L : t \in S /\ f[t] = Cardinality(Below(t)) /\ f[t] \in Nat /\ f[t] < n
    BY <1>2, <1>3
  <2>2. ASSUME NEW t \in L, NEW u \in L, t.nonce < u.nonce
        PROVE  f[t] # f[u]
    <3>1. t \notin Below(t) /\ Below(t) \cup {t} \in SUBSET Below(u)
      <4>1. t \in S /\ u \in S /\ t.nonce \in Nat /\ u.nonce \in Nat
        BY <1>1, <2>1
      <4>2. \A v \in Below(t) : v \in S /\ v.nonce < u.nonce
        BY <1>1, <2>2, <4>1
      <4>3. QED
        BY <2>2, <4>1, <4>2
    <3> DEFINE b == Below(t)
               c == Below(u)
               k == Cardinality(b \cup {t})
    <3>2. IsFiniteSet(b) /\ IsFiniteSet(c) /\ Cardinality(b) \in Nat /\ Cardinality(c) \in Nat
      BY <1>2
    <3>3. f[t] = Cardinality(b) /\ f[u] = Cardinality(c)
      BY <2>1
    <3> HIDE DEF b, c, k, f, Below
    <3>4. k = Cardinality(b) + 1
      BY <3>1, <3>2, FS_AddElement DEF b, k
    <3>5. k <= Cardinality(c)
      BY <3>1, <3>2, FS_Subset DEF b, c, k
    <3>6. QED
      BY <3>2, <3>3, <3>4, <3>5
  <2>3. \A t \in L, u \in L : f[t] = f[u] => t = u
    BY <1>1, <1>6, <2>1, <2>2
  <2>4. \A t \in L : f[t] \in T
    BY <2>1
  <2>5. f \in [L -> T]
    <3> HIDE DEF L, T
    <3>1. QED
      BY <2>4
  <2> HIDE DEF f
  <2>6. f \in Injection(L, T)
    BY <2>3, <2>5 DEF Injection, IsInjective
  <2>7. IsFiniteSet(T) /\ Cardinality(T) = n
    <3>1. 0 \in Int /\ n - 1 \in Int
      OBVIOUS
    <3>2. /\ IsFiniteSet(0 .. n - 1)
          /\ Cardinality(0 .. n - 1) = IF 0 > n - 1 THEN 0 ELSE (n - 1) - 0 + 1
      BY <3>1, FS_Interval
    <3>3. ~(0 > n - 1) /\ (n - 1) - 0 + 1 = n
      OBVIOUS
    <3>4. QED
      BY <3>2, <3>3
  <2> HIDE DEF L, T
  <2>8. Cardinality(L) <= Cardinality(T)
    BY <2>6, <2>7, FS_Injection
  <2>9. QED
    BY <2>7, <2>8
<1>7. QED
  BY <1>3, <1>4, <1>5, <1>6

Spammers(p) == {a \in Account \ p.locals : Cardinality(Of(p.pending, a)) > AccountSlots}

CutTo(p, n) ==
  UNION {IF a \in Spammers(p) THEN Lowest(Of(p.pending, a), n) ELSE Of(p.pending, a) : a \in Account}

\* What a cut leaves
LEMMA CutToIs ==
  ASSUME NEW p, Shape(p), NEW n \in Nat \ {0}
  PROVE  /\ CutTo(p, n) \in SUBSET p.pending
         /\ \A t \in CutTo(p, n) : \A u \in p.pending :
              u.from = t.from /\ u.nonce <= t.nonce => u \in CutTo(p, n)
         /\ \A t \in p.pending : \E u \in CutTo(p, n) : u.from = t.from
         /\ \A a \in Account \ p.locals :
              n = AccountSlots => Cardinality(Of(CutTo(p, n), a)) <= AccountSlots
<1>1. /\ p \in Pool /\ p.pending \in SUBSET Tx /\ IsFiniteSet(p.pending)
      /\ p.pending \in SUBSET p.all
  BY Lists DEF Shape
<1>2. \A t \in p.pending : t.from \in Account /\ t.nonce \in Nat
  BY <1>1, TxType
<1>3. \A a : /\ Of(p.pending, a) \in SUBSET Tx /\ IsFiniteSet(Of(p.pending, a))
             /\ Of(p.pending, a) \in SUBSET p.pending
             /\ \A t \in Of(p.pending, a), u \in Of(p.pending, a) : t.nonce = u.nonce => t = u
  <2>1. SUFFICES ASSUME NEW a
                 PROVE  /\ Of(p.pending, a) \in SUBSET Tx /\ IsFiniteSet(Of(p.pending, a))
                        /\ Of(p.pending, a) \in SUBSET p.pending
                        /\ \A t \in Of(p.pending, a), u \in Of(p.pending, a) :
                             t.nonce = u.nonce => t = u
    OBVIOUS
  <2>2. Of(p.pending, a) \in SUBSET p.pending
    BY DEF Of
  <2>3. IsFiniteSet(Of(p.pending, a))
    BY <1>1, <2>2, FS_Subset
  <2>4. \A t \in Of(p.pending, a), u \in Of(p.pending, a) : t.nonce = u.nonce => t = u
    BY <1>1, Unique DEF Of
  <2>5. QED
    BY <1>1, <2>2, <2>3, <2>4
<1>4. \A a : /\ Lowest(Of(p.pending, a), n) \subseteq Of(p.pending, a)
             /\ \A t \in Lowest(Of(p.pending, a), n) : \A u \in Of(p.pending, a) :
                  u.nonce <= t.nonce => u \in Lowest(Of(p.pending, a), n)
             /\ Of(p.pending, a) # {} => Lowest(Of(p.pending, a), n) # {}
             /\ Cardinality(Lowest(Of(p.pending, a), n)) <= n
  <2>1. SUFFICES ASSUME NEW a
                 PROVE  /\ Lowest(Of(p.pending, a), n) \subseteq Of(p.pending, a)
                        /\ \A t \in Lowest(Of(p.pending, a), n) : \A u \in Of(p.pending, a) :
                             u.nonce <= t.nonce => u \in Lowest(Of(p.pending, a), n)
                        /\ Of(p.pending, a) # {} => Lowest(Of(p.pending, a), n) # {}
                        /\ Cardinality(Lowest(Of(p.pending, a), n)) <= n
    OBVIOUS
  <2>2. QED
    BY <1>3, LowestIs
<1>5. \A t : t \in CutTo(p, n) <=>
               /\ t \in p.pending
               /\ t.from \in Spammers(p) => t \in Lowest(Of(p.pending, t.from), n)
  <2>1. \A a : \A t \in Lowest(Of(p.pending, a), n) : t \in p.pending /\ t.from = a
    BY <1>4 DEF Of
  <2>2. \A a : \A t : t \in Of(p.pending, a) <=> t \in p.pending /\ t.from = a
    BY DEF Of
  <2>3. QED
    BY <1>2, <2>1, <2>2 DEF CutTo
<1>6. ASSUME NEW t \in CutTo(p, n), NEW u \in p.pending, u.from = t.from, u.nonce <= t.nonce
      PROVE  u \in CutTo(p, n)
  <2>1. u \in Of(p.pending, t.from)
    BY <1>6 DEF Of
  <2>2. QED
    BY <1>4, <1>5, <1>6, <2>1
<1>7. ASSUME NEW t \in p.pending
      PROVE  \E u \in CutTo(p, n) : u.from = t.from
  <2>1. CASE t.from \notin Spammers(p)
    BY <1>5, <2>1
  <2>2. CASE t.from \in Spammers(p)
    <3>1. Of(p.pending, t.from) # {}
      BY DEF Of
    <3>2. PICK u \in Lowest(Of(p.pending, t.from), n) : TRUE
      BY <1>4, <3>1
    <3>3. u \in p.pending /\ u.from = t.from
      BY <1>4 DEF Of
    <3>4. u \in CutTo(p, n)
      BY <1>5, <3>2, <3>3
    <3>5. QED
      BY <3>3, <3>4
  <2>3. QED
    BY <2>1, <2>2
<1>8. ASSUME NEW a \in Account \ p.locals, n = AccountSlots
      PROVE  Cardinality(Of(CutTo(p, n), a)) <= AccountSlots
  <2> DEFINE S == Of(p.pending, a)
             L == Lowest(S, n)
             C == Of(CutTo(p, n), a)
  <2>1. /\ IsFiniteSet(S) /\ IsFiniteSet(L) /\ L \subseteq S /\ Cardinality(L) <= n
    <3>1. L \in SUBSET S /\ IsFiniteSet(S)
      BY <1>3, <1>4
    <3>2. IsFiniteSet(L)
      BY <3>1, FS_Subset
    <3>3. QED
      BY <1>4, <3>1, <3>2
  <2>2. AccountSlots \in Nat
    BY TxListsAssumption
  <2>3. CASE a \in Spammers(p)
    <3>1. C \in SUBSET L
      BY <1>5, <2>3 DEF Of
    <3> HIDE DEF L, C
    <3>2. IsFiniteSet(C) /\ Cardinality(C) <= Cardinality(L)
      BY <2>1, <3>1, FS_Subset
    <3>3. Cardinality(C) \in Nat /\ Cardinality(L) \in Nat
      BY <2>1, <3>2, FS_CardinalityType
    <3>4. Cardinality(C) <= AccountSlots
      BY <1>8, <2>1, <2>2, <3>2, <3>3
    <3>5. QED
      BY <3>4 DEF C
  <2>4. CASE a \notin Spammers(p)
    <3>1. C \in SUBSET S
      BY <1>5 DEF Of
    <3>2. ~(Cardinality(S) > AccountSlots)
      BY <2>4 DEF Spammers
    <3> HIDE DEF S, C
    <3>3. IsFiniteSet(C) /\ Cardinality(C) <= Cardinality(S)
      BY <2>1, <3>1, FS_Subset
    <3>4. Cardinality(C) \in Nat /\ Cardinality(S) \in Nat
      BY <2>1, <3>3, FS_CardinalityType
    <3>5. Cardinality(C) <= AccountSlots
      BY <2>2, <3>2, <3>3, <3>4
    <3>6. QED
      BY <3>5 DEF C
  <2>5. QED
    BY <2>3, <2>4
<1>9. CutTo(p, n) \in SUBSET p.pending
  BY <1>5
<1>10. QED
  BY <1>6, <1>7, <1>8, <1>9

\* truncatePending cuts to some level, by which what is pending fits, or to the lowest.
LEMMA TruncatePendingIs ==
  ASSUME NEW p, Shape(p)
  PROVE  \E n \in Nat \ {0} :
           LET q == TruncatePending(p)
               gone == p.pending \ CutTo(p, n)
           IN /\ n = AccountSlots \/ Cardinality(CutTo(p, n)) <= GlobalSlots
              /\ q \in Pool
              /\ q.pending = CutTo(p, n) /\ q.queue = p.queue
              /\ q.all = p.all \ gone /\ q.own = p.own \ gone
              /\ q.nonce = LowBy(p, gone) /\ q.locals = p.locals /\ q.cur = p.cur
              /\ q.journal = p.journal
<1> DEFINE fits == {k \in AccountSlots .. Cardinality(p.pending) :
                      Cardinality(CutTo(p, k)) <= GlobalSlots}
           n == IF fits = {} THEN AccountSlots ELSE Max(fits)
           left == CutTo(p, n)
           gone == p.pending \ left
           f == Forget(p, gone)
           q == [f EXCEPT
                   !.pending = left,
                   !.nonce = [a \in Account |-> Min({t.nonce : t \in Of(gone, a)} \cup {@[a]})]]
<1>1. TruncatePending(p) = q
  BY DEF TruncatePending, CutTo, Spammers
<1>2. p \in Pool /\ IsFiniteSet(p.pending) /\ p.pending \in SUBSET Tx
  BY Lists DEF Shape
<1>3. AccountSlots \in Nat \ {0} /\ Cardinality(p.pending) \in Nat
  BY <1>2, TxListsAssumption, FS_CardinalityType
<1>4. n \in Nat \ {0} /\ (n = AccountSlots \/ Cardinality(CutTo(p, n)) <= GlobalSlots)
  <2>1. CASE fits = {}
    BY <1>3, <2>1
  <2>2. CASE fits # {}
    <3>1. fits \in SUBSET (AccountSlots .. Cardinality(p.pending))
      OBVIOUS
    <3>2. \A k \in fits : k \in Nat \ {0} /\ Cardinality(CutTo(p, k)) <= GlobalSlots
      BY <1>3
    <3> HIDE DEF fits
    <3>3. IsFiniteSet(AccountSlots .. Cardinality(p.pending))
      BY <1>3, FS_Interval
    <3>4. IsFiniteSet(fits)
      BY <3>1, <3>3, FS_Subset
    <3>5. fits \in SUBSET Nat
      BY <3>2
    <3>6. Max(fits) \in fits
      BY <2>2, <3>4, <3>5, MaxIs
    <3>7. QED
      BY <2>2, <3>2, <3>6
  <2>3. QED
    BY <2>1, <2>2
<1> HIDE DEF n
<1>5. left \in SUBSET p.pending
  BY <1>4, CutToIs
<1> HIDE DEF left
<1>6. gone \cap p.pending = gone
  OBVIOUS
<1>7. /\ f \in Pool /\ f.all = p.all \ gone /\ f.own = p.own \ gone /\ f.pending = p.pending
      /\ f.queue = p.queue /\ f.locals = p.locals /\ f.nonce = p.nonce /\ f.cur = p.cur
      /\ f.journal = p.journal
  BY <1>2, ForgetIs
<1>8. LowBy(p, gone) = [a \in Account |-> Min({t.nonce : t \in Of(gone, a)} \cup {p.nonce[a]})]
  BY <1>6 DEF LowBy
<1>9. LowBy(p, gone) \in [Account -> Nat]
  <2>1. \A a \in Account : LowBy(p, gone)[a] \in Nat
    BY LowIs
  <2>2. QED
    BY <2>1 DEF LowBy
<1> HIDE DEF f, gone
<1>10. q = [f EXCEPT !.pending = left, !.nonce = LowBy(p, gone)]
  BY <1>7, <1>8
<1>11. left \in SUBSET Tx
  BY <1>2, <1>5
<1> HIDE DEF q
<1>12. /\ q \in Pool /\ q.pending = left /\ q.nonce = LowBy(p, gone)
       /\ q.queue = f.queue /\ q.all = f.all /\ q.own = f.own
       /\ q.locals = f.locals /\ q.cur = f.cur /\ q.journal = f.journal
  BY <1>7, <1>9, <1>10, <1>11 DEF Pool
<1>13. /\ q \in Pool
       /\ q.pending = left /\ q.queue = p.queue
       /\ q.all = p.all \ gone /\ q.own = p.own \ gone
       /\ q.nonce = LowBy(p, gone) /\ q.locals = p.locals /\ q.cur = p.cur
       /\ q.journal = p.journal
  BY <1>7, <1>12
<1>14. QED
  BY <1>1, <1>4, <1>13 DEF left, gone

\* What is pending fits, or all accounts that are not local are down to what they are allowed.
PendingLimit(p) ==
  \/ Cardinality(p.pending) <= GlobalSlots
  \/ \A a \in Account \ p.locals : Cardinality(Of(p.pending, a)) <= AccountSlots

\* A cut from the end keeps what is pending in order, and something of each account.
LEMMA TruncatePendingEven ==
  ASSUME NEW p, Even(p)
  PROVE  LET q == TruncatePending(p)
         IN /\ Even(q) /\ PendingLimit(q) /\ Shrunk(p, q)
            /\ q.pending \subseteq p.pending
            /\ q.cur = p.cur /\ q.locals = p.locals /\ q.journal = p.journal
            /\ \A t \in q.queue : Stuck(q, t) => t \in p.queue /\ Stuck(p, t)
<1> DEFINE q == TruncatePending(p)
<1>1. /\ Shape(p) /\ Filled(p) /\ p \in Pool
      /\ \A t \in p.pending : Payable(p, t) /\ StateNonce(p, t.from) <= t.nonce
      /\ \A a \in Account : /\ StateNonce(p, a) <= p.nonce[a]
                            /\ p.nonce[a] = StateNonce(p, a) \/ Of(p.pending, a) # {}
  BY DEF Even, Shape
<1>2. PICK n \in Nat \ {0} :
        LET gone == p.pending \ CutTo(p, n)
        IN /\ n = AccountSlots \/ Cardinality(CutTo(p, n)) <= GlobalSlots
           /\ q \in Pool
           /\ q.pending = CutTo(p, n) /\ q.queue = p.queue
           /\ q.all = p.all \ gone /\ q.own = p.own \ gone
           /\ q.nonce = LowBy(p, gone) /\ q.locals = p.locals /\ q.cur = p.cur
           /\ q.journal = p.journal
  BY <1>1, TruncatePendingIs
<1> DEFINE C == CutTo(p, n)
           gone == p.pending \ C
<1>3. /\ C \in SUBSET p.pending
      /\ \A t \in C : \A u \in p.pending : u.from = t.from /\ u.nonce <= t.nonce => u \in C
      /\ \A t \in p.pending : \E u \in C : u.from = t.from
      /\ \A a \in Account \ p.locals :
           n = AccountSlots => Cardinality(Of(C, a)) <= AccountSlots
  BY <1>1, CutToIs
<1>4. /\ n = AccountSlots \/ Cardinality(C) <= GlobalSlots
      /\ q \in Pool
      /\ q.pending = C /\ q.queue = p.queue
      /\ q.all = p.all \ gone /\ q.own = p.own \ gone
      /\ q.nonce = LowBy(p, gone) /\ q.locals = p.locals /\ q.cur = p.cur
      /\ q.journal = p.journal
  BY <1>2
<1> HIDE DEF q, C
<1>5. /\ \A a : StateNonce(q, a) = StateNonce(p, a)
      /\ \A t : Payable(q, t) <=> Payable(p, t)
  BY <1>4, SameState
<1>6. \A t \in p.all : t.from \in Account /\ t.nonce \in Nat /\ StateNonce(p, t.from) \in Nat
  BY <1>1, Lists, TxType, StateType
<1>7. /\ IsFiniteSet(p.all) /\ p.all = p.pending \cup p.queue /\ p.pending \cap p.queue = {}
      /\ \A t \in p.all, u \in p.all : t.from = u.from /\ t.nonce = u.nonce => t = u
      /\ p.own \subseteq p.all
  BY <1>1 DEF Shape
<1>8. Shape(q) /\ Shrunk(p, q)
  <2>1. IsFiniteSet(q.all)
    BY <1>4, <1>7, FS_Subset
  <2>2. q.all = q.pending \cup q.queue /\ q.pending \cap q.queue = {}
    BY <1>3, <1>4, <1>7
  <2>3. q.own \subseteq q.all /\ q.own = p.own \cap q.all /\ q.all \subseteq p.all
    BY <1>4, <1>7
  <2>4. \A t \in q.all, u \in q.all : t.from = u.from /\ t.nonce = u.nonce => t = u
    BY <1>7, <2>3
  <2>5. QED
    BY <1>4, <2>1, <2>2, <2>3, <2>4 DEF Shape, Shrunk
<1>9. Filled(q)
  <2>1. SUFFICES ASSUME NEW t \in C, NEW m \in StateNonce(p, t.from) .. t.nonce
                 PROVE  \E u \in C : u.from = t.from /\ u.nonce = m
    BY <1>4, <1>5 DEF Filled
  <2>2. PICK u \in p.pending : u.from = t.from /\ u.nonce = m
    BY <1>1, <1>3 DEF Filled
  <2>3. u.nonce <= t.nonce
    BY <1>3, <1>6, <1>7, <2>2
  <2>4. QED
    BY <1>3, <2>2, <2>3
<1>10. \A a : Of(p.pending, a) # {} => Of(C, a) # {}
  BY <1>3 DEF Of
<1>11. ASSUME NEW a \in Account
       PROVE  /\ StateNonce(q, a) <= q.nonce[a]
              /\ q.nonce[a] = StateNonce(q, a) \/ Of(q.pending, a) # {}
              /\ Of(p.pending, a) = {} => q.nonce[a] = p.nonce[a]
  <2> DEFINE low == LowBy(p, gone)[a]
  <2>1. /\ low \in Nat /\ low <= p.nonce[a]
        /\ \A t \in gone \cap p.pending : t.from = a => low <= t.nonce
        /\ \/ low = p.nonce[a]
           \/ \E t \in gone \cap p.pending : t.from = a /\ low = t.nonce
    BY <1>1, LowIs
  <2>2. q.nonce[a] = low /\ StateNonce(p, a) \in Nat /\ p.nonce[a] \in Nat
    BY <1>1, <1>4, StateType
  <2> HIDE DEF low, gone
  <2>3. StateNonce(p, a) <= low
    BY <1>1, <2>1, <2>2
  <2>4. Of(p.pending, a) = {} => low = p.nonce[a]
    BY <2>1 DEF Of
  <2>5. QED
    BY <1>1, <1>4, <1>5, <1>10, <2>2, <2>3, <2>4
<1>12. \A t \in q.pending : Payable(q, t) /\ StateNonce(q, t.from) <= t.nonce
  BY <1>1, <1>3, <1>4, <1>5
<1>13. Even(q)
  BY <1>8, <1>9, <1>11, <1>12 DEF Even
<1>14. PendingLimit(q)
  <2>1. CASE n = AccountSlots
    BY <1>3, <1>4, <2>1 DEF PendingLimit
  <2>2. CASE Cardinality(C) <= GlobalSlots
    BY <1>4, <2>2 DEF PendingLimit
  <2>3. QED
    BY <1>4, <2>1, <2>2
<1>15. ASSUME NEW t \in q.queue, Stuck(q, t)
       PROVE  t \in p.queue /\ Stuck(p, t)
  <2>1. t \in p.queue /\ t.from \in Account
    BY <1>4, <1>6, <1>7
  <2>2. t.nonce = q.nonce[t.from] /\ Of(C, t.from) = {}
    BY <1>4, <1>15 DEF Stuck
  <2>3. Of(p.pending, t.from) = {}
    BY <1>10, <2>2
  <2>4. QED
    BY <1>11, <2>1, <2>2, <2>3 DEF Stuck
<1>16. QED
  BY <1>3, <1>4, <1>8, <1>13, <1>14, <1>15 DEF q

----------------------------------------------------------------------------
(* truncateQueue *)

\* What is queued fits, or only local accounts have it.
QueueLimit(p) ==
  Cardinality(p.queue) <= GlobalQueue \/ \A t \in p.queue : t.from \in p.locals

\* What has been queued is removed without a trace in what is pending.
LEMMA RemoveQueued ==
  ASSUME NEW p, Shape(p), NEW D \in SUBSET p.queue
  PROVE  LET q == RemoveTxs(p, D)
         IN /\ Shape(q) /\ Shrunk(p, q) /\ q \in Pool
            /\ q.pending = p.pending /\ q.queue = p.queue \ D /\ q.nonce = p.nonce
            /\ q.cur = p.cur /\ q.locals = p.locals /\ q.journal = p.journal
<1> DEFINE q == RemoveTxs(p, D)
<1>1. p \in Pool /\ D \in SUBSET p.all /\ D \cap p.pending = {}
  BY DEF Shape
<1>2. /\ q \in Pool
      /\ q.pending = p.pending \ CutBy(p, D)
      /\ q.queue = (p.queue \ D) \cup (CutBy(p, D) \ D)
      /\ q.nonce = LowBy(p, D)
      /\ q.locals = p.locals /\ q.cur = p.cur /\ q.journal = p.journal
  BY <1>1, RemoveTxsIs
<1>3. Shape(q) /\ Shrunk(p, q)
  BY <1>1, RemoveTxsShape
<1>4. CutBy(p, D) = {}
  BY <1>1 DEF CutBy
<1>5. LowBy(p, D) = p.nonce
  <2>1. \A a \in Account : LowBy(p, D)[a] = p.nonce[a]
    BY <1>1, LowIs
  <2>2. p.nonce \in [Account -> Nat] /\ LowBy(p, D) = [a \in Account |-> LowBy(p, D)[a]]
    BY <1>1 DEF Pool, LowBy
  <2>3. QED
    BY <2>1, <2>2
<1> HIDE DEF q
<1>6. QED
  BY <1>2, <1>3, <1>4, <1>5 DEF q

\* The truncation of the queue removes from the queue only, and enough.
LEMMA TruncateQueueIs ==
  ASSUME NEW p, Shape(p), NEW q \in TruncateQueue(p)
  PROVE  /\ Shape(q) /\ Shrunk(p, q) /\ QueueLimit(q) /\ q \in Pool
         /\ q.pending = p.pending /\ q.queue \subseteq p.queue /\ q.nonce = p.nonce
         /\ q.cur = p.cur /\ q.locals = p.locals /\ q.journal = p.journal
<1> DEFINE removable == {t \in p.queue : t.from \notin p.locals}
           excess == Cardinality(p.queue) - GlobalQueue
<1>1. /\ IsFiniteSet(p.queue) /\ Cardinality(p.queue) \in Nat /\ GlobalQueue \in Nat
      /\ p \in Pool /\ p.own \subseteq p.all
  BY Lists, FS_CardinalityType, TxListsAssumption DEF Shape
<1>2. \/ excess <= 0 /\ q = p
      \/ q = RemoveTxs(p, removable)
      \/ ~(excess <= 0) /\ \E D \in SUBSET removable : Cardinality(D) = excess /\ q = RemoveTxs(p, D)
  BY DEF TruncateQueue
<1>3. CASE excess <= 0 /\ q = p
  <2>1. Cardinality(p.queue) <= GlobalQueue
    BY <1>1, <1>3
  <2>2. QED
    BY <1>1, <1>3, <2>1 DEF QueueLimit, Shrunk
<1>4. CASE q = RemoveTxs(p, removable)
  <2>1. removable \in SUBSET p.queue
    OBVIOUS
  <2>2. /\ Shape(q) /\ Shrunk(p, q) /\ q \in Pool
        /\ q.pending = p.pending /\ q.queue = p.queue \ removable /\ q.nonce = p.nonce
        /\ q.cur = p.cur /\ q.locals = p.locals /\ q.journal = p.journal
    BY <1>4, <2>1, RemoveQueued
  <2>3. QED
    BY <2>2 DEF QueueLimit
<1>5. ASSUME NEW D \in SUBSET removable, Cardinality(D) = excess, q = RemoveTxs(p, D)
      PROVE  /\ Shape(q) /\ Shrunk(p, q) /\ QueueLimit(q) /\ q \in Pool
             /\ q.pending = p.pending /\ q.queue \subseteq p.queue /\ q.nonce = p.nonce
             /\ q.cur = p.cur /\ q.locals = p.locals /\ q.journal = p.journal
  <2>1. D \in SUBSET p.queue /\ p.queue \cap D = D
    OBVIOUS
  <2>2. /\ Shape(q) /\ Shrunk(p, q) /\ q \in Pool
        /\ q.pending = p.pending /\ q.queue = p.queue \ D /\ q.nonce = p.nonce
        /\ q.cur = p.cur /\ q.locals = p.locals /\ q.journal = p.journal
    BY <1>5, <2>1, RemoveQueued
  <2>3. Cardinality(p.queue \ D) = Cardinality(p.queue) - Cardinality(D)
    BY <1>1, <2>1, FS_Difference
  <2>4. Cardinality(q.queue) <= GlobalQueue
    BY <1>1, <1>5, <2>2, <2>3
  <2>5. QED
    BY <2>2, <2>4 DEF QueueLimit
<1>6. QED
  BY <1>2, <1>3, <1>4, <1>5

----------------------------------------------------------------------------
(* A run *)

\* The last loop makes the next nonces right.
LEMMA NoncesSetIs ==
  ASSUME NEW p, Even(p)
  PROVE  LET q == NoncesSet(p)
         IN /\ Content(q) /\ Shrunk(p, q)
            /\ q.pending = p.pending /\ q.queue = p.queue
            /\ q.cur = p.cur /\ q.locals = p.locals /\ q.journal = p.journal
            /\ \A t \in q.queue : Stuck(q, t) => Stuck(p, t)
<1> DEFINE q == NoncesSet(p)
           next == [a \in Account |-> IF Of(p.pending, a) = {} THEN p.nonce[a]
                                      ELSE Max({t.nonce : t \in Of(p.pending, a)}) + 1]
<1>1. /\ Shape(p) /\ Filled(p) /\ p \in Pool
      /\ \A t \in p.pending : Payable(p, t) /\ StateNonce(p, t.from) <= t.nonce
      /\ \A a \in Account : /\ StateNonce(p, a) <= p.nonce[a]
                            /\ p.nonce[a] = StateNonce(p, a) \/ Of(p.pending, a) # {}
  BY DEF Even, Shape
<1>2. \A t \in p.all : t.from \in Account /\ t.nonce \in Nat
  BY <1>1, Lists, TxType
<1>3. p.pending \in SUBSET p.all /\ p.queue \in SUBSET p.all /\ IsFiniteSet(p.pending)
  BY <1>1, Lists DEF Shape
<1>4. ASSUME NEW a \in Account
      PROVE  /\ next[a] \in Nat
             /\ Of(p.pending, a) = {} => next[a] = p.nonce[a]
             /\ \A t \in p.pending : t.from = a => t.nonce < next[a]
             /\ Of(p.pending, a) # {} =>
                  \E t \in p.pending : t.from = a /\ t.nonce = next[a] - 1
  <2> DEFINE S == {t.nonce : t \in Of(p.pending, a)}
  <2>1. CASE Of(p.pending, a) = {}
    <3>1. next[a] = p.nonce[a]
      BY <2>1
    <3>2. p.nonce[a] \in Nat
      BY <1>1, StateType
    <3>3. QED
      BY <2>1, <3>1, <3>2 DEF Of
  <2>2. CASE Of(p.pending, a) # {}
    <3>1. S \in SUBSET Nat /\ S # {}
      BY <1>2, <1>3, <2>2 DEF Of
    <3>2. IsFiniteSet(S)
      <4>1. Of(p.pending, a) \in SUBSET p.pending
        BY DEF Of
      <4>2. IsFiniteSet(Of(p.pending, a))
        BY <1>3, <4>1, FS_Subset
      <4>3. QED
        BY <4>2, NoncesFinite
    <3>3. next[a] = Max(S) + 1
      BY <2>2
    <3>4. Max(S) \in S /\ \A y \in S : Max(S) >= y
      <4> HIDE DEF S
      <4>1. QED
        BY <3>1, <3>2, MaxIs
    <3>5. PICK t \in p.pending : t.from = a /\ t.nonce = Max(S)
      BY <3>4 DEF Of
    <3>6. \A u \in p.pending : u.from = a => u.nonce \in S /\ u.nonce \in Nat
      BY <1>2, <1>3 DEF Of
    <3> DEFINE x == Max(S)
               y == next[a]
    <3>7. x \in Nat /\ y = x + 1 /\ t.nonce = x /\ \A u \in p.pending : u.from = a => x >= u.nonce
      BY <3>1, <3>3, <3>4, <3>5, <3>6
    <3> HIDE DEF x, y, S, next
    <3>8. /\ y \in Nat /\ t.nonce = y - 1
          /\ \A u \in p.pending : u.from = a => u.nonce < y
      BY <3>6, <3>7
    <3>9. QED
      BY <2>2, <3>5, <3>8 DEF y
  <2>3. QED
    BY <2>1, <2>2
<1>5. next \in [Account -> Nat]
  BY <1>4
<1> HIDE DEF next
<1>6. q = [p EXCEPT !.nonce = next]
  BY DEF NoncesSet, next
<1> HIDE DEF q
<1>7. /\ q \in Pool /\ q.nonce = next /\ q.pending = p.pending /\ q.queue = p.queue
      /\ q.all = p.all /\ q.own = p.own /\ q.cur = p.cur /\ q.locals = p.locals
      /\ q.journal = p.journal
  BY <1>1, <1>5, <1>6 DEF Pool
<1>8. /\ \A a : StateNonce(q, a) = StateNonce(p, a)
      /\ \A t : Payable(q, t) <=> Payable(p, t)
  BY <1>7, SameState
<1>9. Shape(q) /\ Shrunk(p, q)
  BY <1>1, <1>7 DEF Shape, Shrunk
<1>10. Executable(q)
  BY <1>1, <1>2, <1>3, <1>4, <1>7, <1>8 DEF Executable
<1>11. ASSUME NEW a \in Account
       PROVE  /\ StateNonce(p, a) <= next[a]
              /\ \A n \in StateNonce(p, a) .. next[a] - 1 :
                   \E t \in p.pending : t.from = a /\ t.nonce = n
  <2>1. StateNonce(p, a) \in Nat /\ next[a] \in Nat
    BY <1>1, <1>4, StateType
  <2>2. CASE Of(p.pending, a) = {}
    <3>1. next[a] = StateNonce(p, a)
      BY <1>1, <1>4, <2>2
    <3>2. QED
      BY <2>1, <3>1
  <2>3. CASE Of(p.pending, a) # {}
    <3>1. PICK t \in p.pending : t.from = a /\ t.nonce = next[a] - 1
      BY <1>4, <2>3
    <3>2. StateNonce(p, a) <= t.nonce /\ t.nonce \in Nat
      BY <1>1, <1>2, <1>3, <3>1
    <3>3. \A n \in StateNonce(p, a) .. t.nonce : \E u \in p.pending : u.from = a /\ u.nonce = n
      BY <1>1, <3>1 DEF Filled
    <3>4. QED
      BY <2>1, <3>1, <3>2, <3>3
  <2>4. QED
    BY <2>2, <2>3
<1>12. NoncesFilled(q)
  BY <1>7, <1>8, <1>11 DEF NoncesFilled
<1>13. \A t \in q.queue : Stuck(q, t) => Stuck(p, t)
  BY <1>2, <1>3, <1>4, <1>7 DEF Stuck
<1>14. QED
  BY <1>7, <1>9, <1>10, <1>12, <1>13 DEF Content, q

\* What shrinks in two steps shrinks.
LEMMA ShrunkTwice ==
  ASSUME NEW p, NEW q, NEW r, Shrunk(p, q), Shrunk(q, r)
  PROVE  Shrunk(p, r)
BY DEF Shrunk

\* A pool that has room keeps it when it shrinks.
LEMMA ShrunkRoom ==
  ASSUME NEW p, NEW q, Shape(p), Shrunk(p, q), RoomKept(p)
  PROVE  RoomKept(q)
<1>1. IsFiniteSet(p.all) /\ q.all \in SUBSET p.all
  BY DEF Shape, Shrunk
<1>2. IsFiniteSet(q.all) /\ Cardinality(q.all) <= Cardinality(p.all)
  BY <1>1, FS_Subset
<1>3. /\ Cardinality(q.all) \in Nat /\ Cardinality(p.all) \in Nat
      /\ GlobalSlots + GlobalQueue \in Nat
  BY <1>1, <1>2, FS_CardinalityType, TxListsAssumption
<1>4. CASE p.all = p.own
  BY <1>4 DEF RoomKept, Shrunk
<1>5. CASE Cardinality(p.all) <= GlobalSlots + GlobalQueue
  <2>1. Cardinality(q.all) <= GlobalSlots + GlobalQueue
    BY <1>2, <1>3, <1>5
  <2>2. QED
    BY <2>1 DEF RoomKept
<1>6. QED
  BY <1>4, <1>5 DEF RoomKept

\* The end of a run: the limits and the nonces
LEMMA Limited ==
  ASSUME NEW p, Even(p), NEW r \in {NoncesSet(q) : q \in TruncateQueue(TruncatePending(p))}
  PROVE  /\ Content(r) /\ Shrunk(p, r) /\ LimitsHold(r) /\ r.pending \subseteq p.pending
         /\ r.cur = p.cur /\ r.locals = p.locals /\ r.journal = p.journal
         /\ \A t \in r.queue : Stuck(r, t) => t \in p.queue /\ Stuck(p, t)
<1> DEFINE t1 == TruncatePending(p)
<1>1. PICK t2 \in TruncateQueue(t1) : r = NoncesSet(t2)
  OBVIOUS
<1>2. /\ Even(t1) /\ PendingLimit(t1) /\ Shrunk(p, t1)
      /\ t1.pending \subseteq p.pending
      /\ t1.cur = p.cur /\ t1.locals = p.locals /\ t1.journal = p.journal
      /\ \A t \in t1.queue : Stuck(t1, t) => t \in p.queue /\ Stuck(p, t)
  BY TruncatePendingEven
<1> HIDE DEF t1
<1>3. /\ Shape(t2) /\ Shrunk(t1, t2) /\ QueueLimit(t2) /\ t2 \in Pool
      /\ t2.pending = t1.pending /\ t2.queue \subseteq t1.queue /\ t2.nonce = t1.nonce
      /\ t2.cur = t1.cur /\ t2.locals = t1.locals /\ t2.journal = t1.journal
  BY <1>1, <1>2, TruncateQueueIs DEF Even
<1>4. /\ \A a : StateNonce(t2, a) = StateNonce(t1, a)
      /\ \A t : Payable(t2, t) <=> Payable(t1, t)
  BY <1>3, SameState
<1>5. Even(t2)
  BY <1>2, <1>3, <1>4 DEF Even, Filled
<1>6. /\ Content(r) /\ Shrunk(t2, r)
      /\ r.pending = t2.pending /\ r.queue = t2.queue
      /\ r.cur = t2.cur /\ r.locals = t2.locals /\ r.journal = t2.journal
      /\ \A t \in r.queue : Stuck(r, t) => Stuck(t2, t)
  BY <1>1, <1>5, NoncesSetIs
<1>7. Shrunk(p, r)
  BY <1>2, <1>3, <1>6, ShrunkTwice
<1>8. LimitsHold(r)
  BY <1>2, <1>3, <1>6 DEF LimitsHold, PendingLimit, QueueLimit
<1>9. ASSUME NEW t \in r.queue, Stuck(r, t)
      PROVE  t \in p.queue /\ Stuck(p, t)
  <2>1. t \in t2.queue /\ Stuck(t2, t)
    BY <1>6, <1>9
  <2>2. t \in t1.queue /\ Stuck(t1, t)
    BY <1>3, <2>1 DEF Stuck
  <2>3. QED
    BY <1>2, <2>2
<1>10. QED
  BY <1>2, <1>3, <1>6, <1>7, <1>8, <1>9

\* A run without a reset
LEMMA RunPlain ==
  ASSUME NEW p, Content(p), NEW A \in SUBSET Account,
         NEW r \in {NoncesSet(q) : q \in TruncateQueue(TruncatePending(Promote(p, A)))}
  PROVE  /\ Content(r) /\ Shrunk(p, r) /\ LimitsHold(r)
         /\ r.pending \subseteq Promote(p, A).pending
         /\ r.cur = p.cur /\ r.locals = p.locals /\ r.journal = p.journal
         /\ \A t \in r.queue : Stuck(r, t) => t \in p.queue /\ Stuck(p, t) /\ t.from \notin A
<1> DEFINE q == Promote(p, A)
<1>1. /\ Fit(q) /\ Shrunk(p, q) /\ p.pending \subseteq q.pending
      /\ q.cur = p.cur /\ q.locals = p.locals /\ q.journal = p.journal
      /\ \A t \in q.pending \ p.pending : Payable(q, t) /\ StateNonce(q, t.from) <= t.nonce
      /\ \A t \in q.queue : Loose(q, t) => /\ t \in p.queue /\ t.from \notin A
                                           /\ q.nonce[t.from] = p.nonce[t.from]
                                           /\ Of(p.pending, t.from) \subseteq Of(q.pending, t.from)
  BY ContentStarts, PromoteFit
<1> HIDE DEF q
<1>2. /\ \A a : StateNonce(q, a) = StateNonce(p, a)
      /\ \A t : Payable(q, t) <=> Payable(p, t)
  BY <1>1, SameState
<1>3. \A t \in q.pending : Payable(q, t) /\ StateNonce(q, t.from) <= t.nonce
  BY <1>1, <1>2 DEF Content, Executable
<1>4. \A a : Safe(q, a) => Of(q.pending, a) # {}
  BY DEF Safe, Of
<1>5. Even(q)
  BY <1>1, <1>3, <1>4 DEF Even, Fit
<1>6. /\ Content(r) /\ Shrunk(q, r) /\ LimitsHold(r) /\ r.pending \subseteq q.pending
      /\ r.cur = q.cur /\ r.locals = q.locals /\ r.journal = q.journal
      /\ \A t \in r.queue : Stuck(r, t) => t \in q.queue /\ Stuck(q, t)
  BY <1>5, Limited DEF q
<1>7. ASSUME NEW t \in r.queue, Stuck(r, t)
      PROVE  t \in p.queue /\ Stuck(p, t) /\ t.from \notin A
  <2>1. t \in q.queue /\ t.nonce = q.nonce[t.from] /\ Of(q.pending, t.from) = {}
    BY <1>6, <1>7 DEF Stuck
  <2>2. Loose(q, t)
    BY <1>4, <2>1 DEF Loose
  <2>3. QED
    BY <1>1, <2>1, <2>2 DEF Stuck
<1>8. QED
  BY <1>1, <1>6, <1>7, ShrunkTwice DEF q

\* A run with a reset leaves nothing in the queue that could be processed.
LEMMA RunReset ==
  ASSUME NEW p, Start(p),
         NEW r \in {NoncesSet(q) : q \in TruncateQueue(TruncatePending(Demote(Promote(p, Account))))}
  PROVE  /\ Content(r) /\ Shrunk(p, r) /\ LimitsHold(r)
         /\ r.pending \subseteq Promote(p, Account).pending
         /\ r.cur = p.cur /\ r.locals = p.locals /\ r.journal = p.journal
         /\ \A t \in r.queue : ~Stuck(r, t)
<1> DEFINE q == Promote(p, Account)
           d == Demote(q)
<1>1. /\ Fit(q) /\ Shrunk(p, q)
      /\ q.cur = p.cur /\ q.locals = p.locals /\ q.journal = p.journal
      /\ \A t \in q.queue : Loose(q, t) => t \in p.queue /\ t.from \notin Account
  BY PromoteFit
<1> HIDE DEF q
<1>2. /\ Even(d) /\ Shrunk(q, d) /\ d.pending \subseteq q.pending
      /\ d.cur = q.cur /\ d.locals = q.locals /\ d.journal = q.journal
      /\ \A t \in d.queue : Stuck(d, t) => t \in q.queue /\ Loose(q, t)
  BY <1>1, DemoteEven
<1> HIDE DEF d
<1>3. /\ Content(r) /\ Shrunk(d, r) /\ LimitsHold(r) /\ r.pending \subseteq d.pending
      /\ r.cur = d.cur /\ r.locals = d.locals /\ r.journal = d.journal
      /\ \A t \in r.queue : Stuck(r, t) => t \in d.queue /\ Stuck(d, t)
  BY <1>2, Limited DEF d, q
<1>4. \A t \in p.queue : t.from \in Account
  <2>1. Shape(p)
    BY DEF Start
  <2>2. QED
    BY <2>1, Lists, TxType
<1>5. \A t \in r.queue : ~Stuck(r, t)
  BY <1>1, <1>2, <1>3, <1>4
<1>6. Shrunk(p, r)
  BY <1>1, <1>2, <1>3, ShrunkTwice
<1>7. QED
  BY <1>1, <1>2, <1>3, <1>5, <1>6 DEF q

----------------------------------------------------------------------------
(* The steps of the goroutines *)

\* What a content that is not touched, or only in its journal, keeps
LEMMA SameContent ==
  ASSUME NEW p, Content(p), RoomKept(p), NEW J \in SUBSET Tx
  PROVE  LET q == [p EXCEPT !.journal = J]
         IN /\ Content(q) /\ RoomKept(q)
            /\ q.pending = p.pending /\ q.queue = p.queue /\ q.nonce = p.nonce /\ q.cur = p.cur
            /\ q.all = p.all /\ q.locals = p.locals /\ q.journal = J
<1> DEFINE q == [p EXCEPT !.journal = J]
<1>1. p \in Pool
  BY DEF Content, Shape
<1>2. /\ q \in Pool /\ q.pending = p.pending /\ q.queue = p.queue /\ q.nonce = p.nonce
      /\ q.cur = p.cur /\ q.all = p.all /\ q.locals = p.locals /\ q.own = p.own
      /\ q.journal = J
  BY <1>1 DEF Pool
<1> HIDE DEF q
<1>3. /\ \A a : StateNonce(q, a) = StateNonce(p, a)
      /\ \A t : Payable(q, t) <=> Payable(p, t)
  BY <1>2, SameState
<1>4. Shape(q)
  BY <1>2 DEF Content, Shape
<1>5. Executable(q) /\ NoncesFilled(q)
  BY <1>2, <1>3 DEF Content, Executable, NoncesFilled
<1>6. RoomKept(q)
  BY <1>2 DEF RoomKept
<1>7. QED
  BY <1>2, <1>4, <1>5, <1>6 DEF Content, q

\* Released lets go those that wait, and touches nothing else.
LEMMA ReleasedIs ==
  ASSUME NEW k \in Calls, NEW from, NEW to \in Step
  PROVE  /\ Released(k, from, to) \in Calls
         /\ \A c \in Call :
              /\ Released(k, from, to)[c].todo = k[c].todo
              /\ Released(k, from, to)[c].event = k[c].event
              /\ Released(k, from, to)[c].dirty = k[c].dirty
              /\ k[c].step # from => Released(k, from, to)[c].step = k[c].step
              /\ k[c].step = from => Released(k, from, to)[c].step = to
BY DEF Released, Calls

\* The invariant does not notice when a call goes on that has nothing to add.
LEMMA ReleasedRight ==
  ASSUME NEW STATE n, NEW STATE k, NEW STATE s, NEW STATE r, Right(n, k, s, r),
         NEW from \in {"next", "cur"}, NEW to \in {"cur", "done"}
  PROVE  Right(n, Released(k, from, to), s, r)
<1> DEFINE j == Released(k, from, to)
<1>1. k \in Calls /\ to \in Step
  BY DEF Right, Step
<1>2. /\ j \in Calls
      /\ \A c \in Call :
           /\ j[c].todo = k[c].todo /\ j[c].event = k[c].event /\ j[c].dirty = k[c].dirty
           /\ k[c].step # from => j[c].step = k[c].step
           /\ k[c].step = from => j[c].step = to
  BY <1>1, ReleasedIs
<1> HIDE DEF j
<1>3. Control(j, r)
  BY <1>2 DEF Right, Control
<1>4. \A a : Attended(k, s, r, a) => Attended(j, s, r, a)
  BY <1>2 DEF Attended
<1>5. Waits(j, s, r)
  BY <1>4 DEF Right, Waits
<1>6. Announced(j, s, r)
  BY <1>2 DEF Right, Announced
<1>7. QED
  BY <1>2, <1>3, <1>5, <1>6 DEF Right, j

\* The loop's next turn
LEMMA Continuing ==
  ASSUME NEW STATE n, NEW STATE k, NEW STATE s, NEW STATE r, IInv, Right(n, k, s, r),
         Continue(s, r, k), notices' = n,
         UNCHANGED <<pool, mu, head, stop, announced, failed>>
  PROVE  IInv'
<1>1. CASE r.step = "none" /\ s.launch
  <2> DEFINE j == Released(k, "next", "cur")
             u == [step |-> "lock", reset |-> s.reset, dirty |-> s.dirty, events |-> s.events]
  <2>1. call' = j /\ sched' = Idle /\ run' = u
    BY <1>1 DEF Continue
  <2>2. Right(n, j, s, r)
    BY ReleasedRight
  <2> HIDE DEF j
  <2>3. /\ s.reset \in {None} \cup HeadIndex /\ s.dirty \in SUBSET Account
        /\ s.events \in SUBSET Tx /\ r.reset \in {None} \cup HeadIndex
    BY <2>2 DEF Right, Scheds, Runs
  <2>4. Idle \in Scheds /\ u \in Runs
    BY <2>3 DEF Idle, Scheds, Runs
  <2>5. Control(j, u)
    BY <2>2 DEF Right, Control
  <2>6. Forward(n, Idle, u)
    <3>1. pool.cur \in Nat /\ head \in Nat /\ s.reset \in Nat
      BY <2>3 DEF IInv, Others, Content, Shape, Pool, HeadIndex, None
    <3>2. n \in Seq(HeadIndex)
      BY <2>2 DEF Right, Notices
    <3>3. \A i \in 1 .. Len(n) : n[i] \in Nat
      BY <3>2 DEF HeadIndex
    <3>4. Forward(n, s, r)
      BY <2>2 DEF Right
    <3>5. /\ Idle.reset = 0 /\ u.reset = s.reset /\ None = 0
      BY DEF Idle, None
    <3> HIDE DEF u
    <3>6. QED
      BY <3>1, <3>3, <3>4, <3>5 DEF Forward
  <2>7. \A a : Attended(j, s, r, a) => Attended(j, Idle, u, a)
    BY <1>1 DEF Attended
  <2>8. Waits(j, Idle, u)
    BY <2>2, <2>7 DEF Right, Waits
  <2>9. Announced(j, Idle, u)
    <3>1. r.events = {}
      BY <1>1, <2>2 DEF Right, Control
    <3>2. QED
      BY <2>2, <3>1 DEF Right, Announced
  <2>10. Right(n, j, Idle, u)
    BY <2>2, <2>4, <2>5, <2>6, <2>8, <2>9 DEF Right
  <2>11. Right(notices, call, sched, run)'
    <3>1. u.step = "lock"
      OBVIOUS
    <3> HIDE DEF u
    <3>2. QED
      BY <2>1, <2>10 DEF Right, Control, Forward, Waits, Announced, Attended
  <2>12. run'.step # "none"
    BY <2>1
  <2>13. QED
    BY <2>11, <2>12 DEF IInv, Others
<1>2. CASE ~(r.step = "none" /\ s.launch)
  <2>1. call' = k /\ sched' = s /\ run' = r
    BY <1>2 DEF Continue
  <2>2. Right(notices, call, sched, run)'
    BY <2>1 DEF Right, Control, Forward, Waits, Announced, Attended
  <2>3. QED
    BY <1>2, <2>1, <2>2 DEF IInv, Others
<1>3. QED
  BY <1>1, <1>2

\* What the invariant says of a call that is not in the middle of adding
LEMMA IdleCall ==
  ASSUME IInv, NEW c \in Call, call[c].step \notin {"add", "event"}
  PROVE  call[c].event = {} /\ mu # c
BY DEF IInv, Right, Control

\* The invariant's parts of the steps that leave the content and the goroutines alone
LEMMA StopsOnly ==
  ASSUME IInv, stop' \in {"asked", "closed", "leaving", "exited"},
         UNCHANGED <<pool, mu, head, notices, sched, run, announced, failed>>,
         call' = call \/ call' = Released(call, "next", "done")
  PROVE  IInv'
<1>1. Right(notices, call', sched, run)
  <2>1. CASE call' = call
    BY <2>1 DEF IInv
  <2>2. CASE call' = Released(call, "next", "done")
    <3>1. Right(notices, Released(call, "next", "done"), sched, run)
      BY ReleasedRight DEF IInv
    <3>2. QED
      BY <2>2, <3>1
  <2>3. QED
    BY <2>1, <2>2
<1>2. Right(notices, call, sched, run)'
  BY <1>1 DEF Right, Control, Forward, Waits, Announced
<1>3. QED
  BY <1>2 DEF IInv, Others

\* A run that is done makes place for the next one.
LEMMA CurDoneIInv ==
  ASSUME IInv, CurDone
  PROVE  IInv'
<1>1. run.events = {} /\ run.reset \in Nat /\ run.step = "ended"
  BY DEF CurDone, IInv, Right, Control, Runs, HeadIndex, None
<1>2. Over \in Runs /\ Over.events = {} /\ Over.reset = 0 /\ Over.step = "none"
  BY DEF Over, Runs, None
<1>3. Control(call, Over)
  BY <1>2 DEF IInv, Right, Control
<1>4. Forward(notices, sched, Over)
  <2>1. pool.cur \in Nat /\ head \in Nat
    BY DEF IInv, Others, Content, Shape, Pool, HeadIndex
  <2>2. \A i \in 1 .. Len(notices) : notices[i] \in Nat
    BY DEF IInv, Right, Notices, HeadIndex
  <2>3. sched.reset \in Nat
    BY DEF IInv, Right, Scheds, HeadIndex, None
  <2>4. Forward(notices, sched, run)
    BY DEF IInv, Right
  <2>5. QED
    BY <1>2, <2>1, <2>2, <2>3, <2>4 DEF Forward, None
<1>5. Waits(call, sched, Over)
  BY <1>1, <1>2 DEF IInv, Right, Waits, Attended
<1>6. Announced(call, sched, Over)
  BY <1>1, <1>2 DEF IInv, Right, Announced
<1>7. Right(notices, call, sched, Over)
  BY <1>2, <1>3, <1>4, <1>5, <1>6 DEF IInv, Right
<1>8. /\ Continue(sched, Over, call) /\ notices' = notices
      /\ UNCHANGED <<pool, mu, head, stop, announced, failed>>
  BY DEF CurDone
<1>9. QED
  BY <1>7, <1>8, Continuing

\* addTxs begins: it holds nothing yet.
LEMMA BeginIInv ==
  ASSUME IInv, NEW c \in Call, Begin(c)
  PROVE  IInv'
<1> DEFINE txs == Args[c].txs
           news == {i \in DOMAIN txs : txs[i] \notin pool.all}
           n == Cardinality(news)
<1>1. txs \in Seq(Tx)
  BY TxPoolAssumption
<1>2. PICK f \in [1 .. n -> news] :
        call' = [call EXCEPT ![c].todo = [i \in 1 .. n |-> txs[f[i]]],
                             ![c].step = IF news = {} THEN "done" ELSE "add"]
  BY DEF Begin
<1>3. n \in Nat /\ (news # {} => n # 0)
  <2>1. 1 \in Int /\ Len(txs) \in Int /\ DOMAIN txs = 1 .. Len(txs)
    BY <1>1
  <2>2. IsFiniteSet(1 .. Len(txs))
    BY <2>1, FS_Interval, Zenon
  <2>3. IsFiniteSet(news)
    BY <2>1, <2>2, FS_Subset
  <2>4. QED
    BY <2>3, FS_CardinalityType, FS_EmptySet
<1> DEFINE todo == [i \in 1 .. n |-> txs[f[i]]]
<1>4. \A i \in news : txs[i] \in Tx
  BY <1>1
<1> HIDE DEF n, news
<1>5. todo \in Seq(Tx)
  <2>1. todo \in [1 .. n -> Tx]
    BY <1>2, <1>4
  <2> HIDE DEF todo
  <2>2. QED
    BY <1>3, <2>1, SeqDef
<1>6. news # {} => todo # <<>>
  <2>1. DOMAIN todo = 1 .. n
    OBVIOUS
  <2>2. ASSUME news # {}
        PROVE  1 \in DOMAIN todo
    BY <1>3, <2>1, <2>2
  <2> HIDE DEF todo
  <2>3. DOMAIN << >> = {}
    OBVIOUS
  <2>4. QED
    BY <2>2, <2>3
<1> HIDE DEF todo
<1>7. /\ call \in Calls /\ call[c].step = "idle"
      /\ UNCHANGED <<pool, mu, head, notices, sched, run, stop, announced, failed>>
  BY DEF IInv, Right, Begin
<1>8. call' = [call EXCEPT ![c].todo = todo, ![c].step = IF news = {} THEN "done" ELSE "add"]
  BY <1>2 DEF todo
<1>9. /\ call' \in Calls
      /\ \A d \in Call : /\ call'[d].event = call[d].event /\ call'[d].dirty = call[d].dirty
                         /\ d # c => call'[d] = call[d]
      /\ call'[c].step \in {"done", "add"}
      /\ call'[c].step = "add" => call'[c].todo # <<>>
  BY <1>5, <1>6, <1>7, <1>8 DEF Calls, Step
<1>10. call[c].event = {} /\ mu # c
  BY <1>7, IdleCall
<1>11. Control(call, run)'
  BY <1>7, <1>9, <1>10 DEF IInv, Right, Control
<1>12. Waits(call, sched, run)'
  <2>1. \A a : Attended(call, sched, run, a) => Attended(call, sched, run, a)'
    <3>1. ASSUME NEW d \in Call, call[d].step \in {"add", "event", "request"}
          PROVE  call'[d] = call[d]
      BY <1>7, <1>9, <3>1
    <3>2. QED
      BY <1>7, <3>1 DEF Attended
  <2>2. QED
    BY <1>7, <2>1 DEF IInv, Right, Waits
<1>13. Announced(call, sched, run)'
  BY <1>7, <1>9 DEF IInv, Right, Announced
<1>14. Right(notices, call, sched, run)'
  BY <1>7, <1>9, <1>11, <1>12, <1>13 DEF IInv, Right, Forward
<1>15. QED
  BY <1>7, <1>14 DEF IInv, Others

\* add of one transaction
LEMMA AddTxIInv ==
  ASSUME IInv, NEW c \in Call, AddTx(c)
  PROVE  IInv'
<1> DEFINE t == Head(call[c].todo)
           rest == Tail(call[c].todo)
<1>1. /\ call \in Calls /\ call[c].step = "add" /\ mu \in {Free, c}
      /\ UNCHANGED <<head, notices, sched, run, stop, announced, failed>>
  BY DEF AddTx, IInv, Right
<1>2. PICK o \in AddOutcomes(pool, t, Args[c].local) :
        LET step == StepAfter(o.event, rest)
        IN /\ pool' = o.pool
           /\ call' = [call EXCEPT ![c] = [step |-> step, todo |-> Tail(@.todo),
                                           event |-> o.event, dirty |-> @.dirty \cup o.dirty]]
           /\ mu' = IF step = "request" THEN Free ELSE c
  BY DEF AddTx
<1> DEFINE step == StepAfter(o.event, rest)
           k == [step |-> step, todo |-> rest, event |-> o.event,
                 dirty |-> call[c].dirty \cup o.dirty]
<1>3. call' = [call EXCEPT ![c] = k] /\ pool' = o.pool /\ mu' = IF step = "request" THEN Free ELSE c
  BY <1>2
<1>4. call[c].todo \in Seq(Tx) /\ call[c].todo # <<>> /\ call[c].dirty \in SUBSET Account
  BY <1>1 DEF IInv, Right, Control, Calls
<1>5. t \in Tx /\ rest \in Seq(Tx)
  BY <1>4, HeadTailProperties
<1> HIDE DEF t, rest
<1>6. Adds(pool, t, o) /\ RoomKept(o.pool)
  <2>1. Args[c].local \in BOOLEAN
    BY TxPoolAssumption
  <2>2. Content(pool) /\ RoomKept(pool)
    BY DEF IInv
  <2>3. QED
    BY <1>2, <1>5, <2>1, <2>2, AddIs
<1>7. /\ Content(pool') /\ RoomKept(pool') /\ pool'.cur = pool.cur
      /\ o.event \subseteq pool'.pending /\ o.event \subseteq {t} /\ o.dirty \subseteq {t.from}
      /\ pool'.pending \subseteq pool.pending \cup o.event
      /\ \A u \in pool'.queue :
           Stuck(pool', u) => \/ u.from \in o.dirty
                              \/ \E v \in pool.queue : v.from = u.from /\ Stuck(pool, v)
  BY <1>3, <1>6 DEF Adds
<1>8. /\ step \in {"event", "request", "add"}
      /\ step = "event" <=> o.event # {}
      /\ step = "add" => rest # <<>>
  BY DEF StepAfter
<1> HIDE DEF step
<1>9. k \in [step : Step, todo : Seq(Tx), event : SUBSET Tx, dirty : SUBSET Account]
  <2>1. t.from \in Account
    BY <1>5, TxType
  <2>2. QED
    BY <1>4, <1>5, <1>7, <1>8, <2>1 DEF Step
<1>10. /\ call' \in Calls
       /\ call'[c].step = step /\ call'[c].todo = rest /\ call'[c].event = o.event
       /\ call'[c].dirty = call[c].dirty \cup o.dirty
       /\ \A d \in Call : d # c => call'[d] = call[d]
  BY <1>1, <1>3, <1>9 DEF Calls
<1> HIDE DEF k
<1>11. \A d \in Call : /\ call[d].event = {}
                       /\ d # c => mu # d /\ mu' # d /\ call[d].step # "event"
  <2>1. Free \notin Call
    BY TxPoolAssumption
  <2>2. \A d \in Call : d # c => mu # d /\ mu' # d
    BY <1>1, <1>3, <2>1
  <2>3. \A d \in Call : d # c => call[d].step # "event"
    BY <2>2 DEF IInv, Right, Control
  <2>4. QED
    BY <1>1, <2>2, <2>3 DEF IInv, Right, Control
<1>12. Control(call, run)'
  <2>1. run'.step \in {"none", "ended"} => run'.events = {}
    BY <1>1 DEF IInv, Right, Control
  <2>2. ASSUME NEW d \in Call
        PROVE  /\ mu' = d => call'[d].step \in {"add", "event"}
               /\ call'[d].step = "event" => mu' = d
               /\ call'[d].step = "add" => call'[d].todo # <<>>
               /\ call'[d].event # {} => call'[d].step = "event"
               /\ call'[d].event \subseteq pool'.pending
    <3>1. CASE d = c
      <4>1. step # "request" => mu' = c
        BY <1>3
      <4>2. step = "request" => mu' # c
        BY <1>3, TxPoolAssumption
      <4>3. QED
        BY <1>7, <1>8, <1>10, <3>1, <4>1, <4>2
    <3>2. CASE d # c
      <4>1. call'[d] = call[d] /\ call[d].event = {} /\ mu' # d /\ call[d].step # "event"
        BY <1>10, <1>11, <3>2
      <4>2. call[d].step = "add" => call[d].todo # <<>>
        BY DEF IInv, Right, Control
      <4>3. QED
        BY <4>1, <4>2
    <3>3. QED
      BY <3>1, <3>2
  <2>3. QED
    BY <2>1, <2>2 DEF Control
<1>13. Waits(call, sched, run)'
  <2>1. SUFFICES ASSUME stop' = "no", NEW u \in pool'.queue, Stuck(pool', u)
                 PROVE  Attended(call, sched, run, u.from)'
    BY DEF Waits
  <2>2. \A a : Attended(call, sched, run, a) => Attended(call, sched, run, a)'
    <3>1. \A d \in Call : call[d].step \in {"add", "event", "request"} =>
            /\ call[d].dirty \subseteq call'[d].dirty
            /\ call'[d].step \in {"add", "event", "request"}
      BY <1>8, <1>10
    <3>2. QED
      BY <1>1, <3>1 DEF Attended
  <2>3. CASE u.from \in o.dirty
    BY <1>8, <1>10, <2>3 DEF Attended
  <2>4. CASE \E v \in pool.queue : v.from = u.from /\ Stuck(pool, v)
    <3>1. PICK v \in pool.queue : v.from = u.from /\ Stuck(pool, v)
      BY <2>4
    <3>2. Attended(call, sched, run, v.from)
      BY <1>1, <2>1, <3>1 DEF IInv, Right, Waits
    <3>3. QED
      BY <2>2, <3>1, <3>2
  <2>5. QED
    BY <1>7, <2>1, <2>3, <2>4
<1>14. Announced(call, sched, run)'
  <2>1. SUFFICES ASSUME stop = "no", ~failed, NEW u \in pool'.pending
                 PROVE  \/ u \in announced' \/ u \in sched'.events \/ u \in run'.events
                        \/ \E d \in Call : u \in call'[d].event
    BY <1>1 DEF Announced
  <2>2. CASE u \in o.event
    BY <1>10, <2>2
  <2>3. CASE u \in pool.pending
    <3>1. \/ u \in announced \/ u \in sched.events \/ u \in run.events
          \/ \E d \in Call : u \in call[d].event
      BY <2>1, <2>3 DEF IInv, Right, Announced
    <3>2. QED
      BY <1>1, <1>11, <3>1
  <2>4. QED
    BY <1>7, <2>1, <2>2, <2>3
<1>15. Forward(notices, sched, run)'
  BY <1>1, <1>7 DEF IInv, Right, Forward
<1>16. Right(notices, call, sched, run)'
  BY <1>1, <1>10, <1>12, <1>13, <1>14, <1>15 DEF IInv, Right
<1>17. Others'
  BY <1>1, <1>3 DEF IInv, Others
<1>18. QED
  BY <1>1, <1>7, <1>16, <1>17 DEF IInv

\* queueTxEvent
LEMMA QueueEventIInv ==
  ASSUME IInv, NEW c \in Call, QueueEvent(c)
  PROVE  IInv'
<1> DEFINE step == StepAfter({}, call[c].todo)
<1>1. /\ call \in Calls /\ sched \in Scheds /\ call[c].step = "event" /\ mu = c
      /\ UNCHANGED <<pool, head, notices, run, stop, announced, failed>>
  BY DEF QueueEvent, IInv, Right, Control
<1>2. /\ call' = [call EXCEPT ![c].step = step, ![c].event = {}]
      /\ mu' = IF step = "request" THEN Free ELSE c
      /\ \/ sched' = [sched EXCEPT !.events = Put(@, call[c].event)]
         \/ stop # "no" /\ sched' = sched
  BY DEF QueueEvent, Closed, LoopUp
<1>3. step \in {"add", "request"} /\ (step = "add" => call[c].todo # <<>>)
  BY DEF StepAfter
<1> HIDE DEF step
<1>4. /\ call' \in Calls
      /\ call'[c].step = step /\ call'[c].todo = call[c].todo /\ call'[c].event = {}
      /\ call'[c].dirty = call[c].dirty
      /\ \A d \in Call : d # c => call'[d] = call[d]
  BY <1>1, <1>2, <1>3 DEF Calls, Step
<1>5. call[c].event \in SUBSET Tx /\ call[c].event \subseteq pool.pending
  BY <1>1 DEF IInv, Right, Control, Calls
<1>6. /\ sched' \in Scheds /\ sched'.launch = sched.launch /\ sched'.reset = sched.reset
      /\ sched'.dirty = sched.dirty
      /\ stop = "no" => sched'.events = Put(sched.events, call[c].event)
  <2>1. Put(sched.events, call[c].event) \in SUBSET Tx
    BY <1>1, <1>5 DEF Put, Scheds
  <2>2. QED
    BY <1>1, <1>2, <2>1 DEF Scheds
<1>7. \A d \in Call : d # c => mu # d /\ mu' # d /\ call[d].step # "event" /\ call[d].event = {}
  <2>1. Free \notin Call
    BY TxPoolAssumption
  <2>2. \A d \in Call : d # c => mu # d /\ mu' # d
    BY <1>1, <1>2, <2>1
  <2>3. QED
    BY <2>2 DEF IInv, Right, Control
<1>8. Control(call, run)'
  <2>1. run'.step \in {"none", "ended"} => run'.events = {}
    BY <1>1 DEF IInv, Right, Control
  <2>2. ASSUME NEW d \in Call
        PROVE  /\ mu' = d => call'[d].step \in {"add", "event"}
               /\ call'[d].step = "event" => mu' = d
               /\ call'[d].step = "add" => call'[d].todo # <<>>
               /\ call'[d].event # {} => call'[d].step = "event"
               /\ call'[d].event \subseteq pool'.pending
    <3>1. CASE d = c
      <4>1. step = "request" => mu' # c
        BY <1>2, TxPoolAssumption
      <4>2. QED
        BY <1>3, <1>4, <3>1, <4>1
    <3>2. CASE d # c
      <4>1. call'[d] = call[d] /\ call[d].event = {} /\ mu' # d /\ call[d].step # "event"
        BY <1>4, <1>7, <3>2
      <4>2. call[d].step = "add" => call[d].todo # <<>>
        BY DEF IInv, Right, Control
      <4>3. QED
        BY <4>1, <4>2
    <3>3. QED
      BY <3>1, <3>2
  <2>3. QED
    BY <2>1, <2>2 DEF Control
<1>9. Waits(call, sched, run)'
  <2>1. \A d \in Call : call[d].step \in {"add", "event", "request"} =>
          /\ call[d].dirty = call'[d].dirty
          /\ call'[d].step \in {"add", "event", "request"}
    BY <1>3, <1>4
  <2>2. \A a : Attended(call, sched, run, a) => Attended(call, sched, run, a)'
    BY <1>1, <1>6, <2>1 DEF Attended
  <2>3. QED
    BY <1>1, <2>2 DEF IInv, Right, Waits
<1>10. Announced(call, sched, run)'
  <2>1. SUFFICES ASSUME stop = "no", ~failed, NEW u \in pool.pending
                 PROVE  \/ u \in announced' \/ u \in sched'.events \/ u \in run'.events
                        \/ \E d \in Call : u \in call'[d].event
    BY <1>1 DEF Announced
  <2>2. \/ u \in announced \/ u \in sched.events \/ u \in run.events
        \/ \E d \in Call : u \in call[d].event
    BY <2>1 DEF IInv, Right, Announced
  <2>3. CASE u \in sched.events \/ u \in call[c].event
    <3>1. Shape(pool)
      BY DEF IInv, Content
    <3>2. \A v \in call[c].event : v.from = u.from /\ v.nonce = u.nonce => v = u
      BY <1>5, <2>1, <3>1, Unique DEF Shape
    <3>3. Rival(call[c].event, u) \subseteq {u} \cap call[c].event
      BY <3>2 DEF Rival
    <3>4. u \in Put(sched.events, call[c].event)
      BY <2>3, <3>3 DEF Put
    <3>5. QED
      BY <1>6, <2>1, <3>4
  <2>4. CASE \E d \in Call : u \in call[d].event
    <3>1. u \in call[c].event
      BY <1>7, <2>4
    <3>2. QED
      BY <2>3, <3>1
  <2>5. QED
    BY <1>1, <2>2, <2>3, <2>4
<1>11. Forward(notices, sched, run)'
  BY <1>1, <1>6 DEF IInv, Right, Forward
<1>12. Right(notices, call, sched, run)'
  BY <1>1, <1>4, <1>6, <1>8, <1>9, <1>10, <1>11 DEF IInv, Right
<1>13. Others'
  BY <1>1, <1>2 DEF IInv, Others
<1>14. QED
  BY <1>1, <1>6, <1>12, <1>13 DEF IInv

\* requestPromoteExecutables
LEMMA RequestPromoteIInv ==
  ASSUME IInv, NEW c \in Call, RequestPromote(c)
  PROVE  IInv'
<1> DEFINE after(step) == [call EXCEPT ![c] = [step |-> step, todo |-> <<>>, event |-> {}, dirty |-> {}]]
<1>1. /\ call \in Calls /\ sched \in Scheds /\ run \in Runs /\ call[c].step = "request"
      /\ UNCHANGED <<pool, mu, head, notices, stop, announced, failed>>
  BY DEF RequestPromote, IInv, Right
<1>2. call[c].event = {} /\ mu # c
  BY <1>1, IdleCall
<1>3. ASSUME NEW step \in {"next", "done"}
      PROVE  /\ after(step) \in Calls
             /\ after(step)[c].step = step /\ after(step)[c].event = {} /\ after(step)[c].dirty = {}
             /\ \A d \in Call : d # c => after(step)[d] = call[d]
             /\ Control(after(step), run)
  <2> DEFINE k == after(step)
  <2>1. <<>> \in Seq(Tx)
    OBVIOUS
  <2>2. /\ k \in Calls /\ k[c].step = step /\ k[c].event = {} /\ k[c].dirty = {}
        /\ \A d \in Call : d # c => k[d] = call[d]
    BY <1>1, <2>1 DEF Calls, Step
  <2> HIDE DEF k
  <2>3. Control(k, run)
    BY <1>2, <2>2 DEF IInv, Right, Control
  <2>4. QED
    BY <2>2, <2>3 DEF k
<1>4. CASE Listening /\ Continue([sched EXCEPT !.launch = TRUE, !.dirty = @ \cup call[c].dirty],
                                 run, after(IF Args[c].sync THEN "next" ELSE "done"))
  <2> DEFINE k == after(IF Args[c].sync THEN "next" ELSE "done")
             s == [sched EXCEPT !.launch = TRUE, !.dirty = @ \cup call[c].dirty]
  <2>1. /\ k \in Calls /\ Control(k, run)
        /\ k[c].step \in {"next", "done"} /\ k[c].event = {} /\ k[c].dirty = {}
        /\ \A d \in Call : d # c => k[d] = call[d]
    <3>1. CASE Args[c].sync
      BY <1>3, <3>1
    <3>2. CASE ~Args[c].sync
      BY <1>3, <3>2
    <3>3. QED
      BY <3>1, <3>2
  <2>2. call[c].dirty \in SUBSET Account
    BY <1>1 DEF Calls
  <2>3. /\ s \in Scheds /\ s.launch /\ s.reset = sched.reset /\ s.events = sched.events
        /\ s.dirty = sched.dirty \cup call[c].dirty
    BY <1>1, <2>2 DEF Scheds
  <2>4. Continue(s, run, k)
    BY <1>4
  <2> HIDE DEF k, s
  <2>5. Forward(notices, s, run)
    BY <2>3 DEF IInv, Right, Forward
  <2>6. \A a : Attended(call, sched, run, a) => Attended(k, s, run, a)
    BY <2>1, <2>3 DEF Attended
  <2>7. Waits(k, s, run)
    BY <2>6 DEF IInv, Right, Waits
  <2>8. Announced(k, s, run)
    BY <1>2, <2>1, <2>3 DEF IInv, Right, Announced
  <2>9. Right(notices, k, s, run)
    BY <2>1, <2>3, <2>5, <2>7, <2>8 DEF IInv, Right
  <2>10. QED
    BY <1>1, <2>4, <2>9, Continuing
<1>5. CASE Closed /\ call' = after("done") /\ UNCHANGED <<sched, run>>
  <2>1. /\ call' \in Calls /\ Control(call', run)
    BY <1>3, <1>5
  <2>2. stop # "no"
    BY <1>5 DEF Closed, LoopUp
  <2>3. Right(notices, call, sched, run)'
    BY <1>1, <1>5, <2>1, <2>2 DEF IInv, Right, Control, Forward, Waits, Announced
  <2>4. QED
    BY <1>1, <1>5, <2>3 DEF IInv, Others
<1>6. QED
  BY <1>4, <1>5 DEF RequestPromote

\* The chain moves on.
LEMMA NewBlockIInv ==
  ASSUME IInv, NewBlock
  PROVE  IInv'
<1>1. /\ head < Len(HeadState) /\ head' = head + 1
      /\ UNCHANGED <<pool, mu, call, sched, run, stop, announced, failed>>
      /\ notices' = Append(notices, head') \/ notices' = notices
  BY DEF NewBlock
<1>2. head' \in HeadIndex /\ head' \in Nat /\ head \in Nat /\ head < head'
  BY <1>1 DEF IInv, Others, HeadIndex
<1>3. notices \in Seq(HeadIndex) /\ Len(notices) \in Nat
  BY DEF IInv, Right, Notices
<1>4. Forward(notices, sched, run)
  BY DEF IInv, Right
<1>5. /\ \A i \in 1 .. Len(notices) :
           /\ notices[i] \in Nat /\ notices[i] <= head /\ sched.reset <= notices[i]
           /\ run.reset <= notices[i] /\ pool.cur <= notices[i]
      /\ sched.reset <= head /\ run.reset <= head /\ pool.cur <= head
  BY <1>3, <1>4 DEF Forward, HeadIndex
<1>6. pool.cur \in Nat /\ sched.reset \in Nat /\ run.reset \in Nat
  BY DEF IInv, Right, Content, Shape, Pool, Scheds, Runs, None, HeadIndex
<1>7. notices' \in Seq(HeadIndex) /\ Forward(notices, sched, run)'
  <2>1. CASE notices' = notices
    BY <1>1, <1>2, <1>3, <1>4, <1>5, <1>6, <2>1 DEF Forward
  <2>2. CASE notices' = Append(notices, head')
    <3>1. /\ notices' \in Seq(HeadIndex) /\ Len(notices') = Len(notices) + 1
          /\ \A i \in 1 .. Len(notices) : notices'[i] = notices[i]
          /\ notices'[Len(notices) + 1] = head'
      BY <1>2, <1>3, <2>2, AppendProperties
    <3>2. \A i \in 1 .. Len(notices') :
            notices'[i] \in Nat /\ notices'[i] <= head' /\ sched.reset <= notices'[i]
            /\ run.reset <= notices'[i] /\ pool.cur <= notices'[i]
      <4>1. TAKE i \in 1 .. Len(notices')
      <4>2. CASE i \in 1 .. Len(notices)
        <5>1. notices'[i] = notices[i]
          BY <3>1, <4>2
        <5>2. /\ notices[i] \in Nat /\ notices[i] <= head /\ sched.reset <= notices[i]
              /\ run.reset <= notices[i] /\ pool.cur <= notices[i]
          BY <1>5, <4>2
        <5>3. notices[i] <= head'
          BY <1>2, <5>2
        <5>4. QED
          BY <5>1, <5>2, <5>3
      <4>3. CASE i = Len(notices) + 1
        <5>1. notices'[i] = head'
          BY <3>1, <4>3
        <5>2. /\ head' \in Nat /\ head' <= head' /\ sched.reset <= head' /\ run.reset <= head'
              /\ pool.cur <= head'
          BY <1>2, <1>5, <1>6
        <5>3. QED
          BY <5>1, <5>2
      <4>4. QED
        BY <1>3, <3>1, <4>2, <4>3
    <3>3. ASSUME NEW i \in 1 .. Len(notices'), NEW j \in 1 .. Len(notices'), i < j
          PROVE  notices'[i] <= notices'[j]
      <4>1. i \in 1 .. Len(notices)
        BY <1>3, <3>1, <3>3
      <4>2. CASE j \in 1 .. Len(notices)
        BY <1>4, <3>1, <3>3, <4>1, <4>2 DEF Forward
      <4>3. CASE j = Len(notices) + 1
        BY <3>1, <3>2, <4>3
      <4>4. QED
        BY <1>3, <3>1, <4>2, <4>3
    <3>4. sched.reset <= head' /\ run.reset <= head' /\ pool.cur <= head'
      BY <1>2, <1>5, <1>6
    <3>5. QED
      BY <1>1, <1>4, <3>1, <3>2, <3>3, <3>4 DEF Forward
  <2>3. QED
    BY <1>1, <2>1, <2>2
<1>8. Right(notices, call, sched, run)'
  BY <1>1, <1>7 DEF IInv, Right, Notices, Control, Waits, Announced, Attended
<1>9. QED
  BY <1>1, <1>2, <1>8 DEF IInv, Others

\* loop hands the oldest notice on.
LEMMA LoopResetIInv ==
  ASSUME IInv, LoopReset
  PROVE  IInv'
<1> DEFINE h == Head(notices)
           n == Tail(notices)
           s == [sched EXCEPT !.launch = TRUE, !.reset = h]
<1>1. /\ notices # <<>> /\ notices' = n /\ Continue(s, run, call)
      /\ UNCHANGED <<pool, mu, head, stop, announced, failed>>
  BY DEF LoopReset
<1>2. notices \in Seq(HeadIndex)
  BY DEF IInv, Right, Notices
<1>3. /\ h \in HeadIndex /\ n \in Seq(HeadIndex) /\ Len(n) = Len(notices) - 1
      /\ \A i \in 1 .. Len(n) : n[i] = notices[i + 1]
  BY <1>1, <1>2, HeadTailProperties
<1>4. h = notices[1] /\ Len(notices) \in Nat /\ Len(notices) > 0
  BY <1>1, <1>2
<1>5. /\ s \in Scheds /\ s.launch /\ s.reset = h /\ s.events = sched.events
      /\ s.dirty = sched.dirty
  BY <1>3 DEF IInv, Right, Scheds
<1> HIDE DEF h, n, s
<1>6. h \in Nat /\ h # None
  BY <1>3 DEF HeadIndex, None
<1>7. Forward(n, s, run)
  <2>1. Forward(notices, sched, run)
    BY DEF IInv, Right
  <2>2. /\ run.reset <= h /\ pool.cur <= h /\ h <= head
        /\ \A i \in 1 .. Len(notices) : 1 < i => h <= notices[i]
    <3>1. 1 \in 1 .. Len(notices)
      BY <1>4
    <3>2. QED
      BY <1>4, <2>1, <3>1 DEF Forward
  <2>3. ASSUME NEW i \in 1 .. Len(n)
        PROVE  /\ s.reset <= n[i] /\ run.reset <= n[i] /\ pool.cur <= n[i] /\ n[i] <= head
               /\ \A j \in 1 .. Len(n) : i < j => n[i] <= n[j]
    <3>1. i + 1 \in 1 .. Len(notices) /\ 1 < i + 1 /\ n[i] = notices[i + 1]
      BY <1>3, <1>4
    <3>2. h <= n[i] /\ run.reset <= n[i] /\ pool.cur <= n[i] /\ n[i] <= head
      BY <2>1, <2>2, <3>1 DEF Forward
    <3>3. ASSUME NEW j \in 1 .. Len(n), i < j
          PROVE  n[i] <= n[j]
      <4>1. j + 1 \in 1 .. Len(notices) /\ i + 1 < j + 1 /\ n[j] = notices[j + 1]
        BY <1>3, <1>4, <3>3
      <4>2. notices[i + 1] <= notices[j + 1]
        BY <2>1, <3>1, <4>1 DEF Forward
      <4>3. QED
        BY <3>1, <4>1, <4>2
    <3>4. QED
      BY <1>5, <3>2, <3>3
  <2>4. QED
    BY <1>5, <2>1, <2>2, <2>3 DEF Forward
<1>8. \A a : Attended(call, sched, run, a) => Attended(call, s, run, a)
  BY <1>5, <1>6 DEF Attended
<1>9. Waits(call, s, run) /\ Announced(call, s, run)
  BY <1>5, <1>8 DEF IInv, Right, Waits, Announced
<1>10. Right(n, call, s, run)
  BY <1>3, <1>5, <1>7, <1>9 DEF IInv, Right, Notices
<1>11. QED
  BY <1>1, <1>10, Continuing

\* The step changes the content, but not what is pending; it leaves no account waiting.
LEMMA ContentOnly ==
  ASSUME IInv, Content(pool'), RoomKept(pool'), pool'.pending = pool.pending,
         pool'.queue \subseteq pool.queue, pool'.nonce = pool.nonce, pool'.cur = pool.cur,
         UNCHANGED <<mu, head, notices, call, sched, run, stop, announced, failed>>
  PROVE  IInv'
<1>1. \A t : Stuck(pool', t) <=> Stuck(pool, t)
  BY DEF Stuck
<1>2. Waits(call, sched, run)'
  <2>1. \A a : Attended(call, sched, run, a) <=> Attended(call, sched, run, a)'
    BY DEF Attended
  <2>2. QED
    BY <1>1, <2>1 DEF IInv, Right, Waits
<1>3. Right(notices, call, sched, run)'
  BY <1>2 DEF IInv, Right, Control, Forward, Announced
<1>4. QED
  BY <1>3 DEF IInv, Others

\* The eviction of queues that were idle
LEMMA LoopEvictIInv ==
  ASSUME IInv, LoopEvict
  PROVE  IInv'
<1>1. PICK A \in SUBSET ({t.from : t \in pool.queue} \ pool.locals) :
        pool' = RemoveTxs(pool, {t \in pool.queue : t.from \in A})
  BY DEF LoopEvict
<1> DEFINE D == {t \in pool.queue : t.from \in A}
<1>2. Content(pool) /\ RoomKept(pool) /\ Shape(pool) /\ D \in SUBSET pool.queue /\ D \in SUBSET pool.all
  BY DEF IInv, Content, Shape
<1> HIDE DEF D
<1>3. /\ Shrunk(pool, pool') /\ pool'.pending = pool.pending /\ pool'.queue = pool.queue \ D
      /\ pool'.nonce = pool.nonce /\ pool'.cur = pool.cur
  BY <1>1, <1>2, RemoveQueued DEF D
<1>4. Content(pool')
  BY <1>1, <1>2, RemoveTxsContent DEF D
<1>5. RoomKept(pool')
  BY <1>2, <1>3, ShrunkRoom
<1>6. UNCHANGED <<mu, head, notices, call, sched, run, stop, announced, failed>>
  BY DEF LoopEvict
<1>7. QED
  BY <1>3, <1>4, <1>5, <1>6, ContentOnly

\* The rotation of the journal
LEMMA LoopRotateIInv ==
  ASSUME IInv, LoopRotate
  PROVE  IInv'
<1> DEFINE J == {t \in pool.pending \cup pool.queue : t.from \in pool.locals}
<1>1. Content(pool) /\ RoomKept(pool) /\ J \in SUBSET Tx
  BY Lists DEF IInv, Content
<1> HIDE DEF J
<1>2. pool' = [pool EXCEPT !.journal = J]
  BY DEF LoopRotate, J
<1>3. /\ Content(pool') /\ RoomKept(pool')
      /\ pool'.pending = pool.pending /\ pool'.queue = pool.queue /\ pool'.nonce = pool.nonce
      /\ pool'.cur = pool.cur
  BY <1>1, <1>2, SameContent
<1>4. UNCHANGED <<mu, head, notices, call, sched, run, stop, announced, failed>>
  BY DEF LoopRotate
<1>5. QED
  BY <1>3, <1>4, ContentOnly

\* What a run does to the content, with or without a reset
LEMMA RunIs ==
  ASSUME IInv, NEW found \in BOOLEAN, found => run.reset # None,
         NEW p, p = (IF found THEN Reset(pool, run.reset) ELSE pool),
         NEW q, q = AfterPromote(p), NEW r \in RunOutcomes(q)
  PROVE  /\ Content(r) /\ RoomKept(r) /\ LimitsHold(r) /\ Shrunk(pool, r)
         /\ r.pending \subseteq q.pending /\ Shape(q)
         /\ r.locals = pool.locals /\ r.journal = pool.journal
         /\ p.pending = pool.pending
         /\ r.cur = p.cur /\ p.cur = (IF found THEN run.reset ELSE pool.cur)
         /\ found => \A a \in Account : p.nonce[a] = StateNonce(r, a)
         /\ \A t \in r.queue : Stuck(r, t) =>
              t \in pool.queue /\ Stuck(pool, t) /\ run.reset = None /\ t.from \notin run.dirty
<1>1. /\ Content(pool) /\ RoomKept(pool) /\ Shape(pool)
      /\ run.reset \in {None} \cup HeadIndex /\ run.dirty \in SUBSET Account
      /\ run.reset # None => pool.cur <= run.reset
  BY DEF IInv, Content, Right, Runs, Forward
<1>2. /\ Start(p) /\ Shrunk(pool, p) /\ p.pending = pool.pending
      /\ p.locals = pool.locals /\ p.journal = pool.journal
      /\ p.cur = (IF found THEN run.reset ELSE pool.cur)
      /\ found => \A a \in Account : p.nonce[a] = StateNonce(p, a)
      /\ ~found => p = pool
  <2>1. CASE found
    BY <1>1, <2>1, ResetIs
  <2>2. CASE ~found
    <3>1. Shrunk(pool, pool)
      BY <1>1 DEF Shape, Shrunk
    <3>2. QED
      BY <1>1, <2>2, <3>1, ContentStarts
  <2>3. QED
    BY <2>1, <2>2
<1>3. Shape(q) /\ (Shrunk(p, r) => Shrunk(pool, r)) /\ (Shrunk(pool, r) => RoomKept(r))
  <2>1. q = Promote(p, IF run.reset # None THEN Account ELSE run.dirty)
    BY DEF AfterPromote
  <2>2. Shape(q)
    BY <1>1, <1>2, <2>1, PromoteFit DEF Fit
  <2>3. QED
    BY <1>1, <1>2, <2>2, ShrunkTwice, ShrunkRoom
<1>4. CASE run.reset # None
  <2>1. q = Promote(p, Account) /\ r \in {NoncesSet(x) : x \in TruncateQueue(TruncatePending(Demote(q)))}
    BY <1>4 DEF AfterPromote, RunOutcomes
  <2>2. /\ Content(r) /\ Shrunk(p, r) /\ LimitsHold(r) /\ r.pending \subseteq q.pending
        /\ r.cur = p.cur /\ r.locals = p.locals /\ r.journal = p.journal
        /\ \A t \in r.queue : ~Stuck(r, t)
    BY <1>2, <2>1, RunReset
  <2>3. \A a : StateNonce(r, a) = StateNonce(p, a)
    BY <2>2, SameState
  <2>4. QED
    BY <1>2, <1>3, <2>2, <2>3
<1>5. CASE run.reset = None
  <2>1. /\ q = Promote(p, run.dirty) /\ p = pool /\ ~found
        /\ r \in {NoncesSet(x) : x \in TruncateQueue(TruncatePending(q))}
    BY <1>2, <1>5 DEF AfterPromote, RunOutcomes
  <2>2. /\ Content(r) /\ Shrunk(p, r) /\ LimitsHold(r) /\ r.pending \subseteq q.pending
        /\ r.cur = p.cur /\ r.locals = p.locals /\ r.journal = p.journal
        /\ \A t \in r.queue : Stuck(r, t) => t \in p.queue /\ Stuck(p, t) /\ t.from \notin run.dirty
    BY <1>1, <2>1, RunPlain
  <2>3. QED
    BY <1>2, <1>3, <1>5, <2>1, <2>2
<1>6. QED
  BY <1>4, <1>5

\* The parts of a run that RunIs speaks of
LEMMA RunParts ==
  ASSUME RunLocked
  PROVE  \E found \in BOOLEAN :
           LET p == IF found THEN Reset(pool, run.reset) ELSE pool
               q == AfterPromote(p)
           IN /\ found => run.reset # None
              /\ pool' \in RunOutcomes(q)
              /\ run' = [run EXCEPT !.step = "send",
                                    !.events = Put(Fresh(@, p), q.pending \ p.pending)]
              /\ failed' = (failed \/ (run.reset # None /\ ~found))
BY DEF RunLocked

\* A run as a whole
LEMMA RunStep ==
  ASSUME IInv, RunLocked
  PROVE  /\ Shrunk(pool, pool') /\ LimitsHold(pool')
         /\ pool'.locals = pool.locals /\ pool'.journal = pool.journal
<1>1. PICK found \in BOOLEAN :
        /\ found => run.reset # None
        /\ pool' \in RunOutcomes(AfterPromote(IF found THEN Reset(pool, run.reset) ELSE pool))
  BY RunParts
<1> DEFINE p == IF found THEN Reset(pool, run.reset) ELSE pool
           q == AfterPromote(p)
<1>2. pool' \in RunOutcomes(q) /\ (found => run.reset # None)
  BY <1>1
<1>3. QED
  BY <1>2, RunIs

\* A run with the lock
LEMMA RunLockedIInv ==
  ASSUME IInv, RunLocked
  PROVE  IInv'
<1>1. PICK found \in BOOLEAN :
        LET p == IF found THEN Reset(pool, run.reset) ELSE pool
            q == AfterPromote(p)
        IN /\ found => run.reset # None
           /\ pool' \in RunOutcomes(q)
           /\ run' = [run EXCEPT !.step = "send",
                                 !.events = Put(Fresh(@, p), q.pending \ p.pending)]
           /\ failed' = (failed \/ (run.reset # None /\ ~found))
  BY RunParts
<1> DEFINE p == IF found THEN Reset(pool, run.reset) ELSE pool
           q == AfterPromote(p)
           T == q.pending \ p.pending
           E == Put(Fresh(run.events, p), T)
<1>2. /\ found => run.reset # None
      /\ pool' \in RunOutcomes(q)
      /\ run' = [run EXCEPT !.step = "send", !.events = E]
      /\ failed' = (failed \/ (run.reset # None /\ ~found))
  BY <1>1
<1>3. /\ run.step = "lock" /\ mu = Free /\ run \in Runs /\ failed \in BOOLEAN
      /\ UNCHANGED <<mu, head, notices, call, sched, stop, announced>>
  BY DEF RunLocked, IInv, Right, Others
<1>4. /\ Content(pool') /\ RoomKept(pool')
      /\ pool'.pending \subseteq q.pending /\ Shape(q)
      /\ p.pending = pool.pending
      /\ pool'.cur = p.cur /\ p.cur = (IF found THEN run.reset ELSE pool.cur)
      /\ found => \A a \in Account : p.nonce[a] = StateNonce(pool', a)
      /\ \A t \in pool'.queue : Stuck(pool', t) =>
           t \in pool.queue /\ Stuck(pool, t) /\ run.reset = None /\ t.from \notin run.dirty
  <2> HIDE DEF E, T
  <2>1. found => run.reset # None
    BY <1>2
  <2>2. pool' \in RunOutcomes(q)
    BY <1>2
  <2>3. QED
    BY <2>1, <2>2, RunIs
<1>5. E \in SUBSET Tx
  <2>1. q.pending \in SUBSET Tx
    BY <1>4, Lists
  <2>2. run.events \in SUBSET Tx
    BY <1>3 DEF Runs
  <2> HIDE DEF p, q
  <2>3. QED
    BY <2>1, <2>2 DEF Put, Fresh
<1>6. /\ run' \in Runs /\ run'.step = "send" /\ run'.events = E /\ run'.reset = run.reset
      /\ run'.dirty = run.dirty
  <2> HIDE DEF E
  <2>1. QED
    BY <1>2, <1>3, <1>5 DEF Runs
<1>7. \A c \in Call : call[c].event = {} /\ call[c].step # "event"
  BY <1>3, TxPoolAssumption DEF IInv, Right, Control
<1>8. Announced(call, sched, run)'
  <2>1. SUFFICES ASSUME stop = "no", ~failed', NEW t \in pool'.pending
                 PROVE  t \in announced \/ t \in sched.events \/ t \in E
    <3> HIDE DEF E
    <3>1. QED
      BY <1>3, <1>6 DEF Announced
  <2>2. ~failed /\ (run.reset # None => found) /\ t \in q.pending
    BY <1>2, <1>4, <2>1
  <2>3. CASE t \in T
    BY <2>3 DEF Put
  <2>4. CASE t \in pool.pending /\ t \notin T
    <3>1. \/ t \in announced \/ t \in sched.events \/ t \in run.events
      BY <1>7, <2>1, <2>2, <2>4 DEF IInv, Right, Announced
    <3>2. CASE t \in run.events
      <4>1. t \in Fresh(run.events, p)
        <5>1. CASE run.reset = None
          BY <3>2, <5>1 DEF Fresh
        <5>2. CASE run.reset # None
          <6>1. t.from \in Account
            BY <1>4, <2>1, Lists, TxType DEF Content
          <6>2. p.nonce[t.from] = StateNonce(pool', t.from)
            BY <1>4, <2>2, <5>2, <6>1
          <6>3. StateNonce(pool', t.from) <= t.nonce
            BY <1>4, <2>1 DEF Content, Executable
          <6> HIDE DEF p
          <6>4. QED
            BY <3>2, <5>2, <6>2, <6>3 DEF Fresh
        <5>3. QED
          BY <5>1, <5>2
      <4>2. Rival(T, t) = {}
        <5>1. SUFFICES ASSUME NEW u \in T, u.from = t.from, u.nonce = t.nonce
                       PROVE  FALSE
          BY DEF Rival
        <5>2. u \in q.all /\ t \in q.all
          <6> HIDE DEF q
          <6>1. QED
            BY <1>4, <2>2, <5>1 DEF Shape
        <5> HIDE DEF q
        <5>3. u = t
          BY <1>4, <5>1, <5>2, Unique
        <5>4. QED
          BY <2>4, <5>1, <5>3
      <4> HIDE DEF T, p
      <4>3. QED
        BY <4>1, <4>2 DEF Put
    <3>3. QED
      BY <3>1, <3>2
  <2>5. QED
    BY <1>4, <2>2, <2>3, <2>4
<1> HIDE DEF E, T, q, p
<1>9. Control(call, run)'
  <2>1. \A c \in Call : call[c].step = "add" => call[c].todo # <<>>
    BY DEF IInv, Right, Control
  <2>2. \A c \in Call : mu # c
    BY <1>3, TxPoolAssumption
  <2>3. QED
    BY <1>3, <1>6, <1>7, <2>1, <2>2 DEF Control
<1>10. Waits(call, sched, run)'
  <2>1. SUFFICES ASSUME stop = "no", NEW t \in pool'.queue, Stuck(pool', t)
                 PROVE  Attended(call, sched, run, t.from)'
    BY <1>3 DEF Waits
  <2>2. t \in pool.queue /\ Stuck(pool, t) /\ run.reset = None /\ t.from \notin run.dirty
    BY <1>4, <2>1
  <2>3. Attended(call, sched, run, t.from)
    BY <2>1, <2>2 DEF IInv, Right, Waits
  <2>4. QED
    BY <1>3, <2>2, <2>3 DEF Attended
<1>11. Forward(notices, sched, run)'
  <2>1. Forward(notices, sched, run)
    BY DEF IInv, Right
  <2>2. pool.cur \in Nat /\ run.reset \in Nat /\ sched.reset \in Nat /\ head \in Nat
    BY DEF IInv, Right, Others, Content, Shape, Pool, Scheds, Runs, None, HeadIndex
  <2>3. \A i \in 1 .. Len(notices) : notices[i] \in Nat
    BY DEF IInv, Right, Notices, HeadIndex
  <2>4. (pool'.cur = run.reset /\ run.reset # None) \/ pool'.cur = pool.cur
    BY <1>2, <1>4
  <2>5. QED
    BY <1>3, <1>6, <2>1, <2>2, <2>3, <2>4 DEF Forward
<1>12. Right(notices, call, sched, run)'
  BY <1>3, <1>6, <1>8, <1>9, <1>10, <1>11 DEF IInv, Right
<1>13. Others'
  BY <1>2, <1>3 DEF IInv, Others
<1>14. QED
  BY <1>4, <1>6, <1>12, <1>13 DEF IInv

\* The run without the lock
LEMMA RunSendsIInv ==
  ASSUME IInv, RunSends
  PROVE  IInv'
<1>1. /\ run.step = "send" /\ run \in Runs /\ call' = Released(call, "cur", "done")
      /\ UNCHANGED <<pool, mu, head, notices, sched, stop, failed>>
      /\ announced' = IF stop = "no" THEN announced \cup run.events ELSE announced
  BY DEF RunSends, IInv, Right
<1>2. /\ run' \in Runs /\ run'.step = "ended" /\ run'.events = {} /\ run'.reset = None
      /\ run'.dirty = {}
  BY DEF RunSends, Over, Runs
<1>3. Right(notices, call', sched, run)
  BY <1>1, ReleasedRight DEF IInv
<1>4. Forward(notices, sched, run)'
  <2>1. pool.cur \in Nat /\ sched.reset \in Nat /\ head \in Nat
    BY DEF IInv, Right, Others, Content, Shape, Pool, Scheds, None, HeadIndex
  <2>2. \A i \in 1 .. Len(notices) : notices[i] \in Nat
    BY DEF IInv, Right, Notices, HeadIndex
  <2>3. QED
    BY <1>1, <1>2, <1>3, <2>1, <2>2 DEF Right, Forward, None
<1>5. Waits(call, sched, run)'
  BY <1>1, <1>3 DEF Right, Waits, Attended
<1>6. Announced(call, sched, run)'
  BY <1>1, <1>3 DEF Right, Announced
<1>7. Control(call, run)'
  BY <1>1, <1>2, <1>3 DEF Right, Control
<1>8. Right(notices, call, sched, run)'
  BY <1>1, <1>2, <1>3, <1>4, <1>5, <1>6, <1>7 DEF Right
<1>9. announced' \subseteq Tx
  BY <1>1 DEF IInv, Others, Runs
<1>10. QED
  BY <1>1, <1>2, <1>8, <1>9 DEF IInv, Others

----------------------------------------------------------------------------
(* The theorems *)

\* The pool starts empty.
LEMMA InitIInv == Init => IInv
<1> SUFFICES ASSUME Init
             PROVE  IInv
  OBVIOUS
<1>1. /\ pool = [pending |-> {}, queue |-> {}, all |-> {}, own |-> {}, locals |-> {},
                 nonce |-> [a \in Account |-> HeadState[1][a].nonce], cur |-> 1, journal |-> {}]
      /\ mu = Free /\ head = 1 /\ notices = <<>> /\ sched = Idle /\ run = Over /\ stop = "no"
      /\ announced = {} /\ failed = FALSE
  BY DEF Init
<1>2. 1 \in HeadIndex
  BY TxListsAssumption DEF HeadIndex
<1>3. \A a \in Account : HeadState[1][a].nonce \in Nat
  BY <1>2, TxListsAssumption
<1>4. /\ pool \in Pool /\ pool.cur = 1 /\ pool.pending = {} /\ pool.queue = {} /\ pool.all = {}
      /\ pool.own = {} /\ \A a \in Account : pool.nonce[a] = StateNonce(pool, a)
  BY <1>1, <1>2, <1>3 DEF Pool, StateNonce
<1>5. Content(pool)
  <2>1. Shape(pool)
    BY <1>4, FS_EmptySet DEF Shape
  <2>2. NoncesFilled(pool)
    <3>1. \A a \in Account : StateNonce(pool, a) \in Nat
      BY <1>4, StateType
    <3>2. QED
      BY <1>4, <3>1 DEF NoncesFilled
  <2>3. QED
    BY <1>4, <2>1, <2>2 DEF Content, Executable
<1>6. RoomKept(pool)
  BY <1>4 DEF RoomKept
<1>7. call \in Calls /\ \A c \in Call : call[c].event = {} /\ call[c].step \in {"idle", "done"}
  <2>1. PICK M \in Made :
          call = [c \in Call |-> [step |-> IF c \in M THEN "idle" ELSE "done", todo |-> <<>>,
                                  event |-> {}, dirty |-> {}]]
    BY DEF Init
  <2>2. QED
    BY <2>1 DEF Calls, Step
<1>8. /\ sched \in Scheds /\ sched.reset = 0 /\ ~sched.launch
      /\ run \in Runs /\ run.step = "none" /\ run.events = {} /\ run.reset = 0
  BY <1>1 DEF Idle, Over, Scheds, Runs, None
<1>9. \A c \in Call : mu # c
  BY <1>1, TxPoolAssumption
<1>10. Control(call, run)
  BY <1>7, <1>8, <1>9 DEF Control
<1>11. notices \in Notices /\ Len(notices) = 0
  BY <1>1 DEF Notices
<1>12. Forward(notices, sched, run)
  BY <1>1, <1>4, <1>8, <1>11 DEF Forward, None
<1>13. Waits(call, sched, run) /\ Announced(call, sched, run)
  BY <1>4 DEF Waits, Announced
<1>14. Right(notices, call, sched, run)
  BY <1>7, <1>8, <1>10, <1>11, <1>12, <1>13 DEF Right
<1>15. QED
  BY <1>1, <1>2, <1>5, <1>6, <1>8, <1>14 DEF IInv, Others

\* Every step keeps the invariant.
LEMMA NextIInv == IInv /\ [Next]_vars => IInv'
<1> SUFFICES ASSUME IInv, [Next]_vars
             PROVE  IInv'
  OBVIOUS
<1>1. CASE \E c \in Call : CallNext(c)
  BY <1>1, BeginIInv, AddTxIInv, QueueEventIInv, RequestPromoteIInv DEF CallNext
<1>2. CASE CurDone
  BY <1>2, CurDoneIInv
<1>3. CASE SchedLeaves \/ SchedExits \/ Stop \/ LoopExits
  BY <1>3, StopsOnly DEF SchedLeaves, SchedExits, Stop, LoopExits
<1>4. CASE NewBlock
  BY <1>4, NewBlockIInv
<1>5. CASE LoopReset
  BY <1>5, LoopResetIInv
<1>6. CASE LoopEvict
  BY <1>6, LoopEvictIInv
<1>7. CASE LoopRotate
  BY <1>7, LoopRotateIInv
<1>8. CASE RunLocked
  BY <1>8, RunLockedIInv
<1>9. CASE RunSends
  BY <1>9, RunSendsIInv
<1>10. CASE UNCHANGED vars
  BY <1>10 DEF vars, IInv, Right, Others, Control, Forward, Waits, Announced, Attended
<1>11. QED
  BY <1>1, <1>2, <1>3, <1>4, <1>5, <1>6, <1>7, <1>8, <1>9, <1>10 DEF Next

\* The invariant holds in every behaviour of calls, loops and runs.
THEOREM Invariance == Spec => []IInv
BY InitIInv, NextIInv, PTL DEF Spec

\* Every variable keeps its type, and only a call in the middle of adding holds mu.
THEOREM Typing == Spec => []TypeOK
<1>1. IInv => TypeOK
  BY DEF IInv, Others, Right, Control, Content, Shape, Notices, Calls, Scheds, Runs, TypeOK
<1>2. QED
  BY <1>1, Invariance, PTL

\* The lookup has what the lists have, a nonce of an account is taken once, what is pending can be
\* executed and reaches to the next nonce, and no queued transaction that could be processed
\* stays behind when nothing is under way.
THEOREM ListsAgree == Spec => []ListsRight
<1>1. IInv => LookupMatchesLists
  BY DEF IInv, Content, Shape, LookupMatchesLists
<1>2. ASSUME IInv
      PROVE  PendingIsExecutable
  <2>1. Shape(pool) /\ Executable(pool) /\ NoncesFilled(pool) /\ pool \in Pool
    BY <1>2 DEF IInv, Content, Shape
  <2>2. ASSUME NEW a \in Account
        PROVE  {t.nonce : t \in Of(pool.pending, a)} = StateNonce(pool, a) .. pool.nonce[a] - 1
    <3>1. StateNonce(pool, a) \in Nat /\ pool.nonce[a] \in Nat
      BY <2>1, StateType
    <3>2. \A t \in Of(pool.pending, a) : t.nonce \in StateNonce(pool, a) .. pool.nonce[a] - 1
      <4>1. TAKE t \in Of(pool.pending, a)
      <4>2. t \in pool.pending /\ t.from = a
        BY DEF Of
      <4>3. t.nonce \in Nat
        BY <2>1, <4>2, Lists, TxType
      <4>4. StateNonce(pool, a) <= t.nonce /\ t.nonce < pool.nonce[a]
        BY <2>1, <4>2 DEF Executable
      <4>5. QED
        BY <3>1, <4>3, <4>4
    <3>3. \A n \in StateNonce(pool, a) .. pool.nonce[a] - 1 :
            \E t \in Of(pool.pending, a) : t.nonce = n
      BY <2>1 DEF NoncesFilled, Of
    <3>4. QED
      BY <3>2, <3>3
  <2>3. QED
    BY <2>1, <2>2 DEF PendingIsExecutable, Executable
<1>3. ASSUME IInv
      PROVE  QueueWaits
  <2>1. SUFFICES ASSUME Quiet, NEW t \in pool.queue, t.nonce = pool.nonce[t.from],
                        Of(pool.pending, t.from) = {}
                 PROVE  FALSE
    BY DEF QueueWaits
  <2>2. Attended(call, sched, run, t.from)
    BY <1>3, <2>1 DEF IInv, Right, Waits, Stuck, Quiet
  <2>3. ~sched.launch /\ run.step = "none" /\ \A c \in Call : call[c].step \in {"idle", "done"}
    BY <1>3, <2>1 DEF IInv, Quiet
  <2>4. QED
    BY <2>2, <2>3 DEF Attended
<1>4. IInv => ListsRight
  BY <1>1, <1>2, <1>3 DEF ListsRight, NoncesInOrder
<1>5. QED
  BY <1>4, Invariance, PTL

\* After any step subscribers and the journal know what they have to know.
THEOREM Lossless == Spec => NothingLost
<1>1. IInv' => PendingIsAnnounced'
  BY DEF IInv, Right, Announced, PendingIsAnnounced, Coming
<1>2. ASSUME IInv, [Next]_vars
      PROVE  LocalJournaled
  <2>1. CASE pool' = pool
    BY <2>1 DEF LocalJournaled
  <2>2. CASE \E c \in Call : AddTx(c)
    <3>1. PICK c \in Call : AddTx(c)
      BY <2>2
    <3>2. PICK o \in AddOutcomes(pool, Head(call[c].todo), Args[c].local) : pool' = o.pool
      BY <3>1 DEF AddTx
    <3>3. call[c].todo \in Seq(Tx) /\ call[c].todo # <<>>
      BY <1>2, <3>1 DEF AddTx, IInv, Right, Control, Calls
    <3>4. Head(call[c].todo) \in Tx /\ Args[c].local \in BOOLEAN
      BY <3>3, HeadTailProperties, TxPoolAssumption
    <3>5. Content(pool) /\ RoomKept(pool)
      BY <1>2 DEF IInv
    <3>6. Adds(pool, Head(call[c].todo), o)
      BY <3>2, <3>4, <3>5, AddIs
    <3>7. QED
      BY <3>2, <3>6 DEF Adds, LocalJournaled
  <2>3. ASSUME Shrunk(pool, pool'), pool'.locals = pool.locals, pool'.journal = pool.journal
        PROVE  LocalJournaled
    BY <2>3 DEF Shrunk, LocalJournaled
  <2>4. CASE LoopEvict
    <3>1. PICK A \in SUBSET ({t.from : t \in pool.queue} \ pool.locals) :
            pool' = RemoveTxs(pool, {t \in pool.queue : t.from \in A})
      BY <2>4 DEF LoopEvict
    <3>2. Shape(pool) /\ {t \in pool.queue : t.from \in A} \in SUBSET pool.queue
      BY <1>2 DEF IInv, Content
    <3>3. QED
      BY <2>3, <3>1, <3>2, RemoveQueued
  <2>5. CASE LoopRotate
    <3>1. pool' = [pool EXCEPT !.journal = {t \in pool.pending \cup pool.queue : t.from \in pool.locals}]
      BY <2>5 DEF LoopRotate
    <3>2. pool \in Pool /\ pool.all = pool.pending \cup pool.queue
      BY <1>2 DEF IInv, Content, Shape
    <3>3. /\ pool'.all = pool.all /\ pool'.locals = pool.locals
          /\ pool'.journal = {t \in pool.all : t.from \in pool.locals}
      BY <3>1, <3>2 DEF Pool
    <3>4. QED
      BY <3>3 DEF LocalJournaled
  <2>6. CASE RunLocked
    BY <1>2, <2>3, <2>6, RunStep
  <2>7. CASE ~((\E c \in Call : AddTx(c)) \/ LoopEvict \/ LoopRotate \/ RunLocked)
    <3>1. pool' = pool
      BY <1>2, <2>7
      DEF Next, vars, CallNext, Begin, QueueEvent, RequestPromote, CurDone, SchedLeaves,
          SchedExits, NewBlock, LoopReset, Stop, LoopExits, RunSends
    <3>2. QED
      BY <2>1, <3>1
  <2>8. QED
    BY <2>2, <2>4, <2>5, <2>6, <2>7
<1>3. IInv /\ IInv' /\ [Next]_vars => PendingIsAnnounced' /\ LocalJournaled
  BY <1>1, <1>2
<1>4. QED
  BY <1>1, <1>3, Invariance, PTL DEF Spec, NothingLost

\* The pool has room for what it has, and a run leaves no list above its limit.
THEOREM Limits == Spec => Bounded
<1>1. IInv' => RoomKept(pool')
  BY DEF IInv
<1>2. ASSUME IInv, Next, run.step = "lock", run'.step = "send"
      PROVE  LimitsHold(pool')
  <2>1. CASE RunLocked
    BY <1>2, <2>1, RunStep
  <2>2. CASE ~RunLocked
    <3>1. \A s, k : Continue(s, run, k) => run' = run
      BY <1>2 DEF Continue
    <3>2. run' = run
      BY <1>2, <2>2, <3>1
      DEF Next, vars, CallNext, Begin, AddTx, QueueEvent, RequestPromote, CurDone, SchedLeaves,
          SchedExits, NewBlock, LoopReset, LoopEvict, LoopRotate, Stop, LoopExits, RunSends
    <3>3. QED
      BY <1>2, <3>2
  <2>3. QED
    BY <2>1, <2>2
<1>3. IInv /\ IInv' /\ [Next]_vars =>
        [ /\ RoomKept(pool')
          /\ run.step = "lock" /\ run'.step = "send" => LimitsHold(pool') ]_vars
  BY <1>1, <1>2
<1>4. QED
  BY <1>1, <1>3, Invariance, PTL DEF Spec, Bounded
=============================================================================
