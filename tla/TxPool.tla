------------------------------- MODULE TxPool -------------------------------
(***************************************************************************)
(* The transaction pool (txpool/tx_pool.go, tx_list.go, store.go and       *)
(* txpoolServer.go).  Every operation holds the pool's lock, so it is one  *)
(* action.  A list (txSortedMap) is a set of transactions of one account   *)
(* with different nonces; the heap, the index and the cache of a list are  *)
(* left out.  Signatures and CheckTx decide whether a transaction is valid *)
(* at all; one that is refused by them is one that never came.             *)
(*                                                                         *)
(* The ledger's nonces move when a block is written; the pool hears of the *)
(* block only afterwards, through DelTxs.  Transactions may arrive in      *)
(* between.                                                                *)
(***************************************************************************)
EXTENDS Integers, FiniteSets, Sequences, SequencesExt

CONSTANTS Accounts, Tx, MaxNonce, Unset,
          AccountSlots, GlobalSlots, AccountQueue, GlobalQueue

VARIABLES pool,     \* the fields of TxPool
          nonces,   \* the nonce of every account in the ledger
          written   \* transactions of a block written but not yet deleted

poolVars == <<pool, nonces, written>>

NoBlock == [none |-> TRUE]

\* tx is [from, nonce, id]; two transactions may share from and nonce.
NonceValues(list) == {tx.nonce : tx \in list}
\* Get, and with it Overlaps and the test of Add.
At(list, n) == {tx \in list : tx.nonce = n}
Least(list) == Min(NonceValues(list))
Greatest(list) == Max(NonceValues(list))

(***************************************************************************)
(* txSortedMap: what Forward, Cap and Ready remove from a list.            *)
(***************************************************************************)
Forward(list, threshold) == {tx \in list : tx.nonce < threshold}

\* Faulty variant: the limit is off by one.
CapLate(list, threshold) ==
  {tx \in list : Cardinality({u \in list : u.nonce < tx.nonce}) > threshold}

Cap(list, threshold) ==
  {tx \in list : Cardinality({u \in list : u.nonce <= tx.nonce}) > threshold}

\* Faulty variant: everything from the first nonce on is ready, gaps or not.
ReadyGapped(list, start) ==
  IF list = {} \/ Least(list) > start THEN {} ELSE list

Ready(list, start) ==
  IF list = {} \/ Least(list) > start
  THEN {}
  ELSE {tx \in list : Least(list) .. tx.nonce \subseteq NonceValues(list)}

\* PendingCache.GetNonce: the virtual nonce, or the ledger's where none is set.
GetNonce(p, a) == IF p.virtual[a] = Unset THEN nonces[a] ELSE p.virtual[a]

\* beats holds the accounts with a heartbeat, the latest one last.
Without(beats, S) == SelectSeq(beats, LAMBDA a : a \notin S)

(***************************************************************************)
(* enqueueTx for a set of transactions of one account: a nonce that the    *)
(* queue already has is refused.                                           *)
(***************************************************************************)
Enqueue(p, a, txs) ==
  LET new == {tx \in txs : At(p.queue[a], tx.nonce) = {}}
  IN  [p EXCEPT !.queue[a] = @ \cup new, !.lookup = @ \cup new]

\* removeTx: a list forgets whatever it has at this nonce; what followed it in
\* pending goes back to the queue and the virtual nonce is lowered.
RemoveTx(p, tx) ==
  LET a == tx.from
      q == [p EXCEPT !.lookup = @ \ {tx}]
      kept == Forward(p.pending[a], tx.nonce)
      lowered == [q EXCEPT
        !.pending[a] = kept,
        !.virtual[a] = IF GetNonce(p, a) > tx.nonce THEN tx.nonce ELSE @,
        !.beats = IF kept = {} THEN Without(@, {a}) ELSE @]
  IN  IF tx \notin p.lookup THEN p
      ELSE IF At(p.pending[a], tx.nonce) # {}
      THEN Enqueue(lowered, a, {u \in p.pending[a] : u.nonce > tx.nonce})
      ELSE [q EXCEPT !.queue[a] = @ \ At(@, tx.nonce)]

RemoveTxs(p, txs) == FoldLeft(RemoveTx, p, txs)

(***************************************************************************)
(* promoteExecutables.  First every account on its own: Turn is what       *)
(* becomes of account a.                                                   *)
(***************************************************************************)
\* Faulty variant: old transactions stay in the lookup table.
TurnLeak(p, a) ==
  LET old == Forward(p.queue[a], nonces[a])
      ready == Ready(p.queue[a] \ old, GetNonce(p, a))
      left == p.queue[a] \ (old \cup ready)
      over == IF a \in p.locals THEN {} ELSE Cap(left, AccountQueue)
  IN  [promoted |-> ready, queued |-> left \ over, dropped |-> over]

\* Faulty variant: the allowance of an account also limits local ones.
TurnCapAll(p, a) ==
  LET old == Forward(p.queue[a], nonces[a])
      ready == Ready(p.queue[a] \ old, GetNonce(p, a))
      left == p.queue[a] \ (old \cup ready)
      over == Cap(left, AccountQueue)
  IN  [promoted |-> ready, queued |-> left \ over, dropped |-> old \cup over]

Turn(p, a) ==
  LET old == Forward(p.queue[a], nonces[a])
      ready == Ready(p.queue[a] \ old, GetNonce(p, a))
      better == {tx \in ready : At(p.pending[a], tx.nonce) # {}}
      left == p.queue[a] \ (old \cup ready)
      over == IF a \in p.locals THEN {} ELSE Cap(left, AccountQueue)
  IN  [promoted |-> ready \ better, queued |-> left \ over,
       dropped |-> old \cup better \cup over]

PromoteAccounts(p, S) ==
  LET turn == [a \in S |-> Turn(p, a)]
      active == {a \in S : turn[a].promoted # {}}
      q == [p EXCEPT
        !.queue = [a \in Accounts |-> IF a \in S THEN turn[a].queued ELSE @[a]],
        !.pending = [a \in Accounts |->
                       IF a \in S THEN @[a] \cup turn[a].promoted ELSE @[a]],
        !.virtual = [a \in Accounts |->
                       IF a \in active THEN Greatest(turn[a].promoted) + 1
                       ELSE @[a]],
        !.lookup = @ \ UNION {turn[a].dropped : a \in S}]
  IN  {[q EXCEPT !.beats = Without(@, active) \o order] : order \in SetToSeqs(active)}

Total(size) == FoldFunction(+, 0, size)

\* One transaction of every offender in turn goes, until the limit is met or
\* the last of them has only floor left.
Lower(size, offenders, floor) ==
  LET last == offenders[Len(offenders)]
      n == Len(offenders)
      rounds == CHOOSE r \in 0 .. size[last] :
                  /\ Total(size) - r * n <= GlobalSlots \/ size[last] - r <= floor
                  /\ \A s \in 0 .. r - 1 :
                       Total(size) - s * n > GlobalSlots /\ size[last] - s > floor
  IN  [a \in Accounts |-> IF a \in ToSet(offenders) THEN size[a] - rounds ELSE size[a]]

\* The spammers are taken in the order of their size; each new one sets the
\* floor for those before it, and the slots of an account are the last floor.
Equalise(size, order) ==
  LET Level(s, k) == Lower(s, SubSeq(order, 1, k - 1), s[order[k]])
      level == FoldLeft(Level, size, [k \in 1 .. Len(order) - 1 |-> k + 1])
  IN  IF order = <<>> THEN size ELSE Lower(level, order, AccountSlots)

CapPending(p) ==
  LET size == [a \in Accounts |-> Cardinality(p.pending[a])]
      spammers == {a \in Accounts \ p.locals : size[a] > AccountSlots}
      orders == {s \in SetToSeqs(spammers) :
                   \A i, j \in DOMAIN s : i < j => size[s[i]] >= size[s[j]]}
      Drop(a, n) == Cap(p.pending[a], n)
      Nonce(a, drop) == IF drop # {} /\ GetNonce(p, a) > Least(drop)
                        THEN Least(drop) ELSE p.virtual[a]
  IN  IF Total(size) <= GlobalSlots THEN {p}
      ELSE {[p EXCEPT
               !.pending = [a \in Accounts |-> @[a] \ Drop(a, to[a])],
               !.virtual = [a \in Accounts |-> Nonce(a, Drop(a, to[a]))],
               !.lookup = @ \ UNION {Drop(a, to[a]) : a \in Accounts}] :
              to \in {Equalise(size, s) : s \in orders}}

\* The queue's overflow is taken from accounts that are not local, the one with
\* the latest heartbeat first, and from the end of its list.
CapQueue(p) ==
  LET size == [a \in Accounts |-> Cardinality(p.queue[a])]
      Beat(a) == IF Contains(p.beats, a) THEN CHOOSE i \in DOMAIN p.beats : p.beats[i] = a
                 ELSE 0
      victims == {a \in Accounts \ p.locals : size[a] > 0}
      orders == {s \in SetToSeqs(victims) :
                   \A i, j \in DOMAIN s : i < j => Beat(s[i]) >= Beat(s[j])}
      Falling(a) == SetToSortSeq(p.queue[a], LAMBDA t, u : t.nonce > u.nonce)
      Line(s) == FlattenSeq([i \in DOMAIN s |-> Falling(s[i])])
      over == Total(size) - GlobalQueue
  IN  IF over <= 0 THEN {p}
      ELSE {RemoveTxs(p, SubSeq(line, 1, Min({over, Len(line)}))) :
              line \in {Line(s) : s \in orders}}

\* promoteExecutables(accounts): promote, then the limits of pending and queue.
PromoteExecutables(p, S) ==
  UNION {CapQueue(r) : r \in UNION {CapPending(q) : q \in PromoteAccounts(p, S)}}

Queued(p) == {a \in Accounts : p.queue[a] # {}}

(***************************************************************************)
(* add: refused, already pending (nothing changes but the account counts   *)
(* as touched), or queued.                                                 *)
(***************************************************************************)
Refused(p, tx) ==
  \/ tx \in p.lookup
  \/ nonces[tx.from] > tx.nonce
  \/ Cardinality(p.lookup) >= GlobalSlots + GlobalQueue
  \/ /\ At(p.pending[tx.from], tx.nonce) = {}
     /\ At(p.queue[tx.from], tx.nonce) # {}

Add(p, tx, local) ==
  IF At(p.pending[tx.from], tx.nonce) # {} THEN p
  ELSE [Enqueue(p, tx.from, {tx}) EXCEPT
          !.locals = IF local THEN @ \cup {tx.from} ELSE @]

\* addTx, from RecvTx: local when it comes from this node's own interface.
AddTx(p, tx, local) == PromoteExecutables(Add(p, tx, local), {tx.from})

\* addTxsLocked for the transactions of a block, in their order.
AddTxsLocked(p, txs) ==
  LET AddOne(q, tx) == IF Refused(q.p, tx) THEN q
                       ELSE [p |-> Add(q.p, tx, FALSE), dirty |-> q.dirty \cup {tx.from}]
      q == FoldLeft(AddOne, [p |-> p, dirty |-> {}], txs)
  IN  IF q.dirty = {} THEN {q.p} ELSE PromoteExecutables(q.p, q.dirty)

\* demoteUnexecutables: old transactions go; a gap in front sends all back.
Demote(p) ==
  LET live == [a \in Accounts |-> p.pending[a] \ Forward(p.pending[a], nonces[a])]
      back == [a \in Accounts |-> IF At(live[a], nonces[a]) = {} THEN live[a] ELSE {}]
      new == [a \in Accounts |-> {tx \in back[a] : At(p.queue[a], tx.nonce) = {}}]
  IN  [p EXCEPT
        !.pending = [a \in Accounts |-> live[a] \ back[a]],
        !.queue = [a \in Accounts |-> @[a] \cup new[a]],
        !.lookup = @ \ UNION {Forward(p.pending[a], nonces[a]) : a \in Accounts},
        !.beats = Without(@, {a \in Accounts : /\ p.pending[a] # {}
                                               /\ live[a] \ back[a] = {}})]

\* reset: reinject, demote, refresh the virtual nonces, promote.
Refresh(p) ==
  [p EXCEPT !.virtual = [a \in Accounts |-> IF p.pending[a] = {} THEN @[a]
                                            ELSE Greatest(p.pending[a]) + 1]]

Reset(p, txs) ==
  UNION {PromoteExecutables(q, Queued(q)) :
           q \in {Refresh(Demote(r)) : r \in AddTxsLocked(p, txs)}}

(***************************************************************************)
(* The pool as a state machine.                                            *)
(***************************************************************************)
EmptyPool ==
  [pending |-> [a \in Accounts |-> {}], queue |-> [a \in Accounts |-> {}],
   lookup |-> {}, virtual |-> [a \in Accounts |-> Unset], locals |-> {}, beats |-> <<>>]

PoolInit == /\ pool = EmptyPool
            /\ nonces = [a \in Accounts |-> 0]
            /\ written = NoBlock

\* RecvTx: AddLocal or AddRemote.
RecvTx == \E tx \in Tx, local \in BOOLEAN :
  /\ ~Refused(pool, tx)
  /\ pool' \in AddTx(pool, tx, local)
  /\ UNCHANGED <<nonces, written>>

\* Blocks come from the pool of a correct proposer: for every account the
\* transactions start at its nonce in the ledger and have no gap.
Blocks ==
  {b \in SUBSET Tx :
     \A a \in Accounts :
       LET mine == {tx \in b : tx.from = a}
       IN  /\ Cardinality(NonceValues(mine)) = Cardinality(mine)
           /\ mine # {} => NonceValues(mine) = nonces[a] .. Greatest(mine)}

Rising(txs) == SetToSortSeq(txs, LAMBDA t, u : t.nonce < u.nonce)

\* BlockProcess writes a block, account by account as GetTxsFromTXPool lists it.
\* A synchronised block that cannot be written is reported to the pool all the
\* same; b is then what CheckTx would accept of it.
WriteBlock == \E b \in Blocks \ {{}}, executed \in BOOLEAN, order \in SetToSeqs(Accounts) :
  /\ written = NoBlock
  /\ written' = [txs |-> FlattenSeq([i \in DOMAIN order |->
                                      Rising({tx \in b : tx.from = order[i]})])]
  /\ nonces' = IF executed
               THEN [a \in Accounts |->
                       LET mine == {tx \in b : tx.from = a}
                       IN  IF mine = {} THEN nonces[a] ELSE Greatest(mine) + 1]
               ELSE nonces
  /\ UNCHANGED pool

\* DelTxs: the loop of the pool resets it with the block's transactions.
DelTxs == /\ written # NoBlock
          /\ pool' \in Reset(pool, written.txs)
          /\ written' = NoBlock
          /\ UNCHANGED nonces

\* The eviction ticker: queued accounts without a heartbeat, and those whose
\* heartbeat is old enough (the older ones first).
Evict == \E n \in 0 .. Len(pool.beats) :
  LET recent == ToSet(SubSeq(pool.beats, n + 1, Len(pool.beats)))
      stale == Queued(pool) \ (pool.locals \cup recent)
      txs == UNION {pool.queue[a] : a \in stale}
  IN  /\ stale # {}
      /\ pool' = RemoveTxs(pool, Rising(txs))
      /\ UNCHANGED <<nonces, written>>

\* The select of the pool's goroutine; reporting and the (empty) journal aside.
Loop == DelTxs \/ Evict

PoolNext == RecvTx \/ WriteBlock \/ Loop

\* GetTxsFromTXPool: whole accounts in any order, the last one cut at count.
GetTxsFromTXPool(count) ==
  LET Line(order) == FlattenSeq([i \in DOMAIN order |-> Rising(pool.pending[order[i]])])
  IN  {SubSeq(line, 1, Min({count, Len(line)})) :
         line \in {Line(order) : order \in SetToSeqs(Accounts)}}

(***************************************************************************)
(* Properties.                                                             *)
(***************************************************************************)
PoolTypeOK ==
  /\ pool.pending \in [Accounts -> SUBSET Tx] /\ pool.queue \in [Accounts -> SUBSET Tx]
  /\ pool.lookup \subseteq Tx /\ pool.locals \subseteq Accounts
  /\ pool.virtual \in [Accounts -> 0 .. MaxNonce + 1 \cup {Unset}]
  /\ IsInjective(pool.beats) /\ ToSet(pool.beats) \subseteq Accounts
  /\ nonces \in [Accounts -> 0 .. MaxNonce + 1]

\* The lookup table (`all`, which also counts against the size of the pool)
\* holds exactly the transactions listed, and none is listed twice: promoting,
\* demoting, capping, evicting and resetting neither leak nor lose an entry.
LookupExact ==
  LET lists == [pending : Accounts] \cup [queue : Accounts]
      List(l) == IF "pending" \in DOMAIN l THEN pool.pending[l.pending]
                 ELSE pool.queue[l.queue]
  IN  /\ pool.lookup = UNION {List(l) : l \in lists}
      /\ \A l, m \in lists : l # m => List(l) \cap List(m) = {}

\* Whatever limits, resets and evictions came before, once the pool knows the
\* last block, what a proposer takes from it can be executed: the transactions
\* of every account start at its nonce in the ledger and have no gap.
ProposalExecutable ==
  written = NoBlock =>
    \A a \in Accounts : pool.pending[a] # {} =>
      \A count \in 1 .. GlobalSlots : \A txs \in GetTxsFromTXPool(count) :
        LET mine == SelectSeq(txs, LAMBDA tx : tx.from = a)
        IN  \A i \in DOMAIN mine : mine[i].nonce = nonces[a] + i - 1

\* The limits hold after every operation: only local accounts, or accounts
\* within their own allowance, make pending or the queue longer.
WithinLimits ==
  LET remote == Accounts \ pool.locals
      Size(lists) == Total([a \in Accounts |-> Cardinality(lists[a])])
  IN  /\ Size(pool.pending) > GlobalSlots =>
           \A a \in remote : Cardinality(pool.pending[a]) <= AccountSlots
      /\ Size(pool.queue) > GlobalQueue => \A a \in remote : pool.queue[a] = {}
      /\ \A a \in remote : Cardinality(pool.queue[a]) <= AccountQueue

\* "preventing any associated transaction from being dropped out of the pool"
\* (tx_pool.go:434): a transaction of a local account leaves the pool only when
\* the ledger has gone past its nonce.
LocalsKept ==
  [][\A tx \in pool.lookup :
       tx.from \in pool.locals => tx \in pool'.lookup \/ tx.nonce < nonces'[tx.from]]_poolVars

\* reset "ensures the content of the transaction pool is valid with regard to
\* the chain state" (tx_pool.go:259) and promoteExecutables "moves transactions
\* that have become processable ... to the set of pending transactions" (694):
\* once the last block is known, the transaction an account's nonce calls for is
\* not left in the queue.
NothingStuck ==
  written = NoBlock =>
    \A a \in Accounts : pool.pending[a] = {} => At(pool.queue[a], nonces[a]) = {}
=============================================================================
