-------------------------------- MODULE Chain --------------------------------
(***************************************************************************)
(* The application manager (appMgr), the contracts HGS and HNB (contract)  *)
(* and the ledger (ledger, db).  BlockProcess executes a block on caches   *)
(* and writes the result to the database; UnfreezeToken, called by the     *)
(* epoch manager from another goroutine, does the same with one cache.     *)
(* The stores put every value into the database directly (the batch stays  *)
(* empty), so a write is a step of its own, the two writers interleave,    *)
(* and a crash may come between any two writes.  The reads of a writer are *)
(* one step.  The caches of the stores hold what the database holds.       *)
(*                                                                         *)
(* Amounts are positive, as the clients build them.                        *)
(***************************************************************************)
EXTENDS Integers, FiniteSets, Sequences, SequencesExt

CONSTANTS Users, Genesis, Candidates, Epochs, Requests, Supply, Absent,
          MaxHeight, MaxBlockTxs, MaxTxs, MaxCrashes

VARIABLES db,       \* contract state: key -> value, Absent where there is none
          chain,    \* stored blocks, by number
          height, index, ledgerNonce, wrong,
          writer,   \* what is still to be written, by BlockProcess and UnfreezeToken
          crashes,
          supply,   \* history: what each coin should amount to
          calm      \* history: no restart, no block with both contracts, and
                    \* never two writers at a time

chainVars == <<db, chain, height, index, ledgerNonce, wrong, writer, crashes, supply, calm>>

Coins == {"hgs", "hnb"}
Other(coin) == IF coin = "hgs" THEN "hnb" ELSE "hgs"

BalanceKey(coin, u) == <<coin, u>>
GetEpochKey(e) == <<"epoch", e>>
GetEpochRecordKey(e) == <<"record", e>>
Keys == Coins \X Users \cup {"epoch", "record"} \X Epochs

(***************************************************************************)
(* contractApi: a cache is a partial function on the keys; Absent stands   *)
(* for a deleted entry.                                                    *)
(***************************************************************************)
GetState(c, k) == IF k \in DOMAIN c THEN c[k] ELSE db[k]
PutState(c, k, v) == [j \in DOMAIN c \cup {k} |-> IF j = k THEN v ELSE c[j]]
DelState(c, k) == PutState(c, k, Absent)

GetBalance(c, k) == IF GetState(c, k) = Absent THEN 0 ELSE GetState(c, k)

Done(c, delta) == [ok |-> TRUE, cache |-> c, delta |-> delta]
Failed(c) == [ok |-> FALSE, cache |-> c, delta |-> [coin \in Coins |-> 0]]
NoDelta == [coin \in Coins |-> 0]

(***************************************************************************)
(* The contracts.  HGS refuses a sender without an entry, HNB takes it for *)
(* an empty account.  The receiver's balance is read before the sender's   *)
(* is written.                                                             *)
(***************************************************************************)
Exists(c, coin, u) == GetState(c, BalanceKey(coin, u)) # Absent
Covers(c, coin, u, amount) == GetBalance(c, BalanceKey(coin, u)) >= amount

\* Both balances are read, then both are written.
Move(c, from, debit, to, credit) ==
  LET receiver == GetBalance(c, to)
  IN  PutState(PutState(c, from, GetBalance(c, from) - debit), to, receiver + credit)

Swapped(c, coin, tx) ==
  Done(Move(c, BalanceKey(coin, tx.from), tx.p.inAmount,
            BalanceKey(Other(coin), tx.p.to), tx.p.amount),
       [NoDelta EXCEPT ![coin] = -tx.p.inAmount, ![Other(coin)] = tx.p.amount])

HgsCheckSamePro(c, tx) ==
  tx.from # tx.p.to /\ Exists(c, "hgs", tx.from) /\ Covers(c, "hgs", tx.from, tx.p.amount)

HgsSamePro(c, tx) ==
  IF HgsCheckSamePro(c, tx)
  THEN Done(Move(c, BalanceKey("hgs", tx.from), tx.p.amount,
                 BalanceKey("hgs", tx.p.to), tx.p.amount), NoDelta)
  ELSE Failed(c)

\* Faulty variant: the amount is not compared with the balance.
HgsCheckDiffProAny(c, tx) == Exists(c, "hgs", tx.from)

HgsCheckDiffPro(c, tx) ==
  Exists(c, "hgs", tx.from) /\ Covers(c, "hgs", tx.from, tx.p.inAmount)

HgsDiffPro(c, tx) == IF HgsCheckDiffPro(c, tx) THEN Swapped(c, "hgs", tx) ELSE Failed(c)

CheckSamePro(c, tx) == tx.from # tx.p.to /\ Covers(c, "hnb", tx.from, tx.p.amount)

\* Faulty variant: the receiver's old balance is lost.
SameProOverwrite(c, tx) ==
  LET from == BalanceKey("hnb", tx.from)
      to == BalanceKey("hnb", tx.p.to)
  IN  IF ~CheckSamePro(c, tx) THEN Failed(c)
      ELSE Done(PutState(PutState(c, from, GetBalance(c, from) - tx.p.amount),
                         to, tx.p.amount), NoDelta)

\* Faulty variant: a transfer to oneself is let through.
SameProSelf(c, tx) ==
  IF Covers(c, "hnb", tx.from, tx.p.amount)
  THEN Done(Move(c, BalanceKey("hnb", tx.from), tx.p.amount,
                 BalanceKey("hnb", tx.p.to), tx.p.amount), NoDelta)
  ELSE Failed(c)

SamePro(c, tx) ==
  IF CheckSamePro(c, tx)
  THEN Done(Move(c, BalanceKey("hnb", tx.from), tx.p.amount,
                 BalanceKey("hnb", tx.p.to), tx.p.amount), NoDelta)
  ELSE Failed(c)

CheckDiffPro(c, tx) == Covers(c, "hnb", tx.from, tx.p.inAmount)

DiffPro(c, tx) == IF CheckDiffPro(c, tx) THEN Swapped(c, "hnb", tx) ELSE Failed(c)

\* SaveTokenTotal: power is added to the candidate and taken from the balance.
SaveTokenTotal(c, tx) ==
  LET from == BalanceKey("hnb", tx.from)
      key == GetEpochKey(tx.p.epoch)
      votes == IF GetState(c, key) = Absent THEN [v \in Candidates |-> 0]
               ELSE GetState(c, key)
      counted == [votes EXCEPT ![tx.p.candidate] = @ + tx.p.amount]
  IN  IF GetState(c, from) = Absent \/ GetBalance(c, from) < tx.p.amount
      THEN Failed(c)
      ELSE Done(PutState(PutState(c, key, counted), from,
                         GetBalance(c, from) - tx.p.amount), NoDelta)

\* SaveTokenFromInfo: the record by which the power is given back later.
SaveTokenFromInfo(c, tx) ==
  LET key == GetEpochRecordKey(tx.p.epoch)
      records == IF GetState(c, key) = Absent THEN <<>> ELSE GetState(c, key)
  IN  Done(PutState(c, key, Append(records, [from |-> tx.from, power |-> tx.p.amount])),
           NoDelta)

VotePro(c, tx) == LET total == SaveTokenTotal(c, tx)
                  IN  IF total.ok THEN SaveTokenFromInfo(total.cache, tx) ELSE total

\* UnFreezePro: every record is paid back, then both entries of the epoch go.
RepayOne(c, record) ==
  LET k == BalanceKey("hnb", record.from)
  IN  PutState(c, k, GetBalance(c, k) + record.power)

\* Faulty variant: the votes of the epoch stay.
UnFreezeProKeepVotes(c, e) ==
  LET key == GetEpochRecordKey(e)
      records == IF GetState(c, key) = Absent THEN <<>> ELSE GetState(c, key)
  IN  Done(DelState(FoldLeft(RepayOne, c, records), key), NoDelta)

UnFreezePro(c, e) ==
  LET key == GetEpochRecordKey(e)
      records == IF GetState(c, key) = Absent THEN <<>> ELSE GetState(c, key)
  IN  Done(DelState(DelState(FoldLeft(RepayOne, c, records), key), GetEpochKey(e)), NoDelta)

GetVoteSum(e) == IF db[GetEpochKey(e)] = Absent THEN 0
                 ELSE FoldFunction(+, 0, db[GetEpochKey(e)])

\* tx is [from, nonce, p]; p.coin is the contract a transfer is sent to.
HgsInvoke(c, tx) == CASE tx.p.kind = "same" -> HgsSamePro(c, tx)
                      [] tx.p.kind = "diff" -> HgsDiffPro(c, tx)

HnbInvoke(c, tx) == CASE tx.p.kind = "same" -> SamePro(c, tx)
                      [] tx.p.kind = "diff" -> DiffPro(c, tx)
                      [] tx.p.kind = "vote" -> VotePro(c, tx)
                      [] tx.p.kind = "unfreeze" -> UnFreezePro(c, tx.p.epoch)

HgsCheckTx(tx) == CASE tx.p.kind = "same" -> HgsCheckSamePro(<<>>, tx)
                    [] tx.p.kind = "diff" -> HgsCheckDiffPro(<<>>, tx)

\* A vote is not looked at.
HnbCheckTx(tx) == CASE tx.p.kind = "same" -> CheckSamePro(<<>>, tx)
                    [] tx.p.kind = "diff" -> CheckDiffPro(<<>>, tx)
                    [] tx.p.kind = "vote" -> TRUE
                    [] tx.p.kind = "unfreeze" -> UnFreezePro(<<>>, tx.p.epoch).ok

ContractName(tx) == IF tx.p.kind \in {"same", "diff"} THEN tx.p.coin ELSE "hnb"

Invoke(c, tx) == IF ContractName(tx) = "hgs" THEN HgsInvoke(c, tx) ELSE HnbInvoke(c, tx)

CheckTx(tx) == IF ContractName(tx) = "hgs" THEN HgsCheckTx(tx) ELSE HnbCheckTx(tx)

(***************************************************************************)
(* BlockProcess: one cache for each contract that the block calls.  What a *)
(* failing call leaves in its cache stays (the snapshot is the cache       *)
(* itself).                                                                *)
(***************************************************************************)
Execute(run, tx) ==
  LET r == Invoke(run.cache[ContractName(tx)], tx)
  IN  [cache |-> [run.cache EXCEPT ![ContractName(tx)] = r.cache],
       delta |-> [coin \in Coins |-> run.delta[coin] + r.delta[coin]],
       wrong |-> run.wrong \cup IF r.ok THEN {} ELSE {tx}]

Idle == [stage |-> "idle"]

\* The blocks consensus may decide: of every user the transactions follow its
\* nonce in the ledger.  A request is [from, p], what a user asks for.
NextTx(u, txs) == ledgerNonce[u] + Len(SelectSeq(txs, LAMBDA tx : tx.from = u))

Issue(txs, r) == Append(txs, [from |-> r.from, nonce |-> NextTx(r.from, txs), p |-> r.p])

BlockTxs ==
  LET room == MaxTxs - FoldLeft(LAMBDA n, txs : n + Len(txs), 0, chain)
  IN  {FoldLeft(Issue, <<>>, requests) : requests \in BoundedSeq(Requests, Min({room, MaxBlockTxs}))}

\* A block that was stored before a crash is the one that was decided: it comes
\* again.
BlockProcess ==
  /\ writer.block = Idle
  /\ height < MaxHeight
  /\ \E txs \in IF Len(chain) > height THEN {chain[height + 1]} ELSE BlockTxs :
     \E run \in {FoldLeft(Execute, [cache |-> [c \in Coins |-> <<>>], delta |-> NoDelta,
                                    wrong |-> {}], txs)} :
     \E order \in SetToSeqs({ContractName(txs[i]) : i \in DOMAIN txs}) :
       /\ writer' = [writer EXCEPT !.block =
            [stage |-> "block", txs |-> txs, left |-> 1, 
             caches |-> [i \in DOMAIN order |-> run.cache[order[i]]]]]
       /\ supply' = [coin \in Coins |-> supply[coin] + run.delta[coin]]
       /\ wrong' = wrong \cup run.wrong
       /\ calm' = (calm /\ Len(order) < 2 /\ writer.unfreeze = Idle)
  /\ UNCHANGED <<db, chain, height, index, ledgerNonce, crashes>>

\* UnfreezeToken, called by ResetEpoch while the handler is still running.
UnfreezeToken == \E e \in Epochs :
  /\ writer.unfreeze = Idle
  /\ db[GetEpochRecordKey(e)] # Absent
  /\ writer' = [writer EXCEPT !.unfreeze =
                  [stage |-> "state", caches |-> <<UnFreezePro(<<>>, e).cache>>]]
  /\ calm' = (calm /\ writer.block = Idle)
  /\ UNCHANGED <<db, chain, height, index, ledgerNonce, wrong, crashes, supply>>

(***************************************************************************)
(* WriteLedger and SetContractState, write by write: the block, the state  *)
(* items cache by cache in any order, the height, the index, the nonces.   *)
(***************************************************************************)
StoreBlock ==
  /\ writer.block.stage = "block"
  /\ chain' = SubSeq(chain, 1, height) \o <<writer.block.txs>>
  /\ writer' = [writer EXCEPT !.block.stage = "state"]
  /\ UNCHANGED <<db, height, index, ledgerNonce, wrong, crashes, supply, calm>>

WriteState(w) ==
  /\ writer[w].stage = "state"
  /\ writer[w].caches # <<>>
  /\ \E cache \in {Head(writer[w].caches)} :
       \/ \E k \in DOMAIN cache :
            /\ db' = [db EXCEPT ![k] = cache[k]]
            /\ writer' = [writer EXCEPT ![w].caches[1] =
                            [j \in DOMAIN cache \ {k} |-> cache[j]]]
       \/ /\ DOMAIN cache = {}
          /\ writer' = [writer EXCEPT ![w].caches = Tail(@)]
          /\ UNCHANGED db
  /\ UNCHANGED <<chain, height, index, ledgerNonce, wrong, crashes, supply, calm>>

UnfreezeEnds ==
  /\ writer.unfreeze.stage = "state"
  /\ writer.unfreeze.caches = <<>>
  /\ writer' = [writer EXCEPT !.unfreeze = Idle]
  /\ UNCHANGED <<db, chain, height, index, ledgerNonce, wrong, crashes, supply, calm>>

\* SetBlockHeight
WriteHeight ==
  /\ writer.block.stage = "state"
  /\ writer.block.caches = <<>>
  /\ height' = height + 1
  /\ writer' = [writer EXCEPT !.block.stage = "index"]
  /\ UNCHANGED <<db, chain, index, ledgerNonce, wrong, crashes, supply, calm>>

\* Faulty variant: the index gives the number of the next block.
WriteIndexNext ==
  /\ writer.block.stage = "index"
  /\ index' = [tx \in DOMAIN index \cup ToSet(writer.block.txs) |->
                 IF tx \in DOMAIN index THEN index[tx] ELSE <<height + 1, 1>>]
  /\ writer' = [writer EXCEPT !.block.stage = "nonce", !.block.left = 1]
  /\ UNCHANGED <<db, chain, height, ledgerNonce, wrong, crashes, supply, calm>>

\* SetHashIndex; left is the next transaction to index.
WriteIndex ==
  /\ writer.block.stage = "index"
  /\ LET i == writer.block.left
         txs == writer.block.txs
     IN  \/ /\ i <= Len(txs)
            /\ index' = [tx \in DOMAIN index \cup {txs[i]} |->
                           IF tx = txs[i] THEN <<height, i>> ELSE index[tx]]
            /\ writer' = [writer EXCEPT !.block.left = @ + 1]
         \/ /\ i > Len(txs)
            /\ writer' = [writer EXCEPT !.block.stage = "nonce", !.block.left = 1]
            /\ UNCHANGED index
  /\ UNCHANGED <<db, chain, height, ledgerNonce, wrong, crashes, supply, calm>>

WriteNonce ==
  /\ writer.block.stage = "nonce"
  /\ LET i == writer.block.left
         txs == writer.block.txs
     IN  \/ /\ i <= Len(txs)
            /\ ledgerNonce' = [ledgerNonce EXCEPT ![txs[i].from] = txs[i].nonce + 1]
            /\ writer' = [writer EXCEPT !.block.left = @ + 1]
         \/ /\ i > Len(txs)
            /\ writer' = [writer EXCEPT !.block = Idle]
            /\ UNCHANGED ledgerNonce
  /\ UNCHANGED <<db, chain, height, index, wrong, crashes, supply, calm>>

\* InstallContract of a contract: the genesis user gets the whole supply.
Install(state, coin) == [state EXCEPT ![BalanceKey(coin, Genesis)] = Supply]

\* The process ends and starts again: InitLedger, and InitAppMgr, which finds
\* HGS installed but never looks for HNB.
Restart ==
  /\ crashes < MaxCrashes
  /\ crashes' = crashes + 1
  /\ writer' = [block |-> Idle, unfreeze |-> Idle]
  /\ db' = Install(db, "hnb")
  /\ calm' = FALSE
  /\ UNCHANGED <<chain, height, index, ledgerNonce, wrong, supply>>

\* The first start of a node.
ChainInit ==
  /\ db = Install(Install([k \in Keys |-> Absent], "hgs"), "hnb")
  /\ chain = <<>> /\ height = 0 /\ index = <<>> /\ wrong = {}
  /\ ledgerNonce = [u \in Users |-> 0]
  /\ writer = [block |-> Idle, unfreeze |-> Idle]
  /\ crashes = 0 /\ calm = TRUE
  /\ supply = [coin \in Coins |-> Supply]

\* The writes of WriteLedger.
WriteLedger == \/ StoreBlock \/ WriteState("block") \/ WriteHeight \/ WriteIndex \/ WriteNonce

\* The writes of SetContractState.
SetContractState == WriteState("unfreeze") \/ UnfreezeEnds

ChainNext == BlockProcess \/ UnfreezeToken \/ WriteLedger \/ SetContractState \/ Restart

(***************************************************************************)
(* Properties.                                                             *)
(***************************************************************************)
ChainTypeOK ==
  /\ DOMAIN db = Keys /\ height \in 0 .. MaxHeight /\ Len(chain) \in {height, height + 1}
  /\ \A k \in Coins \X Users : db[k] \in Nat \cup {Absent}
  /\ ledgerNonce \in [Users -> Nat] /\ crashes \in 0 .. MaxCrashes

Resting == writer.block = Idle /\ writer.unfreeze = Idle
Frozen(e) == IF db[GetEpochRecordKey(e)] = Absent THEN 0
             ELSE FoldLeft(LAMBDA sum, r : sum + r.power, 0, db[GetEpochRecordKey(e)])

\* No coin is made or lost by transfers, votes, unfreezing and failing
\* transactions, in any order and several in a block: balances and frozen votes
\* amount to the supply, changed only by what exchanges declare.
Conserved ==
  calm /\ Resting =>
    \A coin \in Coins :
      supply[coin] = FoldFunction(+, 0, [u \in Users |-> GetBalance(<<>>, <<coin, u>>)])
                     + IF coin = "hgs" THEN 0
                       ELSE FoldFunction(+, 0, [e \in Epochs |-> Frozen(e)])

\* The votes by which witnesses are elected (epoch#) are exactly the power that
\* is frozen and will be paid back (record_epoch#).
BooksAgree == calm /\ Resting => \A e \in Epochs : GetVoteSum(e) = Frozen(e)

\* Whatever was interrupted, the index of a transaction leads to a block of the
\* chain that holds it at the offset given.
IndexSound ==
  \A tx \in DOMAIN index :
    LET at == index[tx]
    IN  at[1] <= height /\ at[2] \in DOMAIN chain[at[1]] /\ chain[at[1]][at[2]] = tx

\* What CheckTx lets into the pool can be executed on the same state, and what
\* it refuses cannot (votes aside, which it does not look at).
CheckAgrees ==
  Resting => \A u \in Users, r \in Requests :
    LET tx == [from |-> u, nonce |-> ledgerNonce[u], p |-> r.p]
    IN  r.p.kind # "vote" => CheckTx(tx) = Invoke(<<>>, tx).ok

\* "Block defines the atomic unit of a Tendermint blockchain" (types/block.go:17)
\* and WriteLedger brackets its writes with NewBatch and BatchCommit: when no
\* write is under way, the transactions of every block below the height are
\* indexed and their nonces used up.
WholeBlocks ==
  Resting => \A n \in 1 .. height : \A i \in DOMAIN chain[n] :
    /\ chain[n][i] \in DOMAIN index
    /\ chain[n][i].nonce < ledgerNonce[chain[n][i].from]
=============================================================================
