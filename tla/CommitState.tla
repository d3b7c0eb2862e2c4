---------------------------- MODULE CommitState ----------------------------
(***************************************************************************)
(* state.State, what a node knows when it begins a height, and the three   *)
(* ways in which it comes about: by committing a block (updateState), by   *)
(* synchronising one (LoadLastCommitStateFromBlkAndMem) and by starting    *)
(* from the ledger (LoadLastCommitStateFromBlk).  The epoch manager, or    *)
(* the group manager, exchanges the validators in between.  All validators *)
(* have the voting power 1.  Agreement is the subject of TDMVoting: here a *)
(* height has one block, so a BlockID is the number of its block.          *)
(***************************************************************************)
EXTENDS Integers, Sequences, FiniteSets

CONSTANTS
    Node,          \* addresses, in the order of their numbers
    Committee,     \* the validator sets that epochs, or groups, take in turn
    EpochBlocks,   \* blocks of an epoch (config.EpochPeriod)
    MaxBlock,      \* bound on the blocks after genesis
    MaxProposal    \* bound on the round in which a block is proposed

\* Elected groups all have BftNum members; the genesis group is configured likewise.
ASSUME SameSizes ==
    \A i, j \in DOMAIN Committee : Cardinality(Committee[i]) = Cardinality(Committee[j])

VARIABLES
    core,          \* the consensus in use, "dbft" or "vrf"
    state,         \* LastCommitState and LastCommit of every node
    ledger,        \* the blocks stored by every node; block k is at k + 1
    decided        \* the blocks decided on, from height 1

stateVars == <<core, state, ledger, decided>>

None == <<>>
Members(no) == Committee[(no % Len(Committee)) + 1]
\* The number of the epoch, or group, whose validators decide on a height.
GroupOf(height) == IF core = "vrf" THEN height ELSE ((height - 1) \div EpochBlocks) + 1

(***************************************************************************)
(* types.ValidatorSet.  `no` and `begin` are BgID and the epoch in Extend. *)
(***************************************************************************)
NoVals == [of |-> {}, accum |-> <<>>, proposer |-> 0, no |-> 0, begin |-> 0]

\* The validator with the higher Accum, or the lower address.
CompareAccum(accum, v, w) == accum[v] > accum[w] \/ (accum[v] = accum[w] /\ v <= w)

Mostest(accum) == CHOOSE v \in DOMAIN accum : \A w \in DOMAIN accum : CompareAccum(accum, v, w)

IncrementAccum(vals) ==
    LET raised == [v \in vals.of |-> vals.accum[v] + 1]
        mostest == Mostest(raised)
    IN  [vals EXCEPT !.accum = [raised EXCEPT ![mostest] = @ - Cardinality(vals.of)],
                     !.proposer = mostest]

NewValidatorSet(of, no, begin) ==
    IncrementAccum([of |-> of, accum |-> [v \in of |-> 0], proposer |-> 0,
                    no |-> no, begin |-> begin])

\* The epoch in force when the chain begins is number 1, the group number 0.  The dbft
\* core sets the proposer to the last one configured.
LoadGeneValidatorsDbft ==
    LET of == Members(1) IN
    [NewValidatorSet(of, 1, 1) EXCEPT !.proposer = CHOOSE v \in of : \A w \in of : w <= v]

LoadGeneValidatorsVrf == NewValidatorSet(Members(0), 0, 0)

Nth(of, i) == CHOOSE v \in of : Cardinality({w \in of : w < v}) = i
IndexOf(of, v) == IF v \in of THEN Cardinality({w \in of : w < v}) ELSE -1

(***************************************************************************)
(* Blocks.  A commit is the BlockID and the validators that voted.  In its *)
(* stored form a block has the hash of the block before it and, in Ext,    *)
(* the precommits its writer has seen; every node sees a set of its own,   *)
(* which `by` stands for.                                                  *)
(***************************************************************************)
NoCommit == [id |-> 0, of |-> {}, by |-> 0]

\* MakeBlock of types and of State: the fields that the block itself and the state give.
NewBlock(s, commit, txs) ==
    [num |-> s.num + 1, numTxs |-> txs, txs |-> txs, total |-> s.total + txs, lastId |-> s.id,
     lastCommit |-> commit, hash |-> s.vals.of, chg |-> s.chg, vals |-> NoVals, vrf |-> None]

MakeBlockDPoS(s, commit, txs, proposer) ==
    [NewBlock(s, commit, txs) EXCEPT !.vals = [s.vals EXCEPT !.proposer = proposer]]

\* Carried out only at a height at which the validators changed; at any other one
\* valInfo.Validators is nil and the process dies.
MakeBlockVRF(s, commit, txs, proposer, vrf) ==
    [NewBlock(s, commit, txs) EXCEPT !.vals = [s.vals EXCEPT !.proposer = proposer], !.vrf = vrf]

\* Only the proposer can compute it, from the height and the last value.
ComputeVRF4Blk(proposer, prev, num) == <<proposer, num, prev>>

GenesisBlk(vals, vrf) ==
    [num |-> 0, numTxs |-> 1, txs |-> 1, total |-> 0, lastId |-> 0, lastCommit |-> NoCommit,
     hash |-> {}, chg |-> 0, vals |-> vals, vrf |-> vrf]

MakeGenesisBlkDbft == GenesisBlk(LoadGeneValidatorsDbft, None)
MakeGenesisBlkVrf == GenesisBlk(LoadGeneValidatorsVrf, ComputeVRF4Blk(0, None, 0))

ConsToStandard(b, current) == [cons |-> b, ext |-> current, prev |-> None]
Standard2Cons(blk) == blk.cons
\* LoadSeenCommit: the commit that the writer has seen.
LoadSeenCommit(blk) == blk.ext

\* The whole header is hashed, Ext included; num stands for its other fields.
CalcBlockHash(blk) == <<blk.cons.num, blk.ext.by, blk.prev>>

CommitValidateBasic(commit) == commit.id # 0 /\ commit.of # {}

ValidateBasic(b) == b.numTxs = b.txs /\ (b.num # 1 => CommitValidateBasic(b.lastCommit))

ValidateBlock(s, b) ==
    /\ ValidateBasic(b)
    /\ b.num = s.num + 1
    /\ b.lastId = s.id
    /\ b.total = s.total + b.txs
    /\ b.hash = s.vals.of
    /\ Cardinality(b.lastCommit.of) = IF b.num = 1 THEN 0 ELSE Cardinality(s.lastVals.of)

(***************************************************************************)
(* The functions that a core registers with the handler.                   *)
(***************************************************************************)
\* The witness list is in the order of addresses.
IsProposerByDPoS(s, round) ==
    LET size == Cardinality(s.vals.of)
        next == IndexOf(s.lastVals.of, s.lastVals.proposer) + 1
        index == IF s.num + 1 = s.vals.begin \/ next = size THEN 0 ELSE next
    IN  Nth(s.vals.of, (index + round) % size)

\* CalcProposerByVRF: some function of the last value, the height and the round.
IsProposerByVrf(s, round) ==
    Nth(s.vals.of, (s.vrf[1] + s.num + 1 + round) % Cardinality(s.vals.of))

Proposer(s, round) == IF core = "vrf" THEN IsProposerByVrf(s, round) ELSE IsProposerByDPoS(s, round)

LastCommitOf(s) == IF s.num = 0 THEN NoCommit ELSE s.commit

\* The blocks a node may propose, each with one transaction: none without the commit of
\* the last block, none of a node that is no validator.
GeneProposalBlkByDPoS(n, s) ==
    {MakeBlockDPoS(s, LastCommitOf(s), 1, p) : p \in {n} \cap s.vals.of}

GeneProposalBlkByVrf(n, s) ==
    {MakeBlockVRF(s, LastCommitOf(s), 1, p, ComputeVRF4Blk(p, s.vrf, s.num + 1)) :
        p \in {v \in {n} \cap s.vals.of : s.chg = s.num + 1}}

Proposals(n) ==
    IF core = "vrf" THEN GeneProposalBlkByVrf(n, state[n]) ELSE GeneProposalBlkByDPoS(n, state[n])

\* validateProposalBlkByDPoS accepts every block.
ValidateProposalBlkByVrf(s, b) ==
    /\ b.vals.proposer \in s.vals.of
    /\ b.vrf = ComputeVRF4Blk(b.vals.proposer, s.vrf, b.num)

(***************************************************************************)
(* The ways to a state.                                                    *)
(***************************************************************************)
GetBlock(l, num) == l[num + 1]

LoadValidators(l, blk) ==
    LET b == Standard2Cons(blk) IN
    IF b.vals.of # {} THEN b.vals ELSE Standard2Cons(GetBlock(l, b.chg)).vals

MakeGenesisLastCommitStateDbft(blk) ==
    [num |-> 0, id |-> 0, total |-> 0, vals |-> LoadGeneValidatorsDbft, lastVals |-> NoVals,
     chg |-> 0, prev |-> CalcBlockHash(blk), vrf |-> None, commit |-> NoCommit]

MakeGenesisLastCommitStateVrf(blk) ==
    [num |-> 0, id |-> 0, total |-> 0, vals |-> LoadGeneValidatorsVrf, lastVals |-> NoVals,
     chg |-> 0, prev |-> CalcBlockHash(blk), vrf |-> Standard2Cons(blk).vrf, commit |-> NoCommit]

UpdateState(s, b, prev) ==
    [num |-> b.num, id |-> b.num, total |-> s.total + b.numTxs, vals |-> IncrementAccum(s.vals),
     lastVals |-> s.vals, chg |-> s.chg, prev |-> prev, vrf |-> b.vrf, commit |-> s.commit]

\* What the last block of a ledger says of the state; LastCommit is still to be rebuilt.
StateOfBlk(l, blk) ==
    LET b == Standard2Cons(blk) IN
    [num |-> b.num, id |-> LoadSeenCommit(blk).id, total |-> b.total,
     vals |-> LoadValidators(l, blk),
     lastVals |-> IF b.num = 0 THEN NoVals ELSE LoadValidators(l, GetBlock(l, b.num - 1)),
     chg |-> b.chg, prev |-> CalcBlockHash(blk), vrf |-> b.vrf, commit |-> NoCommit]

\* Faulty variant: the total leaves out the blocks before the last one.
LoadStateForgetting(l) ==
    [StateOfBlk(l, l[Len(l)]) EXCEPT !.vrf = None, !.total = Standard2Cons(l[Len(l)]).numTxs]

\* The VRF value is not restored: blocks of this core have none.
LoadLastCommitStateDbft(l) == [StateOfBlk(l, l[Len(l)]) EXCEPT !.vrf = None]

LoadLastCommitStateVrf(l) == StateOfBlk(l, l[Len(l)])

\* LastValidators is what memory has for Validators.
LoadLastCommitStateFromBlkAndMem(s, l, blk) ==
    [StateOfBlk(Append(l, blk), blk) EXCEPT !.lastVals = s.vals, !.prev = None]

\* The precommits stored with the last block are added to a vote set of its validators.
ReconstructLastCommit(s, blk) ==
    IF s.num = 0 THEN s ELSE [s EXCEPT !.commit = [LoadSeenCommit(blk) EXCEPT !.of = s.vals.of]]

(***************************************************************************)
(* Steps of a node.                                                        *)
(***************************************************************************)
\* saveBlock, and what it returns: the block as stored.
SaveBlock(n, b, current) == [ConsToStandard(b, current) EXCEPT !.prev = state[n].prev]

\* finalizeCommit: ApplyBlock, then updateToState.
FinalizeBlock(n, b) ==
    LET current == [id |-> b.num, of |-> state[n].vals.of, by |-> n]
        blk == SaveBlock(n, b, current)
    IN  /\ ledger' = [ledger EXCEPT ![n] = Append(@, blk)]
        /\ state' = [state EXCEPT ![n] = [UpdateState(@, b, CalcBlockHash(blk))
                                             EXCEPT !.commit = current]]

\* q takes the proposal of a round from the proposer it expects, and accepts the block.
AcceptsProposal(q, b, round) ==
    /\ state[q].num + 1 = b.num
    /\ Proposer(state[q], round) \in {q, b.vals.proposer}
    /\ core = "vrf" => ValidateProposalBlkByVrf(state[q], b)
    /\ ValidateBlock(state[q], b)

\* A quorum that n belongs to accepts the block of a proposer.
Decide(n) ==
    /\ Len(decided) = state[n].num
    /\ Len(decided) < MaxBlock
    /\ \E p \in state[n].vals.of, round \in 0..MaxProposal : \E b \in Proposals(p) :
          LET voters == {q \in b.hash : AcceptsProposal(q, b, round)} IN
          /\ Proposer(state[p], round) = p
          /\ n \in voters
          /\ 3 * Cardinality(voters) > 2 * Cardinality(b.hash)
          /\ decided' = Append(decided, b)
          /\ FinalizeBlock(n, b)
    /\ UNCHANGED core

\* A validator of the height commits the block that others have committed.
CommitToo(n) ==
    /\ Len(decided) > state[n].num
    /\ LET b == decided[state[n].num + 1] IN
          /\ n \in b.hash
          /\ state[n].vals.no = b.vals.no
          /\ ValidateBlock(state[n], b)
          /\ FinalizeBlock(n, b)
    /\ UNCHANGED <<core, decided>>

\* Faulty variant: the hash of the block is not put into the state.
SyncedUnlinked(n, blk) ==
    ReconstructLastCommit([LoadLastCommitStateFromBlkAndMem(state[n], ledger[n], blk)
                              EXCEPT !.prev = state[n].prev], blk)

\* The state after a synchronised block.
Synced(n, blk) ==
    ReconstructLastCommit([LoadLastCommitStateFromBlkAndMem(state[n], ledger[n], blk)
                              EXCEPT !.prev = CalcBlockHash(blk)], blk)

\* DeliverMsg takes a synchronised block, as the peer has stored it.  Validators that the
\* block says have changed are taken over before it is validated, and kept if it fails.
ReceiveSyncBlk(n, peer) ==
    /\ Len(ledger[peer]) > Len(ledger[n])
    /\ LET s == state[n]
           blk == GetBlock(ledger[peer], s.num + 1)
           status == Synced(n, blk)
           mem == IF status.chg > s.chg THEN [s EXCEPT !.vals = status.vals] ELSE s
       IN  IF ValidateBlock(mem, Standard2Cons(blk))
           THEN /\ state' = [state EXCEPT ![n] = status]
                /\ ledger' = [ledger EXCEPT ![n] = Append(@, blk)]
           ELSE state' = [state EXCEPT ![n] = mem] /\ UNCHANGED ledger
    /\ UNCHANGED <<core, decided>>

\* Init of the core, for a ledger that is empty or not.
InitDbft(l) ==
    IF l = <<>> THEN MakeGenesisLastCommitStateDbft(ConsToStandard(MakeGenesisBlkDbft, NoCommit))
    ELSE LoadLastCommitStateDbft(l)

InitVrf(l) ==
    IF l = <<>> THEN MakeGenesisLastCommitStateVrf(ConsToStandard(MakeGenesisBlkVrf, NoCommit))
    ELSE LoadLastCommitStateVrf(l)

\* NewTDMMsgHandler, after the process has stopped anywhere.
StartCore(n) ==
    LET l == ledger[n]
        s == IF core = "vrf" THEN InitVrf(l) ELSE InitDbft(l)
    IN  /\ state' = [state EXCEPT ![n] = ReconstructLastCommit(s, l[Len(l)])]
        /\ UNCHANGED <<core, ledger, decided>>

\* ResetEpoch, ResetBftGroup: the validators of the coming height are installed.
ResetValidators(n) ==
    LET height == state[n].num + 1
        vals == NewValidatorSet(Members(GroupOf(height)), GroupOf(height), height)
    IN  /\ state[n].vals.no # vals.no
        /\ state' = [state EXCEPT ![n].vals = vals,
                                  ![n].chg = IF n \in vals.of THEN height ELSE @]
        /\ UNCHANGED <<core, ledger, decided>>

StateInit ==
    /\ core \in {"dbft", "vrf"}
    /\ state = [n \in Node |-> IF core = "vrf" THEN InitVrf(<<>>) ELSE InitDbft(<<>>)]
    /\ ledger = [n \in Node |-> <<ConsToStandard(IF core = "vrf" THEN MakeGenesisBlkVrf
                                                 ELSE MakeGenesisBlkDbft, NoCommit)>>]
    /\ decided = <<>>

StateNext ==
    \E n \in Node :
        \/ Decide(n)
        \/ CommitToo(n)
        \/ \E peer \in Node : ReceiveSyncBlk(n, peer)
        \/ StartCore(n)
        \/ ResetValidators(n)

StateSpec == StateInit /\ [][StateNext]_stateVars

(***************************************************************************)
(* Properties.                                                             *)
(***************************************************************************)
\* Whichever way two nodes came to a height, by commit, by synchronisation or by a
\* restart, and before or after a change of validators: once they have the same
\* validators, the block that one makes from its state (MakeBlockDPoS, MakeBlockVRF)
\* passes the ValidateBlock and the VRF check of the other.
BlocksValidate ==
    \A n, m \in Node : \A b \in Proposals(n) :
        (state[n].num = state[m].num /\ state[n].vals.no = state[m].vals.no)
        => /\ ValidateBlock(state[m], b)
           /\ core = "vrf" => ValidateProposalBlkByVrf(state[m], b)

\* A block that a node commits itself carries the hash of the block that this node has
\* stored before it (saveBlock), although the hash covers the precommits seen by whoever
\* wrote that block and the node may have synchronised it or restarted in between.
OwnLinks ==
    \A n \in Node : \A k \in 2..Len(ledger[n]) :
        ledger[n][k].ext.by = n => ledger[n][k].prev = CalcBlockHash(ledger[n][k - 1])

\* Two nodes with the same last block that are in the epoch of the next one expect the
\* same proposer: isProposerByDPoS goes on from the proposer of the last block.
SameProposer ==
    \A n, m \in Node :
        (/\ core = "dbft"
         /\ state[n].num = state[m].num
         /\ \A x \in {n, m} : state[x].vals.no = GroupOf(state[x].num + 1))
        => Proposer(state[n], 0) = Proposer(state[m], 0)
=============================================================================
