----------------------------- MODULE TDMVoting -----------------------------
(***************************************************************************)
(* The voting rules of the BFT core (TDMMsgHandler) at one height: what a  *)
(* validator prevotes, when it locks, what it precommits, when it gives up *)
(* a lock and when it commits.  One action per enter* function; who calls  *)
(* it, and when (timers, queues, block parts), is the subject of TDMNode.  *)
(*                                                                         *)
(* Votes that were signed stay in prevotes and precommits; a validator may *)
(* have seen any subset of them, so "no majority seen" is always possible  *)
(* and "a majority for b seen" needs a quorum of signers of b.  Validators *)
(* in Faulty do not follow the rules (nothing is persisted before a vote   *)
(* is sent, so a validator that restarts within a height is one of them):  *)
(* every vote of theirs is taken to be available from the start.           *)
(***************************************************************************)
EXTENDS Integers, FiniteSets

CONSTANTS
    Validator,   \* the validator set of the height, one vote each
    Faulty,      \* validators that do not follow the handler
    Block,       \* blocks that may be proposed at this height
    ValidBlock,  \* the ones blockExec.ValidateBlock accepts
    Proposer,    \* proposer of each round (isProposerFunc)
    MaxRound,    \* bound on rounds
    Nil          \* the nil block and the vote for nil

Honest == Validator \ Faulty
Round == 0 .. MaxRound

\* len(h.Validators.Validators), which is also TotalVotingPower.
N == Cardinality(Validator)

ASSUME ValidatorAssumption == IsFiniteSet(Validator)
ASSUME FaultyAssumption ==
    Faulty \subseteq Validator /\ 3 * Cardinality(Faulty) < N
ASSUME BlockAssumption == ValidBlock \subseteq Block /\ Nil \notin Block
ASSUME RoundAssumption == MaxRound \in Nat
ASSUME ProposerAssumption == Proposer \in [Round -> Validator]

VARIABLES
    round,         \* h.Round of each validator that follows the rules
    step,          \* h.Step: "propose" stands for all before Prevote,
                   \* "prevote" for Prevote and PrevoteWait, and so on
    proposal,      \* h.ProposalBlock
    lockedRound,   \* h.LockedRound
    lockedBlock,   \* h.LockedBlock
    proposals,     \* proposals sent, [round, block]
    prevotes,      \* prevotes signed, [val, round, block]
    precommits,    \* precommits signed, [val, round, block]
    decision,      \* the block written at this height
    relockMissed   \* history: who gave up a lock on seeing a majority of
                   \* prevotes for the very block it was locked on

vars == <<round, step, proposal, lockedRound, lockedBlock, proposals,
          prevotes, precommits, decision, relockMissed>>

Vote == [val : Honest, round : Round, block : Block \cup {Nil}]

TypeOK ==
    /\ round \in [Honest -> Round]
    /\ step \in [Honest -> {"propose", "prevote", "precommit"}]
    /\ proposal \in [Honest -> Block \cup {Nil}]
    /\ lockedRound \in [Honest -> Round]
    /\ lockedBlock \in [Honest -> Block \cup {Nil}]
    /\ proposals \subseteq [round : Round, block : Block]
    /\ prevotes \subseteq Vote
    /\ precommits \subseteq Vote
    /\ decision \in [Honest -> Block \cup {Nil}]
    /\ relockMissed \subseteq Honest

-----------------------------------------------------------------------------

\* Faulty variant: "two thirds or more" instead of "more than two thirds".
QuorumWithoutOne == (N * 2) \div 3

\* addVerifiedVote: quorum := TotalVotingPower * 2 / 3 + 1
Quorum == (N * 2) \div 3 + 1

Voters(votes, r, b) ==
    {v \in Honest : [val |-> v, round |-> r, block |-> b] \in votes} \cup Faulty

\* TwoThirdsMajority of the votes of a round, once they have been received.
Majority(votes, r, b) == Cardinality(Voters(votes, r, b)) >= Quorum

\* Who has sent any vote in a round, for HasHalfAny and HasTwoThirdsAny.
AnyVoters(votes, r) ==
    {v \in Honest : \E m \in votes : m.val = v /\ m.round = r} \cup Faulty

HasHalfAny(r) == Cardinality(AnyVoters(prevotes, r)) > N \div 3
HasTwoThirdsAny(votes, r) == Cardinality(AnyVoters(votes, r)) > (N * 2) \div 3

Init ==
    /\ round = [v \in Honest |-> 0]
    /\ step = [v \in Honest |-> "propose"]
    /\ proposal = [v \in Honest |-> Nil]
    /\ lockedRound = [v \in Honest |-> 0]
    /\ lockedBlock = [v \in Honest |-> Nil]
    /\ proposals = {}
    /\ prevotes = {}
    /\ precommits = {}
    /\ decision = [v \in Honest |-> Nil]
    /\ relockMissed = {}

\* enterCommit runs for a round that v has left, or in which it is past its
\* own precommit (addVote calls enterPrecommit first).
PastPrecommit(v, r) == r < round[v] \/ (r = round[v] /\ step[v] = "precommit")

\* tryFinalizeCommit and ApplyBlock: the block is at hand and valid.
CanFinalize(v, b) == b \in {proposal[v], lockedBlock[v]} \cap ValidBlock

\* Why v may enter round r: it timed out after its precommit; a third of the
\* validators prevoted in r, or two thirds precommitted in r; two thirds
\* precommitted nil in r - 1; or there is a commit that v cannot finalize.
MayEnter(v, r) ==
    \/ r = round[v] + 1 /\ step[v] = "precommit"
    \/ HasHalfAny(r)
    \/ HasTwoThirdsAny(precommits, r)
    \/ Majority(precommits, r - 1, Nil)
    \/ /\ r = round[v] + 1
       /\ \E q \in Round, b \in Block :
             PastPrecommit(v, q) /\ Majority(precommits, q, b) /\ ~CanFinalize(v, b)

\* Faulty variant: the lock is cleared together with the proposal.
EnterNewRoundUnlocked(v, r) ==
    /\ decision[v] = Nil
    /\ r > round[v]
    /\ MayEnter(v, r)
    /\ round' = [round EXCEPT ![v] = r]
    /\ step' = [step EXCEPT ![v] = "propose"]
    /\ proposal' = [proposal EXCEPT ![v] = Nil]
    /\ lockedBlock' = [lockedBlock EXCEPT ![v] = Nil]
    /\ UNCHANGED <<lockedRound, proposals, prevotes, precommits, decision,
                   relockMissed>>

\* enterNewRound: a later round, without its proposal.
EnterNewRound(v, r) ==
    /\ decision[v] = Nil
    /\ r > round[v]
    /\ MayEnter(v, r)
    /\ round' = [round EXCEPT ![v] = r]
    /\ step' = [step EXCEPT ![v] = "propose"]
    /\ proposal' = [proposal EXCEPT ![v] = Nil]
    /\ UNCHANGED <<lockedRound, lockedBlock, proposals, prevotes, precommits,
                   decision, relockMissed>>

\* decideProposal: a locked block is proposed again, otherwise a new one.
DecideProposal(v, b) ==
    /\ decision[v] = Nil
    /\ Proposer[round[v]] = v
    /\ step[v] = "propose"
    /\ \A p \in proposals : p.round # round[v]
    /\ IF lockedBlock[v] # Nil THEN b = lockedBlock[v] ELSE b \in ValidBlock
    /\ proposals' = proposals \cup {[round |-> round[v], block |-> b]}
    /\ UNCHANGED <<round, step, proposal, lockedRound, lockedBlock, prevotes,
                   precommits, decision, relockMissed>>

\* setProposal and addProposalBlockPart: the first complete block of the
\* round's proposer becomes ProposalBlock, at any step.
ReceiveProposal(v, b) ==
    /\ decision[v] = Nil
    /\ proposal[v] = Nil
    /\ \/ [round |-> round[v], block |-> b] \in proposals
       \/ Proposer[round[v]] \in Faulty
    /\ proposal' = [proposal EXCEPT ![v] = b]
    /\ UNCHANGED <<round, step, lockedRound, lockedBlock, proposals, prevotes,
                   precommits, decision, relockMissed>>

\* A lock binds for as many rounds as there are validators, then it lapses.
LockBinds(v) == lockedBlock[v] # Nil /\ round[v] - lockedRound[v] < N

\* Faulty variant: the proposal is prevoted without ValidateBlock.
PrevoteBlockUnvalidated(v) ==
    IF LockBinds(v) /\ lockedBlock[v] # proposal[v] THEN lockedBlock[v]
    ELSE proposal[v]

\* defaultDoPrevote: the block to prevote.
PrevoteBlock(v) ==
    IF LockBinds(v) /\ lockedBlock[v] # proposal[v] THEN lockedBlock[v]
    ELSE IF proposal[v] \in ValidBlock THEN proposal[v]
    ELSE Nil

EnterPrevote(v) ==
    /\ decision[v] = Nil
    /\ step[v] = "propose"
    /\ prevotes' = prevotes \cup
         {[val |-> v, round |-> round[v], block |-> PrevoteBlock(v)]}
    /\ step' = [step EXCEPT ![v] = "prevote"]
    /\ UNCHANGED <<round, proposal, lockedRound, lockedBlock, proposals,
                   precommits, decision, relockMissed>>

\* addVote on two thirds of any prevotes while the proposal is still missing:
\* enterPrevote only re-arms its timer, then enterPrevoteWait moves the step
\* past Prevote, and v never prevotes in the round.
EnterPrevoteWait(v) ==
    /\ decision[v] = Nil
    /\ step[v] = "propose"
    /\ proposal[v] = Nil
    /\ HasTwoThirdsAny(prevotes, round[v])
    /\ step' = [step EXCEPT ![v] = "prevote"]
    /\ UNCHANGED <<round, proposal, lockedRound, lockedBlock, proposals,
                   prevotes, precommits, decision, relockMissed>>

\* applyAddVote and updateRoundStep at the end of enterPrecommit.
Precommit(v, b) ==
    /\ decision[v] = Nil
    /\ step[v] # "precommit"
    /\ precommits' = precommits \cup {[val |-> v, round |-> round[v], block |-> b]}
    /\ step' = [step EXCEPT ![v] = "precommit"]
    /\ UNCHANGED <<round, proposal, proposals, prevotes, decision>>

\* enterPrecommit without a majority of prevotes (after its timers, or when
\* two thirds precommitted already), or with one for nil: the lock is kept.
PrecommitNil(v) ==
    /\ \/ step[v] = "prevote"
       \/ Majority(prevotes, round[v], Nil)
       \/ HasTwoThirdsAny(precommits, round[v])
    /\ Precommit(v, Nil)
    /\ UNCHANGED <<lockedRound, lockedBlock, relockMissed>>

\* Faulty variant: the lock is dated from the next round.
PrecommitLockNext(v) ==
    /\ proposal[v] # Nil
    /\ Majority(prevotes, round[v], proposal[v])
    /\ Precommit(v, proposal[v])
    /\ lockedRound' = [lockedRound EXCEPT ![v] = round[v] + 1]
    /\ lockedBlock' = [lockedBlock EXCEPT ![v] = proposal[v]]
    /\ UNCHANGED relockMissed

\* enterPrecommit with a majority for the proposal block: lock it.
PrecommitLock(v) ==
    /\ proposal[v] # Nil
    /\ Majority(prevotes, round[v], proposal[v])
    /\ Precommit(v, proposal[v])
    /\ lockedRound' = [lockedRound EXCEPT ![v] = round[v]]
    /\ lockedBlock' = [lockedBlock EXCEPT ![v] = proposal[v]]
    /\ UNCHANGED relockMissed

\* enterPrecommit with a majority for any other block: the lock is dropped,
\* the one on that very block too.
PrecommitUnlock(v, b) ==
    /\ b # proposal[v]
    /\ Majority(prevotes, round[v], b)
    /\ Precommit(v, Nil)
    /\ lockedRound' = [lockedRound EXCEPT ![v] = 0]
    /\ lockedBlock' = [lockedBlock EXCEPT ![v] = Nil]
    /\ relockMissed' = IF lockedBlock[v] = b THEN relockMissed \cup {v}
                       ELSE relockMissed

\* enterCommit, tryFinalizeCommit and ApplyBlock: the block is written, the
\* lock goes and v leaves the height.
EnterCommit(v, r, b) ==
    /\ decision[v] = Nil
    /\ PastPrecommit(v, r)
    /\ Majority(precommits, r, b)
    /\ CanFinalize(v, b)
    /\ decision' = [decision EXCEPT ![v] = b]
    /\ lockedRound' = [lockedRound EXCEPT ![v] = 0]
    /\ lockedBlock' = [lockedBlock EXCEPT ![v] = Nil]
    /\ UNCHANGED <<round, step, proposal, proposals, prevotes, precommits,
                   relockMissed>>

Next ==
    \E v \in Honest :
        \/ \E r \in Round : EnterNewRound(v, r)
        \/ \E b \in Block : DecideProposal(v, b)
        \/ \E b \in Block : ReceiveProposal(v, b)
        \/ EnterPrevote(v)
        \/ EnterPrevoteWait(v)
        \/ PrecommitNil(v)
        \/ PrecommitLock(v)
        \/ \E b \in Block : PrecommitUnlock(v, b)
        \/ \E r \in Round, b \in Block : EnterCommit(v, r, b)

Spec == Init /\ [][Next]_vars

-----------------------------------------------------------------------------

\* A block is only ever locked, and so prevoted again without a new
\* ValidateBlock (defaultDoPrevote), if some validator validated it.
LockIsValidated == \A v \in Honest : lockedBlock[v] \in ValidBlock \cup {Nil}

\* Within one round, at most one block can be committed (enterCommit).
OneCommitPerRound ==
    \A r \in Round : \A b, c \in Block :
        Majority(precommits, r, b) /\ Majority(precommits, r, c) => b = c

\* Blocks committed in rounds less than N apart are the same, as long as no
\* validator dropped its lock on seeing a majority for the locked block.
AgreementWhileLocked ==
    relockMissed = {} =>
        \A q, r \in Round : \A b, c \in Block :
            /\ Majority(precommits, q, b)
            /\ Majority(precommits, r, c)
            /\ q <= r
            /\ r < q + N
            => b = c

\* No two validators write different blocks at the height.
Agreement ==
    \A v, w \in Honest :
        decision[v] # Nil /\ decision[w] # Nil => decision[v] = decision[w]

=============================================================================
